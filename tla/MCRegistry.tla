----------------------------- MODULE MCRegistry -----------------------------
(***************************************************************************)
(* Registry on a small instance: every two names collide in some table,    *)
(* fields and types share names, fields point forward to types that are    *)
(* not filled yet.                                                         *)
(***************************************************************************)
EXTENDS Registry, TLC

CONSTANTS a, b

MCHash == a :> 0 @@ b :> 4

MCFieldInfo ==
  [name : Name, type_ptr : {0, 2}, arr_size : {0}, offset : {0},
   ptr_depth : {0}, is_const : {FALSE}]
=============================================================================
