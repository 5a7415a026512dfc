---------------------------- MODULE MCNameTable ----------------------------
(***************************************************************************)
(* NameTable on a small instance: of the four names three collide in one   *)
(* bucket, so chains of one, two and three entries are built in every      *)
(* order, with overwrites at the head, in the middle and at the end.       *)
(***************************************************************************)
EXTENDS NameTable, TLC

CONSTANTS a, b, c, d

MCHash == a :> 0 @@ b :> 2 @@ c :> 4 @@ d :> 5
=============================================================================
