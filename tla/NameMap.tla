------------------------------ MODULE NameMap ------------------------------
(***************************************************************************)
(* What a name table promises its callers: a map from names to ids in      *)
(* which the last id given to a name is the one a lookup answers.          *)
(***************************************************************************)
CONSTANTS
  Name,
  Id,
  NoId   \* what a lookup answers for a name with no id; not in Id

VARIABLES
  map,     \* the id of each name, NoId while it has none
  call     \* the last call: "put" or "find", the name, and the id put or answered

vars == <<map, call>>

Init ==
  /\ map = [n \in Name |-> NoId]
  /\ call = <<>>

Put(n, i) ==
  /\ map' = [map EXCEPT ![n] = i]
  /\ call' = <<"put", n, i>>

Find(n) ==
  /\ call' = <<"find", n, map[n]>>
  /\ UNCHANGED map

Next == \E n \in Name : Find(n) \/ \E i \in Id : Put(n, i)

Spec == Init /\ [][Next]_vars
=============================================================================
