----------------------------- MODULE Ownership ------------------------------
(***************************************************************************)
(* What the tables promise together about the content of a server: every   *)
(* thing in them, a vault, an item or a version of one, belongs to one     *)
(* user for as long as it is there.  A thing is named by an id its creator *)
(* chose, so a name may come into use again once its thing is gone; but    *)
(* nothing passes from one user to another, and nothing appears but by the *)
(* one insert that creates it.                                             *)
(***************************************************************************)
CONSTANTS
  Things,  \* the names of things
  Owners   \* the users

VARIABLE belongings  \* pairs of a thing there is and its owner

TypeOK == belongings \subseteq Things \X Owners

Init == belongings = {}

\* A deletion takes what hangs from the deleted thing with it.
Vanish == belongings' \subseteq belongings

Appear(t, u) ==
  /\ \A o \in Owners : <<t, o>> \notin belongings
  /\ belongings' = belongings \cup {<<t, u>>}

Next == Vanish \/ \E t \in Things, u \in Owners : Appear(t, u)

Spec == Init /\ [][Next]_belongings
=============================================================================
