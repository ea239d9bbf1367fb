-------------------------- MODULE RegularRegister --------------------------
(***************************************************************************)
(* A register with several writers that is regular: a read gives a value   *)
(* of a write that has ended and that no write has replaced which began    *)
(* after that end and has ended itself.  Writes that overlap may leave     *)
(* several values, of which a read takes any.  Once there is a value there *)
(* always is one.                                                          *)
(***************************************************************************)
CONSTANT Writers

VARIABLES
  current,   \* the values a read may take
  replaced,  \* the values no read takes any more
  writing,   \* the writers with a write in progress
  before     \* of each write in progress, the values it found when it began

vars == <<current, replaced, writing, before>>

Init ==
  /\ current = {} /\ replaced = {}
  /\ writing = {} /\ before = [w \in Writers |-> {}]

Begin(w) ==
  /\ w \notin writing
  /\ writing' = writing \cup {w}
  /\ before' = [before EXCEPT ![w] = current]
  /\ UNCHANGED <<current, replaced>>

Leave(w) ==
  /\ w \in writing
  /\ writing' = writing \ {w}
  /\ before' = [before EXCEPT ![w] = {}]

\* The write never was.
Cancel(w) == Leave(w) /\ UNCHANGED <<current, replaced>>

\* The write puts the value x, which is new, in the place of what it found, and
\* possibly of what others have written in the meantime.
End(w, x) ==
  /\ Leave(w)
  /\ x \notin current \cup replaced
  /\ replaced' = replaced \cup before[w]
  /\ x \in current' /\ current' \subseteq (current \cup {x}) \ replaced'

Next == \E w \in Writers : Begin(w) \/ Cancel(w) \/ \E x \in current' : End(w, x)

Spec == Init /\ [][Next]_vars
=============================================================================
