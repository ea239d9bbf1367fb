------------------------------ MODULE Rotation ------------------------------
(***************************************************************************)
(* What the token service promises about the refresh tokens of a session   *)
(* that keeps to the contract, that is, whose requests do not race one     *)
(* another: the tokens granted for it are valid one at a time, each from   *)
(* the moment it is granted until it lapses for good; and once the session *)
(* has been ended, none of them is valid and no other is granted.  Nothing *)
(* is promised any more about a session that has left the contract.        *)
(***************************************************************************)
CONSTANT Sessions

VARIABLES
  kept,     \* the sessions that keep to the contract
  ended,    \* those of them that have been ended
  granted,  \* the tokens granted for them, records with a field sid
  valid     \* the tokens that would be honoured now

vars == <<kept, ended, granted, valid>>

Init == kept = Sessions /\ ended = {} /\ granted = {} /\ valid = {}

\* Any tokens lose their validity, and any sessions leave the contract.
Lapse ==
  /\ kept' \subseteq kept
  /\ ended' = ended \cap kept'
  /\ granted' = {t \in granted : t.sid \in kept'}
  /\ valid' \subseteq valid \cap granted'

Grant(t) ==
  /\ t \notin granted /\ t.sid \in kept \ ended
  /\ \A v \in valid : v.sid # t.sid
  /\ granted' = granted \cup {t}
  /\ valid' = valid \cup {t}
  /\ UNCHANGED <<kept, ended>>

\* Ending a session leaves the others alone.
End(s) ==
  /\ s \in kept \ ended
  /\ ended' = ended \cup {s}
  /\ valid' = {v \in valid : v.sid # s}
  /\ UNCHANGED <<kept, granted>>

Next == Lapse \/ (\E t \in granted' : Grant(t)) \/ \E s \in Sessions : End(s)

Spec == Init /\ [][Next]_vars
=============================================================================
