---------------------------- MODULE Switchboard ----------------------------
(***************************************************************************)
(* What the sync server promises about the connections of the sessions     *)
(* whose upgrades do not overlap: such a session has one line at a time,   *)
(* on a connection that was not used before; and an order to disconnect    *)
(* sessions stands until none of them has a line, or the server restarts,  *)
(* which takes every line with it.  Nothing is promised any more about a   *)
(* session that has left the contract.                                     *)
(***************************************************************************)
CONSTANT Sessions

VARIABLES
  kept,   \* the sessions that keep to the contract
  lines,  \* pairs of such a session and a connection it has open
  spent,  \* the connections that are over
  orders  \* pairs of an order's name and the sessions it is to disconnect

vars == <<kept, lines, spent, orders>>

Init == kept = Sessions /\ lines = {} /\ spent = {} /\ orders = {}

Leave(s) ==
  /\ kept' = kept \ {s}
  /\ lines' = {l \in lines : l[1] # s}
  /\ UNCHANGED <<spent, orders>>

Connect(s, c) ==
  /\ s \in kept /\ c \notin spent
  /\ \A l \in lines : l[1] # s /\ l[2] # c
  /\ lines' = lines \cup {<<s, c>>}
  /\ UNCHANGED <<kept, spent, orders>>

\* Connections end, by either side, and any number at once.
HangUp ==
  /\ spent \subseteq spent'
  /\ lines' = {l \in lines : l[2] \notin spent'}
  /\ UNCHANGED kept

Order(o) == orders' = orders \cup {o} /\ UNCHANGED <<kept, lines, spent>>

Execute(o) ==
  /\ o \in orders /\ orders' = orders \ {o}
  /\ HangUp
  /\ \A l \in lines' : l[1] \notin o[2]

Restart == HangUp /\ lines' = {} /\ orders' = {}

Next ==
  \/ \E s \in Sessions : Leave(s)
  \/ \E l \in lines' : Connect(l[1], l[2])
  \/ HangUp /\ UNCHANGED orders
  \/ (\E o \in orders' : Order(o)) \/ (\E o \in orders : Execute(o)) \/ Restart

Spec == Init /\ [][Next]_vars
=============================================================================
