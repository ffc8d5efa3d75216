----------------------------- MODULE AlertBoard -----------------------------
(***************************************************************************)
(* What the table of alerts promises an operator, whatever notifications,  *)
(* workers and retries do underneath: of each alert it shows a state the   *)
(* alert has had, states follow each other as they did there, some left    *)
(* out, and what was acknowledged stays acknowledged.                      *)
(***************************************************************************)
EXTENDS Naturals

CONSTANT Alert

VARIABLES
  now,    \* the version each alert is in, 0 before it fires
  shown,  \* the version the board shows of each, 0 if it is not on the board
  acked   \* the alerts that are acknowledged

vars == <<now, shown, acked>>

Init ==
  /\ now = [a \in Alert |-> 0]
  /\ shown = [a \in Alert |-> 0]
  /\ acked = {}

Change(a) ==
  /\ now' = [now EXCEPT ![a] = @ + 1]
  /\ UNCHANGED <<shown, acked>>

Notify(a, v) ==
  /\ shown[a] < v /\ v <= now[a]
  /\ shown' = [shown EXCEPT ![a] = v]
  /\ UNCHANGED <<now, acked>>

Acknowledge(a) ==
  /\ shown[a] > 0
  /\ acked' = acked \cup {a}
  /\ UNCHANGED <<now, shown>>

Next == \E a \in Alert :
  \/ Change(a) \/ Acknowledge(a)
  \/ \E v \in 1 .. now[a] : Notify(a, v)

Spec == Init /\ [][Next]_vars
=============================================================================
