---------------------------- MODULE JobLifecycle ----------------------------
(***************************************************************************)
(* What a provisioning job promises whoever polls it, whatever the queue,  *)
(* the database rows and the SSH sessions do underneath: the status goes   *)
(* pending, running, final; each device gets at most one verdict, while    *)
(* the job is running; and the final status is what the verdicts add up to.*)
(***************************************************************************)
CONSTANTS
  Job,     \* job ids
  Device   \* device ids

VARIABLES
  status,  \* the status a poll of each job returns
  good,    \* per job, the devices recorded as configured
  bad      \* per job, the devices recorded as failed

vars == <<status, good, bad>>

Init ==
  /\ status = [j \in Job |-> "absent"]
  /\ good = [j \in Job |-> {}]
  /\ bad = [j \in Job |-> {}]

Submit(j) ==
  /\ status[j] = "absent"
  /\ status' = [status EXCEPT ![j] = "pending"]
  /\ UNCHANGED <<good, bad>>

Begin(j) ==
  /\ status[j] = "pending"
  /\ status' = [status EXCEPT ![j] = "running"]
  /\ UNCHANGED <<good, bad>>

Judge(j, d) ==
  /\ status[j] = "running"
  /\ d \notin good[j] \cup bad[j]
  /\ \/ good' = [good EXCEPT ![j] = @ \cup {d}] /\ UNCHANGED bad
     \/ bad' = [bad EXCEPT ![j] = @ \cup {d}] /\ UNCHANGED good
  /\ UNCHANGED status

Outcome(j) ==
  CASE bad[j] = {}                  -> "success"
    [] bad[j] # {} /\ good[j] = {}  -> "failed"
    [] bad[j] # {} /\ good[j] # {}  -> "partial"

Conclude(j) ==
  /\ status[j] = "running"
  /\ status' = [status EXCEPT ![j] = Outcome(j)]
  /\ UNCHANGED <<good, bad>>

Next == \E j \in Job :
  \/ Submit(j) \/ Begin(j) \/ Conclude(j)
  \/ \E d \in Device : Judge(j, d)

Spec == Init /\ [][Next]_vars
=============================================================================
