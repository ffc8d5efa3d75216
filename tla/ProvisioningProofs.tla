------------------------- MODULE ProvisioningProofs -------------------------
(***************************************************************************)
(* Theorems about Provisioning, for every set of jobs, devices, templates  *)
(* and texts and every number of deliveries.                               *)
(***************************************************************************)
EXTENDS Provisioning, TLAPS

USE DEF rows, broker, wire

\* A delivery belongs to a job.
LEMMA DeliveryJob == \A e \in Delivery : e[1] \in Job
BY DEF Delivery

\* The message of a fresh request is a delivery.
LEMMA FirstDelivery == \A j \in Job : <<j, 1>> \in Delivery
BY DeliveriesAssumption DEF Delivery

\* While the bound allows it, so is the redelivery of a message.
LEMMA AnotherDelivery ==
  \A e \in Delivery : e[2] < MaxDeliveries =>
    NextDelivery(e) \in Delivery /\ NextDelivery(e)[1] = e[1]
BY DeliveriesAssumption DEF Delivery, NextDelivery

-----------------------------------------------------------------------------
(* Which actions write which variable                                      *)

LEMMA WritesOfQueue ==
  [Next]_vars =>
    \/ UNCHANGED <<request, message>>
    \/ \E j \in Job : Request(j)
    \/ \E e \in Delivery : Broker(e)
<1> DEFINE Goal ==
          \/ UNCHANGED <<request, message>>
          \/ \E j \in Job : Request(j)
          \/ \E e \in Delivery : Broker(e)
<1> SUFFICES ASSUME [Next]_vars PROVE Goal  OBVIOUS
<1>1. ASSUME NEW j \in Job, Request(j) PROVE Goal
  BY <1>1
<1>2. ASSUME NEW e \in Delivery, Broker(e) PROVE Goal
  BY <1>2
<1>3. ASSUME NEW e \in Delivery, KillRun(e) PROVE Goal
  BY <1>3 DEF KillRun
<1>4. ASSUME NEW e \in Delivery, Task(e) PROVE Goal
  BY <1>4 DEF Task, FetchJob, MarkRunning, RenderJob, RenderRaises, ConnectFails,
     SendConfig, SendFails, SaveConfig, SaveConfigFails, RecordResult, RecordAudit,
     RecordRaises, FinishJob
<1>5. CASE Environment
  BY <1>5 DEF Environment, EditTemplate, DeleteTemplate, DeleteDevice, Reload
<1>6. CASE UNCHANGED vars  BY <1>6 DEF vars
<1> HIDE DEF Goal
<1> QED BY <1>1, <1>2, <1>3, <1>4, <1>5, <1>6 DEF Next

LEMMA WritesOfInventory ==
  [Next]_vars =>
    \/ UNCHANGED <<template, device>>
    \/ \E t \in Template : DeleteTemplate(t) \/ \E b \in Body : EditTemplate(t, b)
    \/ \E d \in Device : DeleteDevice(d)
<1> SUFFICES ASSUME [Next]_vars
             PROVE  \/ UNCHANGED <<template, device>>
                    \/ \E t \in Template : DeleteTemplate(t) \/ \E b \in Body : EditTemplate(t, b)
                    \/ \E d \in Device : DeleteDevice(d)
  OBVIOUS
<1>1. ASSUME NEW j \in Job, Request(j) PROVE UNCHANGED <<template, device>>
  BY <1>1 DEF Request, CreateJob, EnqueueJob, SaveTaskId, RequestDies
<1>2. ASSUME NEW e \in Delivery, Broker(e) \/ KillRun(e) PROVE UNCHANGED <<template, device>>
  BY <1>2 DEF Broker, Reserve, Start, Redeliver, DropReserved, KillRun, rows
<1>3. ASSUME NEW e \in Delivery, Task(e) PROVE UNCHANGED <<template, device>>
  BY <1>3 DEF Task, FetchJob, MarkRunning, RenderJob, RenderRaises, ConnectFails,
     SendConfig, SendFails, SaveConfig, SaveConfigFails, RecordResult,
     RecordAudit, RecordRaises, FinishJob, rows
<1>4. ASSUME NEW d \in Device, Reload(d) PROVE UNCHANGED <<template, device>>
  BY <1>4 DEF Reload, rows
<1>5. CASE UNCHANGED vars  BY <1>5 DEF vars
<1> QED BY <1>1, <1>2, <1>3, <1>4, <1>5 DEF Next, Environment

LEMMA WritesOfRows ==
  [Next]_vars =>
    \/ UNCHANGED <<result, audit>>
    \/ \E e \in Delivery : RecordResult(e) \/ RecordAudit(e)
    \/ \E d \in Device : DeleteDevice(d)
<1> DEFINE Goal ==
          \/ UNCHANGED <<result, audit>>
          \/ \E e \in Delivery : RecordResult(e) \/ RecordAudit(e)
          \/ \E d \in Device : DeleteDevice(d)
<1> SUFFICES ASSUME [Next]_vars PROVE Goal  OBVIOUS
<1>1. ASSUME NEW j \in Job, Request(j) PROVE Goal
  BY <1>1 DEF Request, CreateJob, EnqueueJob, SaveTaskId, RequestDies
<1>2. ASSUME NEW e \in Delivery, Broker(e) PROVE Goal
  BY <1>2 DEF Broker, Reserve, Start, Redeliver, DropReserved
<1>3. ASSUME NEW e \in Delivery, KillRun(e) PROVE Goal
  BY <1>3 DEF KillRun
<1>4. ASSUME NEW e \in Delivery, Task(e) PROVE Goal
  BY <1>4 DEF Task, FetchJob, MarkRunning, RenderJob, RenderRaises, ConnectFails,
     SendConfig, SendFails, SaveConfig, SaveConfigFails, RecordRaises, FinishJob
<1>5. CASE Environment
  BY <1>5 DEF Environment, EditTemplate, DeleteTemplate, Reload
<1>6. CASE UNCHANGED vars  BY <1>6 DEF vars
<1> HIDE DEF Goal
<1> QED BY <1>1, <1>2, <1>3, <1>4, <1>5, <1>6 DEF Next

LEMMA WritesOfRunning ==
  [Next]_vars =>
    \/ UNCHANGED running
    \/ \E e \in Delivery, d \in Device : SendConfig(e, d)
    \/ \E d \in Device : Reload(d)
<1> DEFINE Goal ==
          \/ UNCHANGED running
          \/ \E e \in Delivery, d \in Device : SendConfig(e, d)
          \/ \E d \in Device : Reload(d)
<1> SUFFICES ASSUME [Next]_vars PROVE Goal  OBVIOUS
<1>1. ASSUME NEW j \in Job, Request(j) PROVE Goal
  BY <1>1 DEF Request, CreateJob, EnqueueJob, SaveTaskId, RequestDies
<1>2. ASSUME NEW e \in Delivery, Broker(e) PROVE Goal
  BY <1>2 DEF Broker, Reserve, Start, Redeliver, DropReserved
<1>3. ASSUME NEW e \in Delivery, KillRun(e) PROVE Goal
  BY <1>3 DEF KillRun
<1>4. ASSUME NEW e \in Delivery, Task(e) PROVE Goal
  BY <1>4 DEF Task, FetchJob, MarkRunning, RenderJob, RenderRaises, ConnectFails,
     SendFails, SaveConfig, SaveConfigFails, RecordResult, RecordAudit,
     RecordRaises, FinishJob
<1>5. CASE Environment
  BY <1>5 DEF Environment, EditTemplate, DeleteTemplate, DeleteDevice
<1>6. CASE UNCHANGED vars  BY <1>6 DEF vars
<1> HIDE DEF Goal
<1> QED BY <1>1, <1>2, <1>3, <1>4, <1>5, <1>6 DEF Next

LEMMA WritesOfStartup ==
  [Next]_vars =>
    \/ UNCHANGED startup
    \/ \E e \in Delivery, ok \in BOOLEAN : SaveConfig(e, ok)
<1> DEFINE Goal ==
          \/ UNCHANGED startup
          \/ \E e \in Delivery, ok \in BOOLEAN : SaveConfig(e, ok)
<1> SUFFICES ASSUME [Next]_vars PROVE Goal  OBVIOUS
<1>1. ASSUME NEW j \in Job, Request(j) PROVE Goal
  BY <1>1 DEF Request, CreateJob, EnqueueJob, SaveTaskId, RequestDies
<1>2. ASSUME NEW e \in Delivery, Broker(e) PROVE Goal
  BY <1>2 DEF Broker, Reserve, Start, Redeliver, DropReserved
<1>3. ASSUME NEW e \in Delivery, KillRun(e) PROVE Goal
  BY <1>3 DEF KillRun
<1>4. ASSUME NEW e \in Delivery, Task(e) PROVE Goal
  BY <1>4 DEF Task, FetchJob, MarkRunning, RenderJob, RenderRaises, ConnectFails,
     SendConfig, SendFails, SaveConfigFails, RecordResult, RecordAudit,
     RecordRaises, FinishJob
<1>5. CASE Environment
  BY <1>5 DEF Environment, EditTemplate, DeleteTemplate, DeleteDevice, Reload
<1>6. CASE UNCHANGED vars  BY <1>6 DEF vars
<1> HIDE DEF Goal
<1> QED BY <1>1, <1>2, <1>3, <1>4, <1>5, <1>6 DEF Next

LEMMA WritesOfTouched ==
  [Next]_vars =>
    \/ UNCHANGED touched
    \/ \E e \in Delivery, d \in Device : SendConfig(e, d) \/ SendFails(e, d)
<1> DEFINE Goal ==
          \/ UNCHANGED touched
          \/ \E e \in Delivery, d \in Device : SendConfig(e, d) \/ SendFails(e, d)
<1> SUFFICES ASSUME [Next]_vars PROVE Goal  OBVIOUS
<1>1. ASSUME NEW j \in Job, Request(j) PROVE Goal
  BY <1>1 DEF Request, CreateJob, EnqueueJob, SaveTaskId, RequestDies
<1>2. ASSUME NEW e \in Delivery, Broker(e) PROVE Goal
  BY <1>2 DEF Broker, Reserve, Start, Redeliver, DropReserved
<1>3. ASSUME NEW e \in Delivery, KillRun(e) PROVE Goal
  BY <1>3 DEF KillRun
<1>4. ASSUME NEW e \in Delivery, Task(e) PROVE Goal
  BY <1>4 DEF Task, FetchJob, MarkRunning, RenderJob, RenderRaises, ConnectFails,
     SaveConfig, SaveConfigFails, RecordResult, RecordAudit, RecordRaises, FinishJob
<1>5. CASE Environment
  BY <1>5 DEF Environment, EditTemplate, DeleteTemplate, DeleteDevice, Reload
<1>6. CASE UNCHANGED vars  BY <1>6 DEF vars
<1> HIDE DEF Goal
<1> QED BY <1>1, <1>2, <1>3, <1>4, <1>5, <1>6 DEF Next

LEMMA WritesOfRuns ==
  [Next]_vars =>
    \/ UNCHANGED run
    \/ \E e \in Delivery : Start(e) \/ Task(e) \/ KillRun(e)
    \/ \E d \in Device : Reload(d)
<1> DEFINE Goal ==
          \/ UNCHANGED run
          \/ \E e \in Delivery : Start(e) \/ Task(e) \/ KillRun(e)
          \/ \E d \in Device : Reload(d)
<1> SUFFICES ASSUME [Next]_vars PROVE Goal  OBVIOUS
<1>1. ASSUME NEW j \in Job, Request(j) PROVE Goal
  BY <1>1 DEF Request, CreateJob, EnqueueJob, SaveTaskId, RequestDies
<1>2. ASSUME NEW e \in Delivery, Broker(e) PROVE Goal
  BY <1>2 DEF Broker, Reserve, Redeliver, DropReserved
<1>3. ASSUME NEW e \in Delivery, KillRun(e) PROVE Goal
  BY <1>3
<1>4. ASSUME NEW e \in Delivery, Task(e) PROVE Goal
  BY <1>4
<1>5. CASE Environment
  BY <1>5 DEF Environment, EditTemplate, DeleteTemplate, DeleteDevice
<1>6. CASE UNCHANGED vars  BY <1>6 DEF vars
<1> HIDE DEF Goal
<1> QED BY <1>1, <1>2, <1>3, <1>4, <1>5, <1>6 DEF Next

LEMMA WritesOfJobs ==
  [Next]_vars =>
    \/ UNCHANGED job
    \/ \E j \in Job : Request(j)
    \/ \E e \in Delivery : MarkRunning(e) \/ RenderJob(e) \/ FinishJob(e)
    \/ \E t \in Template : DeleteTemplate(t)
    \/ \E d \in Device : DeleteDevice(d)
<1> DEFINE Goal ==
          \/ UNCHANGED job
          \/ \E j \in Job : Request(j)
          \/ \E e \in Delivery : MarkRunning(e) \/ RenderJob(e) \/ FinishJob(e)
          \/ \E t \in Template : DeleteTemplate(t)
          \/ \E d \in Device : DeleteDevice(d)
<1> SUFFICES ASSUME [Next]_vars PROVE Goal  OBVIOUS
<1>1. ASSUME NEW j \in Job, Request(j) PROVE Goal
  BY <1>1
<1>2. ASSUME NEW e \in Delivery, Broker(e) PROVE Goal
  BY <1>2 DEF Broker, Reserve, Start, Redeliver, DropReserved
<1>3. ASSUME NEW e \in Delivery, KillRun(e) PROVE Goal
  BY <1>3 DEF KillRun
<1>4. ASSUME NEW e \in Delivery, Task(e) PROVE Goal
  BY <1>4 DEF Task, FetchJob, RenderRaises, ConnectFails, SendConfig, SendFails,
     SaveConfig, SaveConfigFails, RecordResult, RecordAudit, RecordRaises
<1>5. CASE Environment
  BY <1>5 DEF Environment, EditTemplate, Reload
<1>6. CASE UNCHANGED vars  BY <1>6 DEF vars
<1> HIDE DEF Goal
<1> QED BY <1>1, <1>2, <1>3, <1>4, <1>5, <1>6 DEF Next

-----------------------------------------------------------------------------
(* Type correctness, one lemma for the job rows, one for the runs          *)

LEMMA InitTyped == Init => TypeOK
BY FirstDelivery
   DEF Init, TypeOK, JobRow, RunState, NoJob, NewRun, Pc, Ended, Status, Finals

\* Every action that writes job rows keeps their columns in range.
LEMMA JobsTyped ==
  ASSUME job \in [Job -> JobRow], run \in [Delivery -> RunState], [Next]_vars
  PROVE  job' \in [Job -> JobRow]
<1>1. ASSUME NEW j \in Job, Request(j) PROVE job' \in [Job -> JobRow]
  <2>1. ASSUME NEW t \in Template \cup {None}, NEW ds \in SUBSET Device,
               CreateJob(j, t, ds)
        PROVE  job' \in [Job -> JobRow]
    BY <2>1 DEF CreateJob, JobRow, NoJob, Status
  <2>2. CASE SaveTaskId(j)
    BY <2>2 DEF SaveTaskId, JobRow
  <2> QED BY <1>1, <2>1, <2>2 DEF Request, EnqueueJob, RequestDies
<1>2. ASSUME NEW e \in Delivery, MarkRunning(e) \/ RenderJob(e) \/ FinishJob(e)
      PROVE  job' \in [Job -> JobRow]
  <2>1. e[1] \in Job
    BY DeliveryJob
  <2>2. CASE MarkRunning(e)
    BY <2>1, <2>2 DEF MarkRunning, JobRow, Status
  <2>3. CASE RenderJob(e)
    <3>1. run[e].body \in Body \cup {None}
      BY DEF RunState
    <3> QED BY <2>1, <2>3, <3>1 DEF RenderJob, JobRow
  <2>4. CASE FinishJob(e)
    <3>1. Verdict(run[e].won, run[e].lost) \in Status
      BY DEF Verdict, Status, Finals
    <3> DEFINE row == [job[e[1]] EXCEPT !.status = Verdict(run[e].won, run[e].lost),
                                        !.completed = TRUE]
    <3>2. job[e[1]] \in JobRow
      BY <2>1
    <3>3. row \in JobRow
      BY <3>1, <3>2 DEF JobRow
    <3>4. job' = [job EXCEPT ![e[1]] = row]
      BY <2>1, <3>2, <2>4 DEF FinishJob, JobRow
    <3> HIDE DEF row
    <3> QED BY <2>1, <3>3, <3>4
  <2> QED BY <1>2, <2>2, <2>3, <2>4
<1>3. ASSUME NEW t \in Template, DeleteTemplate(t) PROVE job' \in [Job -> JobRow]
  BY <1>3 DEF DeleteTemplate, JobRow
<1>4. ASSUME NEW d \in Device, DeleteDevice(d) PROVE job' \in [Job -> JobRow]
  BY <1>4 DEF DeleteDevice, JobRow
<1> QED BY <1>1, <1>2, <1>3, <1>4, WritesOfJobs

\* Every action keeps the locals of the task runs in range.
LEMMA RunsTyped ==
  ASSUME device \subseteq Device,
         job \in [Job -> JobRow], run \in [Delivery -> RunState],
         template \in [Template -> Body \cup {None}], [Next]_vars
  PROVE  run' \in [Delivery -> RunState]
<1>1. ASSUME NEW e \in Delivery, Task(e) PROVE run' \in [Delivery -> RunState]
  <2>1. CASE FetchJob(e)
    <3> DEFINE row == job[e[1]]
               b == IF row.template = None THEN None ELSE template[row.template]
    <3>1. row.template \in Template \cup {None} /\ row.devices \in SUBSET Device
      BY DeliveryJob DEF JobRow
    <3>2. b \in Body \cup {None}
      BY <3>1
    <3>3. run' = [run EXCEPT ![e] = [run[e] EXCEPT !.pc = "mark", !.body = b,
                                                    !.todo = row.devices]]
      BY <2>1 DEF FetchJob, RunState
    <3>4. run[e] \in RunState /\ "mark" \in Pc
      BY DEF Pc
    <3> HIDE DEF row, b
    <3>5. [run[e] EXCEPT !.pc = "mark", !.body = b, !.todo = row.devices] \in RunState
      BY <3>1, <3>2, <3>4 DEF RunState
    <3> QED BY <3>3, <3>5
  <2>2. CASE MarkRunning(e) \/ RenderJob(e) \/ RenderRaises(e)
    <3>1. PICK pc \in {"render", "loop", "raised"} : run' = [run EXCEPT ![e].pc = pc]
      BY <2>2 DEF MarkRunning, RenderJob, RenderRaises
    <3>2. pc \in Pc
      BY DEF Pc, Ended
    <3>3. run[e] \in RunState
      OBVIOUS
    <3>4. [run[e] EXCEPT !.pc = pc] \in RunState
      BY <3>2, <3>3 DEF RunState
    <3> QED BY <3>1, <3>4
  <2>3. ASSUME NEW d \in Device, ConnectFails(e, d) \/ SendConfig(e, d) \/ SendFails(e, d)
        PROVE  run' \in [Delivery -> RunState]
    <3>1. PICK pc \in Pc : Visit(e, d, pc, FALSE)
      BY <2>3 DEF ConnectFails, SendConfig, SendFails, Pc
    <3>2. [run[e] EXCEPT !.pc = pc, !.cur = d, !.ok = FALSE, !.todo = run[e].todo \ {d}] \in RunState
      BY DEF RunState
    <3> QED BY <3>1, <3>2 DEF Visit
  <2>4. ASSUME NEW ok \in BOOLEAN, SaveConfig(e, ok) PROVE run' \in [Delivery -> RunState]
    <3>1. [run[e] EXCEPT !.pc = "record", !.ok = ok] \in RunState
      BY DEF RunState, Pc
    <3> QED BY <2>4, <3>1 DEF SaveConfig
  <2>5. CASE SaveConfigFails(e)
    <3>1. [run[e] EXCEPT !.pc = "record", !.ok = FALSE] \in RunState
      BY DEF RunState, Pc
    <3> QED BY <2>5, <3>1 DEF SaveConfigFails
  <2>6. CASE RecordResult(e)
    <3> DEFINE w == Booked(e, run[e].won, run[e].ok)
               l == Booked(e, run[e].lost, ~run[e].ok)
    <3>0. run[e].cur \in Device
      BY <2>6 DEF RecordResult
    <3>1. w \in SUBSET Device /\ l \in SUBSET Device
      BY <3>0 DEF Booked, RunState
    <3> HIDE DEF w, l
    <3>2. [run[e] EXCEPT !.pc = "audit", !.won = w, !.lost = l] \in RunState
      BY <3>1 DEF RunState, Pc
    <3> QED BY <2>6, <3>2 DEF RecordResult, w, l
  <2>7. CASE RecordAudit(e) \/ RecordRaises(e) \/ FinishJob(e)
    BY <2>7 DEF RecordAudit, RecordRaises, FinishJob, RunState, Pc, Ended
  <2> QED BY <1>1, <2>1, <2>2, <2>3, <2>4, <2>5, <2>6, <2>7 DEF Task
<1>2. ASSUME NEW e \in Delivery, Start(e) \/ KillRun(e)
      PROVE  run' \in [Delivery -> RunState]
  BY <1>2 DEF Start, KillRun, RunState, Pc, Ended
<1>3. ASSUME NEW d \in Device, Reload(d) PROVE run' \in [Delivery -> RunState]
  <2>1. \A e \in Delivery : [run[e] EXCEPT !.pc = "record", !.ok = FALSE] \in RunState
    BY DEF RunState, Pc
  <2> QED BY <1>3, <2>1 DEF Reload
<1> QED BY <1>1, <1>2, <1>3, WritesOfRuns

LEMMA NextTyped == TypeOK /\ [Next]_vars => TypeOK'
<1> SUFFICES ASSUME TypeOK, [Next]_vars PROVE TypeOK'
  OBVIOUS
<1>1. job' \in [Job -> JobRow] /\ run' \in [Delivery -> RunState]
  BY JobsTyped, RunsTyped DEF TypeOK
<1>2. /\ request' \in [Job -> {"none", "saved", "sent", "answered", "error"}]
      /\ message' \in [Delivery -> {"none", "queued", "reserved", "dropped", "acked"}]
  BY FirstDelivery, AnotherDelivery, WritesOfQueue
     DEF TypeOK, Request, CreateJob, EnqueueJob, SaveTaskId, RequestDies,
         Broker, Reserve, Start, Redeliver, DropReserved
<1>3. template' \in [Template -> Body \cup {None}] /\ device' \subseteq Device
  BY WritesOfInventory DEF TypeOK, EditTemplate, DeleteTemplate, DeleteDevice
<1>4. result' \subseteq DeviceRow /\ audit' \subseteq DeviceRow
  <2>1. ASSUME NEW e \in Delivery, RecordResult(e) \/ RecordAudit(e)
        PROVE  result' \subseteq DeviceRow /\ audit' \subseteq DeviceRow
    <3>1. run[e].cur \in Device /\ run[e].ok \in BOOLEAN
      BY <2>1 DEF RecordResult, RecordAudit, TypeOK, RunState
    <3>2. RowOf(e) \in DeviceRow
      BY <3>1 DEF RowOf, DeviceRow
    <3> QED BY <2>1, <3>2 DEF RecordResult, RecordAudit, TypeOK
  <2> QED BY <2>1, WritesOfRows DEF TypeOK, DeleteDevice
<1>5. running' \in [Device -> SUBSET (Body \cup {None})]
  <2>1. ASSUME NEW e \in Delivery, NEW d \in Device, SendConfig(e, d)
        PROVE  running' \in [Device -> SUBSET (Body \cup {None})]
    <3>1. /\ run[e].body \in Body \cup {None}
          /\ running \in [Device -> SUBSET (Body \cup {None})]
      BY DEF TypeOK, RunState
    <3>2. running' = [running EXCEPT ![d] = @ \cup {run[e].body}]
      BY <2>1 DEF SendConfig
    <3> QED BY <3>1, <3>2
  <2>2. ASSUME NEW d \in Device, Reload(d)
        PROVE  running' \in [Device -> SUBSET (Body \cup {None})]
    BY <2>2 DEF Reload, TypeOK
  <2> QED BY <2>1, <2>2, WritesOfRunning DEF TypeOK
<1>6. startup' \in [Device -> SUBSET (Body \cup {None})]
  <2>1. ASSUME NEW e \in Delivery, NEW ok \in BOOLEAN, SaveConfig(e, ok)
        PROVE  startup' \in [Device -> SUBSET (Body \cup {None})]
    <3>1. CASE run[e].cur \in Device
      BY <2>1, <3>1 DEF SaveConfig, TypeOK
    <3>2. CASE run[e].cur \notin Device
      <4>1. startup' = startup
        BY <2>1, <3>2 DEF SaveConfig, TypeOK
      <4> QED BY <4>1 DEF TypeOK
    <3> QED BY <3>1, <3>2
  <2> QED BY <2>1, WritesOfStartup DEF TypeOK
<1>7. touched' \subseteq Delivery \X Device
  <2>1. \/ UNCHANGED touched
        \/ \E e \in Delivery, d \in Device : touched' = touched \cup {<<e, d>>}
    BY WritesOfTouched DEF SendConfig, SendFails
  <2> QED BY <2>1 DEF TypeOK
<1> QED BY <1>1, <1>2, <1>3, <1>4, <1>5, <1>6, <1>7 DEF TypeOK

\* Every reachable state of the rows, the queue, the runs and the devices has
\* its type: in particular the statuses are those of ProvisioningJob.Status.
THEOREM TypeCorrect == Spec => []TypeOK
BY InitTyped, NextTyped, PTL DEF Spec

-----------------------------------------------------------------------------
(* What a step does to the locals of one run                               *)

\* Every other run stays as it is, and run e has these locals (ok aside).
Becomes(e, pc, body, todo, cur, won, lost) ==
  /\ \A f \in Delivery : f # e => run'[f] = run[f]
  /\ run'[e].pc = pc /\ run'[e].body = body /\ run'[e].todo = todo
  /\ run'[e].cur = cur /\ run'[e].won = won /\ run'[e].lost = lost

RunsOK == run \in [Delivery -> RunState]

LEMMA AfterMove ==
  ASSUME RunsOK, NEW e \in Delivery, NEW pc, run' = [run EXCEPT ![e].pc = pc]
  PROVE  /\ Becomes(e, pc, run[e].body, run[e].todo, run[e].cur, run[e].won, run[e].lost)
         /\ run'[e].ok = run[e].ok
BY DEF RunsOK, Becomes, RunState

LEMMA AfterFetch ==
  ASSUME RunsOK, NEW e \in Delivery, FetchJob(e)
  PROVE  \E b : Becomes(e, "mark", b, job[e[1]].devices, run[e].cur, run[e].won, run[e].lost)
BY DEF RunsOK, FetchJob, Becomes, RunState

LEMMA AfterVisit ==
  ASSUME RunsOK, NEW e \in Delivery, NEW d, NEW pc, NEW ok \in BOOLEAN, Visit(e, d, pc, ok)
  PROVE  /\ Becomes(e, pc, run[e].body, run[e].todo \ {d}, d, run[e].won, run[e].lost)
         /\ run'[e].ok = ok
BY DEF RunsOK, Visit, Becomes, RunState

LEMMA AfterSave ==
  ASSUME RunsOK, NEW e \in Delivery, NEW ok \in BOOLEAN,
         run' = [run EXCEPT ![e] = [@ EXCEPT !.pc = "record", !.ok = ok]]
  PROVE  /\ Becomes(e, "record", run[e].body, run[e].todo, run[e].cur, run[e].won, run[e].lost)
         /\ run'[e].ok = ok
BY DEF RunsOK, Becomes, RunState

LEMMA AfterResult ==
  ASSUME RunsOK, NEW e \in Delivery, RecordResult(e)
  PROVE  /\ Becomes(e, "audit", run[e].body, run[e].todo, run[e].cur,
                    Booked(e, run[e].won, run[e].ok), Booked(e, run[e].lost, ~run[e].ok))
         /\ run'[e].ok = run[e].ok
<1> DEFINE w == Booked(e, run[e].won, run[e].ok)
           l == Booked(e, run[e].lost, ~run[e].ok)
<1>1. run' = [run EXCEPT ![e] = [@ EXCEPT !.pc = "audit", !.won = w, !.lost = l]]
  BY DEF RecordResult
<1> HIDE DEF w, l
<1>2. /\ Becomes(e, "audit", run[e].body, run[e].todo, run[e].cur, w, l)
      /\ run'[e].ok = run[e].ok
  BY <1>1 DEF RunsOK, Becomes, RunState
<1> QED BY <1>2 DEF w, l

LEMMA AfterReload ==
  ASSUME RunsOK, NEW d \in Device, Reload(d), NEW e \in Delivery
  PROVE  IF run[e].pc = "sent" /\ run[e].cur = d
           THEN /\ run'[e].pc = "record" /\ run'[e].ok = FALSE
                /\ run'[e].body = run[e].body /\ run'[e].todo = run[e].todo
                /\ run'[e].cur = run[e].cur
                /\ run'[e].won = run[e].won /\ run'[e].lost = run[e].lost
           ELSE run'[e] = run[e]
BY DEF RunsOK, Reload, RunState

\* A run changes by its own steps and when its device restarts.
LEMMA OnlyOwnSteps ==
  ASSUME TypeOK, [Next]_vars, NEW f \in Delivery
  PROVE  \/ run'[f] = run[f]
         \/ Start(f) \/ Task(f) \/ KillRun(f)
         \/ \E d \in Device : Reload(d)
<1>1. ASSUME NEW e \in Delivery, Start(e) \/ Task(e) \/ KillRun(e), e # f
      PROVE  run'[f] = run[f]
  BY <1>1
     DEF TypeOK, Start, KillRun, Task, FetchJob, MarkRunning, RenderJob, RenderRaises,
         ConnectFails, SendConfig, SendFails, Visit, SaveConfig, SaveConfigFails,
         RecordResult, RecordAudit, RecordRaises, FinishJob
<1> QED BY <1>1, WritesOfRuns

-----------------------------------------------------------------------------
(* Only rendered configuration reaches a device                            *)

\* A run that has passed its rendering holds a text the renderer accepts.
Pushing == {"loop", "sent", "record", "audit"}

RenderedFirst == \A e \in Delivery : run[e].pc \in Pushing => run[e].body \in Body \ BadBody

LEMMA RenderedFirstStep ==
  TypeOK /\ RenderedFirst /\ [Next]_vars => RenderedFirst'
<1> SUFFICES ASSUME TypeOK, RenderedFirst, [Next]_vars, NEW f \in Delivery
             PROVE  (run'[f].pc \in Pushing => run'[f].body \in Body \ BadBody)
  BY DEF RenderedFirst
<1>0. run \in [Delivery -> RunState] /\ run[f] \in RunState
      /\ (run[f].pc \in Pushing => run[f].body \in Body \ BadBody)
  BY DEF TypeOK, RenderedFirst
<1> DEFINE Goal == run'[f].pc \in Pushing => run'[f].body \in Body \ BadBody
<1>1. ASSUME NEW e \in Delivery, Start(e) \/ KillRun(e) PROVE Goal
  BY <1>0, <1>1, AfterMove DEF Start, KillRun, RunsOK, Becomes, Pushing
<1>2. ASSUME NEW e \in Delivery, Task(e) PROVE Goal
  <2>1. CASE FetchJob(e)
    BY <1>0, <2>1, AfterFetch DEF RunsOK, Becomes, Pushing
  <2>2. CASE MarkRunning(e) \/ RenderJob(e) \/ RenderRaises(e)
    BY <1>0, <2>2, AfterMove DEF MarkRunning, RenderJob, RenderRaises, RunsOK, Becomes, Pushing
  <2>3. ASSUME NEW d \in Device, ConnectFails(e, d) \/ SendConfig(e, d) \/ SendFails(e, d)
        PROVE  Goal
    BY <1>0, <2>3, AfterVisit DEF ConnectFails, SendConfig, SendFails, RunsOK, Becomes, Pushing
  <2>4. CASE (\E ok \in BOOLEAN : SaveConfig(e, ok)) \/ SaveConfigFails(e)
    BY <1>0, <2>4, AfterSave DEF SaveConfig, SaveConfigFails, RunsOK, Becomes, Pushing
  <2>5. CASE RecordResult(e)
    BY <1>0, <2>5, AfterResult DEF RecordResult, RunsOK, Becomes, Pushing
  <2>6. CASE RecordAudit(e) \/ RecordRaises(e) \/ FinishJob(e)
    BY <1>0, <2>6, AfterMove DEF RecordAudit, RecordRaises, FinishJob, RunsOK, Becomes, Pushing
  <2> QED BY <1>2, <2>1, <2>2, <2>3, <2>4, <2>5, <2>6 DEF Task
<1>3. ASSUME NEW d \in Device, Reload(d) PROVE Goal
  BY <1>0, <1>3, AfterReload DEF RunsOK, Pushing
<1> QED BY <1>0, <1>1, <1>2, <1>3, WritesOfRuns

\* No text the renderer rejects is in force on a device or saved on it.
THEOREM RenderedConfigOnly == Spec => []OnlyRenderedConfig
<1>1. Init => RenderedFirst /\ OnlyRenderedConfig
  BY DEF Init, RenderedFirst, OnlyRenderedConfig, Pushing, NewRun
<1>2. TypeOK /\ RenderedFirst /\ OnlyRenderedConfig /\ [Next]_vars => OnlyRenderedConfig'
  <2> SUFFICES ASSUME TypeOK, RenderedFirst, OnlyRenderedConfig, [Next]_vars,
                      NEW d \in Device
               PROVE  running'[d] \cup startup'[d] \subseteq Body \ BadBody
    BY DEF OnlyRenderedConfig
  <2>0. /\ running \in [Device -> SUBSET (Body \cup {None})]
        /\ startup \in [Device -> SUBSET (Body \cup {None})]
        /\ \A c \in Device : running[c] \cup startup[c] \subseteq Body \ BadBody
    BY DEF TypeOK, OnlyRenderedConfig
  <2>1. running'[d] \subseteq Body \ BadBody
    <3>1. ASSUME NEW e \in Delivery, NEW c \in Device, SendConfig(e, c)
          PROVE  running'[d] \subseteq Body \ BadBody
      BY <2>0, <3>1 DEF SendConfig, RenderedFirst, Pushing
    <3>2. ASSUME NEW c \in Device, Reload(c) PROVE running'[d] \subseteq Body \ BadBody
      BY <2>0, <3>2 DEF Reload
    <3> QED BY <2>0, <3>1, <3>2, WritesOfRunning
  <2>2. startup'[d] \subseteq Body \ BadBody
    <3>1. ASSUME NEW e \in Delivery, NEW ok \in BOOLEAN, SaveConfig(e, ok)
          PROVE  startup'[d] \subseteq Body \ BadBody
      BY <2>0, <3>1 DEF SaveConfig
    <3> QED BY <2>0, <3>1, WritesOfStartup
  <2> QED BY <2>1, <2>2
<1> QED BY <1>1, <1>2, RenderedFirstStep, TypeCorrect, PTL DEF Spec
-----------------------------------------------------------------------------
(* The task finds its job                                                  *)

\* Nothing is queued for a job before its row is committed, and a run is idle
\* until its delivery is acknowledged.
NotQueuedEarly  == \A e \in Delivery : request[e[1]] \in {"none", "saved"} => message[e] = "none"
IdleUntilAcked  == \A e \in Delivery : message[e] # "acked" => run[e].pc = "idle"
RowBeforeAnswer == \A j \in Job : request[j] # "none" => job[j].status # "absent"

LEMMA NotQueuedEarlyStep ==
  TypeOK /\ NotQueuedEarly /\ [Next]_vars => NotQueuedEarly'
<1> SUFFICES ASSUME TypeOK, NotQueuedEarly, [Next]_vars, NEW f \in Delivery
             PROVE  request'[f[1]] \in {"none", "saved"} => message'[f] = "none"
  BY DEF NotQueuedEarly
<1> DEFINE Goal == request'[f[1]] \in {"none", "saved"} => message'[f] = "none"
<1>0. /\ request \in [Job -> {"none", "saved", "sent", "answered", "error"}]
      /\ message \in [Delivery -> {"none", "queued", "reserved", "dropped", "acked"}]
      /\ f[1] \in Job
      /\ request[f[1]] \in {"none", "saved"} => message[f] = "none"
  BY DeliveryJob DEF TypeOK, NotQueuedEarly
<1>1. ASSUME NEW j \in Job, Request(j) PROVE Goal
  <2>1. <<j, 1>> \in Delivery /\ <<j, 1>>[1] = j
    BY FirstDelivery
  <2> QED
    BY <1>0, <1>1, <2>1 DEF Request, CreateJob, EnqueueJob, SaveTaskId, RequestDies
<1>2. ASSUME NEW e \in Delivery, Broker(e) PROVE Goal
  <2>1. request[e[1]] \in {"none", "saved"} => message[e] = "none"
    BY DEF NotQueuedEarly
  <2> QED
    BY <1>0, <1>2, <2>1, AnotherDelivery DEF Broker, Reserve, Start, Redeliver, DropReserved
<1> QED BY <1>0, <1>1, <1>2, WritesOfQueue

LEMMA IdleUntilAckedStep ==
  TypeOK /\ NotQueuedEarly /\ IdleUntilAcked /\ [Next]_vars => IdleUntilAcked'
<1> SUFFICES ASSUME TypeOK, NotQueuedEarly, IdleUntilAcked, [Next]_vars, NEW f \in Delivery
             PROVE  message'[f] # "acked" => run'[f].pc = "idle"
  BY DEF IdleUntilAcked
<1>0. /\ message \in [Delivery -> {"none", "queued", "reserved", "dropped", "acked"}]
      /\ RunsOK
      /\ message[f] # "acked" => run[f].pc = "idle"
  BY DEF TypeOK, IdleUntilAcked, RunsOK
<1>1. message[f] = "acked" => message'[f] = "acked"
  <2>1. ASSUME NEW j \in Job, EnqueueJob(j), f = <<j, 1>> PROVE message[f] # "acked"
    <3>1. f[1] = j
      BY <2>1
    <3> QED BY <2>1, <3>1 DEF EnqueueJob, NotQueuedEarly
  <2>2. ASSUME NEW j \in Job, Request(j), message[f] = "acked" PROVE message'[f] = "acked"
    BY <1>0, <2>1, <2>2, FirstDelivery DEF Request, CreateJob, EnqueueJob, SaveTaskId, RequestDies
  <2>3. ASSUME NEW e \in Delivery, Broker(e), message[f] = "acked" PROVE message'[f] = "acked"
    BY <1>0, <2>3, AnotherDelivery DEF Broker, Reserve, Start, Redeliver, DropReserved
  <2> QED BY <2>2, <2>3, WritesOfQueue
<1>2. ASSUME run[f].pc = "idle", run'[f].pc # "idle" PROVE message'[f] = "acked"
  <2>1. ASSUME NEW e \in Delivery, Start(e) PROVE message'[f] = "acked"
    <3>1. f # e => run'[f] = run[f]
      BY <1>0, <2>1, AfterMove DEF Start, Becomes
    <3> QED BY <1>0, <1>2, <2>1, <3>1 DEF Start
  <2>2. ASSUME NEW e \in Delivery, Task(e) \/ KillRun(e) PROVE FALSE
    <3>1. e # f
      BY <1>2, <2>2
         DEF Task, FetchJob, MarkRunning, RenderJob, RenderRaises, ConnectFails, SendConfig,
             SendFails, SaveConfig, SaveConfigFails, RecordResult, RecordAudit,
             RecordRaises, FinishJob, KillRun, Live, Ended
    <3>2. run'[f] = run[f]
      BY <1>0, <2>2, <3>1
         DEF RunsOK, Task, FetchJob, MarkRunning, RenderJob, RenderRaises, ConnectFails,
             SendConfig, SendFails, Visit, SaveConfig, SaveConfigFails, RecordResult,
             RecordAudit, RecordRaises, FinishJob, KillRun
    <3> QED BY <1>2, <3>2
  <2>3. ASSUME NEW d \in Device, Reload(d) PROVE FALSE
    BY <1>0, <1>2, <2>3, AfterReload
  <2> QED BY <1>2, <2>1, <2>2, <2>3, WritesOfRuns
<1> QED BY <1>0, <1>1, <1>2

LEMMA RowBeforeAnswerStep ==
  TypeOK /\ RowBeforeAnswer /\ [Next]_vars => RowBeforeAnswer'
<1> SUFFICES ASSUME TypeOK, RowBeforeAnswer, [Next]_vars, NEW k \in Job
             PROVE  request'[k] # "none" => job'[k].status # "absent"
  BY DEF RowBeforeAnswer
<1> DEFINE Goal == request'[k] # "none" => job'[k].status # "absent"
<1>0. /\ job \in [Job -> JobRow]
      /\ request \in [Job -> {"none", "saved", "sent", "answered", "error"}]
      /\ request[k] # "none" => job[k].status # "absent"
  BY DEF TypeOK, RowBeforeAnswer
<1>1. ASSUME NEW j \in Job, Request(j) PROVE Goal
  <2>1. ASSUME NEW t, NEW ds, CreateJob(j, t, ds) PROVE Goal
    <3> DEFINE row == [NoJob EXCEPT !.status = "pending", !.template = t, !.devices = ds]
    <3>1. job' = [job EXCEPT ![j] = row] /\ row.status = "pending"
      BY <2>1 DEF CreateJob, NoJob
    <3>2. j # k => request'[k] = request[k]
      BY <1>0, <2>1 DEF CreateJob
    <3> HIDE DEF row
    <3> QED BY <1>0, <3>1, <3>2
  <2>2. CASE SaveTaskId(j)
    <3>1. job'[k].status = job[k].status
      BY <1>0, <2>2 DEF SaveTaskId, JobRow
    <3> QED BY <1>0, <2>2, <3>1 DEF SaveTaskId
  <2>3. CASE EnqueueJob(j) \/ RequestDies(j)
    BY <1>0, <2>3 DEF EnqueueJob, RequestDies
  <2> QED BY <1>1, <2>1, <2>2, <2>3 DEF Request
<1>2. ASSUME NEW e \in Delivery, MarkRunning(e) \/ RenderJob(e) \/ FinishJob(e) PROVE Goal
  <2>1. Verdict(run[e].won, run[e].lost) # "absent" /\ e[1] \in Job
    BY DeliveryJob DEF Verdict
  <2> QED BY <1>0, <1>2, <2>1 DEF MarkRunning, RenderJob, FinishJob, JobRow
<1>3. ASSUME NEW t \in Template, DeleteTemplate(t) PROVE Goal
  BY <1>0, <1>3 DEF DeleteTemplate, JobRow
<1>4. ASSUME NEW d \in Device, DeleteDevice(d) PROVE Goal
  BY <1>0, <1>4 DEF DeleteDevice, JobRow
<1>5. ASSUME NEW e \in Delivery, Broker(e) PROVE request' = request /\ job' = job
  BY <1>5 DEF Broker, Reserve, Start, Redeliver, DropReserved
<1> QED BY <1>0, <1>1, <1>2, <1>3, <1>4, <1>5, WritesOfQueue, WritesOfJobs

\* No delivery of a task message, however often it is repeated, reaches a
\* worker before the row of its job is there: objects.get finds it.
THEOREM JobIsFound == Spec => []TaskFindsJob
<1>1. Init => NotQueuedEarly /\ RowBeforeAnswer
  BY DEF Init, NotQueuedEarly, RowBeforeAnswer
<1>2. NotQueuedEarly /\ RowBeforeAnswer => TaskFindsJob
  BY DeliveryJob DEF NotQueuedEarly, RowBeforeAnswer, TaskFindsJob
<1> QED
  BY <1>1, <1>2, NotQueuedEarlyStep, RowBeforeAnswerStep, TypeCorrect, PTL DEF Spec
-----------------------------------------------------------------------------
(* A success on record survives a restart                                  *)

\* What a device would lose in a restart it has in force now.
StartupInForce == \A d \in Device : startup[d] \subseteq running[d]

\* Where a run stands tells what its device holds: after send_config_set the
\* text is in force, after a successful save_config it is saved.
RunOnDevice(e) ==
  /\ run[e].pc \in {"sent", "record", "audit"} => run[e].cur \in Device
  /\ run[e].pc = "sent" => run[e].body \in running[run[e].cur]
  /\ run[e].pc \in {"record", "audit"} /\ run[e].ok => run[e].body \in startup[run[e].cur]

\* Only a run that has fetched its job writes rows, so its text is settled.
Fetched(e)   == run[e].pc \notin {"idle", "begin"}
RowsOfFetched == \A r \in audit \cup result : Fetched(r.run)

SavedInv ==
  /\ StartupInForce
  /\ \A e \in Delivery : RunOnDevice(e)
  /\ RowsOfFetched
  /\ SuccessIsSaved

LEMMA StartupInForceStep ==
  ASSUME TypeOK, StartupInForce, [Next]_vars
  PROVE  StartupInForce' /\ \A d \in Device : startup[d] \subseteq startup'[d]
<1>0. /\ running \in [Device -> SUBSET (Body \cup {None})]
      /\ startup \in [Device -> SUBSET (Body \cup {None})]
      /\ \A d \in Device : startup[d] \subseteq running[d]
  BY DEF TypeOK, StartupInForce
<1>1. ASSUME NEW e \in Delivery, NEW ok \in BOOLEAN, SaveConfig(e, ok)
      PROVE  StartupInForce' /\ \A d \in Device : startup[d] \subseteq startup'[d]
  BY <1>0, <1>1 DEF SaveConfig, StartupInForce
<1>2. CASE UNCHANGED startup
  <2>1. ASSUME NEW e \in Delivery, NEW d \in Device, SendConfig(e, d) PROVE StartupInForce'
    BY <1>0, <2>1, <1>2 DEF SendConfig, StartupInForce
  <2>2. ASSUME NEW d \in Device, Reload(d) PROVE StartupInForce'
    BY <1>0, <2>2, <1>2 DEF Reload, StartupInForce
  <2> QED BY <1>0, <1>2, <2>1, <2>2, WritesOfRunning DEF StartupInForce
<1> QED BY <1>1, <1>2, WritesOfStartup

\* Only a reload takes configuration away from a device.
LEMMA RunningShrinks ==
  ASSUME TypeOK, [Next]_vars, NEW d \in Device
  PROVE  running[d] \subseteq running'[d] \/ Reload(d)
<1>0. running \in [Device -> SUBSET (Body \cup {None})]
  BY DEF TypeOK
<1>1. ASSUME NEW e \in Delivery, NEW c \in Device, SendConfig(e, c)
      PROVE  running[d] \subseteq running'[d]
  BY <1>0, <1>1 DEF SendConfig
<1>2. ASSUME NEW c \in Device, Reload(c), c # d PROVE running[d] \subseteq running'[d]
  BY <1>0, <1>2 DEF Reload
<1> QED BY <1>1, <1>2, WritesOfRunning

LEMMA RunOnDeviceStep ==
  ASSUME TypeOK, StartupInForce, \A e \in Delivery : RunOnDevice(e), [Next]_vars,
         NEW f \in Delivery
  PROVE  RunOnDevice(f)'
<1> DEFINE Goal == RunOnDevice(f)'
<1>0. /\ RunsOK
      /\ RunOnDevice(f)
      /\ running \in [Device -> SUBSET (Body \cup {None})]
      /\ startup \in [Device -> SUBSET (Body \cup {None})]
      /\ \A d \in Device : startup[d] \subseteq startup'[d]
  BY StartupInForceStep DEF TypeOK, RunsOK
<1>1. ASSUME run'[f] = run[f] PROVE Goal
  <2>1. ASSUME run[f].pc = "sent" PROVE run[f].body \in running'[run[f].cur]
    <3>1. ~ Reload(run[f].cur)
      <4>1. ASSUME Reload(run[f].cur) PROVE run'[f].pc = "record"
        BY <1>0, <2>1, <4>1, AfterReload DEF RunOnDevice
      <4> QED BY <4>1, <1>1, <2>1
    <3> QED BY <1>0, <2>1, <3>1, RunningShrinks DEF RunOnDevice
  <2> QED BY <1>0, <1>1, <2>1 DEF RunOnDevice
<1>2. ASSUME Start(f) \/ KillRun(f) PROVE Goal
  <2>1. PICK pc \in {"begin", "killed"} : run' = [run EXCEPT ![f].pc = pc]
    BY <1>2 DEF Start, KillRun
  <2> QED BY <1>0, <2>1, AfterMove DEF Becomes, RunOnDevice
<1>3. CASE FetchJob(f)
  BY <1>0, <1>3, AfterFetch DEF Becomes, RunOnDevice
<1>4. CASE MarkRunning(f) \/ RenderJob(f) \/ RenderRaises(f)
  <2>1. PICK pc \in {"render", "loop", "raised"} : run' = [run EXCEPT ![f].pc = pc]
    BY <1>4 DEF MarkRunning, RenderJob, RenderRaises
  <2> QED BY <1>0, <2>1, AfterMove DEF Becomes, RunOnDevice
<1>5. ASSUME NEW d \in Device, ConnectFails(f, d) \/ SendFails(f, d) PROVE Goal
  <2>1. Visit(f, d, "record", FALSE)
    BY <1>5 DEF ConnectFails, SendFails
  <2>2. /\ Becomes(f, "record", run[f].body, run[f].todo \ {d}, d, run[f].won, run[f].lost)
        /\ run'[f].ok = FALSE
    BY <1>0, <2>1, AfterVisit
  <2> QED BY <2>2 DEF Becomes, RunOnDevice
<1>6. ASSUME NEW d \in Device, SendConfig(f, d) PROVE Goal
  <2>1. run[f].body \in running'[d]
    BY <1>0, <1>6 DEF SendConfig
  <2>2. Visit(f, d, "sent", FALSE)
    BY <1>6 DEF SendConfig
  <2>3. Becomes(f, "sent", run[f].body, run[f].todo \ {d}, d, run[f].won, run[f].lost)
    BY <1>0, <2>2, AfterVisit
  <2> QED BY <2>1, <2>3 DEF Becomes, RunOnDevice
<1>7. ASSUME NEW ok \in BOOLEAN, SaveConfig(f, ok) PROVE Goal
  <2>1. run[f].body \in startup'[run[f].cur] /\ run[f].cur \in Device
    BY <1>0, <1>7 DEF SaveConfig, RunOnDevice
  <2>2. Becomes(f, "record", run[f].body, run[f].todo, run[f].cur, run[f].won, run[f].lost)
    BY <1>0, <1>7, AfterSave DEF SaveConfig
  <2> QED BY <2>1, <2>2 DEF Becomes, RunOnDevice
<1>8. CASE SaveConfigFails(f)
  BY <1>0, <1>8, AfterSave DEF SaveConfigFails, Becomes, RunOnDevice
<1>9. CASE RecordResult(f)
  BY <1>0, <1>9, AfterResult DEF RecordResult, Becomes, RunOnDevice
<1>10. CASE RecordAudit(f) \/ RecordRaises(f) \/ FinishJob(f)
  <2>1. PICK pc \in {"loop", "raised", "done"} : run' = [run EXCEPT ![f].pc = pc]
    BY <1>10 DEF RecordAudit, RecordRaises, FinishJob
  <2> QED BY <1>0, <2>1, AfterMove DEF Becomes, RunOnDevice
<1>11. ASSUME NEW d \in Device, Reload(d), run'[f] # run[f] PROVE Goal
  BY <1>0, <1>11, AfterReload DEF RunOnDevice
<1>12. \/ run'[f] = run[f]
       \/ Start(f) \/ Task(f) \/ KillRun(f)
       \/ \E d \in Device : Reload(d)
  BY OnlyOwnSteps DEF TypeOK, RunsOK
<1> QED
  BY <1>1, <1>2, <1>3, <1>4, <1>5, <1>6, <1>7, <1>8, <1>9, <1>10, <1>11, <1>12 DEF Task

\* A run that has fetched its job keeps the text it fetched.
LEMMA BodyKept ==
  ASSUME TypeOK, IdleUntilAcked, [Next]_vars, NEW f \in Delivery, Fetched(f)
  PROVE  Fetched(f)' /\ run'[f].body = run[f].body
<1> DEFINE Goal == Fetched(f)' /\ run'[f].body = run[f].body
<1>0. RunsOK /\ run[f].pc # "idle" /\ run[f].pc # "begin"
  BY DEF TypeOK, RunsOK, Fetched
<1>1. CASE run'[f] = run[f]
  BY <1>0, <1>1 DEF Fetched
<1>2. ~ Start(f) /\ ~ FetchJob(f)
  BY <1>0 DEF Start, IdleUntilAcked, FetchJob
<1>3. CASE MarkRunning(f) \/ RenderJob(f) \/ RenderRaises(f) \/ KillRun(f)
  BY <1>0, <1>3, AfterMove DEF MarkRunning, RenderJob, RenderRaises, KillRun, Becomes, Fetched
<1>4. ASSUME NEW d \in Device, ConnectFails(f, d) \/ SendConfig(f, d) \/ SendFails(f, d)
      PROVE  Goal
  <2>1. PICK pc \in {"sent", "record"} : Visit(f, d, pc, FALSE)
    BY <1>4 DEF ConnectFails, SendConfig, SendFails
  <2>2. Becomes(f, pc, run[f].body, run[f].todo \ {d}, d, run[f].won, run[f].lost)
    BY <1>0, <2>1, AfterVisit
  <2> QED BY <2>2 DEF Becomes, Fetched
<1>5. CASE (\E ok \in BOOLEAN : SaveConfig(f, ok)) \/ SaveConfigFails(f)
  BY <1>0, <1>5, AfterSave DEF SaveConfig, SaveConfigFails, Becomes, Fetched
<1>6. CASE RecordResult(f)
  BY <1>0, <1>6, AfterResult DEF Becomes, Fetched
<1>7. CASE RecordAudit(f) \/ RecordRaises(f) \/ FinishJob(f)
  <2>1. PICK pc \in {"loop", "raised", "done"} : run' = [run EXCEPT ![f].pc = pc]
    BY <1>7 DEF RecordAudit, RecordRaises, FinishJob
  <2> QED BY <1>0, <2>1, AfterMove DEF Becomes, Fetched
<1>8. ASSUME NEW d \in Device, Reload(d) PROVE Goal
  BY <1>0, <1>8, AfterReload DEF Fetched
<1> QED
  BY <1>0, <1>1, <1>2, <1>3, <1>4, <1>5, <1>6, <1>7, <1>8, OnlyOwnSteps DEF Task

LEMMA SavedInvStep ==
  TypeOK /\ IdleUntilAcked /\ SavedInv /\ [Next]_vars => SavedInv'
<1> SUFFICES ASSUME TypeOK, IdleUntilAcked, SavedInv, [Next]_vars PROVE SavedInv'
  OBVIOUS
<1>1. StartupInForce' /\ \A d \in Device : startup[d] \subseteq startup'[d]
  BY StartupInForceStep DEF SavedInv
<1>2. \A e \in Delivery : RunOnDevice(e)'
  BY RunOnDeviceStep DEF SavedInv
<1>3. ASSUME NEW r \in audit' \cup result'
      PROVE  Fetched(r.run)' /\ (r.success => run'[r.run].body \in startup'[r.device])
  <2>1. CASE r \in audit \cup result
    <3>1. r.run \in Delivery /\ r.device \in Device
      BY <2>1 DEF TypeOK, DeviceRow
    <3>2. Fetched(r.run) /\ (r.success => run[r.run].body \in startup[r.device])
      BY <2>1 DEF SavedInv, RowsOfFetched, SuccessIsSaved
    <3> QED BY <1>1, <3>1, <3>2, BodyKept
  <2>2. CASE r \notin audit \cup result
    <3>1. PICK e \in Delivery : (RecordResult(e) \/ RecordAudit(e)) /\ r = RowOf(e)
      BY <2>2, WritesOfRows DEF RecordResult, RecordAudit, DeleteDevice
    <3>2. r.run = e /\ r.device = run[e].cur /\ r.success = run[e].ok
      BY <3>1 DEF RowOf
    <3>3. run[e].pc \in {"record", "audit"} /\ run[e].cur \in Device
      BY <3>1 DEF RecordResult, RecordAudit, TypeOK
    <3>4. RunOnDevice(e) /\ Fetched(e)
      BY <3>3 DEF SavedInv, Fetched
    <3>5. Fetched(e)' /\ run'[e].body = run[e].body
      BY <3>4, BodyKept
    <3>6. r.success => run[e].body \in startup'[run[e].cur]
      BY <1>1, <3>2, <3>3, <3>4 DEF RunOnDevice
    <3> QED BY <3>2, <3>5, <3>6
  <2> QED BY <2>1, <2>2
<1> QED BY <1>1, <1>2, <1>3 DEF SavedInv, RowsOfFetched, SuccessIsSaved

\* A success on record, in a job's results or in the audit trail, means the
\* text is in the device's startup configuration, from then on: whatever other
\* jobs, redeliveries and reloads do.
THEOREM RecordedSuccessIsSaved == Spec => []SuccessIsSaved
<1>1. Init => NotQueuedEarly /\ IdleUntilAcked /\ SavedInv
  BY DEF Init, NotQueuedEarly, IdleUntilAcked, SavedInv, StartupInForce, RunOnDevice,
         RowsOfFetched, SuccessIsSaved, NewRun
<1>2. SavedInv => SuccessIsSaved
  BY DEF SavedInv
<1> QED
  BY <1>1, <1>2, NotQueuedEarlyStep, IdleUntilAckedStep, SavedInvStep, TypeCorrect, PTL
     DEF Spec
-----------------------------------------------------------------------------
(* The audit trail keeps up with the devices                               *)

Missing(e) == Touched(e) \ Audited(e)

\* Before its loop a run has touched nothing; in the loop it owes the audit
\* trail at most the device it is at, and nothing when it turns to the next.
AuditInv(e) ==
  /\ run[e].pc \in {"idle", "begin", "mark", "render"} => Touched(e) = {}
  /\ Missing(e) \subseteq {run[e].cur}
  /\ run[e].pc \in {"loop", "done"} => Missing(e) = {}

LEMMA AuditGrows == [Next]_vars => audit \subseteq audit'
BY WritesOfRows DEF RecordResult, RecordAudit, DeleteDevice

\* A run's debt to the audit trail grows only when it sends configuration.
LEMMA MissingGrows ==
  ASSUME TypeOK, [Next]_vars, NEW f \in Delivery
  PROVE  \/ Touched(f)' = Touched(f) /\ Missing(f)' \subseteq Missing(f)
         \/ \E d \in Device : /\ SendConfig(f, d) \/ SendFails(f, d)
                              /\ Missing(f)' \subseteq Missing(f) \cup {d}
<1>1. \A d \in Device : d \in Audited(f) => d \in Audited(f)'
  BY AuditGrows DEF Audited
<1>2. ASSUME touched' = touched
      PROVE  Touched(f)' = Touched(f) /\ Missing(f)' \subseteq Missing(f)
  BY <1>1, <1>2 DEF Touched, Missing, Audited
<1>3. ASSUME NEW e \in Delivery, NEW d \in Device, touched' = touched \cup {<<e, d>>}, e # f
      PROVE  Touched(f)' = Touched(f) /\ Missing(f)' \subseteq Missing(f)
  BY <1>1, <1>3 DEF Touched, Missing, Audited
<1>4. ASSUME NEW d \in Device, touched' = touched \cup {<<f, d>>}
      PROVE  Missing(f)' \subseteq Missing(f) \cup {d}
  BY <1>1, <1>4 DEF Touched, Missing, Audited
<1>5. ASSUME NEW e \in Delivery, NEW d \in Device, SendConfig(e, d) \/ SendFails(e, d)
      PROVE  touched' = touched \cup {<<e, d>>}
  BY <1>5 DEF SendConfig, SendFails
<1>6. CASE \E e \in Delivery, d \in Device : SendConfig(e, d) \/ SendFails(e, d)
  <2>1. PICK e \in Delivery, d \in Device : SendConfig(e, d) \/ SendFails(e, d)
    BY <1>6
  <2>2. CASE e = f
    BY <1>4, <1>5, <2>1, <2>2
  <2>3. CASE e # f
    BY <1>3, <1>5, <2>1, <2>3
  <2> QED BY <2>2, <2>3
<1> QED BY <1>2, <1>6, WritesOfTouched

LEMMA AuditInvStep ==
  ASSUME TypeOK, IdleUntilAcked, \A e \in Delivery : AuditInv(e), [Next]_vars,
         NEW f \in Delivery
  PROVE  AuditInv(f)'
<1> DEFINE Goal == AuditInv(f)'
           Early == {"idle", "begin", "mark", "render"}
           Quiet == Touched(f)' = Touched(f) /\ Missing(f)' \subseteq Missing(f)
<1>0. RunsOK /\ AuditInv(f)
  BY DEF TypeOK, RunsOK
<1>1. ASSUME NEW d \in Device, SendConfig(f, d) \/ SendFails(f, d) PROVE Goal
  <2>1. PICK pc \in {"sent", "record"} : Visit(f, d, pc, FALSE)
    BY <1>1 DEF SendConfig, SendFails
  <2>2. Becomes(f, pc, run[f].body, run[f].todo \ {d}, d, run[f].won, run[f].lost)
    BY <1>0, <2>1, AfterVisit
  <2>3. Missing(f) = {}
    BY <1>0, <1>1 DEF SendConfig, SendFails, AuditInv
  <2>4. Missing(f)' \subseteq {d}
    <3>1. ASSUME NEW c \in Device, SendConfig(f, c) \/ SendFails(f, c) PROVE c = d
      <4>1. PICK qc \in {"sent", "record"} : Visit(f, c, qc, FALSE)
        BY <3>1 DEF SendConfig, SendFails
      <4>2. run'[f].cur = c
        BY <1>0, <4>1, AfterVisit DEF Becomes
      <4> QED BY <2>2, <4>2 DEF Becomes
    <3> QED BY <2>3, <3>1, MissingGrows
  <2> QED BY <2>2, <2>4 DEF Becomes, AuditInv
<1>2. ASSUME Quiet, run'[f] = run[f] PROVE Goal
  BY <1>0, <1>2 DEF AuditInv
<1>3. ASSUME Quiet, Start(f) PROVE Goal
  <2>1. run[f].pc = "idle"
    BY <1>3 DEF Start, IdleUntilAcked
  <2>2. Touched(f) = {}
    BY <1>0, <2>1 DEF AuditInv
  <2>3. run'[f].pc = "begin" /\ run'[f].cur = run[f].cur
    BY <1>0, <1>3, AfterMove DEF Start, Becomes
  <2> QED BY <1>0, <1>3, <2>2, <2>3 DEF AuditInv, Missing
<1>4. ASSUME Quiet, FetchJob(f) PROVE Goal
  <2>1. run'[f].pc = "mark" /\ run'[f].cur = run[f].cur
    BY <1>0, <1>4, AfterFetch DEF Becomes
  <2> QED BY <1>0, <1>4, <2>1 DEF FetchJob, AuditInv
<1>5. ASSUME Quiet, MarkRunning(f) \/ RenderJob(f) \/ RenderRaises(f) PROVE Goal
  <2>1. run[f].pc \in Early /\ Touched(f)' = {}
    BY <1>0, <1>5 DEF MarkRunning, RenderJob, RenderRaises, AuditInv
  <2> QED BY <2>1 DEF AuditInv, Missing, MarkRunning, RenderJob, RenderRaises
<1>6. ASSUME Quiet, NEW d \in Device, ConnectFails(f, d) PROVE Goal
  <2>1. Visit(f, d, "record", FALSE) /\ run[f].pc = "loop"
    BY <1>6 DEF ConnectFails
  <2>2. Becomes(f, "record", run[f].body, run[f].todo \ {d}, d, run[f].won, run[f].lost)
    BY <1>0, <2>1, AfterVisit
  <2> QED BY <1>0, <1>6, <2>1, <2>2 DEF AuditInv, Becomes
<1>7. ASSUME Quiet, (\E ok \in BOOLEAN : SaveConfig(f, ok)) \/ SaveConfigFails(f) PROVE Goal
  <2>1. PICK ok \in BOOLEAN : run' = [run EXCEPT ![f] = [@ EXCEPT !.pc = "record", !.ok = ok]]
    BY <1>7 DEF SaveConfig, SaveConfigFails
  <2>2. run'[f].pc = "record" /\ run'[f].cur = run[f].cur
    BY <1>0, <2>1, AfterSave DEF Becomes
  <2> QED BY <1>0, <1>7, <2>2 DEF AuditInv
<1>8. ASSUME Quiet, RecordResult(f) PROVE Goal
  <2>1. run'[f].pc = "audit" /\ run'[f].cur = run[f].cur
    BY <1>0, <1>8, AfterResult DEF Becomes
  <2> QED BY <1>0, <1>8, <2>1 DEF AuditInv
<1>9. ASSUME Quiet, RecordAudit(f) PROVE Goal
  <2>1. RowOf(f) \in audit' /\ run[f].cur \in Device /\ run[f].ok \in BOOLEAN
    BY <1>9 DEF RecordAudit, TypeOK, RunState
  <2>2. run[f].cur \in Audited(f)'
    BY <2>1 DEF RowOf, Audited
  <2>3. Missing(f)' = {}
    BY <1>0, <1>9, <2>2 DEF AuditInv, Missing
  <2>4. run'[f].pc = "loop" /\ run'[f].cur = run[f].cur
    BY <1>0, <1>9, AfterMove DEF RecordAudit, Becomes
  <2> QED BY <2>3, <2>4 DEF AuditInv
<1>10. ASSUME Quiet, RecordRaises(f) \/ FinishJob(f) \/ KillRun(f) PROVE Goal
  <2>1. PICK pc \in {"raised", "done", "killed"} : run' = [run EXCEPT ![f].pc = pc]
    BY <1>10 DEF RecordRaises, FinishJob, KillRun
  <2>2. run'[f].pc = pc /\ run'[f].cur = run[f].cur
    BY <1>0, <2>1, AfterMove DEF Becomes
  <2>3. pc = "done" => run[f].pc = "loop"
    BY <1>10, <2>2, <1>0, AfterMove DEF RecordRaises, FinishJob, KillRun, Becomes
  <2> QED BY <1>0, <1>10, <2>2, <2>3 DEF AuditInv
<1>11. ASSUME Quiet, NEW d \in Device, Reload(d) PROVE Goal
  <2>1. \/ run'[f] = run[f]
        \/ run'[f].pc = "record" /\ run'[f].cur = run[f].cur
    BY <1>0, <1>11, AfterReload
  <2> QED BY <1>0, <1>11, <2>1 DEF AuditInv
<1> QED
  BY <1>1, <1>2, <1>3, <1>4, <1>5, <1>6, <1>7, <1>8, <1>9, <1>10, <1>11,
     OnlyOwnSteps, MissingGrows
     DEF Task

\* Whatever dies or is delivered twice, the audit trail trails a run by at most
\* the device it is at, and owes a run that ended nothing.
THEOREM AuditTrailKept == Spec => []AuditTrail
<1>1. Init => NotQueuedEarly /\ IdleUntilAcked /\ \A e \in Delivery : AuditInv(e)
  BY DEF Init, NotQueuedEarly, IdleUntilAcked, AuditInv, Touched, Missing, NewRun
<1>2. (\A e \in Delivery : AuditInv(e)) => AuditTrail
  BY DEF AuditInv, Missing, AuditTrail
<1>3. TypeOK /\ IdleUntilAcked /\ (\A e \in Delivery : AuditInv(e)) /\ [Next]_vars
        => (\A e \in Delivery : AuditInv(e))'
  BY AuditInvStep
<1> QED
  BY <1>1, <1>2, <1>3, NotQueuedEarlyStep, IdleUntilAckedStep, TypeCorrect, PTL DEF Spec
=============================================================================
