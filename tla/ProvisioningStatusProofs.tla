---------------------- MODULE ProvisioningStatusProofs ----------------------
(***************************************************************************)
(* What the status of a provisioning job tells: theorems about             *)
(* Provisioning for every number of deliveries and, where a message is     *)
(* delivered once, that it implements the contract of JobLifecycle.        *)
(***************************************************************************)
EXTENDS ProvisioningProofs

USE DEF rows, broker, wire

-----------------------------------------------------------------------------
(* The books of a run: what it has won and lost, and the audit trail       *)

\* The verdict a run has booked and not yet written to the audit trail.
Owed(e, yes) == IF run[e].pc = "audit" /\ run[e].ok = yes THEN {run[e].cur} ELSE {}

\* The device a run is at and has not booked yet.
AtHand(e) == IF run[e].pc \in {"sent", "record"} THEN {run[e].cur} ELSE {}

\* From the fetch of the job to the end of the loop.
Working == {"mark", "render", "loop", "sent", "record", "audit"}

\* What is booked is audited, but for the verdict owed; every device the job
\* still has is to be visited, at hand or booked; and no device is visited twice.
Books(e) ==
  /\ run[e].pc \notin {"raised", "killed"} =>
       /\ run[e].won  = AuditedAs(e, TRUE)  \cup Owed(e, TRUE)
       /\ run[e].lost = AuditedAs(e, FALSE) \cup Owed(e, FALSE)
  /\ run[e].pc \in {"idle", "begin"} => run[e].won \cup run[e].lost = {}
  /\ run[e].pc \in Working =>
       job[e[1]].devices \subseteq run[e].todo \cup AtHand(e) \cup run[e].won \cup run[e].lost
  /\ run[e].pc = "done" => job[e[1]].devices \subseteq run[e].won \cup run[e].lost

Fresh(e) ==
  /\ run[e].pc \in Working => run[e].todo \cap Audited(e) = {}
  /\ run[e].pc \in {"sent", "record", "audit"} => run[e].cur \notin Audited(e) \cup run[e].todo

\* A final status is the verdict of a finished run.
StatusByRun ==
  \A j \in Job : job[j].status \in Finals =>
    \E e \in RunsOf(j) : run[e].pc = "done" /\ job[j].status = Verdict(run[e].won, run[e].lost)

BooksInv == \A e \in Delivery : Books(e) /\ Fresh(e)

\* With one delivery per message the run of a job tells its status.
StatusOfRun(j) ==
  LET pc == run[<<j, 1>>].pc IN
  /\ request[j] = "none" => job[j].status = "absent"
  /\ pc \in {"idle", "begin"} => job[j].status \in {"absent", "pending"}
  /\ pc = "mark" => job[j].status = "pending"
  /\ pc \in Working \ {"mark"} => job[j].status = "running"
  /\ pc = "done" => job[j].status \in Finals

-----------------------------------------------------------------------------
(* What a step does to the audit rows of a run and to the row of a job     *)

\* Audit rows are added by the run they belong to.
LEMMA AuditSteps ==
  ASSUME TypeOK, [Next]_vars, NEW f \in Delivery
  PROVE  /\ ~RecordAudit(f) => \A yes \in BOOLEAN : AuditedAs(f, yes)' = AuditedAs(f, yes)
         /\ RecordAudit(f) =>
              \A yes \in BOOLEAN : AuditedAs(f, yes)' = AuditedAs(f, yes) \cup Owed(f, yes)
<1>1. ASSUME NEW e \in Delivery \ {f}, RecordAudit(e), NEW yes \in BOOLEAN
      PROVE  AuditedAs(f, yes)' = AuditedAs(f, yes)
  <2>1. audit' = audit \cup {RowOf(e)} /\ RowOf(e).run = e
    BY <1>1 DEF RecordAudit, RowOf
  <2>2. \A d \in Device : [run |-> f, device |-> d, success |-> yes] # RowOf(e)
    BY <2>1
  <2> QED BY <2>1, <2>2 DEF AuditedAs
<1>2. ASSUME audit' = audit, NEW yes \in BOOLEAN PROVE AuditedAs(f, yes)' = AuditedAs(f, yes)
  BY <1>2 DEF AuditedAs
<1>3. ASSUME NEW e \in Delivery, RecordResult(e) PROVE audit' = audit
  BY <1>3 DEF RecordResult
<1>4. ASSUME NEW d \in Device, DeleteDevice(d) PROVE audit' = audit
  BY <1>4 DEF DeleteDevice
<1>5. ASSUME RecordAudit(f), NEW yes \in BOOLEAN
      PROVE  AuditedAs(f, yes)' = AuditedAs(f, yes) \cup Owed(f, yes)
  <2>1. /\ audit' = audit \cup {[run |-> f, device |-> run[f].cur, success |-> run[f].ok]}
        /\ run[f].pc = "audit" /\ run[f].cur \in Device
    BY <1>5 DEF RecordAudit, RowOf, TypeOK
  <2>2. \A d : [run |-> f, device |-> d, success |-> yes]
                   = [run |-> f, device |-> run[f].cur, success |-> run[f].ok]
                 <=> d = run[f].cur /\ yes = run[f].ok
    <3>1. ASSUME NEW d, [run |-> f, device |-> d, success |-> yes]
                   = [run |-> f, device |-> run[f].cur, success |-> run[f].ok]
          PROVE  d = run[f].cur /\ yes = run[f].ok
      <4>1. /\ [run |-> f, device |-> d, success |-> yes].device = d
            /\ [run |-> f, device |-> d, success |-> yes].success = yes
        OBVIOUS
      <4> QED BY <3>1, <4>1
    <3> QED BY <3>1
  <2> QED BY <2>1, <2>2 DEF AuditedAs, Owed
<1> QED BY <1>1, <1>2, <1>3, <1>4, <1>5, WritesOfRows

LEMMA AuditedUnion == \A e \in Delivery : Audited(e) = AuditedAs(e, TRUE) \cup AuditedAs(e, FALSE)
BY DEF Audited, AuditedAs

\* The row of a job changes by its request, by its runs, and when a device or
\* a template goes.
LEMMA JobSteps ==
  ASSUME TypeOK, [Next]_vars, NEW j \in Job
  PROVE  \/ job'[j].status = job[j].status /\ job'[j].devices \subseteq job[j].devices
         \/ request[j] = "none" /\ request'[j] = "saved" /\ job'[j].status = "pending"
         \/ \E e \in RunsOf(j) :
              /\ MarkRunning(e) /\ job'[j].status = "running"
              /\ job'[j].devices = job[j].devices
         \/ \E e \in RunsOf(j) :
              /\ FinishJob(e) /\ job'[j].status = Verdict(run[e].won, run[e].lost)
              /\ job'[j].devices = job[j].devices
<1> DEFINE Kept == job'[j].status = job[j].status /\ job'[j].devices \subseteq job[j].devices
           Goal == \/ Kept
                   \/ request[j] = "none" /\ request'[j] = "saved" /\ job'[j].status = "pending"
                   \/ \E e \in RunsOf(j) :
                        /\ MarkRunning(e) /\ job'[j].status = "running"
                        /\ job'[j].devices = job[j].devices
                   \/ \E e \in RunsOf(j) :
                        /\ FinishJob(e) /\ job'[j].status = Verdict(run[e].won, run[e].lost)
                        /\ job'[j].devices = job[j].devices
<1>0. /\ job \in [Job -> JobRow]
      /\ request \in [Job -> {"none", "saved", "sent", "answered", "error"}]
  BY DEF TypeOK
<1>1. ASSUME NEW i \in Job, Request(i) PROVE Goal
  <2>1. ASSUME NEW t, NEW ds, CreateJob(i, t, ds) PROVE Goal
    <3> DEFINE row == [NoJob EXCEPT !.status = "pending", !.template = t, !.devices = ds]
    <3>1. /\ job' = [job EXCEPT ![i] = row] /\ row.status = "pending"
          /\ request[i] = "none" /\ request' = [request EXCEPT ![i] = "saved"]
      BY <2>1 DEF CreateJob, NoJob
    <3> HIDE DEF row
    <3> QED BY <1>0, <3>1
  <2>2. CASE SaveTaskId(i)
    BY <1>0, <2>2 DEF SaveTaskId, JobRow
  <2>3. CASE EnqueueJob(i) \/ RequestDies(i)
    BY <2>3 DEF EnqueueJob, RequestDies
  <2> QED BY <1>1, <2>1, <2>2, <2>3 DEF Request
<1>2. ASSUME NEW e \in Delivery, MarkRunning(e) PROVE Goal
  BY <1>0, <1>2, DeliveryJob DEF MarkRunning, JobRow, RunsOf
<1>3. ASSUME NEW e \in Delivery, RenderJob(e) PROVE Goal
  BY <1>0, <1>3, DeliveryJob DEF RenderJob, JobRow
<1>4. ASSUME NEW e \in Delivery, FinishJob(e) PROVE Goal
  <2> DEFINE verdict == Verdict(run[e].won, run[e].lost)
             row == [job[e[1]] EXCEPT !.status = verdict, !.completed = TRUE]
  <2>1. job' = [job EXCEPT ![e[1]] = row] /\ e[1] \in Job
    BY <1>0, <1>4, DeliveryJob DEF FinishJob, JobRow
  <2>2. row.status = verdict /\ row.devices = job[e[1]].devices
    BY <1>0, DeliveryJob DEF JobRow
  <2> HIDE DEF row
  <2> QED BY <1>0, <1>4, <2>1, <2>2 DEF RunsOf
<1>5. ASSUME NEW t \in Template, DeleteTemplate(t) PROVE Goal
  BY <1>0, <1>5 DEF DeleteTemplate, JobRow
<1>6. ASSUME NEW d \in Device, DeleteDevice(d) PROVE Goal
  BY <1>0, <1>6 DEF DeleteDevice, JobRow
<1>7. ASSUME UNCHANGED job PROVE Goal
  BY <1>7
<1> HIDE DEF Goal
<1>8. Goal
  <2>1. CASE \E e \in Delivery : MarkRunning(e) \/ RenderJob(e) \/ FinishJob(e)
    BY <1>2, <1>3, <1>4, <2>1
  <2>2. CASE (\E t \in Template : DeleteTemplate(t)) \/ \E d \in Device : DeleteDevice(d)
    BY <1>5, <1>6, <2>2
  <2>3. CASE \E i \in Job : Request(i)
    BY <1>1, <2>3
  <2> QED BY <1>7, <2>1, <2>2, <2>3, WritesOfJobs
<1> QED BY <1>8 DEF Goal

\* A run that has started finds the devices of its job where they were, or gone.
LEMMA StartedDevices ==
  ASSUME TypeOK, NotQueuedEarly, IdleUntilAcked, [Next]_vars, NEW f \in Delivery,
         run[f].pc # "idle"
  PROVE  job'[f[1]].devices \subseteq job[f[1]].devices
<1>1. request[f[1]] # "none" /\ f[1] \in Job
  BY DeliveryJob DEF NotQueuedEarly, IdleUntilAcked
<1> QED BY <1>1, JobSteps

-----------------------------------------------------------------------------
(* The books are kept                                                      *)

LEMMA BooksStep ==
  ASSUME TypeOK, NotQueuedEarly, IdleUntilAcked, BooksInv, [Next]_vars, NEW f \in Delivery
  PROVE  Books(f)' /\ Fresh(f)'
<1> DEFINE Goal == Books(f)' /\ Fresh(f)'
           Devices == job[f[1]].devices
           Same == \A yes \in BOOLEAN : AuditedAs(f, yes)' = AuditedAs(f, yes)
<1>0. /\ RunsOK /\ run[f] \in RunState
      /\ Books(f) /\ Fresh(f)
      /\ ~RecordAudit(f) => Same
      /\ run[f].pc # "idle" => Devices' \subseteq Devices
      /\ Audited(f)' = AuditedAs(f, TRUE)' \cup AuditedAs(f, FALSE)'
      /\ Audited(f) = AuditedAs(f, TRUE) \cup AuditedAs(f, FALSE)
  <2>1. ~RecordAudit(f) => Same
    BY AuditSteps
  <2>2. run[f].pc # "idle" => Devices' \subseteq Devices
    BY StartedDevices
  <2>3. /\ Audited(f)' = AuditedAs(f, TRUE)' \cup AuditedAs(f, FALSE)'
        /\ Audited(f) = AuditedAs(f, TRUE) \cup AuditedAs(f, FALSE)
    BY DEF Audited, AuditedAs
  <2> QED BY <2>1, <2>2, <2>3 DEF TypeOK, RunsOK, BooksInv
<1> HIDE DEF Same, Devices
<1>a. Same => /\ AuditedAs(f, TRUE)' = AuditedAs(f, TRUE)
              /\ AuditedAs(f, FALSE)' = AuditedAs(f, FALSE)
              /\ Audited(f)' = Audited(f)
  BY <1>0 DEF Same
<1>b. Books(f)' <=>
        /\ run'[f].pc \notin {"raised", "killed"} =>
             /\ run'[f].won  = AuditedAs(f, TRUE)'  \cup Owed(f, TRUE)'
             /\ run'[f].lost = AuditedAs(f, FALSE)' \cup Owed(f, FALSE)'
        /\ run'[f].pc \in {"idle", "begin"} => run'[f].won \cup run'[f].lost = {}
        /\ run'[f].pc \in Working =>
             Devices' \subseteq run'[f].todo \cup AtHand(f)' \cup run'[f].won \cup run'[f].lost
        /\ run'[f].pc = "done" => Devices' \subseteq run'[f].won \cup run'[f].lost
  BY DEF Books, Devices, Working
<1>c. Fresh(f)' <=>
        /\ run'[f].pc \in Working => run'[f].todo \cap Audited(f)' = {}
        /\ run'[f].pc \in {"sent", "record", "audit"} =>
             run'[f].cur \notin Audited(f)' \cup run'[f].todo
  BY DEF Fresh, Working
<1>d. Books(f) =>
        /\ run[f].pc \notin {"raised", "killed"} =>
             /\ run[f].won  = AuditedAs(f, TRUE)  \cup Owed(f, TRUE)
             /\ run[f].lost = AuditedAs(f, FALSE) \cup Owed(f, FALSE)
        /\ run[f].pc \in {"idle", "begin"} => run[f].won \cup run[f].lost = {}
        /\ run[f].pc \in Working =>
             Devices \subseteq run[f].todo \cup AtHand(f) \cup run[f].won \cup run[f].lost
        /\ run[f].pc = "done" => Devices \subseteq run[f].won \cup run[f].lost
  BY DEF Books, Devices
<1> USE DEF Owed, AtHand, Working
<1>1. ASSUME Same, run'[f] = run[f] PROVE Goal
  <2>1. Fresh(f)'
    BY <1>0, <1>1, <1>a, <1>c DEF Fresh
  <2>2. \A yes \in BOOLEAN : Owed(f, yes)' = Owed(f, yes)
    BY <1>1
  <2>3. AtHand(f)' = AtHand(f)
    BY <1>1
  <2> HIDE DEF Owed, AtHand
  <2>4. Books(f)'
    BY <1>0, <1>1, <1>a, <1>b, <1>d, <2>2, <2>3
  <2> QED BY <2>1, <2>4
<1>2. ASSUME Same, Start(f) PROVE Goal
  <2>1. run[f].pc = "idle"
    BY <1>2 DEF Start, IdleUntilAcked
  <2>2. Becomes(f, "begin", run[f].body, run[f].todo, run[f].cur, run[f].won, run[f].lost)
    BY <1>0, <1>2, AfterMove DEF Start
  <2> QED BY <1>0, <1>2, <1>a, <1>b, <1>c, <1>d, <2>1, <2>2 DEF Becomes
<1>3. ASSUME Same, FetchJob(f) PROVE Goal
  <2>1. PICK b : Becomes(f, "mark", b, Devices, run[f].cur, run[f].won, run[f].lost)
    BY <1>0, <1>3, AfterFetch DEF Devices
  <2>2. run[f].pc = "begin" /\ Devices' \subseteq Devices
    BY <1>0, <1>3 DEF FetchJob
  <2>3. run[f].won = {} /\ run[f].lost = {} /\ Audited(f) = {}
    BY <1>0, <1>d, <2>2
  <2> QED BY <1>0, <1>3, <1>a, <1>b, <1>c, <1>d, <2>1, <2>2, <2>3 DEF Becomes
<1>4. ASSUME Same, MarkRunning(f) \/ RenderJob(f) PROVE Goal
  <2>1. PICK pc \in {"render", "loop"} : run' = [run EXCEPT ![f].pc = pc]
    BY <1>4 DEF MarkRunning, RenderJob
  <2>2. Becomes(f, pc, run[f].body, run[f].todo, run[f].cur, run[f].won, run[f].lost)
    BY <1>0, <2>1, AfterMove
  <2>3. run[f].pc \in {"mark", "render"} /\ Devices' \subseteq Devices
    BY <1>0, <1>4 DEF MarkRunning, RenderJob
  <2> QED BY <1>0, <1>4, <1>a, <1>b, <1>c, <1>d, <2>1, <2>2, <2>3 DEF Becomes, Fresh
<1>5. ASSUME Same, RenderRaises(f) \/ RecordRaises(f) \/ KillRun(f) PROVE Goal
  <2>1. PICK pc \in {"raised", "killed"} : run' = [run EXCEPT ![f].pc = pc]
    BY <1>5 DEF RenderRaises, RecordRaises, KillRun
  <2>2. run'[f].pc = pc
    BY <1>0, <2>1, AfterMove DEF Becomes
  <2> QED BY <1>b, <1>c, <2>1, <2>2
<1>6. ASSUME Same, NEW d \in Device, ConnectFails(f, d) \/ SendConfig(f, d) \/ SendFails(f, d)
      PROVE  Goal
  <2>1. PICK pc \in {"sent", "record"} : Visit(f, d, pc, FALSE)
    BY <1>6 DEF ConnectFails, SendConfig, SendFails
  <2>2. Becomes(f, pc, run[f].body, run[f].todo \ {d}, d, run[f].won, run[f].lost)
    BY <1>0, <2>1, AfterVisit
  <2>3. run[f].pc = "loop" /\ d \in run[f].todo /\ Devices' \subseteq Devices
    BY <1>0, <1>6 DEF ConnectFails, SendConfig, SendFails
  <2>4. Fresh(f)'
    BY <1>0, <1>6, <1>a, <1>c, <2>1, <2>2, <2>3 DEF Becomes, Fresh
  <2> QED BY <1>0, <1>6, <1>a, <1>b, <1>d, <2>1, <2>2, <2>3, <2>4 DEF Becomes
<1>7. ASSUME Same, run[f].pc = "sent", Devices' \subseteq Devices, run'[f].pc = "record",
             run'[f].todo = run[f].todo, run'[f].cur = run[f].cur,
             run'[f].won = run[f].won, run'[f].lost = run[f].lost
      PROVE  Goal
  BY <1>0, <1>7, <1>a, <1>b, <1>c, <1>d DEF Fresh
<1>8. ASSUME Same, (\E ok \in BOOLEAN : SaveConfig(f, ok)) \/ SaveConfigFails(f) PROVE Goal
  <2>1. PICK ok \in BOOLEAN : run' = [run EXCEPT ![f] = [@ EXCEPT !.pc = "record", !.ok = ok]]
    BY <1>8 DEF SaveConfig, SaveConfigFails
  <2>2. Becomes(f, "record", run[f].body, run[f].todo, run[f].cur, run[f].won, run[f].lost)
    BY <1>0, <2>1, AfterSave
  <2> QED BY <1>0, <1>7, <1>8, <2>2 DEF Becomes, SaveConfig, SaveConfigFails
<1>9. ASSUME Same, NEW d \in Device, Reload(d), run'[f] # run[f] PROVE Goal
  BY <1>0, <1>7, <1>9, AfterReload
<1>10. ASSUME Same, RecordResult(f) PROVE Goal
  <2>1. /\ Becomes(f, "audit", run[f].body, run[f].todo, run[f].cur,
                   Booked(f, run[f].won, run[f].ok), Booked(f, run[f].lost, ~run[f].ok))
        /\ run'[f].ok = run[f].ok
    BY <1>0, <1>10, AfterResult
  <2>2. /\ run[f].pc = "record" /\ run[f].ok \in BOOLEAN /\ Devices' \subseteq Devices
        /\ AtHand(f) = {run[f].cur}
        /\ run[f].won = AuditedAs(f, TRUE) /\ run[f].lost = AuditedAs(f, FALSE)
    BY <1>0, <1>10, <1>d DEF RecordResult, RunState
  <2>3. Fresh(f)'
    BY <1>0, <1>10, <1>a, <1>c, <2>1, <2>2 DEF Becomes, Fresh
  <2>4. /\ run'[f].pc = "audit" /\ run'[f].cur = run[f].cur /\ run'[f].todo = run[f].todo
        /\ run'[f].won = run[f].won \cup (IF run[f].ok THEN {run[f].cur} ELSE {})
        /\ run'[f].lost = run[f].lost \cup (IF run[f].ok THEN {} ELSE {run[f].cur})
    BY <2>1, <2>2 DEF Becomes, Booked
  <2>5. /\ Owed(f, TRUE)' = IF run[f].ok THEN {run[f].cur} ELSE {}
        /\ Owed(f, FALSE)' = IF run[f].ok THEN {} ELSE {run[f].cur}
    BY <2>1, <2>2, <2>4
  <2>6. Devices \subseteq run[f].todo \cup {run[f].cur} \cup run[f].won \cup run[f].lost
    BY <1>0, <1>d, <2>2
  <2>7. Books(f)'
    BY <1>10, <1>a, <1>b, <2>2, <2>4, <2>5, <2>6
  <2> QED BY <2>3, <2>7
<1>11. CASE RecordAudit(f)
  <2>1. /\ run[f].pc = "audit" /\ Devices' \subseteq Devices /\ run[f].ok \in BOOLEAN
        /\ AuditedAs(f, TRUE)' = AuditedAs(f, TRUE) \cup Owed(f, TRUE)
        /\ AuditedAs(f, FALSE)' = AuditedAs(f, FALSE) \cup Owed(f, FALSE)
    BY <1>0, <1>11, AuditSteps DEF RecordAudit, RunState
  <2>2. Becomes(f, "loop", run[f].body, run[f].todo, run[f].cur, run[f].won, run[f].lost)
    BY <1>0, <1>11, AfterMove DEF RecordAudit
  <2>3. Audited(f)' \subseteq Audited(f) \cup {run[f].cur}
    BY <1>0, <2>1
  <2>4. Fresh(f)'
    BY <1>0, <1>c, <2>1, <2>2, <2>3 DEF Fresh, Becomes
  <2>5. Books(f)'
    BY <1>0, <1>b, <1>d, <2>1, <2>2 DEF Becomes
  <2> QED BY <2>4, <2>5
<1>12. ASSUME Same, FinishJob(f) PROVE Goal
  <2>1. Becomes(f, "done", run[f].body, run[f].todo, run[f].cur, run[f].won, run[f].lost)
    BY <1>0, <1>12, AfterMove DEF FinishJob
  <2>2. run[f].pc = "loop" /\ run[f].todo = {} /\ Devices' \subseteq Devices
    BY <1>0, <1>12 DEF FinishJob
  <2> QED BY <1>0, <1>12, <1>a, <1>b, <1>c, <1>d, <2>1, <2>2 DEF Becomes
<1> QED
  BY <1>0, <1>1, <1>2, <1>3, <1>4, <1>5, <1>6, <1>8, <1>9, <1>10, <1>11, <1>12, OnlyOwnSteps
     DEF Task

\* A run that has ended well stays as it is.
LEMMA DoneStays ==
  ASSUME TypeOK, IdleUntilAcked, [Next]_vars, NEW f \in Delivery, run[f].pc = "done"
  PROVE  run'[f] = run[f]
<1>1. ~Start(f) /\ ~Task(f) /\ ~KillRun(f)
  BY DEF Start, IdleUntilAcked, KillRun, Live, Ended, Task, FetchJob, MarkRunning, RenderJob,
         RenderRaises, ConnectFails, SendConfig, SendFails, SaveConfig, SaveConfigFails,
         RecordResult, RecordAudit, RecordRaises, FinishJob
<1>2. ASSUME NEW d \in Device, Reload(d) PROVE run'[f] = run[f]
  BY <1>2, AfterReload DEF TypeOK, RunsOK
<1> QED BY <1>1, <1>2, OnlyOwnSteps

\* A run that finishes its job is done, and the verdict is that of its books.
LEMMA FinishedRun ==
  ASSUME TypeOK, NEW f \in Delivery, FinishJob(f)
  PROVE  run'[f].pc = "done" /\ run'[f].won = run[f].won /\ run'[f].lost = run[f].lost
BY AfterMove DEF TypeOK, RunsOK, FinishJob, Becomes

LEMMA StatusByRunStep ==
  ASSUME TypeOK, IdleUntilAcked, StatusByRun, [Next]_vars
  PROVE  StatusByRun'
<1> SUFFICES ASSUME NEW j \in Job, job'[j].status \in Finals
             PROVE  \E e \in RunsOf(j) :
                      run'[e].pc = "done" /\ job'[j].status = Verdict(run'[e].won, run'[e].lost)
  BY DEF StatusByRun, Finals, RunsOf, Verdict
<1>1. CASE job'[j].status = job[j].status
  <2>1. PICK e \in RunsOf(j) :
          run[e].pc = "done" /\ job[j].status = Verdict(run[e].won, run[e].lost)
    BY <1>1 DEF StatusByRun
  <2>2. run'[e] = run[e]
    BY <2>1, DoneStays DEF RunsOf
  <2> QED BY <1>1, <2>1, <2>2
<1>2. ASSUME NEW e \in RunsOf(j), FinishJob(e),
             job'[j].status = Verdict(run[e].won, run[e].lost)
      PROVE  run'[e].pc = "done" /\ job'[j].status = Verdict(run'[e].won, run'[e].lost)
  BY <1>2, FinishedRun DEF RunsOf
<1> QED BY <1>1, <1>2, JobSteps DEF Finals

\* A job whose status is final can point at a run that ended: the audit rows of
\* that run add up to the status and cover every device the job still has.
LEMMA BooksExplain == BooksInv /\ StatusByRun => StatusExplained
<1> SUFFICES ASSUME BooksInv, StatusByRun, NEW j \in Job, job[j].status \in Finals
             PROVE  \E e \in RunsOf(j) :
                      /\ run[e].pc = "done"
                      /\ Explains(e, job[j].status)
                      /\ job[j].devices \subseteq Audited(e)
  BY DEF StatusExplained
<1>1. PICK e \in RunsOf(j) :
        run[e].pc = "done" /\ job[j].status = Verdict(run[e].won, run[e].lost)
  BY DEF StatusByRun
<1>2. e \in Delivery /\ e[1] = j /\ Books(e)
  BY DEF RunsOf, BooksInv
<1>3. run[e].won = AuditedAs(e, TRUE) /\ run[e].lost = AuditedAs(e, FALSE)
  BY <1>1, <1>2 DEF Books, Owed
<1>4. Explains(e, job[j].status)
  BY <1>1, <1>3 DEF Explains, Verdict
<1>5. job[j].devices \subseteq Audited(e)
  BY <1>1, <1>2, <1>3, AuditedUnion DEF Books
<1> QED BY <1>1, <1>4, <1>5

LEMMA InitBooks == Init => NotQueuedEarly /\ IdleUntilAcked /\ BooksInv /\ StatusByRun
<1> SUFFICES ASSUME Init PROVE NotQueuedEarly /\ IdleUntilAcked /\ BooksInv /\ StatusByRun
  OBVIOUS
<1>1. NotQueuedEarly /\ IdleUntilAcked /\ StatusByRun
  <2>1. \A j \in Job : job[j].status = "absent"
    BY DEF Init, NoJob
  <2>2. StatusByRun
    BY <2>1 DEF StatusByRun, Finals
  <2> QED BY <2>2 DEF Init, NotQueuedEarly, IdleUntilAcked, NewRun
<1>2. ASSUME NEW e \in Delivery PROVE Books(e) /\ Fresh(e)
  BY <1>2 DEF Init, Books, Fresh, Owed, AtHand, Working, AuditedAs, Audited, NewRun
<1> QED BY <1>1, <1>2 DEF BooksInv

LEMMA BooksKept == Spec => [](TypeOK /\ NotQueuedEarly /\ IdleUntilAcked /\ BooksInv /\ StatusByRun)
<1>1. TypeOK /\ NotQueuedEarly /\ IdleUntilAcked /\ BooksInv /\ [Next]_vars => BooksInv'
  BY BooksStep DEF BooksInv
<1>2. TypeOK /\ IdleUntilAcked /\ StatusByRun /\ [Next]_vars => StatusByRun'
  BY StatusByRunStep
<1> QED
  BY <1>1, <1>2, InitBooks, NotQueuedEarlyStep, IdleUntilAckedStep, TypeCorrect, PTL DEF Spec

\* Whatever is redelivered, deleted or killed, a final status is the one the
\* audit rows of a finished run of the job add up to.
THEOREM StatusIsExplained == Spec => []StatusExplained
<1> QED BY BooksKept, BooksExplain, PTL

-----------------------------------------------------------------------------
(* One delivery per message: the contract of JobLifecycle                  *)

StatusInv == \A j \in Job : StatusOfRun(j)

\* A job has one run.
LEMMA OneRun ==
  ASSUME MaxDeliveries = 1
  PROVE  \A j \in Job : \A e \in RunsOf(j) : e = <<j, 1>> /\ e \in Delivery
<1> SUFFICES ASSUME NEW j \in Job, NEW e \in RunsOf(j) PROVE e = <<j, 1>> /\ e \in Delivery
  OBVIOUS
<1>1. e \in Job \X (1 .. 1) /\ e[1] = j
  BY DEF RunsOf, Delivery
<1>2. PICK i \in Job, n \in 1 .. 1 : e = <<i, n>>
  BY <1>1
<1>3. i = j /\ n = 1
  BY <1>1, <1>2
<1> QED BY <1>2, <1>3 DEF RunsOf

\* How the pc of a run moves, as far as it tells the status of its job.
LEMMA RunStages ==
  ASSUME TypeOK, IdleUntilAcked, [Next]_vars, NEW f \in Delivery
  PROVE  \/ run'[f].pc \in {"raised", "killed"}
         \/ run'[f].pc = run[f].pc /\ ~MarkRunning(f) /\ ~FinishJob(f)
         \/ run[f].pc = "idle" /\ run'[f].pc = "begin"
         \/ run[f].pc = "begin" /\ run'[f].pc = "mark" /\ FetchJob(f)
         \/ MarkRunning(f) /\ run'[f].pc = "render"
         \/ FinishJob(f) /\ run'[f].pc = "done"
         \/ /\ run[f].pc \in Working \ {"mark"} /\ run'[f].pc \in Working \ {"mark"}
            /\ ~MarkRunning(f) /\ ~FinishJob(f)
<1> DEFINE Goal ==
         \/ run'[f].pc \in {"raised", "killed"}
         \/ run'[f].pc = run[f].pc /\ ~MarkRunning(f) /\ ~FinishJob(f)
         \/ run[f].pc = "idle" /\ run'[f].pc = "begin"
         \/ run[f].pc = "begin" /\ run'[f].pc = "mark" /\ FetchJob(f)
         \/ MarkRunning(f) /\ run'[f].pc = "render"
         \/ FinishJob(f) /\ run'[f].pc = "done"
         \/ /\ run[f].pc \in Working \ {"mark"} /\ run'[f].pc \in Working \ {"mark"}
            /\ ~MarkRunning(f) /\ ~FinishJob(f)
<1>0. RunsOK
  BY DEF TypeOK, RunsOK
<1>1. MarkRunning(f) => run[f].pc = "mark" /\ run'[f].pc = "render"
  BY <1>0, AfterMove DEF MarkRunning, Becomes
<1>2. FinishJob(f) => run[f].pc = "loop" /\ run'[f].pc = "done"
  BY <1>0, AfterMove DEF FinishJob, Becomes
<1>3. ASSUME run'[f] = run[f] PROVE Goal
  BY <1>1, <1>2, <1>3
<1>4. ASSUME Start(f) PROVE Goal
  BY <1>0, <1>4, AfterMove DEF Start, Becomes, IdleUntilAcked
<1>5. ASSUME FetchJob(f) PROVE Goal
  BY <1>0, <1>5, AfterFetch DEF FetchJob, Becomes
<1>6. ASSUME RenderRaises(f) \/ RecordRaises(f) \/ KillRun(f) PROVE Goal
  BY <1>0, <1>6, AfterMove DEF RenderRaises, RecordRaises, KillRun, Becomes
<1>7. ASSUME RenderJob(f) \/ RecordAudit(f) PROVE Goal
  BY <1>0, <1>1, <1>2, <1>7, AfterMove DEF RenderJob, RecordAudit, Becomes, Working
<1>8. ASSUME NEW d \in Device, ConnectFails(f, d) \/ SendConfig(f, d) \/ SendFails(f, d)
      PROVE  Goal
  <2>1. PICK pc \in {"sent", "record"} : Visit(f, d, pc, FALSE)
    BY <1>8 DEF ConnectFails, SendConfig, SendFails
  <2>2. run[f].pc = "loop" /\ run'[f].pc = pc
    BY <1>0, <1>8, <2>1, AfterVisit DEF ConnectFails, SendConfig, SendFails, Becomes
  <2> QED BY <1>1, <1>2, <2>2 DEF Working
<1>9. ASSUME (\E ok \in BOOLEAN : SaveConfig(f, ok)) \/ SaveConfigFails(f) PROVE Goal
  <2>1. run[f].pc = "sent" /\ run'[f].pc = "record"
    BY <1>0, <1>9, AfterSave DEF SaveConfig, SaveConfigFails, Becomes
  <2> QED BY <1>1, <1>2, <2>1 DEF Working
<1>10. ASSUME RecordResult(f) PROVE Goal
  <2>1. run[f].pc = "record" /\ run'[f].pc = "audit"
    BY <1>0, <1>10, AfterResult DEF RecordResult, Becomes
  <2> QED BY <1>1, <1>2, <2>1 DEF Working
<1>11. ASSUME NEW d \in Device, Reload(d) PROVE Goal
  <2>1. run'[f] = run[f] \/ (run[f].pc = "sent" /\ run'[f].pc = "record")
    BY <1>0, <1>11, AfterReload
  <2> QED BY <1>1, <1>2, <1>3, <2>1 DEF Working
<1> HIDE DEF Goal
<1>12. Goal
  <2>1. MarkRunning(f) \/ FinishJob(f) => Goal
    BY <1>1, <1>2 DEF Goal
  <2>2. Task(f) => Goal
    BY <1>5, <1>6, <1>7, <1>8, <1>9, <1>10, <2>1 DEF Task
  <2> QED BY <1>3, <1>4, <1>6, <1>11, <2>2, OnlyOwnSteps
<1> QED BY <1>12 DEF Goal

\* What the step of a job's row is when it has one run.
LEMMA OneRunSteps ==
  ASSUME MaxDeliveries = 1, TypeOK, [Next]_vars, NEW j \in Job
  PROVE  \/ job'[j].status = job[j].status
         \/ request[j] = "none" /\ request'[j] = "saved" /\ job'[j].status = "pending"
         \/ MarkRunning(<<j, 1>>) /\ job'[j].status = "running"
         \/ /\ FinishJob(<<j, 1>>)
            /\ job'[j].status = Verdict(run[<<j, 1>>].won, run[<<j, 1>>].lost)
<1>1. \A e \in RunsOf(j) : e = <<j, 1>>
  BY OneRun
<1> QED BY <1>1, JobSteps

LEMMA RequestStays ==
  ASSUME TypeOK, [Next]_vars, NEW j \in Job, request[j] # "none"
  PROVE  request'[j] # "none"
<1>0. request \in [Job -> {"none", "saved", "sent", "answered", "error"}]
  BY DEF TypeOK
<1>1. ASSUME NEW i \in Job, Request(i) PROVE request'[j] # "none"
  BY <1>0, <1>1 DEF Request, CreateJob, EnqueueJob, SaveTaskId, RequestDies
<1>2. ASSUME NEW e \in Delivery, Broker(e) PROVE request'[j] # "none"
  BY <1>2 DEF Broker, Reserve, Start, Redeliver, DropReserved
<1> QED BY <1>1, <1>2, WritesOfQueue

LEMMA StatusStep ==
  ASSUME MaxDeliveries = 1, TypeOK, NotQueuedEarly, IdleUntilAcked, StatusInv, [Next]_vars,
         NEW j \in Job
  PROVE  StatusOfRun(j)'
<1> DEFINE e == <<j, 1>>
<1>0. /\ e \in Delivery /\ e[1] = j
      /\ StatusOfRun(j)
      /\ request[j] = "none" => run[e].pc = "idle"
  <2>1. e \in Delivery /\ e[1] = j
    BY FirstDelivery
  <2> QED BY <2>1 DEF StatusInv, NotQueuedEarly, IdleUntilAcked
<1> HIDE DEF e
<1>a. /\ MarkRunning(e) => run[e].pc = "mark"
      /\ FinishJob(e) => run[e].pc = "loop"
      /\ FetchJob(e) => job[j].status # "absent"
      /\ Verdict(run[e].won, run[e].lost) \in Finals
  BY <1>0 DEF MarkRunning, FinishJob, FetchJob, Verdict, Finals
<1>1. StatusOfRun(j) <=>
        /\ request[j] = "none" => job[j].status = "absent"
        /\ run[e].pc \in {"idle", "begin"} => job[j].status \in {"absent", "pending"}
        /\ run[e].pc = "mark" => job[j].status = "pending"
        /\ run[e].pc \in Working \ {"mark"} => job[j].status = "running"
        /\ run[e].pc = "done" => job[j].status \in Finals
  BY DEF StatusOfRun, e
<1>2. StatusOfRun(j)' <=>
        /\ request'[j] = "none" => job'[j].status = "absent"
        /\ run'[e].pc \in {"idle", "begin"} => job'[j].status \in {"absent", "pending"}
        /\ run'[e].pc = "mark" => job'[j].status = "pending"
        /\ run'[e].pc \in Working \ {"mark"} => job'[j].status = "running"
        /\ run'[e].pc = "done" => job'[j].status \in Finals
  BY DEF StatusOfRun, e, Working, Finals
<1>3. \/ run'[e].pc \in {"raised", "killed"}
      \/ run'[e].pc = run[e].pc /\ ~MarkRunning(e) /\ ~FinishJob(e)
      \/ run[e].pc = "idle" /\ run'[e].pc = "begin"
      \/ run[e].pc = "begin" /\ run'[e].pc = "mark" /\ FetchJob(e)
      \/ MarkRunning(e) /\ run'[e].pc = "render"
      \/ FinishJob(e) /\ run'[e].pc = "done"
      \/ /\ run[e].pc \in Working \ {"mark"} /\ run'[e].pc \in Working \ {"mark"}
         /\ ~MarkRunning(e) /\ ~FinishJob(e)
  BY <1>0, RunStages
<1>4. request[j] # "none" => request'[j] # "none"
  BY RequestStays
<1>5. CASE job'[j].status = job[j].status /\ ~MarkRunning(e) /\ ~FinishJob(e)
  BY <1>0, <1>1, <1>2, <1>3, <1>4, <1>5, <1>a DEF Working, Finals
<1>6. CASE request[j] = "none" /\ request'[j] = "saved" /\ job'[j].status = "pending"
  BY <1>0, <1>2, <1>3, <1>6, <1>a DEF Working, Finals
<1>7. CASE MarkRunning(e) /\ job'[j].status = "running"
  BY <1>0, <1>1, <1>2, <1>3, <1>4, <1>7, <1>a DEF Working, Finals
<1>8. CASE FinishJob(e) /\ job'[j].status = Verdict(run[e].won, run[e].lost)
  BY <1>0, <1>1, <1>2, <1>3, <1>4, <1>8, <1>a DEF Working, Finals
<1>9. /\ MarkRunning(e) => job'[j].status = "running"
      /\ FinishJob(e) => job'[j].status = Verdict(run[e].won, run[e].lost)
  <2>1. /\ job \in [Job -> JobRow]
        /\ MarkRunning(e) => job' = [job EXCEPT ![j].status = "running"]
        /\ FinishJob(e) => job' = [job EXCEPT ![j].status = Verdict(run[e].won, run[e].lost),
                                              ![j].completed = TRUE]
    BY <1>0 DEF MarkRunning, FinishJob, TypeOK
  <2>2. ASSUME FinishJob(e) PROVE job'[j].status = Verdict(run[e].won, run[e].lost)
    <3> DEFINE verdict == Verdict(run[e].won, run[e].lost)
               row == [job[j] EXCEPT !.status = verdict, !.completed = TRUE]
    <3>1. job' = [job EXCEPT ![j] = row]
      BY <2>1, <2>2 DEF JobRow
    <3>2. row.status = verdict
      BY <2>1 DEF JobRow
    <3> HIDE DEF row
    <3> QED BY <2>1, <3>1, <3>2
  <2> QED BY <2>1, <2>2 DEF JobRow
<1>10. \/ job'[j].status = job[j].status
       \/ request[j] = "none" /\ request'[j] = "saved" /\ job'[j].status = "pending"
       \/ MarkRunning(e) /\ job'[j].status = "running"
       \/ FinishJob(e) /\ job'[j].status = Verdict(run[e].won, run[e].lost)
  BY OneRunSteps DEF e
<1> QED BY <1>5, <1>6, <1>7, <1>8, <1>9, <1>10

LEMMA InitStatus == Init => StatusInv
<1> SUFFICES ASSUME Init, NEW j \in Job PROVE StatusOfRun(j)
  BY DEF StatusInv
<1>1. job[j].status = "absent" /\ run[<<j, 1>>].pc = "idle"
  BY FirstDelivery DEF Init, NoJob, NewRun
<1> QED BY <1>1 DEF StatusOfRun, Working

StatusFacts == TypeOK /\ NotQueuedEarly /\ IdleUntilAcked /\ BooksInv /\ StatusInv

LEMMA StatusKept == ASSUME MaxDeliveries = 1 PROVE Spec => []StatusFacts
<1>1. TypeOK /\ NotQueuedEarly /\ IdleUntilAcked /\ StatusInv /\ [Next]_vars => StatusInv'
  BY StatusStep DEF StatusInv
<1> QED BY <1>1, InitStatus, BooksKept, PTL DEF Spec, StatusFacts

\* A job's status only moves forward, and a final one stays, whatever the
\* request, edits and deletions write beside the task.
THEOREM StatusMovesOn == ASSUME MaxDeliveries = 1 PROVE Spec => StatusProgress
<1> DEFINE Forward ==
          \A j \in Job :
            /\ Rank(job[j].status) <= Rank(job'[j].status)
            /\ job[j].status \in Finals => job'[j].status = job[j].status
<1>1. ASSUME StatusFacts, [Next]_vars PROVE Forward
  <2> SUFFICES ASSUME NEW j \in Job
               PROVE  /\ Rank(job[j].status) <= Rank(job'[j].status)
                      /\ job[j].status \in Finals => job'[j].status = job[j].status
    OBVIOUS
  <2>0. <<j, 1>> \in Delivery /\ StatusOfRun(j)
    BY <1>1, FirstDelivery DEF StatusFacts, StatusInv
  <2>1. CASE job'[j].status = job[j].status
    BY <2>1 DEF Rank
  <2>2. CASE request[j] = "none" /\ job'[j].status = "pending"
    BY <2>0, <2>2 DEF StatusOfRun, Rank, Finals
  <2>3. CASE MarkRunning(<<j, 1>>) /\ job'[j].status = "running"
    <3>1. job[j].status = "pending"
      BY <2>0, <2>3 DEF MarkRunning, StatusOfRun
    <3> QED BY <2>3, <3>1 DEF Rank, Finals
  <2>4. CASE /\ FinishJob(<<j, 1>>)
             /\ job'[j].status = Verdict(run[<<j, 1>>].won, run[<<j, 1>>].lost)
    <3>1. job[j].status = "running"
      BY <2>0, <2>4 DEF FinishJob, StatusOfRun, Working
    <3>2. job'[j].status \in Finals
      BY <2>4 DEF Verdict, Finals
    <3> QED BY <3>1, <3>2 DEF Rank, Finals
  <2> QED BY <1>1, <2>1, <2>2, <2>3, <2>4, OneRunSteps DEF StatusFacts
<1>2. StatusFacts /\ [Next]_vars => [Forward]_vars
  BY <1>1
<1> QED BY <1>2, StatusKept, PTL DEF Spec, StatusProgress

-----------------------------------------------------------------------------
(* Every step of Provisioning is a step of JobLifecycle or none            *)

\* The variables of the contract.
status == [j \in Job |-> job[j].status]
good   == [j \in Job |-> AuditedAs(<<j, 1>>, TRUE)]
bad    == [j \in Job |-> AuditedAs(<<j, 1>>, FALSE)]

LEMMA SameVerdicts == audit' = audit => good' = good /\ bad' = bad
BY DEF good, bad, AuditedAs

\* The row of one job has a new status, the others keep theirs.
LEMMA OneStatus ==
  ASSUME TypeOK, NEW j \in Job, NEW row, job' = [job EXCEPT ![j] = row]
  PROVE  status' = [status EXCEPT ![j] = row.status]
<1>1. status' = [i \in Job |-> job'[i].status]
  BY DEF status
<1>2. \A i \in Job : job'[i] = IF i = j THEN row ELSE job[i]
  BY DEF TypeOK
<1>3. status \in [Job -> {job[i].status : i \in Job}]
  BY DEF status
<1>4. \A i \in Job : [status EXCEPT ![j] = row.status][i]
                        = IF i = j THEN row.status ELSE job[i].status
  BY <1>3 DEF status
<1>5. \A i \in Job : status'[i] = IF i = j THEN row.status ELSE job[i].status
  BY <1>1, <1>2
<1> QED BY <1>1, <1>3, <1>4, <1>5

LEMMA InitContract == Init => Contract!Init
<1> SUFFICES ASSUME Init PROVE Contract!Init
  OBVIOUS
<1>1. \A j \in Job : job[j].status = "absent"
  BY DEF Init, NoJob
<1>2. \A e, ok : AuditedAs(e, ok) = {}
  BY DEF Init, AuditedAs
<1> QED BY <1>1, <1>2 DEF Contract!Init

\* The request: the job appears with status pending.
LEMMA CreateIsSubmit ==
  ASSUME StatusFacts, NEW j \in Job, NEW t, NEW ds, CreateJob(j, t, ds)
  PROVE  Contract!Submit(j)
<1> DEFINE row == [NoJob EXCEPT !.status = "pending", !.template = t, !.devices = ds]
<1>1. job' = [job EXCEPT ![j] = row] /\ row.status = "pending" /\ audit' = audit
  BY DEF CreateJob, NoJob
<1>2. job[j].status = "absent"
  BY DEF CreateJob, StatusFacts, StatusInv, StatusOfRun
<1> HIDE DEF row
<1>3. status' = [status EXCEPT ![j] = "pending"] /\ status[j] = "absent"
  BY <1>1, <1>2, OneStatus DEF StatusFacts, status
<1>4. good' = good /\ bad' = bad
  BY <1>1, SameVerdicts
<1> QED BY <1>3, <1>4 DEF Contract!Submit, status, good, bad

\* The first statement of the task: the status is running.
LEMMA MarkIsBegin ==
  ASSUME StatusFacts, NEW j \in Job, MarkRunning(<<j, 1>>)
  PROVE  Contract!Begin(j)
<1> DEFINE row == [job[j] EXCEPT !.status = "running"]
<1>1. job' = [job EXCEPT ![j] = row] /\ row.status = "running" /\ audit' = audit
  BY DEF MarkRunning, StatusFacts, TypeOK, JobRow
<1>2. job[j].status = "pending"
  BY DEF MarkRunning, StatusFacts, StatusInv, StatusOfRun
<1> HIDE DEF row
<1>3. status' = [status EXCEPT ![j] = "running"] /\ status[j] = "pending"
  BY <1>1, <1>2, OneStatus DEF StatusFacts, status
<1>4. good' = good /\ bad' = bad
  BY <1>1, SameVerdicts
<1> QED BY <1>3, <1>4 DEF Contract!Begin, status, good, bad

\* The last one: the status is the outcome of the verdicts.
LEMMA FinishIsConclude ==
  ASSUME StatusFacts, NEW j \in Job, FinishJob(<<j, 1>>)
  PROVE  Contract!Conclude(j)
<1> DEFINE e == <<j, 1>>
           verdict == Verdict(run[e].won, run[e].lost)
           row == [job[j] EXCEPT !.status = verdict, !.completed = TRUE]
<1>0. e \in Delivery /\ e[1] = j /\ run[e].pc = "loop" /\ audit' = audit
  BY FirstDelivery DEF FinishJob
<1>1. run[e].won = AuditedAs(e, TRUE) /\ run[e].lost = AuditedAs(e, FALSE)
  <2>1. Books(e)
    BY <1>0 DEF StatusFacts, BooksInv
  <2> HIDE DEF e
  <2> QED BY <1>0, <2>1 DEF Books, Owed
<1>2. job' = [job EXCEPT ![j] = row]
  <2>1. job' = [job EXCEPT ![j].status = verdict, ![j].completed = TRUE]
    BY <1>0 DEF FinishJob
  <2>2. job \in [Job -> JobRow]
    BY DEF StatusFacts, TypeOK
  <2> HIDE DEF verdict
  <2> QED BY <2>1, <2>2 DEF JobRow
<1>3. row.status = verdict
  BY DEF StatusFacts, TypeOK, JobRow
<1>4. job[j].status = "running"
  BY <1>0 DEF StatusFacts, StatusInv, StatusOfRun, Working
<1> HIDE DEF row
<1>5. status' = [status EXCEPT ![j] = verdict] /\ status[j] = "running"
  BY <1>2, <1>3, <1>4, OneStatus DEF StatusFacts, status
<1>6. verdict = Contract!Outcome(j)
  BY <1>1 DEF Verdict, Contract!Outcome
<1>7. good' = good /\ bad' = bad
  BY <1>0, SameVerdicts
<1> HIDE DEF verdict
<1> QED BY <1>5, <1>6, <1>7 DEF Contract!Conclude, status, good, bad

\* The audit row of a device is its verdict, the first and only one.
LEMMA AuditIsJudge ==
  ASSUME MaxDeliveries = 1, StatusFacts, [Next]_vars, NEW j \in Job, RecordAudit(<<j, 1>>)
  PROVE  \E d \in Device : Contract!Judge(j, d)
<1> DEFINE e == <<j, 1>>
           d == run[e].cur
<1>0. e \in Delivery /\ TypeOK /\ BooksInv
  BY FirstDelivery DEF StatusFacts
<1>1. /\ run[e].pc = "audit" /\ d \in Device /\ run[e].ok \in BOOLEAN
      /\ job' = job /\ audit' = audit \cup {RowOf(e)}
  BY <1>0 DEF RecordAudit, TypeOK, RunState
<1>2. job[j].status = "running"
  BY <1>1 DEF StatusFacts, StatusInv, StatusOfRun, Working
<1>3. d \notin AuditedAs(e, TRUE) \cup AuditedAs(e, FALSE)
  BY <1>0, <1>1, AuditedUnion DEF BooksInv, Fresh
<1>4. \A yes \in BOOLEAN :
        AuditedAs(e, yes)' = AuditedAs(e, yes) \cup (IF run[e].ok = yes THEN {d} ELSE {})
  BY <1>0, <1>1, AuditSteps DEF Owed
<1>5. \A i \in Job \ {j} : \A yes \in BOOLEAN : AuditedAs(<<i, 1>>, yes)' = AuditedAs(<<i, 1>>, yes)
  <2> SUFFICES ASSUME NEW i \in Job \ {j}, NEW yes \in BOOLEAN
               PROVE  AuditedAs(<<i, 1>>, yes)' = AuditedAs(<<i, 1>>, yes)
    OBVIOUS
  <2>1. \A c \in Device : [run |-> <<i, 1>>, device |-> c, success |-> yes] # RowOf(e)
    <3>1. RowOf(e).run = e /\ e # <<i, 1>>
      BY DEF RowOf
    <3> QED BY <3>1
  <2> QED BY <1>1, <2>1 DEF AuditedAs
<1>6. status' = status /\ status[j] = "running"
  BY <1>1, <1>2 DEF status
<1>7. d \notin good[j] \cup bad[j]
  BY <1>3 DEF good, bad
<1>8. CASE run[e].ok
  <2>1. /\ AuditedAs(e, TRUE)' = AuditedAs(e, TRUE) \cup {d}
        /\ AuditedAs(e, FALSE)' = AuditedAs(e, FALSE)
    BY <1>1, <1>4, <1>8
  <2>2. good' = [good EXCEPT ![j] = @ \cup {d}] /\ bad' = bad
    BY <1>5, <2>1 DEF good, bad
  <2> QED BY <1>1, <1>6, <1>7, <2>2 DEF Contract!Judge, status, good, bad
<1>9. CASE ~run[e].ok
  <2>1. /\ AuditedAs(e, TRUE)' = AuditedAs(e, TRUE)
        /\ AuditedAs(e, FALSE)' = AuditedAs(e, FALSE) \cup {d}
    BY <1>1, <1>4, <1>9
  <2>2. bad' = [bad EXCEPT ![j] = @ \cup {d}] /\ good' = good
    BY <1>5, <2>1 DEF good, bad
  <2> QED BY <1>1, <1>6, <1>7, <2>2 DEF Contract!Judge, status, good, bad
<1> QED BY <1>8, <1>9

LEMMA StepOfContract ==
  ASSUME MaxDeliveries = 1, StatusFacts, [Next]_vars
  PROVE  [Contract!Next]_(Contract!vars)
<1> DEFINE Step == \/ \E j \in Job : \/ Contract!Submit(j) \/ Contract!Begin(j)
                                     \/ Contract!Conclude(j)
                                     \/ \E d \in Device : Contract!Judge(j, d)
                   \/ status' = status /\ good' = good /\ bad' = bad
<1>1. Step => [Contract!Next]_(Contract!vars)
  BY DEF Contract!Next, Contract!vars, status, good, bad
<1> HIDE DEF Step
<1>2. \A e \in Delivery : e[1] \in Job /\ e = <<e[1], 1>>
  <2>1. \A e \in Delivery : e \in RunsOf(e[1]) /\ e[1] \in Job
    BY DeliveryJob DEF RunsOf
  <2> QED BY <2>1, OneRun
<1>3. ASSUME \A j \in Job : job'[j].status = job[j].status, audit' = audit PROVE Step
  BY <1>3, SameVerdicts DEF Step, status
<1>4. job \in [Job -> JobRow]
  BY DEF StatusFacts, TypeOK
<1>5. ASSUME NEW e \in Delivery, RecordAudit(e) PROVE Step
  BY <1>2, <1>5, AuditIsJudge DEF Step
<1>6. ASSUME NEW e \in Delivery, MarkRunning(e) \/ FinishJob(e) PROVE Step
  BY <1>2, <1>6, MarkIsBegin, FinishIsConclude DEF Step
<1>7. ASSUME NEW e \in Delivery, RenderJob(e) \/ RecordResult(e) PROVE Step
  BY <1>2, <1>3, <1>4, <1>7 DEF RenderJob, RecordResult, JobRow
<1>8. ASSUME NEW j \in Job, Request(j) PROVE Step
  <2>1. ASSUME NEW t, NEW ds, CreateJob(j, t, ds) PROVE Step
    BY <2>1, CreateIsSubmit DEF Step
  <2>2. CASE SaveTaskId(j)
    BY <1>3, <1>4, <2>2 DEF SaveTaskId, JobRow
  <2>3. CASE EnqueueJob(j) \/ RequestDies(j)
    BY <1>3, <2>3 DEF EnqueueJob, RequestDies
  <2> QED BY <1>8, <2>1, <2>2, <2>3 DEF Request
<1>9. ASSUME NEW t \in Template, DeleteTemplate(t) PROVE Step
  BY <1>3, <1>4, <1>9 DEF DeleteTemplate, JobRow
<1>10. ASSUME NEW d \in Device, DeleteDevice(d) PROVE Step
  BY <1>3, <1>4, <1>10 DEF DeleteDevice, JobRow
<1>11. ASSUME UNCHANGED job, UNCHANGED audit PROVE Step
  BY <1>3, <1>11
<1>12. CASE UNCHANGED job
  BY <1>1, <1>5, <1>7, <1>10, <1>11, <1>12, WritesOfRows
<1>13. CASE ~UNCHANGED job
  <2>1. \/ \E j \in Job : Request(j)
        \/ \E e \in Delivery : MarkRunning(e) \/ RenderJob(e) \/ FinishJob(e)
        \/ \E t \in Template : DeleteTemplate(t)
        \/ \E d \in Device : DeleteDevice(d)
    BY <1>13, WritesOfJobs
  <2>2. Step
    BY <1>6, <1>7, <1>8, <1>9, <1>10, <2>1
  <2> QED BY <1>1, <2>2
<1> QED BY <1>12, <1>13

\* With one delivery per message the job row and the audit trail together keep
\* the contract: pending, running, final; one verdict per device, while the job
\* runs; and the final status is what the verdicts add up to.
THEOREM ContractKept == ASSUME MaxDeliveries = 1 PROVE Spec => JobContract
<1>1. StatusFacts /\ [Next]_vars => [Contract!Next]_(Contract!vars)
  BY StepOfContract
<1> QED BY <1>1, InitContract, StatusKept, PTL DEF Spec, JobContract, Contract!Spec
=============================================================================
