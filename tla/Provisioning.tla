---------------------------- MODULE Provisioning ----------------------------
(***************************************************************************)
(* Configuration push: the REST request that creates a ProvisioningJob and *)
(* enqueues its Celery task, the broker that delivers the task, and the    *)
(* task execute_provisioning_job that renders the template and pushes the  *)
(* result to each device over SSH, with template edits and device deletion *)
(* going on beside it.                                                     *)
(*                                                                         *)
(* An action is a stretch of code between two points at which another      *)
(* process can see or change shared state: a statement committed to the    *)
(* database (no ATOMIC_REQUESTS, so each one commits by itself), a message *)
(* to the broker, or an exchange with a device.                            *)
(***************************************************************************)
EXTENDS Naturals

CONSTANTS
  Job,            \* primary keys of the ProvisioningJob rows requests create
  Device,         \* primary keys of the Device rows in the inventory
  Template,       \* primary keys of the ConfigTemplate rows
  Body,           \* texts a template's body can hold
  BadBody,        \* the texts render_template rejects with ValueError
  None,           \* SQL NULL, and a local that is not set yet
  MaxDeliveries   \* bound: how often the broker hands out one task message

ASSUME BodyAssumption == BadBody \subseteq Body
ASSUME NoneAssumption == None \notin Body /\ None \notin Template /\ None \notin Device
ASSUME DeliveriesAssumption == MaxDeliveries \in Nat \ {0}

VARIABLES
  template,  \* ConfigTemplate.body by key, None once the row is deleted
  device,    \* the Device rows that exist
  job,       \* the ProvisioningJob rows
  result,    \* the ProvisioningResult rows
  audit,     \* the AuditLog rows with action push_config
  request,   \* how far the POST that creates each job has come
  message,   \* where each delivery of a job's task message is
  run,       \* the locals of the task run each delivery starts
  running,   \* the bodies in force on each device (running-config)
  startup,   \* the bodies each device keeps across a reload (startup-config)
  touched    \* history: the <<run, device>> pairs whose session sent config lines

rows   == <<template, device, job, result, audit>>
broker == <<request, message>>
wire   == <<running, startup, touched>>
vars   == <<template, device, job, result, audit, request, message, run,
            running, startup, touched>>

Finals == {"success", "partial", "failed"}
Status == {"absent", "pending", "running"} \cup Finals

\* The n-th delivery of job j's task message is <<j, n>>; it also names the
\* task run that delivery starts.
Delivery == Job \X (1 .. MaxDeliveries)

Ended  == {"done", "raised", "killed"}
Pc     == {"idle", "begin", "mark", "render", "loop", "sent", "record", "audit"}
            \cup Ended
Live   == Pc \ (Ended \cup {"idle"})

NewRun == [pc |-> "idle", body |-> None, todo |-> {}, cur |-> None, ok |-> FALSE,
           won |-> {}, lost |-> {}]

NoJob == [status |-> "absent", template |-> None, devices |-> {},
          rendered |-> None, taskId |-> FALSE, completed |-> FALSE]

JobRow == [status : Status, template : Template \cup {None},
           devices : SUBSET Device, rendered : Body \cup {None},
           taskId : BOOLEAN, completed : BOOLEAN]

RunState == [pc : Pc, body : Body \cup {None}, todo : SUBSET Device,
             cur : Device \cup {None}, ok : BOOLEAN,
             won : SUBSET Device, lost : SUBSET Device]

\* A row written for one device by one run.  AuditLog.device is set to NULL
\* when the device is deleted; the row itself stays, and here keeps the name
\* of the device it was written for.
DeviceRow == [run : Delivery, device : Device, success : BOOLEAN]

TypeOK ==
  /\ template \in [Template -> Body \cup {None}]
  /\ device \subseteq Device
  /\ job \in [Job -> JobRow]
  /\ result \subseteq DeviceRow
  /\ audit \subseteq DeviceRow
  /\ request \in [Job -> {"none", "saved", "sent", "answered", "error"}]
  /\ message \in [Delivery -> {"none", "queued", "reserved", "dropped", "acked"}]
  /\ run \in [Delivery -> RunState]
  /\ running \in [Device -> SUBSET (Body \cup {None})]
  /\ startup \in [Device -> SUBSET (Body \cup {None})]
  /\ touched \subseteq Delivery \X Device

Init ==
  /\ template \in [Template -> Body]
  /\ device = Device
  /\ job = [j \in Job |-> NoJob]
  /\ result = {}
  /\ audit = {}
  /\ request = [j \in Job |-> "none"]
  /\ message = [e \in Delivery |-> "none"]
  /\ run = [e \in Delivery |-> NewRun]
  /\ running = [d \in Device |-> {}]
  /\ startup = [d \in Device |-> {}]
  /\ touched = {}

-----------------------------------------------------------------------------
(* The request: ProvisioningJobViewSet.create                              *)

\* The serializer accepts existing devices, none at all included, and an
\* existing template or null; serializer.save commits the row.
CreateJob(j, t, ds) ==
  /\ request[j] = "none"
  /\ ds \subseteq device
  /\ t # None => template[t] # None
  /\ job' = [job EXCEPT ![j] = [NoJob EXCEPT !.status = "pending",
                                             !.template = t, !.devices = ds]]
  /\ request' = [request EXCEPT ![j] = "saved"]
  /\ UNCHANGED <<template, device, result, audit, message, run, wire>>

\* Mutant: the task is sent before the row is committed.
EnqueueUnsavedJob(j) ==
  /\ request[j] \in {"none", "saved"}
  /\ request' = [request EXCEPT ![j] = "sent"]
  /\ message' = [message EXCEPT ![<<j, 1>>] = "queued"]
  /\ UNCHANGED <<rows, run, wire>>

\* execute_provisioning_job.delay(job.id)
EnqueueJob(j) ==
  /\ request[j] = "saved"
  /\ request' = [request EXCEPT ![j] = "sent"]
  /\ message' = [message EXCEPT ![<<j, 1>>] = "queued"]
  /\ UNCHANGED <<rows, run, wire>>

\* Mutant: job.save() without update_fields writes the stale status back.
SaveStaleRow(j) ==
  /\ request[j] = "sent"
  /\ job' = [job EXCEPT ![j].taskId = TRUE, ![j].status = "pending"]
  /\ request' = [request EXCEPT ![j] = "answered"]
  /\ UNCHANGED <<template, device, result, audit, message, run, wire>>

\* job.save(update_fields=["celery_task_id"]) on the object read before the
\* task was sent: only that column is written.
SaveTaskId(j) ==
  /\ request[j] = "sent"
  /\ job' = [job EXCEPT ![j].taskId = TRUE]
  /\ request' = [request EXCEPT ![j] = "answered"]
  /\ UNCHANGED <<template, device, result, audit, message, run, wire>>

\* The broker refuses the message, or the web worker is stopped.
RequestDies(j) ==
  /\ request[j] \in {"saved", "sent"}
  /\ request' = [request EXCEPT ![j] = "error"]
  /\ UNCHANGED <<rows, message, run, wire>>

-----------------------------------------------------------------------------
(* Celery over Redis: a worker reserves (prefetches) a message and         *)
(* acknowledges it when it starts the task, the default; a message that    *)
(* stays reserved past the visibility timeout is delivered once more.      *)

Reserve(e) ==
  /\ message[e] = "queued"
  /\ message' = [message EXCEPT ![e] = "reserved"]
  /\ UNCHANGED <<rows, request, run, wire>>

Start(e) ==
  /\ message[e] = "reserved"
  /\ message' = [message EXCEPT ![e] = "acked"]
  /\ run' = [run EXCEPT ![e].pc = "begin"]
  /\ UNCHANGED <<rows, request, wire>>

NextDelivery(e) == <<e[1], e[2] + 1>>

Redeliver(e) ==
  /\ message[e] \in {"reserved", "dropped"}
  /\ e[2] < MaxDeliveries
  /\ message[NextDelivery(e)] = "none"
  /\ message' = [message EXCEPT ![NextDelivery(e)] = "queued"]
  /\ UNCHANGED <<rows, request, run, wire>>

\* The worker stops while it holds the message; the visibility timeout will
\* bring it back, so the bound on deliveries must leave room for that.
DropReserved(e) ==
  /\ message[e] = "reserved"
  /\ e[2] < MaxDeliveries
  /\ message' = [message EXCEPT ![e] = "dropped"]
  /\ UNCHANGED <<rows, request, run, wire>>

-----------------------------------------------------------------------------
(* The task: execute_provisioning_job(job_id)                              *)

\* Objects fetched once: the job with its template (select_related) and its
\* devices (prefetch_related); the loop below never reads them again.
FetchJob(e) ==
  LET row == job[e[1]] IN
  /\ run[e].pc = "begin"
  /\ row.status # "absent"
  /\ run' = [run EXCEPT ![e] = [@ EXCEPT
       !.pc = "mark",
       !.body = IF row.template = None THEN None ELSE template[row.template],
       !.todo = row.devices]]
  /\ UNCHANGED <<rows, broker, wire>>

MarkRunning(e) ==
  /\ run[e].pc = "mark"
  /\ job' = [job EXCEPT ![e[1]].status = "running"]
  /\ run' = [run EXCEPT ![e].pc = "render"]
  /\ UNCHANGED <<template, device, result, audit, broker, wire>>

\* Mutant: undefined variables render as empty text and syntax errors pass.
RenderLeniently(e) ==
  /\ run[e].pc = "render"
  /\ run[e].body \in Body
  /\ job' = [job EXCEPT ![e[1]].rendered = run[e].body]
  /\ run' = [run EXCEPT ![e].pc = "loop"]
  /\ UNCHANGED <<template, device, result, audit, broker, wire>>

RenderJob(e) ==
  /\ run[e].pc = "render"
  /\ run[e].body \in Body \ BadBody
  /\ job' = [job EXCEPT ![e[1]].rendered = run[e].body]
  /\ run' = [run EXCEPT ![e].pc = "loop"]
  /\ UNCHANGED <<template, device, result, audit, broker, wire>>

\* ValueError from render_template, AttributeError when there is no template:
\* neither is caught, and the task ends here.
RenderRaises(e) ==
  /\ run[e].pc = "render"
  /\ run[e].body \in BadBody \cup {None}
  /\ run' = [run EXCEPT ![e].pc = "raised"]
  /\ UNCHANGED <<rows, broker, wire>>

\* NetmikoClient.push_config(config_lines): connect, send_config_set,
\* save_config and, in the finally clause, disconnect.  Whatever one of them
\* raises reaches the loop as NetmikoError.
Visit(e, d, pc, ok) ==
  run' = [run EXCEPT ![e] = [@ EXCEPT !.pc = pc, !.cur = d, !.ok = ok,
                                      !.todo = run[e].todo \ {d}]]

ConnectFails(e, d) ==
  /\ run[e].pc = "loop"
  /\ d \in run[e].todo
  /\ Visit(e, d, "record", FALSE)
  /\ UNCHANGED <<rows, broker, wire>>

SendConfig(e, d) ==
  /\ run[e].pc = "loop"
  /\ d \in run[e].todo
  /\ Visit(e, d, "sent", FALSE)
  /\ running' = [running EXCEPT ![d] = @ \cup {run[e].body}]
  /\ touched' = touched \cup {<<e, d>>}
  /\ UNCHANGED <<rows, broker, startup>>

\* The session drops after some of the lines.
SendFails(e, d) ==
  /\ run[e].pc = "loop"
  /\ d \in run[e].todo
  /\ Visit(e, d, "record", FALSE)
  /\ touched' = touched \cup {<<e, d>>}
  /\ UNCHANGED <<rows, broker, running, startup>>

\* save_config copies all of the running configuration, whoever wrote it; the
\* push succeeds unless closing the session (ok = FALSE) raises after that.
SaveConfig(e, ok) ==
  LET d == run[e].cur IN
  /\ run[e].pc = "sent"
  /\ startup' = [startup EXCEPT ![d] = running[d]]
  /\ run' = [run EXCEPT ![e] = [@ EXCEPT !.pc = "record", !.ok = ok]]
  /\ UNCHANGED <<rows, broker, running, touched>>

\* Mutant: the exception of save_config is swallowed.
SaveErrorIgnored(e) ==
  /\ run[e].pc = "sent"
  /\ run' = [run EXCEPT ![e] = [@ EXCEPT !.pc = "record", !.ok = TRUE]]
  /\ UNCHANGED <<rows, broker, wire>>

SaveConfigFails(e) ==
  /\ run[e].pc = "sent"
  /\ run' = [run EXCEPT ![e] = [@ EXCEPT !.pc = "record", !.ok = FALSE]]
  /\ UNCHANGED <<rows, broker, wire>>

RowOf(e) == [run |-> e, device |-> run[e].cur, success |-> run[e].ok]

Booked(e, ds, yes) == IF yes THEN ds \cup {run[e].cur} ELSE ds

\* Mutant: the except clauses store the row but skip results.append.
RecordResultKeepsWins(e) ==
  /\ run[e].pc = "record"
  /\ run[e].cur \in device
  /\ result' = result \cup {RowOf(e)}
  /\ run' = [run EXCEPT ![e].pc = "audit",
                        ![e].won = Booked(e, run[e].won, run[e].ok)]
  /\ UNCHANGED <<template, device, job, audit, broker, wire>>

\* ProvisioningResult.objects.create and results.append
RecordResult(e) ==
  /\ run[e].pc = "record"
  /\ run[e].cur \in device
  /\ result' = result \cup {RowOf(e)}
  /\ run' = [run EXCEPT ![e] = [@ EXCEPT
       !.pc = "audit",
       !.won = Booked(e, run[e].won, run[e].ok),
       !.lost = Booked(e, run[e].lost, ~run[e].ok)]]
  /\ UNCHANGED <<template, device, job, audit, broker, wire>>

\* Mutant: only a successful push is audited.
RecordAuditOfSuccess(e) ==
  /\ run[e].pc = "audit"
  /\ run[e].cur \in device
  /\ audit' = IF run[e].ok THEN audit \cup {RowOf(e)} ELSE audit
  /\ run' = [run EXCEPT ![e].pc = "loop"]
  /\ UNCHANGED <<template, device, job, result, broker, wire>>

\* AuditLog.objects.create
RecordAudit(e) ==
  /\ run[e].pc = "audit"
  /\ run[e].cur \in device
  /\ audit' = audit \cup {RowOf(e)}
  /\ run' = [run EXCEPT ![e].pc = "loop"]
  /\ UNCHANGED <<template, device, job, result, broker, wire>>

\* The device row is gone: the insert breaks the foreign key, IntegrityError
\* leaves the loop (both inserts stand outside its try) and ends the task.
RecordRaises(e) ==
  /\ run[e].pc \in {"record", "audit"}
  /\ run[e].cur \notin device
  /\ run' = [run EXCEPT ![e].pc = "raised"]
  /\ UNCHANGED <<rows, broker, wire>>

\* Mutants: no partial verdict; a status of its own.
VerdictOfAll(won, lost)  == IF lost = {} THEN "success" ELSE "failed"
VerdictMixed(won, lost)  ==
  IF lost = {} THEN "success" ELSE IF won = {} THEN "failed" ELSE "mixed"

\* successes == total is tested first, so a job with no device succeeds.
Verdict(won, lost) ==
  IF lost = {} THEN "success" ELSE IF won = {} THEN "failed" ELSE "partial"

\* Mutant: update_fields of the last save forgets the status.
FinishJobUnsaved(e) ==
  /\ run[e].pc = "loop"
  /\ run[e].todo = {}
  /\ job' = [job EXCEPT ![e[1]].completed = TRUE]
  /\ run' = [run EXCEPT ![e].pc = "done"]
  /\ UNCHANGED <<template, device, result, audit, broker, wire>>

FinishJob(e) ==
  /\ run[e].pc = "loop"
  /\ run[e].todo = {}
  /\ job' = [job EXCEPT ![e[1]].status = Verdict(run[e].won, run[e].lost),
                        ![e[1]].completed = TRUE]
  /\ run' = [run EXCEPT ![e].pc = "done"]
  /\ UNCHANGED <<template, device, result, audit, broker, wire>>

\* The worker process dies.  The message was acknowledged at the start and
\* the task has max_retries=0, so nothing runs it again.
KillRun(e) ==
  /\ run[e].pc \in Live
  /\ run' = [run EXCEPT ![e].pc = "killed"]
  /\ UNCHANGED <<rows, broker, wire>>

-----------------------------------------------------------------------------
(* What goes on beside the task                                            *)

EditTemplate(t, b) ==
  /\ template[t] # None
  /\ template' = [template EXCEPT ![t] = b]
  /\ UNCHANGED <<device, job, result, audit, broker, run, wire>>

\* ProvisioningJob.template is SET_NULL.
DeleteTemplate(t) ==
  /\ template[t] # None
  /\ template' = [template EXCEPT ![t] = None]
  /\ job' = [j \in Job |->
       IF job[j].template = t THEN [job[j] EXCEPT !.template = None] ELSE job[j]]
  /\ UNCHANGED <<device, result, audit, broker, run, wire>>

\* ProvisioningResult cascades and the many-to-many row goes; audit rows stay.
DeleteDevice(d) ==
  /\ d \in device
  /\ device' = device \ {d}
  /\ job' = [j \in Job |-> [job[j] EXCEPT !.devices = @ \ {d}]]
  /\ result' = {r \in result : r.device # d}
  /\ UNCHANGED <<template, audit, broker, run, wire>>

\* The device restarts from its startup configuration; sessions to it drop,
\* and a run between send_config_set and save_config gets an exception.
Reload(d) ==
  /\ running' = [running EXCEPT ![d] = startup[d]]
  /\ run' = [e \in Delivery |->
       IF run[e].pc = "sent" /\ run[e].cur = d
         THEN [run[e] EXCEPT !.pc = "record", !.ok = FALSE] ELSE run[e]]
  /\ UNCHANGED <<rows, broker, startup, touched>>

-----------------------------------------------------------------------------
Request(j) ==
  \/ \E t \in Template \cup {None}, ds \in SUBSET Device : CreateJob(j, t, ds)
  \/ EnqueueJob(j)
  \/ SaveTaskId(j)
  \/ RequestDies(j)

Task(e) ==
  \/ FetchJob(e)
  \/ MarkRunning(e)
  \/ RenderJob(e)
  \/ RenderRaises(e)
  \/ \E d \in Device : ConnectFails(e, d) \/ SendConfig(e, d) \/ SendFails(e, d)
  \/ \E ok \in BOOLEAN : SaveConfig(e, ok)
  \/ SaveConfigFails(e)
  \/ RecordResult(e)
  \/ RecordAudit(e)
  \/ RecordRaises(e)
  \/ FinishJob(e)

Broker(e) == Reserve(e) \/ Start(e) \/ Redeliver(e) \/ DropReserved(e)

Environment ==
  \/ \E t \in Template : DeleteTemplate(t) \/ \E b \in Body : EditTemplate(t, b)
  \/ \E d \in Device : DeleteDevice(d) \/ Reload(d)

Next ==
  \/ \E j \in Job : Request(j)
  \/ \E e \in Delivery : Broker(e) \/ Task(e) \/ KillRun(e)
  \/ Environment

Spec == Init /\ [][Next]_vars

\* Workers keep consuming their queues and every step of a task ends: each
\* SSH exchange has a timeout.  Requests, edits and crashes owe nothing.
FairSpec ==
  /\ Spec
  /\ \A e \in Delivery :
       /\ WF_vars(Reserve(e) \/ Start(e))
       /\ WF_vars(Redeliver(e) /\ message[e] = "dropped")
       /\ WF_vars(Task(e))
-----------------------------------------------------------------------------
(* Properties                                                              *)

RunsOf(j)   == {e \in Delivery : e[1] = j}
Touched(e)  == {d \in Device : <<e, d>> \in touched}
Audited(e)  == {d \in Device : \E ok \in BOOLEAN :
                   [run |-> e, device |-> d, success |-> ok] \in audit}
AuditedAs(e, ok) == {d \in Device : [run |-> e, device |-> d, success |-> ok] \in audit}

\* The task never finds its job missing: the row is committed before the
\* message is sent (views.py create), so objects.get cannot raise DoesNotExist.
TaskFindsJob ==
  \A e \in Delivery : message[e] # "none" => job[e[1]].status # "absent"

\* A success on record, in the job's results or in the audit trail, means the
\* rendered configuration survives a restart of the device, whatever other
\* sessions and reloads came between (push_config saves before it returns).
SuccessIsSaved ==
  \A r \in audit \cup result : r.success => run[r.run].body \in startup[r.device]

\* No text the renderer rejects ever reaches a device, not even through another
\* job's save_config (StrictUndefined; the render precedes every connection).
OnlyRenderedConfig ==
  \A d \in Device : running[d] \cup startup[d] \subseteq Body \ BadBody

\* The audit trail trails the devices by at most the one device a run is busy
\* with, and has caught up each time the loop turns and when the task ends.
AuditTrail ==
  \A e \in Delivery :
    LET missing == Touched(e) \ Audited(e) IN
    /\ missing \subseteq {run[e].cur}
    /\ run[e].pc \in {"loop", "done"} => missing = {}

\* A final status is the one the audit rows of some finished run of that job
\* add up to, and that run dealt with every device the job still has.
Explains(e, status) ==
  /\ status = "success" => AuditedAs(e, FALSE) = {}
  /\ status = "failed"  => AuditedAs(e, TRUE) = {} /\ AuditedAs(e, FALSE) # {}
  /\ status = "partial" => AuditedAs(e, TRUE) # {} /\ AuditedAs(e, FALSE) # {}

StatusExplained ==
  \A j \in Job : job[j].status \in Finals =>
    \E e \in RunsOf(j) :
      /\ run[e].pc = "done"
      /\ Explains(e, job[j].status)
      /\ job[j].devices \subseteq Audited(e)

\* With one delivery per message a job's status only moves forward, and a
\* final one stays: the request's late save of celery_task_id, edits and
\* deletions included.
Rank(status) == CASE status = "absent"  -> 0
                  [] status = "pending" -> 1
                  [] status = "running" -> 2
                  [] OTHER              -> 3

StatusProgress ==
  [][\A j \in Job :
       /\ Rank(job[j].status) <= Rank(job'[j].status)
       /\ job[j].status \in Finals => job'[j].status = job[j].status]_vars

\* Every job whose task was sent reaches a final status, unless one of its
\* runs raised or was killed, the two ways the code leaves a job running.
QueuedJobSettles ==
  \A j \in Job :
    message[<<j, 1>>] # "none" ~>
      \/ job[j].status \in Finals
      \/ \E e \in RunsOf(j) : run[e].pc \in {"raised", "killed"}

-----------------------------------------------------------------------------
(* What a job promises (JobLifecycle), as its row and the audit trail show *)
(* it when each message is delivered once.                                 *)

Contract == INSTANCE JobLifecycle WITH
  status <- [j \in Job |-> job[j].status],
  good   <- [j \in Job |-> AuditedAs(<<j, 1>>, TRUE)],
  bad    <- [j \in Job |-> AuditedAs(<<j, 1>>, FALSE)]

\* The status goes pending, running, final; each device gets at most one
\* verdict, while the job runs; and the final status is what they add up to.
JobContract == Contract!Spec

-----------------------------------------------------------------------------
(* Statements of the documentation the code does not keep                  *)

\* README.md of the app, line 95: "running" - Celery task is executing.
RunningMeansExecuting ==
  \A j \in Job : job[j].status = "running" =>
    \E e \in RunsOf(j) : run[e].pc \in Live
=============================================================================
