# Verification of the DevSecOps platform

TLA+ models of the platform in this repository, the TLC runs that check them on
small instances, and theorems the TLA+ proof system checks for every instance.
Paths are relative to the repository; `tasks.py:41` means line 41.

- [The system](#the-system)
- [The modules](#the-modules)
- [The runs](#the-runs)
- [Fairness](#fairness)
- [What is proved](#what-is-proved)
- [Where the code and its documentation part](#where-the-code-and-its-documentation-part)
- [What is not modelled](#what-is-not-modelled)
- [Plan](#plan)

## The system

A Django application (REST API and browser pages, four gunicorn workers), three
Celery queues over Redis, PostgreSQL, and around them Prometheus, AlertManager
and Grafana. It keeps an inventory of network devices, finds them, configures
them over SSH, watches their configuration drift and collects their alerts.

No request and no task runs in a transaction of its own (`settings.py` has no
`ATOMIC_REQUESTS`, and the code opens none): **every statement that reaches the
database commits by itself**. Any other request or task may run between two of
them, and a process may die there. This is the unit of interleaving in all the
models: one action per statement that reads or writes shared state.

| Part | State it keeps | Operations | What makes it correct |
|---|---|---|---|
| Provisioning jobs (`apps/provisioning`) | `ConfigTemplate`, `ProvisioningJob`, `ProvisioningResult`, `AuditLog` | POST a job; `execute_provisioning_job`; CRUD of templates | The status of a job is what its results add up to and only moves forward; a recorded success is really on the device; every push leaves its rows |
| Netmiko client | the device's running and startup configuration | connect, `send_config_set`, `save_config` | A failure between the two is a failure |
| Discovery (`apps/inventory`) | `Device`, `DiscoveryJob` | POST a job; `run_discovery`; CRUD of devices | A scan adds devices and changes none; its counts are true also when it failed; it ends |
| Inventory and reachability | `Device` | CRUD of devices; `check_device_reachability`, `refresh_all_device_status` | A check changes a status and nothing else, and revives nothing; a refresh checks every device |
| Golden configuration (`apps/security`) | `ConfigSnapshot`, `DriftReport` | `run_drift_detection`, `take_config_snapshot`, `set_golden` | A report compares the snapshots it names, against a baseline someone set; a device does not lose its baseline |
| Compliance | `ComplianceRule`, `ComplianceCheck` | `run_compliance_check`, CRUD and seeding of rules | One check per active rule, whatever one of them meets; a verdict is what the device said to the rule as it was |
| Alerts (`apps/monitoring`) | `Alert` | AlertManager's webhook, acknowledge, PATCH | One row per alert, showing its last state; an acknowledgement is not lost |
| Roles | `UserProfile` | three permission classes | Who may change what |
| Startup (`docker/`) | the schema, the superuser, the rules | migrate, create, seed, in three containers at once, again at each restart | A container serves only on a complete schema; all come up |

How they interact: the API starts tasks through Redis and never waits for them;
tasks share the `Device` table with the API (a device can be deleted, with the
rows that hang on it, while a task holds its Python object); provisioning and
drift tasks share the devices themselves; every start of a container seeds the
rule table users edit and checks read; AlertManager calls the webhook and
repeats what is not answered 200. Celery acknowledges a message when a worker
starts it (`task_acks_late` is not set) and no task retries, so a task that
raises or dies is not run again; a message that is reserved and not yet started
can be delivered twice by the Redis transport.

The hard behaviour, listed line by line under `hazards` in `PROJECT.json`, is
of four kinds: two writers between the read and the write of a third (set
golden, exists-then-insert, update-or-create, full-row saves), one of several
steps failing (push and save, result row and audit row, one host of a scan, one
alert of a payload), processes that die or messages that come twice, and rows
that change or vanish under a task that fetched them minutes ago.

## The modules

| Module | Models | Form |
|---|---|---|
| `Provisioning` | `apps/provisioning`: `views.py` `ProvisioningJobViewSet.create`, `tasks.py`, `netmiko_client.py`, `jinja_renderer.py`, the models; Celery delivery | one action per statement |
| `JobLifecycle` | what the API promises of one job row: pending, running, one final status | abstract specification, implemented by `Provisioning` |
| `ProvisioningProofs` | | theorems on texts, messages and the audit trail |
| `ProvisioningStatusProofs` | | theorems on the status of a job; `Provisioning` implements `JobLifecycle` |
| `GoldenConfig` | `apps/security`: `run_drift_detection`, `take_config_snapshot`, `set_golden` | one action per statement |
| `GoldenConfigProofs` | | theorems and their lemmas |
| `Discovery` | `apps/inventory`: `DiscoveryJobViewSet.create`, `run_discovery`, users of the inventory | one action per statement |
| `Alerts` | `apps/monitoring`: `alertmanager_webhook`, `acknowledge`, PATCH; AlertManager | one action per statement |
| `AlertBoard` | what the table of alerts promises: it shows states an alert had, in their order, and keeps acknowledgements | abstract specification, implemented by `Alerts` while requests do not overlap and nobody PATCHes |
| `Startup` | `docker/entrypoint.sh`, `docker-compose.yml`, the four migrations, `create_superuser_if_missing`, `seed_compliance_rules` | one action per statement |
| `Compliance` | `apps/security`: CRUD of rules, `run_compliance`, `run_compliance_check`, `compliance_checks.py`; extends `Startup` | composition: one rule table, a web and a worker container |
| `Access` | `apps/inventory/permissions.py`, `UserProfile` | predicates over the profile rows |
| `Inventory` | `apps/inventory`: `DeviceViewSet`, `check_device_reachability`, `refresh_all_device_status`; `UserProfileViewSet`; extends `Access` | one action per statement |
| `DiscoveryProofs`, `AlertsProofs`, `ComplianceProofs`, `InventoryProofs` | | theorems and their lemmas |
| `MC...` | values of the constants for TLC | |

Beside some operators stands a *mutant*: the same operator with a bug the code
could plausibly have, in a comment `Mutant: ...`. Nothing uses it; a property
that still holds with the mutant in place of its operator says nothing about
it, so `PROJECT.json` names for each property of a passing run a mutant that
violates it.

### Provisioning

`job`, `result`, `audit`, `template` and `device` are the tables. `request[j]`
is where the POST stands that creates job `j`: row saved (`CreateJob`), message
sent (`EnqueueJob`), task id saved (`SaveTaskId`), or dead in between. A
delivery `<<j, n>>` is the n-th time the broker hands out the message of `j`;
`run[e]` holds the locals of the task it starts, with `pc` the next statement:
fetch the job with its template and devices, save `running`, render, and for
each device connect, `send_config_set`, `save_config`, result row, audit row;
then count and save the final status.

A device has a `running` and a `startup` configuration, each the set of texts in
force. `SendConfig` adds to the first, `SaveConfig` copies *all* of the first to
the second, as the device does, so that two jobs on one device save each
other's lines (a text that takes back lines of an earlier one is not modelled); `Reload` goes back to the second. What a text says is abstracted
to its identity and to whether the renderer accepts it. `touched` is the only
history variable: what a run has done to a device before it recorded it.

`JobContract` in `Provisioning` maps each job row to `JobLifecycle`: the
outcomes a run has recorded so far in the audit trail are the abstract judgements,
the stored status the abstract one.

### GoldenConfig

`check[c]` is one started task: a drift check, or a snapshot task with or
without `set_golden`; `promotion[p]` is one `set_golden` request. Primary keys
of snapshots grow with `taken_at`. A deleted device takes its snapshots and
reports along, and every later insert or `save(update_fields=...)` of a task
that still holds it raises (`RowIsGone`). `blessed` is history: the snapshots
that were golden at any time.

### Discovery

`device` maps an address to the host name of its row, which makes the unique
constraint on `ip_address` part of the representation; the one on `hostname` is
`Unique`, the guard of every insert. `run[j]` holds the locals of the scan
(`found`, `added`, the log) which reach the row of the job only at its last
statement. `made` is history: the addresses for which the job's INSERT
committed. What the inner functions do not catch ends the loop at the host it is
at: a name or address that is taken (`InsertCollides`), and any other exception
of the ping, the reverse lookup or the INSERT (`ScanRaises`). The fallback
`ip.replace(".", "-")` maps different addresses to different names and is
modelled by the address.

### Alerts

A worker's `todo` is the places of its payload that the loop has not come to,
`First(todo)` the alert it is at. AlertManager's view of an alert is a version that counts its changes: odd is
firing, even resolved; a payload carries versions. Under PostgreSQL,
`update_or_create` (Django 4.2) selects the row `FOR UPDATE`: when it finds
one, lookup and save are one step (`Update`); when it finds none there is
nothing to lock and the insert is a step of its own (`Miss`, `Create`); when it
finds two it raises (`FindTwo`). The device of an alert is looked up in a
statement before: when it is deleted in between, the row cannot be committed and
the request is answered 500 (`LoseDevice`). Payloads are those
`AlertManagerWebhookSerializer` accepts, as AlertManager's are, so none is
answered 400. `Overlap` says whether AlertManager may give up on a request that
still waits for a worker.

A PATCH of an alert is two statements: the row is read and saved again with all
of its columns. `AlertSerializer` makes none of them read-only, so its body may
name the fingerprint, the status and the flag of an acknowledgement, any or all
of them, with any value (`PatchRead`); the others keep what they were when the
row was read, whatever was stored since. A `Patcher` is one such request.
`moved` is history: the fingerprints that saves of PATCHes gave to rows.

`TableIsBoard` maps the table to `AlertBoard`: what AlertManager sees is `now`,
the state in the row of an alert is `shown`, an alert with an acknowledged row is
in `acked`. A notification sent again maps to no step, one that stores something
newer to `Notify`, whatever the request meets behind that alert.

### Startup and Compliance

`boot[c]` is where container `c` is in `entrypoint.sh`: what migrate still has
to apply (`plan`, read once), or which rule it seeds next (`at`). PostgreSQL
creates the tables of a migration in one transaction; their foreign keys are
deferred SQL, so Django records the migration in a statement after it
(`CreateTables`, `RecordMigration`). Containers that lose a race exit
(`set -e`) and start from the top (`Restart`). `update_or_create` of a rule is
one step (`SeedRule`): it locks the row it finds, and where it finds none the
unique name turns a second insert into an update. collectstatic and loaddata
write nothing the models read.

`Compliance` adds users and the task. `Boot` is any step of `Startup`; when the
worker's container goes down with it, what executes there is killed, and a PATCH
dies with the web container. A rule is its name, its text and its switch; a
name of `BUILTIN_RULES` stands for the built-in text, and `BUILTIN_RULES` gives
of each what decides a verdict. A device prints, for the setting a rule is
about, the line that sets it, the line that takes it back, or nothing. `heard`
and `dropped` are history: what was printed to which task, and the rules that
were deleted.

### Access and Inventory

`profile` is the role in each user's row. A request looks at it once (`Permit`)
and writes later. A device is its status and, as one value, the rest of its
columns; PATCH reads a row and saves all of it. A check task reads the row,
pings, and updates the status column of the row as it is by then. The unique
columns are the subject of `Discovery`, which here only adds rows. `saved`,
`known`, `held` and `granted` are history: the last save of a device, the
statuses it had, the roles users had and who gave them.

## The runs

Bounds are named in the modules and given in the configurations.

| Run | Instance | Question and answer |
|---|---|---|
| `provisioning_one_job` | one job, two devices, one delivery, template edits, device deletion, reload, crash | The final status is what the audit rows add up to, never goes back, comes unless the run raised or was killed, and the rows implement `JobLifecycle`. |
| `provisioning_redelivered` | one job, one device, two deliveries | Both runs find the job; each saves what the other sent, and still a recorded success is saved and nothing unrendered reaches the device, even when the template changes between them; the trail stays complete per run, and a final status is what the audit rows of a finished run add up to. |
| `golden_drift` | one device, two configurations, two tasks of any kind, one `set_golden`, fairness | Reports are true and stay true, baselines were golden, a device keeps a golden snapshot except inside (or after the death of) a `set_golden`, a drift check leaves one report, and every started task is answered unless killed or its device deleted. |
| `discovery_scans` | two scans of overlapping or invalid subnets, three addresses, users, fairness | No scan changes an existing row; counts and log are true for completed and failed scans; a completed scan left no answering host out; a queued scan ends in completed or failed unless killed. |
| `alerts_serial` | a group of three alerts, the last one such that no column can take it, three versions, one request at a time, one worker killed or device deleted, no PATCH, fairness | One row per alert, 200 means shown, the rows implement `AlertBoard`, which keeps acknowledgements, and the alerts before the bad one are shown in their last state although every notification is answered 500. |
| `alerts_overlap` | one alert, two workers, time-outs, two PATCHes of any columns, three rows | At most one row per worker, but for those a PATCH gave the fingerprint; nothing but a PATCH takes an acknowledgement back. |
| `compliance` | two containers, the built-in rule that must not match and rules users write (one no regex), two edits, one failure, one restart, one check, fairness | Whoever serves has a complete schema and a superuser; every container comes up; seeding keeps the switches of rules; a check records every active rule with the verdict its text gives, and ends. |
| `inventory_writers` | two devices, two requests, two checks, a refresh, discovery, one superuser and one user, worker deaths | Checks change statuses only and revive nothing, a refresh reaches every device, and nobody writes or grants who was never entitled to. |

Why the bounds are enough: the races modelled are between two writers of one
row and a third that reads it; two tasks, a request and one device (or
address) in common produce each of them (two requests when only they race, in
`one_golden_per_device`), two workers insert two rows of one alert and
must not insert a third, two PATCHes are one that takes the fingerprint of a row
away and one that gives it back, or one that is overtaken by another
(`RowsAreBounded` is for any number of both), two containers lose and win each
race of `entrypoint.sh` (the third does what the second does), two edits are a
change and a deletion under one check, and the state a step reads is a
row or a local, never the history of a run. Two devices per job are needed for
a partial outcome, three addresses for two subnets that overlap and differ.

The other runs expect a violation; see
[below](#where-the-code-and-its-documentation-part).

## Fairness

Weak fairness on the steps of a task that runs (`Task(e)`, `Task(c)`,
`Task(j)`): a Celery worker keeps taking messages of its queue, and every call a
task makes ends, since `NetmikoClient` sets connection and read time-outs, `_ping`
and SNMP have theirs, and a statement blocked on a row lock waits for a
statement, not for a transaction that spans calls. Weak fairness on the
broker's delivery and on AlertManager's repetition, which is what those
programs are for. Weak fairness on each container's entry point and restart
(`restart: unless-stopped`). No fairness on users, on devices, on process death, on
reloads or on a request reaching its second statement: none of them need
happen. Death is never excluded: liveness properties name the state "killed",
or a bound on deaths, failures and stops is stated (`MaxDeaths`, `MaxFailures`,
`MaxStops`); `AllServe` and `RunEnds` except the one state no start recovers
from (`Torn`, below). The runs of `Compliance` and `Inventory` switch the
deadlock check off: once its requests, edits and stops are used up, the
instance has nothing left to do. So does `alerts_overlap`, where AlertManager
has nothing to send once the alert has had its versions and the last of them,
a resolution, was answered or never had to be.

## What is proved

`tlapm` checks these for all values of the constants that satisfy the
assumptions named in the modules: any number of jobs, devices, deliveries,
tasks, rules, containers, requests. The assumptions say that None is no value
of a table, that the bounds are numbers and which constants are subsets of
which; three sets must be finite, because the code or a property counts over
them: the addresses of a subnet, the workers of the web server and the PATCHes
of alerts. A hypothesis beyond
that stands in the theorem.

Every invariant and every action property of the passing runs is stated by one
of these theorems.

| Theorem | Says |
|---|---|
| `ProvisioningProofs!TypeCorrect` | `Spec => []TypeOK` |
| `ProvisioningProofs!RenderedConfigOnly` | `Spec => []OnlyRenderedConfig`: what is on a device came out of the renderer |
| `ProvisioningProofs!JobIsFound` | `Spec => []TaskFindsJob`: no message precedes the commit of its row |
| `ProvisioningProofs!RecordedSuccessIsSaved` | `Spec => []SuccessIsSaved` |
| `ProvisioningProofs!AuditTrailKept` | `Spec => []AuditTrail` |
| `ProvisioningStatusProofs!StatusIsExplained` | `Spec => []StatusExplained`: a final status is what the audit rows of a finished run add up to |
| `ProvisioningStatusProofs!StatusMovesOn` | with one delivery per message, `Spec => StatusProgress` |
| `ProvisioningStatusProofs!ContractKept` | with one delivery per message, `Spec => JobContract`: `Provisioning` implements `JobLifecycle` |
| `GoldenConfigProofs!TypeCorrect` | `Spec => []TypeOK` |
| `GoldenConfigProofs!VerdictsHold` | `Spec => []ReportTruthful`: a verdict is the comparison of the two snapshots it names, for good |
| `GoldenConfigProofs!BaselineIsGolden` | `Spec => []BaselineWasGolden` |
| `GoldenConfigProofs!BaselineHeld` | `Spec => []GoldenHeld`: a baseline is only missing inside a `set_golden` request |
| `GoldenConfigProofs!OneReportEach` | `Spec => []OneReportPerCheck` |
| `DiscoveryProofs!TypeCorrect` | `Spec => []TypeOK`, with unique host names |
| `DiscoveryProofs!CountsAreHonest` | `Spec => []CountsHonest`: the report of an ended scan is true, also of a failed one |
| `DiscoveryProofs!NoHostIsLeftOut` | `Spec => []NoHostLeftOut` |
| `DiscoveryProofs!ScansNeverOverwrite` | `Spec => NeverOverwrites`: no step of a scan changes a row |
| `AlertsProofs!TypeCorrect` | `Spec => []TypeOK` |
| `AlertsProofs!RowsAreBounded` | `Spec => []RowsBounded`: no more rows of an alert than workers, but for those a PATCH gave its fingerprint |
| `AlertsProofs!OneRowEach` | while requests do not overlap and nobody PATCHes, `Spec => []OneRowPerAlert` |
| `AlertsProofs!AcksStay` | `Spec => OnlyPatchUnacks`: no notification takes an acknowledgement back, whatever overlaps |
| `AlertsProofs!AnswersAreShown` | under the same two hypotheses, `Spec => []AnsweredIsShown`: 200 means every alert of the payload is shown |
| `AlertsProofs!TableKept` | under the same two hypotheses, `Spec => TableIsBoard`: `Alerts` implements `AlertBoard` |
| `ComplianceProofs!TypeCorrect` | `Spec => []TypeOK`: primary keys never run past `MaxRules` |
| `ComplianceProofs!ServesReady` | `Spec => []ServesOnlyReady`: no container serves on half a schema |
| `ComplianceProofs!SwitchIsUsers` | `Spec => SwitchKept`: seeding switches no rule |
| `ComplianceProofs!VerdictsHold` | `Spec => []VerdictsAreHeard` |
| `ComplianceProofs!AuditIsChecks` | `Spec => []AuditMatchesChecks`: the audit row lists the rules asked for, with the status of their checks |
| `InventoryProofs!TypeCorrect` | `Spec => []TypeOK` |
| `InventoryProofs!ChecksKeepEdits` | `Spec => []EditsOutliveChecks`: a check takes back no edit |
| `InventoryProofs!StatusKnown` | `Spec => []StatusIsKnown` |
| `InventoryProofs!RefreshReaches` | `Spec => []RefreshChecksAll` |
| `InventoryProofs!EntitledWrites` | `Spec => OnlyTheEntitledWrite`: nobody writes or grants who was never entitled to |
| `InventoryProofs!PatchRevives` | `Spec => OnlyPatchRevives`: only a PATCH brings a deleted device back |

`SuccessIsSaved` is not inductive: it speaks of rows and startup
configurations only. The induction carries that each run's text is in the
running configuration from `SendConfig` until the device reloads and in the
startup configuration once `save_config` succeeded (`RunOnDevice`), that what
is saved stays saved because `SaveConfig` only ever adds to the startup
configuration what is in the running one, which contains it
(`StartupInForce`), and that rows are about devices the run fetched
(`RowsOfFetched`). `AuditTrail` needs that the next statement of a run and the
rows it has written move together. `TaskFindsJob` needs the order of the
request's three statements: no message exists before the row.

`StatusExplained` compares a status with audit rows, and a run counts neither:
it counts what it has won and lost. `Books` says that these are its audit rows
and the one verdict it still owes, and that every device the job still has is to
be visited, at hand or booked; `Fresh`, that no device is visited twice, so that
an audit row is never contradicted. `StatusByRun` is the invariant about the
row: a final status is the verdict of a run that is done, and such a run books
nothing more. This holds under any redelivery. The other two theorems do not:
a second delivery saves `running` over a final status, which
`provisioning_redelivered` lets happen, so they assume `MaxDeliveries = 1`,
what the Redis transport gives as long as a worker starts each message within
the visibility timeout. Then the place of the one run tells the
status (`StatusOfRun`), and the implementation follows step by step: `CreateJob`
is the abstract creation, saving `running` the abstract start, `RecordAudit` an
abstract verdict on a device not judged yet (`Fresh`), `FinishJob` the abstract
end, whose status is the one of the verdicts by `Books`; every other step leaves
the mapped variables alone.

The three theorems on golden snapshots share the invariant `RowsInv`: keys are
given out in order and nothing golden lies above the last one (`Ledger`), a
`set_golden` request holds a snapshot of the device it read from it until the
device is deleted (`PromotionRow`), and a drift check in progress holds the
snapshot of what it read and a baseline that was golden (`CheckRow`). The key
lemma is `RowsStay`: while a device stays, no step rewrites the device or the
text of one of its rows, so that the comparison a task makes on objects it
fetched earlier is the comparison of the rows. `GoldenHeld` needs
`PromotionRow` for the request that ends: its snapshot is of the very device
whose baseline it took away, or that device is gone. The instances TLC checks
have one device; the theorem is for any number.

`OneReportPerCheck` needs two things it does not say: a report belongs to a task
that has passed the statement that writes it, and names the device of that task,
so that it goes when the device goes (`OneReport`).

On `Discovery`, `Located` says what a scan knows where it stands (its subnet, a
host of it, a name for the row). `Fits` relates counters, log and INSERTs: the
hosts logged as added are those whose INSERT committed, the counters are the
numbers of lines, nothing is logged of the hosts ahead, and at most one host is
answered and not dealt with: the one the loop is at, or the one at which it
failed. `Filed` says the row of an ended job is what its scan ended with. The
lemma behind it is `OneMoreLine`, on what a log line does to the three sets, and
behind that that hosts of a subnet are distinct (`DistinctAssumption`,
`ip_network.hosts()`).

On `Alerts`, a worker that found no row and has yet to insert one counts as a
row already, and a PATCH that moved a row to an alert as room for one more
(`Room`); with these, an alert never has more rows than there is room for
(`RoomLeft`): the save of a PATCH adds a row to an alert only by becoming one of
its `Movers`, and it saves once. While requests do not overlap, whoever is under
way is the one AlertManager waits for (`Alone`), and where it is about to insert
there is no row (`Single`). `OneRowPerAlert` needs both `~Overlap` and
`Patcher = {}`: the run `one_row_per_alert` shows two rows without the first, and
without the second a PATCH takes a row's fingerprint away, the next notification
inserts another row, and a PATCH gives the fingerprint back. `AnsweredIsShown`
and `TableIsBoard` assume the same, since a PATCH saves all columns of the row it
read, and the code does lose acknowledgements and notifications to it.
`AnsweredIsShown` carries that what is under way is no older than what was
answered (`Ordered`), so that a save never takes the table back, and that the
loop shows all it is done with (`ShownSoFar`), also after an earlier delivery
died or failed in its middle. `OnlyPatchUnacks` needs no hypothesis: the one
action that clears a flag is the save of a PATCH whose copy has it cleared.

That `Alerts` implements `AlertBoard` needs `Newest`: every row shows a version
that was sent, AlertManager has seen it, and whatever the request under way has
yet to store is no older than what the row shows. A payload is made of what
AlertManager sees at that moment, which gives the last part when it is sent, and
one request at a time keeps it. `Update` and `Create` then are `Notify`, or no
step when the row shows that version already.

`ServesOnlyReady` rests on what a container has seen to when it stands at a
command (`BootFits`): the tables of what is recorded exist, its plan holds all
that is not recorded, and from the superuser on everything is. None of that is
undone by another container (`FitsStays`), so a step needs to be looked at for
the container that takes it only. `VerdictsAreHeard` is about rows, and needs
that a task in the loop works on rules it has asked for, that the verdict it is
about to insert is one already, and that rows are stored by runs past their
query, which therefore never change what they asked for (`VerdictInv`).

`AuditMatchesChecks` follows from `ListInv`: in the loop each rule asked for is
in exactly one of three places, done, at hand or to be done (`InLoop`), and each
one done has its check row, as long as neither its rule nor the device was
deleted (`Stands`), which the audit row then inherits.

The type invariant of `Compliance` holds more than types: primary keys stay
within `MaxRules`, which no action asks for. Rows are inserted by seeding, by
users and by a PATCH whose row vanished meanwhile, and deleting a built-in rule
makes the next start insert it again, so the number of rows alone is no
induction. `RoomInv` counts the rows, the built-in rules that no row has the
name of and the PATCH under way together: at most the built-in rules and the
edits made. A seed turns a missing rule into a row, an edit adds at most one of
the three. `KeysInv` then says that tasks name rows that are or were there.

The theorems on `Inventory` share `IInv`: the user of a permitted request was
entitled to what its URL names, by a role somebody once gave, and what PATCH is
about to save is a row of the right table (`RequestInv`); what a check is about
to write was found by a ping of its device (`TaskInv`); the devices a refresh is
done with have a check, and a check never changes devices (`RefreshInv`). The
two action properties follow, since a save, a gift and a revival are each one
action with such a request behind it. `UrlAssumption`, that no key is both a
device's and a user's, stands for the two tables having URLs of their own.

Only model-checked: the liveness properties (`QueuedJobSettles`,
`TaskAnswered`, `ScanEnds`, `ShownInTheEnd`, `RunEnds`, `AllServe`), because
neither fairness nor ENABLED can be reasoned about with the backends at hand.

## Where the code and its documentation part

Each run checks one sentence of the documentation and shows a behaviour of the
code that contradicts it.

| Run | The documentation says | The code |
|---|---|---|
| `running_means_executing` | provisioning README:95, running means the task is executing | an exception in `render_template` or a dead worker leaves `running` for good |
| `one_golden_per_device` | security README:113, at most one golden snapshot at a time | two `set_golden` requests leave two |
| `one_row_per_alert` | monitoring README:53, no duplicates | two overlapping deliveries insert two rows, and the alert can never be updated again |
| `remedied_complies` | security README:177, the remediation of a rule fixes the device; :173, only `no ip http` is right | the HTTP rule's pattern (compliance_checks.py:60) also matches the line its remediation leaves, `no ip http server`, so the remediated device stays non-compliant |

Met while modelling and visible in the models, but with no run of their own:

- Provisioning README:380 says every action that touches a device is in
  `AuditLog`; a device deleted while its configuration is pushed leaves no row
  (tasks.py:48), and the first drift check of a device returns before its row
  (security/tasks.py:104).
- A job over no device ends in success, where provisioning README:94 has failed
  for zero successes; a job whose template does not compile is created, against
  README:480; a redelivered message adds a second result row per device,
  against README:99.
- One host that cannot be added ends a scan, where inventory README:203 goes
  over each host.
- A PATCH of an alert that overlaps an acknowledgement takes it back, and two
  that change `fingerprint` and change it back around a notification leave two
  rows without any overlap (monitoring README:53 has no duplicates). A PATCH that
  overlaps a DELETE inserts the device or the rule again.
- Two first drift checks of one device both promote their snapshot
  (security/tasks.py:94), against the same line as `one_golden_per_device`.
- A container killed between the tables of a migration and its record leaves a
  database on which every later start fails (`Torn`).
- The built-in text replaces what users wrote into a built-in rule at every
  start, and a built-in rule that was deleted or renamed comes back, active.
- `service password-encryption` (compliance_checks.py:51) is also found in the
  line that switches it off.
- POST to `/api/security/users/` (security README:356) fails for every input:
  its serializer has no field for the user. `ssh_password`, write-only by
  inventory README:68, is no field of `DeviceSerializer` and silently dropped.
- docker/README.md:93 says loaddata skips dashboards that exist; it saves them
  by primary key, over edits.

## What is not modelled

Jinja, difflib, SSH, SNMP and SQL are abstracted to what the properties tell
apart. Browser pages only read, and so does everything that uses Grafana dashboards.
The admin site can edit any row and is left out, but for the profiles only it
creates: invariants over rows would be about what a superuser types. JWT, headers and CORS are settings of libraries. Prometheus, Grafana,
Ansible and CI files configure other programs. One delivery per message is
assumed for drift and discovery tasks (`Provisioning` shows what a second one
does). `PROJECT.json` lists every part with its status.

Hazards with no property: a killed scan leaves its devices in the table and a
job at running with counts of zero, a process that dies before `delay()` leaves a
discovery job pending, two first drift checks both promote, a
check overwrites maintenance, the first drift check is not audited. Each of them
does happen in the code as it stands, and so does what `TableIsBoard` rules out
once requests overlap: a delayed copy of a notification overwrites a newer one.

## Plan

Done: every component that keeps state of its own, in the order of how much the
platform does with it; theorems for every invariant and every action property
that the runs check, and the implementation of `JobLifecycle` and `AlertBoard`.

Next, in this order:

1. A baseline register as an abstract specification that `GoldenConfig`
   implements up to the window in `set_golden`, and the proof that it does.
2. A composition of provisioning, drift and discovery over one `Device` table
   and one set of devices (a push shows as drift until a new golden snapshot is
   set; deletion under all of them), and the theorems on what does not follow
   from its parts.
