----------------------------- MODULE Inventory ------------------------------
(***************************************************************************)
(* The Device table and those who write to it: DeviceViewSet for users     *)
(* whose role allows it, discovery, which adds rows, and the reachability  *)
(* checks, which read a row, ping for seconds and write its status, one    *)
(* requested by hand or one for each device by refresh_all_device_status.  *)
(* Roles change meanwhile, through UserProfileViewSet.                     *)
(***************************************************************************)
EXTENDS Access, Integers, FiniteSets

CONSTANTS
  Device,    \* primary keys of Device rows
  Text,      \* what the columns of a device but its status can say
  Entered,   \* the statuses users enter (an instance may take fewer)
  Request,   \* requests to the API
  Check,     \* check_device_reachability tasks
  MaxRoles   \* bound: the admin site gives a role while fewer were ever held

ASSUME RolesAssumption == MaxRoles \in Nat
ASSUME NoneAssumption   == None \notin Device \cup Text
\* A URL names the table it is about.
ASSUME UrlAssumption    == Device \cap User = {}

VARIABLES
  device,   \* the Device rows, or None
  born,     \* the primary keys that were used
  request,  \* the locals of each request
  task,     \* the locals of each check
  refresh,  \* the refresh_all_device_status task
  saved,    \* history: what the last save of a row put into its other columns, and whose
  known     \* history: statuses of a device that a ping found, or a save put there

inventoryVars == <<device, born, request, task, refresh, saved, known>>
vars == <<profile, held, granted, device, born, request, task, refresh, saved, known>>

DeviceStatus == {"online", "offline", "unknown", "maintenance"}
DeviceRow    == [status : DeviceStatus, text : Text]

ASSUME EnteredAssumption == Entered \subseteq DeviceStatus

RequestState ==
  [pc : {"new", "permitted", "save", "end"}, user : User \cup {None},
   on : Device \cup User \cup {None}, row : DeviceRow \cup {None}, role : Role \cup {None}]
\* How a check ended goes to Celery's result backend, which nothing reads.
TaskState == [pc : {"idle", "queued", "ping", "update", "ended"},
              device : Device \cup {None}, text : Text \cup {None},
              status : DeviceStatus, refresh : BOOLEAN]
RefreshState == [pc : {"idle", "delay", "done", "killed"},
                 todo : SUBSET Device, asked : SUBSET Device]
Save == [text : Text, by : User \cup {"discovery"}]

TypeOK ==
  /\ AccessTypeOK
  /\ device \in [Device -> DeviceRow \cup {None}]
  /\ born \subseteq Device
  /\ request \in [Request -> RequestState]
  /\ task \in [Check -> TaskState]
  /\ refresh \in RefreshState
  /\ saved \in [Device -> Save \cup {None}]
  /\ known \subseteq Device \X DeviceStatus
  /\ \A d \in Device : device[d] # None => d \in born /\ saved[d] \in Save

NewRequest == [pc |-> "new", user |-> None, on |-> None, row |-> None, role |-> None]
NewTask == [pc |-> "idle", device |-> None, text |-> None, status |-> "unknown",
            refresh |-> FALSE]

Init ==
  /\ AccessInit
  /\ device = [d \in Device |-> None]
  /\ born = {}
  /\ request = [r \in Request |-> NewRequest]
  /\ task = [k \in Check |-> NewTask]
  /\ refresh = [pc |-> "idle", todo |-> {}, asked |-> {}]
  /\ saved = [d \in Device |-> None]
  /\ known = {}

Rows == {d \in Device : device[d] # None}

Puts(d, row, by) ==
  /\ device' = [device EXCEPT ![d] = row]
  /\ saved' = [saved EXCEPT ![d] = [text |-> row.text, by |-> by]]
  /\ known' = known \cup {<<d, row.status>>}

-----------------------------------------------------------------------------
(* DeviceViewSet                                                           *)

\* has_permission; afterwards nothing looks at the role again.
Permit(r, u, on) ==
  /\ request[r].pc = "new"
  /\ request' = [request EXCEPT ![r].pc = "permitted", ![r].user = u, ![r].on = on]
  /\ UNCHANGED <<accessVars, device, born, task, refresh, saved, known>>

Handles(r, on) == request[r].pc = "permitted" /\ request[r].on = on
Answers(r) == request' = [request EXCEPT ![r] = [NewRequest EXCEPT !.pc = "end"]]

\* POST, PATCH and DELETE; IsAdminOrNetworkEngineer of check_reachability is as strict.
Change(r, u, d) == ReadOnlyOrAbove(u, "PATCH") /\ Permit(r, u, d)

\* Mutant: the row has no status when the view does not name one.
CreateBlank(r, d, row) ==
  /\ Handles(r, d)
  /\ d \notin born
  /\ born' = born \cup {d}
  /\ Puts(d, [row EXCEPT !.status = ""], request[r].user)
  /\ Answers(r)
  /\ UNCHANGED <<accessVars, task, refresh>>

\* POST: every column but the read-only ones is the user's.
Create(r, d, row) ==
  /\ Handles(r, d)
  /\ d \notin born
  /\ row.status \in Entered
  /\ born' = born \cup {d}
  /\ Puts(d, row, request[r].user)
  /\ Answers(r)
  /\ UNCHANGED <<accessVars, task, refresh>>

Delete(r, d) ==
  /\ Handles(r, d)
  /\ device[d] # None
  /\ device' = [device EXCEPT ![d] = None]
  /\ Answers(r)
  /\ UNCHANGED <<accessVars, born, task, refresh, saved, known>>

\* PATCH, or PUT, reads the row and changes columns of its copy ...
PatchRead(r, d, row) ==
  /\ Handles(r, d)
  /\ device[d] # None
  /\ row.status \in Entered \cup {device[d].status}
  /\ request' = [request EXCEPT ![r].pc = "save", ![r].row = row]
  /\ UNCHANGED <<accessVars, device, born, task, refresh, saved, known>>

\* ... and saves every column of it: an UPDATE, or an INSERT when the row is gone.
PatchSave(r, d) ==
  /\ request[r].pc = "save"
  /\ request[r].on = d
  /\ Puts(d, request[r].row, request[r].user)
  /\ Answers(r)
  /\ UNCHANGED <<accessVars, born, task, refresh>>

Queued(d, byRefresh) == [NewTask EXCEPT !.pc = "queued", !.device = d, !.refresh = byRefresh]

check_reachability(r, d, k) ==
  /\ Handles(r, d)
  /\ device[d] # None
  /\ task[k].pc = "idle"
  /\ task' = [task EXCEPT ![k] = Queued(d, FALSE)]
  /\ Answers(r)
  /\ UNCHANGED <<accessVars, device, born, refresh, saved, known>>

-----------------------------------------------------------------------------
(* UserProfileViewSet                                                      *)

Administer(r, u, v) == IsAdminOnly(u) /\ Permit(r, u, v)

RoleRead(r, v, role) ==
  /\ Handles(r, v)
  /\ profile[v] # None
  /\ request' = [request EXCEPT ![r].pc = "save", ![r].role = role]
  /\ UNCHANGED <<accessVars, device, born, task, refresh, saved, known>>

RoleSave(r, v) ==
  /\ request[r].pc = "save"
  /\ request[r].on = v
  /\ Gives(request[r].user, v, request[r].role)
  /\ Answers(r)
  /\ UNCHANGED <<device, born, task, refresh, saved, known>>

DeleteProfile(r, v) ==
  /\ Handles(r, v)
  /\ profile[v] # None
  /\ profile' = [profile EXCEPT ![v] = None]
  /\ Answers(r)
  /\ UNCHANGED <<held, granted, device, born, task, refresh, saved, known>>

-----------------------------------------------------------------------------
(* Discovery, by what it does to the table                                 *)

Discover(d, text) ==
  /\ d \notin born
  /\ born' = born \cup {d}
  /\ Puts(d, [status |-> "online", text |-> text], "discovery")
  /\ UNCHANGED <<accessVars, request, task, refresh>>

-----------------------------------------------------------------------------
(* check_device_reachability                                               *)

EndedTask(k) == [task[k] EXCEPT !.pc = "ended", !.status = "unknown", !.text = None]
TaskEnds(k) == task' = [task EXCEPT ![k] = EndedTask(k)]

\* Device.objects.get, which raises for a row that is gone.
GetDevice(k) ==
  /\ task[k].pc = "queued"
  /\ IF task[k].device \in Rows
       THEN task' = [task EXCEPT ![k].pc = "ping", ![k].text = device[task[k].device].text]
       ELSE TaskEnds(k)
  /\ UNCHANGED <<accessVars, device, born, request, refresh, saved, known>>

\* The device answers in time, or does not, in either of the two ways to ping.
Ping(k, reachable) ==
  LET status == IF reachable THEN "online" ELSE "offline" IN
  /\ task[k].pc = "ping"
  /\ task' = [task EXCEPT ![k].pc = "update", ![k].status = status]
  /\ known' = known \cup {<<task[k].device, status>>}
  /\ UNCHANGED <<accessVars, device, born, request, refresh, saved>>

\* An error of subprocess.run that _ping does not catch.
PingRaises(k) ==
  /\ task[k].pc = "ping"
  /\ TaskEnds(k)
  /\ UNCHANGED <<accessVars, device, born, request, refresh, saved, known>>

\* Mutant: update() without filter(pk=device_id).
UpdateStatusOfAll(k) ==
  /\ task[k].pc = "update"
  /\ device' = [d \in Device |->
       IF d \in Rows THEN [device[d] EXCEPT !.status = task[k].status] ELSE None]
  /\ TaskEnds(k)
  /\ UNCHANGED <<accessVars, born, request, refresh, saved, known>>

\* Mutant: device.status = ...; device.save(), of the row as the task read it.
SaveFetchedRow(k) ==
  /\ task[k].pc = "update"
  /\ device' = [device EXCEPT ![task[k].device] =
                   [status |-> task[k].status, text |-> task[k].text]]
  /\ TaskEnds(k)
  /\ UNCHANGED <<accessVars, born, request, refresh, saved, known>>

\* filter(pk=device_id).update(status=...): one column of the row as it is by
\* now, of no row when it is gone.
UpdateStatus(k) ==
  /\ task[k].pc = "update"
  /\ device' = [d \in Device |->
       IF d \in Rows /\ d = task[k].device
         THEN [device[d] EXCEPT !.status = task[k].status] ELSE device[d]]
  /\ TaskEnds(k)
  /\ UNCHANGED <<accessVars, born, request, refresh, saved, known>>

-----------------------------------------------------------------------------
(* refresh_all_device_status                                               *)

\* Mutant: Device.objects.exclude(status="offline").
RefreshListsOthers ==
  /\ refresh.pc = "idle"
  /\ refresh' = [pc |-> "delay", asked |-> Rows,
                 todo |-> {d \in Rows : device[d].status # "offline"}]
  /\ UNCHANGED <<accessVars, device, born, request, task, saved, known>>

\* Beat, on the schedule an administrator has entered: one query for the keys.
RefreshLists ==
  /\ refresh.pc = "idle"
  /\ refresh' = [pc |-> "delay", todo |-> Rows, asked |-> Rows]
  /\ UNCHANGED <<accessVars, device, born, request, task, saved, known>>

RefreshDelays(d, k) ==
  /\ refresh.pc = "delay"
  /\ d \in refresh.todo
  /\ task[k].pc = "idle"
  /\ task' = [task EXCEPT ![k] = Queued(d, TRUE)]
  /\ refresh' = [refresh EXCEPT !.todo = @ \ {d}]
  /\ UNCHANGED <<accessVars, device, born, request, saved, known>>

RefreshReturns ==
  /\ refresh.pc = "delay"
  /\ refresh.todo = {}
  /\ refresh' = [refresh EXCEPT !.pc = "done"]
  /\ UNCHANGED <<accessVars, device, born, request, task, saved, known>>

\* The worker dies: what it executes is not run again, what is queued is.
WorkerDies ==
  /\ refresh.pc = "delay" \/ \E k \in Check : task[k].pc \in {"ping", "update"}
  /\ task' = [k \in Check |-> IF task[k].pc \in {"ping", "update"}
                              THEN EndedTask(k) ELSE task[k]]
  /\ refresh' = IF refresh.pc = "delay" THEN [pc |-> "killed", todo |-> {}, asked |-> {}]
                ELSE refresh
  /\ UNCHANGED <<accessVars, device, born, request, saved, known>>

-----------------------------------------------------------------------------
DeviceRequest(r) ==
  \E d \in Device :
    \/ \E u \in User : Change(r, u, d)
    \/ \E row \in DeviceRow : Create(r, d, row) \/ PatchRead(r, d, row)
    \/ Delete(r, d) \/ PatchSave(r, d)
    \/ \E k \in Check : check_reachability(r, d, k)

ProfileRequest(r) ==
  \E v \in User :
    \/ \E u \in User : Administer(r, u, v)
    \/ \E role \in Role : RoleRead(r, v, role)
    \/ RoleSave(r, v) \/ DeleteProfile(r, v)

AdminSite ==
  /\ Cardinality(held) < MaxRoles
  /\ \E u, v \in User, role \in Role : AddProfile(u, v, role)
  /\ UNCHANGED inventoryVars

CheckStep(k) == GetDevice(k) \/ (\E b \in BOOLEAN : Ping(k, b)) \/ PingRaises(k) \/ UpdateStatus(k)

RefreshStep ==
  RefreshLists \/ (\E d \in Device, k \in Check : RefreshDelays(d, k)) \/ RefreshReturns

Next ==
  \/ \E r \in Request : DeviceRequest(r) \/ ProfileRequest(r)
  \/ AdminSite
  \/ \E d \in Device, text \in Text : Discover(d, text)
  \/ \E k \in Check : CheckStep(k)
  \/ RefreshStep
  \/ WorkerDies

Spec == Init /\ [][Next]_vars

-----------------------------------------------------------------------------
(* Properties                                                              *)

\* A check changes the status and nothing else, however much of the row was
\* edited while it pinged: the other columns say what the last save put there.
EditsOutliveChecks == \A d \in Rows : device[d].text = saved[d].text

\* A status is what a check of this very device found or a save put there; a
\* check pings the address it read, also when the row has another by then.
StatusIsKnown == \A d \in Rows : <<d, device[d].status>> \in known

\* Who saves a device has been an engineer or an admin, and who gives a role has
\* been an admin before (README.md:334), since when the request was permitted
\* they were: a user without a profile reads, and nobody raises their own role.
Entitled(u, roles) == u \in Superuser \/ \E role \in roles : <<u, role>> \in held
OnlyTheEntitledWrite ==
  [][/\ \A d \in Device : saved'[d] # saved[d] =>
          saved'[d].by = "discovery" \/ Entitled(saved'[d].by, {"admin", "network_engineer"})
     /\ \A u \in User : granted'[u] # granted[u] => Entitled(granted'[u], {"admin"})]_vars

\* A device that was deleted stays away, unless a PATCH holds a copy of its row.
OnlyPatchRevives ==
  [][\A d \in born : device[d] = None /\ device'[d] # None =>
       \E r \in Request : request[r].pc = "save" /\ request[r].on = d]_vars

\* A refresh that ends has given every device it found a check of its own, also
\* when devices vanish, or checks of others fail, on the way.
RefreshChecksAll ==
  refresh.pc = "done" =>
    \A d \in refresh.asked : \E k \in Check : task[k].device = d /\ task[k].refresh
=============================================================================
