--------------------------- MODULE InventoryProofs ---------------------------
(***************************************************************************)
(* What is true of Inventory for any number of devices, users, requests    *)
(* and checks.                                                             *)
(***************************************************************************)
EXTENDS Inventory, TLAPS

\* What a request may hold: a copy it is to save has the type of its table, and
\* its user was entitled to what the URL names.
Needed(on) == IF on \in User THEN {"admin"} ELSE {"admin", "network_engineer"}
RequestInv ==
  \A r \in Request :
    /\ request[r].pc \in {"permitted", "save"} =>
         /\ request[r].user \in User
         /\ request[r].on \in Device \cup User
         /\ Entitled(request[r].user, Needed(request[r].on))
    /\ request[r].pc = "save" /\ request[r].on \in Device =>
         request[r].row \in DeviceRow /\ request[r].on \in born
    /\ request[r].pc = "save" /\ request[r].on \in User => request[r].role \in Role

\* A task that was queued has a device, which was in the table once it was read,
\* and what it is to write was found by its ping.
TaskInv ==
  \A k \in Check :
    /\ task[k].pc # "idle" => task[k].device \in Device
    /\ task[k].pc = "idle" => task[k].device = None
    /\ task[k].pc = "ping" => task[k].text \in Text
    /\ task[k].pc = "update" => <<task[k].device, task[k].status>> \in known

\* The devices a refresh is done with have a check.
RefreshInv ==
  /\ refresh.pc \in {"delay", "done"} =>
       \A d \in refresh.asked \ refresh.todo :
         \E k \in Check : task[k].device = d /\ task[k].refresh
  /\ refresh.pc = "done" => refresh.todo = {}

TableInv ==
  /\ device \in [Device -> DeviceRow \cup {None}]
  /\ born \subseteq Device
  /\ saved \in [Device -> Save \cup {None}]
  /\ known \subseteq Device \X DeviceStatus
  /\ \A d \in Device : device[d] # None => d \in born /\ saved[d] \in Save
  /\ EditsOutliveChecks
  /\ StatusIsKnown

IInv == TypeOK /\ TableInv /\ RequestInv /\ TaskInv /\ RefreshInv

LEMMA RowType == DeviceStatus = {"online", "offline", "unknown", "maintenance"}
                 /\ \A row \in DeviceRow : row.status \in DeviceStatus /\ row.text \in Text
BY DEF DeviceStatus, DeviceRow

\* Types: what each variable's step must keep.
LEMMA TypeInit == Init => TypeOK /\ RequestInv /\ TaskInv /\ RefreshInv
BY SMTT(30) DEF Init, AccessInit, TypeOK, AccessTypeOK, RequestInv, TaskInv, RefreshInv,
     RequestState, TaskState, RefreshState, NewRequest, NewTask, DeviceStatus, Save
\* A step that moves nothing the invariants speak of.
LEMMA StutterStep ==
  ASSUME TypeOK, RequestInv, TaskInv, RefreshInv, UNCHANGED vars
  PROVE  TypeOK' /\ RequestInv' /\ TaskInv' /\ RefreshInv'
BY DEF vars, TypeOK, AccessTypeOK, RequestInv, TaskInv, RefreshInv, Entitled, Needed

\* A save puts a typed row into the table, and forgets no known status.
LEMMA PutsStep ==
  ASSUME TypeOK, NEW d \in Device, NEW row \in DeviceRow, NEW by \in User \cup {"discovery"},
         Puts(d, row, by), born' = born \cup {d} \/ (born' = born /\ d \in born)
  PROVE  /\ device' \in [Device -> DeviceRow \cup {None}]
         /\ saved' \in [Device -> Save \cup {None}]
         /\ known' \subseteq Device \X DeviceStatus
         /\ known \subseteq known'
         /\ born' \subseteq Device
         /\ \A e \in Device : device'[e] # None => e \in born' /\ saved'[e] \in Save
<1>1. row.status \in DeviceStatus /\ row.text \in Text  BY RowType
<1>2. [text |-> row.text, by |-> by] \in Save  BY <1>1 DEF Save
<1> QED BY <1>1, <1>2 DEF TypeOK, Puts

LEMMA EngineersAreEntitled ==
  ASSUME TypeOK, NEW u \in User, IsAdminOrNetworkEngineer(u)
  PROVE  Entitled(u, {"admin", "network_engineer"})
BY NobodyAssumption DEF TypeOK, AccessTypeOK, IsAdminOrNetworkEngineer, Entitled, Role

LEMMA AdminsAreEntitled ==
  ASSUME TypeOK, NEW u \in User, IsAdminOnly(u)
  PROVE  Entitled(u, {"admin"})
BY NobodyAssumption DEF TypeOK, AccessTypeOK, IsAdminOnly, Entitled, Role

\* The locals of one request are replaced by ones that keep the invariant.
RequestFits(l) ==
  /\ l.pc \in {"permitted", "save"} =>
       /\ l.user \in User
       /\ l.on \in Device \cup User
       /\ Entitled(l.user, Needed(l.on))
  /\ l.pc = "save" /\ l.on \in Device => l.row \in DeviceRow /\ l.on \in born
  /\ l.pc = "save" /\ l.on \in User => l.role \in Role

LEMMA FitsStays ==
  ASSUME NEW l, RequestFits(l), held \subseteq held', born \subseteq born'
  PROVE  RequestFits(l)'
BY DEF RequestFits, Entitled

LEMMA RequestStep ==
  ASSUME TypeOK, RequestInv, NEW r \in Request, NEW l \in RequestState, RequestFits(l),
         request' = [request EXCEPT ![r] = l], held \subseteq held', born \subseteq born'
  PROVE  request' \in [Request -> RequestState] /\ RequestInv'
<1>1. request' \in [Request -> RequestState]  BY DEF TypeOK
<1>2. SUFFICES ASSUME NEW q \in Request PROVE RequestFits(request[q])'
  BY <1>1 DEF RequestInv, RequestFits
<1>3. CASE q = r
  <2>1. request'[q] = l  BY <1>3 DEF TypeOK
  <2> QED BY <2>1, FitsStays DEF RequestFits, Entitled
<1>4. CASE q # r
  <2>1. request'[q] = request[q]  BY <1>4 DEF TypeOK
  <2>2. RequestFits(request[q])  BY DEF RequestInv, RequestFits
  <2> QED BY <2>1, <2>2 DEF RequestFits, Entitled
<1> QED BY <1>3, <1>4

\* An entitled user is let through.
LEMMA PermitStep ==
  ASSUME TypeOK, RequestInv, NEW r \in Request, NEW u \in User, NEW on \in Device \cup User,
         Permit(r, u, on), Entitled(u, Needed(on))
  PROVE  TypeOK' /\ RequestInv'
<1> DEFINE l == [request[r] EXCEPT !.pc = "permitted", !.user = u, !.on = on]
<1>1. l \in RequestState  BY DEF TypeOK, RequestState
<1>2. request' = [request EXCEPT ![r] = l]  BY DEF Permit, TypeOK, RequestState
<1>3. l.pc = "permitted" /\ l.user = u /\ l.on = on  BY DEF TypeOK, RequestState
<1> HIDE DEF l
<1>4. RequestFits(l)  BY <1>3 DEF RequestFits
<1>5. request' \in [Request -> RequestState] /\ RequestInv'
  BY <1>1, <1>2, <1>4, RequestStep DEF Permit, accessVars
<1>6. AccessTypeOK'  BY DEF Permit, TypeOK, AccessTypeOK, accessVars
<1>7. TypeOK'  BY <1>5, <1>6 DEF Permit, TypeOK
<1> QED BY <1>5, <1>7

LEMMA AnswersStep ==
  ASSUME TypeOK, RequestInv, NEW r \in Request, Answers(r), held \subseteq held',
         born \subseteq born'
  PROVE  request' \in [Request -> RequestState] /\ RequestInv'
<1> DEFINE l == [NewRequest EXCEPT !.pc = "end"]
<1>1. l \in RequestState  BY DEF NewRequest, RequestState
<1>2. l.pc = "end"  BY DEF NewRequest
<1>3. request' = [request EXCEPT ![r] = l]  BY DEF Answers
<1> HIDE DEF l
<1>4. RequestFits(l)  BY <1>2 DEF RequestFits
<1> QED BY <1>1, <1>3, <1>4, RequestStep

\* PATCH has its copy ready.
LEMMA ReadyStep ==
  ASSUME TypeOK, RequestInv, NEW r \in Request, NEW l \in RequestState,
         request[r].pc = "permitted", UNCHANGED <<accessVars, born>>,
         request' = [request EXCEPT ![r] = l],
         l.user = request[r].user, l.on = request[r].on,
         l.on \in Device => l.row \in DeviceRow /\ l.on \in born,
         l.on \in User => l.role \in Role
  PROVE  request' \in [Request -> RequestState] /\ RequestInv'
<1>1. RequestFits(l)  BY DEF RequestFits, RequestInv
<1> QED BY <1>1, RequestStep DEF accessVars

\* A role is given.
LEMMA GivesStep ==
  ASSUME TypeOK, NEW u \in User, NEW v \in User, NEW role \in Role, Gives(u, v, role)
  PROVE  AccessTypeOK' /\ held \subseteq held'
BY DEF TypeOK, AccessTypeOK, Gives

-----------------------------------------------------------------------------
(* The table, the tasks and the refresh, each by itself                    *)

LEMMA TableKept ==
  ASSUME TableInv, UNCHANGED <<device, born, saved>>,
         known \subseteq known', known' \subseteq Device \X DeviceStatus
  PROVE  TableInv'
BY DEF TableInv, EditsOutliveChecks, StatusIsKnown, Rows

LEMMA TablePuts ==
  ASSUME TypeOK, TableInv, NEW d \in Device, NEW row \in DeviceRow,
         NEW by \in User \cup {"discovery"},
         Puts(d, row, by), born' = born \cup {d} \/ (born' = born /\ d \in born)
  PROVE  TableInv' /\ known \subseteq known' /\ born \subseteq born'
<1>1. EditsOutliveChecks'
  BY DEF TableInv, Puts, EditsOutliveChecks, Rows
<1>2. StatusIsKnown'
  BY DEF TableInv, Puts, StatusIsKnown, Rows
<1>3. known \subseteq known' /\ born \subseteq born'  BY DEF Puts
<1> QED BY <1>1, <1>2, <1>3, PutsStep DEF TableInv

\* Rows may go, and the status of those that stay may become a known one.
LEMMA TableUpdates ==
  ASSUME TableInv, UNCHANGED <<born, saved, known>>,
         device' \in [Device -> DeviceRow \cup {None}],
         \A d \in Device : device'[d] # None =>
           /\ device[d] # None
           /\ device'[d].text = device[d].text
           /\ <<d, device'[d].status>> \in known
  PROVE  TableInv'
BY DEF TableInv, EditsOutliveChecks, StatusIsKnown, Rows

LEMMA RequestsKept ==
  ASSUME TypeOK, RequestInv, request' = request, held \subseteq held', born \subseteq born'
  PROVE  request' \in [Request -> RequestState] /\ RequestInv'
<1>1. request' \in [Request -> RequestState]  BY DEF TypeOK
<1>2. SUFFICES ASSUME NEW q \in Request PROVE RequestFits(request[q])'
  BY <1>1 DEF RequestInv, RequestFits
<1>3. RequestFits(request[q])  BY DEF RequestInv, RequestFits
<1> QED BY <1>3 DEF RequestFits, Entitled

LEMMA TasksKept ==
  ASSUME TaskInv, task' = task, known \subseteq known'
  PROVE  TaskInv'
BY DEF TaskInv

TaskFits(l, found) ==
  /\ l.pc # "idle" => l.device \in Device
  /\ l.pc = "idle" => l.device = None
  /\ l.pc = "ping" => l.text \in Text
  /\ l.pc = "update" => <<l.device, l.status>> \in found

\* One task moves on, for the device it was for if it was for one already.
LEMMA TaskStep ==
  ASSUME TypeOK, TaskInv, NEW k \in Check, NEW l \in TaskState,
         task' = [task EXCEPT ![k] = l], known \subseteq known', TaskFits(l, known')
  PROVE  task' \in [Check -> TaskState] /\ TaskInv'
<1>1. task' \in [Check -> TaskState]  BY DEF TypeOK
<1>2. SUFFICES ASSUME NEW j \in Check PROVE TaskFits(task'[j], known')
  BY <1>1 DEF TaskInv, TaskFits
<1>3. CASE j = k  BY <1>3 DEF TypeOK, TaskFits
<1>4. CASE j # k
  <2>1. TaskFits(task[j], known)  BY DEF TaskInv, TaskFits
  <2> QED BY <1>1, <1>4, <2>1 DEF TypeOK, TaskFits
<1> QED BY <1>3, <1>4

LEMMA RefreshKept ==
  ASSUME TypeOK, TaskInv, RefreshInv, refresh' = refresh,
         \A k \in Check : task[k].pc # "idle" =>
           task'[k].device = task[k].device /\ task'[k].refresh = task[k].refresh
  PROVE  RefreshInv'
<1>1. ASSUME NEW d \in Device, NEW k \in Check, task[k].device = d, task[k].refresh
      PROVE  task'[k].device = d /\ task'[k].refresh
  BY <1>1, NoneAssumption DEF TaskInv
<1>2. refresh.asked \subseteq Device  BY DEF TypeOK, RefreshState
<1> QED BY <1>1, <1>2 DEF RefreshInv

-----------------------------------------------------------------------------
(* The steps of a request                                                  *)

LEMMA ChangeStep ==
  ASSUME IInv, NEW r \in Request, NEW u \in User, NEW d \in Device, Change(r, u, d)
  PROVE  IInv'
<1>1. IsAdminOrNetworkEngineer(u)  BY DEF Change, ReadOnlyOrAbove
<1>2. Entitled(u, Needed(d))
  BY <1>1, EngineersAreEntitled, UrlAssumption DEF IInv, Needed
<1>3. TypeOK' /\ RequestInv'  BY <1>2, PermitStep DEF IInv, Change
<1>4. UNCHANGED <<device, born, task, refresh, saved, known>>  BY DEF Change, Permit
<1>5. TableInv'  BY <1>4, TableKept DEF IInv, TableInv
<1>6. TaskInv' /\ RefreshInv'  BY <1>4, TasksKept, RefreshKept DEF IInv
<1> QED BY <1>3, <1>5, <1>6 DEF IInv

LEMMA AdministerStep ==
  ASSUME IInv, NEW r \in Request, NEW u \in User, NEW v \in User, Administer(r, u, v)
  PROVE  IInv'
<1>1. Entitled(u, Needed(v))
  BY AdminsAreEntitled DEF Administer, IInv, Needed
<1>2. TypeOK' /\ RequestInv'  BY <1>1, PermitStep DEF IInv, Administer
<1>3. UNCHANGED <<device, born, task, refresh, saved, known>>  BY DEF Administer, Permit
<1>4. TableInv'  BY <1>3, TableKept DEF IInv, TableInv
<1>5. TaskInv' /\ RefreshInv'  BY <1>3, TasksKept, RefreshKept DEF IInv
<1> QED BY <1>2, <1>4, <1>5 DEF IInv

\* What is left of TypeOK when the parts of the invariant are known.
LEMMA TypesTogether ==
  ASSUME AccessTypeOK', TableInv', request' \in [Request -> RequestState],
         task' \in [Check -> TaskState], refresh' \in RefreshState
  PROVE  TypeOK'
BY DEF TypeOK, TableInv

\* A step of a request that leaves the roles, the tasks and the refresh alone.
LEMMA OnTableOnly ==
  ASSUME IInv, UNCHANGED <<accessVars, task, refresh>>, TableInv', known \subseteq known',
         request' \in [Request -> RequestState], RequestInv'
  PROVE  IInv'
<1>1. AccessTypeOK'  BY DEF IInv, TypeOK, AccessTypeOK, accessVars
<1>2. task' \in [Check -> TaskState] /\ refresh' \in RefreshState  BY DEF IInv, TypeOK
<1>3. TypeOK'  BY <1>1, <1>2, TypesTogether
<1>4. TaskInv' /\ RefreshInv'  BY TasksKept, RefreshKept DEF IInv
<1> QED BY <1>3, <1>4 DEF IInv

LEMMA CreateStep ==
  ASSUME IInv, NEW r \in Request, NEW d \in Device, NEW row \in DeviceRow, Create(r, d, row)
  PROVE  IInv'
<1>1. request[r].user \in User  BY DEF Create, Handles, IInv, RequestInv
<1>2. TableInv' /\ known \subseteq known' /\ born \subseteq born'
  BY <1>1, TablePuts DEF Create, IInv
<1>3. request' \in [Request -> RequestState] /\ RequestInv'
  BY <1>2, AnswersStep DEF Create, IInv, accessVars
<1>4. UNCHANGED <<accessVars, task, refresh>>  BY DEF Create
<1> QED BY <1>2, <1>3, <1>4, OnTableOnly

LEMMA DeleteStep ==
  ASSUME IInv, NEW r \in Request, NEW d \in Device, Delete(r, d)
  PROVE  IInv'
<1>1. request' \in [Request -> RequestState] /\ RequestInv'
  BY AnswersStep DEF Delete, IInv, accessVars
<1>2. UNCHANGED <<accessVars, task, refresh, born, saved, known>>  BY DEF Delete
<1>3. device' \in [Device -> DeviceRow \cup {None}]  BY DEF Delete, IInv, TableInv
<1>4. \A e \in Device : device'[e] # None => device[e] # None /\ device'[e] = device[e]
  BY DEF Delete, IInv, TableInv
<1>5. \A e \in Rows : <<e, device[e].status>> \in known  BY DEF IInv, TableInv, StatusIsKnown
<1>6. TableInv'  BY <1>2, <1>3, <1>4, <1>5, TableUpdates DEF IInv, Rows
<1> QED BY <1>1, <1>2, <1>6, OnTableOnly

LEMMA PatchReadStep ==
  ASSUME IInv, NEW r \in Request, NEW d \in Device, NEW row \in DeviceRow, PatchRead(r, d, row)
  PROVE  IInv'
<1> DEFINE l == [request[r] EXCEPT !.pc = "save", !.row = row]
<1>1. l \in RequestState  BY DEF IInv, TypeOK, RequestState
<1>2. request' = [request EXCEPT ![r] = l]  BY DEF PatchRead, IInv, TypeOK, RequestState
<1>3. l.user = request[r].user /\ l.on = request[r].on /\ l.row = row
  BY DEF IInv, TypeOK, RequestState
<1> HIDE DEF l
<1>4. d \in born  BY DEF PatchRead, IInv, TypeOK
<1>5. request[r].pc = "permitted" /\ l.on = d /\ d \notin User
  BY <1>3, UrlAssumption DEF PatchRead, Handles
<1>6. UNCHANGED <<accessVars, device, born, task, refresh, saved, known>>  BY DEF PatchRead
<1>7. request' \in [Request -> RequestState] /\ RequestInv'
  BY <1>1, <1>2, <1>3, <1>4, <1>5, <1>6, ReadyStep DEF IInv
<1>8. TableInv'  BY <1>6, TableKept DEF IInv, TableInv
<1> QED BY <1>6, <1>7, <1>8, OnTableOnly

LEMMA PatchSaveStep ==
  ASSUME IInv, NEW r \in Request, NEW d \in Device, PatchSave(r, d)
  PROVE  IInv'
<1>1. request[r].user \in User /\ request[r].row \in DeviceRow /\ d \in born
  BY DEF PatchSave, IInv, RequestInv
<1>2. TableInv' /\ known \subseteq known' /\ born \subseteq born'
  BY <1>1, TablePuts DEF PatchSave, IInv
<1>3. request' \in [Request -> RequestState] /\ RequestInv'
  BY <1>2, AnswersStep DEF PatchSave, IInv, accessVars
<1>4. UNCHANGED <<accessVars, task, refresh>>  BY DEF PatchSave
<1> QED BY <1>2, <1>3, <1>4, OnTableOnly

LEMMA QueuedFits ==
  ASSUME NEW d \in Device, NEW b \in BOOLEAN
  PROVE  /\ Queued(d, b) \in TaskState
         /\ TaskFits(Queued(d, b), known)
         /\ Queued(d, b).device = d /\ Queued(d, b).refresh = b
BY DEF Queued, NewTask, TaskState, DeviceStatus, TaskFits

\* An idle task is queued: it had no device yet.
LEMMA QueuesStep ==
  ASSUME IInv, NEW k \in Check, NEW d \in Device, NEW b \in BOOLEAN, known' = known,
         task[k].pc = "idle", task' = [task EXCEPT ![k] = Queued(d, b)]
  PROVE  /\ task' \in [Check -> TaskState]
         /\ TaskInv'
         /\ task'[k].device = d /\ task'[k].refresh = b
         /\ \A j \in Check : task[j].pc # "idle" =>
              task'[j].device = task[j].device /\ task'[j].refresh = task[j].refresh
<1> DEFINE l == Queued(d, b)
<1>1. l \in TaskState /\ TaskFits(l, known) /\ l.device = d /\ l.refresh = b  BY QueuedFits
<1>2. task' = [task EXCEPT ![k] = l]  OBVIOUS
<1> HIDE DEF l
<1>3. task' \in [Check -> TaskState] /\ TaskInv'  BY <1>1, <1>2, TaskStep DEF IInv
<1>4. \A j \in Check : task'[j] = IF j = k THEN l ELSE task[j]  BY <1>2 DEF IInv, TypeOK
<1> QED BY <1>1, <1>3, <1>4

LEMMA check_reachabilityStep ==
  ASSUME IInv, NEW r \in Request, NEW d \in Device, NEW k \in Check,
         check_reachability(r, d, k)
  PROVE  IInv'
<1>1. UNCHANGED <<accessVars, device, born, refresh, saved, known>>  BY DEF check_reachability
<1>2. request' \in [Request -> RequestState] /\ RequestInv'
  BY AnswersStep DEF check_reachability, IInv, accessVars
<1>3. /\ task' \in [Check -> TaskState] /\ TaskInv'
      /\ \A j \in Check : task[j].pc # "idle" =>
           task'[j].device = task[j].device /\ task'[j].refresh = task[j].refresh
  BY <1>1, QueuesStep DEF check_reachability
<1>4. TableInv'  BY <1>1, TableKept DEF IInv, TableInv
<1>5. RefreshInv'  BY <1>1, <1>3, RefreshKept DEF IInv
<1>6. AccessTypeOK' /\ refresh' \in RefreshState
  BY <1>1 DEF IInv, TypeOK, AccessTypeOK, accessVars
<1>7. TypeOK'  BY <1>2, <1>3, <1>4, <1>6, TypesTogether
<1> QED BY <1>2, <1>3, <1>4, <1>5, <1>7 DEF IInv

\* A step that moves nothing but roles and a request.
LEMMA OnRolesOnly ==
  ASSUME IInv, AccessTypeOK', UNCHANGED <<device, born, task, refresh, saved, known>>,
         request' \in [Request -> RequestState], RequestInv'
  PROVE  IInv'
<1>1. TableInv'  BY TableKept DEF IInv, TableInv
<1>2. task' \in [Check -> TaskState] /\ refresh' \in RefreshState  BY DEF IInv, TypeOK
<1>3. TypeOK'  BY <1>1, <1>2, TypesTogether
<1>4. TaskInv' /\ RefreshInv'  BY TasksKept, RefreshKept DEF IInv
<1> QED BY <1>1, <1>3, <1>4 DEF IInv

LEMMA RoleReadStep ==
  ASSUME IInv, NEW r \in Request, NEW v \in User, NEW role \in Role, RoleRead(r, v, role)
  PROVE  IInv'
<1> DEFINE l == [request[r] EXCEPT !.pc = "save", !.role = role]
<1>1. l \in RequestState  BY DEF IInv, TypeOK, RequestState
<1>2. request' = [request EXCEPT ![r] = l]  BY DEF RoleRead, IInv, TypeOK, RequestState
<1>3. l.user = request[r].user /\ l.on = request[r].on /\ l.role = role
  BY DEF IInv, TypeOK, RequestState
<1> HIDE DEF l
<1>4. request[r].pc = "permitted" /\ l.on = v /\ v \notin Device
  BY <1>3, UrlAssumption DEF RoleRead, Handles
<1>5. UNCHANGED <<accessVars, device, born, task, refresh, saved, known>>  BY DEF RoleRead
<1>6. request' \in [Request -> RequestState] /\ RequestInv'
  BY <1>1, <1>2, <1>3, <1>4, <1>5, ReadyStep DEF IInv
<1>7. AccessTypeOK'  BY <1>5 DEF IInv, TypeOK, AccessTypeOK, accessVars
<1> QED BY <1>5, <1>6, <1>7, OnRolesOnly

LEMMA RoleSaveStep ==
  ASSUME IInv, NEW r \in Request, NEW v \in User, RoleSave(r, v)
  PROVE  IInv'
<1>1. request[r].user \in User /\ request[r].role \in Role
  BY DEF RoleSave, IInv, RequestInv
<1>2. AccessTypeOK' /\ held \subseteq held'  BY <1>1, GivesStep DEF RoleSave, IInv
<1>3. request' \in [Request -> RequestState] /\ RequestInv'
  BY <1>2, AnswersStep DEF RoleSave, IInv
<1>4. UNCHANGED <<device, born, task, refresh, saved, known>>  BY DEF RoleSave
<1> QED BY <1>2, <1>3, <1>4, OnRolesOnly

LEMMA DeleteProfileStep ==
  ASSUME IInv, NEW r \in Request, NEW v \in User, DeleteProfile(r, v)
  PROVE  IInv'
<1>1. AccessTypeOK'  BY DEF DeleteProfile, IInv, TypeOK, AccessTypeOK
<1>2. request' \in [Request -> RequestState] /\ RequestInv'
  BY AnswersStep DEF DeleteProfile, IInv
<1>3. UNCHANGED <<device, born, task, refresh, saved, known>>  BY DEF DeleteProfile
<1> QED BY <1>1, <1>2, <1>3, OnRolesOnly

LEMMA AdminSiteStep ==
  ASSUME IInv, AdminSite
  PROVE  IInv'
<1>1. PICK u \in User, v \in User, role \in Role : AddProfile(u, v, role)  BY DEF AdminSite
<1>2. AccessTypeOK' /\ held \subseteq held'  BY <1>1, GivesStep DEF AddProfile, IInv
<1>3. UNCHANGED <<device, born, request, task, refresh, saved, known>>
  BY DEF AdminSite, inventoryVars
<1>4. request' \in [Request -> RequestState] /\ RequestInv'
  BY <1>2, <1>3, RequestsKept DEF IInv
<1> QED BY <1>2, <1>3, <1>4, OnRolesOnly

LEMMA DiscoverStep ==
  ASSUME IInv, NEW d \in Device, NEW text \in Text, Discover(d, text)
  PROVE  IInv'
<1> DEFINE row == [status |-> "online", text |-> text]
<1>1. row \in DeviceRow  BY DEF DeviceRow, DeviceStatus
<1>2. Puts(d, row, "discovery") /\ born' = born \cup {d}  BY DEF Discover
<1>3. UNCHANGED <<accessVars, request, task, refresh>>  BY DEF Discover
<1> HIDE DEF row
<1>4. TableInv' /\ known \subseteq known' /\ born \subseteq born'
  BY <1>1, <1>2, TablePuts DEF IInv
<1>5. request' \in [Request -> RequestState] /\ RequestInv'
  BY <1>3, <1>4, RequestsKept DEF IInv, accessVars
<1> QED BY <1>3, <1>4, <1>5, OnTableOnly

-----------------------------------------------------------------------------
(* The steps of a check                                                    *)

\* A task that runs moves on, with its device, whatever else becomes of the row.
LEMMA MovesOn ==
  ASSUME IInv, NEW k \in Check, NEW l \in TaskState, task[k].pc # "idle",
         UNCHANGED <<accessVars, born, request, refresh, saved>>, known \subseteq known',
         task' = [task EXCEPT ![k] = l], TaskFits(l, known'),
         l.device = task[k].device, l.refresh = task[k].refresh, TableInv'
  PROVE  IInv'
<1>1. task' \in [Check -> TaskState] /\ TaskInv'  BY TaskStep DEF IInv
<1>2. \A j \in Check : task'[j] = IF j = k THEN l ELSE task[j]  BY DEF IInv, TypeOK
<1>3. RefreshInv'  BY <1>2, RefreshKept DEF IInv
<1>4. request' \in [Request -> RequestState] /\ RequestInv'
  BY RequestsKept DEF IInv, accessVars
<1>5. AccessTypeOK' /\ refresh' \in RefreshState
  BY DEF IInv, TypeOK, AccessTypeOK, accessVars
<1>6. TypeOK'  BY <1>1, <1>4, <1>5, TypesTogether
<1> QED BY <1>1, <1>3, <1>4, <1>6 DEF IInv

LEMMA EndedFits ==
  ASSUME IInv, NEW k \in Check, task[k].pc # "idle"
  PROVE  /\ EndedTask(k) \in TaskState
         /\ TaskFits(EndedTask(k), known)
         /\ EndedTask(k).device = task[k].device
         /\ EndedTask(k).refresh = task[k].refresh
<1>1. task[k] \in TaskState /\ task[k].device \in Device  BY DEF IInv, TypeOK, TaskInv
<1>2. EndedTask(k) \in TaskState
  BY <1>1 DEF EndedTask, TaskState, DeviceStatus
<1>3. /\ EndedTask(k).pc = "ended"
      /\ EndedTask(k).device = task[k].device
      /\ EndedTask(k).refresh = task[k].refresh
  BY <1>1 DEF EndedTask, TaskState
<1> QED BY <1>1, <1>2, <1>3 DEF TaskFits

LEMMA EndsStep ==
  ASSUME IInv, NEW k \in Check, task[k].pc # "idle", TaskEnds(k),
         UNCHANGED <<accessVars, born, request, refresh, saved, known>>, TableInv'
  PROVE  IInv'
<1> DEFINE l == EndedTask(k)
<1>1. l \in TaskState /\ TaskFits(l, known)
      /\ l.device = task[k].device /\ l.refresh = task[k].refresh
  BY EndedFits
<1>2. task' = [task EXCEPT ![k] = l]  BY DEF TaskEnds
<1> HIDE DEF l
<1> QED BY <1>1, <1>2, MovesOn

LEMMA GetDeviceStep ==
  ASSUME IInv, NEW k \in Check, GetDevice(k)
  PROVE  IInv'
<1>1. UNCHANGED <<accessVars, device, born, request, refresh, saved, known>> /\ task[k].pc = "queued"
  BY DEF GetDevice
<1>2. TableInv'  BY <1>1, TableKept DEF IInv, TableInv
<1>3. CASE task[k].device \in Rows
  <2> DEFINE l == [task[k] EXCEPT !.pc = "ping", !.text = device[task[k].device].text]
  <2>1. task[k] \in TaskState /\ task[k].device \in Device
    BY <1>1 DEF IInv, TypeOK, TaskInv
  <2>2. device[task[k].device].text \in Text
    BY <1>3, <2>1, RowType DEF Rows, IInv, TableInv
  <2>3. l \in TaskState  BY <2>1, <2>2 DEF TaskState
  <2>4. task' = [task EXCEPT ![k] = l]  BY <1>3, <2>1 DEF GetDevice, IInv, TypeOK, TaskState
  <2>5. l.pc = "ping" /\ l.text \in Text /\ l.device = task[k].device
        /\ l.refresh = task[k].refresh
    BY <2>1, <2>2 DEF TaskState
  <2> HIDE DEF l
  <2>6. TaskFits(l, known)  BY <2>1, <2>5 DEF TaskFits
  <2> QED BY <1>1, <1>2, <2>3, <2>4, <2>5, <2>6, MovesOn
<1>4. CASE task[k].device \notin Rows
  BY <1>1, <1>2, <1>4, EndsStep DEF GetDevice
<1> QED BY <1>3, <1>4

LEMMA PingStep ==
  ASSUME IInv, NEW k \in Check, NEW b \in BOOLEAN, Ping(k, b)
  PROVE  IInv'
<1> DEFINE status == IF b THEN "online" ELSE "offline"
           l == [task[k] EXCEPT !.pc = "update", !.status = status]
<1>1. UNCHANGED <<accessVars, device, born, request, refresh, saved>> /\ task[k].pc = "ping"
  BY DEF Ping
<1>2. task[k] \in TaskState /\ task[k].device \in Device
  BY <1>1 DEF IInv, TypeOK, TaskInv
<1>3. status \in DeviceStatus /\ known' = known \cup {<<task[k].device, status>>}
  BY DEF Ping, DeviceStatus
<1>4. task' = [task EXCEPT ![k] = l]  BY <1>2 DEF Ping, IInv, TypeOK, TaskState
<1> HIDE DEF status
<1>5. l \in TaskState  BY <1>2, <1>3 DEF TaskState
<1>6. l.pc = "update" /\ l.status = status /\ l.device = task[k].device
      /\ l.refresh = task[k].refresh
  BY <1>2 DEF TaskState
<1> HIDE DEF l
<1>7. known \subseteq known' /\ known' \subseteq Device \X DeviceStatus
  BY <1>2, <1>3 DEF IInv, TableInv
<1>8. TaskFits(l, known')  BY <1>2, <1>3, <1>6 DEF TaskFits
<1>9. TableInv'  BY <1>1, <1>7, TableKept DEF IInv
<1> QED BY <1>1, <1>4, <1>5, <1>6, <1>7, <1>8, <1>9, MovesOn

LEMMA PingRaisesStep ==
  ASSUME IInv, NEW k \in Check, PingRaises(k)
  PROVE  IInv'
<1>1. UNCHANGED <<accessVars, device, born, request, refresh, saved, known>> /\ task[k].pc = "ping"
  BY DEF PingRaises
<1>2. TableInv'  BY <1>1, TableKept DEF IInv, TableInv
<1> QED BY <1>1, <1>2, EndsStep DEF PingRaises

LEMMA UpdateStatusStep ==
  ASSUME IInv, NEW k \in Check, UpdateStatus(k)
  PROVE  IInv'
<1>1. UNCHANGED <<accessVars, born, request, refresh, saved, known>> /\ task[k].pc = "update"
  BY DEF UpdateStatus
<1>2. <<task[k].device, task[k].status>> \in known /\ task[k].status \in DeviceStatus
  BY <1>1 DEF IInv, TypeOK, TaskInv, TaskState
<1>3. ASSUME NEW d \in Rows
      PROVE  LET row == [device[d] EXCEPT !.status = task[k].status] IN
             row \in DeviceRow /\ row.text = device[d].text /\ row.status = task[k].status
  BY <1>2 DEF Rows, IInv, TableInv, DeviceRow
<1>4. \A d \in Device :
        device'[d] = IF d \in Rows /\ d = task[k].device
                       THEN [device[d] EXCEPT !.status = task[k].status] ELSE device[d]
  BY DEF UpdateStatus
<1>5. device' \in [Device -> DeviceRow \cup {None}]
  BY <1>3 DEF UpdateStatus, IInv, TableInv
<1>6. \A d \in Rows : <<d, device[d].status>> \in known  BY DEF IInv, TableInv, StatusIsKnown
<1>7. ASSUME NEW d \in Device, device'[d] # None
      PROVE  /\ device[d] # None
             /\ device'[d].text = device[d].text
             /\ <<d, device'[d].status>> \in known
  <2>1. d \in Rows  BY <1>4, <1>7 DEF Rows
  <2>2. CASE d = task[k].device  BY <1>2, <1>3, <1>4, <2>1, <2>2 DEF Rows
  <2>3. CASE d # task[k].device  BY <1>4, <1>6, <2>1, <2>3 DEF Rows
  <2> QED BY <2>2, <2>3
<1>8. TableInv'  BY <1>1, <1>5, <1>7, TableUpdates DEF IInv
<1> QED BY <1>1, <1>8, EndsStep DEF UpdateStatus

-----------------------------------------------------------------------------
(* The steps of a refresh, and a crash                                     *)

\* A step that moves nothing but tasks and the refresh.
LEMMA OnTasksOnly ==
  ASSUME IInv, UNCHANGED <<accessVars, device, born, request, saved, known>>,
         task' \in [Check -> TaskState], TaskInv', refresh' \in RefreshState, RefreshInv'
  PROVE  IInv'
<1>1. TableInv'  BY TableKept DEF IInv, TableInv
<1>2. request' \in [Request -> RequestState] /\ RequestInv'
  BY RequestsKept DEF IInv, accessVars
<1>3. AccessTypeOK'  BY DEF IInv, TypeOK, AccessTypeOK, accessVars
<1>4. TypeOK'  BY <1>1, <1>2, <1>3, TypesTogether
<1> QED BY <1>1, <1>2, <1>4 DEF IInv

LEMMA RefreshListsStep ==
  ASSUME IInv, RefreshLists
  PROVE  IInv'
<1>1. refresh' = [pc |-> "delay", todo |-> Rows, asked |-> Rows]  BY DEF RefreshLists
<1>2. refresh' \in RefreshState  BY <1>1 DEF RefreshState, Rows
<1>3. RefreshInv'  BY <1>1 DEF RefreshInv
<1>4. task' \in [Check -> TaskState] /\ TaskInv'
  BY TasksKept DEF RefreshLists, IInv, TypeOK
<1> QED BY <1>2, <1>3, <1>4, OnTasksOnly DEF RefreshLists

LEMMA RefreshDelaysStep ==
  ASSUME IInv, NEW d \in Device, NEW k \in Check, RefreshDelays(d, k)
  PROVE  IInv'
<1>1. /\ task' \in [Check -> TaskState] /\ TaskInv'
      /\ task'[k].device = d /\ task'[k].refresh = TRUE
      /\ \A j \in Check : task[j].pc # "idle" =>
           task'[j].device = task[j].device /\ task'[j].refresh = task[j].refresh
  BY QueuesStep DEF RefreshDelays
<1>2. refresh \in RefreshState  BY DEF IInv, TypeOK
<1>3. refresh' \in RefreshState  BY <1>2 DEF RefreshDelays, RefreshState
<1>4. /\ refresh'.pc = "delay" /\ refresh'.asked = refresh.asked
      /\ refresh'.todo = refresh.todo \ {d} /\ refresh.pc = "delay"
  BY <1>2 DEF RefreshDelays, RefreshState
<1>5. ASSUME NEW e \in refresh'.asked \ refresh'.todo
      PROVE  \E j \in Check : task'[j].device = e /\ task'[j].refresh
  <2>1. CASE e = d  BY <1>1, <2>1
  <2>2. CASE e # d
    <3>1. PICK j \in Check : task[j].device = e /\ task[j].refresh
      BY <1>4, <1>5, <2>2 DEF IInv, RefreshInv
    <3>2. e \in Device  BY <1>2, <1>4, <1>5 DEF RefreshState
    <3>3. task[j].pc # "idle"  BY <3>1, <3>2, NoneAssumption DEF IInv, TaskInv
    <3> QED BY <1>1, <3>1, <3>3
  <2> QED BY <2>1, <2>2
<1>6. RefreshInv'  BY <1>4, <1>5 DEF RefreshInv
<1> QED BY <1>1, <1>3, <1>6, OnTasksOnly DEF RefreshDelays

LEMMA RefreshReturnsStep ==
  ASSUME IInv, RefreshReturns
  PROVE  IInv'
<1>1. refresh \in RefreshState  BY DEF IInv, TypeOK
<1>2. /\ refresh' \in RefreshState /\ refresh'.todo = {}
      /\ refresh'.asked = refresh.asked
  BY <1>1 DEF RefreshReturns, RefreshState
<1>3. RefreshInv'  BY <1>2 DEF RefreshReturns, IInv, RefreshInv
<1>4. task' \in [Check -> TaskState] /\ TaskInv'
  BY TasksKept DEF RefreshReturns, IInv, TypeOK
<1> QED BY <1>2, <1>3, <1>4, OnTasksOnly DEF RefreshReturns

LEMMA WorkerDiesStep ==
  ASSUME IInv, WorkerDies
  PROVE  IInv'
<1>1. UNCHANGED <<accessVars, device, born, request, saved, known>>  BY DEF WorkerDies
<1>2. ASSUME NEW j \in Check
      PROVE  /\ task'[j] \in TaskState
             /\ TaskFits(task'[j], known)
             /\ task'[j].device = task[j].device /\ task'[j].refresh = task[j].refresh
  <2>1. CASE task[j].pc \in {"ping", "update"}
    <3>1. task'[j] = EndedTask(j)  BY <2>1 DEF WorkerDies
    <3> QED BY <2>1, <3>1, EndedFits
  <2>2. CASE task[j].pc \notin {"ping", "update"}
    <3>1. task'[j] = task[j]  BY <2>2 DEF WorkerDies
    <3> QED BY <3>1 DEF IInv, TypeOK, TaskInv, TaskFits
  <2> QED BY <2>1, <2>2
<1>3. task' \in [Check -> TaskState]  BY <1>2 DEF WorkerDies
<1>4. TaskInv'  BY <1>1, <1>2 DEF TaskInv, TaskFits
<1>5. CASE refresh.pc = "delay"
  <2>1. refresh' \in RefreshState /\ refresh'.pc = "killed"
    BY <1>5 DEF WorkerDies, IInv, TypeOK, RefreshState
  <2>2. RefreshInv'  BY <2>1 DEF RefreshInv
  <2> QED BY <1>1, <1>3, <1>4, <2>1, <2>2, OnTasksOnly
<1>6. CASE refresh.pc # "delay"
  <2>1. refresh' = refresh  BY <1>6 DEF WorkerDies
  <2>2. RefreshInv'  BY <1>2, <2>1, RefreshKept DEF IInv
  <2>3. refresh' \in RefreshState  BY <2>1 DEF IInv, TypeOK
  <2> QED BY <1>1, <1>3, <1>4, <2>2, <2>3, OnTasksOnly
<1> QED BY <1>5, <1>6

-----------------------------------------------------------------------------
(* The invariant, and what follows from it                                 *)

LEMMA InvInit == Init => IInv
<1> SUFFICES ASSUME Init PROVE IInv  OBVIOUS
<1>1. TypeOK /\ RequestInv /\ TaskInv /\ RefreshInv  BY TypeInit
<1>2. Rows = {}  BY DEF Init, Rows
<1>3. TableInv  BY <1>1, <1>2 DEF TableInv, TypeOK, EditsOutliveChecks, StatusIsKnown
<1> QED BY <1>1, <1>3 DEF IInv

LEMMA InvStep == IInv /\ [Next]_vars => IInv'
<1> SUFFICES ASSUME IInv, [Next]_vars PROVE IInv'  OBVIOUS
<1>1. CASE UNCHANGED vars
  <2>1. TypeOK' /\ RequestInv' /\ TaskInv' /\ RefreshInv'  BY <1>1, StutterStep DEF IInv
  <2>2. TableInv'  BY <1>1, TableKept DEF vars, IInv, TableInv
  <2> QED BY <2>1, <2>2 DEF IInv
<1>2. ASSUME NEW r \in Request, DeviceRequest(r) PROVE IInv'
  BY <1>2, ChangeStep, CreateStep, PatchReadStep, DeleteStep, PatchSaveStep,
     check_reachabilityStep DEF DeviceRequest
<1>3. ASSUME NEW r \in Request, ProfileRequest(r) PROVE IInv'
  BY <1>3, AdministerStep, RoleReadStep, RoleSaveStep, DeleteProfileStep DEF ProfileRequest
<1>4. CASE AdminSite  BY <1>4, AdminSiteStep
<1>5. ASSUME NEW d \in Device, NEW text \in Text, Discover(d, text) PROVE IInv'
  BY <1>5, DiscoverStep
<1>6. ASSUME NEW k \in Check, CheckStep(k) PROVE IInv'
  BY <1>6, GetDeviceStep, PingStep, PingRaisesStep, UpdateStatusStep DEF CheckStep
<1>7. CASE RefreshStep
  BY <1>7, RefreshListsStep, RefreshDelaysStep, RefreshReturnsStep DEF RefreshStep
<1>8. CASE WorkerDies  BY <1>8, WorkerDiesStep
<1> QED BY <1>1, <1>2, <1>3, <1>4, <1>5, <1>6, <1>7, <1>8 DEF Next

LEMMA InvAlways == Spec => []IInv
BY InvInit, InvStep, PTL DEF Spec

\* Every variable keeps its type, however requests, checks and crashes interleave.
THEOREM TypeCorrect == Spec => []TypeOK
<1>1. IInv => TypeOK  BY DEF IInv
<1> QED BY <1>1, InvAlways, PTL

\* A check that pinged for seconds gives the row a status and takes back no edit
\* stored meanwhile: check_device_reachability updates one column.
THEOREM ChecksKeepEdits == Spec => []EditsOutliveChecks
<1>1. IInv => EditsOutliveChecks  BY DEF IInv, TableInv
<1> QED BY <1>1, InvAlways, PTL

\* No device shows what a check of another device found, and none a status nobody
\* entered or found.  A check is of the device whose key it was given: it pings
\* the address that device had when the check fetched it.
THEOREM StatusKnown == Spec => []StatusIsKnown
<1>1. IInv => StatusIsKnown  BY DEF IInv, TableInv
<1> QED BY <1>1, InvAlways, PTL

\* refresh_all_device_status returns only when every device it listed has a check.
THEOREM RefreshReaches == Spec => []RefreshChecksAll
<1>1. IInv => RefreshChecksAll  BY DEF IInv, RefreshInv, RefreshChecksAll
<1> QED BY <1>1, InvAlways, PTL

-----------------------------------------------------------------------------
(* Who saves, who gives, who revives                                       *)

LEMMA PutsOne ==
  ASSUME TypeOK, NEW d \in Device, NEW row, NEW by, Puts(d, row, by), NEW e \in Device
  PROVE  /\ e # d => saved'[e] = saved[e] /\ device'[e] = device[e]
         /\ e = d => saved'[e].by = by
BY DEF TypeOK, Puts

LEMMA RequestsAreEntitled ==
  ASSUME IInv, NEW r \in Request, request[r].pc \in {"permitted", "save"}
  PROVE  /\ request[r].on \in Device =>
              Entitled(request[r].user, {"admin", "network_engineer"})
         /\ request[r].on \in User => Entitled(request[r].user, {"admin"})
BY UrlAssumption DEF IInv, RequestInv, Needed

\* The history of the table moves with a save only.
LEMMA WhoSaves ==
  ASSUME IInv, Next, NEW d \in Device, saved'[d] # saved[d]
  PROVE  saved'[d].by = "discovery" \/ Entitled(saved'[d].by, {"admin", "network_engineer"})
<1> DEFINE Goal == saved'[d].by = "discovery"
                     \/ Entitled(saved'[d].by, {"admin", "network_engineer"})
<1>1. ASSUME NEW r \in Request, NEW e \in Device, NEW row, Puts(e, row, request[r].user),
             request[r].on = e, request[r].pc \in {"permitted", "save"}
      PROVE  Goal
  <2>1. e = d /\ saved'[d].by = request[r].user  BY <1>1, PutsOne DEF IInv
  <2> QED BY <1>1, <2>1, RequestsAreEntitled
<1>2. ASSUME NEW r \in Request, NEW e \in Device, NEW row \in DeviceRow, Create(r, e, row)
      PROVE  Goal
  BY <1>1, <1>2 DEF Create, Handles
<1>3. ASSUME NEW r \in Request, NEW e \in Device, PatchSave(r, e) PROVE Goal
  BY <1>1, <1>3 DEF PatchSave
<1>4. ASSUME NEW e \in Device, NEW text \in Text, Discover(e, text) PROVE Goal
  <2>1. Puts(e, [status |-> "online", text |-> text], "discovery")  BY <1>4 DEF Discover
  <2> QED BY <2>1, PutsOne DEF IInv
<1> HIDE DEF Goal
<1>5. saved' # saved  OBVIOUS
<1>6. ASSUME NEW r \in Request, DeviceRequest(r) PROVE Goal
  <2>1. \A e \in Device, u \in User : ~Change(r, u, e)  BY <1>5 DEF Change, Permit
  <2>2. \A e \in Device, row \in DeviceRow : ~PatchRead(r, e, row)  BY <1>5 DEF PatchRead
  <2>3. \A e \in Device : ~Delete(r, e)  BY <1>5 DEF Delete
  <2>4. \A e \in Device, k \in Check : ~check_reachability(r, e, k)
    BY <1>5 DEF check_reachability
  <2> QED BY <1>2, <1>3, <1>6, <2>1, <2>2, <2>3, <2>4 DEF DeviceRequest
<1>7. ~\E r \in Request : ProfileRequest(r)
  BY <1>5 DEF ProfileRequest, Administer, Permit, RoleRead, RoleSave, DeleteProfile
<1>8. ~AdminSite /\ ~RefreshStep /\ ~WorkerDies /\ ~\E k \in Check : CheckStep(k)
  BY <1>5 DEF AdminSite, inventoryVars, RefreshStep, RefreshLists, RefreshDelays,
     RefreshReturns, WorkerDies, CheckStep, GetDevice, Ping, PingRaises, UpdateStatus
<1>9. Goal  BY <1>4, <1>6, <1>7, <1>8 DEF Next
<1> QED BY <1>9 DEF Goal

\* The history of the roles moves with a gift only.
LEMMA WhoGives ==
  ASSUME IInv, Next, NEW u \in User, granted'[u] # granted[u]
  PROVE  Entitled(granted'[u], {"admin"})
<1>1. ASSUME NEW by \in User, NEW v \in User, NEW role, Gives(by, v, role),
             Entitled(by, {"admin"})
      PROVE  Entitled(granted'[u], {"admin"})
  <2>1. granted' = [granted EXCEPT ![v] = by]  BY <1>1 DEF Gives
  <2>2. granted'[u] = by  BY <2>1 DEF IInv, TypeOK, AccessTypeOK
  <2> QED BY <1>1, <2>2
<1>2. ASSUME NEW r \in Request, NEW v \in User, RoleSave(r, v)
      PROVE  Entitled(granted'[u], {"admin"})
  <2>1. request[r].user \in User /\ Entitled(request[r].user, {"admin"})
    BY <1>2, RequestsAreEntitled DEF RoleSave, IInv, RequestInv
  <2> QED BY <1>1, <1>2, <2>1 DEF RoleSave
<1>3. CASE AdminSite
  <2>1. PICK by \in User, v \in User, role \in Role : AddProfile(by, v, role)
    BY <1>3 DEF AdminSite
  <2> QED BY <1>1, <2>1 DEF AddProfile, Entitled
<1>4. granted' # granted  OBVIOUS
<1>5. ASSUME NEW r \in Request, ProfileRequest(r) PROVE \E v \in User : RoleSave(r, v)
  BY <1>4, <1>5 DEF ProfileRequest, Administer, Permit, RoleRead, DeleteProfile, accessVars
<1>6. ASSUME NEW r \in Request, DeviceRequest(r) PROVE FALSE
  <2>1. \A d \in Device, v \in User : ~Change(r, v, d)  BY <1>4 DEF Change, Permit, accessVars
  <2>2. \A d \in Device, row \in DeviceRow : ~Create(r, d, row)  BY <1>4 DEF Create, accessVars
  <2>3. \A d \in Device, row \in DeviceRow : ~PatchRead(r, d, row)
    BY <1>4 DEF PatchRead, accessVars
  <2>4. \A d \in Device : ~Delete(r, d)  BY <1>4 DEF Delete, accessVars
  <2>5. \A d \in Device : ~PatchSave(r, d)  BY <1>4 DEF PatchSave, accessVars
  <2>6. \A d \in Device, k \in Check : ~check_reachability(r, d, k)
    BY <1>4 DEF check_reachability, accessVars
  <2> QED BY <1>6, <2>1, <2>2, <2>3, <2>4, <2>5, <2>6 DEF DeviceRequest
<1>7. ~RefreshStep /\ ~WorkerDies /\ ~\E k \in Check : CheckStep(k)
  BY <1>4 DEF accessVars, RefreshStep, RefreshLists, RefreshDelays,
     RefreshReturns, WorkerDies, CheckStep, GetDevice, Ping, PingRaises, UpdateStatus
<1>8. ~\E d \in Device, text \in Text : Discover(d, text)  BY <1>4 DEF Discover, accessVars
<1> QED BY <1>2, <1>3, <1>5, <1>6, <1>7, <1>8 DEF Next

LEMMA WhoRevives ==
  ASSUME IInv, Next, NEW d \in born, device[d] = None, device'[d] # None
  PROVE  \E r \in Request : request[r].pc = "save" /\ request[r].on = d
<1>1. d \in Device /\ device' # device /\ d \notin Rows  BY DEF IInv, TypeOK, Rows
<1>2. ASSUME NEW e \in Device, NEW row, NEW by, Puts(e, row, by) PROVE e = d
  BY <1>1, <1>2, PutsOne DEF IInv
<1>3. ASSUME NEW r \in Request, DeviceRequest(r) PROVE \E e \in Device : PatchSave(r, e)
  <2>1. ~\E e \in Device, row \in DeviceRow : Create(r, e, row)  BY <1>2 DEF Create
  <2>2. ~\E e \in Device : Delete(r, e)  BY <1>1 DEF Delete, IInv, TypeOK
  <2>3. \A e \in Device, u \in User : ~Change(r, u, e)  BY <1>1 DEF Change, Permit
  <2>4. \A e \in Device, row \in DeviceRow : ~PatchRead(r, e, row)  BY <1>1 DEF PatchRead
  <2>5. \A e \in Device, k \in Check : ~check_reachability(r, e, k)
    BY <1>1 DEF check_reachability
  <2> QED BY <1>3, <2>1, <2>2, <2>3, <2>4, <2>5 DEF DeviceRequest
<1>4. ~\E e \in Device, text \in Text : Discover(e, text)  BY <1>2 DEF Discover
<1>5. ~\E k \in Check : CheckStep(k)
  <2>1. ~\E k \in Check : UpdateStatus(k)  BY <1>1 DEF UpdateStatus
  <2> QED BY <1>1, <2>1 DEF CheckStep, GetDevice, Ping, PingRaises
<1>6. ~\E r \in Request : ProfileRequest(r)
  BY <1>1 DEF ProfileRequest, Administer, Permit, RoleRead, RoleSave, DeleteProfile
<1>7. ~AdminSite /\ ~RefreshStep /\ ~WorkerDies
  BY <1>1 DEF AdminSite, inventoryVars, RefreshStep, RefreshLists, RefreshDelays,
     RefreshReturns, WorkerDies
<1>8. PICK r \in Request, e \in Device : PatchSave(r, e)
  BY <1>3, <1>4, <1>5, <1>6, <1>7 DEF Next
<1> QED BY <1>2, <1>8 DEF PatchSave

\* Whoever saves a device or gives a role was entitled to when the request came in:
\* no chain of requests raises a user above the role an admin gave.
THEOREM EntitledWrites == Spec => OnlyTheEntitledWrite
<1>1. IInv /\ [Next]_vars =>
        [/\ \A d \in Device : saved'[d] # saved[d] =>
               saved'[d].by = "discovery"
                 \/ Entitled(saved'[d].by, {"admin", "network_engineer"})
         /\ \A u \in User : granted'[u] # granted[u] => Entitled(granted'[u], {"admin"})]_vars
  BY WhoSaves, WhoGives
<1> QED BY <1>1, InvAlways, PTL DEF Spec, OnlyTheEntitledWrite

\* Of all that writes rows, only the save of a PATCH brings a deleted device back.
THEOREM PatchRevives == Spec => OnlyPatchRevives
<1>1. IInv /\ [Next]_vars =>
        [\A d \in born : device[d] = None /\ device'[d] # None =>
           \E r \in Request : request[r].pc = "save" /\ request[r].on = d]_vars
  BY WhoRevives
<1> QED BY <1>1, InvAlways, PTL DEF Spec, OnlyPatchRevives
=============================================================================
