------------------------------- MODULE Alerts -------------------------------
(***************************************************************************)
(* Alert ingestion: AlertManager posts the state of a group of alerts to   *)
(* alertmanager_webhook until it is answered 200, gunicorn's workers store *)
(* each alert with update_or_create, and operators acknowledge or PATCH    *)
(* the rows.  fingerprint is indexed but not unique; update_or_create      *)
(* locks a row it finds and cannot lock one it does not.                   *)
(*                                                                         *)
(* A version stands for the status and the times of an alert: AlertManager *)
(* sees it fire (odd) and resolve (even) in turn.                          *)
(***************************************************************************)
EXTENDS Integers, Sequences, FiniteSets

CONSTANTS
  Group,       \* the fingerprints of a notification group, in payload order
  Request,     \* webhook requests under way at once: one per gunicorn worker
  Patcher,     \* PATCH requests to an alert, each sent once
  Unstorable,  \* alerts with a value no column takes (generatorURL over 200)
  Overlap,     \* may AlertManager time out while its request waits or runs?
  None,
  MaxVersion,  \* bound: versions of an alert
  MaxRows,     \* bound: primary keys of Alert rows
  MaxDeaths    \* bound: requests gunicorn kills, or that lose their device

Alert   == {Group[i] : i \in DOMAIN Group}
Version == 0 .. MaxVersion

ASSUME GroupAssumption == /\ Group \in Seq(Alert)
                          /\ \A i, k \in DOMAIN Group : Group[i] = Group[k] => i = k
ASSUME SetAssumption   == /\ Unstorable \subseteq Alert /\ Overlap \in BOOLEAN
                          /\ IsFiniteSet(Request) /\ IsFiniteSet(Patcher)
ASSUME NoneAssumption  == None \notin Request \cup Alert
ASSUME BoundAssumption == MaxVersion \in Nat /\ MaxRows \in Nat /\ MaxDeaths \in Nat

VARIABLES
  version,    \* AlertManager: the state of each alert, 0 before it fires
  delivered,  \* AlertManager: the version of each alert last answered 200
  awaited,    \* AlertManager: the request whose answer it waits for
  rows,       \* the Alert rows in the order of their primary keys
  request,    \* each webhook request: where it is and what is left of it
  patch,      \* each PATCH: the row it read and is to save
  moved,      \* history: the PATCHes that gave a row a fingerprint it did not have
  deaths      \* requests that ended so, so far

vars == <<version, delivered, awaited, rows, request, patch, moved, deaths>>

\* None as a fingerprint is one of no alert of the group.
Row == [alert : Alert \cup {None}, seen : Version, ack : BOOLEAN]
RequestState == [pc : {"idle", "get", "create", "ok", "error", "lost"},
                 batch : [Alert -> Version], todo : SUBSET DOMAIN Group]
PatchState == [pk : Nat, copy : Row \cup {None}]

TypeOK ==
  /\ version \in [Alert -> Version]
  /\ delivered \in [Alert -> Version]
  /\ awaited \in Request \cup {None}
  /\ rows \in Seq(Row)
  /\ request \in [Request -> RequestState]
  /\ patch \in [Patcher -> PatchState]
  /\ moved \subseteq Patcher \X (Alert \cup {None})
  /\ deaths \in 0 .. MaxDeaths

Unread == [a \in Alert |-> 0]
IdleRequest == [pc |-> "idle", batch |-> Unread, todo |-> {}]
IdlePatch   == [pk |-> 0, copy |-> None]

Init ==
  /\ version = Unread
  /\ delivered = Unread
  /\ awaited = None
  /\ rows = << >>
  /\ request = [r \in Request |-> IdleRequest]
  /\ patch = [p \in Patcher |-> IdlePatch]
  /\ moved = {}
  /\ deaths = 0

RowsOf(a) == {k \in DOMAIN rows : rows[k].alert = a}

-----------------------------------------------------------------------------
(* AlertManager                                                            *)

Change(a) ==
  /\ version[a] < MaxVersion
  /\ version' = [version EXCEPT ![a] = @ + 1]
  /\ UNCHANGED <<delivered, awaited, rows, request, patch, moved, deaths>>

Firing(a) == version[a] % 2 = 1

\* A firing alert is repeated (repeat_interval); that it resolved is sent until
\* it is answered for (send_resolved), if the alert was ever delivered.
Due(a) == Firing(a) \/ (delivered[a] > 0 /\ delivered[a] # version[a])

\* One notification at a time for a group.
Send(r) ==
  LET due   == {i \in DOMAIN Group : Due(Group[i])}
      batch == [a \in Alert |-> IF Due(a) THEN version[a] ELSE delivered[a]]
  IN
  /\ awaited = None
  /\ request[r].pc = "idle"
  /\ due # {}
  /\ request' = [request EXCEPT ![r] = [pc |-> "get", batch |-> batch, todo |-> due]]
  /\ awaited' = r
  /\ UNCHANGED <<version, delivered, rows, patch, moved, deaths>>

\* Its own time-out; the request may still wait for a worker, or be in one.
GiveUp ==
  /\ Overlap
  /\ awaited # None
  /\ awaited' = None
  /\ UNCHANGED <<version, delivered, rows, request, patch, moved, deaths>>

\* 200 is an answer; a 5xx or a closed connection is sent again.
Answer(r) ==
  /\ request[r].pc \in {"ok", "error", "lost"}
  /\ request' = [request EXCEPT ![r] = IdleRequest]
  /\ awaited' = IF awaited = r THEN None ELSE awaited
  /\ delivered' = IF awaited = r /\ request[r].pc = "ok" THEN request[r].batch ELSE delivered
  /\ UNCHANGED <<version, rows, patch, moved, deaths>>

-----------------------------------------------------------------------------
(* alertmanager_webhook                                                    *)

\* The payload holds the alerts of the group that are due, in its order: todo is
\* the places of those the loop has not come to.
First(places) == CHOOSE i \in places : \A k \in places : i <= k
Current(r) == Group[First(request[r].todo)]

Stays(r, pc) == request' = [request EXCEPT ![r].pc = pc]
NextAlert(r) ==
  request' = [request EXCEPT ![r].pc = "get", ![r].todo = @ \ {First(request[r].todo)}]

\* Mutant: the lookup asks for status="firing" as well.
MissUnlessFiring(r) ==
  /\ request[r].pc = "get"
  /\ request[r].todo # {}
  /\ \A k \in RowsOf(Current(r)) : rows[k].seen % 2 = 0
  /\ Stays(r, "create")
  /\ UNCHANGED <<version, delivered, awaited, rows, patch, moved, deaths>>

\* Mutant: the payload is stored as a whole or not at all.
MissAllOrNothing(r) ==
  /\ request[r].pc = "get"
  /\ request[r].todo # {}
  /\ RowsOf(Current(r)) = {}
  /\ Stays(r, IF \E i \in request[r].todo : Group[i] \in Unstorable
               THEN "error" ELSE "create")
  /\ UNCHANGED <<version, delivered, awaited, rows, patch, moved, deaths>>

\* update_or_create does not find the fingerprint.
Miss(r) ==
  /\ request[r].pc = "get"
  /\ request[r].todo # {}
  /\ RowsOf(Current(r)) = {}
  /\ Stays(r, "create")
  /\ UNCHANGED <<version, delivered, awaited, rows, patch, moved, deaths>>

\* Mutant: objects.create for every alert.
UpdateByCreate(r) ==
  /\ request[r].pc = "get"
  /\ request[r].todo # {}
  /\ Len(rows) < MaxRows
  /\ RowsOf(Current(r)) # {}
  /\ rows' = Append(rows, [alert |-> Current(r), seen |-> request[r].batch[Current(r)],
                           ack |-> FALSE])
  /\ NextAlert(r)
  /\ UNCHANGED <<version, delivered, awaited, patch, moved, deaths>>

\* Mutant: get_or_create.
UpdateNothing(r) ==
  /\ request[r].pc = "get"
  /\ request[r].todo # {}
  /\ RowsOf(Current(r)) # {}
  /\ NextAlert(r)
  /\ UNCHANGED <<version, delivered, awaited, rows, patch, moved, deaths>>

\* Mutant: defaults also holds "acknowledged": False.
UpdateResetsAck(r) ==
  /\ request[r].pc = "get"
  /\ request[r].todo # {}
  /\ \E k \in DOMAIN rows :
       /\ RowsOf(Current(r)) = {k}
       /\ rows' = [rows EXCEPT ![k].seen = request[r].batch[Current(r)], ![k].ack = FALSE]
  /\ NextAlert(r)
  /\ UNCHANGED <<version, delivered, awaited, patch, moved, deaths>>

\* Mutant: data["status"], the status of the payload, for that of the alert.
UpdateGroupStatus(r) ==
  /\ request[r].pc = "get"
  /\ request[r].todo # {}
  /\ Current(r) \notin Unstorable
  /\ \E k \in DOMAIN rows :
       /\ RowsOf(Current(r)) = {k}
       /\ rows' = [rows EXCEPT ![k].seen = request[r].batch[Group[1]]]
  /\ NextAlert(r)
  /\ UNCHANGED <<version, delivered, awaited, patch, moved, deaths>>

\* It finds one row, under a lock until it is saved with the fields in defaults.
Update(r) ==
  /\ request[r].pc = "get"
  /\ request[r].todo # {}
  /\ Current(r) \notin Unstorable
  /\ \E k \in DOMAIN rows :
       /\ RowsOf(Current(r)) = {k}
       /\ rows' = [rows EXCEPT ![k].seen = request[r].batch[Current(r)]]
  /\ NextAlert(r)
  /\ UNCHANGED <<version, delivered, awaited, patch, moved, deaths>>

\* MultipleObjectsReturned: answered 500, with the alerts before it stored.
FindTwo(r) ==
  /\ request[r].pc = "get"
  /\ request[r].todo # {}
  /\ \E k, l \in RowsOf(Current(r)) : k # l
  /\ Stays(r, "error")
  /\ UNCHANGED <<version, delivered, awaited, rows, patch, moved, deaths>>

Create(r) ==
  /\ request[r].pc = "create"
  /\ Current(r) \notin Unstorable
  /\ Len(rows) < MaxRows
  /\ rows' = Append(rows, [alert |-> Current(r), seen |-> request[r].batch[Current(r)],
                           ack |-> FALSE])
  /\ NextAlert(r)
  /\ UNCHANGED <<version, delivered, awaited, patch, moved, deaths>>

\* DataError from PostgreSQL: answered 500, with the alerts before it stored.
Reject(r) ==
  /\ request[r].pc = "create"
  /\ Current(r) \in Unstorable
  /\ Stays(r, "error")
  /\ UNCHANGED <<version, delivered, awaited, rows, patch, moved, deaths>>

Reply(r) ==
  /\ request[r].pc = "get"
  /\ request[r].todo = {}
  /\ Stays(r, "ok")
  /\ UNCHANGED <<version, delivered, awaited, rows, patch, moved, deaths>>

\* gunicorn kills a worker that takes 120 s; committed alerts stay.
Die(r) ==
  /\ request[r].pc \in {"get", "create"}
  /\ deaths < MaxDeaths
  /\ deaths' = deaths + 1
  /\ Stays(r, "lost")
  /\ UNCHANGED <<version, delivered, awaited, rows, patch, moved>>

\* The device the alert was matched with is deleted before the row that names
\* it is committed: IntegrityError, answered 500, and the row stays as it was.
LoseDevice(r) ==
  /\ request[r].pc \in {"get", "create"}
  /\ request[r].todo # {}
  /\ deaths < MaxDeaths
  /\ deaths' = deaths + 1
  /\ Stays(r, "error")
  /\ UNCHANGED <<version, delivered, awaited, rows, patch, moved>>

-----------------------------------------------------------------------------
(* AlertViewSet                                                            *)

\* Mutant: the time is stored where the flag should be.
AcknowledgeNone(k) ==
  /\ rows' = [rows EXCEPT ![k].ack = None]
  /\ UNCHANGED <<version, delivered, awaited, request, patch, moved, deaths>>

\* save(update_fields=["acknowledged", "acknowledged_at"])
Acknowledge(k) ==
  /\ rows' = [rows EXCEPT ![k].ack = TRUE]
  /\ UNCHANGED <<version, delivered, awaited, request, patch, moved, deaths>>

Column == {"alert", "seen", "ack"}

\* partial_update reads the object and sets the fields its body names on it:
\* AlertSerializer makes none of the columns read-only ...
PatchRead(p, k) ==
  /\ patch[p] = IdlePatch
  /\ \E named \in SUBSET Column, copy \in Row :
       /\ \A column \in Column \ named : copy[column] = rows[k][column]
       /\ patch' = [patch EXCEPT ![p] = [pk |-> k, copy |-> copy]]
  /\ UNCHANGED <<version, delivered, awaited, rows, request, moved, deaths>>

\* ... and saves all columns of the object, over what was stored since.
PatchSave(p) ==
  LET pk == patch[p].pk  copy == patch[p].copy IN
  /\ copy # None
  /\ rows' = [rows EXCEPT ![pk] = copy]
  /\ moved' = IF copy.alert = rows[pk].alert THEN moved ELSE moved \cup {<<p, copy.alert>>}
  /\ patch' = [patch EXCEPT ![p] = [pk |-> pk, copy |-> None]]
  /\ UNCHANGED <<version, delivered, awaited, request, deaths>>

-----------------------------------------------------------------------------
\* The loop over a payload the serializer accepts: AlertManager posts no other.
Webhook(r) ==
  \/ Miss(r) \/ Update(r) \/ FindTwo(r)
  \/ Create(r) \/ Reject(r)
  \/ Reply(r)

Next ==
  \/ \E a \in Alert : Change(a)
  \/ \E r \in Request : Send(r) \/ Answer(r) \/ Webhook(r) \/ Die(r) \/ LoseDevice(r)
  \/ GiveUp
  \/ \E k \in DOMAIN rows : Acknowledge(k)
  \/ \E p \in Patcher, k \in DOMAIN rows : PatchRead(p, k)
  \/ \E p \in Patcher : PatchSave(p)

Spec == Init /\ [][Next]_vars

\* AlertManager keeps sending what is due, and a worker that is not killed
\* keeps working; alerts and operators need not do anything.
FairSpec ==
  /\ Spec
  /\ WF_vars(\E r \in Request : Send(r))
  /\ \A r \in Request : WF_vars(Webhook(r)) /\ WF_vars(Answer(r))

-----------------------------------------------------------------------------
(* Properties                                                              *)

\* However requests overlap, an alert has no more rows than there are workers,
\* but for those that PATCHes gave its fingerprint: once one has created it,
\* nobody who comes later does (update_or_create).
Movers(a) == {p \in Patcher : <<p, a>> \in moved}
RowsBounded ==
  \A a \in Alert : Cardinality(RowsOf(a)) <= Cardinality(Request) + Cardinality(Movers(a))

\* An answer of 200 means that every alert of the payload is in the table as
\* AlertManager saw it, or as it has seen it since.
AnsweredIsShown ==
  \A a \in Alert : delivered[a] > 0 => \E k \in RowsOf(a) : rows[k].seen >= delivered[a]

\* Whatever AlertManager sends of an acknowledged alert, in however many workers
\* at once, its row stays acknowledged: only the save of a PATCH takes that back,
\* one that names the column or that read the row before (views.py:29-31).
OnlyPatchUnacks ==
  [][\A k \in DOMAIN rows : rows[k].ack /\ rows'[k].ack # TRUE =>
       \E p \in Patcher : patch[p].pk = k /\ patch[p].copy # None /\ ~ patch[p].copy.ack]_vars

\* The alerts of a payload are stored one by one: one that cannot be stored
\* keeps back those behind it, and none of those before it.
Clear(a) == \A i, k \in DOMAIN Group : Group[k] = a /\ i <= k => Group[i] \notin Unstorable

\* What AlertManager sees of such an alert is shown in the end: it changes
\* finitely often, and requests that failed or were killed are repeated.
Shown(a) == RowsOf(a) # {} /\ \A k \in RowsOf(a) : rows[k].seen = version[a]
ShownInTheEnd ==
  \A a \in Alert : []<>(Clear(a) /\ (Firing(a) \/ delivered[a] > 0) => Shown(a))

\* README.md of the app, line 53: alerts are upserted by fingerprint instead of
\* creating duplicates.  It holds while requests do not overlap and no PATCH
\* changes a fingerprint.
OneRowPerAlert == \A a \in Alert : Cardinality(RowsOf(a)) <= 1

-----------------------------------------------------------------------------
(* What the table promises (AlertBoard) while AlertManager waits for its   *)
(* answers and nobody PATCHes.                                             *)

\* What the row of an alert shows of it.
ShownOf(a) ==
  IF RowsOf(a) = {} THEN 0 ELSE rows[CHOOSE k \in RowsOf(a) : TRUE].seen

Board == INSTANCE AlertBoard WITH
  now   <- version,
  shown <- [a \in Alert |-> ShownOf(a)],
  acked <- {a \in Alert : \E k \in RowsOf(a) : rows[k].ack}

\* Retries, deaths of workers and alerts no column takes never make the table
\* show a state an alert did not have, or an earlier one than before, and never
\* take an acknowledgement back.
TableIsBoard == Board!Spec
=============================================================================
