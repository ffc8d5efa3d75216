----------------------------- MODULE AlertsProofs -----------------------------
(***************************************************************************)
(* Theorems about Alerts, for every group, every set of PATCH requests and *)
(* every number of workers, versions, rows and deaths.                     *)
(***************************************************************************)
EXTENDS Alerts, FiniteSetTheorems, TLAPS

-----------------------------------------------------------------------------
(* The payload                                                             *)

LEMMA GroupTyped ==
  /\ Group \in Seq(Alert) /\ DOMAIN Group \subseteq Nat
  /\ \A i \in DOMAIN Group : Group[i] \in Alert
  /\ \A a \in Alert : \E i \in DOMAIN Group : Group[i] = a
BY GroupAssumption DEF Alert

\* A payload that is not used up has a first alert.
LEMMA FirstIsLeft ==
  ASSUME NEW places \in SUBSET DOMAIN Group, places # {}
  PROVE  First(places) \in places /\ Group[First(places)] \in Alert
<1>1. places \subseteq Nat
  BY GroupTyped
<1>2. PICK i \in places : \A k \in places : ~ (<<k, i>> \in OpToRel(<, Nat))
  BY <1>1, NatLessThanWellFounded, WFMin
<1>3. ASSUME NEW k \in places PROVE i <= k
  <2>1. <<k, i>> \in Nat \X Nat /\ <<k, i>>[1] = k /\ <<k, i>>[2] = i
    BY <1>1
  <2>2. ~ (k < i)
    BY <1>2, <2>1 DEF OpToRel
  <2> QED BY <1>1, <2>2
<1>4. First(places) \in places
  BY <1>3 DEF First
<1> QED BY <1>4, GroupTyped

-----------------------------------------------------------------------------
(* What the steps of a request make of it                                  *)

Becomes(r, pc, batch, todo) ==
  request' = [request EXCEPT ![r] = [pc |-> pc, batch |-> batch, todo |-> todo]]

LEMMA AfterStays ==
  ASSUME request \in [Request -> RequestState], NEW r \in Request, NEW pc, Stays(r, pc)
  PROVE  Becomes(r, pc, request[r].batch, request[r].todo)
<1>1. [request[r] EXCEPT !.pc = pc] =
        [pc |-> pc, batch |-> request[r].batch, todo |-> request[r].todo]
  BY DEF RequestState
<1> QED BY <1>1 DEF Stays, Becomes

LEMMA AfterNextAlert ==
  ASSUME request \in [Request -> RequestState], NEW r \in Request, NextAlert(r)
  PROVE  Becomes(r, "get", request[r].batch, request[r].todo \ {First(request[r].todo)})
<1> DEFINE row == [pc |-> "get", batch |-> request[r].batch,
                   todo |-> request[r].todo \ {First(request[r].todo)}]
<1>1. DOMAIN request' = Request /\ request' = [s \in Request |-> request'[s]]
  BY DEF NextAlert
<1>2. \A s \in Request \ {r} : request'[s] = request[s]
  BY DEF NextAlert
<1>3. request'[r] = row
  BY DEF NextAlert, RequestState
<1> HIDE DEF row
<1>4. request' = [request EXCEPT ![r] = row]
  BY <1>1, <1>2, <1>3
<1> QED BY <1>4 DEF Becomes, row

Pc == {"idle", "get", "create", "ok", "error", "lost"}

LEMMA Became ==
  ASSUME request \in [Request -> RequestState], NEW r \in Request, NEW pc \in Pc,
         NEW batch \in [Alert -> Version], NEW todo \in SUBSET DOMAIN Group,
         Becomes(r, pc, batch, todo)
  PROVE  /\ request' \in [Request -> RequestState]
         /\ request'[r].pc = pc /\ request'[r].batch = batch /\ request'[r].todo = todo
         /\ \A s \in Request \ {r} : request'[s] = request[s]
<1> DEFINE row == [pc |-> pc, batch |-> batch, todo |-> todo]
<1>1. row \in RequestState
  BY DEF RequestState, Pc
<1>2. request' = [request EXCEPT ![r] = row]
  BY DEF Becomes
<1>3. row.pc = pc /\ row.batch = batch /\ row.todo = todo
  OBVIOUS
<1> HIDE DEF row
<1> QED BY <1>1, <1>2, <1>3

-----------------------------------------------------------------------------
(* What the steps make of the table                                        *)

\* A row is written over the one it was read from, by all but a PATCH as a row of
\* the same alert, or a row is inserted.
Written(k, row) ==
  k \in DOMAIN rows /\ row \in Row /\ rows' = [rows EXCEPT ![k] = row]
Saved(k, row) == Written(k, row) /\ row.alert = rows[k].alert
Inserted(row) == row \in Row /\ rows' = Append(rows, row)

LEMMA AfterWrite ==
  ASSUME rows \in Seq(Row), NEW k, NEW row, Written(k, row)
  PROVE  /\ rows' \in Seq(Row) /\ DOMAIN rows' = DOMAIN rows
         /\ rows'[k] = row /\ \A l \in DOMAIN rows \ {k} : rows'[l] = rows[l]
BY DEF Written

LEMMA AfterSave ==
  ASSUME rows \in Seq(Row), NEW k, NEW row, Saved(k, row)
  PROVE  /\ rows' \in Seq(Row) /\ DOMAIN rows' = DOMAIN rows
         /\ rows'[k] = row /\ \A l \in DOMAIN rows \ {k} : rows'[l] = rows[l]
         /\ \A l \in DOMAIN rows : rows'[l].alert = rows[l].alert
         /\ \A a : RowsOf(a)' = RowsOf(a)
<1>1. /\ rows' \in Seq(Row) /\ DOMAIN rows' = DOMAIN rows
      /\ rows'[k] = row /\ \A l \in DOMAIN rows \ {k} : rows'[l] = rows[l]
  BY AfterWrite DEF Saved
<1>2. \A l \in DOMAIN rows : rows'[l].alert = rows[l].alert
  BY <1>1 DEF Saved
<1> QED BY <1>1, <1>2 DEF RowsOf

LEMMA AfterInsert ==
  ASSUME rows \in Seq(Row), NEW row, Inserted(row)
  PROVE  /\ rows' \in Seq(Row) /\ DOMAIN rows' = DOMAIN rows \cup {Len(rows) + 1}
         /\ Len(rows) + 1 \notin DOMAIN rows
         /\ rows'[Len(rows) + 1] = row /\ \A l \in DOMAIN rows : rows'[l] = rows[l]
         /\ RowsOf(row.alert)' = RowsOf(row.alert) \cup {Len(rows) + 1}
         /\ \A a : a # row.alert => RowsOf(a)' = RowsOf(a)
<1>1. /\ rows' \in Seq(Row) /\ DOMAIN rows' = DOMAIN rows \cup {Len(rows) + 1}
      /\ Len(rows) + 1 \notin DOMAIN rows
      /\ rows'[Len(rows) + 1] = row /\ \A l \in DOMAIN rows : rows'[l] = rows[l]
  BY DEF Inserted
<1> QED BY <1>1 DEF RowsOf

-----------------------------------------------------------------------------
(* Type correctness                                                        *)

\* A worker about to insert has an alert to insert, a PATCH that has read a row
\* saves it over a row, and one that has not saved has moved none.
Placed ==
  /\ \A r \in Request : request[r].pc = "create" => request[r].todo # {}
  /\ \A p \in Patcher : patch[p].copy # None => patch[p].pk \in DOMAIN rows
  /\ \A p \in Patcher : patch[p].pk = 0 \/ patch[p].copy # None =>
       \A a : <<p, a>> \notin moved

TypeInv == TypeOK /\ Placed

LEMMA InitTyped == Init => TypeInv
<1> SUFFICES ASSUME Init PROVE TypeInv
  OBVIOUS
<1>1. Unread \in [Alert -> Version] /\ 0 \in 0 .. MaxDeaths
  BY BoundAssumption DEF Unread, Version
<1>2. IdleRequest \in RequestState /\ IdlePatch \in PatchState
  BY <1>1 DEF IdleRequest, IdlePatch, RequestState, PatchState
<1>3. TypeOK
  BY <1>1, <1>2 DEF Init, TypeOK
<1>4. Placed
  BY DEF Init, Placed, IdleRequest, IdlePatch
<1> QED BY <1>3, <1>4 DEF TypeInv

\* The alert a worker is at is one of its group.
LEMMA CurrentIsAlert ==
  ASSUME TypeInv, NEW r \in Request, request[r].todo # {}
  PROVE  /\ First(request[r].todo) \in request[r].todo /\ request[r].todo \in SUBSET DOMAIN Group
         /\ Current(r) \in Alert
         /\ request[r].batch[Current(r)] \in Version
<1>1. request[r].todo \in SUBSET DOMAIN Group /\ request[r].batch \in [Alert -> Version]
  BY DEF TypeInv, TypeOK, RequestState
<1> QED BY <1>1, FirstIsLeft DEF Current

\* Update saves the one row of the current alert, Create inserts one of it,
\* Acknowledge saves a row of the alert it has, PatchSave any row over one.
LEMMA UpdateSaves ==
  ASSUME TypeInv, NEW r \in Request, Update(r)
  PROVE  \E k \in DOMAIN rows :
           /\ RowsOf(Current(r)) = {k}
           /\ Saved(k, [rows[k] EXCEPT !.seen = request[r].batch[Current(r)]])
<1>1. PICK k \in DOMAIN rows :
        /\ RowsOf(Current(r)) = {k}
        /\ rows' = [rows EXCEPT ![k].seen = request[r].batch[Current(r)]]
  BY DEF Update
<1>2. rows \in Seq(Row) /\ rows[k] \in Row /\ request[r].batch[Current(r)] \in Version
  BY CurrentIsAlert DEF TypeInv, TypeOK, Update
<1> DEFINE row == [rows[k] EXCEPT !.seen = request[r].batch[Current(r)]]
<1>3. row \in Row /\ row.alert = rows[k].alert
  BY <1>2 DEF Row
<1>4. rows' = [rows EXCEPT ![k] = row]
  BY <1>1
<1> HIDE DEF row
<1>5. Saved(k, row)
  BY <1>3, <1>4 DEF Saved, Written
<1> QED BY <1>1, <1>5 DEF row

LEMMA CreateInserts ==
  ASSUME TypeInv, NEW r \in Request, Create(r)
  PROVE  Inserted([alert |-> Current(r), seen |-> request[r].batch[Current(r)], ack |-> FALSE])
<1>1. Current(r) \in Alert /\ request[r].batch[Current(r)] \in Version
  BY CurrentIsAlert DEF TypeInv, Placed, Create
<1> QED BY <1>1 DEF Create, Inserted, Row

LEMMA AcknowledgeSaves ==
  ASSUME TypeInv, NEW k \in DOMAIN rows, Acknowledge(k)
  PROVE  Saved(k, [rows[k] EXCEPT !.ack = TRUE])
<1>1. rows[k] \in Row
  BY DEF TypeInv, TypeOK
<1> DEFINE row == [rows[k] EXCEPT !.ack = TRUE]
<1>2. row \in Row /\ row.alert = rows[k].alert /\ rows' = [rows EXCEPT ![k] = row]
  BY <1>1 DEF Acknowledge, Row
<1> QED BY <1>2 DEF Saved, Written

LEMMA PatchWrites ==
  ASSUME TypeInv, NEW p \in Patcher, PatchSave(p)
  PROVE  Written(patch[p].pk, patch[p].copy)
<1>1. patch[p].copy \in Row
  BY DEF TypeInv, TypeOK, PatchState, PatchSave
<1> QED BY <1>1 DEF Written, PatchSave, TypeInv, Placed

\* The table after any step.
LEMMA RowSteps ==
  ASSUME TypeInv, [Next]_vars
  PROVE  \/ \E p \in Patcher : PatchSave(p)
         \/ rows' = rows /\ \A r \in Request : ~Create(r)
         \/ \E r \in Request : Create(r)
         \/ \E k, row : Saved(k, row) /\ \A r \in Request : ~Create(r)
<1>1. ASSUME NEW r \in Request, Update(r) PROVE \E k, row : Saved(k, row)
  BY <1>1, UpdateSaves
<1>2. ASSUME NEW k \in DOMAIN rows, Acknowledge(k) PROVE Saved(k, [rows[k] EXCEPT !.ack = TRUE])
  BY <1>2, AcknowledgeSaves
<1>3. ASSUME NEW r \in Request, \/ Send(r) \/ Answer(r) \/ Die(r) \/ LoseDevice(r) \/ Miss(r)
                                \/ FindTwo(r) \/ Reject(r) \/ Reply(r)
      PROVE  rows' = rows
  BY <1>3 DEF Send, Answer, Die, LoseDevice, Miss, FindTwo, Reject, Reply
<1>4. ASSUME \/ \E a \in Alert : Change(a)
             \/ GiveUp
             \/ \E p \in Patcher, k \in DOMAIN rows : PatchRead(p, k)
             \/ UNCHANGED vars
      PROVE  rows' = rows
  BY <1>4 DEF Change, GiveUp, PatchRead, vars
<1> QED BY <1>1, <1>2, <1>3, <1>4 DEF Next, Webhook

LEMMA RowsGrow ==
  ASSUME TypeInv, [Next]_vars
  PROVE  rows' \in Seq(Row) /\ DOMAIN rows \subseteq DOMAIN rows'
<1>0. rows \in Seq(Row)
  BY DEF TypeInv, TypeOK
<1>1. ASSUME NEW r \in Request, Create(r)
      PROVE  rows' \in Seq(Row) /\ DOMAIN rows \subseteq DOMAIN rows'
  BY <1>0, <1>1, CreateInserts, AfterInsert
<1>2. ASSUME NEW k, NEW row, Saved(k, row)
      PROVE  rows' \in Seq(Row) /\ DOMAIN rows \subseteq DOMAIN rows'
  BY <1>0, <1>2, AfterSave
<1>3. ASSUME NEW p \in Patcher, PatchSave(p)
      PROVE  rows' \in Seq(Row) /\ DOMAIN rows \subseteq DOMAIN rows'
  BY <1>0, <1>3, PatchWrites, AfterWrite
<1> QED BY <1>0, <1>1, <1>2, <1>3, RowSteps

Own(r) == Send(r) \/ Answer(r) \/ Webhook(r) \/ Die(r) \/ LoseDevice(r)

LEMMA RequestSteps ==
  [Next]_vars => (\E r \in Request : Own(r)) \/ (request' = request /\ (awaited' = awaited \/ (Overlap /\ awaited' = None)))
BY DEF Next, vars, Own, Change, GiveUp, Acknowledge, PatchRead, PatchSave

\* The step of a request: from where to where, and what is left of its payload.
Moves(r, from, to, todo) ==
  request[r].pc \in from /\ Becomes(r, to, request[r].batch, todo)

LEMMA OwnMoves ==
  ASSUME TypeInv, NEW r \in Request, Own(r)
  PROVE  \/ Send(r)
         \/ Answer(r) /\ Becomes(r, "idle", Unread, {})
         \/ Miss(r) /\ Moves(r, {"get"}, "create", request[r].todo)
         \/ (Update(r) \/ Create(r)) /\
              Moves(r, {"get", "create"}, "get", request[r].todo \ {First(request[r].todo)})
         \/ (FindTwo(r) \/ Reject(r) \/ LoseDevice(r)) /\ Moves(r, {"get", "create"}, "error", request[r].todo)
         \/ Reply(r) /\ Moves(r, {"get"}, "ok", request[r].todo)
         \/ Die(r) /\ Moves(r, {"get", "create"}, "lost", request[r].todo)
<1>0. request \in [Request -> RequestState]
  BY DEF TypeInv, TypeOK
<1>1. ASSUME Answer(r) PROVE Becomes(r, "idle", Unread, {})
  BY <1>1 DEF Answer, Becomes, IdleRequest
<1>2. ASSUME Miss(r) PROVE Moves(r, {"get"}, "create", request[r].todo)
  BY <1>0, <1>2, AfterStays DEF Miss, Moves
<1>3. ASSUME Update(r) \/ Create(r)
      PROVE  Moves(r, {"get", "create"}, "get", request[r].todo \ {First(request[r].todo)})
  BY <1>0, <1>3, AfterNextAlert DEF Update, Create, Moves
<1>4. ASSUME FindTwo(r) \/ Reject(r) \/ LoseDevice(r) PROVE Moves(r, {"get", "create"}, "error", request[r].todo)
  BY <1>0, <1>4, AfterStays DEF FindTwo, Reject, LoseDevice, Moves
<1>5. ASSUME Reply(r) PROVE Moves(r, {"get"}, "ok", request[r].todo)
  BY <1>0, <1>5, AfterStays DEF Reply, Moves
<1>6. ASSUME Die(r) PROVE Moves(r, {"get", "create"}, "lost", request[r].todo)
  BY <1>0, <1>6, AfterStays DEF Die, Moves
<1> QED BY <1>1, <1>2, <1>3, <1>4, <1>5, <1>6 DEF Own, Webhook

\* The payload of a notification.
DuePlaces == {i \in DOMAIN Group : Due(Group[i])}
Batch == [a \in Alert |-> IF Due(a) THEN version[a] ELSE delivered[a]]

LEMMA SendBecomes ==
  ASSUME NEW r \in Request, Send(r)
  PROVE  Becomes(r, "get", Batch, DuePlaces)
BY DEF Send, Becomes, Batch, DuePlaces

LEMMA RequestsTyped ==
  ASSUME TypeInv, [Next]_vars
  PROVE  /\ request' \in [Request -> RequestState]
         /\ \A r \in Request : request'[r].pc = "create" => request'[r].todo # {}
         /\ awaited' \in Request \cup {None}
<1> DEFINE Goal == /\ request' \in [Request -> RequestState]
                   /\ \A r \in Request : request'[r].pc = "create" => request'[r].todo # {}
                   /\ awaited' \in Request \cup {None}
<1>0. /\ request \in [Request -> RequestState] /\ awaited \in Request \cup {None}
      /\ version \in [Alert -> Version] /\ delivered \in [Alert -> Version]
      /\ \A r \in Request : request[r].pc = "create" => request[r].todo # {}
  BY DEF TypeInv, TypeOK, Placed
<1>1. ASSUME NEW r \in Request, Own(r) PROVE Goal
  <2>0. request[r].batch \in [Alert -> Version] /\ request[r].todo \in SUBSET DOMAIN Group
    BY <1>0 DEF RequestState
  <2>1. awaited' \in Request \cup {None}
    BY <1>0, <1>1 DEF Own, Send, Answer, Webhook, Die, LoseDevice, Miss, Update, FindTwo, Create, Reject, Reply
  <2>2. \E pc \in Pc, batch \in [Alert -> Version], todo \in SUBSET DOMAIN Group :
          Becomes(r, pc, batch, todo) /\ (pc = "create" => todo # {})
    <3>1. CASE Send(r)
      <4>1. Batch \in [Alert -> Version] /\ DuePlaces \in SUBSET DOMAIN Group
        BY <1>0 DEF Batch, DuePlaces
      <4> QED BY <3>1, <4>1, SendBecomes DEF Pc
    <3>2. CASE Answer(r)
      <4>1. Unread \in [Alert -> Version]
        BY BoundAssumption DEF Unread, Version
      <4> QED BY <1>1, <3>2, <4>1 DEF Pc, Answer, Becomes, IdleRequest
    <3>3. ASSUME NEW to \in {"get", "create", "ok", "error", "lost"}, NEW todo \in SUBSET DOMAIN Group,
                 Becomes(r, to, request[r].batch, todo), to = "create" => todo # {}
          PROVE  \E pc \in Pc, batch \in [Alert -> Version], left \in SUBSET DOMAIN Group :
                   Becomes(r, pc, batch, left) /\ (pc = "create" => left # {})
      <4>1. to \in Pc
        BY DEF Pc
      <4> QED BY <2>0, <3>3, <4>1
    <3>4. CASE Miss(r) /\ Becomes(r, "create", request[r].batch, request[r].todo)
      BY <2>0, <3>3, <3>4 DEF Miss
    <3>5. CASE Becomes(r, "get", request[r].batch, request[r].todo \ {First(request[r].todo)})
      <4>1. request[r].todo \ {First(request[r].todo)} \in SUBSET DOMAIN Group
        BY <2>0
      <4> QED BY <3>3, <3>5, <4>1
    <3>6. CASE \E to \in {"ok", "error", "lost"} : Becomes(r, to, request[r].batch, request[r].todo)
      BY <2>0, <3>3, <3>6
    <3>7. \/ Send(r) \/ Answer(r)
          \/ Miss(r) /\ Becomes(r, "create", request[r].batch, request[r].todo)
          \/ Becomes(r, "get", request[r].batch, request[r].todo \ {First(request[r].todo)})
          \/ \E to \in {"ok", "error", "lost"} : Becomes(r, to, request[r].batch, request[r].todo)
      BY <1>1, OwnMoves DEF Moves
    <3> QED BY <3>1, <3>2, <3>4, <3>5, <3>6, <3>7
  <2>3. PICK pc \in Pc, batch \in [Alert -> Version], todo \in SUBSET DOMAIN Group :
          Becomes(r, pc, batch, todo) /\ (pc = "create" => todo # {})
    BY <2>2
  <2>4. /\ request' \in [Request -> RequestState]
        /\ request'[r].pc = pc /\ request'[r].todo = todo
        /\ \A s \in Request \ {r} : request'[s] = request[s]
    BY <1>0, <2>3, Became
  <2> QED BY <1>0, <2>1, <2>3, <2>4
<1>2. ASSUME request' = request, awaited' = awaited \/ awaited' = None PROVE Goal
  BY <1>0, <1>2
<1> QED BY <1>1, <1>2, RequestSteps

LEMMA PatchesTyped ==
  ASSUME TypeInv, [Next]_vars
  PROVE  /\ patch' \in [Patcher -> PatchState] /\ moved' \subseteq Patcher \X (Alert \cup {None})
         /\ \A p \in Patcher : patch'[p].copy # None => patch'[p].pk \in DOMAIN rows'
         /\ \A p \in Patcher : patch'[p].pk = 0 \/ patch'[p].copy # None =>
              \A a : <<p, a>> \notin moved'
<1> DEFINE Typed == /\ patch' \in [Patcher -> PatchState]
                    /\ moved' \subseteq Patcher \X (Alert \cup {None})
           Good(p) == /\ patch'[p].copy # None => patch'[p].pk \in DOMAIN rows'
                      /\ patch'[p].pk = 0 \/ patch'[p].copy # None => \A a : <<p, a>> \notin moved'
<1>0. /\ patch \in [Patcher -> PatchState] /\ rows \in Seq(Row)
      /\ moved \subseteq Patcher \X (Alert \cup {None})
      /\ \A p \in Patcher : patch[p].copy # None => patch[p].pk \in DOMAIN rows
      /\ \A p \in Patcher : patch[p].pk = 0 \/ patch[p].copy # None => \A a : <<p, a>> \notin moved
      /\ DOMAIN rows \subseteq DOMAIN rows'
  BY RowsGrow DEF TypeInv, TypeOK, Placed
<1>1. ASSUME NEW p \in Patcher, patch'[p] = patch[p], \A a : <<p, a>> \in moved' => <<p, a>> \in moved
      PROVE  Good(p)
  BY <1>0, <1>1
<1>2. ASSUME NEW p \in Patcher, NEW k \in DOMAIN rows, PatchRead(p, k)
      PROVE  Typed /\ \A q \in Patcher : Good(q)
  <2>1. PICK copy \in Row : patch' = [patch EXCEPT ![p] = [pk |-> k, copy |-> copy]]
    BY <1>2 DEF PatchRead
  <2> DEFINE new == [pk |-> k, copy |-> copy]
  <2>2. new \in PatchState /\ new.pk = k /\ patch' = [patch EXCEPT ![p] = new]
    BY <1>0, <2>1 DEF PatchState
  <2> HIDE DEF new
  <2>3. /\ patch' \in [Patcher -> PatchState] /\ patch'[p] = new
        /\ \A q \in Patcher \ {p} : patch'[q] = patch[q]
    BY <1>0, <2>2
  <2>4. moved' = moved /\ patch[p].pk = 0
    BY <1>2 DEF PatchRead, IdlePatch
  <2>5. Good(p)
    BY <1>0, <2>2, <2>3, <2>4
  <2> QED BY <1>0, <1>1, <2>3, <2>4, <2>5
<1>3. ASSUME NEW p \in Patcher, PatchSave(p)
      PROVE  Typed /\ \A q \in Patcher : Good(q)
  <2> DEFINE new == [pk |-> patch[p].pk, copy |-> None]
  <2>1. new \in PatchState /\ new.copy = None /\ new.pk = patch[p].pk
    BY <1>0 DEF PatchState
  <2>2. patch' = [patch EXCEPT ![p] = new]
    BY <1>3 DEF PatchSave
  <2> HIDE DEF new
  <2>3. /\ patch' \in [Patcher -> PatchState] /\ patch'[p] = new
        /\ \A q \in Patcher \ {p} : patch'[q] = patch[q]
    BY <1>0, <2>1, <2>2
  <2>4. patch[p].pk # 0
    BY <1>0, <1>3 DEF PatchSave
  <2>5. moved' \in {moved, moved \cup {<<p, patch[p].copy.alert>>}} /\ patch[p].copy \in Row
    BY <1>0, <1>3 DEF PatchSave, PatchState
  <2>6. patch[p].copy.alert \in Alert \cup {None}
    BY <2>5 DEF Row
  <2>7. moved' \subseteq Patcher \X (Alert \cup {None})
    BY <1>0, <2>5, <2>6
  <2>8. Good(p)
    BY <2>1, <2>3, <2>4
  <2>9. \A q \in Patcher \ {p} : \A a : <<q, a>> \in moved' => <<q, a>> \in moved
    BY <2>5
  <2> QED BY <1>1, <2>3, <2>7, <2>8, <2>9
<1>4. ASSUME patch' = patch, moved' = moved
      PROVE  Typed /\ \A q \in Patcher : Good(q)
  BY <1>0, <1>1, <1>4
<1>5. \/ patch' = patch /\ moved' = moved
      \/ \E p \in Patcher, k \in DOMAIN rows : PatchRead(p, k)
      \/ \E p \in Patcher : PatchSave(p)
  <2>1. ASSUME NEW r \in Request, Own(r) PROVE patch' = patch /\ moved' = moved
    BY <2>1 DEF Own, Send, Answer, Webhook, Die, LoseDevice, Miss, Update, FindTwo, Create, Reject, Reply
  <2>2. ASSUME \/ \E a \in Alert : Change(a)
               \/ GiveUp
               \/ \E k \in DOMAIN rows : Acknowledge(k)
               \/ UNCHANGED vars
        PROVE  patch' = patch /\ moved' = moved
    BY <2>2 DEF Change, GiveUp, Acknowledge, vars
  <2> QED BY <2>1, <2>2 DEF Next, Own
<1> HIDE DEF Good, Typed
<1>6. Typed /\ \A q \in Patcher : Good(q)
  BY <1>2, <1>3, <1>4, <1>5
<1> QED BY <1>6 DEF Good, Typed

LEMMA OthersTyped ==
  ASSUME TypeInv, [Next]_vars
  PROVE  /\ version' \in [Alert -> Version] /\ delivered' \in [Alert -> Version]
         /\ deaths' \in 0 .. MaxDeaths
<1> DEFINE Goal == /\ version' \in [Alert -> Version] /\ delivered' \in [Alert -> Version]
                   /\ deaths' \in 0 .. MaxDeaths
<1>0. /\ version \in [Alert -> Version] /\ delivered \in [Alert -> Version]
      /\ deaths \in 0 .. MaxDeaths /\ request \in [Request -> RequestState]
  BY DEF TypeInv, TypeOK
<1>1. ASSUME NEW a \in Alert, Change(a) PROVE Goal
  <2>1. version[a] + 1 \in Version
    BY <1>0, <1>1, BoundAssumption DEF Change, Version
  <2> QED BY <1>0, <1>1, <2>1 DEF Change
<1>2. ASSUME NEW r \in Request, Answer(r) PROVE Goal
  BY <1>0, <1>2 DEF Answer, RequestState
<1>3. ASSUME NEW r \in Request, Die(r) \/ LoseDevice(r) PROVE Goal
  BY <1>0, <1>3, BoundAssumption DEF Die, LoseDevice
<1>4. ASSUME NEW k \in DOMAIN rows, Acknowledge(k) PROVE Goal
  BY <1>0, <1>4 DEF Acknowledge
<1>5. ASSUME NEW r \in Request, Send(r) \/ Webhook(r) PROVE Goal
  BY <1>0, <1>5 DEF Send, Webhook, Miss, Update, FindTwo, Create, Reject, Reply
<1>6. ASSUME \/ GiveUp
             \/ \E p \in Patcher, k \in DOMAIN rows : PatchRead(p, k)
             \/ \E p \in Patcher : PatchSave(p)
             \/ UNCHANGED vars
      PROVE Goal
  BY <1>0, <1>6 DEF GiveUp, PatchRead, PatchSave, vars
<1> HIDE DEF Goal
<1>7. Goal
  BY <1>1, <1>2, <1>3, <1>4, <1>5, <1>6 DEF Next
<1> QED BY <1>7 DEF Goal

LEMMA TypeStep == TypeInv /\ [Next]_vars => TypeInv'
<1> SUFFICES ASSUME TypeInv, [Next]_vars PROVE TypeInv'
  OBVIOUS
<1>1. TypeOK'
  BY RowsGrow, RequestsTyped, PatchesTyped, OthersTyped DEF TypeOK
<1>2. Placed'
  BY RequestsTyped, PatchesTyped DEF Placed
<1> QED BY <1>1, <1>2 DEF TypeInv

LEMMA TypeInvariant == Spec => []TypeInv
<1> QED BY InitTyped, TypeStep, PTL DEF Spec

\* Rows, requests and PATCHes have their types: an acknowledgement is a Boolean
\* whatever was saved over it, and rows keep their primary keys.
THEOREM TypeCorrect == Spec => []TypeOK
<1> QED BY TypeInvariant, PTL DEF TypeInv
-----------------------------------------------------------------------------
(* How many rows an alert has                                              *)

\* The workers that found no row of an alert and have yet to insert theirs.
Creators(a) == {r \in Request : request[r].pc = "create" /\ Current(r) = a}

\* What an alert may have: a row of each worker, and one of each PATCH that moved
\* a row to it.  A worker that has yet to insert its row counts as a row already.
Room(a) == Cardinality(Request) + Cardinality(Movers(a))
RoomLeft == \A a \in Alert : Cardinality(RowsOf(a)) + Cardinality(Creators(a)) <= Room(a)

LEMMA Finite ==
  ASSUME TypeInv
  PROVE  \A a : /\ IsFiniteSet(RowsOf(a)) /\ IsFiniteSet(Creators(a)) /\ IsFiniteSet(Movers(a))
                /\ Cardinality(RowsOf(a)) \in Nat /\ Cardinality(Creators(a)) \in Nat
                /\ Cardinality(Movers(a)) \in Nat
<1> SUFFICES ASSUME NEW a
             PROVE  IsFiniteSet(RowsOf(a)) /\ IsFiniteSet(Creators(a)) /\ IsFiniteSet(Movers(a))
  BY FS_CardinalityType
<1>1. rows \in Seq(Row) /\ DOMAIN rows = 1 .. Len(rows) /\ Len(rows) \in Nat
  BY DEF TypeInv, TypeOK
<1>2. IsFiniteSet(DOMAIN rows)
  BY <1>1, FS_Interval
<1> QED BY <1>2, SetAssumption, FS_Subset DEF RowsOf, Creators, Movers

\* No step of a request but a miss makes it wait to insert.
LEMMA LeavesCreate ==
  ASSUME TypeInv, NEW r \in Request, Own(r), ~Miss(r)
  PROVE  \E pc \in {"idle", "get", "ok", "error", "lost"} :
           \E batch, todo : Becomes(r, pc, batch, todo)
<1>0. request \in [Request -> RequestState]
  BY DEF TypeInv, TypeOK
<1>1. CASE Send(r)
  BY <1>1, SendBecomes
<1>2. CASE Answer(r)
  BY <1>2 DEF Answer, Becomes, IdleRequest
<1>3. CASE Update(r) \/ Create(r)
  BY <1>0, <1>3, AfterNextAlert DEF Update, Create
<1>4. CASE FindTwo(r) \/ Reject(r) \/ Reply(r) \/ Die(r) \/ LoseDevice(r)
  BY <1>0, <1>4, AfterStays DEF FindTwo, Reject, Reply, Die, LoseDevice
<1> QED BY <1>1, <1>2, <1>3, <1>4 DEF Own, Webhook

\* Who waits to insert a row, and which rows there are, after each step but the
\* save of a PATCH ...
LEMMA CreatorsStep ==
  ASSUME TypeInv, [Next]_vars, NEW a \in Alert, \A p \in Patcher : ~PatchSave(p)
  PROVE  \/ RowsOf(a)' = RowsOf(a) /\ Creators(a)' \subseteq Creators(a)
         \/ RowsOf(a)' = RowsOf(a) /\ RowsOf(a) = {}
         \/ \E r \in Creators(a) : /\ \E k : RowsOf(a) \cup {k} = RowsOf(a)' /\ k \notin RowsOf(a)
                                   /\ Creators(a)' \subseteq Creators(a) \ {r}
<1> DEFINE Goal ==
         \/ RowsOf(a)' = RowsOf(a) /\ Creators(a)' \subseteq Creators(a)
         \/ RowsOf(a)' = RowsOf(a) /\ RowsOf(a) = {}
         \/ \E r \in Creators(a) : /\ \E k : RowsOf(a) \cup {k} = RowsOf(a)' /\ k \notin RowsOf(a)
                                   /\ Creators(a)' \subseteq Creators(a) \ {r}
<1>0. request \in [Request -> RequestState] /\ rows \in Seq(Row)
  BY DEF TypeInv, TypeOK
<1>1. ASSUME \A r \in Request : ~Create(r) PROVE RowsOf(a)' = RowsOf(a)
  <2>1. ASSUME rows' = rows PROVE RowsOf(a)' = RowsOf(a)
    BY <2>1 DEF RowsOf
  <2> QED BY <1>0, <1>1, <2>1, RowSteps, AfterSave
<1>2. ASSUME NEW r \in Request, request'[r].pc # "create",
             \A s \in Request \ {r} : request'[s] = request[s]
      PROVE  Creators(a)' \subseteq Creators(a) \ {r}
  BY <1>2 DEF Creators, Current
<1>3. ASSUME NEW r \in Request, Own(r),
             \A s \in Request \ {r} : request'[s] = request[s],
             request'[r].pc # "create"
      PROVE  Goal
  <2>1. CASE Create(r) /\ Current(r) = a
    <3>1. r \in Creators(a)
      BY <2>1 DEF Creators, Create
    <3>2. PICK row : row.alert = a /\ Inserted(row)
      BY <2>1, CreateInserts
    <3>3. RowsOf(a)' = RowsOf(a) \cup {Len(rows) + 1} /\ Len(rows) + 1 \notin DOMAIN rows
      BY <1>0, <3>2, AfterInsert
    <3>4. Len(rows) + 1 \notin RowsOf(a)
      BY <3>3 DEF RowsOf
    <3> QED BY <1>2, <1>3, <3>1, <3>3, <3>4
  <2>2. CASE Create(r) /\ Current(r) # a
    <3>1. PICK row : row.alert # a /\ Inserted(row)
      BY <2>2, CreateInserts
    <3>2. RowsOf(a)' = RowsOf(a)
      BY <1>0, <3>1, AfterInsert
    <3> QED BY <1>2, <1>3, <3>2
  <2>3. CASE ~Create(r)
    <3>1. \A s \in Request : ~Create(s)
      <4>1. ASSUME NEW s \in Request \ {r}, Create(s) PROVE FALSE
        <5>1. request'[s].pc = "get" /\ request[s].pc = "create"
          <6>1. Becomes(s, "get", request[s].batch, request[s].todo \ {First(request[s].todo)})
            BY <1>0, <4>1, AfterNextAlert DEF Create
          <6> QED BY <1>0, <4>1, <6>1 DEF Becomes, Create
        <5> QED BY <1>3, <5>1
      <4> QED BY <2>3, <4>1
    <3> QED BY <1>1, <1>2, <1>3, <3>1
  <2> QED BY <2>1, <2>2, <2>3
<1>4. ASSUME NEW r \in Request, Miss(r) PROVE Goal
  <2>1. request' = [request EXCEPT ![r].pc = "create"] /\ rows' = rows /\ RowsOf(Current(r)) = {}
    BY <1>4 DEF Miss, Stays
  <2>2. RowsOf(a)' = RowsOf(a)
    BY <2>1 DEF RowsOf
  <2>3. CASE Current(r) = a
    BY <2>1, <2>2, <2>3
  <2>4. CASE Current(r) # a
    <3>1. \A s \in Request : request'[s].todo = request[s].todo /\ (s # r => request'[s] = request[s])
      BY <1>0, <2>1 DEF RequestState
    <3>2. Creators(a)' \subseteq Creators(a)
      BY <2>4, <3>1 DEF Creators, Current
    <3> QED BY <2>2, <3>2
  <2> QED BY <2>3, <2>4
<1>5. ASSUME NEW r \in Request, Own(r), ~Miss(r) PROVE Goal
  <2>1. PICK pc \in {"idle", "get", "ok", "error", "lost"} : \E batch, todo : Becomes(r, pc, batch, todo)
    BY <1>5, LeavesCreate
  <2>2. PICK batch, todo : Becomes(r, pc, batch, todo)
    BY <2>1
  <2> DEFINE row == [pc |-> pc, batch |-> batch, todo |-> todo]
  <2>3. request' = [request EXCEPT ![r] = row] /\ row.pc # "create"
    BY <2>2 DEF Becomes
  <2> HIDE DEF row
  <2>4. request'[r].pc # "create" /\ \A s \in Request \ {r} : request'[s] = request[s]
    BY <1>0, <2>3
  <2> QED BY <1>3, <1>5, <2>4
<1> HIDE DEF Goal
<1>6. ASSUME request' = request PROVE Goal
  <2>1. Creators(a)' = Creators(a)
    BY <1>6 DEF Creators, Current
  <2>2. ASSUME NEW r \in Request, Create(r) PROVE FALSE
    <3>1. Becomes(r, "get", request[r].batch, request[r].todo \ {First(request[r].todo)})
      BY <1>0, <2>2, AfterNextAlert DEF Create
    <3> QED BY <1>0, <1>6, <2>2, <3>1 DEF Becomes, Create
  <2> QED BY <1>1, <2>1, <2>2 DEF Goal
<1>7. Goal
  BY <1>4, <1>5, <1>6, RequestSteps
<1> QED BY <1>7 DEF Goal

\* ... and after that.
LEMMA MoversStep ==
  ASSUME TypeInv, NEW p \in Patcher, PatchSave(p), NEW a \in Alert
  PROVE  /\ Creators(a)' = Creators(a)
         /\ \/ RowsOf(a)' \subseteq RowsOf(a) /\ Movers(a)' = Movers(a)
            \/ /\ p \notin Movers(a) /\ Movers(a)' = Movers(a) \cup {p}
               /\ \E k : RowsOf(a)' = RowsOf(a) \cup {k} /\ k \notin RowsOf(a)
<1> DEFINE pk == patch[p].pk
           copy == patch[p].copy
<1>0. rows \in Seq(Row) /\ request' = request /\ Written(pk, copy)
  BY PatchWrites DEF TypeInv, TypeOK, PatchSave
<1>1. Creators(a)' = Creators(a)
  BY <1>0 DEF Creators, Current
<1>2. /\ pk \in DOMAIN rows /\ DOMAIN rows' = DOMAIN rows /\ rows'[pk] = copy
      /\ \A l \in DOMAIN rows \ {pk} : rows'[l] = rows[l]
  BY <1>0, AfterWrite DEF Written
<1>3. moved' = IF copy.alert = rows[pk].alert THEN moved ELSE moved \cup {<<p, copy.alert>>}
  BY DEF PatchSave
<1>4. p \notin Movers(a)
  BY DEF PatchSave, TypeInv, Placed, Movers
<1> HIDE DEF pk, copy
<1>5. CASE copy.alert # a \/ rows[pk].alert = a
  <2>1. RowsOf(a)' \subseteq RowsOf(a)
    BY <1>2, <1>5 DEF RowsOf
  <2>2. \A q \in Patcher : <<q, a>> \in moved' <=> <<q, a>> \in moved
    BY <1>3, <1>5
  <2>3. Movers(a)' = Movers(a)
    BY <2>2 DEF Movers
  <2> QED BY <1>1, <2>1, <2>3
<1>6. CASE copy.alert = a /\ rows[pk].alert # a
  <2>1. RowsOf(a)' = RowsOf(a) \cup {pk} /\ pk \notin RowsOf(a)
    BY <1>2, <1>6 DEF RowsOf
  <2>2. moved' = moved \cup {<<p, a>>}
    BY <1>3, <1>6
  <2>3. Movers(a)' = Movers(a) \cup {p}
    BY <2>2 DEF Movers
  <2> QED BY <1>1, <1>4, <2>1, <2>3
<1> QED BY <1>5, <1>6

LEMMA MovedStays ==
  ASSUME [Next]_vars, \A p \in Patcher : ~PatchSave(p)
  PROVE  moved' = moved
BY DEF Next, vars, Change, GiveUp, Acknowledge, PatchRead, Send, Answer, Webhook, Die, LoseDevice,
       Miss, Update, FindTwo, Create, Reject, Reply

LEMMA RoomStep == TypeInv /\ RoomLeft /\ [Next]_vars => RoomLeft'
<1> SUFFICES ASSUME TypeInv, RoomLeft, [Next]_vars, NEW a \in Alert
             PROVE  Cardinality(RowsOf(a)') + Cardinality(Creators(a)') <=
                      Cardinality(Request) + Cardinality(Movers(a)')
  BY DEF RoomLeft, Room
<1>0. /\ IsFiniteSet(RowsOf(a)) /\ IsFiniteSet(Creators(a)) /\ IsFiniteSet(Movers(a))
      /\ Cardinality(RowsOf(a)) \in Nat /\ Cardinality(Creators(a)) \in Nat
      /\ Cardinality(Movers(a)) \in Nat
      /\ Cardinality(RowsOf(a)) + Cardinality(Creators(a)) <= Cardinality(Request) + Cardinality(Movers(a))
      /\ Cardinality(Request) \in Nat
  BY Finite, SetAssumption, FS_CardinalityType DEF RoomLeft, Room
<1>1. ASSUME RowsOf(a)' \subseteq RowsOf(a), Creators(a)' \subseteq Creators(a), Movers(a)' = Movers(a)
      PROVE  Cardinality(RowsOf(a)') + Cardinality(Creators(a)') <=
               Cardinality(Request) + Cardinality(Movers(a)')
  <2>1. Cardinality(Creators(a)') <= Cardinality(Creators(a)) /\ IsFiniteSet(Creators(a)')
    BY <1>0, <1>1, FS_Subset
  <2>2. Cardinality(RowsOf(a)') <= Cardinality(RowsOf(a)) /\ IsFiniteSet(RowsOf(a)')
    BY <1>0, <1>1, FS_Subset
  <2>3. Cardinality(Creators(a)') \in Nat /\ Cardinality(RowsOf(a)') \in Nat
    BY <2>1, <2>2, FS_CardinalityType
  <2> QED BY <1>0, <1>1, <2>1, <2>2, <2>3
\* A worker found no row: it may only be one more of those that insert the first.
<1>2. ASSUME RowsOf(a)' = RowsOf(a), RowsOf(a) = {}, Movers(a)' = Movers(a)
      PROVE  Cardinality(RowsOf(a)') + Cardinality(Creators(a)') <=
               Cardinality(Request) + Cardinality(Movers(a)')
  <2>1. Creators(a)' \subseteq Request
    BY DEF Creators
  <2>2. Cardinality(Creators(a)') <= Cardinality(Request) /\ IsFiniteSet(Creators(a)')
    BY <2>1, SetAssumption, FS_Subset
  <2>3. Cardinality(Creators(a)') \in Nat /\ Cardinality(RowsOf(a)') = 0
    BY <1>2, <2>2, FS_CardinalityType, FS_EmptySet
  <2> QED BY <1>0, <1>2, <2>2, <2>3
\* It inserts: one worker less, one row more.
<1>3. ASSUME NEW r \in Creators(a), NEW k, RowsOf(a) \cup {k} = RowsOf(a)', k \notin RowsOf(a),
             Creators(a)' \subseteq Creators(a) \ {r}, Movers(a)' = Movers(a)
      PROVE  Cardinality(RowsOf(a)') + Cardinality(Creators(a)') <=
               Cardinality(Request) + Cardinality(Movers(a)')
  <2>1. Cardinality(RowsOf(a)') = Cardinality(RowsOf(a)) + 1
    BY <1>0, <1>3, FS_AddElement
  <2>2. Cardinality(Creators(a) \ {r}) = Cardinality(Creators(a)) - 1 /\ IsFiniteSet(Creators(a) \ {r})
    BY <1>0, FS_RemoveElement
  <2>3. Cardinality(Creators(a)') <= Cardinality(Creators(a) \ {r}) /\ IsFiniteSet(Creators(a)')
    BY <1>3, <2>2, FS_Subset
  <2>4. Cardinality(Creators(a)') \in Nat
    BY <2>3, FS_CardinalityType
  <2> QED BY <1>0, <1>3, <2>1, <2>2, <2>3, <2>4
\* A PATCH moves a row to the alert: one row more, one mover more.
<1>4. ASSUME NEW p, p \notin Movers(a), Movers(a)' = Movers(a) \cup {p},
             NEW k, RowsOf(a)' = RowsOf(a) \cup {k}, k \notin RowsOf(a), Creators(a)' = Creators(a)
      PROVE  Cardinality(RowsOf(a)') + Cardinality(Creators(a)') <=
               Cardinality(Request) + Cardinality(Movers(a)')
  <2>1. Cardinality(RowsOf(a)') = Cardinality(RowsOf(a)) + 1
    BY <1>0, <1>4, FS_AddElement
  <2>2. Cardinality(Movers(a)') = Cardinality(Movers(a)) + 1
    BY <1>0, <1>4, FS_AddElement
  <2> QED BY <1>0, <1>4, <2>1, <2>2
<1>5. CASE \E p \in Patcher : PatchSave(p)
  BY <1>1, <1>4, <1>5, MoversStep
<1>6. CASE \A p \in Patcher : ~PatchSave(p)
  <2>1. Movers(a)' = Movers(a)
    BY <1>6, MovedStays DEF Movers
  <2> QED BY <1>1, <1>2, <1>3, <1>6, <2>1, CreatorsStep
<1> QED BY <1>5, <1>6

LEMMA RoomInit == Init => RoomLeft
<1> SUFFICES ASSUME Init, NEW a \in Alert
             PROVE  Cardinality(RowsOf(a)) + Cardinality(Creators(a)) <= Room(a)
  BY DEF RoomLeft
<1>1. RowsOf(a) = {} /\ Creators(a) = {} /\ Movers(a) = {}
  BY DEF Init, RowsOf, Creators, IdleRequest, Movers
<1>2. Cardinality(Request) \in Nat /\ Cardinality({}) = 0
  BY SetAssumption, FS_CardinalityType, FS_EmptySet
<1> QED BY <1>1, <1>2 DEF Room

LEMMA RoomInvariant == Spec => []RoomLeft
<1> QED BY RoomInit, RoomStep, TypeInvariant, PTL DEF Spec

\* However many deliveries of an alert overlap, in whatever order its workers look
\* it up and insert it and whatever PATCHes save meanwhile, it gets no more rows
\* than there are workers, but for those a PATCH gave its fingerprint.
THEOREM RowsAreBounded == Spec => []RowsBounded
<1>1. ASSUME TypeInv, RoomLeft PROVE RowsBounded
  <2> SUFFICES ASSUME NEW a \in Alert PROVE Cardinality(RowsOf(a)) <= Room(a)
    BY DEF RowsBounded, Room
  <2>1. /\ Cardinality(RowsOf(a)) \in Nat /\ Cardinality(Creators(a)) \in Nat
        /\ Cardinality(Movers(a)) \in Nat
    BY <1>1, Finite
  <2>2. Room(a) \in Nat
    BY <2>1, SetAssumption, FS_CardinalityType DEF Room
  <2>3. Cardinality(RowsOf(a)) + Cardinality(Creators(a)) <= Room(a)
    BY <1>1 DEF RoomLeft
  <2> QED BY <2>1, <2>2, <2>3
<1> QED BY <1>1, RoomInvariant, TypeInvariant, PTL
-----------------------------------------------------------------------------
(* One notification at a time                                              *)

\* Only the request AlertManager waits for is under way.
Alone == \A r \in Request : request[r].pc # "idle" => awaited = r

LEMMA OthersStay ==
  ASSUME TypeInv, NEW r \in Request, Own(r)
  PROVE  /\ request' \in [Request -> RequestState]
         /\ \A s \in Request \ {r} : request'[s] = request[s]
<1>0. request \in [Request -> RequestState]
  BY DEF TypeInv, TypeOK
<1>1. \E row : request' = [request EXCEPT ![r] = row]
  <2>1. CASE Send(r) \/ Answer(r)
    BY <2>1 DEF Send, Answer
  <2>2. CASE ~Send(r) /\ ~Answer(r)
    BY <2>2, OwnMoves DEF Moves, Becomes
  <2> QED BY <2>1, <2>2
<1>2. request' \in [Request -> RequestState]
  <2>1. [Next]_vars
    BY DEF Own, Next
  <2> QED BY <2>1, RequestsTyped
<1> QED BY <1>0, <1>1, <1>2

LEMMA AloneStep ==
  ASSUME ~Overlap, TypeInv, Alone, [Next]_vars
  PROVE  Alone'
<1>1. ASSUME NEW r \in Request, Own(r) PROVE Alone'
  <2>1. \A s \in Request \ {r} : request'[s] = request[s]
    BY <1>1, OthersStay
  <2>2. CASE Send(r)
    <3>1. \A s \in Request : request[s].pc = "idle"
      BY <2>2, NoneAssumption DEF Send, Alone
    <3> QED BY <2>1, <2>2, <3>1 DEF Alone, Send
  <2>3. CASE ~Send(r)
    <3>1. awaited = r
      BY <1>1, <2>3 DEF Own, Alone, Answer, Webhook, Die, LoseDevice, Miss, Update, FindTwo, Create, Reject, Reply
    <3>2. \A s \in Request \ {r} : request'[s].pc = "idle"
      BY <2>1, <3>1 DEF Alone
    <3>3. CASE Answer(r)
      <4>1. request'[r].pc = "idle"
        BY <3>3 DEF Answer, IdleRequest, TypeInv, TypeOK
      <4> QED BY <3>2, <4>1 DEF Alone
    <3>4. CASE ~Answer(r)
      <4>1. awaited' = awaited
        BY <1>1, <2>3, <3>4 DEF Own, Webhook, Die, LoseDevice, Miss, Update, FindTwo, Create, Reject, Reply
      <4> QED BY <3>1, <3>2, <4>1 DEF Alone
    <3> QED BY <3>3, <3>4
  <2> QED BY <2>2, <2>3
<1>2. ASSUME request' = request, awaited' = awaited PROVE Alone'
  BY <1>2 DEF Alone
<1> QED BY <1>1, <1>2, RequestSteps

\* An alert has one row; while its worker is about to insert it, none.
Single ==
  /\ \A a \in Alert : \A k, l \in RowsOf(a) : k = l
  /\ \A r \in Request : request[r].pc = "create" => RowsOf(Current(r)) = {}

SerialInv == Alone /\ Single

LEMMA SerialStep ==
  ASSUME ~Overlap, Patcher = {}, TypeInv, SerialInv, [Next]_vars
  PROVE  SerialInv'
<1>0. request \in [Request -> RequestState] /\ rows \in Seq(Row) /\ Alone /\ Single /\ Alone'
  BY AloneStep DEF TypeInv, TypeOK, SerialInv
<1>1. ASSUME NEW r \in Request, Create(r) PROVE Single'
  <2>1. PICK row : row.alert = Current(r) /\ Inserted(row)
    BY <1>1, CreateInserts
  <2>2. /\ RowsOf(row.alert)' = RowsOf(row.alert) \cup {Len(rows) + 1}
        /\ \A a : a # row.alert => RowsOf(a)' = RowsOf(a)
    BY <1>0, <2>1, AfterInsert
  <2>3. RowsOf(row.alert) = {}
    BY <1>0, <1>1, <2>1 DEF Single, Create
  <2>4. \A a \in Alert : \A k, l \in RowsOf(a)' : k = l
    BY <1>0, <2>2, <2>3 DEF Single
  <2>5. \A s \in Request : request'[s].pc # "create"
    <3>1. Becomes(r, "get", request[r].batch, request[r].todo \ {First(request[r].todo)})
      BY <1>0, <1>1, AfterNextAlert DEF Create
    <3>2. request'[r].pc = "get" /\ \A s \in Request \ {r} : request'[s] = request[s]
      BY <1>0, <3>1 DEF Becomes
    <3>3. awaited = r
      BY <1>0, <1>1 DEF Alone, Create
    <3> QED BY <1>0, <3>2, <3>3 DEF Alone
  <2> QED BY <2>4, <2>5 DEF Single
<1>2. ASSUME \A r \in Request : ~Create(r) PROVE Single'
  <2>1. \A a : RowsOf(a)' = RowsOf(a)
    <3>1. rows' = rows => \A a : RowsOf(a)' = RowsOf(a)
      BY DEF RowsOf
    <3> QED BY <1>0, <1>2, <3>1, RowSteps, AfterSave
  <2>2. ASSUME NEW s \in Request, request'[s].pc = "create" PROVE RowsOf(Current(s))' = {}
    <3>1. CASE request'[s] = request[s]
      <4>1. Current(s)' = Current(s)
        BY <3>1 DEF Current
      <4>2. RowsOf(Current(s)) = {}
        BY <1>0, <2>2, <3>1 DEF Single
      <4>3. RowsOf(Current(s))' = RowsOf(Current(s))
        BY <2>1, <4>1 DEF RowsOf
      <4> QED BY <4>2, <4>3
    <3>2. CASE Miss(s)
      <4>1. request'[s].todo = request[s].todo /\ RowsOf(Current(s)) = {} /\ rows' = rows
        BY <1>0, <3>2 DEF Miss, Stays, RequestState
      <4> QED BY <4>1 DEF Current, RowsOf
    <3>3. CASE request'[s] # request[s] /\ ~Miss(s)
      <4>1. Own(s)
        <5>1. PICK r \in Request : Own(r)
          BY <3>3, RequestSteps
        <5>2. r = s
          BY <3>3, <5>1, OthersStay
        <5> QED BY <5>1, <5>2
      <4>2. PICK pc \in {"idle", "get", "ok", "error", "lost"} : \E batch, todo : Becomes(s, pc, batch, todo)
        BY <3>3, <4>1, LeavesCreate
      <4>3. PICK batch, todo : Becomes(s, pc, batch, todo)
        BY <4>2
      <4> DEFINE row == [pc |-> pc, batch |-> batch, todo |-> todo]
      <4>4. request' = [request EXCEPT ![s] = row] /\ row.pc # "create"
        BY <4>3 DEF Becomes
      <4> HIDE DEF row
      <4>5. request'[s].pc # "create"
        BY <1>0, <4>4
      <4> QED BY <2>2, <4>5
    <3> QED BY <3>1, <3>2, <3>3
  <2>3. \A a \in Alert : \A k, l \in RowsOf(a)' : k = l
    BY <1>0, <2>1 DEF Single
  <2> QED BY <2>2, <2>3 DEF Single
<1> QED BY <1>0, <1>1, <1>2 DEF SerialInv

LEMMA SerialInit == Init => SerialInv
BY DEF Init, SerialInv, Alone, Single, RowsOf, IdleRequest

LEMMA SerialInvariant == ASSUME ~Overlap, Patcher = {} PROVE Spec => []SerialInv
<1>1. SerialInv /\ TypeInv /\ [Next]_vars => SerialInv'
  BY SerialStep
<1> QED BY <1>1, SerialInit, TypeInvariant, PTL DEF Spec

\* While AlertManager waits for its answers and nobody PATCHes, an alert that
\* fires, resolves and fires again keeps one row, also when a worker was killed
\* before or after it inserted it (src/apps/monitoring/README.md, line 53).  A
\* PATCH can take the fingerprint of a row away and, once a notification has
\* inserted another, give it back.
THEOREM OneRowEach == ASSUME ~Overlap, Patcher = {} PROVE Spec => []OneRowPerAlert
<1>1. ASSUME Single PROVE OneRowPerAlert
  <2> SUFFICES ASSUME NEW a \in Alert PROVE Cardinality(RowsOf(a)) <= 1
    BY DEF OneRowPerAlert
  <2>1. CASE RowsOf(a) = {}
    <3>1. Cardinality(RowsOf(a)) = 0
      BY <2>1, FS_EmptySet
    <3> QED BY <3>1
  <2>2. ASSUME NEW k \in RowsOf(a) PROVE Cardinality(RowsOf(a)) <= 1
    <3>1. RowsOf(a) = {k}
      BY <1>1 DEF Single
    <3>2. Cardinality({k}) = 1
      BY FS_Singleton
    <3> QED BY <3>1, <3>2
  <2> QED BY <2>1, <2>2
<1> QED BY <1>1, SerialInvariant, PTL DEF SerialInv
-----------------------------------------------------------------------------
(* Acknowledgements                                                        *)

\* No notification takes an acknowledgement back, however many requests store
\* the alert at once and whatever else is under way: update_or_create saves the
\* fields in defaults only.  What does is the save of a PATCH whose object is not
\* acknowledged.
THEOREM AcksStay == Spec => OnlyPatchUnacks
<1> DEFINE Unacks(k) == rows[k].ack /\ rows'[k].ack # TRUE
           ByPatch(k) == \E p \in Patcher :
                           patch[p].pk = k /\ patch[p].copy # None /\ ~ patch[p].copy.ack
<1>1. ASSUME TypeInv, [Next]_vars, NEW k \in DOMAIN rows, Unacks(k) PROVE ByPatch(k)
  <2>0. rows \in Seq(Row) /\ rows[k] \in Row
    BY <1>1 DEF TypeInv, TypeOK
  <2>1. ASSUME NEW r \in Request, Update(r) PROVE FALSE
    <3>1. PICK l \in DOMAIN rows : Saved(l, [rows[l] EXCEPT !.seen = request[r].batch[Current(r)]])
      BY <1>1, <2>1, UpdateSaves
    <3> DEFINE row == [rows[l] EXCEPT !.seen = request[r].batch[Current(r)]]
    <3>2. row.ack = rows[l].ack /\ Saved(l, row)
      BY <2>0, <3>1 DEF Row
    <3> HIDE DEF row
    <3>3. rows'[l] = row /\ \A m \in DOMAIN rows \ {l} : rows'[m] = rows[m]
      BY <2>0, <3>2, AfterSave
    <3>4. rows'[k].ack = rows[k].ack /\ rows[k].ack \in BOOLEAN
      BY <2>0, <3>2, <3>3 DEF Row
    <3> QED BY <1>1, <3>4
  <2>2. ASSUME NEW r \in Request, Create(r) PROVE FALSE
    <3>1. PICK row : Inserted(row)
      BY <1>1, <2>2, CreateInserts
    <3>2. rows'[k] = rows[k] /\ rows[k].ack \in BOOLEAN
      BY <2>0, <3>1, AfterInsert DEF Row
    <3> QED BY <1>1, <3>2
  <2>3. ASSUME NEW l \in DOMAIN rows, Acknowledge(l) PROVE FALSE
    <3> DEFINE row == [rows[l] EXCEPT !.ack = TRUE]
    <3>1. row.ack = TRUE /\ Saved(l, row)
      BY <1>1, <2>0, <2>3, AcknowledgeSaves DEF Row
    <3> HIDE DEF row
    <3>2. rows'[l] = row /\ \A m \in DOMAIN rows \ {l} : rows'[m] = rows[m]
      BY <2>0, <3>1, AfterSave
    <3>3. rows[k].ack \in BOOLEAN
      BY <2>0 DEF Row
    <3> QED BY <1>1, <3>1, <3>2, <3>3
  <2>4. ASSUME NEW p \in Patcher, PatchSave(p) PROVE ByPatch(k)
    <3>1. Written(patch[p].pk, patch[p].copy) /\ patch[p].copy # None
      BY <1>1, <2>4, PatchWrites DEF PatchSave
    <3>2. /\ rows'[patch[p].pk] = patch[p].copy
          /\ \A m \in DOMAIN rows \ {patch[p].pk} : rows'[m] = rows[m]
      BY <2>0, <3>1, AfterWrite
    <3>3. rows[k].ack \in BOOLEAN /\ patch[p].copy.ack \in BOOLEAN
      BY <2>0, <3>1 DEF Row, Written
    <3>4. patch[p].pk = k
      BY <1>1, <3>2, <3>3
    <3> QED BY <1>1, <3>1, <3>2, <3>3, <3>4
  <2>5. ASSUME rows' = rows PROVE FALSE
    <3>1. rows[k].ack \in BOOLEAN
      BY <2>0 DEF Row
    <3> QED BY <1>1, <2>5, <3>1
  <2>6. ASSUME NEW r \in Request, \/ Send(r) \/ Answer(r) \/ Die(r) \/ LoseDevice(r) \/ Miss(r)
                                  \/ FindTwo(r) \/ Reject(r) \/ Reply(r)
        PROVE  rows' = rows
    BY <2>6 DEF Send, Answer, Die, LoseDevice, Miss, FindTwo, Reject, Reply
  <2>7. ASSUME \/ \E a \in Alert : Change(a)
               \/ GiveUp
               \/ \E p \in Patcher, l \in DOMAIN rows : PatchRead(p, l)
               \/ UNCHANGED vars
        PROVE  rows' = rows
    BY <2>7 DEF Change, GiveUp, PatchRead, vars
  <2> HIDE DEF ByPatch
  <2> QED BY <1>1, <2>1, <2>2, <2>3, <2>4, <2>5, <2>6, <2>7 DEF Next, Webhook
<1>2. TypeInv /\ [Next]_vars => [\A k \in DOMAIN rows : Unacks(k) => ByPatch(k)]_vars
  BY <1>1
<1> QED BY <1>2, TypeInvariant, PTL DEF Spec, OnlyPatchUnacks

-----------------------------------------------------------------------------
(* What an answer of 200 means                                             *)

Shows(a, v) == v > 0 => \E k \in RowsOf(a) : rows[k].seen >= v

\* What was answered is not newer than what AlertManager sees now, and what is
\* under way lies between the two.
Ordered ==
  /\ \A a \in Alert : delivered[a] <= version[a]
  /\ \A r \in Request : request[r].pc # "idle" =>
       \A a \in Alert : delivered[a] <= request[r].batch[a] /\ request[r].batch[a] <= version[a]

\* The table shows what was answered, and what is under way of the alerts that
\* the loop is done with.
ShownSoFar ==
  /\ \A a \in Alert : Shows(a, delivered[a])
  /\ \A r \in Request : request[r].pc \in {"get", "create", "ok"} =>
       \A i \in DOMAIN Group \ request[r].todo : Shows(Group[i], request[r].batch[Group[i]])
  /\ \A r \in Request : request[r].pc = "ok" => request[r].todo = {}

LEMMA OrderedStep ==
  ASSUME ~Overlap, TypeInv, Alone, Ordered, [Next]_vars
  PROVE  Ordered'
<1>0. /\ version \in [Alert -> Version] /\ delivered \in [Alert -> Version]
      /\ request \in [Request -> RequestState] /\ Version \subseteq Nat
      /\ \A a \in Alert : version[a] \in Nat /\ delivered[a] \in Nat
      /\ \A r \in Request : request[r].batch \in [Alert -> Version]
  BY BoundAssumption DEF TypeInv, TypeOK, RequestState, Version
<1>1. ASSUME NEW a \in Alert, Change(a) PROVE Ordered'
  <2>1. \A b \in Alert : version[b] <= version'[b] /\ version'[b] \in Nat
    BY <1>0, <1>1 DEF Change
  <2>2. \A r \in Request, b \in Alert : request[r].batch[b] \in Nat
    BY <1>0
  <2> QED BY <1>0, <1>1, <2>1, <2>2 DEF Ordered, Change
<1>2. ASSUME NEW r \in Request, Own(r) PROVE Ordered'
  <2>1. version' = version /\ \A s \in Request \ {r} : request'[s] = request[s]
    BY <1>2, OthersStay DEF Own, Send, Answer, Webhook, Die, LoseDevice, Miss, Update, FindTwo, Create, Reject, Reply
  <2>2. CASE Send(r)
    <3>1. request'[r].batch = Batch /\ delivered' = delivered
      BY <1>0, <2>2, SendBecomes DEF Becomes, Send
    <3>2. \A a \in Alert : delivered[a] <= Batch[a] /\ Batch[a] <= version[a]
      BY <1>0 DEF Batch, Ordered
    <3> QED BY <2>1, <3>1, <3>2 DEF Ordered
  <2>3. CASE Answer(r)
    <3>1. request'[r].pc = "idle" /\ delivered' \in {delivered, request[r].batch} /\ request[r].pc # "idle"
      BY <1>0, <2>3 DEF Answer, IdleRequest
    <3>2. \A s \in Request : request'[s].pc = "idle"
      BY <2>1, <3>1 DEF Alone
    <3> QED BY <2>1, <3>1, <3>2 DEF Ordered
  <2>4. CASE ~Send(r) /\ ~Answer(r)
    <3>1. request'[r].batch = request[r].batch /\ request[r].pc # "idle"
      BY <1>0, <1>2, <2>4, OwnMoves DEF Moves, Becomes
    <3>2. delivered' = delivered
      BY <1>2, <2>4 DEF Own, Webhook, Die, LoseDevice, Miss, Update, FindTwo, Create, Reject, Reply
    <3> QED BY <2>1, <3>1, <3>2 DEF Ordered
  <2> QED BY <2>2, <2>3, <2>4
<1>3. ASSUME \/ GiveUp
             \/ \E k \in DOMAIN rows : Acknowledge(k)
             \/ \E p \in Patcher, k \in DOMAIN rows : PatchRead(p, k)
             \/ \E p \in Patcher : PatchSave(p)
             \/ UNCHANGED vars
      PROVE  Ordered'
  BY <1>3 DEF Ordered, GiveUp, Acknowledge, PatchRead, PatchSave, vars
<1> QED BY <1>1, <1>2, <1>3 DEF Next, Own

\* The table goes on showing what no older notification replaces.
LEMMA ShowsOn ==
  ASSUME Patcher = {}, TypeInv, [Next]_vars, NEW a \in Alert, NEW v \in Nat, Shows(a, v),
         \A r \in Request : Update(r) /\ Current(r) = a => request[r].batch[a] >= v
  PROVE  Shows(a, v)'
<1> SUFFICES ASSUME v > 0 PROVE \E k \in RowsOf(a)' : rows'[k].seen >= v
  BY DEF Shows
<1>0. rows \in Seq(Row)
  BY DEF TypeInv, TypeOK
<1>1. PICK k \in RowsOf(a) : rows[k].seen >= v
  BY DEF Shows
<1>2. k \in DOMAIN rows /\ rows[k].alert = a /\ rows[k] \in Row
  BY <1>0 DEF RowsOf
<1>3. ASSUME NEW r \in Request, Update(r) PROVE k \in RowsOf(a)' /\ rows'[k].seen >= v
  <2>1. PICK l \in DOMAIN rows : /\ RowsOf(Current(r)) = {l}
                                 /\ Saved(l, [rows[l] EXCEPT !.seen = request[r].batch[Current(r)]])
    BY <1>3, UpdateSaves
  <2> DEFINE row == [rows[l] EXCEPT !.seen = request[r].batch[Current(r)]]
  <2>2. Saved(l, row) /\ row.seen = request[r].batch[Current(r)]
    BY <1>0, <2>1 DEF Row
  <2> HIDE DEF row
  <2>3. RowsOf(a)' = RowsOf(a) /\ rows'[l] = row /\ \A m \in DOMAIN rows \ {l} : rows'[m] = rows[m]
    BY <1>0, <2>2, AfterSave
  <2>4. CASE k = l
    <3>1. Current(r) = a
      BY <1>2, <2>1, <2>4 DEF RowsOf
    <3> QED BY <1>1, <1>3, <2>2, <2>3, <2>4, <3>1
  <2>5. CASE k # l
    BY <1>1, <1>2, <2>3, <2>5
  <2> QED BY <2>4, <2>5
<1>4. ASSUME NEW r \in Request, Create(r) PROVE k \in RowsOf(a)' /\ rows'[k].seen >= v
  <2>1. PICK row : Inserted(row)
    BY <1>4, CreateInserts
  <2>2. DOMAIN rows \subseteq DOMAIN rows' /\ \A m \in DOMAIN rows : rows'[m] = rows[m]
    BY <1>0, <2>1, AfterInsert
  <2> QED BY <1>1, <1>2, <2>2 DEF RowsOf
<1>5. ASSUME NEW l \in DOMAIN rows, Acknowledge(l) PROVE k \in RowsOf(a)' /\ rows'[k].seen >= v
  <2> DEFINE row == [rows[l] EXCEPT !.ack = TRUE]
  <2>1. Saved(l, row) /\ row.seen = rows[l].seen
    BY <1>0, <1>5, AcknowledgeSaves DEF Row
  <2> HIDE DEF row
  <2>2. RowsOf(a)' = RowsOf(a) /\ rows'[l] = row /\ \A m \in DOMAIN rows \ {l} : rows'[m] = rows[m]
    BY <1>0, <2>1, AfterSave
  <2> QED BY <1>1, <1>2, <2>1, <2>2
<1>6. ASSUME rows' = rows PROVE k \in RowsOf(a)' /\ rows'[k].seen >= v
  BY <1>1, <1>6 DEF RowsOf
<1>7. ASSUME NEW r \in Request, \/ Send(r) \/ Answer(r) \/ Die(r) \/ LoseDevice(r) \/ Miss(r) \/ FindTwo(r)
                                \/ Reject(r) \/ Reply(r)
      PROVE  rows' = rows
  BY <1>7 DEF Send, Answer, Die, LoseDevice, Miss, FindTwo, Reject, Reply
<1>8. ASSUME (\E b \in Alert : Change(b)) \/ GiveUp \/ UNCHANGED vars PROVE rows' = rows
  BY <1>8 DEF Change, GiveUp, vars
<1> QED BY <1>3, <1>4, <1>5, <1>6, <1>7, <1>8 DEF Next, Webhook
\* An alert the loop has stored is shown as the payload has it.
LEMMA StoredIsShown ==
  ASSUME TypeInv, NEW r \in Request, Update(r) \/ Create(r),
         NEW a \in Alert, a = Current(r), NEW v \in Nat, v = request[r].batch[a]
  PROVE  Shows(a, v)'
<1>0. rows \in Seq(Row) /\ v >= v
  BY DEF TypeInv, TypeOK
<1>1. CASE Update(r)
  <2>1. PICK k \in DOMAIN rows : RowsOf(a) = {k} /\ Saved(k, [rows[k] EXCEPT !.seen = v])
    BY <1>1, UpdateSaves
  <2>2. [rows[k] EXCEPT !.seen = v].seen = v
    BY <1>0 DEF Row
  <2>3. RowsOf(a)' = RowsOf(a) /\ rows'[k] = [rows[k] EXCEPT !.seen = v]
    BY <1>0, <2>1, AfterSave
  <2> QED BY <1>0, <2>1, <2>2, <2>3 DEF Shows
<1>2. CASE Create(r)
  <2>1. PICK row : row.alert = a /\ row.seen = v /\ Inserted(row)
    BY <1>2, CreateInserts
  <2>2. RowsOf(a)' = RowsOf(a) \cup {Len(rows) + 1} /\ rows'[Len(rows) + 1] = row
    BY <1>0, <2>1, AfterInsert
  <2> QED BY <1>0, <2>1, <2>2 DEF Shows
<1> QED BY <1>1, <1>2

LEMMA ShownStep ==
  ASSUME ~Overlap, Patcher = {}, TypeInv, SerialInv, Ordered, ShownSoFar, [Next]_vars
  PROVE  ShownSoFar'
<1>0. /\ request \in [Request -> RequestState] /\ Alone /\ Version \subseteq Nat
      /\ delivered \in [Alert -> Version] /\ version \in [Alert -> Version]
      /\ \A r \in Request : /\ request[r] \in RequestState
                            /\ request[r].batch \in [Alert -> Version]
                            /\ request[r].todo \in SUBSET DOMAIN Group
  BY BoundAssumption DEF TypeInv, TypeOK, RequestState, SerialInv, Version
\* An alert that was answered is still shown.
<1>1. ASSUME NEW a \in Alert PROVE Shows(a, delivered[a])'  \/ \E r \in Request : Answer(r)
  <2> DEFINE v == delivered[a]
  <2>1. v \in Nat /\ Shows(a, v)
    BY <1>0 DEF ShownSoFar
  <2>2. \A r \in Request : Update(r) /\ Current(r) = a => request[r].batch[a] >= v
    <3>1. \A r \in Request : Update(r) => delivered[a] <= request[r].batch[a]
      BY DEF Ordered, Update
    <3> QED BY <1>0, <3>1
  <2>3. delivered' = delivered \/ \E r \in Request : Answer(r)
    BY DEF Next, vars, Change, GiveUp, Acknowledge, PatchRead, PatchSave, Send, Webhook, Die, LoseDevice, Miss,
           Update, FindTwo, Create, Reject, Reply
  <2>4. ASSUME NEW w \in Nat, w = v PROVE Shows(a, w)'
    BY <2>1, <2>2, <2>4, ShowsOn
  <2>5. PICK w \in Nat : w = v
    BY <2>1
  <2>6. delivered' = delivered => delivered'[a] = w
    BY <2>5
  <2> QED BY <2>3, <2>4, <2>5, <2>6 DEF Shows, RowsOf
\* So is what the loop is done with.
<1>2. ASSUME NEW r \in Request, request[r].pc \in {"get", "create", "ok"},
             NEW i \in DOMAIN Group \ request[r].todo, NEW v \in Nat, v = request[r].batch[Group[i]]
      PROVE  Shows(Group[i], v)'
  <2>1. Group[i] \in Alert /\ Shows(Group[i], v)
    BY <1>2, GroupTyped DEF ShownSoFar
  <2>2. ASSUME NEW s \in Request, Update(s) PROVE s = r
    BY <1>0, <1>2, <2>2 DEF Alone, Update
  <2>3. \A s \in Request : Update(s) /\ Current(s) = Group[i] => request[s].batch[Group[i]] >= v
    BY <1>2, <2>2
  <2> QED BY <2>1, <2>3, ShowsOn
<1> DEFINE Done(r) == /\ request'[r].pc \in {"get", "create", "ok"} =>
                           \A i \in DOMAIN Group \ request'[r].todo :
                             Shows(Group[i], request[r].batch[Group[i]])'
                      /\ request'[r].pc = "ok" => request'[r].todo = {}
<1>3. ASSUME NEW r \in Request, request'[r].batch = request[r].batch, request'[r].todo = request[r].todo,
             request'[r].pc \in {"get", "create", "ok"} => request[r].pc \in {"get", "create", "ok"},
             request'[r].pc = "ok" => request'[r].todo = {}
      PROVE  Done(r)
  <2> SUFFICES ASSUME request[r].pc \in {"get", "create", "ok"},
                      NEW i \in DOMAIN Group \ request[r].todo
               PROVE  Shows(Group[i], request[r].batch[Group[i]])'
    BY <1>3
  <2>1. PICK v \in Nat : v = request[r].batch[Group[i]]
    BY <1>0, GroupTyped
  <2> QED BY <1>2, <1>3, <2>1 DEF Shows, RowsOf
<1>4. ASSUME NEW r \in Request, Update(r) \/ Create(r) PROVE Done(r)
  <2>1. /\ request'[r].batch = request[r].batch
        /\ request'[r].todo = request[r].todo \ {First(request[r].todo)} /\ request'[r].pc = "get"
    BY <1>0, <1>4, AfterNextAlert DEF Update, Create, Becomes
  <2>2. request[r].todo # {} /\ request[r].pc \in {"get", "create"}
    BY <1>4 DEF Update, Create, TypeInv, Placed
  <2>3. ASSUME NEW i \in DOMAIN Group \ request'[r].todo
        PROVE  Shows(Group[i], request[r].batch[Group[i]])'
    <3>1. PICK v \in Nat : v = request[r].batch[Group[i]]
      BY <1>0, GroupTyped
    <3>2. Shows(Group[i], v)'
      <4>1. CASE i = First(request[r].todo)
        <5>1. Group[i] = Current(r) /\ Group[i] \in Alert
          BY <4>1, GroupTyped DEF Current
        <5> QED BY <1>4, <3>1, <5>1, StoredIsShown
      <4>2. CASE i # First(request[r].todo)
        BY <1>2, <2>1, <2>2, <3>1, <4>2
      <4> QED BY <4>1, <4>2
    <3> QED BY <2>1, <3>1, <3>2 DEF Shows, RowsOf
  <2> QED BY <2>1, <2>3
<1>5. ASSUME NEW r \in Request, Send(r) PROVE Done(r)
  <2>1. request'[r].batch = Batch /\ request'[r].todo = DuePlaces /\ request'[r].pc = "get"
    BY <1>0, <1>5, SendBecomes DEF Becomes
  <2>2. ASSUME NEW i \in DOMAIN Group \ DuePlaces
        PROVE  Shows(Group[i], request[r].batch[Group[i]])'
    <3>1. Group[i] \in Alert /\ ~Due(Group[i])
      BY <2>2, GroupTyped DEF DuePlaces
    <3>2. Batch[Group[i]] = delivered[Group[i]]
      BY <3>1 DEF Batch
    <3>3. rows' = rows
      BY <1>5 DEF Send
    <3>4. Shows(Group[i], delivered[Group[i]])
      BY <3>1 DEF ShownSoFar
    <3> QED BY <2>1, <3>2, <3>3, <3>4 DEF Shows, RowsOf
  <2> QED BY <2>1, <2>2
<1>6. ASSUME NEW r \in Request, Answer(r) PROVE Done(r)
  BY <1>0, <1>6 DEF Answer, IdleRequest
<1>7. ASSUME NEW r \in Request, Reply(r) PROVE Done(r)
  BY <1>0, <1>3, <1>7 DEF Reply, Stays, RequestState
<1>8. ASSUME NEW r \in Request, Miss(r) \/ FindTwo(r) \/ Reject(r) \/ Die(r) \/ LoseDevice(r) PROVE Done(r)
  <2>1. \E pc \in {"create", "error", "lost"} : Stays(r, pc) /\ request[r].pc \in {"get", "create"}
    BY <1>8 DEF Miss, FindTwo, Reject, Die, LoseDevice
  <2> QED BY <1>0, <1>3, <2>1 DEF Stays, RequestState
<1>9. ASSUME NEW r \in Request, request'[r] = request[r] PROVE Done(r)
  BY <1>3, <1>9 DEF ShownSoFar
<1> HIDE DEF Done
<1>10. \A r \in Request : Done(r)
  <2>1. ASSUME NEW r \in Request, Own(r) PROVE \A s \in Request : Done(s)
    <3>1. Done(r)
      BY <1>4, <1>5, <1>6, <1>7, <1>8, <2>1 DEF Own, Webhook
    <3>2. \A s \in Request \ {r} : Done(s)
      BY <1>9, <2>1, OthersStay
    <3> QED BY <3>1, <3>2
  <2>2. ASSUME request' = request PROVE \A s \in Request : Done(s)
    BY <1>9, <2>2
  <2> QED BY <2>1, <2>2, RequestSteps
\* An answer of 200 delivers what is shown.
<1>11. ASSUME NEW r \in Request, Answer(r), NEW a \in Alert PROVE Shows(a, delivered[a])'
  <2>1. PICK i \in DOMAIN Group : Group[i] = a
    BY GroupTyped
  <2>2. rows' = rows /\ delivered' \in {delivered, request[r].batch}
    BY <1>11 DEF Answer
  <2>3. delivered' = delivered \/ request[r].pc = "ok"
    BY <1>11 DEF Answer
  <2>4. request[r].pc = "ok" => Shows(a, request[r].batch[a])
    BY <2>1 DEF ShownSoFar
  <2>5. Shows(a, delivered[a])
    BY DEF ShownSoFar
  <2> QED BY <2>2, <2>3, <2>4, <2>5 DEF Shows, RowsOf
<1>12. \A a \in Alert : Shows(a, delivered[a])'
  BY <1>1, <1>11
<1> QED BY <1>10, <1>12 DEF ShownSoFar, Done

LEMMA ShownInvariant ==
  ASSUME ~Overlap, Patcher = {}
  PROVE  Spec => [](Ordered /\ ShownSoFar)
<1>1. Init => Ordered /\ ShownSoFar
  <2> SUFFICES ASSUME Init PROVE Ordered /\ ShownSoFar
    OBVIOUS
  <2>1. /\ \A a \in Alert : delivered[a] = 0 /\ version[a] = 0
        /\ \A r \in Request : request[r].pc = "idle"
    BY DEF Init, Unread, IdleRequest
  <2> QED BY <2>1 DEF Ordered, ShownSoFar, Shows
<1>2. TypeInv /\ SerialInv /\ Ordered /\ ShownSoFar /\ [Next]_vars => (Ordered /\ ShownSoFar)'
  BY OrderedStep, ShownStep DEF SerialInv
<1>3. Spec => []SerialInv
  BY SerialInvariant
<1> QED BY <1>1, <1>2, <1>3, TypeInvariant, PTL DEF Spec

\* An answer of 200 means that every alert of the payload is in the table as
\* AlertManager saw it or newer: also when an earlier delivery was killed in the
\* middle of the loop, failed at another alert or found the rows of one before it.
THEOREM AnswersAreShown == ASSUME ~Overlap, Patcher = {} PROVE Spec => []AnsweredIsShown
<1>1. TypeInv /\ ShownSoFar => AnsweredIsShown
  BY DEF ShownSoFar, Shows, AnsweredIsShown
<1>2. Spec => [](Ordered /\ ShownSoFar)
  BY ShownInvariant
<1> QED BY <1>1, <1>2, TypeInvariant, PTL
-----------------------------------------------------------------------------
(* The table is a board                                                    *)

\* Every row is of an alert of the group, what it shows has been sent of it, and
\* what is under way is not older than that.
Newest ==
  /\ \A k \in DOMAIN rows : /\ rows[k].alert \in Alert /\ 0 < rows[k].seen
                           /\ rows[k].seen <= version[rows[k].alert]
  /\ \A r \in Request : request[r].pc # "idle" => \A i \in request[r].todo :
       /\ 0 < request[r].batch[Group[i]]
       /\ \A k \in RowsOf(Group[i]) : rows[k].seen <= request[r].batch[Group[i]]

BoardInv == TypeInv /\ SerialInv /\ Ordered /\ Newest

\* A row is as it was, or a request has just stored it.
LEMMA SeenSteps ==
  ASSUME Patcher = {}, TypeInv, [Next]_vars, NEW k \in DOMAIN rows'
  PROVE  \/ /\ k \in DOMAIN rows
            /\ rows'[k].alert = rows[k].alert /\ rows'[k].seen = rows[k].seen
         \/ \E r \in Request : /\ Update(r) \/ Create(r)
                               /\ rows'[k].alert = Current(r)
                               /\ rows'[k].seen = request[r].batch[Current(r)]
<1> DEFINE Same == /\ k \in DOMAIN rows
                   /\ rows'[k].alert = rows[k].alert /\ rows'[k].seen = rows[k].seen
           Stored(r) == /\ rows'[k].alert = Current(r)
                        /\ rows'[k].seen = request[r].batch[Current(r)]
<1>0. rows \in Seq(Row)
  BY DEF TypeInv, TypeOK
<1>1. ASSUME NEW r \in Request, Update(r) PROVE Same \/ Stored(r)
  <2>1. PICK l \in DOMAIN rows : /\ RowsOf(Current(r)) = {l}
                                 /\ Saved(l, [rows[l] EXCEPT !.seen = request[r].batch[Current(r)]])
    BY <1>1, UpdateSaves
  <2> DEFINE row == [rows[l] EXCEPT !.seen = request[r].batch[Current(r)]]
  <2>2. Saved(l, row) /\ row.seen = request[r].batch[Current(r)] /\ rows[l].alert = Current(r)
    BY <1>0, <2>1 DEF Row, RowsOf
  <2> HIDE DEF row
  <2>3. /\ DOMAIN rows' = DOMAIN rows /\ rows'[l] = row /\ row.alert = rows[l].alert
        /\ \A m \in DOMAIN rows \ {l} : rows'[m] = rows[m]
    BY <1>0, <2>2, AfterSave DEF Saved
  <2> QED BY <2>2, <2>3
<1>2. ASSUME NEW r \in Request, Create(r) PROVE Same \/ Stored(r)
  <2>1. PICK row : /\ row.alert = Current(r) /\ row.seen = request[r].batch[Current(r)]
                   /\ Inserted(row)
    BY <1>2, CreateInserts
  <2>2. /\ DOMAIN rows' = DOMAIN rows \cup {Len(rows) + 1} /\ rows'[Len(rows) + 1] = row
        /\ \A m \in DOMAIN rows : rows'[m] = rows[m]
    BY <1>0, <2>1, AfterInsert
  <2> QED BY <2>1, <2>2
<1>3. ASSUME NEW l \in DOMAIN rows, Acknowledge(l) PROVE Same
  <2> DEFINE row == [rows[l] EXCEPT !.ack = TRUE]
  <2>1. Saved(l, row) /\ row.seen = rows[l].seen /\ row.alert = rows[l].alert
    BY <1>0, <1>3, AcknowledgeSaves DEF Row
  <2> HIDE DEF row
  <2>2. DOMAIN rows' = DOMAIN rows /\ rows'[l] = row /\ \A m \in DOMAIN rows \ {l} : rows'[m] = rows[m]
    BY <1>0, <2>1, AfterSave
  <2> QED BY <2>1, <2>2
<1>4. CASE rows' = rows
  BY <1>4
<1>5. \/ rows' = rows
      \/ \E r \in Request : Update(r) \/ Create(r)
      \/ \E l \in DOMAIN rows : Acknowledge(l)
  BY DEF Next, vars, Change, GiveUp, PatchRead, Send, Answer, Webhook, Die, LoseDevice, Miss, FindTwo, Reject, Reply
<1> HIDE DEF Same, Stored
<1>6. Same \/ \E r \in Request : (Update(r) \/ Create(r)) /\ Stored(r)
  BY <1>1, <1>2, <1>3, <1>5, <1>4 DEF Same
<1> QED BY <1>6 DEF Same, Stored

LEMMA NewestStep ==
  ASSUME ~Overlap, Patcher = {}, BoardInv, [Next]_vars
  PROVE  Newest'
<1>0. /\ version \in [Alert -> Nat] /\ delivered \in [Alert -> Nat]
      /\ request \in [Request -> RequestState] /\ rows \in Seq(Row)
      /\ \A r \in Request : /\ request[r].batch \in [Alert -> Nat]
                            /\ request[r].todo \in SUBSET DOMAIN Group
      /\ \A k \in DOMAIN rows : rows[k].alert \in Alert /\ rows[k].seen \in Nat
  <2>1. TypeOK /\ Version \subseteq Nat
    BY BoundAssumption DEF BoardInv, TypeInv, Version
  <2>2. /\ version \in [Alert -> Version] /\ delivered \in [Alert -> Version]
        /\ request \in [Request -> RequestState] /\ rows \in Seq(Row)
    BY <2>1 DEF TypeOK
  <2>3. \A r \in Request : /\ request[r].batch \in [Alert -> Version]
                           /\ request[r].todo \in SUBSET DOMAIN Group
    BY <2>2 DEF RequestState
  <2>4. \A k \in DOMAIN rows : rows[k].alert \in Alert /\ rows[k].seen \in Version
    <3>1. rows \in Seq(Row)
      BY <2>2
    <3>2. \A k \in DOMAIN rows : rows[k] \in Row
      BY <3>1
    <3> QED BY <3>2 DEF Row, BoardInv, Newest
  <2>5. ASSUME NEW f \in [Alert -> Version] PROVE f \in [Alert -> Nat]
    <3>1. Version \subseteq Nat
      BY <2>1
    <3>2. f = [a \in Alert |-> f[a]] /\ \A a \in Alert : f[a] \in Nat
      BY <3>1
    <3> QED BY <3>2
  <2> QED BY <2>1, <2>2, <2>3, <2>4, <2>5
\* What is stored was not shown by anything newer, and has been seen.
<1>1. ASSUME NEW r \in Request, Update(r) \/ Create(r)
      PROVE  /\ Current(r) \in Alert /\ request[r].pc # "idle"
             /\ 0 < request[r].batch[Current(r)]
             /\ request[r].batch[Current(r)] <= version[Current(r)]
  <2>1. request[r].todo # {} /\ request[r].pc # "idle"
    BY <1>1 DEF Update, Create, BoardInv, TypeInv, Placed
  <2>2. First(request[r].todo) \in request[r].todo /\ Current(r) \in Alert
    BY <1>0, <2>1, FirstIsLeft DEF Current
  <2> QED BY <2>1, <2>2 DEF BoardInv, Newest, Ordered, Current
<1>2. \A a \in Alert : version[a] <= version'[a] /\ version'[a] \in Nat
  <2>1. ASSUME NEW b \in Alert, Change(b)
        PROVE  \A a \in Alert : version[a] <= version'[a] /\ version'[a] \in Nat
    BY <1>0, <2>1 DEF Change
  <2>2. CASE version' = version
    BY <1>0, <2>2
  <2>3. version' = version \/ \E b \in Alert : Change(b)
    BY DEF Next, vars, GiveUp, Acknowledge, PatchRead, PatchSave, Send, Answer, Webhook, Die, LoseDevice, Miss,
           Update, FindTwo, Create, Reject, Reply
  <2> QED BY <2>1, <2>2, <2>3
<1>3. ASSUME NEW k \in DOMAIN rows'
      PROVE  /\ rows'[k].alert \in Alert /\ 0 < rows'[k].seen
             /\ rows'[k].seen <= version'[rows'[k].alert]
  <2>1. CASE /\ k \in DOMAIN rows
             /\ rows'[k].alert = rows[k].alert /\ rows'[k].seen = rows[k].seen
    <3>1. /\ 0 < rows[k].seen /\ rows[k].seen <= version[rows[k].alert]
          /\ rows[k].alert \in Alert /\ rows[k].seen \in Nat
      BY <1>0, <2>1 DEF BoardInv, Newest
    <3>2. version[rows[k].alert] <= version'[rows[k].alert] /\ version'[rows[k].alert] \in Nat
          /\ version[rows[k].alert] \in Nat
      BY <1>0, <1>2, <3>1
    <3> QED BY <2>1, <3>1, <3>2
  <2>2. ASSUME NEW r \in Request, Update(r) \/ Create(r), rows'[k].alert = Current(r),
               rows'[k].seen = request[r].batch[Current(r)]
        PROVE  /\ rows'[k].alert \in Alert /\ 0 < rows'[k].seen
               /\ rows'[k].seen <= version'[rows'[k].alert]
    <3>1. /\ Current(r) \in Alert /\ 0 < request[r].batch[Current(r)]
          /\ request[r].batch[Current(r)] <= version[Current(r)]
      BY <1>1, <2>2
    <3>2. version' = version
      BY <2>2 DEF Update, Create
    <3> QED BY <2>2, <3>1, <3>2
  <2> QED BY <2>1, <2>2, SeenSteps DEF BoardInv
<1> DEFINE Ahead(r) == request'[r].pc # "idle" => \A i \in request'[r].todo :
                         /\ 0 < request'[r].batch[Group[i]]
                         /\ \A k \in RowsOf(Group[i])' : rows'[k].seen <= request'[r].batch[Group[i]]
\* A payload holds what AlertManager sees now, and what is due has fired.
<1>4. ASSUME NEW r \in Request, Send(r) PROVE Ahead(r)
  <2>1. request'[r].batch = Batch /\ request'[r].todo = DuePlaces /\ rows' = rows
    BY <1>0, <1>4, SendBecomes DEF Becomes, Send
  <2>2. ASSUME NEW i \in DuePlaces
        PROVE  /\ 0 < Batch[Group[i]]
               /\ \A k \in RowsOf(Group[i]) : rows[k].seen <= Batch[Group[i]]
    <3>1. Group[i] \in Alert /\ Due(Group[i]) /\ Batch[Group[i]] = version[Group[i]]
      BY <2>2, GroupTyped DEF DuePlaces, Batch
    <3>2. version[Group[i]] # 0
      <4>1. delivered[Group[i]] <= version[Group[i]]
        BY <3>1 DEF BoardInv, Ordered
      <4> QED BY <1>0, <3>1, <4>1 DEF Due, Firing
    <3>3. \A k \in RowsOf(Group[i]) : rows[k].seen <= version[Group[i]]
      BY DEF RowsOf, BoardInv, Newest
    <3> QED BY <1>0, <3>1, <3>2, <3>3
  <2> QED BY <2>1, <2>2 DEF RowsOf
\* The others store what they go on with, or nothing.
<1>5. ASSUME NEW r \in Request, request[r].pc # "idle", request'[r].batch = request[r].batch,
             request'[r].todo \subseteq request[r].todo
      PROVE  Ahead(r)
  <2> SUFFICES ASSUME NEW i \in request[r].todo
               PROVE  /\ 0 < request[r].batch[Group[i]]
                      /\ \A k \in RowsOf(Group[i])' : rows'[k].seen <= request[r].batch[Group[i]]
    BY <1>5
  <2>1. /\ 0 < request[r].batch[Group[i]] /\ i \in DOMAIN Group /\ Group[i] \in Alert
        /\ \A k \in RowsOf(Group[i]) : rows[k].seen <= request[r].batch[Group[i]]
    BY <1>0, <1>5, GroupTyped DEF BoardInv, Newest
  <2>2. ASSUME NEW k \in RowsOf(Group[i])' PROVE rows'[k].seen <= request[r].batch[Group[i]]
    <3>0. k \in DOMAIN rows' /\ rows'[k].alert = Group[i]
      BY DEF RowsOf
    <3>1. CASE /\ k \in DOMAIN rows
               /\ rows'[k].alert = rows[k].alert /\ rows'[k].seen = rows[k].seen
      BY <2>1, <3>0, <3>1 DEF RowsOf
    <3>2. ASSUME NEW s \in Request, Update(s) \/ Create(s), rows'[k].alert = Current(s),
                 rows'[k].seen = request[s].batch[Current(s)]
          PROVE  rows'[k].seen <= request[r].batch[Group[i]]
      <4>1. s = r
        BY <1>1, <1>5, <3>2 DEF BoardInv, SerialInv, Alone
      <4>2. request[r].batch[Group[i]] \in Nat
        BY <1>0, <2>1
      <4> QED BY <3>0, <3>2, <4>1, <4>2
    <3> QED BY <3>0, <3>1, <3>2, SeenSteps DEF BoardInv
  <2> QED BY <2>1, <2>2
<1>6. ASSUME NEW r \in Request, Own(r) PROVE Ahead(r)
  <2>1. CASE Send(r)
    BY <1>4, <2>1
  <2>2. CASE Answer(r)
    <3>1. request'[r].pc = "idle"
      BY <1>0, <2>2 DEF Answer, IdleRequest
    <3> QED BY <3>1
  <2>3. CASE ~Send(r) /\ ~Answer(r)
    <3>1. /\ request[r].pc # "idle" /\ request'[r].batch = request[r].batch
          /\ request'[r].todo \subseteq request[r].todo
      BY <1>0, <1>6, <2>3, OwnMoves DEF Moves, Becomes, BoardInv
    <3> QED BY <1>5, <3>1
  <2> QED BY <2>1, <2>2, <2>3
<1>7. ASSUME NEW r \in Request, request'[r] = request[r] PROVE Ahead(r)
  BY <1>5, <1>7
<1> HIDE DEF Ahead
<1>8. \A r \in Request : Ahead(r)
  <2>1. ASSUME NEW r \in Request, Own(r) PROVE \A s \in Request : Ahead(s)
    BY <1>6, <1>7, <2>1, OthersStay DEF BoardInv
  <2>2. ASSUME request' = request PROVE \A s \in Request : Ahead(s)
    BY <1>7, <2>2
  <2> QED BY <2>1, <2>2, RequestSteps
<1> QED BY <1>3, <1>8 DEF Newest, Ahead

\* What the board shows, and what is acknowledged there.
shown  == [a \in Alert |-> ShownOf(a)]
marked == {a \in Alert : \E k \in RowsOf(a) : rows[k].ack}

LEMMA SameRows == rows' = rows => shown' = shown /\ marked' = marked
BY DEF shown, marked, ShownOf, RowsOf

LEMMA OnlyOne == \A S, k : S = {k} => (CHOOSE l \in S : TRUE) = k
OBVIOUS

\* What a request does to the row of the alert it stores, and to the others.
LEMMA Stores ==
  ASSUME BoardInv, NEW r \in Request, Update(r) \/ Create(r),
         NEW a \in Alert, a = Current(r), NEW v, v = request[r].batch[a]
  PROVE  /\ \E k \in DOMAIN rows' :
              /\ RowsOf(a)' = {k} /\ rows'[k].seen = v
              /\ \/ RowsOf(a) = {} /\ ~ rows'[k].ack
                 \/ RowsOf(a) = {k} /\ rows'[k].ack = rows[k].ack
         /\ \A b \in Alert : b # a =>
              RowsOf(b)' = RowsOf(b) /\ \A l \in RowsOf(b) : rows'[l] = rows[l]
<1>0. rows \in Seq(Row) /\ TypeInv
  BY DEF BoardInv, TypeInv, TypeOK
<1>1. CASE Update(r)
  <2>1. PICK k \in DOMAIN rows : RowsOf(a) = {k} /\ Saved(k, [rows[k] EXCEPT !.seen = v])
    BY <1>0, <1>1, UpdateSaves
  <2> DEFINE row == [rows[k] EXCEPT !.seen = v]
  <2>2. rows[k] \in Row /\ Saved(k, row)
    BY <1>0, <2>1
  <2>3. row.seen = v /\ row.ack = rows[k].ack
    BY <2>2 DEF Row
  <2> HIDE DEF row
  <2>4. /\ DOMAIN rows' = DOMAIN rows /\ rows'[k] = row /\ \A b : RowsOf(b)' = RowsOf(b)
        /\ \A l \in DOMAIN rows \ {k} : rows'[l] = rows[l]
    BY <1>0, <2>2, AfterSave
  <2>5. \A b \in Alert : b # a => \A l \in RowsOf(b) : l \in DOMAIN rows \ {k}
    BY <2>1 DEF RowsOf
  <2>6. RowsOf(a)' = {k} /\ rows'[k].seen = v /\ rows'[k].ack = rows[k].ack
    BY <2>1, <2>3, <2>4
  <2> QED BY <2>1, <2>4, <2>5, <2>6
<1>2. CASE Create(r)
  <2> DEFINE k == Len(rows) + 1
  <2>1. PICK row : /\ row.alert = a /\ row.seen = v /\ row.ack = FALSE
                   /\ Inserted(row)
    BY <1>0, <1>2, CreateInserts
  <2>2. /\ DOMAIN rows' = DOMAIN rows \cup {k} /\ rows'[k] = row
        /\ \A l \in DOMAIN rows : rows'[l] = rows[l]
        /\ RowsOf(a)' = RowsOf(a) \cup {k}
        /\ \A b : b # a => RowsOf(b)' = RowsOf(b)
    BY <1>0, <2>1, AfterInsert
  <2>3. RowsOf(a) = {}
    BY <1>2 DEF BoardInv, SerialInv, Single, Create
  <2>4. \A b : RowsOf(b) \subseteq DOMAIN rows
    BY DEF RowsOf
  <2> HIDE DEF k
  <2> QED BY <2>1, <2>2, <2>3, <2>4
<1> QED BY <1>1, <1>2

LEMMA StoreIsNotify ==
  ASSUME BoardInv, NEW r \in Request, Update(r) \/ Create(r)
  PROVE  \/ \E a \in Alert : \E v \in 1 .. version[a] : Board!Notify(a, v)
         \/ version' = version /\ shown' = shown /\ marked' = marked
<1>0. Current(r) \in Alert
  BY CurrentIsAlert DEF BoardInv, TypeInv, Placed, Update, Create
<1> PICK a \in Alert : a = Current(r)
  BY <1>0
<1> PICK v : v = request[r].batch[a]
  OBVIOUS
<1>1. /\ v \in Nat /\ version[a] \in Nat /\ 0 < v /\ v <= version[a]
      /\ \A k \in RowsOf(a) : rows[k].seen <= v /\ rows[k].seen \in Nat
  <2>1. /\ request[r].todo \in SUBSET DOMAIN Group /\ request[r].todo # {} /\ request[r].pc # "idle"
        /\ request[r].batch \in [Alert -> Version] /\ version \in [Alert -> Version]
        /\ rows \in Seq(Row)
    BY DEF Update, Create, BoardInv, TypeInv, TypeOK, Placed, RequestState
  <2>2. First(request[r].todo) \in request[r].todo
    BY <2>1, FirstIsLeft DEF Current
  <2>3. /\ 0 < v /\ v <= version[a]
        /\ \A k \in RowsOf(a) : rows[k].seen <= v
    BY <2>1, <2>2 DEF BoardInv, Newest, Ordered, Current
  <2>4. \A k \in RowsOf(a) : rows[k].seen \in Version
    <3>1. \A k \in RowsOf(a) : rows[k] \in Row
      BY <2>1 DEF RowsOf
    <3> QED BY <3>1 DEF Row
  <2>5. v \in Version /\ version[a] \in Version /\ Version \subseteq Nat
    BY <2>1, <2>2, BoundAssumption DEF Version
  <2> QED BY <2>3, <2>4, <2>5
<1>2. PICK k \in DOMAIN rows' :
        /\ RowsOf(a)' = {k} /\ rows'[k].seen = v
        /\ \/ RowsOf(a) = {} /\ ~ rows'[k].ack
           \/ RowsOf(a) = {k} /\ rows'[k].ack = rows[k].ack
  BY Stores
<1>3. \A b \in Alert : b # a => RowsOf(b)' = RowsOf(b) /\ \A l \in RowsOf(b) : rows'[l] = rows[l]
  BY Stores
<1>4. version' = version
  BY DEF Update, Create
<1>5. ShownOf(a)' = v
  BY <1>2, OnlyOne DEF ShownOf
<1>6. \A b \in Alert : b # a => ShownOf(b)' = ShownOf(b)
  <2> SUFFICES ASSUME NEW b \in Alert, b # a PROVE ShownOf(b)' = ShownOf(b)
    OBVIOUS
  <2> DEFINE l == CHOOSE m \in RowsOf(b) : TRUE
  <2>1. RowsOf(b)' = RowsOf(b) /\ l' = l
    BY <1>3
  <2>2. RowsOf(b) # {} => rows'[l] = rows[l]
    BY <1>3
  <2> QED BY <2>1, <2>2 DEF ShownOf
<1>7. shown' = [shown EXCEPT ![a] = v]
  <2>1. shown' = [b \in Alert |-> IF b = a THEN v ELSE ShownOf(b)]
    BY <1>5, <1>6 DEF shown
  <2>2. [shown EXCEPT ![a] = v] = [b \in Alert |-> IF b = a THEN v ELSE ShownOf(b)]
    BY DEF shown
  <2> QED BY <2>1, <2>2
<1>8. marked' = marked
  <2>1. (\E l \in RowsOf(a)' : rows'[l].ack) <=> \E l \in RowsOf(a) : rows[l].ack
    BY <1>2
  <2> QED BY <1>3, <2>1 DEF marked
<1>9. shown[a] <= v /\ shown[a] \in Nat
  <2>1. CASE RowsOf(a) = {}
    BY <1>1, <2>1 DEF shown, ShownOf
  <2>2. CASE RowsOf(a) = {k}
    BY <1>1, <2>2, OnlyOne DEF shown, ShownOf
  <2> QED BY <1>2, <2>1, <2>2
<1>10. CASE shown[a] = v
  BY <1>1, <1>4, <1>7, <1>8, <1>10 DEF shown
<1>11. CASE shown[a] # v
  <2>1. shown[a] < v /\ v \in 1 .. version[a]
    BY <1>1, <1>9, <1>11
  <2>2. Board!Notify(a, v)
    BY <1>1, <1>4, <1>7, <1>8, <2>1 DEF Board!Notify, shown, marked
  <2> QED BY <1>1, <2>1, <2>2
<1> QED BY <1>10, <1>11

LEMMA AcknowledgeIsAcknowledge ==
  ASSUME BoardInv, NEW k \in DOMAIN rows, Acknowledge(k)
  PROVE  \E a \in Alert : Board!Acknowledge(a)
<1> DEFINE row == [rows[k] EXCEPT !.ack = TRUE]
<1>0. rows \in Seq(Row) /\ TypeInv /\ rows[k] \in Row
  BY DEF BoardInv, TypeInv, TypeOK
<1> PICK a \in Alert : a = rows[k].alert
  BY DEF BoardInv, Newest
<1>1. Saved(k, row) /\ row.seen = rows[k].seen /\ row.ack
  BY <1>0, AcknowledgeSaves DEF Row
<1> HIDE DEF row
<1>2. /\ rows'[k] = row /\ \A b : RowsOf(b)' = RowsOf(b)
      /\ \A l \in DOMAIN rows \ {k} : rows'[l] = rows[l]
  BY <1>0, <1>1, AfterSave
<1>3. \A l \in DOMAIN rows : rows'[l].seen = rows[l].seen
  BY <1>1, <1>2
<1>4. k \in RowsOf(a) /\ \A b \in Alert : RowsOf(b) \subseteq DOMAIN rows /\ (k \in RowsOf(b) => b = a)
  BY DEF RowsOf
<1>5. shown' = shown
  <2>1. ASSUME NEW b \in Alert PROVE ShownOf(b)' = ShownOf(b)
    <3>1. CASE RowsOf(b) = {}
      BY <1>2, <3>1 DEF ShownOf
    <3>2. CASE RowsOf(b) # {}
      <4>1. (CHOOSE l \in RowsOf(b) : TRUE) \in DOMAIN rows
        BY <1>4, <3>2
      <4>2. (CHOOSE l \in RowsOf(b) : TRUE)' = (CHOOSE l \in RowsOf(b) : TRUE)
        BY <1>2
      <4> QED BY <1>2, <1>3, <3>2, <4>1, <4>2 DEF ShownOf
    <3> QED BY <3>1, <3>2
  <2> QED BY <2>1 DEF shown
<1>6. marked' = marked \cup {a}
  <2>1. \A b \in Alert : b # a => \A l \in RowsOf(b) : rows'[l] = rows[l]
    BY <1>2, <1>4
  <2>2. \A b \in Alert : b # a =>
          ((\E l \in RowsOf(b)' : rows'[l].ack) <=> \E l \in RowsOf(b) : rows[l].ack)
    BY <1>2, <2>1
  <2>3. \E l \in RowsOf(a)' : rows'[l].ack
    BY <1>1, <1>2, <1>4
  <2> QED BY <1>1, <2>2, <2>3 DEF marked
<1>7. shown[a] > 0
  <2>1. RowsOf(a) = {k}
    BY <1>1, <1>4 DEF BoardInv, SerialInv, Single
  <2>2. 0 < rows[k].seen /\ rows[k].seen \in Nat
    <3>1. 0 < rows[k].seen /\ rows[k].seen \in Version /\ Version \subseteq Nat
      BY <1>0, BoundAssumption DEF BoardInv, Newest, Row, Version
    <3> QED BY <3>1
  <2>3. shown[a] = rows[k].seen
    BY <1>1, <2>1, OnlyOne DEF shown, ShownOf
  <2> QED BY <2>2, <2>3
<1>8. Board!Acknowledge(a)
  BY <1>5, <1>6, <1>7 DEF Board!Acknowledge, shown, marked, Acknowledge
<1> QED BY <1>1, <1>8

LEMMA StepOfBoard ==
  ASSUME Patcher = {}, BoardInv, [Next]_vars
  PROVE  [Board!Next]_(Board!vars)
<1> DEFINE Step == \/ \E a \in Alert : \/ Board!Change(a) \/ Board!Acknowledge(a)
                                       \/ \E v \in 1 .. version[a] : Board!Notify(a, v)
                   \/ version' = version /\ shown' = shown /\ marked' = marked
<1>1. Step => [Board!Next]_(Board!vars)
  BY DEF Board!Next, Board!vars, shown, marked
<1> HIDE DEF Step
<1>2. ASSUME NEW r \in Request, Update(r) \/ Create(r) PROVE Step
  BY <1>2, StoreIsNotify DEF Step
<1>3. ASSUME NEW k \in DOMAIN rows, Acknowledge(k) PROVE Step
  BY <1>3, AcknowledgeIsAcknowledge DEF Step
<1>4. ASSUME NEW a \in Alert, Change(a) PROVE Step
  <2>1. rows' = rows /\ version' = [version EXCEPT ![a] = @ + 1]
    BY <1>4 DEF Change
  <2>2. Board!Change(a)
    BY <2>1, SameRows DEF Board!Change, shown, marked
  <2> QED BY <2>2 DEF Step
<1>5. ASSUME rows' = rows, version' = version PROVE Step
  BY <1>5, SameRows DEF Step
<1>6. ASSUME NEW r \in Request, \/ Send(r) \/ Answer(r) \/ Die(r) \/ LoseDevice(r) \/ Miss(r) \/ FindTwo(r)
                                \/ Reject(r) \/ Reply(r)
      PROVE  Step
  BY <1>5, <1>6 DEF Send, Answer, Die, LoseDevice, Miss, FindTwo, Reject, Reply
<1>7. ASSUME \/ GiveUp \/ UNCHANGED vars PROVE Step
  BY <1>5, <1>7 DEF GiveUp, vars
<1> QED BY <1>1, <1>2, <1>3, <1>4, <1>6, <1>7 DEF Next, Webhook

\* While AlertManager waits for its answers and nobody PATCHes, the table keeps
\* what it promises: it shows states the alert had, in their order, and keeps
\* acknowledgements, whatever fails, dies and is sent again.
THEOREM TableKept == ASSUME ~Overlap, Patcher = {} PROVE Spec => TableIsBoard
<1>1. Init => Board!Init /\ Newest
  <2> SUFFICES ASSUME Init PROVE Board!Init /\ Newest
    OBVIOUS
  <2>1. rows = << >> /\ version = Unread /\ \A r \in Request : request[r].pc = "idle"
    BY DEF Init, IdleRequest
  <2>2. \A a : RowsOf(a) = {}
    BY <2>1 DEF RowsOf
  <2>3. Newest
    BY <2>1 DEF Newest
  <2> QED BY <2>1, <2>2, <2>3 DEF Board!Init, ShownOf, Unread
<1>2. BoardInv /\ [Next]_vars => Newest'
  BY NewestStep
<1>3. Spec => []SerialInv
  BY SerialInvariant
<1>4. Spec => [](Ordered /\ ShownSoFar)
  BY ShownInvariant
<1>5. BoardInv /\ [Next]_vars => [Board!Next]_(Board!vars)
  BY StepOfBoard
<1> QED BY <1>1, <1>2, <1>3, <1>4, <1>5, TypeInvariant, PTL DEF Spec, BoardInv, TableIsBoard, Board!Spec
=============================================================================
