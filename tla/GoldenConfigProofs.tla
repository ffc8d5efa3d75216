------------------------- MODULE GoldenConfigProofs -------------------------
(***************************************************************************)
(* Theorems about GoldenConfig, for every set of devices, tasks, requests  *)
(* and configurations and every number of snapshots.                       *)
(***************************************************************************)
EXTENDS GoldenConfig, TLAPS

-----------------------------------------------------------------------------
(* Which actions write which variable                                      *)

LEMMA WritesOfSnapshots ==
  [Next]_vars =>
    \/ UNCHANGED <<snapshot, issued, blessed>>
    \/ \E c \in Check : StoreSnapshot(c) \/ PromoteCurrent(c)
    \/ \E p \in Promotion : UnsetGolden(p) \/ SetGolden(p)
    \/ \E d \in Device : DeleteDevice(d)
BY DEF Next, vars, StartTask, Task, FetchDevice, ReadConfig, ReadFails, ReportError,
       FindGolden, ReportFirst, ReportDrift, WriteAudit, RowIsGone, KillCheck,
       GetSnapshot, SetGoldenRaises, PromotionDies, Configure

LEMMA WritesOfPromotions ==
  [Next]_vars =>
    \/ UNCHANGED promotion
    \/ \E p \in Promotion, s \in Snap : GetSnapshot(p, s)
    \/ \E p \in Promotion :
         UnsetGolden(p) \/ SetGolden(p) \/ SetGoldenRaises(p) \/ PromotionDies(p)
BY DEF Next, vars, StartTask, Task, FetchDevice, ReadConfig, ReadFails, ReportError,
       StoreSnapshot, FindGolden, PromoteCurrent, ReportFirst, ReportDrift, WriteAudit,
       RowIsGone, KillCheck, Configure, DeleteDevice

LEMMA WritesOfChecks ==
  [Next]_vars =>
    \/ UNCHANGED check
    \/ \E c \in Check, kind \in Kinds, d \in Device : StartTask(c, kind, d)
    \/ \E c \in Check : Task(c) \/ KillCheck(c)
BY DEF Next, vars, GetSnapshot, UnsetGolden, SetGolden, SetGoldenRaises, PromotionDies,
       Configure, DeleteDevice

LEMMA WritesOfReports ==
  [Next]_vars =>
    \/ UNCHANGED report
    \/ \E c \in Check : ReportError(c) \/ ReportFirst(c) \/ ReportDrift(c)
    \/ \E d \in Device : DeleteDevice(d)
BY DEF Next, vars, StartTask, Task, FetchDevice, ReadConfig, ReadFails, StoreSnapshot,
       FindGolden, PromoteCurrent, WriteAudit, RowIsGone, KillCheck, GetSnapshot,
       UnsetGolden, SetGolden, SetGoldenRaises, PromotionDies, Configure

LEMMA WritesOfDevices ==
  [Next]_vars => UNCHANGED device \/ \E d \in Device : DeleteDevice(d)
BY DEF Next, vars, StartTask, Task, FetchDevice, ReadConfig, ReadFails, ReportError,
       StoreSnapshot, FindGolden, PromoteCurrent, ReportFirst, ReportDrift, WriteAudit,
       RowIsGone, KillCheck, GetSnapshot, UnsetGolden, SetGolden, SetGoldenRaises,
       PromotionDies, Configure

-----------------------------------------------------------------------------
(* Type correctness                                                        *)

\* A task that is to read a device knows which, and one that is to change or
\* compare a snapshot has it.
LocalsSet ==
  /\ \A c \in Check :
       /\ check[c].pc = "read" => check[c].device \in Device
       /\ check[c].pc \in {"find", "promote", "first", "compare"} => check[c].snap \in Snap
  /\ \A p \in Promotion : promotion[p].pc \in {"read", "unset"} => promotion[p].snap \in Snap

TypeInv == TypeOK /\ LocalsSet

LEMMA InitTyped == Init => TypeInv
BY BoundAssumption
   DEF Init, TypeInv, TypeOK, LocalsSet, Snap, SnapRow, NoRow, CheckState, CheckPc,
       Ended, PromotionState, PromotionPc, ReportRow

\* The locals of one task, when it is to read, change or compare a snapshot.
LocalsOf(l) ==
  /\ l.pc = "read" => l.device \in Device
  /\ l.pc \in {"find", "promote", "first", "compare"} => l.snap \in Snap

LEMMA ChecksTyped ==
  ASSUME TypeInv, [Next]_vars
  PROVE  check' \in [Check -> CheckState] /\ \A c \in Check : LocalsOf(check'[c])
<1>0. /\ check \in [Check -> CheckState]
      /\ \A c \in Check : LocalsOf(check[c])
  BY DEF TypeInv, TypeOK, LocalsSet, LocalsOf
<1>a. /\ device \subseteq Device
      /\ live \in [Device -> Config]
      /\ issued \in 0 .. MaxSnapshots
      /\ MaxSnapshots \in Nat
      /\ Kinds \subseteq {"drift", "snapshot", "golden"}
  BY BoundAssumption, KindsAssumption DEF TypeInv, TypeOK
<1> DEFINE Typed == check' \in [Check -> CheckState] /\ \A c \in Check : LocalsOf(check'[c])
<1>b. ASSUME NEW c \in Check, NEW l \in CheckState, LocalsOf(l), check' = [check EXCEPT ![c] = l]
      PROVE  Typed
  <2>1. check' \in [Check -> CheckState]
    BY <1>0, <1>b
  <2>2. check'[c] = l /\ \A e \in Check \ {c} : check'[e] = check[e]
    BY <1>0, <1>b
  <2>3. ASSUME NEW e \in Check PROVE LocalsOf(check'[e])
    <3>1. CASE e = c
      BY <1>b, <2>2, <3>1
    <3>2. CASE e # c
      BY <1>0, <2>2, <3>2 DEF LocalsOf
    <3> QED BY <3>1, <3>2
  <2> QED BY <2>1, <2>3
<1>c. ASSUME NEW c \in Check, NEW pc \in CheckPc \ {"read", "find", "promote", "first", "compare"},
             Goto(c, pc)
      PROVE  Typed
  <2>1. [check[c] EXCEPT !.pc = pc] \in CheckState /\ LocalsOf([check[c] EXCEPT !.pc = pc])
    BY <1>0 DEF CheckState, LocalsOf
  <2> QED BY <1>b, <1>c, <2>1 DEF Goto
<1> HIDE DEF Typed
<1>1. ASSUME NEW c \in Check, NEW kind \in Kinds, NEW d \in Device, StartTask(c, kind, d)
      PROVE  Typed
  <2> DEFINE l == [check[c] EXCEPT !.pc = "queued", !.kind = kind, !.device = d]
  <2>1. check[c] \in CheckState /\ kind \in {"drift", "snapshot", "golden"}
    BY <1>0, <1>a
  <2>2. l \in CheckState
    BY <2>1 DEF CheckState, CheckPc
  <2>3. l.pc = "queued"
    BY <2>1 DEF CheckState
  <2>4. LocalsOf(l)
    BY <2>3 DEF LocalsOf
  <2>5. check' = [check EXCEPT ![c] = l]
    BY <1>1 DEF StartTask
  <2> HIDE DEF l
  <2> QED BY <1>b, <2>2, <2>4, <2>5
<1>2. ASSUME NEW c \in Check, FetchDevice(c) PROVE Typed
  <2> DEFINE l == [check[c] EXCEPT !.pc = "read"]
  <2>1. CASE check[c].device \in device
    <3>1. l \in CheckState /\ LocalsOf(l)
      BY <1>0, <1>a, <2>1 DEF CheckState, CheckPc, LocalsOf
    <3> QED BY <1>b, <1>2, <2>1, <3>1 DEF FetchDevice, Goto
  <2>2. CASE check[c].device \notin device
    BY <1>c, <1>2, <2>2 DEF FetchDevice, CheckPc, Ended
  <2> QED BY <2>1, <2>2
<1>3. ASSUME NEW c \in Check, ReadConfig(c) PROVE Typed
  <2> DEFINE l == [check[c] EXCEPT !.pc = "store", !.config = live[check[c].device]]
  <2>1. live[check[c].device] \in Config
    BY <1>0, <1>a, <1>3 DEF ReadConfig, LocalsOf
  <2>2. l \in CheckState /\ LocalsOf(l)
    BY <1>0, <2>1 DEF CheckState, CheckPc, LocalsOf
  <2> QED BY <1>b, <1>3, <2>2 DEF ReadConfig
<1>4. ASSUME NEW c \in Check, StoreSnapshot(c) PROVE Typed
  <2> DEFINE l == [check[c] EXCEPT !.pc = IF check[c].kind = "drift" THEN "find" ELSE "audit",
                                   !.snap = issued + 1]
  <2>1. issued + 1 \in Snap
    BY <1>a, <1>4 DEF StoreSnapshot, Snap
  <2>2. check' = [check EXCEPT ![c] = l]
    BY <1>4 DEF StoreSnapshot
  <2>3. check[c] \in CheckState /\ issued + 1 \in Snap \cup {0}
    BY <1>0, <2>1
  <2>4. l \in CheckState
    BY <2>3 DEF CheckState, CheckPc
  <2>5. l.pc \in {"find", "audit"} /\ l.snap = issued + 1
    BY <2>3 DEF CheckState
  <2> HIDE DEF l
  <2>6. LocalsOf(l)
    BY <2>1, <2>5 DEF LocalsOf
  <2> QED BY <1>b, <2>2, <2>4, <2>6
<1>5. ASSUME NEW c \in Check, FindGolden(c) PROVE Typed
  <2>1. ASSUME NEW s \in Snap,
               check' = [check EXCEPT ![c] = [check[c] EXCEPT !.pc = "compare", !.golden = s]]
        PROVE  Typed
    <3> DEFINE l == [check[c] EXCEPT !.pc = "compare", !.golden = s]
    <3>1. check[c] \in CheckState /\ check[c].snap \in Snap
      BY <1>0, <1>5 DEF LocalsOf, FindGolden
    <3>2. l \in CheckState
      BY <3>1 DEF CheckState, CheckPc
    <3>3. l.pc = "compare" /\ l.snap \in Snap
      BY <3>1 DEF CheckState
    <3>4. check' = [check EXCEPT ![c] = l]
      BY <2>1
    <3> HIDE DEF l
    <3>5. LocalsOf(l)
      BY <3>3 DEF LocalsOf
    <3> QED BY <1>b, <3>2, <3>4, <3>5
  <2>2. ASSUME Goto(c, "promote") PROVE Typed
    <3> DEFINE l == [check[c] EXCEPT !.pc = "promote"]
    <3>1. check[c] \in CheckState /\ check[c].snap \in Snap
      BY <1>0, <1>5 DEF LocalsOf, FindGolden
    <3>2. l \in CheckState
      BY <3>1 DEF CheckState, CheckPc
    <3>3. l.pc = "promote" /\ l.snap \in Snap
      BY <3>1 DEF CheckState
    <3>4. check' = [check EXCEPT ![c] = l]
      BY <2>2 DEF Goto
    <3> HIDE DEF l
    <3>5. LocalsOf(l)
      BY <3>3 DEF LocalsOf
    <3> QED BY <1>b, <3>2, <3>4, <3>5
  <2> QED BY <1>5, <2>1, <2>2 DEF FindGolden
<1>6. ASSUME NEW c \in Check, PromoteCurrent(c) PROVE Typed
  <2> DEFINE l == [check[c] EXCEPT !.pc = "first"]
  <2>1. l \in CheckState /\ LocalsOf(l)
    BY <1>0, <1>6 DEF CheckState, CheckPc, LocalsOf, PromoteCurrent
  <2> QED BY <1>b, <1>6, <2>1 DEF PromoteCurrent, Goto
<1>7. ASSUME NEW c \in Check,
             ReadFails(c) \/ ReportError(c) \/ ReportFirst(c) \/ ReportDrift(c) \/ WriteAudit(c)
      PROVE  Typed
  BY <1>c, <1>7 DEF ReadFails, ReportError, ReportFirst, ReportDrift, WriteAudit, CheckPc, Ended
<1>8. ASSUME NEW c \in Check, RowIsGone(c) \/ KillCheck(c) PROVE Typed
  BY <1>c, <1>8 DEF RowIsGone, KillCheck, CheckPc, Ended
<1>9. ASSUME check' = check PROVE Typed
  BY <1>0, <1>9 DEF Typed
<1>10. ASSUME NEW c \in Check, Task(c) PROVE Typed
  BY <1>2, <1>3, <1>4, <1>5, <1>6, <1>7, <1>8, <1>10 DEF Task
<1>11. ASSUME NEW c \in Check, KillCheck(c) PROVE Typed
  BY <1>8, <1>11
<1>12. Typed
  <2>1. CASE \E c \in Check, kind \in Kinds, d \in Device : StartTask(c, kind, d)
    BY <1>1, <2>1
  <2>2. CASE \E c \in Check : Task(c) \/ KillCheck(c)
    BY <1>10, <1>11, <2>2
  <2>3. \/ check' = check
        \/ \E c \in Check, kind \in Kinds, d \in Device : StartTask(c, kind, d)
        \/ \E c \in Check : Task(c) \/ KillCheck(c)
    BY WritesOfChecks
  <2> QED BY <1>9, <2>1, <2>2, <2>3
<1> QED BY <1>12 DEF Typed

LEMMA PromotionsTyped ==
  ASSUME TypeInv, [Next]_vars
  PROVE  /\ promotion' \in [Promotion -> PromotionState]
         /\ \A p \in Promotion : promotion'[p].pc \in {"read", "unset"} => promotion'[p].snap \in Snap
<1>0. /\ promotion \in [Promotion -> PromotionState]
      /\ snapshot \in [Snap -> SnapRow]
      /\ \A p \in Promotion : promotion[p].pc \in {"read", "unset"} => promotion[p].snap \in Snap
  BY DEF TypeInv, TypeOK, LocalsSet
<1> USE DEF PromotionState, PromotionPc
<1>1. ASSUME NEW p \in Promotion, NEW s \in Snap, GetSnapshot(p, s)
      PROVE  /\ promotion' \in [Promotion -> PromotionState]
             /\ \A q \in Promotion :
                  promotion'[q].pc \in {"read", "unset"} => promotion'[q].snap \in Snap
  BY <1>0, <1>1 DEF GetSnapshot, SnapRow
<1>2. ASSUME NEW p \in Promotion,
             UnsetGolden(p) \/ SetGolden(p) \/ SetGoldenRaises(p) \/ PromotionDies(p)
      PROVE  /\ promotion' \in [Promotion -> PromotionState]
             /\ \A q \in Promotion :
                  promotion'[q].pc \in {"read", "unset"} => promotion'[q].snap \in Snap
  BY <1>0, <1>2 DEF UnsetGolden, SetGolden, SetGoldenRaises, PromotionDies
<1> QED BY <1>0, <1>1, <1>2, WritesOfPromotions

LEMMA SnapshotsTyped ==
  ASSUME TypeInv, [Next]_vars
  PROVE  /\ snapshot' \in [Snap -> SnapRow]
         /\ issued' \in 0 .. MaxSnapshots
         /\ blessed' \subseteq Snap
<1>0. /\ snapshot \in [Snap -> SnapRow]
      /\ issued \in 0 .. MaxSnapshots
      /\ MaxSnapshots \in Nat
      /\ blessed \subseteq Snap
      /\ check \in [Check -> CheckState]
      /\ device \subseteq Device
      /\ \A c \in Check : check[c].pc = "promote" => check[c].snap \in Snap
      /\ \A p \in Promotion : promotion[p].pc = "unset" => promotion[p].snap \in Snap
  BY BoundAssumption DEF TypeInv, TypeOK, LocalsSet
<1> DEFINE Typed == /\ snapshot' \in [Snap -> SnapRow]
                    /\ issued' \in 0 .. MaxSnapshots
                    /\ blessed' \subseteq Snap
<1>1. ASSUME NEW c \in Check, StoreSnapshot(c) PROVE Typed
  <2>1. issued + 1 \in Snap /\ issued' = issued + 1
    BY <1>0, <1>1 DEF StoreSnapshot, Snap
  <2>2. [device |-> check[c].device, config |-> check[c].config,
         golden |-> (check[c].kind = "golden")] \in SnapRow
    BY <1>0 DEF CheckState, SnapRow
  <2> QED BY <1>0, <1>1, <2>1, <2>2 DEF StoreSnapshot, Snap
<1>2. ASSUME NEW c \in Check, PromoteCurrent(c) PROVE Typed
  BY <1>0, <1>2 DEF PromoteCurrent, SnapRow
<1>3. ASSUME NEW p \in Promotion, UnsetGolden(p) PROVE Typed
  BY <1>0, <1>3 DEF UnsetGolden, SnapRow
<1>4. ASSUME NEW p \in Promotion, SetGolden(p) PROVE Typed
  BY <1>0, <1>4 DEF SetGolden, SnapRow
<1>5. ASSUME NEW d \in Device, DeleteDevice(d) PROVE Typed
  BY <1>0, <1>5 DEF DeleteDevice, SnapRow, NoRow
<1> QED BY <1>0, <1>1, <1>2, <1>3, <1>4, <1>5, WritesOfSnapshots

LEMMA ReportsTyped ==
  ASSUME TypeInv, [Next]_vars
  PROVE  report' \subseteq ReportRow
<1>0. /\ report \subseteq ReportRow
      /\ device \subseteq Device
      /\ check \in [Check -> CheckState]
  BY DEF TypeInv, TypeOK
<1>1. ASSUME NEW c \in Check, ReportError(c) \/ ReportFirst(c) \/ ReportDrift(c)
      PROVE  report' \subseteq ReportRow
  BY <1>0, <1>1 DEF ReportError, ReportFirst, ReportDrift, AddReport, ReportRow, CheckState
<1>2. ASSUME NEW d \in Device, DeleteDevice(d) PROVE report' \subseteq ReportRow
  BY <1>0, <1>2 DEF DeleteDevice
<1> QED BY <1>0, <1>1, <1>2, WritesOfReports

LEMMA RestTyped ==
  ASSUME TypeInv, [Next]_vars
  PROVE  device' \subseteq Device /\ live' \in [Device -> Config] /\ audit' \subseteq Check
<1>0. device \subseteq Device /\ live \in [Device -> Config] /\ audit \subseteq Check
  BY DEF TypeInv, TypeOK
<1>1. device' \subseteq Device
  BY <1>0, WritesOfDevices DEF DeleteDevice
<1>2. live' \in [Device -> Config] /\ audit' \subseteq Check
  BY <1>0 DEF Next, vars, StartTask, Task, FetchDevice, ReadConfig, ReadFails, ReportError,
       StoreSnapshot, FindGolden, PromoteCurrent, ReportFirst, ReportDrift, WriteAudit,
       RowIsGone, KillCheck, GetSnapshot, UnsetGolden, SetGolden, SetGoldenRaises,
       PromotionDies, Configure, DeleteDevice
<1> QED BY <1>1, <1>2

LEMMA TypeStep == TypeInv /\ [Next]_vars => TypeInv'
<1> SUFFICES ASSUME TypeInv, [Next]_vars PROVE TypeInv'
  OBVIOUS
<1>1. Snap' = Snap /\ SnapRow' = SnapRow /\ CheckState' = CheckState
  BY DEF Snap, SnapRow, CheckState, CheckPc, Ended
<1> QED
  BY ChecksTyped, PromotionsTyped, SnapshotsTyped, ReportsTyped, RestTyped
     DEF TypeInv, TypeOK, LocalsSet, LocalsOf

LEMMA TypeInvariant == Spec => []TypeInv
<1> QED BY InitTyped, TypeStep, PTL DEF Spec

\* Every reachable row and local has its type, for any number of snapshots.
THEOREM TypeCorrect == Spec => []TypeOK
<1> QED BY TypeInvariant, PTL DEF TypeInv

-----------------------------------------------------------------------------
(* The rows, and what tasks and requests know of them                      *)

\* Keys are given out in order and rows are removed only with their device;
\* what is golden has been made golden.
Ledger ==
  /\ \A s \in Snap : snapshot[s].golden => s \in blessed
  /\ \A s \in Snap : s > issued => s \notin blessed /\ snapshot[s].device = None
  /\ \A s \in Snap : snapshot[s].device \in device \cup {None}

\* The snapshot of a set_golden request is of the device it read from it,
\* until the device is deleted.
PromotionRow ==
  \A p \in Promotion : promotion[p].pc \in {"read", "unset"} =>
    LET s == promotion[p].snap IN
    /\ s <= issued
    /\ \/ snapshot[s].device = promotion[p].device
       \/ snapshot[s].device = None /\ promotion[p].device \notin device

\* A drift check in progress compares a baseline of its device with the
\* snapshot that holds what it read.
CheckRow ==
  \A c \in Check :
    /\ check[c].device \in device /\ check[c].pc \in {"find", "promote", "first", "compare"} =>
         /\ snapshot[check[c].snap].device = check[c].device
         /\ snapshot[check[c].snap].config = check[c].config
    /\ check[c].pc = "first" => check[c].snap \in blessed
    /\ check[c].pc = "compare" =>
         /\ check[c].golden \in blessed
         /\ check[c].device \in device => snapshot[check[c].golden].device = check[c].device

RowsInv == TypeInv /\ Ledger /\ PromotionRow /\ CheckRow

LEMMA InitRows == Init => RowsInv
<1> SUFFICES ASSUME Init PROVE Ledger /\ PromotionRow /\ CheckRow
  BY InitTyped DEF RowsInv
<1> QED BY DEF Init, Ledger, PromotionRow, CheckRow, Snap, NoRow

\* No row is rewritten: it goes with its device or keeps device and text.
RowsKept ==
  /\ device' \subseteq device
  /\ issued <= issued'
  /\ blessed \subseteq blessed'
  /\ \A s \in Snap : s <= issued =>
       \/ /\ snapshot'[s].device = snapshot[s].device
          /\ snapshot'[s].config = snapshot[s].config
       \/ /\ snapshot'[s].device = None
          /\ snapshot[s].device \notin device'

LEMMA RowsAreKept ==
  ASSUME TypeInv, [Next]_vars
  PROVE  RowsKept
<1>0. /\ snapshot \in [Snap -> SnapRow]
      /\ issued \in Nat
  BY BoundAssumption DEF TypeInv, TypeOK
<1>1. device' \subseteq device
  BY WritesOfDevices DEF DeleteDevice
<1>2. CASE UNCHANGED <<snapshot, issued, blessed>>
  BY <1>0, <1>1, <1>2 DEF RowsKept
<1>3. ASSUME NEW c \in Check, StoreSnapshot(c) PROVE RowsKept
  BY <1>0, <1>1, <1>3 DEF StoreSnapshot, RowsKept, Snap
<1>4. ASSUME NEW c \in Check, PromoteCurrent(c) PROVE RowsKept
  BY <1>0, <1>1, <1>4 DEF PromoteCurrent, RowsKept, SnapRow
<1>5. ASSUME NEW p \in Promotion, UnsetGolden(p) PROVE RowsKept
  BY <1>0, <1>1, <1>5 DEF UnsetGolden, RowsKept, SnapRow
<1>6. ASSUME NEW p \in Promotion, SetGolden(p) PROVE RowsKept
  BY <1>0, <1>1, <1>6 DEF SetGolden, RowsKept, SnapRow
<1>7. ASSUME NEW d \in Device, DeleteDevice(d) PROVE RowsKept
  BY <1>0, <1>1, <1>7 DEF DeleteDevice, RowsKept, SnapRow, NoRow
<1> QED BY <1>2, <1>3, <1>4, <1>5, <1>6, <1>7, WritesOfSnapshots

LEMMA LedgerStep ==
  ASSUME RowsInv, [Next]_vars
  PROVE  Ledger'
<1>0. /\ TypeInv
      /\ Ledger
      /\ snapshot \in [Snap -> SnapRow]
      /\ issued \in Nat
      /\ device \subseteq Device
      /\ check \in [Check -> CheckState]
      /\ \A c \in Check : check[c].pc = "promote" => check[c].snap \in Snap
      /\ \A p \in Promotion : promotion[p].pc = "unset" => promotion[p].snap \in Snap
      /\ None \notin Device
  BY BoundAssumption, NoneAssumption DEF RowsInv, TypeInv, TypeOK, LocalsSet
<1>a. Snap' = Snap
  BY DEF Snap
<1>1. ASSUME UNCHANGED <<snapshot, issued, blessed>> PROVE Ledger'
  <2>1. CASE UNCHANGED device
    BY <1>0, <1>a, <1>1, <2>1 DEF Ledger
  <2>2. ASSUME NEW d \in Device, DeleteDevice(d) PROVE Ledger'
    BY <1>0, <1>a, <1>1, <2>2 DEF Ledger, DeleteDevice, NoRow, SnapRow
  <2> QED BY <2>1, <2>2, WritesOfDevices
<1>2. ASSUME NEW c \in Check, StoreSnapshot(c) PROVE Ledger'
  <2>1. /\ \A s \in Snap \ {issued + 1} : snapshot'[s] = snapshot[s]
        /\ issued + 1 \in Snap =>
             snapshot'[issued + 1] = [device |-> check[c].device, config |-> check[c].config,
                                      golden |-> (check[c].kind = "golden")]
        /\ issued' = issued + 1
        /\ device' = device
        /\ check[c].device \in device
        /\ blessed' = IF check[c].kind = "golden" THEN blessed \cup {issued + 1} ELSE blessed
    BY <1>0, <1>2 DEF StoreSnapshot
  <2>2. issued + 1 \in Snap /\ \A s \in Snap : s \in Nat
    BY <1>0, <1>2 DEF StoreSnapshot, Snap
  <2>3. \A s \in Snap : s > issued + 1 => s > issued
    BY <1>0, <2>2
  <2>4. ASSUME NEW s \in Snap, s # issued + 1
        PROVE  /\ snapshot'[s].golden => s \in blessed'
               /\ s > issued' => s \notin blessed' /\ snapshot'[s].device = None
               /\ snapshot'[s].device \in device' \cup {None}
    BY <1>0, <2>1, <2>2, <2>3, <2>4 DEF Ledger
  <2>5. ASSUME NEW s \in Snap, s = issued + 1
        PROVE  /\ snapshot'[s].golden => s \in blessed'
               /\ s > issued' => s \notin blessed' /\ snapshot'[s].device = None
               /\ snapshot'[s].device \in device' \cup {None}
    <3>1. /\ snapshot'[s].device = check[c].device
          /\ snapshot'[s].golden = (check[c].kind = "golden")
      BY <2>1, <2>2, <2>5
    <3>2. CASE check[c].kind = "golden"
      BY <1>0, <2>1, <2>2, <2>5, <3>1, <3>2
    <3>3. CASE check[c].kind # "golden"
      <4>1. ~snapshot'[s].golden
        <5>1. (check[c].kind = "golden") = FALSE
          BY <3>3
        <5>2. snapshot'[s].golden = FALSE
          BY <3>1, <5>1
        <5> QED BY <5>2
      <4> QED BY <1>0, <2>1, <2>2, <2>5, <3>1, <4>1
    <3> QED BY <3>2, <3>3
  <2>6. ASSUME NEW s \in Snap
        PROVE  /\ snapshot'[s].golden => s \in blessed'
               /\ s > issued' => s \notin blessed' /\ snapshot'[s].device = None
               /\ snapshot'[s].device \in device' \cup {None}
    BY <2>4, <2>5
  <2> QED BY <1>a, <2>6 DEF Ledger
<1>3. ASSUME NEW c \in Check, PromoteCurrent(c) PROVE Ledger'
  BY <1>0, <1>a, <1>3 DEF Ledger, PromoteCurrent, NoRow, SnapRow
<1>4. ASSUME NEW p \in Promotion, UnsetGolden(p) PROVE Ledger'
  BY <1>0, <1>a, <1>4 DEF Ledger, UnsetGolden, NoRow, SnapRow
<1>5. ASSUME NEW p \in Promotion, SetGolden(p) PROVE Ledger'
  BY <1>0, <1>a, <1>5 DEF Ledger, SetGolden, NoRow, SnapRow
<1>6. ASSUME NEW d \in Device, DeleteDevice(d) PROVE Ledger'
  BY <1>0, <1>a, <1>6 DEF Ledger, DeleteDevice, NoRow, SnapRow
<1> QED BY <1>1, <1>2, <1>3, <1>4, <1>5, <1>6, WritesOfSnapshots

LEMMA PromotionRowStep ==
  ASSUME RowsInv, [Next]_vars
  PROVE  PromotionRow'
<1>0. /\ Ledger
      /\ PromotionRow
      /\ RowsKept
      /\ TypeInv
      /\ issued \in Nat /\ issued' \in Nat
      /\ promotion \in [Promotion -> PromotionState]
      /\ \A p \in Promotion : promotion[p].pc \in {"read", "unset"} => promotion[p].snap \in Snap
  BY RowsAreKept, SnapshotsTyped DEF RowsInv, TypeInv, TypeOK, LocalsSet
<1> DEFINE Known(p) == LET s == promotion[p].snap IN
                         /\ s <= issued
                         /\ \/ snapshot[s].device = promotion[p].device
                            \/ snapshot[s].device = None /\ promotion[p].device \notin device
<1>1. ASSUME NEW p \in Promotion, promotion[p].pc \in {"read", "unset"},
             promotion'[p].snap = promotion[p].snap, promotion'[p].device = promotion[p].device
      PROVE  Known(p)'
  <2>1. Known(p) /\ promotion[p].snap \in Snap /\ promotion[p].snap \in Nat
    BY <1>0, <1>1 DEF PromotionRow, Snap
  <2>2. promotion[p].snap <= issued'
    BY <1>0, <2>1 DEF RowsKept
  <2> QED BY <1>0, <1>1, <2>1, <2>2 DEF RowsKept
<1>2. ASSUME NEW p \in Promotion, NEW s \in Snap, GetSnapshot(p, s)
      PROVE  PromotionRow'
  <2>1. s \in Nat /\ snapshot'[s].device # None /\ issued' = issued /\ snapshot' = snapshot
    BY <1>2 DEF GetSnapshot, Snap
  <2>2. s <= issued
    BY <1>0, <2>1 DEF Ledger, NoRow
  <2>3. promotion'[p] = [pc |-> "read", snap |-> s, device |-> snapshot[s].device]
        /\ \A q \in Promotion \ {p} : promotion'[q] = promotion[q]
    BY <1>0, <1>2 DEF GetSnapshot
  <2> QED BY <1>1, <2>1, <2>2, <2>3 DEF PromotionRow
<1>3. ASSUME NEW p \in Promotion,
             UnsetGolden(p) \/ SetGolden(p) \/ SetGoldenRaises(p) \/ PromotionDies(p)
      PROVE  PromotionRow'
  <2>1. \A q \in Promotion : /\ promotion'[q].snap = promotion[q].snap
                             /\ promotion'[q].device = promotion[q].device
                             /\ promotion'[q].pc \in {"read", "unset"} =>
                                  promotion[q].pc \in {"read", "unset"}
    BY <1>0, <1>3 DEF UnsetGolden, SetGolden, SetGoldenRaises, PromotionDies, PromotionState
  <2> QED BY <1>1, <2>1 DEF PromotionRow
<1>4. CASE UNCHANGED promotion
  BY <1>1, <1>4 DEF PromotionRow
<1> QED BY <1>2, <1>3, <1>4, WritesOfPromotions

\* While the device stays, its rows do.
LEMMA RowsStay ==
  ASSUME RowsInv, [Next]_vars
  PROVE  \A s \in Snap : snapshot[s].device \in device' =>
           /\ snapshot'[s].device = snapshot[s].device
           /\ snapshot'[s].config = snapshot[s].config
<1>0. /\ Ledger
      /\ RowsKept
      /\ issued \in Nat
      /\ device' \subseteq Device
      /\ None \notin Device
      /\ \A s \in Snap : s \in Nat
  BY RowsAreKept, RestTyped, NoneAssumption DEF RowsInv, TypeInv, TypeOK, Snap
<1> QED BY <1>0 DEF Ledger, RowsKept

LEMMA CheckRowStep ==
  ASSUME RowsInv, [Next]_vars
  PROVE  CheckRow'
<1>0. /\ Ledger
      /\ CheckRow
      /\ blessed \subseteq Snap
      /\ blessed \subseteq blessed'
      /\ device' \subseteq device
      /\ check \in [Check -> CheckState]
      /\ snapshot \in [Snap -> SnapRow]
      /\ \A c \in Check :
           check[c].pc \in {"find", "promote", "first", "compare"} => check[c].snap \in Snap
  BY RowsAreKept DEF RowsKept, RowsInv, TypeInv, TypeOK, LocalsSet
<1> DEFINE Row(c) ==
      /\ check[c].device \in device /\ check[c].pc \in {"find", "promote", "first", "compare"} =>
           /\ snapshot[check[c].snap].device = check[c].device
           /\ snapshot[check[c].snap].config = check[c].config
      /\ check[c].pc = "first" => check[c].snap \in blessed
      /\ check[c].pc = "compare" =>
           /\ check[c].golden \in blessed
           /\ check[c].device \in device => snapshot[check[c].golden].device = check[c].device
<1>1. ASSUME NEW c \in Check, check'[c] = check[c]
      PROVE  Row(c)'
  <2>1. Row(c)
    BY <1>0 DEF CheckRow
  <2> QED BY <1>0, <1>1, <2>1, RowsStay
<1>2. ASSUME NEW c \in Check, \A e \in Check \ {c} : check'[e] = check[e], Row(c)'
      PROVE  CheckRow'
  <2> HIDE DEF Row
  <2>1. \A e \in Check : Row(e)'
    BY <1>1, <1>2
  <2> QED BY <2>1 DEF Row, CheckRow
<1>3. ASSUME NEW c \in Check, \A e \in Check \ {c} : check'[e] = check[e],
             check'[c].pc \notin {"find", "promote", "first", "compare"}
      PROVE  CheckRow'
  BY <1>2, <1>3
<1>4. ASSUME NEW c \in Check, StoreSnapshot(c) PROVE CheckRow'
  <2>1. /\ \A e \in Check \ {c} : check'[e] = check[e]
        /\ check'[c] = [check[c] EXCEPT !.pc = IF check[c].kind = "drift" THEN "find" ELSE "audit",
                                        !.snap = issued + 1]
        /\ snapshot'[issued + 1].device = check[c].device
        /\ snapshot'[issued + 1].config = check[c].config
    BY <1>0, <1>4, BoundAssumption DEF StoreSnapshot, RowsInv, TypeInv, TypeOK, Snap
  <2>2. /\ check'[c].pc \in {"find", "audit"}
        /\ check'[c].snap = issued + 1
        /\ check'[c].device = check[c].device
        /\ check'[c].config = check[c].config
    BY <1>0, <2>1 DEF CheckState
  <2> QED BY <1>2, <2>1, <2>2
<1>5. ASSUME NEW c \in Check, FindGolden(c) PROVE CheckRow'
  <2>0. /\ \A e \in Check \ {c} : check'[e] = check[e]
        /\ device' = device /\ snapshot' = snapshot /\ blessed' = blessed
    BY <1>0, <1>5 DEF FindGolden, Goto
  <2>1. check[c].pc = "find" /\ Row(c)
    BY <1>0, <1>5 DEF FindGolden, CheckRow
  <2>2. CASE Goto(c, "promote")
    <3>1. check'[c] = [check[c] EXCEPT !.pc = "promote"]
      BY <1>0, <2>2 DEF Goto
    <3> QED BY <1>0, <1>2, <2>0, <2>1, <3>1 DEF CheckState
  <2>3. ASSUME NEW s \in Snap, Newest(s, GoldensOf(check[c].device)),
               check' = [check EXCEPT ![c] = [check[c] EXCEPT !.pc = "compare", !.golden = s]]
        PROVE  CheckRow'
    <3>1. snapshot[s].device = check[c].device /\ s \in blessed
      BY <1>0, <2>3 DEF Newest, GoldensOf, SnapsOf, Ledger
    <3>2. check'[c] = [check[c] EXCEPT !.pc = "compare", !.golden = s]
      BY <1>0, <2>3
    <3>3. /\ check'[c].pc = "compare" /\ check'[c].golden = s
          /\ check'[c].device = check[c].device /\ check'[c].snap = check[c].snap
          /\ check'[c].config = check[c].config
      BY <1>0, <3>2 DEF CheckState
    <3> QED BY <1>2, <2>0, <2>1, <3>1, <3>3
  <2> QED BY <1>5, <2>2, <2>3 DEF FindGolden
<1>6. ASSUME NEW c \in Check, PromoteCurrent(c) PROVE CheckRow'
  <2>1. check[c].pc = "promote" /\ Row(c) /\ check[c].snap \in Snap
    BY <1>0, <1>6 DEF PromoteCurrent, CheckRow
  <2>2. /\ \A e \in Check \ {c} : check'[e] = check[e]
        /\ check'[c] = [check[c] EXCEPT !.pc = "first"]
        /\ device' = device /\ check[c].snap \in blessed'
    BY <1>0, <1>6 DEF PromoteCurrent, Goto
  <2>3. /\ check'[c].pc = "first" /\ check'[c].snap = check[c].snap
        /\ check'[c].device = check[c].device /\ check'[c].config = check[c].config
    BY <1>0, <2>2 DEF CheckState
  <2>4. check[c].device \in device' =>
          /\ snapshot'[check[c].snap].device = check[c].device
          /\ snapshot'[check[c].snap].config = check[c].config
    BY <2>1, <2>2, RowsStay
  <2>5. Row(c)'
    BY <2>2, <2>3, <2>4
  <2> QED BY <1>2, <2>2, <2>5
<1>7. ASSUME NEW c \in Check, NEW kind \in Kinds, NEW d \in Device, StartTask(c, kind, d)
      PROVE  CheckRow'
  BY <1>0, <1>3, <1>7 DEF StartTask, CheckState
<1>8. ASSUME NEW c \in Check,
             \/ FetchDevice(c) \/ ReadConfig(c) \/ ReadFails(c) \/ ReportError(c)
             \/ ReportFirst(c) \/ ReportDrift(c) \/ WriteAudit(c)
             \/ RowIsGone(c) \/ KillCheck(c)
      PROVE  CheckRow'
  <2>1. ASSUME NEW pc \in {"read", "raised", "failed", "done", "audit", "killed"}, Goto(c, pc)
        PROVE  CheckRow'
    BY <1>0, <1>3, <2>1 DEF Goto, CheckState
  <2>2. CASE ReadConfig(c)
    BY <1>0, <1>3, <2>2 DEF ReadConfig, CheckState
  <2>3. CASE FetchDevice(c)
    BY <2>1, <2>3 DEF FetchDevice
  <2>4. CASE ReadFails(c)
    BY <2>1, <2>4 DEF ReadFails
  <2>5. CASE ReportError(c) \/ ReportFirst(c) \/ ReportDrift(c) \/ WriteAudit(c)
    BY <2>1, <2>5 DEF ReportError, ReportFirst, ReportDrift, WriteAudit
  <2>6. CASE RowIsGone(c) \/ KillCheck(c)
    BY <2>1, <2>6 DEF RowIsGone, KillCheck
  <2> QED BY <1>8, <2>2, <2>3, <2>4, <2>5, <2>6
<1>9. CASE check' = check
  BY <1>1, <1>9 DEF CheckRow
<1>10. ASSUME NEW c \in Check, Task(c) \/ KillCheck(c) PROVE CheckRow'
  BY <1>4, <1>5, <1>6, <1>8, <1>10 DEF Task
<1> QED BY <1>7, <1>9, <1>10, WritesOfChecks

LEMMA RowsInvariant == Spec => []RowsInv
<1>1. RowsInv /\ [Next]_vars => RowsInv'
  BY TypeStep, LedgerStep, PromotionRowStep, CheckRowStep DEF RowsInv
<1> QED BY InitRows, <1>1, PTL DEF Spec

-----------------------------------------------------------------------------
(* The reports                                                             *)

\* The one row a task may add to the reports.
Added(c, r) ==
  /\ r.check = c /\ r.device = check[c].device /\ check[c].device \in device
  /\ \/ /\ ReportError(c)
        /\ r.status = "error"
     \/ /\ ReportFirst(c)
        /\ r.status = "clean" /\ r.golden = check[c].snap /\ r.current = check[c].snap
     \/ /\ ReportDrift(c)
        /\ r.golden = check[c].golden /\ r.current = check[c].snap
        /\ r.status = IF snapshot[check[c].golden].config = check[c].config
                        THEN "clean" ELSE "drifted"

LEMMA ReportSteps ==
  ASSUME [Next]_vars, NEW r \in report'
  PROVE  r \in report \/ \E c \in Check : Added(c, r)
<1>1. ASSUME NEW c \in Check, ReportError(c) \/ ReportFirst(c) \/ ReportDrift(c)
      PROVE  r \in report \/ \E e \in Check : Added(e, r)
  BY <1>1 DEF Added, ReportError, ReportFirst, ReportDrift, AddReport
<1>2. ASSUME NEW d \in Device, DeleteDevice(d) PROVE r \in report
  BY <1>2 DEF DeleteDevice
<1>3. CASE UNCHANGED report
  BY <1>3
<1> QED BY <1>1, <1>2, <1>3, WritesOfReports

\* Whatever the interleaving, a verdict rests on a snapshot that was golden.
THEOREM BaselineIsGolden == Spec => []BaselineWasGolden
<1>1. Init => BaselineWasGolden
  BY DEF Init, BaselineWasGolden
<1>2. RowsInv /\ BaselineWasGolden /\ [Next]_vars => BaselineWasGolden'
  <2> SUFFICES ASSUME RowsInv, BaselineWasGolden, [Next]_vars,
                      NEW r \in report', r.status # "error"
               PROVE  r.golden \in blessed'
    BY DEF BaselineWasGolden
  <2>1. blessed \subseteq blessed' /\ CheckRow
    BY RowsAreKept DEF RowsKept, RowsInv
  <2>2. CASE r \in report
    BY <2>1, <2>2 DEF BaselineWasGolden
  <2>3. ASSUME NEW c \in Check, Added(c, r) PROVE r.golden \in blessed
    BY <2>1, <2>3 DEF Added, CheckRow, ReportFirst, ReportDrift
  <2> QED BY <2>1, <2>2, <2>3, ReportSteps
<1> QED BY <1>1, <1>2, RowsInvariant, PTL DEF Spec

\* Reports go with their device, and a verdict names two snapshots.
ReportsOwned ==
  \A r \in report :
    /\ r.device \in device
    /\ r.status # "error" => r.golden \in Snap /\ r.current \in Snap

LEMMA ReportsOwnedStep ==
  ASSUME RowsInv, ReportsOwned, [Next]_vars
  PROVE  ReportsOwned'
<1>0. /\ CheckRow
      /\ blessed \subseteq Snap
      /\ Snap' = Snap
      /\ \A c \in Check :
           check[c].pc \in {"find", "promote", "first", "compare"} => check[c].snap \in Snap
  BY DEF RowsInv, TypeInv, TypeOK, LocalsSet, Snap
<1> SUFFICES ASSUME NEW r \in report'
             PROVE  /\ r.device \in device'
                    /\ r.status # "error" => r.golden \in Snap /\ r.current \in Snap
  BY <1>0 DEF ReportsOwned
<1>1. CASE r \in report
  <2>1. r.device \in device'
    BY <1>1, WritesOfDevices DEF ReportsOwned, DeleteDevice
  <2> QED BY <1>1, <2>1 DEF ReportsOwned
<1>2. ASSUME NEW c \in Check, Added(c, r)
      PROVE  /\ r.device \in device'
             /\ r.status # "error" => r.golden \in Snap /\ r.current \in Snap
  <2>1. r.device \in device'
    BY <1>2 DEF Added, ReportError, ReportFirst, ReportDrift
  <2>2. r.status # "error" => r.golden \in Snap /\ r.current \in Snap
    BY <1>0, <1>2 DEF Added, ReportFirst, ReportDrift, CheckRow
  <2> QED BY <2>1, <2>2
<1> QED BY <1>1, <1>2, ReportSteps

LEMMA VerdictStep ==
  ASSUME RowsInv, ReportsOwned, ReportTruthful, [Next]_vars
  PROVE  ReportTruthful'
<1> SUFFICES ASSUME NEW r \in report', r.status # "error"
             PROVE  /\ {snapshot'[r.golden].device, snapshot'[r.current].device} = {r.device}
                    /\ r.status = "clean" <=>
                         snapshot'[r.golden].config = snapshot'[r.current].config
  BY DEF ReportTruthful
<1>0. CheckRow
  BY DEF RowsInv
<1>1. CASE r \in report
  <2>1. /\ snapshot[r.golden].device = r.device /\ snapshot[r.current].device = r.device
        /\ r.golden \in Snap /\ r.current \in Snap
    BY <1>1 DEF ReportTruthful, ReportsOwned
  <2>2. r.device \in device'
    BY ReportsOwnedStep DEF ReportsOwned
  <2>3. /\ snapshot'[r.golden].device = r.device /\ snapshot'[r.current].device = r.device
        /\ snapshot'[r.golden].config = snapshot[r.golden].config
        /\ snapshot'[r.current].config = snapshot[r.current].config
    BY <2>1, <2>2, RowsStay
  <2> QED BY <1>1, <2>3 DEF ReportTruthful
<1>2. ASSUME NEW c \in Check, Added(c, r)
      PROVE  /\ {snapshot'[r.golden].device, snapshot'[r.current].device} = {r.device}
             /\ r.status = "clean" <=>
                  snapshot'[r.golden].config = snapshot'[r.current].config
  <2>1. snapshot' = snapshot
    BY <1>2 DEF Added, ReportError, ReportFirst, ReportDrift
  <2>2. CASE /\ ReportFirst(c) /\ r.status = "clean"
             /\ r.golden = check[c].snap /\ r.current = check[c].snap
    BY <1>0, <1>2, <2>1, <2>2 DEF Added, ReportFirst, CheckRow
  <2>3. CASE /\ ReportDrift(c)
             /\ r.golden = check[c].golden /\ r.current = check[c].snap
             /\ r.status = IF snapshot[check[c].golden].config = check[c].config
                             THEN "clean" ELSE "drifted"
    BY <1>0, <1>2, <2>1, <2>3 DEF Added, ReportDrift, CheckRow
  <2> QED BY <1>2, <2>2, <2>3 DEF Added
<1> QED BY <1>1, <1>2, ReportSteps

\* A verdict is the comparison of the two snapshots it names, and stays so:
\* they are rows of its device, and no one rewrites them.
THEOREM VerdictsHold == Spec => []ReportTruthful
<1>1. Init => ReportsOwned /\ ReportTruthful
  BY DEF Init, ReportsOwned, ReportTruthful
<1>2. RowsInv /\ ReportsOwned /\ ReportTruthful /\ [Next]_vars => (ReportsOwned /\ ReportTruthful)'
  BY ReportsOwnedStep, VerdictStep
<1> QED BY <1>1, <1>2, RowsInvariant, PTL DEF Spec

-----------------------------------------------------------------------------
(* The baseline                                                            *)

\* The device has had a baseline and has none.
Bare(d) == SnapsOf(d) \cap blessed # {} /\ GoldensOf(d) = {}

\* A set_golden request of the device stands, or died, between its statements.
Between(d) ==
  \E p \in Promotion : promotion[p].pc \in {"unset", "diedUnset"} /\ promotion[p].device = d

LEMMA BaselineStep ==
  ASSUME RowsInv, GoldenHeld, [Next]_vars
  PROVE  GoldenHeld'
<1> SUFFICES ASSUME NEW d \in device', Bare(d)'
             PROVE  Between(d)'
  BY DEF GoldenHeld, Bare, Between
<1>0. /\ Ledger
      /\ PromotionRow
      /\ d \in device /\ d \in Device /\ d # None
      /\ Snap' = Snap
      /\ snapshot \in [Snap -> SnapRow]
      /\ promotion \in [Promotion -> PromotionState]
      /\ \A p \in Promotion : promotion[p].pc \in {"read", "unset"} => promotion[p].snap \in Snap
      /\ \A c \in Check : check[c].pc = "promote" => check[c].snap \in Snap
      /\ Bare(d) => Between(d)
      /\ issued \in Nat
  BY RowsAreKept, RestTyped, NoneAssumption
     DEF RowsKept, RowsInv, TypeInv, TypeOK, LocalsSet, GoldenHeld, Bare, Between, Snap
<1>1. ASSUME NEW c \in Check, StoreSnapshot(c) PROVE Bare(d)
  <2>1. issued + 1 \in Snap /\ issued + 1 > issued
    BY <1>0, <1>1 DEF StoreSnapshot, Snap
  <2>2. snapshot[issued + 1].device = None /\ issued + 1 \notin blessed
    BY <1>0, <2>1 DEF Ledger
  <2>3. /\ \A s \in Snap \ {issued + 1} : snapshot'[s] = snapshot[s]
        /\ snapshot'[issued + 1] = [device |-> check[c].device, config |-> check[c].config,
                                    golden |-> (check[c].kind = "golden")]
        /\ blessed' = IF check[c].kind = "golden" THEN blessed \cup {issued + 1} ELSE blessed
    BY <1>0, <1>1, <2>1 DEF StoreSnapshot
  <2>4. SnapsOf(d) \subseteq SnapsOf(d)' /\ GoldensOf(d) \subseteq GoldensOf(d)'
    BY <1>0, <2>2, <2>3 DEF SnapsOf, GoldensOf
  <2>5. SnapsOf(d)' \subseteq SnapsOf(d) \cup {issued + 1}
    BY <1>0, <2>3 DEF SnapsOf
  <2>6. CASE check[c].kind = "golden"
    <3>1. issued + 1 \notin SnapsOf(d)'
      <4>1. (check[c].kind = "golden") = TRUE
        BY <2>6
      <4>2. snapshot'[issued + 1].golden = TRUE
        <5>1. snapshot'[issued + 1].golden = (check[c].kind = "golden")
          BY <2>3
        <5> QED BY <4>1, <5>1
      <4>3. issued + 1 \in SnapsOf(d)' => issued + 1 \in GoldensOf(d)'
        BY <4>2 DEF GoldensOf
      <4> QED BY <4>3 DEF Bare
    <3> QED BY <2>3, <2>4, <2>5, <2>6, <3>1 DEF Bare
  <2>7. CASE check[c].kind # "golden"
    BY <2>2, <2>3, <2>4, <2>5, <2>7 DEF Bare
  <2> QED BY <2>6, <2>7
<1>2. ASSUME NEW c \in Check, PromoteCurrent(c) PROVE Bare(d)
  BY <1>0, <1>2 DEF PromoteCurrent, Bare, SnapsOf, GoldensOf, SnapRow
<1>3. ASSUME NEW p \in Promotion, SetGolden(p) PROVE Bare(d) /\ promotion[p].device # d
  BY <1>0, <1>3 DEF SetGolden, Bare, SnapsOf, GoldensOf, SnapRow, PromotionRow
<1>4. ASSUME NEW p \in Promotion, UnsetGolden(p), promotion[p].device # d PROVE Bare(d)
  <2>1. \A s \in Snap : /\ snapshot'[s].device = snapshot[s].device
                        /\ snapshot[s].device = d => snapshot'[s] = snapshot[s]
    BY <1>0, <1>4 DEF UnsetGolden, SnapRow
  <2>2. blessed' = blessed
    BY <1>4 DEF UnsetGolden
  <2>3. SnapsOf(d)' = SnapsOf(d)
    BY <1>0, <2>1 DEF SnapsOf
  <2>4. GoldensOf(d) \subseteq GoldensOf(d)'
    BY <1>0, <2>1, <2>3 DEF GoldensOf, SnapsOf
  <2> QED BY <2>2, <2>3, <2>4 DEF Bare
<1>5. ASSUME NEW e \in Device, DeleteDevice(e) PROVE Bare(d)
  BY <1>0, <1>5 DEF DeleteDevice, Bare, SnapsOf, GoldensOf, SnapRow, NoRow
<1>6. ASSUME UNCHANGED <<snapshot, issued, blessed>> PROVE Bare(d)
  BY <1>0, <1>6 DEF Bare, SnapsOf, GoldensOf
<1>7. ASSUME Bare(d), \A p \in Promotion : ~(SetGolden(p) /\ promotion[p].device = d)
      PROVE  Between(d)'
  <2>1. PICK q \in Promotion :
          promotion[q].pc \in {"unset", "diedUnset"} /\ promotion[q].device = d
    BY <1>0, <1>7 DEF Between
  <2>2. ~SetGoldenRaises(q)
    BY <1>0, <2>1 DEF SetGoldenRaises, PromotionRow
  <2>3. promotion'[q].pc \in {"unset", "diedUnset"} /\ promotion'[q].device = d
    <3>1. CASE UNCHANGED promotion
      BY <2>1, <3>1
    <3>2. ASSUME NEW p \in Promotion, NEW s \in Snap, GetSnapshot(p, s)
          PROVE  promotion'[q] = promotion[q]
      BY <1>0, <2>1, <3>2 DEF GetSnapshot
    <3>3. ASSUME NEW p \in Promotion,
                 UnsetGolden(p) \/ SetGolden(p) \/ SetGoldenRaises(p) \/ PromotionDies(p)
          PROVE  promotion'[q].pc \in {"unset", "diedUnset"} /\ promotion'[q].device = d
      <4>1. CASE p # q
        BY <1>0, <2>1, <3>3, <4>1 DEF UnsetGolden, SetGolden, SetGoldenRaises, PromotionDies
      <4>2. CASE p = q
        <5>1. PromotionDies(q)
          BY <1>7, <2>1, <2>2, <3>3, <4>2 DEF UnsetGolden
        <5> QED BY <1>0, <2>1, <5>1 DEF PromotionDies, PromotionState
      <4> QED BY <4>1, <4>2
    <3> QED BY <2>1, <3>1, <3>2, <3>3, WritesOfPromotions
  <2> QED BY <2>3 DEF Between
<1>8. ASSUME NEW p \in Promotion, UnsetGolden(p), promotion[p].device = d
      PROVE  Between(d)'
  BY <1>0, <1>8 DEF UnsetGolden, Between, PromotionState
<1>9. CASE \E p \in Promotion : UnsetGolden(p) /\ promotion[p].device = d
  BY <1>8, <1>9
<1>10. CASE ~\E p \in Promotion : UnsetGolden(p) /\ promotion[p].device = d
  <2>1. Bare(d)
    BY <1>1, <1>2, <1>3, <1>4, <1>5, <1>6, <1>10, WritesOfSnapshots
  <2>2. \A p \in Promotion : ~(SetGolden(p) /\ promotion[p].device = d)
    BY <1>3
  <2> QED BY <1>7, <2>1, <2>2
<1> QED BY <1>9, <1>10

\* Once a device has a baseline it loses it only between the two statements of
\* a set_golden request, or for good when that request dies between them.
THEOREM BaselineHeld == Spec => []GoldenHeld
<1>1. Init => GoldenHeld
  BY DEF Init, GoldenHeld
<1>2. RowsInv /\ GoldenHeld /\ [Next]_vars => GoldenHeld'
  BY BaselineStep
<1> QED BY <1>1, <1>2, RowsInvariant, PTL DEF Spec

-----------------------------------------------------------------------------
(* One report per drift check                                              *)

\* Where a task may stand once it has left its report.
Reported == {"audit"} \cup Ended

\* What a started task keeps: its locals, its report, and a drift check that
\* is past its report came there by writing it.
LEMMA StartedSteps ==
  ASSUME TypeInv, [Next]_vars, NEW c \in Check, check[c].pc # "new"
  PROVE  /\ check'[c].kind = check[c].kind /\ check'[c].device = check[c].device
         /\ check[c].pc \in Reported => check'[c].pc \in Reported
         /\ check[c].kind = "drift" /\ check'[c].pc \in {"audit", "done"} =>
              \/ check[c].pc \in {"audit", "done"}
              \/ ReportError(c) \/ ReportFirst(c) \/ ReportDrift(c)
<1> DEFINE Goal == /\ check'[c].kind = check[c].kind /\ check'[c].device = check[c].device
                   /\ check[c].pc \in Reported => check'[c].pc \in Reported
                   /\ check[c].kind = "drift" /\ check'[c].pc \in {"audit", "done"} =>
                        \/ check[c].pc \in {"audit", "done"}
                        \/ ReportError(c) \/ ReportFirst(c) \/ ReportDrift(c)
<1>0. check \in [Check -> CheckState]
  BY DEF TypeInv, TypeOK
<1>1. CASE check'[c] = check[c]
  BY <1>1
<1>a. ASSUME NEW pc, Goto(c, pc)
      PROVE  check'[c].pc = pc /\ check'[c].kind = check[c].kind /\ check'[c].device = check[c].device
  BY <1>0, <1>a DEF Goto, CheckState
<1>2. CASE FetchDevice(c) \/ ReadFails(c)
  BY <1>2, <1>a DEF FetchDevice, ReadFails, Reported, Ended
<1>3. CASE ReadConfig(c)
  BY <1>0, <1>3 DEF ReadConfig, CheckState, Reported, Ended
<1>4. CASE StoreSnapshot(c)
  <2> DEFINE pc == IF check[c].kind = "drift" THEN "find" ELSE "audit"
  <2>1. check' = [check EXCEPT ![c] = [check[c] EXCEPT !.pc = pc, !.snap = issued + 1]]
    BY <1>4 DEF StoreSnapshot
  <2>2. /\ check'[c].pc = pc /\ check'[c].kind = check[c].kind
        /\ check'[c].device = check[c].device
    BY <1>0, <2>1 DEF CheckState
  <2> QED BY <1>4, <2>2 DEF StoreSnapshot, Reported, Ended
<1>5. CASE PromoteCurrent(c) \/ WriteAudit(c)
  BY <1>5, <1>a DEF PromoteCurrent, WriteAudit, Reported, Ended
<1>6. CASE FindGolden(c)
  <2>1. ASSUME NEW s, check' = [check EXCEPT ![c] = [check[c] EXCEPT !.pc = "compare", !.golden = s]]
        PROVE  /\ check'[c].pc = "compare" /\ check'[c].kind = check[c].kind
               /\ check'[c].device = check[c].device
    BY <1>0, <2>1 DEF CheckState
  <2>2. check[c].pc = "find"
    BY <1>6 DEF FindGolden
  <2>3. \/ Goto(c, "promote")
        \/ \E s : check' = [check EXCEPT ![c] = [check[c] EXCEPT !.pc = "compare", !.golden = s]]
    BY <1>6 DEF FindGolden
  <2>4. /\ check'[c].pc \in {"promote", "compare"} /\ check'[c].kind = check[c].kind
        /\ check'[c].device = check[c].device
    BY <1>a, <2>1, <2>3
  <2> QED BY <2>2, <2>4 DEF Reported, Ended
<1>7. CASE ReportError(c) \/ ReportFirst(c) \/ ReportDrift(c)
  BY <1>0, <1>7 DEF ReportError, ReportFirst, ReportDrift, Goto, CheckState, Reported, Ended
<1>8. CASE RowIsGone(c) \/ KillCheck(c)
  BY <1>0, <1>8 DEF RowIsGone, KillCheck, Goto, CheckState, Reported, Ended
<1>9. ASSUME NEW e \in Check \ {c}, Task(e) \/ KillCheck(e) PROVE check'[c] = check[c]
  BY <1>0, <1>9 DEF Task, FetchDevice, ReadConfig, ReadFails, ReportError, StoreSnapshot,
       FindGolden, PromoteCurrent, ReportFirst, ReportDrift, WriteAudit, RowIsGone,
       KillCheck, Goto
<1>10. ASSUME NEW e \in Check, NEW kind \in Kinds, NEW d \in Device, StartTask(e, kind, d)
      PROVE  check'[c] = check[c]
  BY <1>0, <1>10 DEF StartTask
<1>11. CASE Task(c)
  BY <1>2, <1>3, <1>4, <1>5, <1>6, <1>7, <1>8, <1>11 DEF Task
<1> HIDE DEF Goal
<1>12. Goal
  BY <1>1, <1>8, <1>9, <1>10, <1>11, WritesOfChecks DEF Goal
<1> QED BY <1>12 DEF Goal

LEMMA NewSteps ==
  ASSUME TypeInv, [Next]_vars, NEW c \in Check, check[c].pc = "new"
  PROVE  check'[c].pc \in {"new", "queued"}
<1>0. check \in [Check -> CheckState]
  BY DEF TypeInv, TypeOK
<1>1. ASSUME NEW e \in Check, NEW kind \in Kinds, NEW d \in Device, StartTask(e, kind, d)
      PROVE  check'[c].pc \in {"new", "queued"}
  BY <1>0, <1>1 DEF StartTask, CheckState
<1>2. ASSUME NEW e \in Check, Task(e) \/ KillCheck(e) PROVE check'[c] = check[c]
  BY <1>0, <1>2 DEF Task, FetchDevice, ReadConfig, ReadFails, ReportError, StoreSnapshot,
       FindGolden, PromoteCurrent, ReportFirst, ReportDrift, WriteAudit, RowIsGone,
       KillCheck, Goto, Ended
<1> QED BY <1>1, <1>2, WritesOfChecks

\* OneReportPerCheck is not inductive: a report says nothing of a task that has
\* not passed the point where it writes one, whatever the kind of the task, and
\* goes with the device only if it names the device of its task.
OneReport ==
  \A c \in Check :
    /\ \A r1, r2 \in report : r1.check = c /\ r2.check = c => r1 = r2
    /\ \A r \in report : r.check = c =>
         check[c].pc \in Reported /\ r.device = check[c].device
    /\ check[c].kind = "drift" /\ check[c].pc \in {"audit", "done"} /\ check[c].device \in device =>
         \E r \in report : r.check = c

LEMMA OneReportStep ==
  ASSUME TypeInv, OneReport, [Next]_vars
  PROVE  OneReport'
<1> SUFFICES ASSUME NEW c \in Check
             PROVE  /\ \A r1, r2 \in report' : r1.check = c /\ r2.check = c => r1 = r2
                    /\ \A r \in report' : r.check = c =>
                         check'[c].pc \in Reported /\ r.device = check'[c].device
                    /\ check'[c].kind = "drift" /\ check'[c].pc \in {"audit", "done"}
                         /\ check'[c].device \in device' => \E r \in report' : r.check = c
  BY DEF OneReport, Reported, Ended
<1>0. /\ check \in [Check -> CheckState] /\ report \subseteq ReportRow
      /\ device' \subseteq device
  BY WritesOfDevices DEF TypeInv, TypeOK, DeleteDevice
<1> DEFINE Writes == ReportError(c) \/ ReportFirst(c) \/ ReportDrift(c)
<1>1. CASE check[c].pc = "new"
  <2>1. \A r \in report' : r.check # c
    <3> SUFFICES ASSUME NEW r \in report', r.check = c PROVE FALSE
      OBVIOUS
    <3>1. r \notin report
      BY <1>1 DEF OneReport, Reported, Ended
    <3>2. ASSUME NEW e \in Check, Added(e, r) PROVE FALSE
      BY <1>1, <3>2 DEF Added, ReportError, ReportFirst, ReportDrift
    <3> QED BY <3>1, <3>2, ReportSteps
  <2> QED BY <1>1, <2>1, NewSteps
<1>2. CASE Writes
  <2>1. check[c].pc \notin Reported /\ check[c].pc # "new"
    BY <1>2 DEF ReportError, ReportFirst, ReportDrift, Reported, Ended
  <2>2. \A r \in report : r.check # c
    BY <2>1 DEF OneReport
  <2>3. PICK new : report' = report \cup {new} /\ new.check = c /\ new.device = check[c].device
    <3>1. PICK status, golden, current : AddReport(c, status, golden, current)
      BY <1>2 DEF ReportError, ReportFirst, ReportDrift
    <3> DEFINE row == [check |-> c, device |-> check[c].device, status |-> status,
                       golden |-> golden, current |-> current]
    <3>2. report' = report \cup {row} /\ row.check = c /\ row.device = check[c].device
      BY <3>1 DEF AddReport
    <3> QED BY <3>2
  <2>4. check'[c].pc \in Reported /\ check'[c].device = check[c].device
    BY <1>0, <1>2 DEF ReportError, ReportFirst, ReportDrift, Goto, CheckState, Reported, Ended
  <2> QED BY <2>2, <2>3, <2>4
<1>3. CASE check[c].pc # "new" /\ ~Writes
  <2>1. \A r \in report' : r.check = c => r \in report
    BY <1>3, ReportSteps DEF Added
  <2>2. ASSUME NEW r \in report, r.check = c, check[c].device \in device' PROVE r \in report'
    <3>1. r.device = check[c].device
      BY <2>2 DEF OneReport
    <3>2. ASSUME NEW d \in Device, DeleteDevice(d) PROVE r \in report'
      BY <2>2, <3>1, <3>2 DEF DeleteDevice
    <3>3. ASSUME NEW e \in Check, ReportError(e) \/ ReportFirst(e) \/ ReportDrift(e)
          PROVE  r \in report'
      BY <2>2, <3>3 DEF ReportError, ReportFirst, ReportDrift, AddReport
    <3> QED BY <2>2, <3>2, <3>3, WritesOfReports
  <2>3. /\ check'[c].kind = check[c].kind /\ check'[c].device = check[c].device
        /\ check[c].pc \in Reported => check'[c].pc \in Reported
        /\ check[c].kind = "drift" /\ check'[c].pc \in {"audit", "done"} =>
             check[c].pc \in {"audit", "done"}
    BY <1>3, StartedSteps
  <2>4. \A r1, r2 \in report' : r1.check = c /\ r2.check = c => r1 = r2
    BY <2>1 DEF OneReport
  <2>5. \A r \in report' : r.check = c =>
          check'[c].pc \in Reported /\ r.device = check'[c].device
    BY <2>1, <2>3 DEF OneReport
  <2>6. ASSUME check'[c].kind = "drift", check'[c].pc \in {"audit", "done"},
               check'[c].device \in device'
        PROVE  \E r \in report' : r.check = c
    <3>1. PICK r \in report : r.check = c
      BY <1>0, <2>3, <2>6 DEF OneReport
    <3> QED BY <2>2, <2>3, <2>6, <3>1
  <2> QED BY <2>4, <2>5, <2>6
<1> QED BY <1>1, <1>2, <1>3

\* A drift check leaves exactly one report, also when it could not connect, and
\* leaves none before it has a verdict; the report goes only with the device.
THEOREM OneReportEach == Spec => []OneReportPerCheck
<1>1. Init => OneReport
  BY DEF Init, OneReport
<1>2. TypeInv /\ OneReport /\ [Next]_vars => OneReport'
  BY OneReportStep
<1>3. OneReport => OneReportPerCheck
  BY DEF OneReport, OneReportPerCheck, Reported, Ended
<1> QED BY <1>1, <1>2, <1>3, TypeInvariant, PTL DEF Spec
=============================================================================
