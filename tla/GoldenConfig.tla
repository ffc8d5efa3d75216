---------------------------- MODULE GoldenConfig ----------------------------
(***************************************************************************)
(* Configuration snapshots and drift: the Celery tasks run_drift_detection *)
(* and take_config_snapshot, which read a device's configuration over SSH  *)
(* and store it, and the set_golden request, which makes one stored        *)
(* snapshot the device's baseline.  Each database statement commits by     *)
(* itself, so tasks and requests interleave between any two of them.       *)
(***************************************************************************)
EXTENDS Integers

CONSTANTS
  Device,        \* primary keys of the Device rows
  Config,        \* running configurations, told apart by their text
  Check,         \* the drift and snapshot tasks users start
  Promotion,     \* the set_golden requests
  Kinds,         \* the tasks started: "drift", "snapshot", "golden"
  None,          \* a local that is not set yet, SQL NULL
  MaxSnapshots   \* bound: primary keys of ConfigSnapshot rows

ASSUME KindsAssumption == Kinds \subseteq {"drift", "snapshot", "golden"}
ASSUME NoneAssumption  == None \notin Device /\ None \notin Config
ASSUME BoundAssumption == MaxSnapshots \in Nat \ {0}

VARIABLES
  device,    \* the Device rows that exist
  live,      \* what "show running-config" prints on each device
  snapshot,  \* the ConfigSnapshot rows by primary key
  issued,    \* the last primary key given out; taken_at has the same order
  report,    \* the DriftReport rows
  audit,     \* the tasks that wrote their AuditLog row
  check,     \* the locals of each task
  promotion, \* the locals of each set_golden request
  blessed    \* history: the snapshots that have been golden

vars == <<device, live, snapshot, issued, report, audit, check, promotion, blessed>>

Snap == 1 .. MaxSnapshots

\* No row under this key: not created yet, or gone with its device.
NoRow == [device |-> None, config |-> None, golden |-> FALSE]

SnapRow == [device : Device \cup {None}, config : Config \cup {None}, golden : BOOLEAN]

Ended   == {"done", "raised", "killed"}
CheckPc == {"new", "queued", "read", "failed", "store", "find", "promote", "first",
            "compare", "audit"} \cup Ended
CheckState == [pc : CheckPc, kind : {"drift", "snapshot", "golden"},
               device : Device \cup {None}, config : Config \cup {None},
               snap : Snap \cup {0}, golden : Snap \cup {0}]

PromotionPc == {"new", "read", "unset", "done", "raised", "died", "diedUnset"}
PromotionState == [pc : PromotionPc, snap : Snap \cup {0}, device : Device \cup {None}]

ReportRow == [check : Check, device : Device, status : {"clean", "drifted", "error"},
              golden : Snap \cup {0}, current : Snap \cup {0}]

TypeOK ==
  /\ device \subseteq Device
  /\ live \in [Device -> Config]
  /\ snapshot \in [Snap -> SnapRow]
  /\ issued \in 0 .. MaxSnapshots
  /\ report \subseteq ReportRow
  /\ audit \subseteq Check
  /\ check \in [Check -> CheckState]
  /\ promotion \in [Promotion -> PromotionState]
  /\ blessed \subseteq Snap

Init ==
  /\ device = Device
  /\ live \in [Device -> Config]
  /\ snapshot = [s \in Snap |-> NoRow]
  /\ issued = 0
  /\ report = {}
  /\ audit = {}
  /\ check = [c \in Check |-> [pc |-> "new", kind |-> "drift", device |-> None,
                               config |-> None, snap |-> 0, golden |-> 0]]
  /\ promotion = [p \in Promotion |-> [pc |-> "new", snap |-> 0, device |-> None]]
  /\ blessed = {}

SnapsOf(d)   == {s \in Snap : snapshot[s].device = d}
GoldensOf(d) == {s \in SnapsOf(d) : snapshot[s].golden}

Goto(c, pc) == check' = [check EXCEPT ![c].pc = pc]

-----------------------------------------------------------------------------
(* SecurityActionViewSet: the device id in the request is not looked up    *)

StartTask(c, kind, d) ==
  /\ check[c].pc = "new"
  /\ check' = [check EXCEPT ![c] = [@ EXCEPT !.pc = "queued", !.kind = kind, !.device = d]]
  /\ UNCHANGED <<device, live, snapshot, issued, report, audit, promotion, blessed>>

-----------------------------------------------------------------------------
(* The tasks                                                               *)

\* Device.objects.get raises DoesNotExist for an unknown id.
FetchDevice(c) ==
  /\ check[c].pc = "queued"
  /\ Goto(c, IF check[c].device \in device THEN "read" ELSE "raised")
  /\ UNCHANGED <<device, live, snapshot, issued, report, audit, promotion, blessed>>

ReadConfig(c) ==
  /\ check[c].pc = "read"
  /\ check' = [check EXCEPT ![c] = [@ EXCEPT !.pc = "store", !.config = live[check[c].device]]]
  /\ UNCHANGED <<device, live, snapshot, issued, report, audit, promotion, blessed>>

\* Mutant: an unreachable device ends a drift check as it ends a snapshot.
ReadFailsQuietly(c) ==
  /\ check[c].pc = "read"
  /\ Goto(c, "done")
  /\ UNCHANGED <<device, live, snapshot, issued, report, audit, promotion, blessed>>

\* Mutant: the task retries an unreachable device without a limit.
ReadFailsAndRetries(c) ==
  /\ check[c].pc = "read"
  /\ Goto(c, "queued")
  /\ UNCHANGED <<device, live, snapshot, issued, report, audit, promotion, blessed>>

\* NetmikoError: drift detection records it, a snapshot task returns it.
ReadFails(c) ==
  /\ check[c].pc = "read"
  /\ Goto(c, IF check[c].kind = "drift" THEN "failed" ELSE "done")
  /\ UNCHANGED <<device, live, snapshot, issued, report, audit, promotion, blessed>>

AddReport(c, status, golden, current) ==
  /\ check[c].device \in device
  /\ report' = report \cup {[check |-> c, device |-> check[c].device, status |-> status,
                             golden |-> golden, current |-> current]}

ReportError(c) ==
  /\ check[c].pc = "failed"
  /\ AddReport(c, "error", 0, 0)
  /\ Goto(c, "done")
  /\ UNCHANGED <<device, live, snapshot, issued, audit, promotion, blessed>>

StoreSnapshot(c) ==
  LET s == issued + 1
      golden == check[c].kind = "golden"
  IN
  /\ check[c].pc = "store"
  /\ check[c].device \in device
  /\ s <= MaxSnapshots
  /\ issued' = s
  /\ snapshot' = [snapshot EXCEPT ![s] =
       [device |-> check[c].device, config |-> check[c].config, golden |-> golden]]
  /\ blessed' = IF golden THEN blessed \cup {s} ELSE blessed
  /\ check' = [check EXCEPT ![c] =
       [@ EXCEPT !.pc = IF check[c].kind = "drift" THEN "find" ELSE "audit", !.snap = s]]
  /\ UNCHANGED <<device, live, report, audit, promotion>>

\* order_by("-taken_at").first(): s is the newest of S.
Newest(s, S) == s \in S /\ \A t \in S : t <= s

\* Mutant: the query forgets is_golden=True.
FindNewest(c) ==
  /\ check[c].pc = "find"
  /\ \E s \in Snap :
       /\ Newest(s, SnapsOf(check[c].device))
       /\ check' = [check EXCEPT ![c] = [@ EXCEPT !.pc = "compare", !.golden = s]]
  /\ UNCHANGED <<device, live, snapshot, issued, report, audit, promotion, blessed>>

FindGolden(c) ==
  LET goldens == GoldensOf(check[c].device) IN
  /\ check[c].pc = "find"
  /\ \/ goldens = {} /\ Goto(c, "promote")
     \/ \E s \in Snap :
          /\ Newest(s, goldens)
          /\ check' = [check EXCEPT ![c] = [@ EXCEPT !.pc = "compare", !.golden = s]]
  /\ UNCHANGED <<device, live, snapshot, issued, report, audit, promotion, blessed>>

\* save(update_fields=["is_golden", "comment"])
PromoteCurrent(c) ==
  LET s == check[c].snap IN
  /\ check[c].pc = "promote"
  /\ snapshot[s].device # None
  /\ snapshot' = [snapshot EXCEPT ![s].golden = TRUE]
  /\ blessed' = blessed \cup {s}
  /\ Goto(c, "first")
  /\ UNCHANGED <<device, live, issued, report, audit, promotion>>

\* The branch returns here: the first drift check of a device is not audited.
ReportFirst(c) ==
  /\ check[c].pc = "first"
  /\ AddReport(c, "clean", check[c].snap, check[c].snap)
  /\ Goto(c, "done")
  /\ UNCHANGED <<device, live, snapshot, issued, audit, promotion, blessed>>

\* Mutant: the comparison reads the device a second time.
ReportReread(c) ==
  LET golden == check[c].golden IN
  /\ check[c].pc = "compare"
  /\ AddReport(c, IF snapshot[golden].config = live[check[c].device] THEN "clean" ELSE "drifted",
               golden, check[c].snap)
  /\ Goto(c, "audit")
  /\ UNCHANGED <<device, live, snapshot, issued, audit, promotion, blessed>>

\* The golden object was read before; difflib compares its text with the text
\* read from the device, and finds no line to report when they are equal.
ReportDrift(c) ==
  LET golden == check[c].golden IN
  /\ check[c].pc = "compare"
  /\ AddReport(c, IF snapshot[golden].config = check[c].config THEN "clean" ELSE "drifted",
               golden, check[c].snap)
  /\ Goto(c, "audit")
  /\ UNCHANGED <<device, live, snapshot, issued, audit, promotion, blessed>>

WriteAudit(c) ==
  /\ check[c].pc = "audit"
  /\ check[c].device \in device
  /\ audit' = audit \cup {c}
  /\ Goto(c, "done")
  /\ UNCHANGED <<device, live, snapshot, issued, report, promotion, blessed>>

\* The device went, and its snapshots with it: an insert breaks the foreign
\* key, a save with update_fields affects no row, and the task ends.
RowIsGone(c) ==
  /\ check[c].pc \in {"failed", "store", "promote", "first", "compare", "audit"}
  /\ check[c].device \notin device
  /\ Goto(c, "raised")
  /\ UNCHANGED <<device, live, snapshot, issued, report, audit, promotion, blessed>>

KillCheck(c) ==
  /\ check[c].pc \notin Ended \cup {"new", "queued"}
  /\ Goto(c, "killed")
  /\ UNCHANGED <<device, live, snapshot, issued, report, audit, promotion, blessed>>

-----------------------------------------------------------------------------
(* ConfigSnapshotViewSet.set_golden                                        *)

\* Mutant: the key of the snapshot is taken for that of its device.
GetSnapshotAsDevice(p, s) ==
  /\ promotion[p].pc = "new"
  /\ snapshot[s].device # None
  /\ promotion' = [promotion EXCEPT ![p] = [pc |-> "read", snap |-> s, device |-> s]]
  /\ UNCHANGED <<device, live, snapshot, issued, report, audit, check, blessed>>

GetSnapshot(p, s) ==
  /\ promotion[p].pc = "new"
  /\ snapshot[s].device # None
  /\ promotion' = [promotion EXCEPT ![p] = [pc |-> "read", snap |-> s,
                                            device |-> snapshot[s].device]]
  /\ UNCHANGED <<device, live, snapshot, issued, report, audit, check, blessed>>

\* One UPDATE over the golden snapshots of the device.
UnsetGolden(p) ==
  /\ promotion[p].pc = "read"
  /\ snapshot' = [s \in Snap |-> IF snapshot[s].device = promotion[p].device
                                   THEN [snapshot[s] EXCEPT !.golden = FALSE]
                                   ELSE snapshot[s]]
  /\ promotion' = [promotion EXCEPT ![p].pc = "unset"]
  /\ UNCHANGED <<device, live, issued, report, audit, check, blessed>>

\* Mutant: update_fields does not name is_golden.
SetGoldenUnsaved(p) ==
  /\ promotion[p].pc = "unset"
  /\ snapshot[promotion[p].snap].device # None
  /\ blessed' = blessed \cup {promotion[p].snap}
  /\ promotion' = [promotion EXCEPT ![p].pc = "done"]
  /\ UNCHANGED <<device, live, snapshot, issued, report, audit, check>>

\* save(update_fields=["is_golden"])
SetGolden(p) ==
  LET s == promotion[p].snap IN
  /\ promotion[p].pc = "unset"
  /\ snapshot[s].device # None
  /\ snapshot' = [snapshot EXCEPT ![s].golden = TRUE]
  /\ blessed' = blessed \cup {s}
  /\ promotion' = [promotion EXCEPT ![p].pc = "done"]
  /\ UNCHANGED <<device, live, issued, report, audit, check>>

SetGoldenRaises(p) ==
  /\ promotion[p].pc = "unset"
  /\ snapshot[promotion[p].snap].device = None
  /\ promotion' = [promotion EXCEPT ![p].pc = "raised"]
  /\ UNCHANGED <<device, live, snapshot, issued, report, audit, check, blessed>>

\* The web worker dies (gunicorn kills one that takes 120 s).
PromotionDies(p) ==
  /\ promotion[p].pc \in {"read", "unset"}
  /\ promotion' = [promotion EXCEPT ![p].pc =
                     IF promotion[p].pc = "unset" THEN "diedUnset" ELSE "died"]
  /\ UNCHANGED <<device, live, snapshot, issued, report, audit, check, blessed>>

-----------------------------------------------------------------------------
(* The network and the inventory                                           *)

Configure(d, conf) ==
  /\ live' = [live EXCEPT ![d] = conf]
  /\ UNCHANGED <<device, snapshot, issued, report, audit, check, promotion, blessed>>

\* Snapshots and reports cascade; AuditLog rows stay.
DeleteDevice(d) ==
  /\ d \in device
  /\ device' = device \ {d}
  /\ snapshot' = [s \in Snap |-> IF snapshot[s].device = d THEN NoRow ELSE snapshot[s]]
  /\ report' = {r \in report : r.device # d}
  /\ UNCHANGED <<live, issued, audit, check, promotion, blessed>>

-----------------------------------------------------------------------------
Task(c) ==
  \/ FetchDevice(c)
  \/ ReadConfig(c) \/ ReadFails(c) \/ ReportError(c)
  \/ StoreSnapshot(c)
  \/ FindGolden(c)
  \/ PromoteCurrent(c) \/ ReportFirst(c)
  \/ ReportDrift(c) \/ WriteAudit(c)
  \/ RowIsGone(c)

Next ==
  \/ \E c \in Check : Task(c) \/ KillCheck(c)
  \/ \E c \in Check, kind \in Kinds, d \in Device : StartTask(c, kind, d)
  \/ \E p \in Promotion, s \in Snap : GetSnapshot(p, s)
  \/ \E p \in Promotion : UnsetGolden(p) \/ SetGolden(p) \/ SetGoldenRaises(p) \/ PromotionDies(p)
  \/ \E d \in Device, conf \in Config : Configure(d, conf)
  \/ \E d \in Device : DeleteDevice(d)

Spec == Init /\ [][Next]_vars

\* Workers keep taking tasks, and every step of a task ends (SSH time-outs).
FairSpec == Spec /\ \A c \in Check : WF_vars(Task(c))
-----------------------------------------------------------------------------
(* Properties                                                              *)

\* A report's verdict is the comparison of the two snapshots it names, and
\* stays so: the rows it points at are those of its device, both were read
\* from it, and no one rewrites them (run_drift_detection).
ReportTruthful ==
  \A r \in report : r.status # "error" =>
    /\ {snapshot[r.golden].device, snapshot[r.current].device} = {r.device}
    /\ r.status = "clean" <=> snapshot[r.golden].config = snapshot[r.current].config

\* Drift is only ever measured against a snapshot somebody made golden, though
\* its is_golden may have been taken back between the query and the report.
BaselineWasGolden ==
  \A r \in report : r.status # "error" => r.golden \in blessed

\* Once a device has a baseline it loses it only between the two statements of
\* a set_golden request, or for good when that request dies between them.
GoldenHeld ==
  \A d \in device :
    SnapsOf(d) \cap blessed # {} /\ GoldensOf(d) = {} =>
      \E p \in Promotion : promotion[p].pc \in {"unset", "diedUnset"} /\ promotion[p].device = d

\* A drift check leaves exactly one report, even when it could not connect, and
\* leaves none before it has a verdict.
OneReportPerCheck ==
  \A c \in Check : check[c].kind = "drift" =>
    LET mine == {r \in report : r.check = c} IN
    /\ \A r1, r2 \in mine : r1 = r2
    /\ check[c].pc = "done" /\ check[c].device \in device => mine # {}
    /\ check[c].pc \notin {"audit", "done", "raised", "killed"} => mine = {}

\* A started task is answered: a drift check leaves its report, a snapshot task
\* returns, unless the worker is killed or the device deleted meanwhile.  No
\* answer of the device or of the database leaves it stuck or lost.
TaskAnswered ==
  \A c \in Check :
    check[c].pc = "queued" ~>
      \/ check[c].kind = "drift" /\ \E r \in report : r.check = c
      \/ check[c].kind # "drift" /\ check[c].pc = "done"
      \/ check[c].pc = "killed"
      \/ check[c].device \notin device

-----------------------------------------------------------------------------
(* Statements of the documentation the code does not keep                  *)

\* README.md of the app, line 113: at most one golden snapshot at a time.
OneGoldenPerDevice ==
  \A d \in device : \A s, t \in GoldensOf(d) : s = t
=============================================================================
