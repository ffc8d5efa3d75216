--------------------------- MODULE DiscoveryProofs ---------------------------
(***************************************************************************)
(* Theorems about Discovery, for every set of jobs, names and subnets and  *)
(* every finite set of addresses.                                          *)
(***************************************************************************)
EXTENDS Discovery, FiniteSetTheorems, TLAPS

-----------------------------------------------------------------------------
(* Which actions write which variable                                      *)

\* The request and the task of a job write its row, its locals and its INSERTs.
Own(j) ==
  \/ \E s \in Subnet : CreateJob(j, s)
  \/ Enqueue(j) \/ RequestDies(j) \/ Task(j) \/ KillRun(j)

LEMMA Steps ==
  [Next]_vars =>
    \/ \E j \in Job : Own(j)
    \/ UNCHANGED <<job, run, made>>
BY DEF Next, vars, Own, AddDevice, EditDevice, DeleteDevice

LEMMA WritesOfDevices ==
  [Next]_vars =>
    \/ UNCHANGED device
    \/ \E j \in Job : Insert(j)
    \/ \E a \in Address, n \in UserName : AddDevice(a, n)
    \/ \E a, b \in Address, n \in UserName : EditDevice(a, b, n)
    \/ \E a \in Address : DeleteDevice(a)
<1> DEFINE Goal == \/ UNCHANGED device
                   \/ \E j \in Job : Insert(j)
                   \/ \E a \in Address, n \in UserName : AddDevice(a, n)
                   \/ \E a, b \in Address, n \in UserName : EditDevice(a, b, n)
                   \/ \E a \in Address : DeleteDevice(a)
<1> SUFFICES ASSUME [Next]_vars PROVE Goal
  OBVIOUS
<1>1. ASSUME NEW j \in Job, Task(j) PROVE Goal
  BY <1>1 DEF Task, MarkRunning, ParseSubnet, PingSilent, PingAnswered, AllScanned, SkipKnown,
              NotKnown, ChooseName, InsertCollides, ScanRaises, Finish
<1>2. ASSUME NEW j \in Job, Enqueue(j) \/ RequestDies(j) \/ KillRun(j) PROVE Goal
  BY <1>2 DEF Enqueue, RequestDies, KillRun
<1>3. ASSUME NEW j \in Job, NEW s \in Subnet, CreateJob(j, s) PROVE Goal
  BY <1>3 DEF CreateJob
<1>4. ASSUME UNCHANGED vars PROVE Goal
  BY <1>4 DEF vars
<1> HIDE DEF Goal
<1>5. ASSUME \/ \E a \in Address, n \in UserName : AddDevice(a, n)
             \/ \E a, b \in Address, n \in UserName : EditDevice(a, b, n)
             \/ \E a \in Address : DeleteDevice(a)
      PROVE  Goal
  BY <1>5 DEF Goal
<1> QED BY <1>1, <1>2, <1>3, <1>4, <1>5 DEF Next

-----------------------------------------------------------------------------
(* Type correctness                                                        *)

Scanning == {"ping", "exists", "name", "insert"}
AtHost   == {"exists", "name", "insert"}

\* A scan knows its subnet; while it deals with a host it knows which, and when
\* it is to insert a row it has a name for it.
Located(j) ==
  /\ run[j].pc \in Scanning => job[j].subnet \in DOMAIN HostsOf
  /\ run[j].pc \in AtHost => run[j].at <= Len(Hosts(j))
  /\ run[j].pc = "insert" => run[j].name \in Hostname

TypeInv == TypeOK /\ \A j \in Job : Located(j)

LEMMA LogTyped ==
  /\ NoLog \in Log
  /\ \A log \in Log, a \in Address, l \in Line : [log EXCEPT ![a] = l] \in Log
BY DEF NoLog, Log, Line

LEMMA InitTyped == Init => TypeInv
<1> SUFFICES ASSUME Init PROVE TypeInv
  OBVIOUS
<1>1. NoJob \in JobRow /\ NewRun \in RunState
  BY LogTyped DEF NoJob, NewRun, JobRow, RunState, Pc
<1>2. TypeOK
  BY <1>1 DEF Init, TypeOK
<1>3. \A j \in Job : run[j].pc = "new"
  BY DEF Init, NewRun
<1> QED BY <1>2, <1>3 DEF TypeInv, Located, Scanning, AtHost

\* The host a scan is at is an address.
LEMMA HostIsAddress ==
  ASSUME TypeInv, NEW j \in Job, run[j].pc \in Scanning, run[j].at <= Len(Hosts(j))
  PROVE  /\ Hosts(j) \in Seq(Address)
         /\ run[j].at \in DOMAIN Hosts(j)
         /\ Host(j) \in Address
         /\ \A i, k \in DOMAIN Hosts(j) : Hosts(j)[i] = Hosts(j)[k] => i = k
<1>1. job[j].subnet \in DOMAIN HostsOf /\ run[j].at \in Nat \ {0}
  BY DEF TypeInv, TypeOK, Located, RunState
<1>2. Hosts(j) \in Seq(Address) /\ \A i, k \in DOMAIN Hosts(j) : Hosts(j)[i] = Hosts(j)[k] => i = k
  BY <1>1, HostsAssumption, DistinctAssumption DEF Hosts
<1>3. run[j].at \in 1 .. Len(Hosts(j))
  BY <1>1, <1>2
<1> QED BY <1>2, <1>3 DEF Host

LEMMA DevicesTyped ==
  ASSUME TypeInv, [Next]_vars
  PROVE  /\ device' \in [Address -> Hostname \cup {None}]
         /\ \A a, b \in Address : device'[a] = device'[b] => a = b \/ device'[a] = None
<1> DEFINE Goal == /\ device' \in [Address -> Hostname \cup {None}]
                   /\ \A a, b \in Address : device'[a] = device'[b] => a = b \/ device'[a] = None
<1>0. /\ device \in [Address -> Hostname \cup {None}]
      /\ \A a, b \in Address : device[a] = device[b] => a = b \/ device[a] = None
      /\ UserName \subseteq Hostname
  BY UserNameAssumption DEF TypeInv, TypeOK, Hostname
<1>1. ASSUME NEW j \in Job, Insert(j) PROVE Goal
  <2>1. run[j].pc \in Scanning /\ run[j].at <= Len(Hosts(j)) /\ run[j].name \in Hostname
    BY <1>1 DEF Insert, TypeInv, Located, Scanning, AtHost
  <2>2. Host(j) \in Address
    BY <2>1, HostIsAddress
  <2> QED BY <1>0, <1>1, <2>1, <2>2 DEF Insert, Unique
<1>2. ASSUME NEW a \in Address, NEW n \in UserName, AddDevice(a, n) PROVE Goal
  BY <1>0, <1>2 DEF AddDevice, Unique
<1>3. ASSUME NEW a \in Address, NEW b \in Address, NEW n \in UserName, EditDevice(a, b, n)
      PROVE  Goal
  BY <1>0, <1>3 DEF EditDevice
<1>4. ASSUME NEW a \in Address, DeleteDevice(a) PROVE Goal
  BY <1>0, <1>4 DEF DeleteDevice
<1> QED BY <1>0, <1>1, <1>2, <1>3, <1>4, WritesOfDevices

\* The step of a run, with all its locals.
Become(j, pc, at, found, added, log, name) ==
  run' = [run EXCEPT ![j] = [pc |-> pc, at |-> at, found |-> found, added |-> added,
                             log |-> log, name |-> name]]

LEMMA AfterGoto ==
  ASSUME run \in [Job -> RunState], NEW j \in Job, NEW pc, Goto(j, pc)
  PROVE  Become(j, pc, run[j].at, run[j].found, run[j].added, run[j].log, run[j].name)
<1>1. [run[j] EXCEPT !.pc = pc] =
        [pc |-> pc, at |-> run[j].at, found |-> run[j].found, added |-> run[j].added,
         log |-> run[j].log, name |-> run[j].name]
  BY DEF RunState
<1> QED BY <1>1 DEF Goto, Become

LEMMA AfterNextHost ==
  ASSUME NEW j \in Job, NEW found, NEW added, NEW log, NextHost(j, found, added, log)
  PROVE  Become(j, "ping", run[j].at + 1, found, added, log, None)
BY DEF NextHost, Become

LEMMA AfterAnswer ==
  ASSUME run \in [Job -> RunState], NEW j \in Job, PingAnswered(j)
  PROVE  Become(j, "exists", run[j].at, run[j].found + 1, run[j].added,
                [run[j].log EXCEPT ![Host(j)] = "alive"], run[j].name)
<1> DEFINE log == [run[j].log EXCEPT ![Host(j)] = "alive"]
           found == run[j].found + 1
<1>1. run' = [run EXCEPT ![j].pc = "exists", ![j].found = found, ![j].log = log]
  BY DEF PingAnswered
<1> HIDE DEF log, found
<1> DEFINE row == [pc |-> "exists", at |-> run[j].at, found |-> found, added |-> run[j].added,
                   log |-> log, name |-> run[j].name]
<1>2. DOMAIN run' = Job /\ run' = [i \in Job |-> run'[i]]
  BY <1>1
<1>3. \A i \in Job \ {j} : run'[i] = run[i]
  BY <1>1
<1>4. run'[j] = row
  BY <1>1 DEF RunState
<1> HIDE DEF row
<1>5. run' = [run EXCEPT ![j] = row]
  BY <1>2, <1>3, <1>4
<1> QED BY <1>5 DEF Become, row, log, found

LEMMA AfterChoice ==
  ASSUME run \in [Job -> RunState], NEW j \in Job, ChooseName(j)
  PROVE  \E n \in Name \cup {Host(j)} :
           Become(j, "insert", run[j].at, run[j].found, run[j].added, run[j].log, n)
<1>1. PICK n \in Name \cup {Host(j)} : run' = [run EXCEPT ![j].pc = "insert", ![j].name = n]
  BY DEF ChooseName
<1> DEFINE row == [pc |-> "insert", at |-> run[j].at, found |-> run[j].found,
                   added |-> run[j].added, log |-> run[j].log, name |-> n]
<1>2. DOMAIN run' = Job /\ run' = [i \in Job |-> run'[i]]
  BY <1>1
<1>3. \A i \in Job \ {j} : run'[i] = run[i]
  BY <1>1
<1>4. run'[j] = row
  BY <1>1 DEF RunState
<1> HIDE DEF row
<1>5. run' = [run EXCEPT ![j] = row]
  BY <1>2, <1>3, <1>4
<1> QED BY <1>5 DEF Become, row

\* What a step makes of the locals of its run, and only of those.
LEMMA Became ==
  ASSUME run \in [Job -> RunState], NEW j \in Job, NEW pc \in Pc, NEW at \in Nat \ {0},
         NEW found \in Nat, NEW added \in Nat, NEW log \in Log, NEW name \in Hostname \cup {None},
         Become(j, pc, at, found, added, log, name)
  PROVE  /\ run' \in [Job -> RunState]
         /\ run'[j].pc = pc /\ run'[j].at = at /\ run'[j].found = found
         /\ run'[j].added = added /\ run'[j].log = log /\ run'[j].name = name
         /\ \A i \in Job \ {j} : run'[i] = run[i]
<1> DEFINE row == [pc |-> pc, at |-> at, found |-> found, added |-> added,
                   log |-> log, name |-> name]
<1>1. row \in RunState
  BY DEF RunState
<1>2. run' = [run EXCEPT ![j] = row]
  BY DEF Become
<1>3. /\ row.pc = pc /\ row.at = at /\ row.found = found /\ row.added = added
      /\ row.log = log /\ row.name = name
  OBVIOUS
<1> HIDE DEF row
<1> QED BY <1>1, <1>2, <1>3

\* The locals of a run after any step of its own.
RunsOn(j) ==
  \E pc \in Pc, at \in Nat \ {0}, found \in Nat, added \in Nat, log \in Log,
     name \in Hostname \cup {None} :
    /\ Become(j, pc, at, found, added, log, name)
    /\ pc \in Scanning => \/ run[j].pc \in Scanning
                          \/ run[j].pc = "parse" /\ job[j].subnet \in DOMAIN HostsOf
    /\ pc \in AtHost => at <= Len(Hosts(j))
    /\ pc = "insert" => name \in Hostname

LEMMA OwnRuns ==
  ASSUME TypeInv, NEW j \in Job, Own(j)
  PROVE  RunsOn(j)
<1>0. /\ run \in [Job -> RunState] /\ run[j] \in RunState /\ job \in [Job -> JobRow]
      /\ Located(j)
      /\ run[j].at \in Nat \ {0} /\ run[j].at + 1 \in Nat \ {0}
      /\ run[j].found \in Nat /\ run[j].found + 1 \in Nat
      /\ run[j].added \in Nat /\ run[j].added + 1 \in Nat
      /\ run[j].log \in Log /\ run[j].name \in Hostname \cup {None}
      /\ None \in Hostname \cup {None} /\ "ping" \in Pc /\ "exists" \in Pc /\ "insert" \in Pc
  BY DEF TypeInv, TypeOK, RunState, Pc
<1> DEFINE To(pc) == Become(j, pc, run[j].at, run[j].found, run[j].added, run[j].log, run[j].name)
<1>1. ASSUME NEW pc \in Pc \ Scanning, Goto(j, pc) PROVE RunsOn(j)
  <2>1. To(pc) /\ pc \notin AtHost /\ pc # "insert"
    BY <1>0, <1>1, AfterGoto DEF AtHost, Scanning
  <2> QED BY <1>0, <2>1 DEF RunsOn
<1>2. ASSUME NEW found \in Nat, NEW added \in Nat, NEW log \in Log, NextHost(j, found, added, log),
             run[j].pc \in Scanning
      PROVE  RunsOn(j)
  <2>1. Become(j, "ping", run[j].at + 1, found, added, log, None)
    BY <1>2, AfterNextHost
  <2>2. "ping" \notin AtHost /\ "ping" # "insert"
    BY DEF AtHost
  <2> QED BY <1>0, <1>2, <2>1, <2>2 DEF RunsOn
<1>3. ASSUME NEW s \in Subnet, CreateJob(j, s) PROVE RunsOn(j)
  BY <1>1, <1>3 DEF CreateJob, Pc, Scanning
<1>4. CASE Enqueue(j) \/ RequestDies(j) \/ KillRun(j) \/ MarkRunning(j)
  BY <1>1, <1>4 DEF Enqueue, RequestDies, KillRun, MarkRunning, Pc, Scanning
<1>5. CASE AllScanned(j) \/ InsertCollides(j) \/ ScanRaises(j) \/ Finish(j)
  BY <1>1, <1>5 DEF AllScanned, InsertCollides, ScanRaises, Finish, Pc, Scanning
<1>6. CASE ParseSubnet(j)
  <2>1. CASE job[j].subnet \in DOMAIN HostsOf
    <3>1. Goto(j, "ping") /\ run[j].pc = "parse"
      BY <1>6, <2>1 DEF ParseSubnet
    <3>2. To("ping") /\ "ping" \notin AtHost
      BY <1>0, <3>1, AfterGoto DEF AtHost
    <3> QED BY <1>0, <2>1, <3>1, <3>2 DEF RunsOn
  <2>2. CASE job[j].subnet \notin DOMAIN HostsOf
    BY <1>1, <1>6, <2>2 DEF ParseSubnet, Pc, Scanning
  <2> QED BY <2>1, <2>2
<1>7. CASE PingSilent(j)
  BY <1>0, <1>2, <1>7 DEF PingSilent, Scanning
<1>8. CASE PingAnswered(j)
  <2>1. /\ Become(j, "exists", run[j].at, run[j].found + 1, run[j].added,
                  [run[j].log EXCEPT ![Host(j)] = "alive"], run[j].name)
        /\ run[j].pc \in Scanning /\ run[j].at <= Len(Hosts(j))
    BY <1>0, <1>8, AfterAnswer DEF PingAnswered, Scanning
  <2>2. [run[j].log EXCEPT ![Host(j)] = "alive"] \in Log
    BY <1>0, <2>1, HostIsAddress, LogTyped DEF Line
  <2> HIDE DEF To
  <2> QED BY <1>0, <2>1, <2>2 DEF RunsOn
<1>9. CASE SkipKnown(j)
  <2>1. run[j].pc \in Scanning /\ run[j].at <= Len(Hosts(j))
    BY <1>0, <1>9 DEF SkipKnown, Scanning, AtHost, Located
  <2>2. [run[j].log EXCEPT ![Host(j)] = "known"] \in Log
    BY <1>0, <2>1, HostIsAddress, LogTyped DEF Line
  <2> QED BY <1>0, <1>2, <1>9, <2>1, <2>2 DEF SkipKnown
<1>10. CASE NotKnown(j)
  <2>1. /\ Goto(j, "name") /\ run[j].pc \in Scanning /\ run[j].at <= Len(Hosts(j))
        /\ "name" \in Pc /\ "name" # "insert"
    BY <1>0, <1>10 DEF NotKnown, Located, Scanning, AtHost, Pc
  <2>2. To("name")
    BY <1>0, <2>1, AfterGoto
  <2> QED BY <1>0, <2>1, <2>2 DEF RunsOn
<1>11. CASE ChooseName(j)
  <2>1. PICK n \in Name \cup {Host(j)} :
          Become(j, "insert", run[j].at, run[j].found, run[j].added, run[j].log, n)
    BY <1>0, <1>11, AfterChoice
  <2>2. run[j].pc \in Scanning /\ run[j].at <= Len(Hosts(j))
    BY <1>0, <1>11 DEF ChooseName, Located, Scanning, AtHost
  <2>3. n \in Hostname
    BY <2>2, HostIsAddress DEF Hostname
  <2> QED BY <1>0, <2>1, <2>2, <2>3 DEF RunsOn
<1>12. CASE Insert(j)
  <2>1. run[j].pc \in Scanning /\ run[j].at <= Len(Hosts(j))
    BY <1>0, <1>12 DEF Insert, Scanning, AtHost, Located
  <2>2. [run[j].log EXCEPT ![Host(j)] = "added"] \in Log
    BY <1>0, <2>1, HostIsAddress, LogTyped DEF Line
  <2> QED BY <1>0, <1>2, <1>12, <2>1, <2>2 DEF Insert
<1> QED
  BY <1>3, <1>4, <1>5, <1>6, <1>7, <1>8, <1>9, <1>10, <1>11, <1>12 DEF Own, Task

\* The row of a job is created by its request, marked by its task and filled in
\* by the last save; its subnet stays the one of the request.
LEMMA OwnRows ==
  ASSUME job \in [Job -> JobRow], run \in [Job -> RunState], NEW j \in Job, Own(j)
  PROVE  \/ job' = job
         \/ \E row \in JobRow :
              /\ job' = [job EXCEPT ![j] = row]
              /\ run[j].pc = "new" \/ row.subnet = job[j].subnet
              /\ \/ row.status \in {"pending", "running"}
                 \/ /\ Finish(j) /\ row.status = run[j].pc /\ row.found = run[j].found
                    /\ row.added = run[j].added /\ row.log = run[j].log
<1> DEFINE Goal ==
         \/ job' = job
         \/ \E row \in JobRow :
              /\ job' = [job EXCEPT ![j] = row]
              /\ run[j].pc = "new" \/ row.subnet = job[j].subnet
              /\ \/ row.status \in {"pending", "running"}
                 \/ /\ Finish(j) /\ row.status = run[j].pc /\ row.found = run[j].found
                    /\ row.added = run[j].added /\ row.log = run[j].log
<1>0. job[j] \in JobRow /\ run[j] \in RunState
  OBVIOUS
<1>1. ASSUME NEW s \in Subnet, CreateJob(j, s) PROVE Goal
  <2> DEFINE row == [job[j] EXCEPT !.status = "pending", !.subnet = s]
  <2>1. row \in JobRow /\ row.status = "pending"
    BY <1>0 DEF JobRow
  <2>2. job' = [job EXCEPT ![j] = row] /\ run[j].pc = "new"
    BY <1>1 DEF CreateJob, JobRow
  <2> HIDE DEF row
  <2> QED BY <2>1, <2>2
<1>2. ASSUME MarkRunning(j) PROVE Goal
  <2> DEFINE row == [job[j] EXCEPT !.status = "running"]
  <2>1. row \in JobRow /\ row.status = "running" /\ row.subnet = job[j].subnet
    BY <1>0 DEF JobRow
  <2>2. job' = [job EXCEPT ![j] = row]
    BY <1>2 DEF MarkRunning
  <2> HIDE DEF row
  <2> QED BY <2>1, <2>2
<1>3. ASSUME Finish(j) PROVE Goal
  <2> DEFINE row == [job[j] EXCEPT !.status = run[j].pc, !.found = run[j].found,
                                   !.added = run[j].added, !.log = run[j].log]
  <2>1. /\ run[j].pc \in {"completed", "failed"}
        /\ run[j].found \in Nat /\ run[j].added \in Nat /\ run[j].log \in Log
    BY <1>0, <1>3 DEF Finish, RunState
  <2>2. /\ row \in JobRow /\ row.subnet = job[j].subnet /\ row.status = run[j].pc
        /\ row.found = run[j].found /\ row.added = run[j].added /\ row.log = run[j].log
    BY <1>0, <2>1 DEF JobRow
  <2>3. job' = [job EXCEPT ![j] = row]
    BY <1>3 DEF Finish, JobRow
  <2> HIDE DEF row
  <2> QED BY <1>3, <2>2, <2>3
<1>4. ASSUME \/ Enqueue(j) \/ RequestDies(j) \/ KillRun(j) \/ ParseSubnet(j) \/ PingSilent(j)
             \/ PingAnswered(j) \/ AllScanned(j) \/ SkipKnown(j) \/ NotKnown(j)
             \/ ChooseName(j) \/ Insert(j) \/ InsertCollides(j) \/ ScanRaises(j)
      PROVE  job' = job
  BY <1>4 DEF Enqueue, RequestDies, KillRun, ParseSubnet, PingSilent, PingAnswered, AllScanned,
              SkipKnown, NotKnown, ChooseName, Insert, InsertCollides, ScanRaises
<1> HIDE DEF Goal
<1>5. job' = job => Goal
  BY DEF Goal
<1>6. Goal
  BY <1>1, <1>2, <1>3, <1>4, <1>5 DEF Own, Task
<1> QED BY <1>6 DEF Goal

LEMMA OwnMade ==
  ASSUME TypeInv, NEW j \in Job, Own(j)
  PROVE  \/ made' = made /\ ~Insert(j)
         \/ /\ Insert(j) /\ Host(j) \in Address
            /\ made' = [made EXCEPT ![j] = made[j] \cup {Host(j)}]
<1>1. ASSUME Insert(j) PROVE Host(j) \in Address
  BY <1>1, HostIsAddress DEF Insert, TypeInv, Located, Scanning, AtHost
<1>2. ASSUME ~Insert(j) PROVE made' = made
  BY <1>2 DEF Own, Task, CreateJob, Enqueue, RequestDies, KillRun, MarkRunning, ParseSubnet,
              PingSilent, PingAnswered, AllScanned, SkipKnown, NotKnown, ChooseName,
              InsertCollides, ScanRaises, Finish
<1> QED BY <1>1, <1>2 DEF Insert

LEMMA TypeStep == TypeInv /\ [Next]_vars => TypeInv'
<1> SUFFICES ASSUME TypeInv, [Next]_vars PROVE TypeInv'
  OBVIOUS
<1>0. /\ job \in [Job -> JobRow] /\ run \in [Job -> RunState] /\ made \in [Job -> SUBSET Address]
      /\ \A j \in Job : Located(j)
  BY DEF TypeInv, TypeOK
<1>1. ASSUME NEW j \in Job, Own(j)
      PROVE  /\ job' \in [Job -> JobRow] /\ run' \in [Job -> RunState]
             /\ made' \in [Job -> SUBSET Address]
             /\ \A i \in Job : Located(i)'
  <2>1. PICK pc \in Pc, at \in Nat \ {0}, found \in Nat, added \in Nat, log \in Log,
             name \in Hostname \cup {None} :
          /\ Become(j, pc, at, found, added, log, name)
          /\ pc \in Scanning => \/ run[j].pc \in Scanning
                                \/ run[j].pc = "parse" /\ job[j].subnet \in DOMAIN HostsOf
          /\ pc \in AtHost => at <= Len(Hosts(j))
          /\ pc = "insert" => name \in Hostname
    BY <1>1, OwnRuns DEF RunsOn
  <2>2. /\ run' \in [Job -> RunState]
        /\ run'[j].pc = pc /\ run'[j].at = at /\ run'[j].name = name
        /\ \A i \in Job \ {j} : run'[i] = run[i]
    BY <1>0, <2>1, Became
  <2>3. /\ job' \in [Job -> JobRow]
        /\ \A i \in Job \ {j} : job'[i] = job[i]
        /\ run[j].pc = "new" \/ job'[j].subnet = job[j].subnet
    BY <1>0, <1>1, OwnRows
  <2>4. made' \in [Job -> SUBSET Address]
    BY <1>0, <1>1, OwnMade
  <2>5. ASSUME NEW i \in Job \ {j} PROVE Located(i)'
    BY <1>0, <2>2, <2>3 DEF Located, Scanning, AtHost, Hosts, Hostname
  <2>6. Located(j)'
    <3>1. CASE pc \in Scanning
      <4>1. job[j].subnet \in DOMAIN HostsOf /\ run[j].pc # "new"
        BY <1>0, <2>1, <3>1 DEF Located, Scanning
      <4>2. job'[j].subnet = job[j].subnet
        BY <2>3, <4>1
      <4> QED BY <2>1, <2>2, <4>1, <4>2 DEF Located, Scanning, AtHost, Hosts, Hostname
    <3>2. CASE pc \notin Scanning
      BY <2>2, <3>2 DEF Located, Scanning, AtHost
    <3> QED BY <3>1, <3>2
  <2> QED BY <2>2, <2>3, <2>4, <2>5, <2>6
<1>2. ASSUME UNCHANGED <<job, run, made>>
      PROVE  /\ job' \in [Job -> JobRow] /\ run' \in [Job -> RunState]
             /\ made' \in [Job -> SUBSET Address]
             /\ \A i \in Job : Located(i)'
  BY <1>0, <1>2 DEF Located, Scanning, AtHost, Hosts, Hostname
<1>3. /\ job' \in [Job -> JobRow] /\ run' \in [Job -> RunState]
      /\ made' \in [Job -> SUBSET Address]
      /\ \A i \in Job : Located(i)'
  BY <1>1, <1>2, Steps
<1> QED BY <1>3, DevicesTyped DEF TypeInv, TypeOK

LEMMA TypeInvariant == Spec => []TypeInv
<1> QED BY InitTyped, TypeStep, PTL DEF Spec

\* Rows and locals have their types, host names stay unique across concurrent
\* scans and users, and no scan runs past the hosts of its subnet.
THEOREM TypeCorrect == Spec => []TypeOK
<1> QED BY TypeInvariant, PTL DEF TypeInv

-----------------------------------------------------------------------------
(* What the log of a scan says of its hosts                                *)

Early == {"new", "accepted", "queued", "parse"}

Answered(log) == Lines(log, {"alive", "known", "added"})
Open(log)     == Lines(log, {"alive"})
Added(log)    == Lines(log, {"added"})

\* The counters and the INSERTs of a scan are those of its log; a host is open,
\* that is answered and not dealt with, only while the scan is at it, or when
\* the scan failed at it.  Nothing is logged yet of the hosts ahead.
Fits(pc, at, found, added, log, mine, hosts) ==
  /\ mine = Added(log) /\ added = Cardinality(mine) /\ found = Cardinality(Answered(log))
  /\ pc \in Early \cup {"ping", "completed"} => Open(log) = {}
  /\ pc \in AtHost => Open(log) = {hosts[at]}
  /\ pc = "failed" => Cardinality(Open(log)) <= 1
  /\ pc \in Early => log = NoLog /\ at = 1
  /\ pc \in Scanning =>
       \A i \in DOMAIN hosts : i > at \/ (i = at /\ pc = "ping") => log[hosts[i]] = ""

ScanInv(j) ==
  Fits(run[j].pc, run[j].at, run[j].found, run[j].added, run[j].log, made[j], Hosts(j))

\* The row of a job that ended is what its scan ended with.
Filed(j) ==
  job[j].status \in {"completed", "failed"} =>
    /\ run[j].pc = "done"
    /\ job[j].found = run[j].found /\ job[j].added = run[j].added /\ job[j].log = run[j].log
    /\ job[j].status = "completed" => Open(run[j].log) = {}
    /\ job[j].status = "failed" => Cardinality(Open(run[j].log)) <= 1

LogsInv == \A j \in Job : ScanInv(j) /\ Filed(j)

\* Which hosts have which lines, after one more line.
LEMMA OneMoreLine ==
  ASSUME NEW log \in Log, NEW a \in Address, NEW l \in Line
  PROVE  /\ Answered([log EXCEPT ![a] = l]) =
              IF l # "" THEN Answered(log) \cup {a} ELSE Answered(log) \ {a}
         /\ Open([log EXCEPT ![a] = l]) =
              IF l = "alive" THEN Open(log) \cup {a} ELSE Open(log) \ {a}
         /\ Added([log EXCEPT ![a] = l]) =
              IF l = "added" THEN Added(log) \cup {a} ELSE Added(log) \ {a}
         /\ \A b \in Address \ {a} : [log EXCEPT ![a] = l][b] = log[b]
<1> DEFINE next == [log EXCEPT ![a] = l]
<1>1. next[a] = l /\ \A b \in Address \ {a} : next[b] = log[b]
  BY DEF Log
<1> HIDE DEF next
<1>2. ASSUME NEW kinds
      PROVE  Lines(next, kinds) = IF l \in kinds THEN Lines(log, kinds) \cup {a}
                                                ELSE Lines(log, kinds) \ {a}
  BY <1>1 DEF Lines
<1>3. Answered(next) = IF l # "" THEN Answered(log) \cup {a} ELSE Answered(log) \ {a}
  <2>1. l \in {"alive", "known", "added"} <=> l # ""
    BY DEF Line
  <2> QED BY <1>2, <2>1 DEF Answered
<1>4. Open(next) = IF l = "alive" THEN Open(log) \cup {a} ELSE Open(log) \ {a}
  BY <1>2 DEF Open
<1>5. Added(next) = IF l = "added" THEN Added(log) \cup {a} ELSE Added(log) \ {a}
  BY <1>2 DEF Added
<1> QED BY <1>1, <1>3, <1>4, <1>5 DEF next

LEMMA LinesFinite == \A log, kinds : IsFiniteSet(Lines(log, kinds))
BY AddressAssumption, FS_Subset DEF Lines

LEMMA EmptyLog == \A kinds : "" \notin kinds => Lines(NoLog, kinds) = {}
BY DEF Lines, NoLog

\* A scan is at one of its hosts, which are distinct addresses.
At(at, hosts) ==
  /\ at \in DOMAIN hosts /\ DOMAIN hosts \subseteq Nat
  /\ \A i \in DOMAIN hosts : hosts[i] \in Address
  /\ \A i, k \in DOMAIN hosts : hosts[i] = hosts[k] => i = k

\* A host answers: it is found, and open.
LEMMA AnswerFits ==
  ASSUME NEW log \in Log, NEW at \in Nat, NEW found \in Nat, NEW added \in Nat, NEW mine, NEW hosts,
         At(at, hosts), Fits("ping", at, found, added, log, mine, hosts)
  PROVE  Fits("exists", at, found + 1, added, [log EXCEPT ![hosts[at]] = "alive"], mine, hosts)
<1> DEFINE a == hosts[at]
           next == [log EXCEPT ![a] = "alive"]
<1>1. log[a] = "" /\ a \in Address /\ "alive" \in Line
  BY DEF Fits, Scanning, At, Line
<1>2. a \notin Answered(log) /\ a \notin Added(log)
  BY <1>1 DEF Answered, Added, Lines
<1>3. /\ Answered(next) = Answered(log) \cup {a}
      /\ Open(next) = Open(log) \cup {a}
      /\ Added(next) = Added(log) \ {a}
      /\ \A b \in Address \ {a} : next[b] = log[b]
  <2> HIDE DEF a
  <2> QED BY <1>1, OneMoreLine
<1>4. Cardinality(Answered(next)) = Cardinality(Answered(log)) + 1
  BY <1>2, <1>3, LinesFinite, FS_AddElement DEF Answered
<1>5. Open(log) = {} /\ mine = Added(log) /\ added = Cardinality(mine)
      /\ found = Cardinality(Answered(log))
  BY DEF Fits
<1>6. ASSUME NEW i \in DOMAIN hosts, i > at PROVE next[hosts[i]] = ""
  <2>1. hosts[i] \in Address \ {a}
    BY <1>6 DEF At
  <2>2. log[hosts[i]] = ""
    BY <1>6 DEF Fits, Scanning
  <2> QED BY <1>3, <2>1, <2>2
<1> HIDE DEF next
<1>7. Open(next) = {a} /\ mine = Added(next) /\ found + 1 = Cardinality(Answered(next))
  BY <1>2, <1>3, <1>4, <1>5
<1>8. Fits("exists", at, found + 1, added, next, mine, hosts)
  BY <1>5, <1>6, <1>7 DEF Fits, Early, AtHost, Scanning
<1> QED BY <1>8 DEF next

\* The scan has dealt with the host it is at, and goes on to the next.
LEMMA DealtFits ==
  ASSUME NEW log \in Log, NEW at \in Nat, NEW found \in Nat, NEW added \in Nat, NEW mine, NEW hosts,
         NEW pc \in AtHost, At(at, hosts), Fits(pc, at, found, added, log, mine, hosts)
  PROVE  /\ Fits("ping", at + 1, found, added, [log EXCEPT ![hosts[at]] = "known"], mine, hosts)
         /\ Fits("ping", at + 1, found, added + 1, [log EXCEPT ![hosts[at]] = "added"],
                 mine \cup {hosts[at]}, hosts)
<1> DEFINE a == hosts[at]
<1>1. Open(log) = {a} /\ a \in Address
  BY DEF Fits, At
<1>2. log[a] = "alive" /\ a \in Answered(log) /\ a \notin Added(log)
  BY <1>1 DEF Open, Answered, Added, Lines
<1>3. ASSUME NEW i \in DOMAIN hosts, i > at PROVE hosts[i] \in Address \ {a} /\ log[hosts[i]] = ""
  <2>1. i # at /\ hosts[i] # a /\ hosts[i] \in Address
    BY <1>3 DEF At
  <2>2. pc \in Scanning
    BY DEF AtHost, Scanning
  <2> QED BY <1>3, <2>1, <2>2 DEF Fits
<1>4. mine = Added(log) /\ added = Cardinality(mine) /\ found = Cardinality(Answered(log))
  BY DEF Fits
<1>5. Cardinality(Added(log) \cup {a}) = Cardinality(Added(log)) + 1
  BY <1>2, LinesFinite, FS_AddElement DEF Added
<1>6. ASSUME NEW i \in DOMAIN hosts, i > at + 1 \/ i = at + 1 PROVE i > at
  BY <1>6 DEF At
<1> HIDE DEF a
<1>7. ASSUME NEW l \in {"known", "added"}
      PROVE  /\ Answered([log EXCEPT ![a] = l]) = Answered(log)
             /\ Open([log EXCEPT ![a] = l]) = {}
             /\ Added([log EXCEPT ![a] = l]) =
                  IF l = "added" THEN Added(log) \cup {a} ELSE Added(log)
             /\ \A i \in DOMAIN hosts : i > at => [log EXCEPT ![a] = l][hosts[i]] = ""
  <2> DEFINE next == [log EXCEPT ![a] = l]
  <2>1. l \in Line /\ l # "" /\ l # "alive"
    BY DEF Line
  <2>2. /\ Answered(next) = Answered(log) \cup {a}
        /\ Open(next) = Open(log) \ {a}
        /\ Added(next) = IF l = "added" THEN Added(log) \cup {a} ELSE Added(log) \ {a}
        /\ \A b \in Address \ {a} : next[b] = log[b]
    BY <1>1, <2>1, OneMoreLine
  <2> HIDE DEF next
  <2>3. Answered(next) = Answered(log) /\ Open(next) = {}
    BY <1>1, <1>2, <2>2
  <2>4. Added(next) = IF l = "added" THEN Added(log) \cup {a} ELSE Added(log)
    BY <1>2, <2>2
  <2>5. \A i \in DOMAIN hosts : i > at => next[hosts[i]] = ""
    BY <1>3, <2>2
  <2> QED BY <2>3, <2>4, <2>5 DEF next
<1>8. Fits("ping", at + 1, found, added, [log EXCEPT ![a] = "known"], mine, hosts)
  <2> DEFINE next == [log EXCEPT ![a] = "known"]
  <2>1. /\ Answered(next) = Answered(log) /\ Open(next) = {} /\ Added(next) = Added(log)
        /\ \A i \in DOMAIN hosts : i > at => next[hosts[i]] = ""
    BY <1>7
  <2> HIDE DEF next
  <2>2. Fits("ping", at + 1, found, added, next, mine, hosts)
    BY <1>4, <1>6, <2>1 DEF Fits, Early, AtHost
  <2> QED BY <2>2 DEF next
<1>9. Fits("ping", at + 1, found, added + 1, [log EXCEPT ![a] = "added"], mine \cup {a}, hosts)
  <2> DEFINE next == [log EXCEPT ![a] = "added"]
  <2>1. /\ Answered(next) = Answered(log) /\ Open(next) = {} /\ Added(next) = Added(log) \cup {a}
        /\ \A i \in DOMAIN hosts : i > at => next[hosts[i]] = ""
    BY <1>7
  <2> HIDE DEF next
  <2>2. Fits("ping", at + 1, found, added + 1, next, mine \cup {a}, hosts)
    BY <1>4, <1>5, <1>6, <2>1 DEF Fits, Early, AtHost
  <2> QED BY <2>2 DEF next
<1> QED BY <1>8, <1>9 DEF a
\* A scan whose counters, log and INSERTs stay goes from one place to the next.
LEMMA GoneFits ==
  ASSUME NEW pc, NEW next, NEW at, NEW found, NEW added, NEW log, NEW mine, NEW hosts, NEW new,
         Fits(pc, at, found, added, log, mine, hosts),
         \/ pc \in Early /\ next \in Early \cup {"lost", "failed"}
         \/ pc = "parse" /\ next = "ping" /\ \A i \in DOMAIN new : new[i] \in Address
         \/ new = hosts /\ <<pc, next>> \in
              {<<"ping", "completed">>, <<"exists", "name">>, <<"name", "insert">>,
               <<"ping", "failed">>, <<"name", "failed">>, <<"insert", "failed">>}
         \/ next \in {"done", "killed"}
  PROVE  Fits(next, at, found, added, log, mine, new)
<1>1. mine = Added(log) /\ added = Cardinality(mine) /\ found = Cardinality(Answered(log))
  BY DEF Fits
<1>2. CASE pc \in Early /\ next \in Early \cup {"lost", "failed"}
  <2>1. log = NoLog /\ at = 1 /\ Open(log) = {} /\ Cardinality(Open(log)) <= 1
    <3>1. log = NoLog /\ at = 1 /\ Open(log) = {}
      BY <1>2 DEF Fits
    <3> QED BY <3>1, FS_EmptySet
  <2>2. next \notin AtHost \cup Scanning
    BY <1>2 DEF Early, AtHost, Scanning
  <2> QED BY <1>1, <2>1, <2>2 DEF Fits
<1>3. CASE pc = "parse" /\ next = "ping" /\ \A i \in DOMAIN new : new[i] \in Address
  <2>1. log = NoLog /\ at = 1 /\ Open(log) = {}
    BY <1>3 DEF Fits, Early
  <2>2. \A i \in DOMAIN new : log[new[i]] = ""
    BY <1>3, <2>1 DEF NoLog
  <2> QED BY <1>1, <1>3, <2>1, <2>2 DEF Fits, Early, AtHost
<1>4. CASE new = hosts /\ pc = "ping" /\ next = "completed"
  BY <1>4 DEF Fits, Early, AtHost, Scanning
<1>5. CASE new = hosts /\ <<pc, next>> \in {<<"exists", "name">>, <<"name", "insert">>}
  BY <1>5 DEF Fits, Early, AtHost, Scanning
<1>6. CASE new = hosts /\ pc \in {"name", "insert"} /\ next = "failed"
  <2>1. Cardinality(Open(log)) <= 1
    <3>1. Open(log) = {hosts[at]}
      BY <1>6 DEF Fits, AtHost
    <3>2. Cardinality({hosts[at]}) = 1
      BY FS_Singleton
    <3> QED BY <3>1, <3>2
  <2> QED BY <1>1, <1>6, <2>1 DEF Fits, Early, AtHost, Scanning
<1>7. CASE new = hosts /\ pc = "ping" /\ next = "failed"
  <2>1. Open(log) = {} /\ Cardinality(Open(log)) <= 1
    <3>1. Open(log) = {}
      BY <1>7 DEF Fits, Early, AtHost
    <3> QED BY <3>1, FS_EmptySet
  <2> QED BY <1>1, <1>7, <2>1 DEF Fits, Early, AtHost, Scanning
<1>8. CASE next \in {"done", "killed"}
  BY <1>1, <1>8 DEF Fits, Early, AtHost, Scanning
<1> QED BY <1>2, <1>3, <1>4, <1>5, <1>6, <1>7, <1>8

\* A host that does not answer.
LEMMA SilentFits ==
  ASSUME NEW at \in Nat, NEW found, NEW added, NEW log, NEW mine, NEW hosts, DOMAIN hosts \subseteq Nat,
         Fits("ping", at, found, added, log, mine, hosts)
  PROVE  Fits("ping", at + 1, found, added, log, mine, hosts)
<1>1. \A i \in DOMAIN hosts : i > at + 1 \/ i = at + 1 => i > at
  OBVIOUS
<1> QED BY <1>1 DEF Fits, Early, AtHost, Scanning

LEMMA InitFits == Init => LogsInv
<1> SUFFICES ASSUME Init, NEW j \in Job PROVE ScanInv(j) /\ Filed(j)
  BY DEF LogsInv
<1>1. run[j] = NewRun /\ job[j] = NoJob /\ made[j] = {}
  BY DEF Init
<1>2. Added(NoLog) = {} /\ Open(NoLog) = {} /\ Answered(NoLog) = {} /\ Cardinality({}) = 0
  BY EmptyLog, FS_EmptySet DEF Added, Open, Answered
<1>3. Fits("new", 1, 0, 0, NoLog, {}, Hosts(j))
  BY <1>2 DEF Fits, Early, AtHost, Scanning
<1> QED BY <1>1, <1>3 DEF ScanInv, Filed, NewRun, NoJob

\* The request and the task of a job keep its counters true to its log.
LEMMA ScanStep ==
  ASSUME TypeInv, NEW j \in Job, ScanInv(j), Own(j)
  PROVE  ScanInv(j)'
<1>0. /\ run \in [Job -> RunState] /\ run[j] \in RunState /\ job \in [Job -> JobRow]
      /\ Located(j) /\ made \in [Job -> SUBSET Address]
      /\ run[j].at \in Nat \ {0} /\ run[j].at + 1 \in Nat \ {0}
      /\ run[j].found \in Nat /\ run[j].found + 1 \in Nat
      /\ run[j].added \in Nat /\ run[j].added + 1 \in Nat
      /\ run[j].log \in Log /\ run[j].name \in Hostname \cup {None}
      /\ None \in Hostname \cup {None} /\ "ping" \in Pc /\ "exists" \in Pc /\ "insert" \in Pc
  BY DEF TypeInv, TypeOK, RunState, Pc
<1>1. run[j].pc # "new" => Hosts(j)' = Hosts(j)
  <2>1. run[j].pc # "new" => job'[j].subnet = job[j].subnet
    BY <1>0, OwnRows
  <2> QED BY <2>1 DEF Hosts
<1>2. /\ ~Insert(j) => made'[j] = made[j]
      /\ Insert(j) => made'[j] = made[j] \cup {Host(j)}
  BY <1>0, OwnMade
<1> DEFINE Old == Fits(run[j].pc, run[j].at, run[j].found, run[j].added, run[j].log, made[j], Hosts(j))
<1>3. Old
  BY DEF ScanInv
<1>4. ASSUME NEW pc \in Pc, Goto(j, pc) \/ \E n \in Hostname : Become(j, pc, run[j].at, run[j].found,
                                                       run[j].added, run[j].log, n),
             Fits(pc, run[j].at, run[j].found, run[j].added, run[j].log, made'[j], Hosts(j)')
      PROVE  ScanInv(j)'
  <2>1. PICK n \in Hostname \cup {None} :
          Become(j, pc, run[j].at, run[j].found, run[j].added, run[j].log, n)
    BY <1>0, <1>4, AfterGoto
  <2>2. /\ run[j].at \in Nat \ {0} /\ run[j].found \in Nat /\ run[j].added \in Nat
        /\ run[j].log \in Log /\ run \in [Job -> RunState]
    BY <1>0
  <2>3. /\ run'[j].pc = pc /\ run'[j].at = run[j].at /\ run'[j].found = run[j].found
        /\ run'[j].added = run[j].added /\ run'[j].log = run[j].log
    BY <2>1, <2>2, Became
  <2> QED BY <1>4, <2>3 DEF ScanInv
<1>5. ASSUME NEW found \in Nat, NEW added \in Nat, NEW log \in Log, NextHost(j, found, added, log),
             Fits("ping", run[j].at + 1, found, added, log, made'[j], Hosts(j)')
      PROVE  ScanInv(j)'
  <2>1. Become(j, "ping", run[j].at + 1, found, added, log, None)
    BY <1>5, AfterNextHost
  <2>2. /\ run'[j].pc = "ping" /\ run'[j].at = run[j].at + 1 /\ run'[j].found = found
        /\ run'[j].added = added /\ run'[j].log = log
    BY <1>0, <2>1, Became
  <2> QED BY <1>5, <2>2 DEF ScanInv
<1>6. ASSUME run[j].pc \in Scanning, run[j].at <= Len(Hosts(j))
      PROVE  /\ At(run[j].at, Hosts(j)) /\ Host(j) = Hosts(j)[run[j].at]
             /\ Host(j) \in Address
  <2>1. /\ Hosts(j) \in Seq(Address)
        /\ run[j].at \in DOMAIN Hosts(j)
        /\ Host(j) \in Address
        /\ \A i, k \in DOMAIN Hosts(j) : Hosts(j)[i] = Hosts(j)[k] => i = k
    BY <1>6, HostIsAddress
  <2> QED BY <2>1 DEF At, Host
<1> HIDE DEF Old
<1>7. ASSUME NEW s \in Subnet, CreateJob(j, s) PROVE ScanInv(j)'
  <2>1. run[j].pc = "new" /\ Goto(j, "accepted") /\ "accepted" \in Pc /\ ~Insert(j)
    BY <1>7 DEF CreateJob, Insert, Pc
  <2>2. Fits("accepted", run[j].at, run[j].found, run[j].added, run[j].log, made'[j], Hosts(j)')
    BY <1>2, <1>3, <2>1, GoneFits DEF Old, Early
  <2> QED BY <1>4, <2>1, <2>2
<1>8. ASSUME NEW pc \in Pc, Goto(j, pc), run[j].pc # "new", made' = made,
             \/ run[j].pc \in Early /\ pc \in Early \cup {"lost", "failed"}
             \/ run[j].pc = "parse" /\ pc = "ping" /\ \A i \in DOMAIN Hosts(j) : Hosts(j)[i] \in Address
             \/ <<run[j].pc, pc>> \in {<<"ping", "completed">>, <<"exists", "name">>,
                                       <<"name", "insert">>, <<"ping", "failed">>,
                                       <<"name", "failed">>, <<"insert", "failed">>}
             \/ pc \in {"done", "killed"}
      PROVE  ScanInv(j)'
  <2>1. Fits(pc, run[j].at, run[j].found, run[j].added, run[j].log, made[j], Hosts(j))
    BY <1>3, <1>8, GoneFits DEF Old
  <2> QED BY <1>1, <1>4, <1>8, <2>1
<1>9. CASE Enqueue(j) \/ RequestDies(j) \/ MarkRunning(j)
  <2>1. \/ run[j].pc = "accepted" /\ Goto(j, "queued")
        \/ run[j].pc = "accepted" /\ Goto(j, "lost")
        \/ run[j].pc = "queued" /\ Goto(j, "parse")
    BY <1>9 DEF Enqueue, RequestDies, MarkRunning
  <2>2. {"queued", "lost", "parse"} \subseteq Pc /\ {"accepted", "queued", "parse"} \subseteq Early
    BY DEF Pc, Early
  <2>3. made' = made
    BY <1>9 DEF Enqueue, RequestDies, MarkRunning
  <2>4. CASE run[j].pc = "accepted" /\ Goto(j, "queued")
    BY <1>8, <2>2, <2>3, <2>4
  <2>5. CASE run[j].pc = "accepted" /\ Goto(j, "lost")
    BY <1>8, <2>2, <2>3, <2>5
  <2>6. CASE run[j].pc = "queued" /\ Goto(j, "parse")
    BY <1>8, <2>2, <2>3, <2>6
  <2> QED BY <2>1, <2>4, <2>5, <2>6
<1>10. CASE KillRun(j) \/ Finish(j)
  <2>1. CASE KillRun(j)
    <3>1. Goto(j, "killed") /\ run[j].pc # "new" /\ made' = made /\ "killed" \in Pc
      BY <2>1 DEF KillRun, Pc
    <3> QED BY <1>8, <3>1
  <2>2. CASE Finish(j)
    <3>1. Goto(j, "done") /\ run[j].pc # "new" /\ made' = made /\ "done" \in Pc
      BY <2>2 DEF Finish, Pc
    <3> QED BY <1>8, <3>1
  <2> QED BY <1>10, <2>1, <2>2
<1>11. CASE AllScanned(j) \/ NotKnown(j) \/ InsertCollides(j) \/ ScanRaises(j)
  <2>1. CASE AllScanned(j)
    BY <1>8, <2>1 DEF AllScanned, Pc
  <2>2. CASE NotKnown(j)
    BY <1>8, <2>2 DEF NotKnown, Pc
  <2>3. CASE InsertCollides(j)
    BY <1>8, <2>3 DEF InsertCollides, Pc
  <2>4. CASE ScanRaises(j)
    BY <1>8, <2>4 DEF ScanRaises, Pc
  <2> QED BY <1>11, <2>1, <2>2, <2>3, <2>4
<1>12. CASE ParseSubnet(j)
  <2>1. CASE job[j].subnet \in DOMAIN HostsOf
    <3>1. Goto(j, "ping") /\ run[j].pc = "parse" /\ made' = made
      BY <1>12, <2>1 DEF ParseSubnet
    <3>2. \A i \in DOMAIN Hosts(j) : Hosts(j)[i] \in Address
      BY <2>1, HostsAssumption DEF Hosts
    <3> QED BY <1>0, <1>8, <3>1, <3>2
  <2>2. CASE job[j].subnet \notin DOMAIN HostsOf
    <3>1. Goto(j, "failed") /\ run[j].pc = "parse" /\ made' = made
      BY <1>12, <2>2 DEF ParseSubnet
    <3> QED BY <1>8, <3>1 DEF Early, Pc
  <2> QED BY <2>1, <2>2
<1>13. CASE PingSilent(j)
  <2>1. /\ run[j].pc = "ping" /\ run[j].at <= Len(Hosts(j))
        /\ NextHost(j, run[j].found, run[j].added, run[j].log)
    BY <1>13 DEF PingSilent
  <2>2. DOMAIN Hosts(j) \subseteq Nat
    BY <1>6, <2>1 DEF At, Scanning
  <2>3. Fits("ping", run[j].at + 1, run[j].found, run[j].added, run[j].log, made[j], Hosts(j))
    BY <1>0, <1>3, <2>1, <2>2, SilentFits DEF Old
  <2> QED BY <1>0, <1>1, <1>2, <1>5, <2>1, <2>3 DEF Insert
<1>14. CASE PingAnswered(j)
  <2> DEFINE log == [run[j].log EXCEPT ![Host(j)] = "alive"]
  <2>1. run[j].pc = "ping" /\ run[j].at <= Len(Hosts(j))
    BY <1>14 DEF PingAnswered
  <2>2. At(run[j].at, Hosts(j)) /\ Host(j) = Hosts(j)[run[j].at] /\ Host(j) \in Address
    BY <1>6, <2>1 DEF Scanning
  <2>3. Fits("exists", run[j].at, run[j].found + 1, run[j].added, log, made[j], Hosts(j))
    BY <1>0, <1>3, <2>1, <2>2, AnswerFits DEF Old
  <2>4. log \in Log
    BY <1>0, <2>2, LogTyped DEF Line
  <2>5. Become(j, "exists", run[j].at, run[j].found + 1, run[j].added, log, run[j].name)
    BY <1>0, <1>14, AfterAnswer
  <2> HIDE DEF log
  <2>6. /\ run[j].at \in Nat \ {0} /\ run[j].found + 1 \in Nat /\ run[j].added \in Nat
        /\ run[j].name \in Hostname \cup {None} /\ "exists" \in Pc /\ run \in [Job -> RunState]
    BY <1>0
  <2>7. /\ run'[j].pc = "exists" /\ run'[j].at = run[j].at /\ run'[j].found = run[j].found + 1
        /\ run'[j].added = run[j].added /\ run'[j].log = log
    BY <2>4, <2>5, <2>6, Became
  <2>8. Hosts(j)' = Hosts(j) /\ made'[j] = made[j]
    BY <1>1, <1>2, <2>1 DEF Insert
  <2> QED BY <2>3, <2>7, <2>8 DEF ScanInv
<1>15. CASE SkipKnown(j)
  <2> DEFINE log == [run[j].log EXCEPT ![Host(j)] = "known"]
  <2>1. run[j].pc = "exists" /\ NextHost(j, run[j].found, run[j].added, log)
    BY <1>15 DEF SkipKnown
  <2>2. At(run[j].at, Hosts(j)) /\ Host(j) = Hosts(j)[run[j].at] /\ Host(j) \in Address
    BY <1>0, <1>6, <2>1 DEF Scanning, AtHost, Located
  <2>3. Fits("ping", run[j].at + 1, run[j].found, run[j].added, log, made[j], Hosts(j))
    BY <1>0, <1>3, <2>1, <2>2, DealtFits DEF Old, AtHost
  <2>4. log \in Log
    BY <1>0, <2>2, LogTyped DEF Line
  <2> HIDE DEF log
  <2>5. Hosts(j)' = Hosts(j) /\ made'[j] = made[j]
    BY <1>1, <1>2, <2>1 DEF Insert
  <2> QED BY <1>0, <1>5, <2>1, <2>3, <2>4, <2>5
<1>16. CASE ChooseName(j)
  <2>1. PICK n \in Name \cup {Host(j)} :
          Become(j, "insert", run[j].at, run[j].found, run[j].added, run[j].log, n)
    BY <1>0, <1>16, AfterChoice
  <2>2. run[j].pc = "name"
    BY <1>16 DEF ChooseName
  <2>3. n \in Hostname
    BY <1>0, <1>6, <2>2 DEF Hostname, Scanning, AtHost, Located
  <2>4. Fits("insert", run[j].at, run[j].found, run[j].added, run[j].log, made[j], Hosts(j))
    BY <1>3, <2>2, GoneFits DEF Old
  <2>5. Hosts(j)' = Hosts(j) /\ made'[j] = made[j]
    BY <1>1, <1>2, <2>2 DEF Insert
  <2> QED BY <1>0, <1>4, <2>1, <2>3, <2>4, <2>5
<1>17. CASE Insert(j)
  <2> DEFINE log == [run[j].log EXCEPT ![Host(j)] = "added"]
  <2>1. run[j].pc = "insert" /\ NextHost(j, run[j].found, run[j].added + 1, log)
    BY <1>17 DEF Insert
  <2>2. At(run[j].at, Hosts(j)) /\ Host(j) = Hosts(j)[run[j].at] /\ Host(j) \in Address
    BY <1>0, <1>6, <2>1 DEF Scanning, AtHost, Located
  <2>3. Fits("ping", run[j].at + 1, run[j].found, run[j].added + 1, log, made[j] \cup {Host(j)}, Hosts(j))
    BY <1>0, <1>3, <2>1, <2>2, DealtFits DEF Old, AtHost
  <2>4. log \in Log
    BY <1>0, <2>2, LogTyped DEF Line
  <2> HIDE DEF log
  <2>5. Hosts(j)' = Hosts(j) /\ made'[j] = made[j] \cup {Host(j)}
    BY <1>1, <1>2, <1>17, <2>1
  <2> QED BY <1>0, <1>5, <2>1, <2>3, <2>4, <2>5
<1> QED BY <1>7, <1>9, <1>10, <1>11, <1>12, <1>13, <1>14, <1>15, <1>16, <1>17 DEF Own, Task
LEMMA FiledStep ==
  ASSUME TypeInv, NEW j \in Job, ScanInv(j), Filed(j), Own(j)
  PROVE  Filed(j)'
<1>0. job \in [Job -> JobRow] /\ run \in [Job -> RunState] /\ run[j] \in RunState
  BY DEF TypeInv, TypeOK
<1>1. run[j].pc # "done"
  BY DEF Own, Task, CreateJob, Enqueue, RequestDies, KillRun, MarkRunning, ParseSubnet, PingSilent,
         PingAnswered, AllScanned, SkipKnown, NotKnown, ChooseName, Insert, InsertCollides, ScanRaises,
         Finish
<1>2. CASE job' = job
  <2>1. job'[j].status \notin {"completed", "failed"}
    BY <1>1, <1>2 DEF Filed
  <2> QED BY <2>1 DEF Filed
<1>3. ASSUME NEW row \in JobRow, job' = [job EXCEPT ![j] = row], row.status \in {"pending", "running"}
      PROVE  Filed(j)'
  BY <1>0, <1>3 DEF Filed
<1>4. ASSUME NEW row \in JobRow, job' = [job EXCEPT ![j] = row], Finish(j), row.status = run[j].pc,
             row.found = run[j].found, row.added = run[j].added, row.log = run[j].log
      PROVE  Filed(j)'
  <2>1. job'[j] = row
    BY <1>0, <1>4
  <2>2. run' = [run EXCEPT ![j].pc = "done"] /\ run[j].pc \in {"completed", "failed"}
    BY <1>4 DEF Finish, Goto
  <2>3. /\ run'[j].pc = "done" /\ run'[j].found = run[j].found
        /\ run'[j].added = run[j].added /\ run'[j].log = run[j].log
    BY <1>0, <2>2 DEF RunState
  <2>4. /\ run[j].pc = "completed" => Open(run[j].log) = {}
        /\ run[j].pc = "failed" => Cardinality(Open(run[j].log)) <= 1
    BY DEF ScanInv, Fits
  <2> QED BY <1>4, <2>1, <2>3, <2>4 DEF Filed
<1> QED BY <1>0, <1>2, <1>3, <1>4, OwnRows

LEMMA LogsStep == TypeInv /\ LogsInv /\ [Next]_vars => LogsInv'
<1> SUFFICES ASSUME TypeInv, LogsInv, [Next]_vars PROVE LogsInv'
  OBVIOUS
<1>0. job \in [Job -> JobRow] /\ run \in [Job -> RunState] /\ made \in [Job -> SUBSET Address]
  BY DEF TypeInv, TypeOK
<1>1. ASSUME NEW j \in Job, Own(j) PROVE LogsInv'
  <2>1. ScanInv(j)' /\ Filed(j)'
    BY <1>1, ScanStep, FiledStep DEF LogsInv
  <2>2. ASSUME NEW i \in Job \ {j} PROVE ScanInv(i)' /\ Filed(i)'
    <3>1. job'[i] = job[i]
      BY <1>0, <1>1, OwnRows
    <3>2. made'[i] = made[i]
      BY <1>0, <1>1, OwnMade
    <3>3. PICK pc \in Pc, at \in Nat \ {0}, found \in Nat, added \in Nat, log \in Log,
               name \in Hostname \cup {None} : Become(j, pc, at, found, added, log, name)
      BY <1>1, OwnRuns DEF RunsOn
    <3>4. run'[i] = run[i]
      BY <1>0, <3>3, Became
    <3> QED BY <3>1, <3>2, <3>4 DEF LogsInv, ScanInv, Filed, Hosts
  <2> QED BY <2>1, <2>2 DEF LogsInv
<1>2. ASSUME UNCHANGED <<job, run, made>> PROVE LogsInv'
  BY <1>2 DEF LogsInv, ScanInv, Filed, Hosts
<1> QED BY <1>1, <1>2, Steps

LEMMA LogsInvariant == Spec => []LogsInv
<1> QED BY InitFits, LogsStep, TypeInvariant, PTL DEF Spec

\* The report of every ended scan is true, whatever other scans and users did to
\* the table meanwhile and wherever the loop of run_discovery stopped: its added
\* count and log lines are those of its committed INSERTs, its found count that
\* of the hosts it logged.
THEOREM CountsAreHonest == Spec => []CountsHonest
<1>1. ASSUME LogsInv PROVE CountsHonest
  <2> SUFFICES ASSUME NEW j \in Job, job[j].status \in {"completed", "failed"}
               PROVE  /\ Lines(job[j].log, {"added"}) = made[j]
                      /\ job[j].added = Cardinality(made[j])
                      /\ job[j].found = Cardinality(Lines(job[j].log, {"alive", "known", "added"}))
    BY DEF CountsHonest
  <2>1. Filed(j) /\ ScanInv(j)
    BY <1>1 DEF LogsInv
  <2>2. /\ job[j].found = run[j].found /\ job[j].added = run[j].added /\ job[j].log = run[j].log
    BY <2>1 DEF Filed
  <2> QED BY <2>1, <2>2 DEF ScanInv, Fits, Added, Answered
<1> QED BY <1>1, LogsInvariant, PTL

\* A completed scan dealt with every host that answered; a failed one left out
\* at most the one that could not be named or that the Device table refused.
THEOREM NoHostIsLeftOut == Spec => []NoHostLeftOut
<1>1. ASSUME LogsInv PROVE NoHostLeftOut
  BY <1>1 DEF LogsInv, Filed, NoHostLeftOut, Open
<1> QED BY <1>1, LogsInvariant, PTL

\* No step of a scan changes a row that was in the Device table before it: the
\* unique columns take the place of the exists() test that another scan or a
\* user overtook.
THEOREM ScansNeverOverwrite == Spec => NeverOverwrites
<1> DEFINE Keeps == \A j \in Job : Task(j) =>
                      \A a \in Address : device[a] # None => device'[a] = device[a]
<1>1. ASSUME TypeInv PROVE Keeps
  <2> SUFFICES ASSUME NEW j \in Job, Task(j), NEW a \in Address, device[a] # None
               PROVE  device'[a] = device[a]
    OBVIOUS
  <2>1. ASSUME Insert(j) PROVE device'[a] = device[a]
    <3>1. device[Host(j)] = None /\ device' = [device EXCEPT ![Host(j)] = run[j].name]
      BY <2>1 DEF Insert, Unique
    <3> QED BY <1>1, <3>1 DEF TypeInv, TypeOK
  <2>2. ASSUME ~Insert(j) PROVE device' = device
    BY <2>2 DEF Task, MarkRunning, ParseSubnet, PingSilent, PingAnswered, AllScanned, SkipKnown,
                NotKnown, ChooseName, InsertCollides, ScanRaises, Finish
  <2> QED BY <2>1, <2>2
<1>2. TypeInv => [Keeps]_vars
  BY <1>1
<1> QED BY <1>2, TypeInvariant, PTL DEF NeverOverwrites
=============================================================================
