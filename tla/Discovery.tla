----------------------------- MODULE Discovery ------------------------------
(***************************************************************************)
(* Auto-discovery: the request that creates a DiscoveryJob and the Celery  *)
(* task run_discovery that pings every address of its subnet and adds the  *)
(* unknown ones to the Device table.  Jobs over overlapping subnets and    *)
(* the users of the inventory work on the same table, between any two      *)
(* statements of a scan; its hostname and ip_address columns are unique.   *)
(***************************************************************************)
EXTENDS Integers, Sequences, FiniteSets

CONSTANTS
  Job,      \* primary keys of the DiscoveryJob rows
  Address,  \* IP addresses
  Name,     \* host names that SNMP, DNS and users give; several hosts may share one
  UserName, \* the host names users type
  Subnet,   \* the subnets users type
  HostsOf,  \* for those ipaddress.ip_network accepts: network.hosts(), in order
  None      \* no row

ASSUME HostsAssumption == /\ DOMAIN HostsOf \subseteq Subnet
                          /\ \A s \in DOMAIN HostsOf : HostsOf[s] \in Seq(Address)
ASSUME DistinctAssumption == \A s \in DOMAIN HostsOf : \A i, k \in DOMAIN HostsOf[s] :
                               HostsOf[s][i] = HostsOf[s][k] => i = k
ASSUME AddressAssumption == IsFiniteSet(Address) /\ Address \cap Name = {}
ASSUME UserNameAssumption == UserName \subseteq Name \cup Address
ASSUME NoneAssumption == None \notin Address \cup Name \cup Subnet

VARIABLES
  device,  \* the host name of the Device row of each address, or None
  job,     \* the DiscoveryJob rows
  run,     \* the request, then the task, of each job and its locals
  made     \* history: the addresses for which a job's INSERT committed

vars == <<device, job, run, made>>

\* ip.replace(".", "-") tells addresses apart: the address itself stands for it.
Hostname == Name \cup Address

\* What the log says of an address: nothing, answered, "already in inventory",
\* "added as".
Line == {"", "alive", "known", "added"}
Log  == [Address -> Line]
NoLog == [a \in Address |-> ""]

JobRow == [status : {"none", "pending", "running", "completed", "failed"},
           subnet : Subnet \cup {None}, found : Nat, added : Nat, log : Log]

Pc == {"new", "accepted", "lost", "queued", "parse", "ping", "exists", "name", "insert",
       "completed", "failed", "done", "killed"}
RunState == [pc : Pc, at : Nat \ {0}, found : Nat, added : Nat, log : Log,
             name : Hostname \cup {None}]

TypeOK ==
  /\ device \in [Address -> Hostname \cup {None}]
  /\ job \in [Job -> JobRow]
  /\ run \in [Job -> RunState]
  /\ made \in [Job -> SUBSET Address]
  \* The unique constraint on hostname.
  /\ \A a, b \in Address : device[a] = device[b] => a = b \/ device[a] = None

NoJob == [status |-> "none", subnet |-> None, found |-> 0, added |-> 0, log |-> NoLog]
NewRun == [pc |-> "new", at |-> 1, found |-> 0, added |-> 0, log |-> NoLog, name |-> None]

Init ==
  /\ device = [a \in Address |-> None]
  /\ job = [j \in Job |-> NoJob]
  /\ run = [j \in Job |-> NewRun]
  /\ made = [j \in Job |-> {}]

Hosts(j) == HostsOf[job[j].subnet]
Host(j)  == Hosts(j)[run[j].at]
Goto(j, pc) == run' = [run EXCEPT ![j].pc = pc]

\* Mutant: hostname without unique=True.
UniqueAddressOnly(a, n) == device[a] = None

\* The unique constraints of the Device table, for a row that is to be added.
Unique(a, n) == device[a] = None /\ \A b \in Address : device[b] # n

-----------------------------------------------------------------------------
(* DiscoveryJobViewSet.create                                              *)

CreateJob(j, s) ==
  /\ run[j].pc = "new"
  /\ job' = [job EXCEPT ![j].status = "pending", ![j].subnet = s]
  /\ Goto(j, "accepted")
  /\ UNCHANGED <<device, made>>

\* run_discovery.delay; the save after it names celery_task_id only.
Enqueue(j) ==
  /\ run[j].pc = "accepted"
  /\ Goto(j, "queued")
  /\ UNCHANGED <<device, job, made>>

RequestDies(j) ==
  /\ run[j].pc = "accepted"
  /\ Goto(j, "lost")
  /\ UNCHANGED <<device, job, made>>

-----------------------------------------------------------------------------
(* run_discovery                                                           *)

MarkRunning(j) ==
  /\ run[j].pc = "queued"
  /\ job' = [job EXCEPT ![j].status = "running"]
  /\ Goto(j, "parse")
  /\ UNCHANGED <<device, made>>

\* ip_network raises ValueError, which the outer except takes.
ParseSubnet(j) ==
  /\ run[j].pc = "parse"
  /\ Goto(j, IF job[j].subnet \in DOMAIN HostsOf THEN "ping" ELSE "failed")
  /\ UNCHANGED <<device, job, made>>

NextHost(j, found, added, log) ==
  run' = [run EXCEPT ![j] = [pc |-> "ping", at |-> run[j].at + 1, found |-> found,
                             added |-> added, log |-> log, name |-> None]]

PingSilent(j) ==
  /\ run[j].pc = "ping"
  /\ run[j].at <= Len(Hosts(j))
  /\ NextHost(j, run[j].found, run[j].added, run[j].log)
  /\ UNCHANGED <<device, job, made>>

PingAnswered(j) ==
  /\ run[j].pc = "ping"
  /\ run[j].at <= Len(Hosts(j))
  /\ run' = [run EXCEPT ![j].pc = "exists", ![j].found = run[j].found + 1,
                        ![j].log = [run[j].log EXCEPT ![Host(j)] = "alive"]]
  /\ UNCHANGED <<device, job, made>>

AllScanned(j) ==
  /\ run[j].pc = "ping"
  /\ run[j].at > Len(Hosts(j))
  /\ Goto(j, "completed")
  /\ UNCHANGED <<device, job, made>>

SkipKnown(j) ==
  /\ run[j].pc = "exists"
  /\ device[Host(j)] # None
  /\ NextHost(j, run[j].found, run[j].added, [run[j].log EXCEPT ![Host(j)] = "known"])
  /\ UNCHANGED <<device, job, made>>

NotKnown(j) ==
  /\ run[j].pc = "exists"
  /\ device[Host(j)] = None
  /\ Goto(j, "name")
  /\ UNCHANGED <<device, job, made>>

\* The sysName if SNMP gives one, else the reverse lookup, else the address.
ChooseName(j) ==
  /\ run[j].pc = "name"
  /\ \E n \in Name \cup {Host(j)} : run' = [run EXCEPT ![j].pc = "insert", ![j].name = n]
  /\ UNCHANGED <<device, job, made>>

\* Mutant: update_or_create by ip_address.
InsertOrUpdate(j) ==
  LET a == Host(j) IN
  /\ run[j].pc = "insert"
  /\ \A b \in Address \ {a} : device[b] # run[j].name
  /\ device' = [device EXCEPT ![a] = run[j].name]
  /\ made' = IF device[a] = None THEN [made EXCEPT ![j] = made[j] \cup {a}] ELSE made
  /\ NextHost(j, run[j].found, run[j].added + Cardinality({x \in {a} : device[x] = None}),
              [run[j].log EXCEPT ![a] = IF device[a] = None THEN "added" ELSE "known"])
  /\ UNCHANGED job

Insert(j) ==
  LET a == Host(j) IN
  /\ run[j].pc = "insert"
  /\ Unique(a, run[j].name)
  /\ device' = [device EXCEPT ![a] = run[j].name]
  /\ made' = [made EXCEPT ![j] = made[j] \cup {a}]
  /\ NextHost(j, run[j].found, run[j].added + 1, [run[j].log EXCEPT ![a] = "added"])
  /\ UNCHANGED job

\* Mutant: the except stands inside the loop.
InsertCollidesSkips(j) ==
  /\ run[j].pc = "insert"
  /\ ~Unique(Host(j), run[j].name)
  /\ NextHost(j, run[j].found, run[j].added, run[j].log)
  /\ UNCHANGED <<device, job, made>>

\* Mutant: the except names ValueError only, and the task raises.
InsertCollidesRaises(j) ==
  /\ run[j].pc = "insert"
  /\ ~Unique(Host(j), run[j].name)
  /\ Goto(j, "lost")
  /\ UNCHANGED <<device, job, made>>

\* IntegrityError ends the loop: the hosts behind this one are not visited.
InsertCollides(j) ==
  /\ run[j].pc = "insert"
  /\ ~Unique(Host(j), run[j].name)
  /\ Goto(j, "failed")
  /\ UNCHANGED <<device, job, made>>

\* Other exceptions of the loop: ping is not permitted, the reverse lookup fails
\* (gaierror), or the name is longer than its column.
ScanRaises(j) ==
  /\ run[j].pc \in {"ping", "name", "insert"}
  /\ run[j].at <= Len(Hosts(j))
  /\ Goto(j, "failed")
  /\ UNCHANGED <<device, job, made>>

\* Mutant: the counts are set where the status becomes completed.
FinishUncounted(j) ==
  /\ run[j].pc \in {"completed", "failed"}
  /\ job' = [job EXCEPT ![j].status = run[j].pc, ![j].log = run[j].log,
       ![j].found = IF run[j].pc = "completed" THEN run[j].found ELSE 0,
       ![j].added = IF run[j].pc = "completed" THEN run[j].added ELSE 0]
  /\ Goto(j, "done")
  /\ UNCHANGED <<device, made>>

\* The final save, after the try and after its except.
Finish(j) ==
  /\ run[j].pc \in {"completed", "failed"}
  /\ job' = [job EXCEPT ![j].status = run[j].pc, ![j].found = run[j].found,
                        ![j].added = run[j].added, ![j].log = run[j].log]
  /\ Goto(j, "done")
  /\ UNCHANGED <<device, made>>

KillRun(j) ==
  /\ run[j].pc \notin {"new", "accepted", "lost", "queued", "done", "killed"}
  /\ Goto(j, "killed")
  /\ UNCHANGED <<device, job, made>>

-----------------------------------------------------------------------------
(* DeviceViewSet: users add, edit (the address too) and delete devices     *)

AddDevice(a, n) ==
  /\ Unique(a, n)
  /\ device' = [device EXCEPT ![a] = n]
  /\ UNCHANGED <<job, run, made>>

EditDevice(a, b, n) ==
  /\ device[a] # None
  /\ b = a \/ device[b] = None
  /\ \A c \in Address \ {a} : device[c] # n
  /\ device' = [device EXCEPT ![a] = None, ![b] = n]
  /\ UNCHANGED <<job, run, made>>

DeleteDevice(a) ==
  /\ device[a] # None
  /\ device' = [device EXCEPT ![a] = None]
  /\ UNCHANGED <<job, run, made>>

-----------------------------------------------------------------------------
Task(j) ==
  \/ MarkRunning(j) \/ ParseSubnet(j)
  \/ PingSilent(j) \/ PingAnswered(j) \/ AllScanned(j)
  \/ SkipKnown(j) \/ NotKnown(j)
  \/ ChooseName(j) \/ Insert(j) \/ InsertCollides(j) \/ ScanRaises(j)
  \/ Finish(j)

Next ==
  \/ \E j \in Job, s \in Subnet : CreateJob(j, s)
  \/ \E j \in Job : Enqueue(j) \/ RequestDies(j) \/ Task(j) \/ KillRun(j)
  \/ \E a \in Address, n \in UserName : AddDevice(a, n)
  \/ \E a, b \in Address, n \in UserName : EditDevice(a, b, n)
  \/ \E a \in Address : DeleteDevice(a)

Spec == Init /\ [][Next]_vars

\* The workers of the discovery queue keep taking steps: every ping, SNMP and
\* DNS query has a time-out.
FairSpec == Spec /\ \A j \in Job : WF_vars(Task(j))

-----------------------------------------------------------------------------
(* Properties                                                              *)

\* Discovery adds rows and never changes one: what users entered stays, also
\* when they entered it between the exists() test and the INSERT, and when
\* another scan added the address first (run_discovery).
NeverOverwrites ==
  [][ \A j \in Job : Task(j) => \A a \in Address : device[a] # None => device'[a] = device[a] ]_vars

Lines(log, kinds) == {a \in Address : log[a] \in kinds}

\* A job that ended, in either way, reports what it did: as many devices added
\* as INSERTs committed, as many found as addresses answered, and its log names
\* them; the outer except loses none of the hosts handled before it.
CountsHonest ==
  \A j \in Job : job[j].status \in {"completed", "failed"} =>
    /\ Lines(job[j].log, {"added"}) = made[j]
    /\ job[j].added = Cardinality(made[j])
    /\ job[j].found = Cardinality(Lines(job[j].log, {"alive", "known", "added"}))

\* A completed scan left no answering host behind: each was in the inventory
\* when the scan came to it, or was added.  A failed one stopped at the first
\* host it could not ping, name or add, and left out that one alone of those it logged.
NoHostLeftOut ==
  \A j \in Job :
    /\ job[j].status = "completed" => Lines(job[j].log, {"alive"}) = {}
    /\ job[j].status = "failed" => Cardinality(Lines(job[j].log, {"alive"})) <= 1

\* A queued job ends in completed or failed, whatever the subnet, the hosts and
\* the other writers of the table answer, unless its worker is killed.
ScanEnds ==
  \A j \in Job :
    run[j].pc = "queued" ~> job[j].status \in {"completed", "failed"} \/ run[j].pc = "killed"
=============================================================================
