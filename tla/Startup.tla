------------------------------ MODULE Startup -------------------------------
(***************************************************************************)
(* How the containers come up.  docker-compose starts django, celery and   *)
(* celery_beat at once, with one entrypoint.sh and one database: each one  *)
(* migrates, creates the superuser if it is missing, seeds the compliance  *)
(* rules and then executes its program.  `set -e` ends a container at the  *)
(* first command that fails, and docker starts it again from the top       *)
(* (restart: unless-stopped).                                              *)
(***************************************************************************)
EXTENDS Integers, Sequences, FiniteSets

CONSTANTS
  Container,    \* the containers that run entrypoint.sh
  Seeded,       \* the names in BUILTIN_RULES, in order (an instance may take fewer)
  Name,         \* the names a rule can have
  Text,         \* what the other fields of a rule can say; a name in Seeded
                \* stands for the text BUILTIN_RULES has under it
  None,
  MaxRules,     \* bound: primary keys of ComplianceRule rows
  MaxFailures,  \* bound: commands that fail of themselves or are killed
  MaxStops      \* bound: stops and deploys of a container that is up

Builtin == {Seeded[i] : i \in DOMAIN Seeded}

ASSUME SeededAssumption == /\ Seeded \in Seq(Name \cap Text)
                           /\ \A i, k \in DOMAIN Seeded : Seeded[i] = Seeded[k] => i = k
ASSUME StartupBounds    == MaxRules \in Nat /\ MaxFailures \in Nat /\ MaxStops \in Nat

\* The migrations of the platform's apps: the apps whose tables they refer to,
\* and the tables they create.
InventoryMigration ==
  [needs |-> {}, tables |-> {"device", "discoveryjob"}]
ProvisioningMigration ==
  [needs |-> {"inventory"},
   tables |-> {"configtemplate", "provisioningjob", "provisioningresult", "auditlog"}]
SecurityMigration ==
  [needs |-> {"inventory"},
   tables |-> {"userprofile", "compliancerule", "compliancecheck", "configsnapshot",
               "driftreport"}]
MonitoringMigration ==
  [needs |-> {"inventory"}, tables |-> {"grafanadashboard", "alert"}]

Migration == [inventory |-> InventoryMigration, monitoring |-> MonitoringMigration,
              provisioning |-> ProvisioningMigration, security |-> SecurityMigration]
App   == DOMAIN Migration
\* The order of Django's plan for an empty database.
Place == [inventory |-> 1, monitoring |-> 2, provisioning |-> 3, security |-> 4]
NextApp(plan) == CHOOSE a \in plan : \A b \in plan \ {a} : Place[a] < Place[b]
Table == UNION {Migration[a].tables : a \in App}

\* Dependencies first.
ASSUME PlaceAssumption == \A a \in App : \A n \in Migration[a].needs : Place[n] < Place[a]

VARIABLES
  table,      \* the tables that exist
  recorded,   \* the rows of django_migrations
  superuser,  \* is there an auth_user row of DJANGO_SUPERUSER_USERNAME?
  rule,       \* the ComplianceRule rows by primary key; None once deleted
  boot,       \* where each container is in entrypoint.sh
  failures,   \* failures so far
  stops       \* stops so far

startupVars == <<table, recorded, superuser, rule, boot, failures, stops>>

RuleRow == [name : Name, text : Text, active : BOOLEAN]
Pk      == {k \in DOMAIN rule : rule[k] # None}
Named(n) == {k \in Pk : rule[k].name = n}

ASSUME NoneAssumption == None \notin RuleRow

Command == {"plan", "migrate", "record", "superuser", "create", "seed"}
BootState == [pc : {"up", "exited"} \cup Command, plan : SUBSET App, at : Nat]

StartupTypeOK ==
  /\ table \subseteq Table
  /\ recorded \subseteq App
  /\ superuser \in BOOLEAN
  /\ rule \in Seq(RuleRow \cup {None})
  /\ boot \in [Container -> BootState]
  /\ failures \in 0 .. MaxFailures
  /\ stops \in 0 .. MaxStops

NewBoot == [pc |-> "plan", plan |-> {}, at |-> 1]

StartupInit ==
  /\ table = {}
  /\ recorded = {}
  /\ superuser = FALSE
  /\ rule = << >>
  /\ boot = [c \in Container |-> NewBoot]
  /\ failures = 0
  /\ stops = 0

Goes(c, pc) == boot' = [boot EXCEPT ![c].pc = pc]

-----------------------------------------------------------------------------
(* manage.py migrate                                                       *)

\* pg_isready answers, and migrate reads django_migrations, once.
ReadPlan(c) ==
  /\ boot[c].pc = "plan"
  /\ boot' = [boot EXCEPT ![c].pc = "migrate",
                          ![c].plan = App \ recorded]
  /\ UNCHANGED <<table, recorded, superuser, rule, failures, stops>>

\* One transaction creates the tables; it fails when one of them exists, as
\* when another container was faster.
CreateTables(c) ==
  LET a == NextApp(boot[c].plan) IN
  /\ boot[c].pc = "migrate"
  /\ boot[c].plan # {}
  /\ IF Migration[a].tables \cap table = {}
       THEN /\ table' = table \cup Migration[a].tables
            /\ Goes(c, "record")
       ELSE /\ Goes(c, "exited")
            /\ UNCHANGED table
  /\ UNCHANGED <<recorded, superuser, rule, failures, stops>>

\* Foreign keys are deferred SQL, so Django records the migration after the
\* transaction that created its tables.
RecordMigration(c) ==
  /\ boot[c].pc = "record"
  /\ recorded' = recorded \cup {NextApp(boot[c].plan)}
  /\ boot' = [boot EXCEPT ![c].pc = "migrate", ![c].plan = @ \ {NextApp(@)}]
  /\ UNCHANGED <<table, superuser, rule, failures, stops>>

\* No migration is left: migrate ends, and collectstatic writes files only.
CollectStatic(c) ==
  /\ boot[c].pc = "migrate"
  /\ boot[c].plan = {}
  /\ Goes(c, "superuser")
  /\ UNCHANGED <<table, recorded, superuser, rule, failures, stops>>

-----------------------------------------------------------------------------
(* create_superuser_if_missing                                             *)

\* Mutant: no look at whether there is one.
LookForNothing(c) ==
  /\ boot[c].pc = "superuser"
  /\ Goes(c, "create")
  /\ UNCHANGED <<table, recorded, superuser, rule, failures, stops>>

LookForSuperuser(c) ==
  /\ boot[c].pc = "superuser"
  /\ Goes(c, IF superuser THEN "seed" ELSE "create")
  /\ UNCHANGED <<table, recorded, superuser, rule, failures, stops>>

\* Mutant: the IntegrityError of a container that was faster is not noticed,
\* nor is it noticed that nothing was created.
CreateSuperuserLater(c) ==
  /\ boot[c].pc = "create"
  /\ Goes(c, "seed")
  /\ UNCHANGED <<table, recorded, superuser, rule, failures, stops>>

\* username is unique: IntegrityError when another container was faster.
CreateSuperuser(c) ==
  /\ boot[c].pc = "create"
  /\ superuser' = TRUE
  /\ Goes(c, IF superuser THEN "exited" ELSE "seed")
  /\ UNCHANGED <<table, recorded, rule, failures, stops>>

-----------------------------------------------------------------------------
(* seed_compliance_rules, loaddata, exec                                   *)

\* Mutant: defaults also holds "is_active": True.
SeedRuleActive(c) ==
  LET n == Seeded[boot[c].at] IN
  /\ boot[c].pc = "seed"
  /\ boot[c].at \in DOMAIN Seeded
  /\ rule' = [k \in DOMAIN rule |-> IF k \in Named(n)
                THEN [name |-> n, text |-> n, active |-> TRUE] ELSE rule[k]]
             \o IF Named(n) = {} THEN <<[name |-> n, text |-> n, active |-> TRUE]>>
                ELSE << >>
  /\ boot' = [boot EXCEPT ![c].at = @ + 1]
  /\ UNCHANGED <<table, recorded, superuser, failures, stops>>

\* update_or_create by name, in a transaction that locks the row it finds: the
\* built-in text replaces what the row says; is_active is not in defaults.  A
\* container that inserts a name second finds the row of the first instead.
SeedRule(c) ==
  LET n == Seeded[boot[c].at] IN
  /\ boot[c].pc = "seed"
  /\ boot[c].at \in DOMAIN Seeded
  /\ rule' = [k \in DOMAIN rule |-> IF k \in Named(n)
                THEN [rule[k] EXCEPT !.text = n] ELSE rule[k]]
             \o IF Named(n) = {} THEN <<[name |-> n, text |-> n, active |-> TRUE]>>
                ELSE << >>
  /\ boot' = [boot EXCEPT ![c].at = @ + 1]
  /\ UNCHANGED <<table, recorded, superuser, failures, stops>>

\* Every rule is seeded: loaddata, which may fail (|| true), and exec "$@".
Serve(c) ==
  /\ boot[c].pc = "seed"
  /\ boot[c].at \notin DOMAIN Seeded
  /\ Goes(c, "up")
  /\ UNCHANGED <<table, recorded, superuser, rule, failures, stops>>

-----------------------------------------------------------------------------
(* Failure and restart                                                     *)

\* Mutant: no `set -e`.
FailOnwards(c) ==
  /\ failures < MaxFailures
  /\ failures' = failures + 1
  /\ \/ /\ boot[c].pc \in {"plan", "migrate", "record"}
        /\ Goes(c, "superuser")
     \/ /\ boot[c].pc \in {"superuser", "create"}
        /\ Goes(c, "seed")
     \/ /\ boot[c].pc = "seed"
        /\ Goes(c, "up")
  /\ UNCHANGED <<table, recorded, superuser, rule, stops>>

\* A command raises (the connection is lost, the disk is full) or is killed.
Fail(c) ==
  /\ boot[c].pc \in Command
  /\ failures < MaxFailures
  /\ failures' = failures + 1
  /\ Goes(c, "exited")
  /\ UNCHANGED <<table, recorded, superuser, rule, stops>>

Restart(c) ==
  /\ boot[c].pc = "exited"
  /\ boot' = [boot EXCEPT ![c] = NewBoot]
  /\ UNCHANGED <<table, recorded, superuser, rule, failures, stops>>

\* A deploy, a reboot, a crash of the program.
Stop(c) ==
  /\ boot[c].pc = "up"
  /\ stops < MaxStops
  /\ stops' = stops + 1
  /\ Goes(c, "exited")
  /\ UNCHANGED <<table, recorded, superuser, rule, failures>>

-----------------------------------------------------------------------------
Entrypoint(c) ==
  \/ ReadPlan(c) \/ CreateTables(c) \/ RecordMigration(c)
  \/ CollectStatic(c)
  \/ LookForSuperuser(c) \/ CreateSuperuser(c)
  \/ SeedRule(c) \/ Serve(c) \/ Restart(c)

StartupNext == \E c \in Container : Entrypoint(c) \/ Fail(c) \/ Stop(c)

StartupSpec == StartupInit /\ [][StartupNext]_startupVars

-----------------------------------------------------------------------------
(* Properties                                                              *)

\* Whatever fails and whoever is faster, a container that serves stands on a
\* complete schema, recorded as such, and on a superuser (docker/README.md:18,
\* setup that must complete before the app can serve requests).
ServesOnlyReady ==
  \A c \in Container : boot[c].pc = "up" => recorded = App /\ table = Table /\ superuser

\* A container was killed between creating tables and recording the migration:
\* from then on every migrate fails on the tables that exist.
Torn ==
  \E a \in App : /\ Migration[a].tables \subseteq table
                 /\ a \notin recorded
                 /\ \A c \in Container : boot[c].pc = "record" => NextApp(boot[c].plan) # a

\* Containers that lose a race exit, and come up all the same: the others have
\* made progress when docker starts them again.
AllServe == \A c \in Container : []<>(boot[c].pc = "up" \/ Torn)
=============================================================================
