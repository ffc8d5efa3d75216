-------------------------- MODULE ComplianceProofs --------------------------
(***************************************************************************)
(* What is true of Startup and Compliance for any number of containers,    *)
(* devices, checks, failures and stops.                                    *)
(***************************************************************************)
EXTENDS Compliance, FiniteSetTheorems, TLAPS

LEMMA FourApps ==
  /\ App = {"inventory", "monitoring", "provisioning", "security"}
  /\ Place["inventory"] = 1 /\ Place["monitoring"] = 2
  /\ Place["provisioning"] = 3 /\ Place["security"] = 4
BY DEF App, Migration, Place

\* A plan that is not empty has a first app.
LEMMA NextAppInPlan ==
  ASSUME NEW plan \in SUBSET App, plan # {}
  PROVE  NextApp(plan) \in plan
<1> DEFINE First(a) == a \in plan /\ \A b \in plan \ {a} : Place[a] < Place[b]
<1>1. \E a \in plan : First(a)
  <2>1. CASE "inventory" \in plan
    <3>1. First("inventory")  BY <2>1, FourApps
    <3> QED BY <2>1, <3>1
  <2>2. CASE "inventory" \notin plan /\ "monitoring" \in plan
    <3>1. First("monitoring")  BY <2>2, FourApps
    <3> QED BY <2>2, <3>1
  <2>3. CASE "inventory" \notin plan /\ "monitoring" \notin plan /\ "provisioning" \in plan
    <3>1. First("provisioning")  BY <2>3, FourApps
    <3> QED BY <2>3, <3>1
  <2>4. CASE plan = {"security"}
    <3>1. First("security")  BY <2>4, FourApps
    <3> QED BY <2>4, <3>1
  <2> QED BY <2>1, <2>2, <2>3, <2>4, FourApps
<1> QED BY <1>1 DEF NextApp

\* What a container that has come so far has seen to, and what it still has to.
BootFits(b, tables, apps, user) ==
  /\ b.pc \in {"migrate", "record"} => App \ apps \subseteq b.plan
  /\ b.pc = "record" => /\ b.plan # {}
                        /\ Migration[NextApp(b.plan)].tables \subseteq tables
  /\ b.pc \in {"superuser", "create", "seed", "up"} => apps = App
  /\ b.pc \in {"seed", "up"} => user

BootInv ==
  /\ table \subseteq Table
  /\ recorded \subseteq App
  /\ superuser \in BOOLEAN
  /\ boot \in [Container -> BootState]
  /\ \A a \in recorded : Migration[a].tables \subseteq table
  /\ \A c \in Container : BootFits(boot[c], table, recorded, superuser)

\* What a container has seen to stays so whatever the others do.
LEMMA FitsStays ==
  ASSUME NEW b, NEW tables, NEW apps, NEW user \in BOOLEAN, BootFits(b, tables, apps, user),
         NEW tables2, tables \subseteq tables2, NEW apps2 \in SUBSET App, apps \subseteq apps2,
         NEW user2 \in BOOLEAN, user => user2
  PROVE  BootFits(b, tables2, apps2, user2)
BY DEF BootFits

\* One container moves on, and the database with it.
LEMMA BootMoves ==
  ASSUME BootInv, NEW c \in Container, NEW b \in BootState, boot' = [boot EXCEPT ![c] = b],
         table \subseteq table', table' \subseteq Table,
         recorded \subseteq recorded', recorded' \subseteq App,
         \A a \in recorded' : Migration[a].tables \subseteq table',
         superuser' \in BOOLEAN, superuser => superuser',
         BootFits(b, table', recorded', superuser')
  PROVE  BootInv'
<1>1. boot' \in [Container -> BootState]  BY DEF BootInv
<1>2. ASSUME NEW e \in Container PROVE BootFits(boot'[e], table', recorded', superuser')
  <2>1. CASE e = c  BY <2>1 DEF BootInv
  <2>2. CASE e # c
    <3>1. boot'[e] = boot[e]  BY <2>2 DEF BootInv
    <3>2. BootFits(boot[e], table, recorded, superuser)  BY DEF BootInv
    <3> QED BY <3>1, <3>2, FitsStays DEF BootInv
  <2> QED BY <2>1, <2>2
<1> QED BY <1>1, <1>2 DEF BootInv, BootFits

LEMMA GoesFits ==
  ASSUME BootInv, NEW c \in Container, NEW pc \in {"up", "exited"} \cup Command, Goes(c, pc)
  PROVE  \E b \in BootState : /\ boot' = [boot EXCEPT ![c] = b]
                              /\ b.pc = pc /\ b.plan = boot[c].plan
<1> DEFINE l == [boot[c] EXCEPT !.pc = pc]
<1>1. boot[c] \in BootState  BY DEF BootInv
<1>2. l \in BootState /\ l.pc = pc /\ l.plan = boot[c].plan  BY <1>1 DEF BootState
<1>3. boot' = [boot EXCEPT ![c] = l]  BY <1>1 DEF Goes, BootInv
<1> HIDE DEF l
<1> QED BY <1>2, <1>3

\* A container moves on to pc, and nothing else becomes of the database but,
\* perhaps, of the superuser.
LEMMA GoesStep ==
  ASSUME BootInv, NEW c \in Container, NEW pc \in {"up", "exited"} \cup Command, Goes(c, pc),
         table' = table, recorded' = recorded, superuser' \in BOOLEAN, superuser => superuser',
         pc \notin {"migrate", "record"},
         pc \in {"superuser", "create", "seed", "up"} => recorded = App,
         pc \in {"seed", "up"} => superuser'
  PROVE  BootInv'
<1>1. PICK b \in BootState : boot' = [boot EXCEPT ![c] = b] /\ b.pc = pc  BY GoesFits
<1>2. BootFits(b, table', recorded', superuser')  BY <1>1 DEF BootFits
<1> QED BY <1>1, <1>2, BootMoves DEF BootInv

LEMMA ReadPlanStep ==
  ASSUME BootInv, NEW c \in Container, ReadPlan(c)
  PROVE  BootInv'
<1> DEFINE l == [boot[c] EXCEPT !.pc = "migrate", !.plan = App \ recorded]
<1>1. boot[c] \in BootState  BY DEF BootInv
<1>2. l \in BootState /\ l.pc = "migrate" /\ l.plan = App \ recorded
  BY <1>1 DEF BootState, Command
<1>3. boot' = [boot EXCEPT ![c] = l]  BY <1>1 DEF ReadPlan, BootInv, BootState
<1> HIDE DEF l
<1>4. UNCHANGED <<table, recorded, superuser>>  BY DEF ReadPlan
<1>5. BootFits(l, table', recorded', superuser')  BY <1>2, <1>4 DEF BootFits
<1> QED BY <1>2, <1>3, <1>4, <1>5, BootMoves DEF BootInv

\* The app a container is about to migrate.
LEMMA NextIsAnApp ==
  ASSUME BootInv, NEW c \in Container, boot[c].plan # {}
  PROVE  NextApp(boot[c].plan) \in boot[c].plan /\ boot[c].plan \in SUBSET App
<1>1. boot[c].plan \in SUBSET App  BY DEF BootInv, BootState
<1> QED BY <1>1, NextAppInPlan

LEMMA CreateTablesStep ==
  ASSUME BootInv, NEW c \in Container, CreateTables(c)
  PROVE  BootInv'
<1> DEFINE a == NextApp(boot[c].plan)
<1>1. boot[c].plan # {} /\ boot[c].pc = "migrate" /\ UNCHANGED <<recorded, superuser>>
  BY DEF CreateTables
<1>2. a \in App  BY <1>1, NextIsAnApp
<1>3. CASE Migration[a].tables \cap table = {}
  <2>1. table' = table \cup Migration[a].tables /\ Goes(c, "record")
    BY <1>3 DEF CreateTables
  <2>2. PICK b \in BootState : /\ boot' = [boot EXCEPT ![c] = b]
                              /\ b.pc = "record" /\ b.plan = boot[c].plan
    BY <2>1, GoesFits DEF Command
  <2>3. Migration[a].tables \subseteq Table  BY <1>2 DEF Table
  <2>4. App \ recorded \subseteq boot[c].plan  BY <1>1 DEF BootInv, BootFits
  <2>5. BootFits(b, table', recorded', superuser')  BY <1>1, <2>1, <2>2, <2>4 DEF BootFits
  <2> HIDE DEF a
  <2> QED BY <1>1, <2>1, <2>2, <2>3, <2>5, BootMoves DEF BootInv
<1>4. CASE Migration[a].tables \cap table # {}
  <2>1. table' = table /\ Goes(c, "exited")  BY <1>4 DEF CreateTables
  <2> QED BY <1>1, <2>1, GoesStep DEF BootInv
<1> QED BY <1>3, <1>4

LEMMA RecordMigrationStep ==
  ASSUME BootInv, NEW c \in Container, RecordMigration(c)
  PROVE  BootInv'
<1> DEFINE a == NextApp(boot[c].plan)
           l == [boot[c] EXCEPT !.pc = "migrate", !.plan = boot[c].plan \ {a}]
<1>1. boot[c] \in BootState /\ boot[c].pc = "record" /\ UNCHANGED <<table, superuser>>
  BY DEF BootInv, RecordMigration
<1>2. boot[c].plan # {} /\ Migration[a].tables \subseteq table
      /\ App \ recorded \subseteq boot[c].plan
  BY <1>1 DEF BootInv, BootFits
<1>3. a \in App  BY <1>2, NextIsAnApp
<1>4. recorded' = recorded \cup {a}  BY DEF RecordMigration
<1>5. boot' = [boot EXCEPT ![c] = l]  BY <1>1 DEF RecordMigration, BootInv, BootState
<1> HIDE DEF a
<1>6. l \in BootState /\ l.pc = "migrate" /\ l.plan = boot[c].plan \ {a}
  BY <1>1 DEF BootState, Command
<1> HIDE DEF l
<1>7. BootFits(l, table', recorded', superuser')  BY <1>2, <1>4, <1>6 DEF BootFits
<1> QED BY <1>1, <1>2, <1>3, <1>4, <1>5, <1>6, <1>7, BootMoves DEF BootInv

LEMMA CollectStaticStep ==
  ASSUME BootInv, NEW c \in Container, CollectStatic(c)
  PROVE  BootInv'
<1>1. App \ recorded = {} /\ recorded \subseteq App
  BY DEF CollectStatic, BootInv, BootFits
<1>2. recorded = App  BY <1>1
<1>3. UNCHANGED <<table, recorded, superuser>> /\ superuser \in BOOLEAN /\ Goes(c, "superuser")
  BY DEF CollectStatic, BootInv
<1> QED BY <1>2, <1>3, GoesStep DEF Command

LEMMA LookForSuperuserStep ==
  ASSUME BootInv, NEW c \in Container, LookForSuperuser(c)
  PROVE  BootInv'
<1>1. recorded = App /\ UNCHANGED <<table, recorded, superuser>> /\ superuser \in BOOLEAN
  BY DEF LookForSuperuser, BootInv, BootFits
<1>2. CASE superuser
  <2>1. Goes(c, "seed")  BY <1>2 DEF LookForSuperuser
  <2> QED BY <1>1, <1>2, <2>1, GoesStep DEF Command
<1>3. CASE ~superuser
  <2>1. Goes(c, "create")  BY <1>3 DEF LookForSuperuser
  <2> QED BY <1>1, <2>1, GoesStep DEF Command
<1> QED BY <1>2, <1>3

LEMMA CreateSuperuserStep ==
  ASSUME BootInv, NEW c \in Container, CreateSuperuser(c)
  PROVE  BootInv'
<1>1. recorded = App /\ UNCHANGED <<table, recorded>> /\ superuser' = TRUE
  BY DEF CreateSuperuser, BootInv, BootFits
<1>2. CASE superuser
  <2>1. Goes(c, "exited")  BY <1>2 DEF CreateSuperuser
  <2> QED BY <1>1, <2>1, GoesStep
<1>3. CASE ~superuser
  <2>1. Goes(c, "seed")  BY <1>3 DEF CreateSuperuser
  <2> QED BY <1>1, <2>1, GoesStep DEF Command
<1> QED BY <1>2, <1>3

LEMMA SeedRuleStep ==
  ASSUME BootInv, NEW c \in Container, SeedRule(c)
  PROVE  BootInv'
<1> DEFINE l == [boot[c] EXCEPT !.at = boot[c].at + 1]
<1>1. boot[c] \in BootState /\ UNCHANGED <<table, recorded, superuser>>
  BY DEF BootInv, SeedRule
<1>2. l \in BootState /\ l.pc = boot[c].pc /\ l.plan = boot[c].plan  BY <1>1 DEF BootState
<1>3. boot' = [boot EXCEPT ![c] = l]  BY <1>1 DEF SeedRule, BootInv, BootState
<1> HIDE DEF l
<1>4. BootFits(l, table', recorded', superuser')  BY <1>1, <1>2 DEF BootInv, BootFits
<1> QED BY <1>1, <1>2, <1>3, <1>4, BootMoves DEF BootInv

LEMMA ServeStep ==
  ASSUME BootInv, NEW c \in Container, Serve(c)
  PROVE  BootInv'
<1>1. recorded = App /\ superuser  BY DEF Serve, BootInv, BootFits
<1> QED BY <1>1, GoesStep DEF Serve, BootInv

LEMMA RestartStep ==
  ASSUME BootInv, NEW c \in Container, Restart(c)
  PROVE  BootInv'
<1>1. NewBoot \in BootState /\ NewBoot.pc = "plan"  BY DEF NewBoot, BootState, Command
<1>2. UNCHANGED <<table, recorded, superuser>> /\ boot' = [boot EXCEPT ![c] = NewBoot]
  BY DEF Restart
<1>3. BootFits(NewBoot, table', recorded', superuser')  BY <1>1 DEF BootFits
<1> QED BY <1>1, <1>2, <1>3, BootMoves DEF BootInv

LEMMA BootStep ==
  ASSUME BootInv, StartupNext
  PROVE  BootInv'
<1>1. PICK c \in Container : Entrypoint(c) \/ Fail(c) \/ Stop(c)  BY DEF StartupNext
<1>2. CASE Fail(c)  BY <1>2, GoesStep DEF Fail, BootInv
<1>3. CASE Stop(c)  BY <1>3, GoesStep DEF Stop, BootInv
<1>4. CASE Entrypoint(c)
  BY <1>4, ReadPlanStep, CreateTablesStep, RecordMigrationStep, CollectStaticStep,
     LookForSuperuserStep, CreateSuperuserStep, SeedRuleStep, ServeStep, RestartStep DEF Entrypoint
<1> QED BY <1>1, <1>2, <1>3, <1>4
-----------------------------------------------------------------------------
(* Rules and the PATCH of one                                              *)

RuleInv ==
  /\ rule \in Seq(RuleRow \cup {None})
  /\ patch \in [pk : Nat, row : RuleRow \cup {None}]

\* The is_active of a rule stays, or it is the PATCH under way that moves it.
SwitchStays ==
  \A k \in Pk : rule'[k] # None /\ rule'[k].active # rule[k].active => patch.pk = k

LEMMA SeedText ==
  ASSUME NEW i \in DOMAIN Seeded
  PROVE  Seeded[i] \in Name /\ Seeded[i] \in Text
BY SeededAssumption

\* What a concatenation holds, where its second part has at most one element.
LEMMA Concatenated ==
  ASSUME NEW R, NEW f \in Seq(R), NEW g \in Seq(R), NEW s, s = f \o g
  PROVE  /\ s \in Seq(R)
         /\ Len(s) = Len(f) + Len(g)
         /\ DOMAIN s = 1 .. Len(s)
         /\ DOMAIN f \subseteq DOMAIN s
         /\ \A k \in DOMAIN f : s[k] = f[k]
         /\ Len(g) = 1 => s[Len(f) + 1] = g[1]
OBVIOUS

\* Seeding updates rows in place, keeps their names and appends at most one, of a
\* name that no row had.
LEMMA SeedRuleRows ==
  ASSUME RuleInv, NEW c \in Container, SeedRule(c)
  PROVE  /\ rule' \in Seq(RuleRow \cup {None})
         /\ DOMAIN rule \subseteq DOMAIN rule'
         /\ \A k \in DOMAIN rule :
              /\ rule'[k] = None <=> rule[k] = None
              /\ rule[k] # None => /\ rule'[k].name = rule[k].name
                                   /\ rule'[k].active = rule[k].active
         /\ \/ Named(Seeded[boot[c].at]) # {} /\ Len(rule') = Len(rule)
            \/ /\ Named(Seeded[boot[c].at]) = {} /\ Len(rule') = Len(rule) + 1
               /\ rule'[Len(rule) + 1] \in RuleRow
               /\ rule'[Len(rule) + 1].name = Seeded[boot[c].at]
<1> DEFINE n == Seeded[boot[c].at]
           new == [name |-> n, text |-> n, active |-> TRUE]
           f == [k \in DOMAIN rule |-> IF k \in Named(n)
                                        THEN [rule[k] EXCEPT !.text = n] ELSE rule[k]]
           g == IF Named(n) = {} THEN <<new>> ELSE << >>
<1>1. n \in Name /\ n \in Text  BY SeedText DEF SeedRule
<1>2. rule' = f \o g  BY DEF SeedRule
<1>3. rule \in Seq(RuleRow \cup {None}) /\ Len(rule) \in Nat /\ DOMAIN rule = 1 .. Len(rule)
  BY DEF RuleInv
<1>4. Named(n) \subseteq DOMAIN rule /\ \A k \in Named(n) : rule[k] # None
  BY DEF Named, Pk
<1> SUFFICES /\ rule' \in Seq(RuleRow \cup {None})
             /\ DOMAIN rule \subseteq DOMAIN rule'
             /\ \A k \in DOMAIN rule :
                  /\ rule'[k] = None <=> rule[k] = None
                  /\ rule[k] # None => /\ rule'[k].name = rule[k].name
                                       /\ rule'[k].active = rule[k].active
             /\ \/ Named(n) # {} /\ Len(rule') = Len(rule)
                \/ /\ Named(n) = {} /\ Len(rule') = Len(rule) + 1
                   /\ rule'[Len(rule) + 1] \in RuleRow
                   /\ rule'[Len(rule) + 1].name = n
  OBVIOUS
<1> HIDE DEF n
<1>5. new \in RuleRow /\ new.name = n  BY <1>1 DEF RuleRow
<1>6. ASSUME NEW k \in DOMAIN rule
      PROVE  /\ f[k] \in RuleRow \cup {None}
             /\ f[k] = None <=> rule[k] = None
             /\ rule[k] # None => f[k].name = rule[k].name /\ f[k].active = rule[k].active
  <2>1. rule[k] \in RuleRow \cup {None}  BY <1>3, <1>6
  <2>2. CASE k \in Named(n)
    <3>1. rule[k] \in RuleRow  BY <1>4, <2>1, <2>2
    <3>2. f[k] = [rule[k] EXCEPT !.text = n]  BY <2>2
    <3>3. f[k] \in RuleRow /\ f[k].name = rule[k].name /\ f[k].active = rule[k].active
      BY <1>1, <3>1, <3>2 DEF RuleRow
    <3> HIDE DEF f
    <3> QED BY <3>1, <3>3, NoneAssumption
  <2>3. CASE k \notin Named(n)  BY <2>1, <2>3
  <2> QED BY <2>2, <2>3
<1>7. f \in [1 .. Len(rule) -> RuleRow \cup {None}]  BY <1>3, <1>6
<1> HIDE DEF f, new
<1>8. f \in Seq(RuleRow \cup {None}) /\ Len(f) = Len(rule)  BY <1>3, <1>7
<1>9. \/ Named(n) # {} /\ g = << >>
      \/ Named(n) = {} /\ g = <<new>>
  OBVIOUS
<1> HIDE DEF g
<1>10. /\ g \in Seq(RuleRow \cup {None})
       /\ \/ Named(n) # {} /\ Len(g) = 0
          \/ Named(n) = {} /\ Len(g) = 1 /\ g[1] = new
  <2>1. CASE g = << >>  BY <1>9, <2>1
  <2>2. CASE Named(n) = {} /\ g = <<new>>
    <3>1. g = <<new>>  BY <2>2
    <3>2. g \in Seq(RuleRow \cup {None}) /\ Len(g) = 1 /\ g[1] = new  BY <1>5, <3>1
    <3> QED BY <2>2, <3>2
  <2> QED BY <1>9, <2>1, <2>2
<1>11. /\ rule' \in Seq(RuleRow \cup {None})
       /\ Len(rule') = Len(rule) + Len(g)
       /\ DOMAIN f \subseteq DOMAIN rule'
       /\ \A k \in DOMAIN f : rule'[k] = f[k]
       /\ Len(g) = 1 => rule'[Len(rule) + 1] = g[1]
  <2> DEFINE R == RuleRow \cup {None}
             s == rule'
  <2>1. f \in Seq(R) /\ g \in Seq(R) /\ s = f \o g  BY <1>2, <1>8, <1>10
  <2> HIDE DEF s
  <2>2. /\ s \in Seq(R) /\ Len(s) = Len(f) + Len(g)
        /\ DOMAIN f \subseteq DOMAIN s /\ \A k \in DOMAIN f : s[k] = f[k]
        /\ Len(g) = 1 => s[Len(f) + 1] = g[1]
    BY <2>1, Concatenated
  <2> QED BY <1>8, <2>2 DEF R, s
<1>12. DOMAIN f = DOMAIN rule  BY <1>3, <1>7
<1>13. \/ Named(n) # {} /\ Len(rule') = Len(rule)
       \/ /\ Named(n) = {} /\ Len(rule') = Len(rule) + 1
          /\ rule'[Len(rule) + 1] = new
  <2>1. CASE Len(g) = 0
    <3>1. Len(rule') = Len(rule)  BY <1>3, <1>11, <2>1
    <3> QED BY <1>10, <2>1, <3>1
  <2>2. CASE Len(g) = 1  BY <1>10, <1>11, <2>2
  <2> QED BY <1>10, <2>1, <2>2
<1>14. ASSUME NEW k \in DOMAIN rule
       PROVE  /\ rule'[k] = None <=> rule[k] = None
              /\ rule[k] # None => /\ rule'[k].name = rule[k].name
                                   /\ rule'[k].active = rule[k].active
  <2>1. rule'[k] = f[k]  BY <1>11, <1>12
  <2> QED BY <1>6, <2>1
<1>15. \/ Named(n) # {} /\ Len(rule') = Len(rule)
       \/ /\ Named(n) = {} /\ Len(rule') = Len(rule) + 1
          /\ rule'[Len(rule) + 1] \in RuleRow
          /\ rule'[Len(rule) + 1].name = n
  BY <1>5, <1>13
<1>16. rule' \in Seq(RuleRow \cup {None}) /\ DOMAIN rule \subseteq DOMAIN rule'
  BY <1>11, <1>12
<1> QED BY <1>14, <1>15, <1>16

LEMMA SeedRuleRules ==
  ASSUME RuleInv, NEW c \in Container, SeedRule(c)
  PROVE  rule' \in Seq(RuleRow \cup {None}) /\ SwitchStays
BY SeedRuleRows DEF SwitchStays, Pk

LEMMA RulesKept ==
  ASSUME RuleInv, UNCHANGED <<rule, patch>>
  PROVE  RuleInv' /\ SwitchStays
BY DEF RuleInv, SwitchStays

LEMMA BootRules ==
  ASSUME RuleInv, Boot
  PROVE  RuleInv' /\ SwitchStays
<1>1. patch' \in [pk : Nat, row : RuleRow \cup {None}]  BY DEF Boot, EndsExecution, RuleInv, NoPatch
<1>2. PICK c \in Container : Entrypoint(c) \/ Fail(c) \/ Stop(c)  BY DEF Boot, EndsExecution, StartupNext
<1>3. CASE SeedRule(c)  BY <1>1, <1>3, SeedRuleRules DEF RuleInv
<1>4. CASE ~SeedRule(c)
  <2>1. rule' = rule
    BY <1>2, <1>4 DEF Entrypoint, ReadPlan, CreateTables, RecordMigration, CollectStatic,
       LookForSuperuser, CreateSuperuser, Serve, Restart, Fail, Stop
  <2> QED BY <1>1, <2>1 DEF RuleInv, SwitchStays
<1> QED BY <1>3, <1>4

LEMMA CreateRuleRules ==
  ASSUME RuleInv, NEW row \in RuleRow, CreateRule(row)
  PROVE  RuleInv' /\ SwitchStays
<1>1. rule' = Append(rule, row) /\ patch' = patch  BY DEF CreateRule
<1>2. rule' \in Seq(RuleRow \cup {None})  BY <1>1 DEF RuleInv
<1>3. \A k \in DOMAIN rule : rule'[k] = rule[k]  BY <1>1 DEF RuleInv
<1> QED BY <1>1, <1>2, <1>3 DEF RuleInv, SwitchStays, Pk

LEMMA DeleteRuleRules ==
  ASSUME RuleInv, NEW k \in Pk, DeleteRule(k)
  PROVE  RuleInv' /\ SwitchStays
<1>1. rule' = [rule EXCEPT ![k] = None] /\ patch' = patch  BY DEF DeleteRule
<1>2. rule' \in Seq(RuleRow \cup {None})
  <2>1. k \in 1 .. Len(rule) /\ rule \in [1 .. Len(rule) -> RuleRow \cup {None}] /\ Len(rule) \in Nat
    BY DEF Pk, RuleInv
  <2>2. rule' \in [1 .. Len(rule) -> RuleRow \cup {None}]  BY <1>1, <2>1
  <2> QED BY <2>1, <2>2
<1>3. \A j \in DOMAIN rule : rule'[j] = None \/ rule'[j] = rule[j]  BY <1>1
<1> QED BY <1>1, <1>2, <1>3 DEF RuleInv, SwitchStays, Pk

LEMMA PatchReadRules ==
  ASSUME RuleInv, NEW k \in Pk, NEW row \in RuleRow, PatchRead(k, row)
  PROVE  RuleInv' /\ SwitchStays
<1>1. k \in Nat  BY DEF Pk, RuleInv
<1>2. patch' = [pk |-> k, row |-> row] /\ rule' = rule  BY DEF PatchRead, startupVars
<1>3. patch' \in [pk : Nat, row : RuleRow \cup {None}]  BY <1>1, <1>2
<1> QED BY <1>2, <1>3 DEF RuleInv, SwitchStays

LEMMA PatchSaveRules ==
  ASSUME RuleInv, PatchSave
  PROVE  RuleInv' /\ SwitchStays
<1>1. rule' = rule \/ rule' = [rule EXCEPT ![patch.pk] = patch.row]  BY DEF PatchSave
<1>2. patch.row \in RuleRow \cup {None}  BY DEF RuleInv
<1>3. rule' \in Seq(RuleRow \cup {None})  BY <1>1, <1>2 DEF RuleInv
<1>4. patch' \in [pk : Nat, row : RuleRow \cup {None}]  BY DEF PatchSave, NoPatch
<1>5. \A j \in DOMAIN rule : j # patch.pk => rule'[j] = rule[j]  BY <1>1
<1> QED BY <1>3, <1>4, <1>5 DEF RuleInv, SwitchStays, Pk

LEMMA TaskRules ==
  ASSUME NEW k \in Run, Task(k)
  PROVE  UNCHANGED <<startupVars, patch>>
BY DEF Task, FetchDevice, FetchRules, SendCommand, NetmikoError, CreateCheck, CreateAudit, Unchanged

LEMMA RuleStep == RuleInv /\ [Next]_vars => RuleInv' /\ (SwitchStays \/ UNCHANGED vars)
<1> SUFFICES ASSUME RuleInv, [Next]_vars PROVE RuleInv' /\ (SwitchStays \/ UNCHANGED vars)
  OBVIOUS
<1>1. CASE UNCHANGED vars  BY <1>1 DEF vars, RuleInv
<1>2. CASE Boot  BY <1>2, BootRules
<1>3. ASSUME NEW d \in Device, AddDevice(d) \/ DeleteDevice(d) PROVE RuleInv' /\ SwitchStays
  BY <1>3, RulesKept DEF AddDevice, DeleteDevice, startupVars
<1>4. ASSUME NEW row \in RuleRow, CreateRule(row) PROVE RuleInv' /\ SwitchStays
  BY <1>4, CreateRuleRules
<1>5. ASSUME NEW k \in Pk, DeleteRule(k) \/ \E row \in RuleRow : PatchRead(k, row)
      PROVE  RuleInv' /\ SwitchStays
  BY <1>5, DeleteRuleRules, PatchReadRules
<1>6. CASE PatchSave  BY <1>6, PatchSaveRules
<1>7. ASSUME NEW k \in Run, NEW d \in Device, NEW ids \in Filter, RunCompliance(k, d, ids)
      PROVE  RuleInv' /\ SwitchStays
  BY <1>7, RulesKept DEF RunCompliance, startupVars
<1>8. ASSUME NEW k \in Run, Task(k) PROVE RuleInv' /\ SwitchStays
  BY <1>8, TaskRules, RulesKept DEF startupVars
<1> QED BY <1>1, <1>2, <1>3, <1>4, <1>5, <1>6, <1>7, <1>8 DEF Next
-----------------------------------------------------------------------------
(* Verdicts                                                                *)

\* The locals of a task, for any number of rules.
FetchedOf == [pk : Nat, text : Text]
CheckOf   == [run : Run, pk : Nat, status : Verdicts, output : Line]
RunShape ==
  [pc : {"idle", "queued"} \cup Executing \cup Ended, device : Device \cup {None},
   ids : Filter \cup {{}}, asked : SUBSET FetchedOf, todo : SUBSET FetchedOf,
   cur : CheckOf \cup {None},
   results : SUBSET [pk : Nat, status : Verdicts]]

\* A verdict, on the rules as asked, by what was heard.
VerdictFits(c, asked, said) ==
  IF c.status = "error" THEN c.output = ""
  ELSE /\ <<c.run, c.pk, c.output>> \in said
       /\ \E o \in asked : o.pk = c.pk /\
            (c.status = "compliant" <=>
               IF Says(o.text).must THEN c.output \in Says(o.text).finds
                                    ELSE c.output \notin Says(o.text).finds)

Fresh == {"idle", "queued", "rules"}

RunFits(k, l, said) ==
  /\ l.todo \subseteq l.asked
  /\ l.pc = "insert" => /\ l.cur \in CheckOf /\ l.cur.run = k
                        /\ VerdictFits(l.cur, l.asked, said)

\* A row was stored by a run past its query for the rules.
VerdictInv ==
  /\ rule \in Seq(RuleRow \cup {None})
  /\ run \in [Run -> RunShape]
  /\ \A k \in Run : RunFits(k, run[k], heard)
  /\ \A c \in check : /\ c.run \in Run
                       /\ run[c.run].pc \notin Fresh
                       /\ VerdictFits(c, run[c.run].asked, heard)

LEMMA MoreIsHeard ==
  ASSUME NEW c, NEW asked, NEW said, VerdictFits(c, asked, said), NEW more, said \subseteq more
  PROVE  VerdictFits(c, asked, more)
BY DEF VerdictFits

LEMMA RunStaysFit ==
  ASSUME NEW k, NEW l, NEW said, RunFits(k, l, said), NEW more, said \subseteq more
  PROVE  RunFits(k, l, more)
BY MoreIsHeard DEF RunFits

LEMMA RunKept ==
  ASSUME VerdictInv, UNCHANGED <<run, heard>>, check' \subseteq check,
         rule' \in Seq(RuleRow \cup {None})
  PROVE  VerdictInv'
<1>1. \A k \in Run : RunFits(k, run'[k], heard')  BY DEF VerdictInv
<1>2. \A c \in check' : /\ c.run \in Run
                        /\ run'[c.run].pc \notin Fresh
                        /\ VerdictFits(c, run'[c.run].asked, heard')
  BY DEF VerdictInv
<1> QED BY <1>1, <1>2 DEF VerdictInv, RunFits, VerdictFits

\* One task moves on; a row it stores fits.
LEMMA RunMoves ==
  ASSUME VerdictInv, NEW k \in Run, NEW l \in RunShape, run' = [run EXCEPT ![k] = l],
         rule' = rule, heard \subseteq heard', RunFits(k, l, heard'),
         run[k].pc \notin Fresh => l.pc \notin Fresh /\ l.asked = run[k].asked,
         \A c \in check' \ check :
           c.run = k /\ l.pc \notin Fresh /\ VerdictFits(c, l.asked, heard')
  PROVE  VerdictInv'
<1>1. run' \in [Run -> RunShape] /\ \A j \in Run : run'[j] = IF j = k THEN l ELSE run[j]
  BY DEF VerdictInv
<1>2. ASSUME NEW j \in Run PROVE RunFits(j, run'[j], heard')
  <2>1. RunFits(j, run[j], heard)  BY DEF VerdictInv
  <2>2. RunFits(j, run[j], heard')  BY <2>1, RunStaysFit
  <2> QED BY <1>1, <2>2
<1>3. ASSUME NEW c \in check'
      PROVE  /\ c.run \in Run
             /\ run'[c.run].pc \notin Fresh
             /\ VerdictFits(c, run'[c.run].asked, heard')
  <2>1. CASE c \in check
    <3>1. /\ c.run \in Run /\ run[c.run].pc \notin Fresh
          /\ VerdictFits(c, run[c.run].asked, heard)
      BY <2>1 DEF VerdictInv
    <3>2. VerdictFits(c, run[c.run].asked, heard')  BY <3>1, MoreIsHeard
    <3> QED BY <1>1, <3>1, <3>2
  <2>2. CASE c \notin check  BY <1>1, <2>2
  <2> QED BY <2>1, <2>2
<1> QED BY <1>1, <1>2, <1>3 DEF VerdictInv, RunFits, VerdictFits

LEMMA EndedRunFits ==
  ASSUME VerdictInv, NEW k \in Run, NEW pc \in Ended, NEW said
  PROVE  /\ EndedRun(k, pc) \in RunShape
         /\ EndedRun(k, pc).pc = pc /\ EndedRun(k, pc).asked = run[k].asked
         /\ RunFits(k, EndedRun(k, pc), said)
<1>1. run[k] \in RunShape  BY DEF VerdictInv
<1>2. EndedRun(k, pc) \in RunShape  BY <1>1 DEF EndedRun, NewRun, RunShape
<1>3. /\ EndedRun(k, pc).pc = pc /\ EndedRun(k, pc).asked = run[k].asked
      /\ EndedRun(k, pc).todo = {}
  BY DEF EndedRun, NewRun
<1> QED BY <1>2, <1>3 DEF RunFits, Ended

LEMMA EndsVerdicts ==
  ASSUME VerdictInv, NEW k \in Run, NEW pc \in Ended, Ends(k, pc),
         UNCHANGED <<rule, heard, check>>
  PROVE  VerdictInv'
<1> DEFINE l == EndedRun(k, pc)
<1>1. l \in RunShape /\ l.pc = pc /\ l.asked = run[k].asked /\ RunFits(k, l, heard')
  BY EndedRunFits
<1>2. run' = [run EXCEPT ![k] = l]  BY DEF Ends
<1>3. pc \notin Fresh  BY DEF Ended, Fresh
<1> HIDE DEF l
<1> QED BY <1>1, <1>2, <1>3, RunMoves

\* Stops end what the worker executes, and touch nothing else.
LEMMA BootVerdicts ==
  ASSUME VerdictInv, Boot, rule' \in Seq(RuleRow \cup {None})
  PROVE  VerdictInv'
<1>1. UNCHANGED <<check, heard>>  BY DEF Boot, EndsExecution
<1>2. ASSUME NEW k \in Run
      PROVE  /\ run'[k] \in RunShape /\ RunFits(k, run'[k], heard)
             /\ run'[k].asked = run[k].asked
             /\ run[k].pc \notin Fresh => run'[k].pc \notin Fresh
  <2>1. run[k] \in RunShape /\ RunFits(k, run[k], heard)  BY DEF VerdictInv
  <2>2. run'[k] = EndedRun(k, "killed") \/ run'[k] = run[k]  BY DEF Boot, EndsExecution
  <2>3. CASE run'[k] = EndedRun(k, "killed")
    <3>1. "killed" \in Ended /\ "killed" \notin Fresh  BY DEF Ended, Fresh
    <3> QED BY <2>3, <3>1, EndedRunFits
  <2>4. CASE run'[k] = run[k]  BY <2>1, <2>4
  <2> QED BY <2>2, <2>3, <2>4
<1>3. run' \in [Run -> RunShape]  BY <1>2 DEF Boot, EndsExecution
<1>4. \A c \in check : /\ c.run \in Run
                       /\ run'[c.run].pc \notin Fresh
                       /\ VerdictFits(c, run'[c.run].asked, heard)
  BY <1>2 DEF VerdictInv
<1> QED BY <1>1, <1>2, <1>3, <1>4 DEF VerdictInv, RunFits, VerdictFits

LEMMA RunComplianceVerdicts ==
  ASSUME VerdictInv, NEW k \in Run, NEW d \in Device, NEW ids \in Filter, RunCompliance(k, d, ids)
  PROVE  VerdictInv'
<1> DEFINE l == [run[k] EXCEPT !.pc = "queued", !.device = d, !.ids = ids]
<1>1. run[k] \in RunShape /\ RunFits(k, run[k], heard) /\ run[k].pc = "idle"
  BY DEF VerdictInv, RunCompliance
<1>2. UNCHANGED <<rule, heard, check>>  BY DEF RunCompliance, startupVars
<1>3. l \in RunShape /\ l.pc = "queued" /\ l.todo = run[k].todo /\ l.asked = run[k].asked
  BY <1>1 DEF RunShape
<1>4. run' = [run EXCEPT ![k] = l]  BY <1>1 DEF RunCompliance, VerdictInv, RunShape
<1> HIDE DEF l
<1>5. RunFits(k, l, heard')  BY <1>1, <1>3 DEF RunFits
<1> QED BY <1>1, <1>2, <1>3, <1>4, <1>5, RunMoves DEF Fresh

LEMMA FetchDeviceVerdicts ==
  ASSUME VerdictInv, NEW k \in Run, FetchDevice(k)
  PROVE  VerdictInv'
<1>1. run[k] \in RunShape /\ RunFits(k, run[k], heard) /\ run[k].pc = "queued"
  BY DEF VerdictInv, FetchDevice
<1>2. UNCHANGED <<rule, heard, check>>  BY DEF FetchDevice, Unchanged, startupVars
<1>3. CASE HasDevice(k)
  <2> DEFINE l == [run[k] EXCEPT !.pc = "rules"]
  <2>1. l \in RunShape /\ l.pc = "rules" /\ l.todo = run[k].todo /\ l.asked = run[k].asked
    BY <1>1 DEF RunShape, Executing
  <2>2. run' = [run EXCEPT ![k] = l]  BY <1>1, <1>3 DEF FetchDevice, VerdictInv
  <2> HIDE DEF l
  <2>3. RunFits(k, l, heard')  BY <1>1, <2>1 DEF RunFits
  <2> QED BY <1>1, <1>2, <2>1, <2>2, <2>3, RunMoves DEF Fresh
<1>4. CASE ~HasDevice(k)
  <2>1. Ends(k, "raised")  BY <1>4 DEF FetchDevice
  <2> QED BY <1>2, <2>1, EndsVerdicts DEF Ended
<1> QED BY <1>3, <1>4

LEMMA FetchRulesVerdicts ==
  ASSUME VerdictInv, NEW k \in Run, FetchRules(k)
  PROVE  VerdictInv'
<1> DEFINE asked == {[pk |-> p, text |-> rule[p].text] :
                       p \in {q \in Pk : /\ rule[q].active
                                         /\ run[k].ids # {} => q \in run[k].ids}}
           l == [run[k] EXCEPT !.pc = "loop", !.ids = {}, !.asked = asked, !.todo = asked]
<1>1. run[k] \in RunShape /\ run[k].pc = "rules"  BY DEF VerdictInv, FetchRules
<1>2. UNCHANGED <<rule, heard, check>>  BY DEF FetchRules, Unchanged, startupVars
<1>3. ASSUME NEW p \in Pk PROVE p \in Nat /\ rule[p].text \in Text
  <2>1. p \in DOMAIN rule /\ rule[p] # None /\ rule \in Seq(RuleRow \cup {None})
    BY <1>3 DEF Pk, VerdictInv
  <2>2. p \in Nat /\ rule[p] \in RuleRow  BY <2>1
  <2> QED BY <2>2 DEF RuleRow
<1>4. asked \subseteq FetchedOf  BY <1>3 DEF FetchedOf
<1>5. run' = [run EXCEPT ![k] = l]  BY <1>1 DEF FetchRules, VerdictInv, RunShape
<1> HIDE DEF asked
<1>6. l \in RunShape /\ l.pc = "loop" /\ l.todo = asked /\ l.asked = asked
  BY <1>1, <1>4 DEF RunShape, Executing
<1> HIDE DEF l
<1>7. RunFits(k, l, heard')  BY <1>6 DEF RunFits
<1> QED BY <1>1, <1>2, <1>5, <1>6, <1>7, RunMoves DEF Fresh

LEMMA SaysABoolean ==
  ASSUME NEW t \in Text
  PROVE  Says(t).must \in BOOLEAN
<1>1. CASE t \in DOMAIN UserRule
  <2>1. UserRule[t] \in RuleText  BY <1>1, UserRuleAssumption
  <2> QED BY <1>1, <2>1 DEF Says, RuleText
<1>2. CASE t \notin DOMAIN UserRule
  <2>1. t \in DOMAIN BUILTIN_RULES  BY <1>2, UserRuleAssumption
  <2>2. BUILTIN_RULES[t].must \in BOOLEAN
    <3>1. t \in {"ssh", "telnet", "snmp", "acl", "encryption", "http", "logging", "banner"}
      BY <2>1 DEF BUILTIN_RULES
    <3>2. /\ BUILTIN_RULES["ssh"].must = TRUE
          /\ BUILTIN_RULES["snmp"].must = TRUE
          /\ BUILTIN_RULES["acl"].must = TRUE
          /\ BUILTIN_RULES["encryption"].must = TRUE
          /\ BUILTIN_RULES["logging"].must = TRUE
          /\ BUILTIN_RULES["banner"].must = TRUE
      BY DEF BUILTIN_RULES
    <3>3. /\ BUILTIN_RULES["telnet"].must = FALSE
          /\ BUILTIN_RULES["http"].must = FALSE
      BY DEF BUILTIN_RULES
    <3> QED BY <3>1, <3>2, <3>3
  <2>3. Says(t).must = BUILTIN_RULES[t].must  BY <1>2 DEF Says
  <2> QED BY <2>2, <2>3
<1> QED BY <1>1, <1>2

\* The loop has a verdict on one rule, to be stored.
LEMMA MeetsVerdicts ==
  ASSUME VerdictInv, NEW k \in Run, NEW o \in run[k].todo, NEW status \in Verdicts,
         NEW output \in Line, Meets(k, o, status, output), run[k].pc = "loop",
         UNCHANGED <<rule, check>>, heard \subseteq heard',
         VerdictFits([run |-> k, pk |-> o.pk, status |-> status, output |-> output],
                     run[k].asked, heard')
  PROVE  VerdictInv'
<1> DEFINE row == [run |-> k, pk |-> o.pk, status |-> status, output |-> output]
           l == [run[k] EXCEPT !.pc = "insert", !.todo = run[k].todo \ {o}, !.cur = row]
<1>1. run[k] \in RunShape /\ RunFits(k, run[k], heard)  BY DEF VerdictInv
<1>2. o \in FetchedOf  BY <1>1 DEF RunShape
<1>3. row \in CheckOf  BY <1>2 DEF FetchedOf, CheckOf
<1>4. row.run = k  OBVIOUS
<1>5. VerdictFits(row, run[k].asked, heard')  OBVIOUS
<1>6. run' = [run EXCEPT ![k] = l]  BY <1>1 DEF Meets, VerdictInv, RunShape
<1> HIDE DEF row
<1>7. /\ l \in RunShape /\ l.pc = "insert" /\ l.todo = run[k].todo \ {o}
      /\ l.cur = row /\ l.asked = run[k].asked
  BY <1>1, <1>3 DEF RunShape, Executing
<1> HIDE DEF l
<1>8. RunFits(k, l, heard')  BY <1>1, <1>3, <1>4, <1>5, <1>7 DEF RunFits
<1> QED BY <1>6, <1>7, <1>8, RunMoves DEF Fresh

LEMMA SendCommandVerdicts ==
  ASSUME VerdictInv, NEW k \in Run, NEW o \in run[k].todo, NEW output \in Line,
         SendCommand(k, o, output)
  PROVE  VerdictInv'
<1>1. run[k] \in RunShape /\ o \in run[k].asked /\ run[k].pc = "loop"
  BY DEF VerdictInv, SendCommand, RunFits
<1>2. o.text \in Text  BY <1>1 DEF RunShape, FetchedOf
<1>3. UNCHANGED <<rule, check>> /\ heard \subseteq heard'
  BY DEF SendCommand, Unchanged, startupVars
<1>4. CASE Says(o.text).broken
  <2>1. Meets(k, o, "error", "")  BY <1>4 DEF SendCommand
  <2>2. VerdictFits([run |-> k, pk |-> o.pk, status |-> "error", output |-> ""],
                    run[k].asked, heard')
    BY DEF VerdictFits
  <2> QED BY <1>1, <1>3, <2>1, <2>2, MeetsVerdicts DEF Verdicts, Line
<1>5. CASE ~Says(o.text).broken
  <2> DEFINE status == IF evaluate_rule(output, o.text) THEN "compliant" ELSE "non_compliant"
             row == [run |-> k, pk |-> o.pk, status |-> status, output |-> output]
  <2>1. Meets(k, o, status, output)  BY <1>5 DEF SendCommand
  <2>2. <<k, o.pk, output>> \in heard'  BY <1>5 DEF SendCommand
  <2>3. (status = "compliant" <=> evaluate_rule(output, o.text)) /\ status # "error"
    BY DEF evaluate_rule
  <2>4. status \in Verdicts  BY DEF Verdicts
  <2>5. evaluate_rule(output, o.text) <=>
          IF Says(o.text).must THEN output \in Says(o.text).finds
                               ELSE output \notin Says(o.text).finds
    BY <1>2, SaysABoolean DEF evaluate_rule
  <2> HIDE DEF status
  <2>6. VerdictFits(row, run[k].asked, heard')
    BY <1>1, <2>2, <2>3, <2>5 DEF VerdictFits
  <2> QED BY <1>1, <1>3, <2>1, <2>4, <2>6, MeetsVerdicts
<1> QED BY <1>4, <1>5

LEMMA NetmikoErrorVerdicts ==
  ASSUME VerdictInv, NEW k \in Run, NEW o \in run[k].todo, NetmikoError(k, o)
  PROVE  VerdictInv'
<1>1. VerdictFits([run |-> k, pk |-> o.pk, status |-> "error", output |-> ""],
                  run[k].asked, heard')
  BY DEF VerdictFits
<1>2. UNCHANGED <<rule, check, heard>>  BY DEF NetmikoError, Unchanged, startupVars
<1> QED BY <1>1, <1>2, MeetsVerdicts DEF NetmikoError, Verdicts, Line

LEMMA CreateCheckVerdicts ==
  ASSUME VerdictInv, NEW k \in Run, CreateCheck(k)
  PROVE  VerdictInv'
<1> DEFINE row == run[k].cur
<1>1. run[k] \in RunShape /\ run[k].pc = "insert" /\ RunFits(k, run[k], heard)
  BY DEF VerdictInv, CreateCheck
<1>2. UNCHANGED <<rule, heard>>  BY DEF CreateCheck, Unchanged, startupVars
<1>3. CASE HasDevice(k) /\ row.pk \in Pk
  <2> DEFINE more == run[k].results \cup {[pk |-> row.pk, status |-> row.status]}
             l == [run[k] EXCEPT !.pc = "loop", !.cur = None, !.results = more]
  <2>1. check' = check \cup {row}  BY <1>3 DEF CreateCheck
  <2>2. run' = [run EXCEPT ![k] = l]  BY <1>1, <1>3 DEF CreateCheck, VerdictInv, RunShape
  <2>3. more \subseteq [pk : Nat, status : Verdicts]
    <3>1. row \in CheckOf  BY <1>1 DEF RunFits
    <3> QED BY <1>1, <3>1 DEF RunShape, CheckOf
  <2>4. row.run = k /\ VerdictFits(row, run[k].asked, heard')
    BY <1>1, <1>2 DEF RunFits
  <2> HIDE DEF more
  <2>5. /\ l \in RunShape /\ l.pc = "loop" /\ l.todo = run[k].todo
        /\ l.asked = run[k].asked
    BY <1>1, <2>3 DEF RunShape, Executing
  <2> HIDE DEF l
  <2>6. RunFits(k, l, heard')  BY <1>1, <2>5 DEF RunFits
  <2>7. \A c \in check' \ check : c = row  BY <2>1
  <2> HIDE DEF row
  <2> QED BY <1>2, <2>2, <2>4, <2>5, <2>6, <2>7, RunMoves DEF Fresh
<1>4. CASE ~(HasDevice(k) /\ row.pk \in Pk)
  <2>1. Ends(k, "raised") /\ check' = check  BY <1>4 DEF CreateCheck
  <2> QED BY <1>2, <2>1, EndsVerdicts DEF Ended
<1> QED BY <1>3, <1>4

LEMMA CreateAuditVerdicts ==
  ASSUME VerdictInv, NEW k \in Run, CreateAudit(k)
  PROVE  VerdictInv'
<1>1. UNCHANGED <<rule, heard, check>>  BY DEF CreateAudit, Unchanged, startupVars
<1>2. Ends(k, "done") \/ Ends(k, "raised")  BY DEF CreateAudit
<1> QED BY <1>1, <1>2, EndsVerdicts DEF Ended
LEMMA TaskVerdicts ==
  ASSUME VerdictInv, NEW k \in Run, Task(k)
  PROVE  VerdictInv'
BY FetchDeviceVerdicts, FetchRulesVerdicts, SendCommandVerdicts, NetmikoErrorVerdicts,
   CreateCheckVerdicts, CreateAuditVerdicts DEF Task

LEMMA VerdictStep ==
  ASSUME RuleInv, VerdictInv, [Next]_vars
  PROVE  VerdictInv'
<1>1. rule' \in Seq(RuleRow \cup {None})  BY RuleStep DEF RuleInv
<1>2. CASE UNCHANGED vars  BY <1>1, <1>2, RunKept DEF vars
<1>3. CASE Boot  BY <1>1, <1>3, BootVerdicts
<1>4. ASSUME NEW d \in Device, AddDevice(d) \/ DeleteDevice(d) PROVE VerdictInv'
  BY <1>1, <1>4, RunKept DEF AddDevice, DeleteDevice
<1>5. ASSUME NEW row \in RuleRow, CreateRule(row) PROVE VerdictInv'
  BY <1>1, <1>5, RunKept DEF CreateRule
<1>6. ASSUME NEW k \in Pk, DeleteRule(k) \/ \E row \in RuleRow : PatchRead(k, row)
      PROVE  VerdictInv'
  BY <1>1, <1>6, RunKept DEF DeleteRule, PatchRead
<1>7. CASE PatchSave  BY <1>1, <1>7, RunKept DEF PatchSave
<1>8. ASSUME NEW k \in Run, NEW d \in Device, NEW ids \in Filter, RunCompliance(k, d, ids)
      PROVE  VerdictInv'
  BY <1>8, RunComplianceVerdicts
<1>9. ASSUME NEW k \in Run, Task(k) PROVE VerdictInv'
  BY <1>9, TaskVerdicts
<1> QED BY <1>2, <1>3, <1>4, <1>5, <1>6, <1>7, <1>8, <1>9 DEF Next

-----------------------------------------------------------------------------
(* The invariants hold, and what follows from them                         *)

LEMMA BootAlong ==
  ASSUME BootInv, [Next]_vars
  PROVE  BootInv'
<1>1. CASE Boot  BY <1>1, BootStep DEF Boot, EndsExecution
<1>2. CASE UNCHANGED <<table, recorded, superuser, boot>>  BY <1>2 DEF BootInv, BootFits
<1>3. CASE ~Boot
  <2>1. UNCHANGED <<table, recorded, superuser, boot>>
    BY <1>3, TaskRules DEF Next, vars, startupVars, AddDevice, DeleteDevice, CreateRule,
       DeleteRule, PatchRead, PatchSave, RunCompliance
  <2> QED BY <1>2, <2>1
<1> QED BY <1>1, <1>3

LEMMA InvInit == Init => BootInv /\ RuleInv /\ VerdictInv
<1> SUFFICES ASSUME Init PROVE BootInv /\ RuleInv /\ VerdictInv  OBVIOUS
<1>1. BootInv
  BY DEF Init, StartupInit, BootInv, BootFits, BootState, NewBoot, Command
<1>2. RuleInv  BY DEF Init, StartupInit, RuleInv, NoPatch
<1>3. NewRun \in RunShape /\ NewRun.todo = {} /\ NewRun.pc = "idle"
  BY DEF NewRun, RunShape
<1>4. run = [k \in Run |-> NewRun] /\ check = {}  BY DEF Init
<1>5. VerdictInv  BY <1>2, <1>3, <1>4 DEF RuleInv, VerdictInv, RunFits
<1> QED BY <1>1, <1>2, <1>5

LEMMA InvAlways == Spec => [](BootInv /\ RuleInv /\ VerdictInv)
<1>1. BootInv /\ RuleInv /\ VerdictInv /\ [Next]_vars => (BootInv /\ RuleInv /\ VerdictInv)'
  BY BootAlong, RuleStep, VerdictStep
<1> QED BY InvInit, <1>1, PTL DEF Spec

\* entrypoint.sh lets no container serve before every migration is recorded, every
\* table is there and the superuser is, however many containers race and fail.
THEOREM ServesReady == Spec => []ServesOnlyReady
<1>1. BootInv => ServesOnlyReady
  <2> SUFFICES ASSUME BootInv, NEW c \in Container, boot[c].pc = "up"
               PROVE  recorded = App /\ table = Table /\ superuser
    BY DEF ServesOnlyReady
  <2>1. recorded = App /\ superuser  BY DEF BootInv, BootFits
  <2>2. Table \subseteq table  BY <2>1 DEF BootInv, Table
  <2> QED BY <2>1, <2>2 DEF BootInv
<1> QED BY <1>1, InvAlways, PTL

\* update_or_create in seed_compliance_rules leaves is_active alone, at whatever
\* point of the requests and checks a container starts.
THEOREM SwitchIsUsers == Spec => SwitchKept
<1>1. RuleInv /\ [Next]_vars =>
        [\A k \in Pk : rule'[k] # None /\ rule'[k].active # rule[k].active => patch.pk = k]_vars
  BY RuleStep DEF SwitchStays
<1> QED BY <1>1, InvAlways, PTL DEF Spec, SwitchKept

\* No interleaving of edits, seeding, deletions, failing commands and stops makes
\* run_compliance_check store a verdict that the rule it read does not give.
THEOREM VerdictsHold == Spec => []VerdictsAreHeard
<1>1. VerdictInv => VerdictsAreHeard  BY DEF VerdictInv, VerdictFits, VerdictsAreHeard
<1> QED BY <1>1, InvAlways, PTL

-----------------------------------------------------------------------------
(* The audit row                                                           *)

Pks(S) == {r.pk : r \in S}

\* The rows of run k for rule p say status, and there is one.
Answered(k, p, status, rows) ==
  /\ \E c \in rows : c.run = k /\ c.pk = p
  /\ \A c \in rows : c.run = k /\ c.pk = p => c.status = status

\* While its device is in the inventory, each result of a run has its row, unless
\* its rule was deleted.
Stands(k, S, rows, lost, at) ==
  at = "row" => \A r \in S : r.pk \notin lost => Answered(k, r.pk, r.status, rows)

\* In the loop, each rule asked for is done, at hand or to be done.
InLoop(k, l, rows) ==
  /\ \A o, q \in l.asked : o.pk = q.pk => o = q
  /\ Pks(l.asked) = Pks(l.results) \cup Pks(l.todo) \cup IF l.pc = "insert" THEN {l.cur.pk} ELSE {}
  /\ Pks(l.results) \cap Pks(l.todo) = {}
  /\ l.pc = "insert" => l.cur.pk \notin Pks(l.results) \cup Pks(l.todo)
  /\ \A c \in rows : c.run = k => c.pk \in Pks(l.results)

\* What run k with locals l, its audit row a and its rows of checks have to do with
\* each other, where lost are the deleted rules and at is what became of its device.
ListFits(k, l, a, rows, lost, at) ==
  /\ l.pc # "idle" => l.device \in Device
  /\ l.pc \in {"rules", "loop", "insert", "done"} => at \in {"row", "gone"}
  /\ l.pc \in Fresh => l.asked = {} /\ l.results = {}
  /\ l.pc \in {"loop", "insert"} => InLoop(k, l, rows) /\ Stands(k, l.results, rows, lost, at)
  /\ \A c \in rows : c.run = k => c.pk \in Pks(l.asked)
  /\ a # None => /\ l.pc = "done"
                 /\ Pks(a) = Pks(l.asked)
                 /\ Stands(k, a, rows, lost, at)

ListInv ==
  /\ device \in [Device -> {"new", "row", "gone"}]
  /\ audit \in [Run -> (SUBSET [pk : Nat, status : Verdicts]) \cup {None}]
  /\ \A k \in Run : ListFits(k, run[k], audit[k], check, dropped, device[run[k].device])

\* Nothing but deletions befalls the rows of a run that does not move.
LEMMA ListStays ==
  ASSUME NEW k, NEW l, NEW a, NEW rows, NEW lost, NEW at, ListFits(k, l, a, rows, lost, at),
         NEW rows2, NEW lost2, NEW at2,
         lost \subseteq lost2,
         \A c \in rows2 : c.run = k => c \in rows,
         l.pc # "idle" => /\ at = "gone" => at2 = "gone"
                          /\ at = "row" => at2 \in {"row", "gone"}
                          /\ at2 = "row" => \A c \in rows : c.run = k /\ c.pk \notin lost2
                                                             => c \in rows2
  PROVE  ListFits(k, l, a, rows2, lost2, at2)
<1>1. ASSUME l.pc # "idle", at \in {"row", "gone"}, NEW S, Stands(k, S, rows, lost, at)
      PROVE  Stands(k, S, rows2, lost2, at2)
  <2> SUFFICES ASSUME at2 = "row", NEW r \in S, r.pk \notin lost2
               PROVE  Answered(k, r.pk, r.status, rows2)
    BY DEF Stands
  <2>1. at = "row" /\ r.pk \notin lost  BY <1>1
  <2>2. Answered(k, r.pk, r.status, rows)  BY <1>1, <2>1 DEF Stands
  <2>3. PICK c \in rows : c.run = k /\ c.pk = r.pk  BY <2>2 DEF Answered
  <2>4. c \in rows2  BY <1>1, <2>3
  <2> QED BY <2>2, <2>3, <2>4 DEF Answered
<1>2. ASSUME l.pc \in {"loop", "insert"}
      PROVE  InLoop(k, l, rows2) /\ Stands(k, l.results, rows2, lost2, at2)
  <2>1. InLoop(k, l, rows) /\ Stands(k, l.results, rows, lost, at) /\ at \in {"row", "gone"}
    BY <1>2 DEF ListFits
  <2>2. InLoop(k, l, rows2)  BY <2>1 DEF InLoop
  <2> QED BY <1>1, <1>2, <2>1, <2>2
<1>3. ASSUME a # None
      PROVE  l.pc = "done" /\ Pks(a) = Pks(l.asked) /\ Stands(k, a, rows2, lost2, at2)
  <2>1. /\ l.pc = "done" /\ Pks(a) = Pks(l.asked) /\ Stands(k, a, rows, lost, at)
        /\ at \in {"row", "gone"}
    BY <1>3 DEF ListFits
  <2> QED BY <1>1, <2>1
<1>4. l.pc \in {"rules", "loop", "insert", "done"} => at2 \in {"row", "gone"}
  BY DEF ListFits
<1> QED BY <1>2, <1>3, <1>4 DEF ListFits

\* No run moves; a deletion takes the rows of a device or of a rule.
LEMMA ListsKept ==
  ASSUME VerdictInv, ListInv, UNCHANGED <<run, audit>>, check' \subseteq check,
         dropped \subseteq dropped',
         device' \in [Device -> {"new", "row", "gone"}],
         \A d \in Device : /\ device[d] = "gone" => device'[d] = "gone"
                           /\ device[d] = "row" => device'[d] \in {"row", "gone"},
         \A c \in check : /\ device'[run[c.run].device] = "row"
                          /\ c.pk \notin dropped'
                          => c \in check'
  PROVE  ListInv'
<1>1. ASSUME NEW k \in Run
      PROVE  ListFits(k, run[k], audit[k], check', dropped', device'[run[k].device])
  <2> DEFINE at == device[run[k].device]
             at2 == device'[run[k].device]
  <2>1. ListFits(k, run[k], audit[k], check, dropped, at)  BY DEF ListInv
  <2>2. run[k].pc # "idle" => run[k].device \in Device  BY <2>1 DEF ListFits
  <2>3. run[k].pc # "idle" => /\ at = "gone" => at2 = "gone"
                              /\ at = "row" => at2 \in {"row", "gone"}
    BY <2>2
  <2>4. at2 = "row" => \A c \in check : c.run = k /\ c.pk \notin dropped' => c \in check'
    OBVIOUS
  <2>5. \A c \in check' : c.run = k => c \in check  OBVIOUS
  <2> HIDE DEF at, at2
  <2>6. ListFits(k, run[k], audit[k], check', dropped', at2)
    BY <2>1, <2>3, <2>4, <2>5, ListStays
  <2> QED BY <2>6 DEF at2
<1> QED BY <1>1 DEF ListInv

\* One run moves; it has its rows to itself.
LEMMA ListMoves ==
  ASSUME VerdictInv, ListInv, NEW k \in Run, NEW l, run' = [run EXCEPT ![k] = l],
         NEW a \in (SUBSET [pk : Nat, status : Verdicts]) \cup {None},
         audit' = [audit EXCEPT ![k] = a], UNCHANGED <<device, dropped>>,
         check \subseteq check', \A c \in check' \ check : c.run = k,
         ListFits(k, l, a, check', dropped, device[l.device])
  PROVE  ListInv'
<1>1. /\ audit' \in [Run -> (SUBSET [pk : Nat, status : Verdicts]) \cup {None}]
      /\ \A j \in Run : audit'[j] = IF j = k THEN a ELSE audit[j]
  BY DEF ListInv
<1>2. \A j \in Run : run'[j] = IF j = k THEN l ELSE run[j]  BY DEF VerdictInv
<1>3. ASSUME NEW j \in Run
      PROVE  ListFits(j, run'[j], audit'[j], check', dropped', device'[run'[j].device])
  <2>1. CASE j = k  BY <1>1, <1>2, <2>1
  <2>2. CASE j # k
    <3>1. run'[j] = run[j] /\ audit'[j] = audit[j]  BY <1>1, <1>2, <2>2
    <3>2. ListFits(j, run[j], audit[j], check, dropped, device[run[j].device])  BY DEF ListInv
    <3>3. \A c \in check' : c.run = j => c \in check  BY <2>2
    <3>4. ListFits(j, run[j], audit[j], check', dropped, device[run[j].device])
      <4> DEFINE at == device[run[j].device]
      <4>1. ListFits(j, run[j], audit[j], check, dropped, at)  BY <3>2
      <4> HIDE DEF at
      <4>2. ListFits(j, run[j], audit[j], check', dropped, at)  BY <3>3, <4>1, ListStays
      <4> QED BY <4>2 DEF at
    <3> QED BY <3>1, <3>4
  <2> QED BY <2>1, <2>2
<1> QED BY <1>1, <1>3 DEF ListInv

\* A run that ends without its audit row.
LEMMA EndedList ==
  ASSUME ListInv, NEW k \in Run, NEW pc \in {"raised", "killed"}, run[k].pc \notin {"idle", "done"}
  PROVE  /\ audit[k] = None
         /\ ListFits(k, EndedRun(k, pc), None, check, dropped, device[EndedRun(k, pc).device])
<1> DEFINE l == EndedRun(k, pc)
<1>1. l.pc = pc /\ l.device = run[k].device /\ l.asked = run[k].asked
  BY DEF EndedRun, NewRun
<1>2. ListFits(k, run[k], audit[k], check, dropped, device[run[k].device])  BY DEF ListInv
<1>3. audit[k] = None  BY <1>2 DEF ListFits
<1>4. pc \notin {"idle", "rules", "loop", "insert", "done"} /\ pc \notin Fresh  BY DEF Fresh
<1> HIDE DEF l
<1>5. ListFits(k, l, None, check, dropped, device[l.device])
  BY <1>1, <1>2, <1>4 DEF ListFits
<1> QED BY <1>3, <1>5 DEF l

LEMMA EndsList ==
  ASSUME VerdictInv, ListInv, NEW k \in Run, NEW pc \in {"raised", "killed"}, Ends(k, pc),
         run[k].pc \notin {"idle", "done"}, UNCHANGED <<audit, check, device, dropped>>
  PROVE  ListInv'
<1> DEFINE l == EndedRun(k, pc)
<1>1. audit[k] = None /\ ListFits(k, l, None, check', dropped, device[l.device])  BY EndedList
<1>2. run' = [run EXCEPT ![k] = l]  BY DEF Ends
<1>3. audit' = [audit EXCEPT ![k] = None]  BY <1>1 DEF ListInv
<1> HIDE DEF l
<1> QED BY <1>1, <1>2, <1>3, ListMoves

LEMMA BootLists ==
  ASSUME VerdictInv, ListInv, Boot
  PROVE  ListInv'
<1>1. UNCHANGED <<device, check, audit, dropped>>  BY DEF Boot, EndsExecution
<1>2. ASSUME NEW k \in Run
      PROVE  ListFits(k, run'[k], audit[k], check, dropped, device[run'[k].device])
  <2>1. \/ run'[k] = run[k]
        \/ run'[k] = EndedRun(k, "killed") /\ run[k].pc \in Executing
    BY DEF Boot, EndsExecution
  <2>2. CASE run'[k] = run[k]  BY <2>2 DEF ListInv
  <2>3. CASE run'[k] = EndedRun(k, "killed") /\ run[k].pc \in Executing
    <3>1. run[k].pc \notin {"idle", "done"}  BY <2>3 DEF Executing
    <3> QED BY <2>3, <3>1, EndedList
  <2> QED BY <2>1, <2>2, <2>3
<1> QED BY <1>1, <1>2 DEF ListInv

LEMMA UserLists ==
  ASSUME VerdictInv, ListInv,
         \/ \E d \in Device : AddDevice(d) \/ DeleteDevice(d)
         \/ \E row \in RuleRow : CreateRule(row)
         \/ \E k \in Pk : DeleteRule(k) \/ \E row \in RuleRow : PatchRead(k, row)
         \/ PatchSave
  PROVE  ListInv'
<1>0. device \in [Device -> {"new", "row", "gone"}]  BY DEF ListInv
<1>1. ASSUME NEW d \in Device, AddDevice(d) PROVE ListInv'
  <2>1. /\ device[d] = "new" /\ device' = [device EXCEPT ![d] = "row"]
        /\ UNCHANGED <<run, audit, check, dropped>>
    BY <1>1 DEF AddDevice
  <2> QED BY <1>0, <2>1, ListsKept
<1>2. ASSUME NEW d \in Device, DeleteDevice(d) PROVE ListInv'
  <2>1. /\ device[d] = "row" /\ device' = [device EXCEPT ![d] = "gone"]
        /\ check' = {r \in check : run[r.run].device # d}
        /\ UNCHANGED <<run, audit, dropped>>
    BY <1>2 DEF DeleteDevice
  <2>2. ASSUME NEW c \in check, device'[run[c.run].device] = "row" PROVE c \in check'
    <3>1. run[c.run].device # d  BY <1>0, <2>1, <2>2
    <3> QED BY <2>1, <3>1
  <2> QED BY <1>0, <2>1, <2>2, ListsKept
<1>3. ASSUME NEW k \in Pk, DeleteRule(k) PROVE ListInv'
  <2>1. /\ check' = {r \in check : r.pk # k} /\ dropped' = dropped \cup {k}
        /\ UNCHANGED <<run, audit, device>>
    BY <1>3 DEF DeleteRule
  <2>2. \A c \in check : c.pk \notin dropped' => c \in check'  BY <2>1
  <2> QED BY <1>0, <2>1, <2>2, ListsKept
<1>4. ASSUME UNCHANGED <<run, audit, check, device, dropped>> PROVE ListInv'
  BY <1>0, <1>4, ListsKept
<1> QED BY <1>1, <1>2, <1>3, <1>4 DEF CreateRule, PatchRead, PatchSave

LEMMA RunComplianceLists ==
  ASSUME VerdictInv, ListInv, NEW k \in Run, NEW d \in Device, NEW ids \in Filter,
         RunCompliance(k, d, ids)
  PROVE  ListInv'
<1> DEFINE l == [run[k] EXCEPT !.pc = "queued", !.device = d, !.ids = ids]
<1>1. run[k] \in RunShape /\ run[k].pc = "idle"  BY DEF VerdictInv, RunCompliance
<1>2. UNCHANGED <<audit, check, device, dropped>>  BY DEF RunCompliance
<1>3. /\ l.pc = "queued" /\ l.device = d /\ l.asked = run[k].asked /\ l.results = run[k].results
  BY <1>1 DEF RunShape
<1>4. run' = [run EXCEPT ![k] = l]  BY <1>1 DEF RunCompliance, VerdictInv, RunShape
<1> HIDE DEF l
<1>5. ListFits(k, run[k], audit[k], check, dropped, device[run[k].device])  BY DEF ListInv
<1>6. audit[k] = None /\ audit' = [audit EXCEPT ![k] = None]
  BY <1>1, <1>2, <1>5 DEF ListFits, ListInv
<1>7. ListFits(k, l, None, check', dropped, device[l.device])
  BY <1>1, <1>2, <1>3, <1>5 DEF ListFits, Fresh
<1> QED BY <1>2, <1>4, <1>6, <1>7, ListMoves

LEMMA FetchDeviceLists ==
  ASSUME VerdictInv, ListInv, NEW k \in Run, FetchDevice(k)
  PROVE  ListInv'
<1>1. run[k] \in RunShape /\ run[k].pc = "queued"  BY DEF VerdictInv, FetchDevice
<1>2. UNCHANGED <<audit, check, device, dropped>>  BY DEF FetchDevice, Unchanged
<1>3. CASE HasDevice(k)
  <2> DEFINE l == [run[k] EXCEPT !.pc = "rules"]
  <2>1. /\ l.pc = "rules" /\ l.device = run[k].device /\ l.asked = run[k].asked
        /\ l.results = run[k].results
    BY <1>1 DEF RunShape
  <2>2. run' = [run EXCEPT ![k] = l]  BY <1>1, <1>3 DEF FetchDevice, VerdictInv
  <2> HIDE DEF l
  <2>3. ListFits(k, run[k], audit[k], check, dropped, device[run[k].device])  BY DEF ListInv
  <2>4. audit[k] = None /\ audit' = [audit EXCEPT ![k] = None]
    BY <1>1, <1>2, <2>3 DEF ListFits, ListInv
  <2>5. device[l.device] = "row"  BY <1>3, <2>1 DEF HasDevice
  <2>6. ListFits(k, l, None, check', dropped, device[l.device])
    BY <1>1, <1>2, <2>1, <2>3, <2>5 DEF ListFits, Fresh
  <2> QED BY <1>2, <2>2, <2>4, <2>6, ListMoves
<1>4. CASE ~HasDevice(k)
  <2>1. Ends(k, "raised")  BY <1>4 DEF FetchDevice
  <2> QED BY <1>1, <1>2, <2>1, EndsList
<1> QED BY <1>3, <1>4

LEMMA FetchRulesLists ==
  ASSUME VerdictInv, ListInv, NEW k \in Run, FetchRules(k)
  PROVE  ListInv'
<1> DEFINE asked == {[pk |-> p, text |-> rule[p].text] :
                       p \in {q \in Pk : /\ rule[q].active
                                         /\ run[k].ids # {} => q \in run[k].ids}}
           l == [run[k] EXCEPT !.pc = "loop", !.ids = {}, !.asked = asked, !.todo = asked]
<1>1. run[k] \in RunShape /\ run[k].pc = "rules"  BY DEF VerdictInv, FetchRules
<1>2. UNCHANGED <<audit, check, device, dropped>>  BY DEF FetchRules, Unchanged
<1>3. run' = [run EXCEPT ![k] = l]  BY <1>1 DEF FetchRules, VerdictInv, RunShape
<1>4. \A o, q \in asked : o.pk = q.pk => o = q  OBVIOUS
<1> HIDE DEF asked
<1>5. /\ l.pc = "loop" /\ l.device = run[k].device /\ l.asked = asked /\ l.todo = asked
      /\ l.results = run[k].results
  BY <1>1 DEF RunShape
<1> HIDE DEF l
<1>6. ListFits(k, run[k], audit[k], check, dropped, device[run[k].device])  BY DEF ListInv
<1>7. audit[k] = None /\ audit' = [audit EXCEPT ![k] = None]
  BY <1>1, <1>2, <1>6 DEF ListFits, ListInv
<1>8. l.results = {} /\ \A c \in check' : c.run # k
  BY <1>1, <1>2, <1>5, <1>6 DEF ListFits, Fresh, Pks
<1>9. InLoop(k, l, check')  BY <1>4, <1>5, <1>8 DEF InLoop, Pks
<1>10. Stands(k, l.results, check', dropped, device[l.device])  BY <1>8 DEF Stands
<1>11. ListFits(k, l, None, check', dropped, device[l.device])
  BY <1>1, <1>5, <1>6, <1>8, <1>9, <1>10 DEF ListFits, Fresh
<1> QED BY <1>2, <1>3, <1>7, <1>11, ListMoves

LEMMA MeetsLists ==
  ASSUME VerdictInv, ListInv, NEW k \in Run, NEW o \in run[k].todo, NEW status, NEW output,
         Meets(k, o, status, output), run[k].pc = "loop",
         UNCHANGED <<audit, check, device, dropped>>
  PROVE  ListInv'
<1> DEFINE row == [run |-> k, pk |-> o.pk, status |-> status, output |-> output]
           l == [run[k] EXCEPT !.pc = "insert", !.todo = run[k].todo \ {o}, !.cur = row]
<1>1. run[k] \in RunShape /\ run[k].todo \subseteq run[k].asked  BY DEF VerdictInv, RunFits
<1>2. row.pk = o.pk  OBVIOUS
<1>3. run' = [run EXCEPT ![k] = l]  BY <1>1 DEF Meets, VerdictInv, RunShape
<1> HIDE DEF row
<1>4. /\ l.pc = "insert" /\ l.device = run[k].device /\ l.asked = run[k].asked
      /\ l.todo = run[k].todo \ {o} /\ l.cur = row /\ l.results = run[k].results
  BY <1>1 DEF RunShape
<1> HIDE DEF l
<1>5. ListFits(k, run[k], audit[k], check, dropped, device[run[k].device])  BY DEF ListInv
<1>6. audit[k] = None /\ audit' = [audit EXCEPT ![k] = None]
  BY <1>5 DEF ListFits, ListInv
<1>7. InLoop(k, run[k], check) /\ Stands(k, run[k].results, check, dropped, device[run[k].device])
  BY <1>5 DEF ListFits
<1>8. Pks(run[k].todo) = Pks(l.todo) \cup {o.pk} /\ o.pk \notin Pks(l.todo)
  BY <1>1, <1>4, <1>7 DEF InLoop, Pks
<1>9. o.pk \in Pks(run[k].todo)  BY DEF Pks
<1>10. InLoop(k, l, check)
  BY <1>2, <1>4, <1>7, <1>8, <1>9 DEF InLoop
<1>11. ListFits(k, l, None, check', dropped, device[l.device])
  BY <1>4, <1>5, <1>7, <1>10 DEF ListFits, Fresh
<1> QED BY <1>3, <1>6, <1>11, ListMoves

LEMMA CreateCheckLists ==
  ASSUME VerdictInv, ListInv, NEW k \in Run, CreateCheck(k)
  PROVE  ListInv'
<1> DEFINE row == run[k].cur
<1>1. /\ run[k] \in RunShape /\ run[k].pc = "insert" /\ row \in CheckOf /\ row.run = k
  BY DEF VerdictInv, CreateCheck, RunFits
<1>2. UNCHANGED <<audit, device, dropped>>  BY DEF CreateCheck, Unchanged
<1>3. CASE HasDevice(k) /\ row.pk \in Pk
  <2> DEFINE new == [pk |-> row.pk, status |-> row.status]
             l == [run[k] EXCEPT !.pc = "loop", !.cur = None, !.results = run[k].results \cup {new}]
  <2>1. check' = check \cup {row}  BY <1>3 DEF CreateCheck
  <2>2. run' = [run EXCEPT ![k] = l]  BY <1>1, <1>3 DEF CreateCheck, VerdictInv, RunShape
  <2>3. new.pk = row.pk /\ new.status = row.status  OBVIOUS
  <2> HIDE DEF new
  <2>4. /\ l.pc = "loop" /\ l.device = run[k].device /\ l.asked = run[k].asked
        /\ l.todo = run[k].todo /\ l.results = run[k].results \cup {new}
    BY <1>1 DEF RunShape
  <2> HIDE DEF l
  <2>5. ListFits(k, run[k], audit[k], check, dropped, device[run[k].device])  BY DEF ListInv
  <2>6. audit[k] = None /\ audit' = [audit EXCEPT ![k] = None]
    BY <1>1, <1>2, <2>5 DEF ListFits, ListInv
  <2>7. InLoop(k, run[k], check) /\ Stands(k, run[k].results, check, dropped, device[run[k].device])
    BY <1>1, <2>5 DEF ListFits
  <2>8. Pks(l.results) = Pks(run[k].results) \cup {row.pk}  BY <2>3, <2>4 DEF Pks
  <2> HIDE DEF row
  <2>9. row.pk \notin Pks(run[k].results) \cup Pks(l.todo) /\ row.pk \in Pks(l.asked)
    BY <1>1, <2>4, <2>7 DEF InLoop, row
  <2>10. \A c \in check : c.run = k => c.pk # row.pk  BY <2>7, <2>9 DEF InLoop
  <2>11. InLoop(k, l, check')
    BY <1>1, <2>1, <2>4, <2>7, <2>8, <2>9 DEF InLoop, row
  <2>12. Stands(k, l.results, check', dropped, device[l.device])
    <3> SUFFICES ASSUME NEW r \in l.results, r.pk \notin dropped
                 PROVE  Answered(k, r.pk, r.status, check')
      BY DEF Stands
    <3>1. CASE r = new
      BY <1>1, <2>1, <2>3, <2>10, <3>1 DEF Answered
    <3>2. CASE r \in run[k].results
      <4>1. Answered(k, r.pk, r.status, check)  BY <1>3, <2>7, <3>2 DEF Stands, HasDevice
      <4>2. r.pk # row.pk  BY <2>9, <3>2 DEF Pks
      <4> QED BY <2>1, <4>1, <4>2 DEF Answered
    <3> QED BY <2>4, <3>1, <3>2
  <2>13. \A c \in check' : c.run = k => c.pk \in Pks(l.asked)
    BY <2>1, <2>4, <2>5, <2>9 DEF ListFits
  <2>14. ListFits(k, l, None, check', dropped, device[l.device])
    BY <1>1, <2>4, <2>5, <2>11, <2>12, <2>13 DEF ListFits, Fresh
  <2>15. \A c \in check' \ check : c.run = k  BY <1>1, <2>1
  <2> QED BY <1>2, <2>1, <2>2, <2>6, <2>14, <2>15, ListMoves
<1>4. CASE ~(HasDevice(k) /\ row.pk \in Pk)
  <2>1. Ends(k, "raised") /\ check' = check  BY <1>4 DEF CreateCheck
  <2> QED BY <1>1, <1>2, <2>1, EndsList
<1> QED BY <1>3, <1>4

LEMMA CreateAuditLists ==
  ASSUME VerdictInv, ListInv, NEW k \in Run, CreateAudit(k)
  PROVE  ListInv'
<1>1. /\ run[k] \in RunShape /\ run[k].pc = "loop" /\ run[k].todo = {}
      /\ UNCHANGED <<check, device, dropped>>
  BY DEF VerdictInv, CreateAudit, Unchanged
<1>2. CASE HasDevice(k)
  <2> DEFINE l == EndedRun(k, "done")
             S == run[k].results
  <2>1. l.pc = "done" /\ l.device = run[k].device /\ l.asked = run[k].asked
    BY DEF EndedRun, NewRun
  <2>2. run' = [run EXCEPT ![k] = l] /\ audit' = [audit EXCEPT ![k] = S]
    BY <1>2 DEF CreateAudit, Ends
  <2>3. S \in SUBSET [pk : Nat, status : Verdicts]  BY <1>1 DEF RunShape
  <2> HIDE DEF l
  <2>4. ListFits(k, run[k], audit[k], check, dropped, device[run[k].device])  BY DEF ListInv
  <2>5. InLoop(k, run[k], check) /\ Stands(k, S, check, dropped, device[run[k].device])
    BY <1>1, <2>4 DEF ListFits
  <2>6. Pks(S) = Pks(run[k].asked)  BY <1>1, <2>5 DEF InLoop, Pks
  <2>7. ListFits(k, l, S, check', dropped, device[l.device])
    <3> HIDE DEF S
    <3> QED BY <1>1, <2>1, <2>4, <2>5, <2>6 DEF ListFits, Fresh
  <2> HIDE DEF S
  <2> QED BY <1>1, <2>2, <2>3, <2>7, ListMoves
<1>3. CASE ~HasDevice(k)
  <2>1. Ends(k, "raised") /\ UNCHANGED audit  BY <1>3 DEF CreateAudit
  <2> QED BY <1>1, <2>1, EndsList
<1> QED BY <1>2, <1>3

LEMMA ListStep ==
  ASSUME VerdictInv, ListInv, [Next]_vars
  PROVE  ListInv'
<1>1. CASE UNCHANGED vars  BY <1>1 DEF vars, ListInv
<1>2. ASSUME NEW k \in Run, Task(k) PROVE ListInv'
  <2>1. ASSUME NEW o \in run[k].todo, NetmikoError(k, o) \/ \E line \in Line : SendCommand(k, o, line)
        PROVE  ListInv'
    <3>1. run[k].pc = "loop" /\ UNCHANGED <<audit, check, device, dropped>>
      BY <2>1 DEF NetmikoError, SendCommand, Unchanged
    <3>2. \E status, output : Meets(k, o, status, output)
      BY <2>1 DEF NetmikoError, SendCommand
    <3> QED BY <3>1, <3>2, MeetsLists
  <2> QED BY <1>2, <2>1, FetchDeviceLists, FetchRulesLists, CreateCheckLists, CreateAuditLists
          DEF Task
<1> QED BY <1>1, <1>2, BootLists, UserLists, RunComplianceLists DEF Next

LEMMA ListInvariant == Spec => []ListInv
<1>1. Init => ListInv
  <2> SUFFICES ASSUME Init PROVE ListInv  OBVIOUS
  <2>1. /\ NewRun.pc = "idle" /\ NewRun.asked = {} /\ NewRun.results = {}
    BY DEF NewRun
  <2>2. /\ run = [k \in Run |-> NewRun] /\ check = {} /\ audit = [k \in Run |-> None]
        /\ device = [d \in Device |-> "new"]
    BY DEF Init
  <2>3. ASSUME NEW at PROVE \A k \in Run : ListFits(k, NewRun, None, {}, dropped, at)
    BY <2>1 DEF ListFits, Fresh
  <2> QED BY <2>2, <2>3 DEF ListInv
<1>2. VerdictInv /\ ListInv /\ [Next]_vars => ListInv'  BY ListStep
<1>3. Spec => []VerdictInv  BY InvAlways, PTL
<1> QED BY <1>1, <1>2, <1>3, PTL DEF Spec

\* The audit row of run_compliance_check lists the rules that were active when it
\* asked for them, each with the status of its ComplianceCheck row, whatever is
\* deleted, patched, seeded or stopped between two of its statements.
THEOREM AuditIsChecks == Spec => []AuditMatchesChecks
<1>1. ListInv => AuditMatchesChecks
  <2> SUFFICES ASSUME ListInv, NEW k \in Run, audit[k] # None
               PROVE  /\ {r.pk : r \in audit[k]} = {o.pk : o \in run[k].asked}
                      /\ HasDevice(k) => \A r \in audit[k] : r.pk \notin dropped =>
                           {c.status : c \in {c \in check : c.run = k /\ c.pk = r.pk}} = {r.status}
    BY DEF AuditMatchesChecks
  <2>1. /\ Pks(audit[k]) = Pks(run[k].asked)
        /\ Stands(k, audit[k], check, dropped, device[run[k].device])
    BY DEF ListInv, ListFits
  <2>2. ASSUME NEW r \in audit[k], HasDevice(k), r.pk \notin dropped
        PROVE  {c.status : c \in {c \in check : c.run = k /\ c.pk = r.pk}} = {r.status}
    <3>1. Answered(k, r.pk, r.status, check)  BY <2>1, <2>2 DEF Stands, HasDevice
    <3> QED BY <3>1 DEF Answered
  <2> QED BY <2>1, <2>2 DEF Pks
<1> QED BY <1>1, ListInvariant, PTL

-----------------------------------------------------------------------------
(* Primary keys                                                            *)

\* The built-in rules that no row has the name of.
Missing == {i \in DOMAIN Seeded : Named(Seeded[i]) = {}}
Pending == IF patch = NoPatch THEN 0 ELSE 1
Taken   == Len(rule) + Cardinality(Missing) + Pending

\* A row is inserted for a built-in rule that is missing, or by a user.  One becomes
\* missing when a user deletes it or gives it another name, and an INSERT by a PATCH
\* was an edit when it read the row.
RoomInv ==
  /\ edits \in 0 .. MaxEdits
  /\ patch # NoPatch => patch.pk \in DOMAIN rule /\ patch.row \in RuleRow
  /\ Taken <= Len(Seeded) + edits

LEMMA SeededFinite ==
  ASSUME NEW S \in SUBSET DOMAIN Seeded
  PROVE  IsFiniteSet(S) /\ Cardinality(S) \in Nat
<1>1. DOMAIN Seeded = 1 .. Len(Seeded) /\ Len(Seeded) \in Nat  BY SeededAssumption
<1>2. IsFiniteSet(DOMAIN Seeded)  BY <1>1, FS_Interval
<1> QED BY <1>2, FS_Subset, FS_CardinalityType

\* Names of built-in rules are distinct: when one name goes, one rule is missing more.
LEMMA OneNameGoes ==
  ASSUME NEW S \in SUBSET DOMAIN Seeded, NEW T \in SUBSET DOMAIN Seeded, NEW name,
         \A i \in T \ S : Seeded[i] = name
  PROVE  Cardinality(T) <= Cardinality(S) + 1
<1>1. CASE T \subseteq S
  <2>1. Cardinality(T) <= Cardinality(S)  BY <1>1, SeededFinite, FS_Subset
  <2> QED BY <2>1, SeededFinite
<1>2. CASE ~(T \subseteq S)
  <2>1. PICK i \in T : i \notin S  BY <1>2
  <2>2. T \subseteq S \cup {i}  BY <2>1, SeededAssumption
  <2>3. IsFiniteSet(S \cup {i}) /\ Cardinality(S \cup {i}) = Cardinality(S) + 1
    BY <2>1, SeededFinite, FS_AddElement
  <2>4. Cardinality(T) <= Cardinality(S \cup {i})  BY <2>2, <2>3, FS_Subset
  <2> QED BY <2>3, <2>4
<1> QED BY <1>1, <1>2

\* A missing rule gets its row.
LEMMA OneNameComes ==
  ASSUME NEW S \in SUBSET DOMAIN Seeded, NEW T \in SUBSET S, NEW i \in S \ T
  PROVE  Cardinality(T) + 1 <= Cardinality(S)
<1>1. IsFiniteSet(T) /\ Cardinality(T) \in Nat /\ IsFiniteSet(S)  BY SeededFinite
<1>2. Cardinality(T \cup {i}) = Cardinality(T) + 1  BY <1>1, FS_AddElement
<1>3. Cardinality(T \cup {i}) <= Cardinality(S)  BY <1>1, FS_Subset
<1> QED BY <1>2, <1>3

LEMMA NoNameGoes ==
  ASSUME NEW S \in SUBSET DOMAIN Seeded, NEW T \in SUBSET S
  PROVE  Cardinality(T) <= Cardinality(S)
BY SeededFinite, FS_Subset

LEMMA LengthIsNat ==
  ASSUME RuleInv
  PROVE  /\ Len(rule) \in Nat /\ DOMAIN rule = 1 .. Len(rule)
         /\ Cardinality(Missing) \in Nat /\ Len(Seeded) \in Nat
BY SeededFinite, SeededAssumption DEF RuleInv, Missing

LEMMA SeedRuleRoom ==
  ASSUME RuleInv, NEW c \in Container, SeedRule(c)
  PROVE  /\ Len(rule') + Cardinality(Missing') <= Len(rule) + Cardinality(Missing)
         /\ DOMAIN rule \subseteq DOMAIN rule'
<1> DEFINE i == boot[c].at
           S == Missing
           T == Missing'
<1>1. rule' \in Seq(RuleRow \cup {None}) /\ DOMAIN rule \subseteq DOMAIN rule'
  BY SeedRuleRows
<1>2. \A k \in Pk : k \in Pk' /\ rule'[k].name = rule[k].name
  BY SeedRuleRows DEF Pk
<1>3. \A n : Named(n)' = {} => Named(n) = {}  BY <1>1, <1>2 DEF Named, Pk
<1>4. S \subseteq DOMAIN Seeded /\ T \subseteq S  BY <1>3 DEF Missing
<1>5. CASE Named(Seeded[i]) # {} /\ Len(rule') = Len(rule)
  <2> HIDE DEF S, T
  <2>1. Cardinality(T) <= Cardinality(S)  BY <1>4, NoNameGoes
  <2>2. Cardinality(T) \in Nat /\ Cardinality(S) \in Nat  BY <1>4, SeededFinite
  <2> QED BY <1>1, <1>5, <2>1, <2>2, LengthIsNat DEF S, T
<1>6. CASE /\ Named(Seeded[i]) = {} /\ Len(rule') = Len(rule) + 1
           /\ rule'[Len(rule) + 1] \in RuleRow
           /\ rule'[Len(rule) + 1].name = Seeded[i]
  <2>1. i \in DOMAIN Seeded  BY DEF SeedRule
  <2>2. Len(rule) + 1 \in DOMAIN rule'  BY <1>1, <1>6, LengthIsNat
  <2>3. Len(rule) + 1 \in Pk'  BY <1>6, <2>2, NoneAssumption DEF Pk
  <2>4. i \in S /\ i \notin T  BY <1>6, <2>1, <2>3 DEF Missing, Named
  <2> HIDE DEF S, T, i
  <2>5. Cardinality(T) + 1 <= Cardinality(S)  BY <1>4, <2>4, OneNameComes
  <2>6. Cardinality(T) \in Nat /\ Cardinality(S) \in Nat  BY <1>4, SeededFinite
  <2> QED BY <1>1, <1>6, <2>5, <2>6, LengthIsNat DEF S, T
<1> QED BY <1>1, <1>5, <1>6, SeedRuleRows

\* What is taken grows by no more than the edits do.
LEMMA RoomMoves ==
  ASSUME RuleInv, RoomInv, RuleInv',
         edits' \in 0 .. MaxEdits, DOMAIN rule \subseteq DOMAIN rule',
         patch' # NoPatch => patch'.pk \in DOMAIN rule /\ patch'.row \in RuleRow,
         Taken' + edits <= Taken + edits'
  PROVE  RoomInv' /\ Len(rule) <= Len(rule')
<1>1. /\ Len(rule) \in Nat /\ Cardinality(Missing) \in Nat /\ Len(Seeded) \in Nat
      /\ DOMAIN rule = 1 .. Len(rule)
  BY LengthIsNat
<1>2. /\ Len(rule') \in Nat /\ DOMAIN rule' = 1 .. Len(rule')
      /\ Cardinality(Missing') \in Nat
  BY SeededFinite DEF RuleInv, Missing
<1>3. Pending \in Nat /\ Pending' \in Nat /\ edits \in Nat /\ edits' \in Nat
  BY DEF Pending, RoomInv
<1>4. Taken \in Nat  BY <1>1, <1>3 DEF Taken
<1>5. Taken' \in Nat  BY <1>2, <1>3 DEF Taken
<1>6. Taken <= Len(Seeded) + edits /\ Taken' + edits <= Taken + edits'  BY DEF RoomInv
<1>7. Taken' <= Len(Seeded) + edits'
  <2> DEFINE t == Taken
             u == Taken'
             n == Len(Seeded)
             e == edits
             f == edits'
  <2>1. /\ t \in Nat /\ u \in Nat /\ n \in Nat /\ e \in Nat /\ f \in Nat
        /\ t <= n + e /\ u + e <= t + f
    BY <1>1, <1>3, <1>4, <1>5, <1>6
  <2> HIDE DEF t, u, n, e, f
  <2>2. u <= n + f  BY <2>1
  <2> QED BY <2>2 DEF u, n, f
<1>8. Len(rule) <= Len(rule')  BY <1>1, <1>2
<1> QED BY <1>7, <1>8 DEF RoomInv

\* A row changes its name or goes.
LEMMA OneRowGoes ==
  ASSUME NEW k, \A j \in Pk \ {k} : j \in Pk' /\ rule'[j].name = rule[j].name
  PROVE  Cardinality(Missing') <= Cardinality(Missing) + 1 /\ Cardinality(Missing') \in Nat
<1> DEFINE S == Missing
           T == Missing'
           name == rule[k].name
<1>1. S \subseteq DOMAIN Seeded /\ T \subseteq DOMAIN Seeded  BY DEF Missing
<1>2. ASSUME NEW i \in T \ S PROVE Seeded[i] = name
  <2>1. i \in DOMAIN Seeded /\ Named(Seeded[i]) # {} /\ Named(Seeded[i])' = {}
    BY <1>2 DEF Missing
  <2>2. PICK j \in Pk : rule[j].name = Seeded[i]  BY <2>1 DEF Named
  <2>3. j \in Pk' => rule'[j].name # Seeded[i]  BY <2>1 DEF Named
  <2>4. j = k  BY <2>2, <2>3
  <2> QED BY <2>2, <2>4
<1> HIDE DEF S, T, name
<1>3. Cardinality(T) <= Cardinality(S) + 1  BY <1>1, <1>2, OneNameGoes
<1>4. Cardinality(T) \in Nat  BY <1>1, SeededFinite
<1> QED BY <1>3, <1>4 DEF S, T

LEMMA TaskRest ==
  ASSUME NEW k \in Run, Task(k)
  PROVE  UNCHANGED <<rule, patch, edits, device, dropped, failures, stops>>
BY DEF Task, FetchDevice, FetchRules, SendCommand, NetmikoError, CreateCheck, CreateAudit,
   Unchanged, startupVars

LEMMA RoomStep ==
  ASSUME RuleInv, RoomInv, [Next]_vars
  PROVE  RoomInv' /\ Len(rule) <= Len(rule')
<1>0. /\ Pending \in {0, 1} /\ edits \in Nat /\ edits \in 0 .. MaxEdits /\ MaxEdits \in Nat
      /\ Len(rule) \in Nat /\ Cardinality(Missing) \in Nat /\ RuleInv'
      /\ Len(rule') \in Nat /\ Cardinality(Missing') \in Nat
  <2>1. RuleInv'  BY RuleStep
  <2>2. Len(rule') \in Nat  BY <2>1 DEF RuleInv
  <2>3. Cardinality(Missing') \in Nat  BY SeededFinite DEF Missing
  <2> QED BY <2>1, <2>2, <2>3, LengthIsNat, EditAssumption DEF Pending, RoomInv
<1>1. CASE UNCHANGED <<rule, patch, edits>>
  <2>1. Missing' = Missing /\ Pending' = Pending  BY <1>1 DEF Missing, Named, Pk, Pending
  <2>2. Taken' + edits <= Taken + edits'
    BY <1>0, <1>1, <2>1 DEF Taken
  <2>3. patch' # NoPatch => patch'.pk \in DOMAIN rule /\ patch'.row \in RuleRow
    BY <1>1 DEF RoomInv
  <2> QED BY <1>0, <1>1, <2>2, <2>3, RoomMoves
<1>2. CASE Boot
  <2>1. Pending' <= Pending /\ Pending' \in {0, 1} /\ edits' = edits
        /\ (patch' # NoPatch => patch' = patch)
    BY <1>2 DEF Boot, EndsExecution, Pending
  <2>2. /\ DOMAIN rule \subseteq DOMAIN rule'
        /\ Len(rule') + Cardinality(Missing') <= Len(rule) + Cardinality(Missing)
    <3>1. PICK c \in Container : Entrypoint(c) \/ Fail(c) \/ Stop(c)
      BY <1>2 DEF Boot, EndsExecution, StartupNext
    <3>2. CASE SeedRule(c)  BY <3>2, SeedRuleRoom
    <3>3. CASE ~SeedRule(c)
      <4>1. rule' = rule
        BY <3>1, <3>3 DEF Entrypoint, ReadPlan, CreateTables, RecordMigration, CollectStatic,
           LookForSuperuser, CreateSuperuser, Serve, Restart, Fail, Stop
      <4>2. Missing' = Missing  BY <4>1 DEF Missing, Named, Pk
      <4> QED BY <1>0, <4>1, <4>2
    <3> QED BY <3>2, <3>3
  <2>3. Taken' + edits <= Taken + edits'
    BY <1>0, <2>1, <2>2 DEF Taken
  <2>4. patch' # NoPatch => patch'.pk \in DOMAIN rule /\ patch'.row \in RuleRow
    BY <2>1 DEF RoomInv
  <2> QED BY <1>0, <2>1, <2>2, <2>3, <2>4, RoomMoves
<1>3. ASSUME NEW row \in RuleRow, CreateRule(row)
      PROVE  RoomInv' /\ Len(rule) <= Len(rule')
  <2>1. /\ rule' = Append(rule, row) /\ patch' = patch /\ edits' = edits + 1 /\ edits < MaxEdits
    BY <1>3 DEF CreateRule, Edit
  <2>2. /\ Len(rule') = Len(rule) + 1 /\ DOMAIN rule \subseteq DOMAIN rule'
        /\ \A k \in DOMAIN rule : rule'[k] = rule[k]
    BY <2>1 DEF RuleInv
  <2>3. \A k \in Pk : k \in Pk' /\ rule'[k].name = rule[k].name  BY <2>2 DEF Pk
  <2>4. Missing' \subseteq Missing  BY <2>3 DEF Missing, Named
  <2>5. Cardinality(Missing') <= Cardinality(Missing) /\ Cardinality(Missing') \in Nat
    <3> DEFINE S == Missing
               T == Missing'
    <3>1. S \subseteq DOMAIN Seeded /\ T \subseteq S  BY <2>4 DEF Missing
    <3> HIDE DEF S, T
    <3>2. Cardinality(T) <= Cardinality(S) /\ Cardinality(T) \in Nat
      BY <3>1, NoNameGoes, SeededFinite
    <3> QED BY <3>2 DEF S, T
  <2>6. Pending' = Pending  BY <2>1 DEF Pending
  <2>7. Taken' + edits <= Taken + edits'
    BY <1>0, <2>1, <2>2, <2>5, <2>6 DEF Taken
  <2>8. patch' # NoPatch => patch'.pk \in DOMAIN rule /\ patch'.row \in RuleRow
    BY <2>1 DEF RoomInv
  <2> QED BY <1>0, <2>1, <2>2, <2>7, <2>8, RoomMoves
<1>4. ASSUME NEW k \in Pk, DeleteRule(k)
      PROVE  RoomInv' /\ Len(rule) <= Len(rule')
  <2>1. /\ rule' = [rule EXCEPT ![k] = None] /\ patch' = patch /\ edits' = edits + 1
        /\ edits < MaxEdits
    BY <1>4 DEF DeleteRule, Edit
  <2>2. Len(rule') = Len(rule) /\ DOMAIN rule' = DOMAIN rule  BY <2>1 DEF RuleInv
  <2>3. \A j \in Pk \ {k} : j \in Pk' /\ rule'[j].name = rule[j].name  BY <2>1 DEF Pk
  <2>4. Cardinality(Missing') <= Cardinality(Missing) + 1 /\ Cardinality(Missing') \in Nat
    BY <2>3, OneRowGoes
  <2>5. Pending' = Pending  BY <2>1 DEF Pending
  <2>6. Taken' + edits <= Taken + edits'
    BY <1>0, <2>1, <2>2, <2>4, <2>5 DEF Taken
  <2>7. patch' # NoPatch => patch'.pk \in DOMAIN rule /\ patch'.row \in RuleRow
    BY <2>1 DEF RoomInv
  <2> QED BY <1>0, <2>1, <2>2, <2>6, <2>7, RoomMoves
<1>5. ASSUME NEW k \in Pk, NEW row \in RuleRow, PatchRead(k, row)
      PROVE  RoomInv' /\ Len(rule) <= Len(rule')
  <2>1. /\ rule' = rule /\ patch = NoPatch /\ patch' = [pk |-> k, row |-> row]
        /\ edits' = edits + 1 /\ edits < MaxEdits
    BY <1>5 DEF PatchRead, Edit, startupVars
  <2>2. Missing' = Missing  BY <2>1 DEF Missing, Named, Pk
  <2>3. Pending = 0 /\ Pending' \in {0, 1}  BY <2>1 DEF Pending
  <2>4. patch'.pk = k /\ patch'.row = row /\ k \in DOMAIN rule  BY <2>1 DEF Pk
  <2>5. Taken' + edits <= Taken + edits'
    BY <1>0, <2>1, <2>2, <2>3 DEF Taken
  <2> QED BY <1>0, <2>1, <2>4, <2>5, RoomMoves
<1>6. CASE PatchSave
  <2>1. /\ \/ rule' = rule
           \/ rule' = [rule EXCEPT ![patch.pk] = patch.row]
        /\ patch # NoPatch /\ patch' = NoPatch /\ edits' = edits
    BY <1>6 DEF PatchSave
  <2>2. patch.pk \in DOMAIN rule  BY <2>1 DEF RoomInv
  <2>3. Len(rule') = Len(rule) /\ DOMAIN rule' = DOMAIN rule  BY <2>1 DEF RuleInv
  <2>4. \A j \in Pk \ {patch.pk} : j \in Pk' /\ rule'[j].name = rule[j].name
    BY <2>1 DEF Pk
  <2>5. Cardinality(Missing') <= Cardinality(Missing) + 1 /\ Cardinality(Missing') \in Nat
    BY <2>4, OneRowGoes
  <2>6. Pending = 1 /\ Pending' = 0  BY <2>1 DEF Pending
  <2>7. Taken' + edits <= Taken + edits'
    BY <1>0, <2>1, <2>3, <2>5, <2>6 DEF Taken
  <2> QED BY <1>0, <2>1, <2>3, <2>7, RoomMoves
<1>7. CASE ~(UNCHANGED <<rule, patch, edits>>)
  BY <1>2, <1>3, <1>4, <1>5, <1>6, <1>7, TaskRest DEF Next, vars, startupVars, AddDevice,
     DeleteDevice, RunCompliance
<1> QED BY <1>1, <1>7

LEMMA RoomInvariant == Spec => []RoomInv
<1>1. Init => RoomInv
  <2> SUFFICES ASSUME Init PROVE RoomInv  OBVIOUS
  <2>1. rule = << >> /\ patch = NoPatch /\ edits = 0  BY DEF Init, StartupInit
  <2>2. Pending = 0 /\ Len(rule) = 0  BY <2>1 DEF Pending
  <2>3. Cardinality(DOMAIN Seeded) = Len(Seeded) /\ Len(Seeded) \in Nat
    <3> DEFINE n == Len(Seeded)
    <3>1. n \in Nat /\ DOMAIN Seeded = 1 .. n  BY SeededAssumption
    <3> HIDE DEF n
    <3>2. Cardinality(1 .. n) = IF 1 > n THEN 0 ELSE n - 1 + 1  BY <3>1, FS_Interval
    <3>3. Cardinality(1 .. n) = n  BY <3>1, <3>2
    <3> QED BY <3>1, <3>3 DEF n
  <2>4. Cardinality(Missing) <= Cardinality(DOMAIN Seeded)
    <3> DEFINE S == DOMAIN Seeded
               T == Missing
    <3>1. S \subseteq DOMAIN Seeded /\ T \subseteq S  BY DEF Missing
    <3> HIDE DEF S, T
    <3>2. Cardinality(T) <= Cardinality(S)  BY <3>1, NoNameGoes
    <3> QED BY <3>2 DEF S, T
  <2>5. Cardinality(Missing) \in Nat  BY SeededFinite DEF Missing
  <2>6. Taken <= Len(Seeded) + edits  BY <2>1, <2>2, <2>3, <2>4, <2>5 DEF Taken
  <2> QED BY <2>1, <2>6, EditAssumption DEF RoomInv
<1>2. RuleInv /\ RoomInv /\ [Next]_vars => RoomInv'  BY RoomStep
<1>3. Spec => []RuleInv  BY InvAlways, PTL
<1> QED BY <1>1, <1>2, <1>3, PTL DEF Spec

\* A check on one of n rules.
CheckUpTo(n) == [run : Run, pk : 1 .. n, status : Verdicts, output : Line]

\* A task is about rules 1 to n.
KeysFit(l, n) ==
  /\ \A o \in l.asked : o.pk \in 1 .. n
  /\ l.cur \in CheckUpTo(n) \cup {None}
  /\ \A r \in l.results : r.pk \in 1 .. n

\* Primary keys are given out in order and stay, so whatever names a rule names one
\* that has, or had, a row.
KeysInv ==
  /\ \A k \in Run : KeysFit(run[k], Len(rule))
  /\ check \subseteq CheckUpTo(Len(rule))
  /\ heard \subseteq Run \X (1 .. Len(rule)) \X Line
  /\ dropped \subseteq 1 .. Len(rule)
  /\ failures \in 0 .. MaxFailures
  /\ stops \in 0 .. MaxStops

LEMMA MoreKeys ==
  ASSUME NEW n \in Nat, NEW m \in Nat, n <= m
  PROVE  /\ CheckUpTo(n) \subseteq CheckUpTo(m)
         /\ Run \X (1 .. n) \X Line \subseteq Run \X (1 .. m) \X Line
         /\ \A l : KeysFit(l, n) => KeysFit(l, m)
<1>1. 1 .. n \subseteq 1 .. m  OBVIOUS
<1>2. CheckUpTo(n) \subseteq CheckUpTo(m)  BY <1>1 DEF CheckUpTo
<1>3. Run \X (1 .. n) \X Line \subseteq Run \X (1 .. m) \X Line  BY <1>1
<1> QED BY <1>1, <1>2, <1>3 DEF KeysFit

\* No task moves; rules are added and rows go.
LEMMA KeysStay ==
  ASSUME RuleInv, RuleInv', Len(rule) <= Len(rule'), KeysInv,
         \A k \in Run : KeysFit(run'[k], Len(rule)), check' \subseteq check, heard' = heard,
         dropped' \subseteq 1 .. Len(rule),
         failures' \in 0 .. MaxFailures, stops' \in 0 .. MaxStops
  PROVE  KeysInv'
<1> DEFINE n == Len(rule)
           m == Len(rule')
<1>1. n \in Nat /\ m \in Nat /\ n <= m  BY DEF RuleInv
<1>2. /\ \A k \in Run : KeysFit(run'[k], n)
      /\ check' \subseteq CheckUpTo(n) /\ heard' \subseteq Run \X (1 .. n) \X Line
      /\ dropped' \subseteq 1 .. n
  BY DEF KeysInv
<1> HIDE DEF n, m
<1>3. /\ CheckUpTo(n) \subseteq CheckUpTo(m)
      /\ Run \X (1 .. n) \X Line \subseteq Run \X (1 .. m) \X Line
      /\ \A l : KeysFit(l, n) => KeysFit(l, m)
      /\ 1 .. n \subseteq 1 .. m
  BY <1>1, MoreKeys
<1>4. /\ \A k \in Run : KeysFit(run'[k], m)
      /\ check' \subseteq CheckUpTo(m) /\ heard' \subseteq Run \X (1 .. m) \X Line
      /\ dropped' \subseteq 1 .. m
  BY <1>2, <1>3
<1> QED BY <1>4 DEF KeysInv, KeysFit, CheckUpTo, m

\* One task moves.
LEMMA KeysMove ==
  ASSUME VerdictInv, KeysInv, NEW k \in Run, NEW l, run' = [run EXCEPT ![k] = l],
         UNCHANGED <<rule, dropped, failures, stops>>, KeysFit(l, Len(rule)),
         check' \subseteq CheckUpTo(Len(rule)),
         heard' \subseteq Run \X (1 .. Len(rule)) \X Line
  PROVE  KeysInv'
<1>1. \A j \in Run : run'[j] = IF j = k THEN l ELSE run[j]  BY DEF VerdictInv
<1>2. \A j \in Run : KeysFit(run'[j], Len(rule))  BY <1>1 DEF KeysInv
<1> QED BY <1>2 DEF KeysInv, KeysFit, CheckUpTo

LEMMA EndedKeys ==
  ASSUME KeysInv, NEW k \in Run, NEW pc
  PROVE  KeysFit(EndedRun(k, pc), Len(rule))
<1>1. KeysFit(run[k], Len(rule))  BY DEF KeysInv
<1>2. /\ EndedRun(k, pc).asked = run[k].asked /\ EndedRun(k, pc).cur = None
      /\ EndedRun(k, pc).results = {}
  BY DEF EndedRun, NewRun
<1> QED BY <1>1, <1>2 DEF KeysFit

LEMMA OthersKeys ==
  ASSUME RuleInv, RoomInv, VerdictInv, KeysInv, [Next]_vars, \A k \in Run : ~Task(k)
  PROVE  KeysInv'
<1>0. /\ RuleInv' /\ Len(rule) <= Len(rule') /\ DOMAIN rule = 1 .. Len(rule)
      /\ failures \in 0 .. MaxFailures /\ stops \in 0 .. MaxStops
      /\ dropped \subseteq 1 .. Len(rule)
      /\ \A k \in Run : KeysFit(run[k], Len(rule))
  BY RuleStep, RoomStep DEF RuleInv, KeysInv
<1>1. ASSUME UNCHANGED <<run, heard, dropped, failures, stops>>, check' \subseteq check
      PROVE  KeysInv'
  BY <1>0, <1>1, KeysStay
<1>2. CASE Boot
  <2>1. UNCHANGED <<check, heard, dropped>>  BY <1>2 DEF Boot, EndsExecution
  <2>2. ASSUME NEW k \in Run PROVE KeysFit(run'[k], Len(rule))
    <3>1. run'[k] = run[k] \/ run'[k] = EndedRun(k, "killed")  BY <1>2 DEF Boot, EndsExecution
    <3> QED BY <1>0, <3>1, EndedKeys
  <2>3. failures' \in 0 .. MaxFailures /\ stops' \in 0 .. MaxStops
    <3>1. PICK c \in Container : Entrypoint(c) \/ Fail(c) \/ Stop(c)
      BY <1>2 DEF Boot, EndsExecution, StartupNext
    <3>2. CASE Fail(c)  BY <1>0, <3>2, StartupBounds DEF Fail
    <3>3. CASE Stop(c)  BY <1>0, <3>3, StartupBounds DEF Stop
    <3>4. CASE Entrypoint(c)
      <4>1. UNCHANGED <<failures, stops>>
        BY <3>4 DEF Entrypoint, ReadPlan, CreateTables, RecordMigration, CollectStatic,
           LookForSuperuser, CreateSuperuser, SeedRule, Serve, Restart
      <4> QED BY <1>0, <4>1
    <3> QED BY <3>1, <3>2, <3>3, <3>4
  <2> QED BY <1>0, <2>1, <2>2, <2>3, KeysStay
<1>3. ASSUME NEW k \in Pk, DeleteRule(k) PROVE KeysInv'
  <2>1. /\ UNCHANGED <<run, heard, failures, stops>> /\ check' \subseteq check
        /\ dropped' = dropped \cup {k}
    BY <1>3 DEF DeleteRule
  <2>2. k \in 1 .. Len(rule)  BY <1>0 DEF Pk
  <2>3. dropped' \subseteq 1 .. Len(rule)  BY <1>0, <2>1, <2>2
  <2> QED BY <1>0, <2>1, <2>3, KeysStay
<1>4. ASSUME NEW k \in Run, NEW d \in Device, NEW ids \in Filter, RunCompliance(k, d, ids)
      PROVE  KeysInv'
  <2> DEFINE l == [run[k] EXCEPT !.pc = "queued", !.device = d, !.ids = ids]
  <2>1. run[k] \in RunShape  BY DEF VerdictInv
  <2>2. /\ l.asked = run[k].asked /\ l.cur = run[k].cur /\ l.results = run[k].results
    BY <2>1 DEF RunShape
  <2>3. run' = [run EXCEPT ![k] = l]  BY <1>4, <2>1 DEF RunCompliance, VerdictInv, RunShape
  <2> HIDE DEF l
  <2>4. KeysFit(l, Len(rule))  BY <1>0, <2>2 DEF KeysFit
  <2>5. UNCHANGED <<rule, dropped, failures, stops, check, heard>>
    BY <1>4 DEF RunCompliance, startupVars
  <2> QED BY <2>3, <2>4, <2>5, KeysMove DEF KeysInv
<1> QED BY <1>1, <1>2, <1>3, <1>4 DEF Next, vars, startupVars, AddDevice, DeleteDevice,
        CreateRule, PatchRead, PatchSave

LEMMA TaskKeys ==
  ASSUME RuleInv, VerdictInv, KeysInv, NEW k \in Run, Task(k)
  PROVE  KeysInv'
<1> DEFINE n == Len(rule)
<1>0. /\ n \in Nat /\ DOMAIN rule = 1 .. n
      /\ run[k] \in RunShape /\ run \in [Run -> RunShape] /\ RunFits(k, run[k], heard)
      /\ KeysFit(run[k], n) /\ check \subseteq CheckUpTo(n)
      /\ heard \subseteq Run \X (1 .. n) \X Line
      /\ UNCHANGED <<rule, dropped, failures, stops>>
  BY TaskRest DEF RuleInv, VerdictInv, KeysInv
<1>1. ASSUME NEW pc, Ends(k, pc), UNCHANGED <<check, heard>> PROVE KeysInv'
  <2> DEFINE l == EndedRun(k, pc)
  <2>1. KeysFit(l, n) /\ run' = [run EXCEPT ![k] = l]  BY <1>1, EndedKeys DEF Ends
  <2> HIDE DEF l
  <2> QED BY <1>0, <1>1, <2>1, KeysMove
<1>2. CASE FetchDevice(k)
  <2>1. CASE Ends(k, "raised")  BY <1>1, <1>2, <2>1 DEF FetchDevice
  <2>2. CASE run' = [run EXCEPT ![k].pc = "rules"]
    <3> DEFINE l == [run[k] EXCEPT !.pc = "rules"]
    <3>1. l.asked = run[k].asked /\ l.cur = run[k].cur /\ l.results = run[k].results
      BY <1>0 DEF RunShape
    <3>2. run' = [run EXCEPT ![k] = l]  BY <1>0, <2>2
    <3> HIDE DEF l
    <3>3. KeysFit(l, n)  BY <1>0, <3>1 DEF KeysFit
    <3> QED BY <1>0, <1>2, <3>2, <3>3, KeysMove DEF FetchDevice
  <2> QED BY <1>2, <2>1, <2>2 DEF FetchDevice
<1>3. CASE FetchRules(k)
  <2> DEFINE asked == {[pk |-> p, text |-> rule[p].text] :
                         p \in {q \in Pk : /\ rule[q].active
                                           /\ run[k].ids # {} => q \in run[k].ids}}
             l == [run[k] EXCEPT !.pc = "loop", !.ids = {}, !.asked = asked, !.todo = asked]
  <2>1. \A o \in asked : o.pk \in 1 .. n  BY <1>0 DEF Pk
  <2>2. run' = [run EXCEPT ![k] = l]  BY <1>0, <1>3 DEF FetchRules, RunShape
  <2> HIDE DEF asked
  <2>3. l.asked = asked /\ l.cur = run[k].cur /\ l.results = run[k].results
    BY <1>0 DEF RunShape
  <2> HIDE DEF l
  <2>4. KeysFit(l, n)  BY <1>0, <2>1, <2>3 DEF KeysFit
  <2> QED BY <1>0, <1>3, <2>2, <2>4, KeysMove DEF FetchRules
<1>4. ASSUME NEW o \in run[k].todo, NEW status \in Verdicts, NEW output \in Line,
             Meets(k, o, status, output), check' = check,
             heard' \subseteq heard \cup {<<k, o.pk, output>>}
      PROVE  KeysInv'
  <2> DEFINE row == [run |-> k, pk |-> o.pk, status |-> status, output |-> output]
             l == [run[k] EXCEPT !.pc = "insert", !.todo = run[k].todo \ {o}, !.cur = row]
  <2>1. o \in run[k].asked  BY <1>0 DEF RunFits
  <2>2. o.pk \in 1 .. n  BY <1>0, <2>1 DEF KeysFit
  <2>3. row \in CheckUpTo(n)  BY <2>2 DEF CheckUpTo
  <2>4. run' = [run EXCEPT ![k] = l]  BY <1>0, <1>4 DEF Meets, RunShape
  <2> HIDE DEF row
  <2>5. l.asked = run[k].asked /\ l.cur = row /\ l.results = run[k].results
    BY <1>0 DEF RunShape
  <2> HIDE DEF l
  <2>6. KeysFit(l, n)  BY <1>0, <2>3, <2>5 DEF KeysFit
  <2>7. heard' \subseteq Run \X (1 .. n) \X Line
    <3>1. <<k, o.pk, output>> \in Run \X (1 .. n) \X Line  BY <2>2
    <3> QED BY <1>0, <1>4, <3>1
  <2> QED BY <1>0, <1>4, <2>4, <2>6, <2>7, KeysMove
<1>5. ASSUME NEW o \in run[k].todo, NetmikoError(k, o) PROVE KeysInv'
  BY <1>4, <1>5 DEF NetmikoError, Verdicts, Line
<1>6. ASSUME NEW o \in run[k].todo, NEW output \in Line, SendCommand(k, o, output)
      PROVE  KeysInv'
  <2>1. check' = check  BY <1>6 DEF SendCommand
  <2>2. CASE Says(o.text).broken
    <3>1. Meets(k, o, "error", "") /\ heard' = heard  BY <1>6, <2>2 DEF SendCommand
    <3> QED BY <1>4, <2>1, <3>1 DEF Verdicts, Line
  <2>3. CASE ~Says(o.text).broken
    <3>1. heard' = heard \cup {<<k, o.pk, output>>}  BY <1>6, <2>3 DEF SendCommand
    <3>2. Meets(k, o, "compliant", output) \/ Meets(k, o, "non_compliant", output)
      BY <1>6, <2>3 DEF SendCommand
    <3> QED BY <1>4, <2>1, <3>1, <3>2 DEF Verdicts
  <2> QED BY <2>2, <2>3
<1>7. CASE CreateCheck(k)
  <2> DEFINE row == run[k].cur
  <2>1. heard' = heard /\ row \in CheckOf  BY <1>0, <1>7 DEF CreateCheck, RunFits
  <2>2. CASE HasDevice(k) /\ row.pk \in Pk
    <3> DEFINE new == [pk |-> row.pk, status |-> row.status]
               l == [run[k] EXCEPT !.pc = "loop", !.cur = None,
                                   !.results = run[k].results \cup {new}]
    <3>1. check' = check \cup {row}  BY <1>7, <2>2 DEF CreateCheck
    <3>2. row.pk \in 1 .. n  BY <1>0, <2>2 DEF Pk
    <3>3. row \in CheckUpTo(n)  BY <2>1, <3>2 DEF CheckOf, CheckUpTo
    <3>4. run' = [run EXCEPT ![k] = l]  BY <1>0, <1>7, <2>2 DEF CreateCheck, RunShape
    <3>5. new.pk \in 1 .. n  BY <3>2
    <3> HIDE DEF new
    <3>6. l.asked = run[k].asked /\ l.cur = None /\ l.results = run[k].results \cup {new}
      BY <1>0 DEF RunShape
    <3> HIDE DEF l
    <3>7. KeysFit(l, n)  BY <1>0, <3>5, <3>6 DEF KeysFit
    <3> QED BY <1>0, <2>1, <3>1, <3>3, <3>4, <3>7, KeysMove
  <2>3. CASE ~(HasDevice(k) /\ row.pk \in Pk)
    BY <1>1, <1>7, <2>1, <2>3 DEF CreateCheck
  <2> QED BY <2>2, <2>3
<1>8. CASE CreateAudit(k)  BY <1>1, <1>8 DEF CreateAudit
<1> QED BY <1>2, <1>3, <1>5, <1>6, <1>7, <1>8 DEF Task

LEMMA KeysInvariant == Spec => [](RoomInv /\ KeysInv)
<1>1. Init => KeysInv
  <2> SUFFICES ASSUME Init PROVE KeysInv  OBVIOUS
  <2>1. NewRun.asked = {} /\ NewRun.cur = None /\ NewRun.results = {}  BY DEF NewRun
  <2> QED BY <2>1, StartupBounds DEF Init, StartupInit, KeysInv, KeysFit
<1>2. RuleInv /\ RoomInv /\ VerdictInv /\ KeysInv /\ [Next]_vars => KeysInv'
  BY OthersKeys, TaskKeys
<1>3. Spec => [](RuleInv /\ VerdictInv)  BY InvAlways, PTL
<1> QED BY <1>1, <1>2, <1>3, RoomInvariant, PTL DEF Spec

\* Rows, locals and history have their types: in particular the primary keys that
\* edits and seeding give out never run past MaxRules, which is no guard of theirs.
THEOREM TypeCorrect == Spec => []TypeOK
<1>1. BootInv /\ RuleInv /\ VerdictInv /\ ListInv /\ RoomInv /\ KeysInv => TypeOK
  <2> SUFFICES ASSUME BootInv, RuleInv, VerdictInv, ListInv, RoomInv, KeysInv PROVE TypeOK
    OBVIOUS
  <2>1. Len(rule) \in Nat /\ Len(rule) <= MaxRules /\ DOMAIN rule = 1 .. Len(rule)
    <3>1. /\ Len(rule) \in Nat /\ Cardinality(Missing) \in Nat /\ Len(Seeded) \in Nat
          /\ DOMAIN rule = 1 .. Len(rule)
      BY LengthIsNat
    <3>2. Pending \in {0, 1} /\ MaxRules \in Nat  BY StartupBounds DEF Pending
    <3>3. Len(rule) + Cardinality(Missing) + Pending <= Len(Seeded) + edits
          /\ edits \in Nat /\ edits <= MaxEdits /\ MaxEdits \in Nat
          /\ MaxRules >= Len(Seeded) + MaxEdits
      BY EditAssumption DEF RoomInv, Taken
    <3> QED BY <3>1, <3>2, <3>3
  <2>2. StartupTypeOK  BY DEF StartupTypeOK, BootInv, RuleInv, KeysInv
  <2>3. ASSUME NEW k \in Run PROVE run[k] \in RunState
    <3> DEFINE l == run[k]
    <3>1. l \in RunShape /\ KeysFit(l, Len(rule)) /\ l.todo \subseteq l.asked
      BY DEF VerdictInv, KeysInv, RunFits
    <3>2. l.asked \subseteq FetchedOf /\ l.results \subseteq [pk : Nat, status : Verdicts]
      BY <3>1 DEF RunShape
    <3>3. l.asked \in SUBSET Fetched
      BY <2>1, <3>1, <3>2, StartupBounds DEF KeysFit, FetchedOf, Fetched
    <3>4. l.todo \in SUBSET Fetched  BY <3>1, <3>3
    <3>5. l.results \in SUBSET Result
      BY <2>1, <3>1, <3>2, StartupBounds DEF KeysFit, Result
    <3>6. l.cur \in CheckRow \cup {None}
      BY <2>1, <3>1, StartupBounds DEF KeysFit, CheckUpTo, CheckRow
    <3> HIDE DEF l
    <3>7. l \in RunState  BY <3>1, <3>3, <3>4, <3>5, <3>6 DEF RunShape, RunState
    <3> QED BY <3>7 DEF l
  <2>4. check \subseteq CheckRow /\ heard \subseteq Run \X (1 .. MaxRules) \X Line
        /\ dropped \subseteq 1 .. MaxRules
    <3>1. CheckUpTo(Len(rule)) \subseteq CheckUpTo(MaxRules)
          /\ Run \X (1 .. Len(rule)) \X Line \subseteq Run \X (1 .. MaxRules) \X Line
          /\ 1 .. Len(rule) \subseteq 1 .. MaxRules
      BY <2>1, MoreKeys, StartupBounds
    <3> QED BY <3>1 DEF KeysInv, CheckUpTo, CheckRow
  <2>5. ASSUME NEW k \in Run PROVE audit[k] \in (SUBSET Result) \cup {None}
    <3>1. audit[k] \in (SUBSET [pk : Nat, status : Verdicts]) \cup {None}  BY DEF ListInv
    <3>2. CASE audit[k] # None
      <4>1. Pks(audit[k]) = Pks(run[k].asked)  BY <3>2 DEF ListInv, ListFits
      <4>2. KeysFit(run[k], Len(rule))  BY DEF KeysInv
      <4>3. ASSUME NEW r \in audit[k] PROVE r.pk \in 1 .. MaxRules
        <5>1. r.pk \in Pks(run[k].asked)  BY <4>1 DEF Pks
        <5>2. PICK o \in run[k].asked : o.pk = r.pk  BY <5>1 DEF Pks
        <5>3. r.pk \in 1 .. Len(rule)  BY <4>2, <5>2 DEF KeysFit
        <5> QED BY <2>1, <5>3, StartupBounds
      <4>4. \A r \in audit[k] : r \in [pk : Nat, status : Verdicts]  BY <3>1, <3>2
      <4>5. \A r \in audit[k] : r \in Result  BY <4>3, <4>4 DEF Result
      <4> QED BY <4>5
    <3> QED BY <3>2
  <2>6. patch \in [pk : 0 .. MaxRules, row : RuleRow \cup {None}]
    <3>1. CASE patch = NoPatch  BY <3>1, StartupBounds DEF NoPatch
    <3>2. CASE patch # NoPatch
      BY <2>1, <3>2, StartupBounds DEF RuleInv, RoomInv
    <3> QED BY <3>1, <3>2
  <2> QED BY <2>2, <2>3, <2>4, <2>5, <2>6 DEF TypeOK, VerdictInv, ListInv, RoomInv
<1> QED BY <1>1, InvAlways, ListInvariant, KeysInvariant, PTL
=============================================================================
