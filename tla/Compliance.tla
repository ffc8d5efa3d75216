----------------------------- MODULE Compliance -----------------------------
(***************************************************************************)
(* Compliance rules and checks, on top of Startup: users edit the rules    *)
(* and request checks while the django container serves, the task          *)
(* run_compliance_check runs while the celery container does, and every    *)
(* start of any container seeds the built-in rules over the same table.    *)
(***************************************************************************)
EXTENDS Startup

CONSTANTS
  Web,       \* the container with gunicorn
  Worker,    \* the container with the Celery worker of queue compliance
  Device,    \* primary keys of the devices users add
  Run,       \* requests of a compliance check, and the task of each
  UserRule,  \* what users write into a rule: [Text \ built-in -> RuleText]
  Filter,    \* the rule_ids requests give; empty for all rules
  MaxEdits   \* bound: requests that change rules

\* What a check_command prints of the setting it is about: the line that sets
\* it, the same line behind "no", or nothing.
Line == {"plain", "no", ""}

\* finds: the output in which re.search finds expected_pattern.
RuleText == [finds : SUBSET Line, must : BOOLEAN, broken : BOOLEAN]

\* must_match, and what check_command prints once the rule's remediation is in
\* force (None: no remediation).
BUILTIN_RULES == [
  ssh        |-> [must |-> TRUE,  remedied |-> "plain"],
  telnet     |-> [must |-> FALSE, remedied |-> ""],
  snmp       |-> [must |-> TRUE,  remedied |-> None],
  acl        |-> [must |-> TRUE,  remedied |-> "plain"],
  encryption |-> [must |-> TRUE,  remedied |-> "plain"],
  http       |-> [must |-> FALSE, remedied |-> "no"],
  logging    |-> [must |-> TRUE,  remedied |-> "plain"],
  banner     |-> [must |-> TRUE,  remedied |-> None]]

ASSUME BuiltinAssumption  == Builtin \subseteq DOMAIN BUILTIN_RULES
ASSUME UserRuleAssumption == UserRule \in [Text \ DOMAIN BUILTIN_RULES -> RuleText]
ASSUME ContainerAssumption    == {Web, Worker} \subseteq Container
ASSUME FilterAssumption   == Filter \subseteq SUBSET (1 .. MaxRules)
\* Each edit makes at most one row more than seeding did: no key is missing.
ASSUME EditAssumption     == MaxEdits \in Nat /\ MaxRules >= Len(Seeded) + MaxEdits

VARIABLES
  device,   \* has a device a row: not yet, now, or no longer
  run,      \* the locals of each task
  check,    \* the ComplianceCheck rows
  audit,    \* the AuditLog rows with action compliance_check: their results
  patch,    \* the PATCH of a rule under way: the row it is to save
  edits,    \* requests that changed rules so far
  heard,    \* history: what each task read from the device for each rule
  dropped   \* history: rules that were deleted

complianceVars == <<device, run, check, audit, patch, edits, heard, dropped>>
vars == <<table, recorded, superuser, rule, boot, failures, stops, device,
          run, check, audit, patch, edits, heard, dropped>>

Verdicts  == {"compliant", "non_compliant", "error"}
Fetched   == [pk : 1 .. MaxRules, text : Text]
Result    == [pk : 1 .. MaxRules, status : Verdicts]
CheckRow  == [run : Run, pk : 1 .. MaxRules, status : Verdicts, output : Line]
Executing == {"rules", "loop", "insert"}
Ended     == {"done", "raised", "killed"}
RunState  == [pc : {"idle", "queued"} \cup Executing \cup Ended,
              device : Device \cup {None}, ids : Filter \cup {{}},
              asked : SUBSET Fetched, todo : SUBSET Fetched,
              cur : CheckRow \cup {None}, results : SUBSET Result]

TypeOK ==
  /\ StartupTypeOK
  /\ device \in [Device -> {"new", "row", "gone"}]
  /\ run \in [Run -> RunState]
  /\ check \subseteq CheckRow
  /\ audit \in [Run -> (SUBSET Result) \cup {None}]
  /\ patch \in [pk : 0 .. MaxRules, row : RuleRow \cup {None}]
  /\ edits \in 0 .. MaxEdits
  /\ heard \subseteq Run \X (1 .. MaxRules) \X Line
  /\ dropped \subseteq 1 .. MaxRules

NewRun  == [pc |-> "idle", device |-> None, ids |-> {}, asked |-> {}, todo |-> {},
            cur |-> None, results |-> {}]
NoPatch == [pk |-> 0, row |-> None]

\* A task that has ended has no locals but the ones the properties look at.
EndedRun(k, pc) ==
  [NewRun EXCEPT !.pc = pc, !.device = run[k].device, !.asked = run[k].asked]
Ends(k, pc) == run' = [run EXCEPT ![k] = EndedRun(k, pc)]

Init ==
  /\ StartupInit
  /\ device = [d \in Device |-> "new"]
  /\ run = [k \in Run |-> NewRun]
  /\ check = {}
  /\ audit = [k \in Run |-> None]
  /\ patch = NoPatch
  /\ edits = 0
  /\ heard = {}
  /\ dropped = {}

-----------------------------------------------------------------------------
(* Containers and devices                                                  *)

\* A container that stops ends what it executes; queued messages stay in Redis.
EndsExecution ==
  /\ run' = [k \in Run |-> IF boot'[Worker].pc # "up" /\ run[k].pc \in Executing
                           THEN EndedRun(k, "killed") ELSE run[k]]
  /\ patch' = IF boot'[Web].pc # "up" THEN NoPatch ELSE patch
  /\ UNCHANGED <<device, check, audit, edits, heard, dropped>>

Boot == StartupNext /\ EndsExecution

Serving == boot[Web].pc = "up"

AddDevice(d) ==
  /\ Serving
  /\ device[d] = "new"
  /\ device' = [device EXCEPT ![d] = "row"]
  /\ UNCHANGED <<startupVars, run, check, audit, patch, edits, heard, dropped>>

\* ComplianceCheck rows go with their device.
DeleteDevice(d) ==
  /\ Serving
  /\ device[d] = "row"
  /\ device' = [device EXCEPT ![d] = "gone"]
  /\ check' = {r \in check : run[r.run].device # d}
  /\ UNCHANGED <<startupVars, run, audit, patch, edits, heard, dropped>>

-----------------------------------------------------------------------------
(* ComplianceRuleViewSet                                                   *)

Edit == Serving /\ edits < MaxEdits /\ edits' = edits + 1

CreateRule(row) ==
  /\ Edit
  /\ Named(row.name) = {}
  /\ rule' = Append(rule, row)
  /\ UNCHANGED <<table, recorded, superuser, boot, failures, stops, device, run,
                 check, audit, patch, heard, dropped>>

\* ComplianceCheck rows go with their rule.
DeleteRule(k) ==
  /\ Edit
  /\ rule' = [rule EXCEPT ![k] = None]
  /\ check' = {r \in check : r.pk # k}
  /\ dropped' = dropped \cup {k}
  /\ UNCHANGED <<table, recorded, superuser, boot, failures, stops, device, run,
                 audit, patch, heard>>

\* PATCH, or PUT, reads the row, checks the name and changes fields of its copy ...
PatchRead(k, row) ==
  /\ Edit
  /\ patch = NoPatch
  /\ Named(row.name) \subseteq {k}
  /\ patch' = [pk |-> k, row |-> row]
  /\ UNCHANGED <<startupVars, device, run, check, audit, heard, dropped>>

\* ... and saves all columns of it: an UPDATE, or an INSERT when the row is gone
\* meanwhile; an error when another row has taken the name.
PatchSave ==
  /\ patch # NoPatch
  /\ rule' = IF Named(patch.row.name) \subseteq {patch.pk}
               THEN [rule EXCEPT ![patch.pk] = patch.row] ELSE rule
  /\ patch' = NoPatch
  /\ UNCHANGED <<table, recorded, superuser, boot, failures, stops, device, run,
                 check, audit, edits, heard, dropped>>

-----------------------------------------------------------------------------
(* SecurityActionViewSet.run_compliance                                    *)

\* Neither the device nor the rule_ids are looked up before the task is.
RunCompliance(k, d, ids) ==
  /\ Serving
  /\ run[k].pc = "idle"
  /\ run' = [run EXCEPT ![k].pc = "queued", ![k].device = d, ![k].ids = ids]
  /\ UNCHANGED <<startupVars, device, check, audit, patch, edits, heard, dropped>>

-----------------------------------------------------------------------------
(* run_compliance_check                                                    *)

Unchanged == UNCHANGED <<startupVars, device, patch, edits, dropped>>
HasDevice(k) == device[run[k].device] = "row"

FetchDevice(k) ==
  /\ run[k].pc = "queued"
  /\ boot[Worker].pc = "up"
  /\ IF HasDevice(k) THEN run' = [run EXCEPT ![k].pc = "rules"] ELSE Ends(k, "raised")
  /\ Unchanged /\ UNCHANGED <<check, audit, heard>>

\* rules_qs is evaluated once, when the loop begins; rule_ids is not used again.
FetchRules(k) ==
  LET asked == {[pk |-> p, text |-> rule[p].text] :
                  p \in {q \in Pk : /\ rule[q].active
                                    /\ run[k].ids # {} => q \in run[k].ids}}
  IN
  /\ run[k].pc = "rules"
  /\ run' = [run EXCEPT ![k].pc = "loop", ![k].ids = {}, ![k].asked = asked, ![k].todo = asked]
  /\ Unchanged /\ UNCHANGED <<check, audit, heard>>

\* What the fields of a fetched rule amount to.  Each built-in pattern is found in
\* the line that sets its setting and, being unanchored or naming both, in the
\* line that takes it back.
Says(t) == IF t \in DOMAIN UserRule THEN UserRule[t]
           ELSE [finds |-> {"plain", "no"}, must |-> BUILTIN_RULES[t].must, broken |-> FALSE]

\* Mutant: must_match is not looked at.
evaluate_match(output, t) == output \in Says(t).finds

evaluate_rule(output, t) == output \in Says(t).finds <=> Says(t).must

Meets(k, o, status, output) ==
  run' = [run EXCEPT ![k].pc = "insert", ![k].todo = @ \ {o},
            ![k].cur = [run |-> k, pk |-> o.pk, status |-> status, output |-> output]]

\* The command's output is evaluated, whatever the device is configured to by
\* now; a pattern that re refuses is an error.
SendCommand(k, o, output) ==
  LET broken == Says(o.text).broken IN
  /\ run[k].pc = "loop"
  /\ o \in run[k].todo
  /\ Meets(k, o, IF broken THEN "error"
                 ELSE IF evaluate_rule(output, o.text) THEN "compliant" ELSE "non_compliant",
           IF broken THEN "" ELSE output)
  /\ heard' = IF broken THEN heard ELSE heard \cup {<<k, o.pk, output>>}
  /\ Unchanged /\ UNCHANGED <<check, audit>>

\* Mutant: NetmikoError gives an empty output, which is evaluated.
NetmikoErrorEvaluated(k, o) ==
  /\ run[k].pc = "loop"
  /\ o \in run[k].todo
  /\ Meets(k, o, IF evaluate_rule("", o.text) THEN "compliant" ELSE "non_compliant", "")
  /\ Unchanged /\ UNCHANGED <<check, audit, heard>>

\* Mutant: NetmikoError leaves status unset.
NetmikoErrorUnset(k, o) ==
  /\ run[k].pc = "loop"
  /\ o \in run[k].todo
  /\ Meets(k, o, None, "")
  /\ Unchanged /\ UNCHANGED <<check, audit, heard>>

\* Mutant: NetmikoError ends the loop.
NetmikoErrorBreaks(k, o) ==
  /\ run[k].pc = "loop"
  /\ o \in run[k].todo
  /\ run' = [run EXCEPT ![k].todo = {}]
  /\ Unchanged /\ UNCHANGED <<check, audit, heard>>

\* The device does not answer, or not in time.
NetmikoError(k, o) ==
  /\ run[k].pc = "loop"
  /\ o \in run[k].todo
  /\ Meets(k, o, "error", "")
  /\ Unchanged /\ UNCHANGED <<check, audit, heard>>

\* Mutant: the insert is skipped when the row cannot be stored.
CreateCheckOrSkip(k) ==
  LET row == run[k].cur IN
  /\ run[k].pc = "insert"
  /\ run' = [run EXCEPT ![k].pc = "loop", ![k].cur = None]
  /\ check' = IF HasDevice(k) /\ row.pk \in Pk THEN check \cup {row} ELSE check
  /\ Unchanged /\ UNCHANGED <<audit, heard>>

\* Mutant: the insert is tried again until it succeeds.
CreateCheckAgain(k) ==
  LET row == run[k].cur IN
  /\ run[k].pc = "insert"
  /\ HasDevice(k)
  /\ row.pk \in Pk
  /\ check' = check \cup {row}
  /\ run' = [run EXCEPT ![k].pc = "loop", ![k].cur = None,
               ![k].results = @ \cup {[pk |-> row.pk, status |-> row.status]}]
  /\ Unchanged /\ UNCHANGED <<audit, heard>>

\* Outside the try: IntegrityError when the device or the rule is gone ends the
\* task, with the rules behind it unchecked and no audit row.
CreateCheck(k) ==
  LET row == run[k].cur IN
  /\ run[k].pc = "insert"
  /\ IF HasDevice(k) /\ row.pk \in Pk
       THEN /\ check' = check \cup {row}
            /\ run' = [run EXCEPT ![k].pc = "loop", ![k].cur = None,
                         ![k].results = @ \cup {[pk |-> row.pk, status |-> row.status]}]
       ELSE /\ Ends(k, "raised")
            /\ UNCHANGED check
  /\ Unchanged /\ UNCHANGED <<audit, heard>>

\* AuditLog.objects.create, which refers to the device too.
CreateAudit(k) ==
  /\ run[k].pc = "loop"
  /\ run[k].todo = {}
  /\ IF HasDevice(k)
       THEN /\ audit' = [audit EXCEPT ![k] = run[k].results]
            /\ Ends(k, "done")
       ELSE /\ Ends(k, "raised")
            /\ UNCHANGED audit
  /\ Unchanged /\ UNCHANGED <<check, heard>>

-----------------------------------------------------------------------------
Task(k) ==
  \/ FetchDevice(k) \/ FetchRules(k)
  \/ \E o \in run[k].todo : NetmikoError(k, o) \/ \E line \in Line : SendCommand(k, o, line)
  \/ CreateCheck(k) \/ CreateAudit(k)

Next ==
  \/ Boot
  \/ \E d \in Device : AddDevice(d) \/ DeleteDevice(d)
  \/ \E row \in RuleRow : CreateRule(row)
  \/ \E k \in Pk : DeleteRule(k) \/ \E row \in RuleRow : PatchRead(k, row)
  \/ PatchSave
  \/ \E k \in Run, d \in Device, ids \in Filter : RunCompliance(k, d, ids)
  \/ \E k \in Run : Task(k)

Spec == Init /\ [][Next]_vars

\* The containers boot and the worker works; users need do nothing.
FairSpec ==
  /\ Spec
  /\ \A c \in Container : WF_vars(Entrypoint(c) /\ EndsExecution)
  /\ \A k \in Run : WF_vars(Task(k))

-----------------------------------------------------------------------------
(* Properties                                                              *)

\* The audit row of a run lists each rule that was active when the run began,
\* once, and each listed result is the ComplianceCheck row of this run as long
\* as its device and its rule are not deleted: one rule that cannot be checked
\* keeps no other from being checked.
AuditMatchesChecks ==
  \A k \in Run : audit[k] # None =>
    /\ {r.pk : r \in audit[k]} = {o.pk : o \in run[k].asked}
    /\ HasDevice(k) => \A r \in audit[k] : r.pk \notin dropped =>
         {c.status : c \in {c \in check : c.run = k /\ c.pk = r.pk}} = {r.status}

\* A verdict is the rule's text, as the run fetched it, applied to what the
\* device printed: a device that is not reached, or a pattern that cannot be
\* applied, is an error, also where finding nothing would be compliance.  Edits
\* and seeding under a running check change no verdict.
VerdictsAreHeard ==
  \A c \in check :
    IF c.status = "error" THEN c.output = ""
    ELSE /\ <<c.run, c.pk, c.output>> \in heard
         /\ \E o \in run[c.run].asked : o.pk = c.pk /\
              (c.status = "compliant" <=>
                 IF Says(o.text).must THEN c.output \in Says(o.text).finds
                                      ELSE c.output \notin Says(o.text).finds)

\* Whether a rule is active is what users made it, however often seeding runs.
SwitchKept ==
  [][\A k \in Pk : rule'[k] # None /\ rule'[k].active # rule[k].active => patch.pk = k]_vars

\* A requested check ends, in an audit row or an exception or with its worker,
\* unless the worker cannot come up any more.
RunEnds == \A k \in Run : []<>(run[k].pc \in {"idle"} \cup Ended \/ Torn)

\* security/README.md:177: the remediation of a rule can be pushed to fix it.  So
\* a check that reads what the remediation leaves finds the device compliant.
RemediedComplies ==
  \A c \in check : \A o \in run[c.run].asked :
    /\ o.pk = c.pk
    /\ o.text \in Builtin
    /\ c.status # "error"
    /\ c.output = BUILTIN_RULES[o.text].remedied
    => c.status = "compliant"
=============================================================================
