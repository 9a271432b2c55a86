------------------------------ MODULE TaskInfo ------------------------------
(* The report of a task, class TaskInfo of vnftest/core/task.py, as a value  *)
(* and the operators that its methods apply to it.  Test cases run one after *)
(* the other, so the dictionaries that find a test case, a step or a context *)
(* by its name always lead to an entry of the last test case: an entry is    *)
(* denoted by its place there, and the name of a test case by its place in   *)
(* the suite.                                                                *)
EXTENDS Naturals, Sequences

NewStep == [criteria |-> "N/A", status |-> "NOT_STARTED"]
NewContext == "IN_PROGRESS"
NewCase(name) == [name |-> name, criteria |-> "N/A", status |-> "IN_PROGRESS",
                  steps |-> <<>>, contexts |-> <<>>]
NewInfo == [criteria |-> "N/A", status |-> "IN_PROGRESS", cases |-> <<>>]

Now(info) == Len(info.cases)
CurrentCase(info) == info.cases[Now(info)]

Settle(entry, criteria) == [entry EXCEPT !.criteria = criteria, !.status = "FINISHED"]
SettleCase(info, criteria) == [info EXCEPT !.cases[Now(info)] = Settle(@, criteria)]

(* testcase_start(), and step_add() for each step *)
CaseStart(info, name, steps) ==
  [info EXCEPT !.cases = Append(@, [NewCase(name) EXCEPT !.steps = [s \in 1 .. steps |-> NewStep]])]

CaseFatalOpen(info) == [info EXCEPT !.cases[Now(info)].status = "FINISHED"]     \* variant
CaseFatal(info) == SettleCase(info, "FATAL")

HasFailedStep(case) == \E s \in DOMAIN case.steps : case.steps[s].criteria = "FAIL"
CaseVerdict(case) == IF HasFailedStep(case) THEN "FAIL" ELSE "PASS"
CaseEnd(info) == IF CurrentCase(info).criteria = "N/A"
                 THEN SettleCase(info, CaseVerdict(CurrentCase(info)))
                 ELSE info

StepStart(info, s) == [info EXCEPT !.cases[Now(info)].steps[s].status = "IN_PROGRESS"]
StepEnd(info, s, hasErrors) ==
  [info EXCEPT !.cases[Now(info)].steps[s] = Settle(@, IF hasErrors THEN "FAIL" ELSE "PASS")]

ContextStart(info) == [info EXCEPT !.cases[Now(info)].contexts = Append(@, NewContext)]
ContextEndForgets(info) == info                                    \* variant
ContextEnd(info) ==
  [info EXCEPT !.cases[Now(info)].contexts = [@ EXCEPT ![Len(@)] = "FINISHED"]]

TaskFatal(info) == Settle(info, "FATAL")

BadCaseFailOnly(case) == case.criteria = "FAIL"                    \* variant
BadCase(case) == case.criteria \in {"FAIL", "FATAL"}
TaskVerdict(info) ==
  IF \E c \in DOMAIN info.cases : BadCase(info.cases[c]) THEN "FAIL" ELSE "PASS"
TaskEnd(info) == IF info.criteria = "N/A" THEN Settle(info, TaskVerdict(info)) ELSE info

Criteria == {"N/A", "PASS", "FAIL", "FATAL"}
Status == {"NOT_STARTED", "IN_PROGRESS", "FINISHED"}
StepReport == [criteria : Criteria, status : Status]
CaseReport == [name : Nat, criteria : Criteria, status : Status, steps : Seq(StepReport),
               contexts : Seq(Status)]
Report == [criteria : Criteria, status : Status, cases : Seq(CaseReport)]
=============================================================================
