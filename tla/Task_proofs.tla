----------------------------- MODULE Task_proofs -----------------------------
(* Proofs about Task for suites of any length and shape, any numbers of      *)
(* steps and contexts, and any outcome of every worker.                      *)
EXTENDS Task, SequenceTheorems, TLAPS

(* The places of the main process inside the loop over the test cases, and   *)
(* inside one test case.                                                     *)
InLoop == {"parse", "case", "deploy", "start", "join", "undeploy"}
InCase == InLoop \ {"parse"}

PlaceInv ==
  /\ i <= Len(suite) + 1 /\ k >= 1
  /\ pc \in InCase => /\ i <= Len(suite) /\ suite[i].meets
                      /\ contexts = [n \in 1 .. suite[i].contexts |-> <<i, n>>]
  /\ pc \in {"case", "parse"} => k = 1
  /\ pc \in {"deploy", "undeploy", "exitUndeploy"} => k <= Len(contexts) + 1
  /\ pc \in {"start", "join"} => k <= Len(Steps) + 1
  /\ pc = "join" /\ ~ suite[i].parallel => k <= Len(Steps)

(* What is deployed is still to be undeployed from the n-th context on.      *)
ToUndeploy(n) == \A c \in Deployed : \E m \in n .. Len(contexts) : contexts[m] = c
ContextInv ==
  ~ keep /\ ~ spoilt =>
    /\ pc \in {"parse", "output", "exit", "gone"} => Deployed = {}
    /\ pc \in {"case", "deploy", "start", "join", "atexit"} => ToUndeploy(1)
    /\ pc \in {"undeploy", "exitUndeploy"} => ToUndeploy(k)

(* The steps that were started lie behind the place the loops are at.        *)
Started(id) == proc[id] # "none"
Behind(id) ==
  \/ id[1] < i
  \/ id[1] = i /\ \/ pc = "start" /\ id[2] < k
                  \/ pc = "join" /\ (suite[i].parallel \/ id[2] <= k)
                  \/ pc = "undeploy"
StartInv == pc \in InLoop => \A id \in Id : Started(id) => Behind(id)

(* In a serial suite every worker but the one that is waited for has ended,  *)
(* and has left its outputs.                                                 *)
Awaited(id) == pc = "join" /\ id = <<i, k>>
SerialInv ==
  Serial =>
    /\ pc \notin {"atexit", "exitUndeploy", "exit"} =>
         \A id \in Id : Alive(id) => Awaited(id)
    /\ pc \in InLoop => \A id \in Id : Started(id) /\ ~ Awaited(id) => id \in outputs

(* Outputs come from workers that were started.                              *)
DataInv == \A id \in inputs \cup outputs : Started(id)

(* A report of a test case that is settled, unless an interrupt came in it,  *)
(* and what a PASS tells of it.                                              *)
Clean(e) ==
  /\ Len(e.contexts) = suite[e.name].contexts
  /\ Len(e.steps) = Len(suite[e.name].steps)
  /\ \A s \in DOMAIN suite[e.name].steps : SuccessfulStep(<<e.name, s>>)
Closed(e) ==
  /\ e.name \in DOMAIN suite
  /\ e.name \notin struck => /\ e.criteria # "N/A" /\ e.status = "FINISHED"
                            /\ \A d \in DOMAIN e.contexts : e.contexts[d] = "FINISHED"
  /\ e.criteria = "PASS" => Clean(e)

(* The report of the test case that runs: the steps before the n-th one that *)
(* were reported have failed, or have been successful.                       *)
ReportedBefore(e, n) ==
  \A s \in 1 .. n - 1 : e.steps[s].criteria = "FAIL" \/ SuccessfulStep(<<i, s>>)
Open(e) ==
  /\ e.criteria = "N/A" /\ Len(e.steps) = Len(Steps)
  /\ \A d \in DOMAIN e.contexts : e.contexts[d] = "FINISHED"
  /\ Len(e.contexts) = IF pc = "deploy" THEN k - 1 ELSE suite[i].contexts
  /\ pc = "join" \/ (pc = "start" /\ ~ suite[i].parallel) => ReportedBefore(e, k)

(* The names of the reports: those of the cases that met, in their order,    *)
(* but for one that an interrupt came in before it was told of.              *)
Reports(cases, n) == \A c \in DOMAIN suite \ struck :
                       c < n /\ suite[c].meets => \E m \in DOMAIN cases : cases[m].name = c
Behindhand == pc = "undeploy" /\ i \in struck /\ \A n \in DOMAIN info.cases : info.cases[n].name < i
NamesInv ==
  pc \in InLoop =>
    /\ InOrder(info.cases)
    /\ Reports(info.cases, i)
    /\ pc \in {"parse", "case"} => \A n \in DOMAIN info.cases : info.cases[n].name < i
    /\ pc \notin {"parse", "case"} => \/ info.cases # <<>> /\ CurrentCase(info).name = i
                                      \/ Behindhand
InfoInv ==
  pc \in InLoop =>
    /\ info.criteria = "N/A"
    /\ \A n \in DOMAIN info.cases : (pc \in InRun /\ n = Now(info)) \/ Closed(info.cases[n])
    /\ pc \in InRun => Open(CurrentCase(info))

(* A report of the task that may be published.                               *)
Good(r) ==
  /\ r.criteria # "N/A"
  /\ \A n \in DOMAIN r.cases : Closed(r.cases[n])
  /\ r.criteria = "PASS" => /\ InOrder(r.cases) /\ Reports(r.cases, Len(suite) + 1)
                            /\ \A n \in DOMAIN r.cases : \/ r.cases[n].criteria = "PASS"
                                                       \/ r.cases[n].name \in struck
PublishedInv == /\ pc = "output" => Good(info)
                /\ IsPublished => Good(published)

IInv == /\ TypeOK /\ PlaceInv /\ ContextInv /\ StartInv /\ SerialInv
        /\ DataInv /\ OutputsAreChained /\ NamesInv /\ InfoInv /\ PublishedInv

(***************************** the report ***********************************)

(* x is the report r with e for its last test case.                          *)
Replaces(x, r, e) ==
  /\ x \in Report /\ x.criteria = r.criteria /\ x.status = r.status
  /\ Len(x.cases) = Len(r.cases) /\ x.cases[Len(r.cases)] = e
  /\ \A n \in 1 .. Len(r.cases) - 1 : x.cases[n] = r.cases[n]

(* The parts of a report.                                                    *)
LEMMA ReportType ==
  ASSUME NEW r \in Report
  PROVE  /\ r.criteria \in Criteria /\ r.status \in Status /\ r.cases \in Seq(CaseReport)
         /\ Len(r.cases) \in Nat /\ DOMAIN r.cases = 1 .. Len(r.cases)
         /\ \A n \in 1 .. Len(r.cases) : r.cases[n] \in CaseReport
<1>1. r.criteria \in Criteria /\ r.status \in Status /\ r.cases \in Seq(CaseReport)
  BY DEF Report
<1> QED
  BY <1>1, LenProperties, ElementOfSeq

(* The parts of the report of a test case.                                   *)
LEMMA CaseType ==
  ASSUME NEW e \in CaseReport
  PROVE  /\ e.name \in Nat /\ e.criteria \in Criteria /\ e.status \in Status
         /\ e.steps \in Seq(StepReport) /\ e.contexts \in Seq(Status)
         /\ Len(e.steps) \in Nat /\ DOMAIN e.steps = 1 .. Len(e.steps)
         /\ Len(e.contexts) \in Nat /\ DOMAIN e.contexts = 1 .. Len(e.contexts)
<1>1. /\ e.name \in Nat /\ e.criteria \in Criteria /\ e.status \in Status
      /\ e.steps \in Seq(StepReport) /\ e.contexts \in Seq(Status)
  BY DEF CaseReport
<1> QED
  BY <1>1, LenProperties

(* The methods of TaskInfo that are about a test case replace its report,    *)
(* the last, and leave the others alone:                                     *)
LEMMA SetLast ==
  ASSUME NEW r \in Report, Len(r.cases) # 0, NEW e \in CaseReport
  PROVE  Replaces([r EXCEPT !.cases = [r.cases EXCEPT ![Len(r.cases)] = e]], r, e)
<1> DEFINE cs == [r.cases EXCEPT ![Len(r.cases)] = e]
<1>1. Len(r.cases) \in 1 .. Len(r.cases) /\ Len(r.cases) \in Nat
  BY ReportType
<1>2. /\ cs \in Seq(CaseReport) /\ Len(cs) = Len(r.cases)
      /\ \A n \in 1 .. Len(r.cases) : cs[n] = IF n = Len(r.cases) THEN e ELSE r.cases[n]
  BY <1>1, ReportType, ExceptSeq
<1> HIDE DEF cs
<1>3. [r EXCEPT !.cases = cs] \in Report
  BY <1>2, ReportType DEF Report
<1>4. /\ [r EXCEPT !.cases = cs].cases = cs /\ [r EXCEPT !.cases = cs].criteria = r.criteria
      /\ [r EXCEPT !.cases = cs].status = r.status
  BY DEF Report
<1> QED
  BY <1>1, <1>2, <1>3, <1>4 DEF Replaces, cs

(* Settling an entry changes nothing but its criteria and its status.        *)
LEMMA SettleType ==
  ASSUME NEW e \in CaseReport, NEW v \in Criteria
  PROVE  /\ Settle(e, v) \in CaseReport
         /\ Settle(e, v).criteria = v /\ Settle(e, v).status = "FINISHED"
         /\ Settle(e, v).name = e.name /\ Settle(e, v).steps = e.steps
         /\ Settle(e, v).contexts = e.contexts
  BY DEF Settle, CaseReport, Status

(* with a verdict at its end,                                                *)
LEMMA SettleCaseReplaces ==
  ASSUME NEW r \in Report, Len(r.cases) # 0, NEW v \in Criteria
  PROVE  Replaces(SettleCase(r, v), r, Settle(CurrentCase(r), v))
<1>1. CurrentCase(r) \in CaseReport
  BY ReportType DEF CurrentCase, Now
<1>2. Settle(CurrentCase(r), v) \in CaseReport
  BY <1>1, SettleType
<1>3. SettleCase(r, v) =
        [r EXCEPT !.cases = [r.cases EXCEPT ![Len(r.cases)] = Settle(CurrentCase(r), v)]]
  BY DEF SettleCase, CurrentCase, Now
<1> QED
  BY <1>2, <1>3, SetLast

(* The steps that are added to a new test case.                              *)
LEMMA CaseStartAppends ==
  ASSUME NEW r \in Report, NEW name \in Nat, NEW n \in Nat
  PROVE  \E e \in CaseReport :
           /\ e.name = name /\ e.criteria = "N/A" /\ e.contexts = <<>>
           /\ Len(e.steps) = n /\ \A s \in 1 .. n : e.steps[s].criteria = "N/A"
           /\ CaseStart(r, name, n).cases = Append(r.cases, e)
           /\ CaseStart(r, name, n) \in Report
           /\ CaseStart(r, name, n).criteria = r.criteria
           /\ CaseStart(r, name, n).status = r.status
<1> DEFINE steps == [s \in 1 .. n |-> NewStep]
           e == [NewCase(name) EXCEPT !.steps = steps]
<1>1. steps \in Seq(StepReport) /\ Len(steps) = n
  <2>1. NewStep \in StepReport
    BY DEF NewStep, StepReport, Criteria, Status
  <2>2. steps \in [1 .. n -> StepReport]
    BY <2>1
  <2> HIDE DEF steps
  <2> QED
    BY <2>2, SeqDef
<1>2. \A s \in 1 .. n : steps[s].criteria = "N/A"
  BY DEF NewStep
<1> HIDE DEF steps
<1>3. /\ e \in CaseReport /\ e.name = name /\ e.criteria = "N/A" /\ e.contexts = <<>>
      /\ e.steps = steps
  <2>1. <<>> \in Seq(Status)
    OBVIOUS
  <2> QED
    BY <1>1, <2>1 DEF NewCase, CaseReport, Criteria, Status
<1>4. CaseStart(r, name, n) = [r EXCEPT !.cases = Append(r.cases, e)]
  BY DEF CaseStart, steps
<1> HIDE DEF e
<1>5. Append(r.cases, e) \in Seq(CaseReport)
  BY <1>3, ReportType, AppendProperties
<1> QED
  BY <1>1, <1>2, <1>3, <1>4, <1>5, ReportType DEF Report

(* with a step that runs,                                                    *)
LEMMA StepStartReplaces ==
  ASSUME NEW r \in Report, Len(r.cases) # 0, NEW s \in 1 .. Len(CurrentCase(r).steps)
  PROVE  \E e \in CaseReport :
           /\ Replaces(StepStart(r, s), r, e)
           /\ e.name = CurrentCase(r).name /\ e.criteria = CurrentCase(r).criteria
           /\ e.status = CurrentCase(r).status
           /\ e.contexts = CurrentCase(r).contexts /\ Len(e.steps) = Len(CurrentCase(r).steps)
           /\ \A t \in 1 .. Len(e.steps) : e.steps[t].criteria = CurrentCase(r).steps[t].criteria
<1> DEFINE case == CurrentCase(r)
           step == [case.steps[s] EXCEPT !.status = "IN_PROGRESS"]
           steps == [case.steps EXCEPT ![s] = step]
           e == [case EXCEPT !.steps = steps]
<1>1. case \in CaseReport
  BY ReportType DEF CurrentCase, Now
<1>2. case.steps \in Seq(StepReport) /\ case.steps[s] \in StepReport
  BY <1>1, CaseType, ElementOfSeq
<1>3. step \in StepReport /\ step.criteria = case.steps[s].criteria
  BY <1>2 DEF StepReport, Status
<1>4. StepStart(r, s) = [r EXCEPT !.cases = [r.cases EXCEPT ![Len(r.cases)] = e]]
  BY DEF StepStart, CurrentCase, Now
<1> HIDE DEF step
<1>5. /\ steps \in Seq(StepReport) /\ Len(steps) = Len(case.steps)
      /\ \A t \in 1 .. Len(case.steps) : steps[t] = IF t = s THEN step ELSE case.steps[t]
  BY <1>2, <1>3, ExceptSeq
<1> HIDE DEF steps
<1>6. /\ e \in CaseReport /\ e.steps = steps /\ e.name = case.name
      /\ e.criteria = case.criteria /\ e.status = case.status /\ e.contexts = case.contexts
  BY <1>1, <1>5 DEF CaseReport
<1> HIDE DEF e, case
<1>7. Replaces(StepStart(r, s), r, e)
  BY <1>4, <1>6, SetLast
<1>8. \A t \in 1 .. Len(e.steps) : e.steps[t].criteria = case.steps[t].criteria
  BY <1>3, <1>5, <1>6
<1> QED
  BY <1>5, <1>6, <1>7, <1>8 DEF case

(* and with a step that has a verdict.                                       *)
LEMMA StepEndReplaces ==
  ASSUME NEW r \in Report, Len(r.cases) # 0, NEW s \in 1 .. Len(CurrentCase(r).steps),
         NEW hasErrors \in BOOLEAN
  PROVE  \E e \in CaseReport :
           /\ Replaces(StepEnd(r, s, hasErrors), r, e)
           /\ e.name = CurrentCase(r).name /\ e.criteria = CurrentCase(r).criteria
           /\ e.status = CurrentCase(r).status
           /\ e.contexts = CurrentCase(r).contexts /\ Len(e.steps) = Len(CurrentCase(r).steps)
           /\ e.steps[s].criteria = IF hasErrors THEN "FAIL" ELSE "PASS"
           /\ \A t \in 1 .. Len(e.steps) : t # s => e.steps[t] = CurrentCase(r).steps[t]
<1> DEFINE case == CurrentCase(r)
           step == Settle(case.steps[s], IF hasErrors THEN "FAIL" ELSE "PASS")
           steps == [case.steps EXCEPT ![s] = step]
           e == [case EXCEPT !.steps = steps]
<1>1. case \in CaseReport
  BY ReportType DEF CurrentCase, Now
<1>2. case.steps \in Seq(StepReport) /\ case.steps[s] \in StepReport
  BY <1>1, CaseType, ElementOfSeq
<1>3. step \in StepReport /\ step.criteria = IF hasErrors THEN "FAIL" ELSE "PASS"
  BY <1>2 DEF Settle, StepReport, Status, Criteria
<1>4. StepEnd(r, s, hasErrors) = [r EXCEPT !.cases = [r.cases EXCEPT ![Len(r.cases)] = e]]
  BY DEF StepEnd, CurrentCase, Now
<1> HIDE DEF step
<1>5. /\ steps \in Seq(StepReport) /\ Len(steps) = Len(case.steps)
      /\ \A t \in 1 .. Len(case.steps) : steps[t] = IF t = s THEN step ELSE case.steps[t]
  BY <1>2, <1>3, ExceptSeq
<1> HIDE DEF steps
<1>6. /\ e \in CaseReport /\ e.steps = steps /\ e.name = case.name
      /\ e.criteria = case.criteria /\ e.status = case.status /\ e.contexts = case.contexts
  BY <1>1, <1>5 DEF CaseReport
<1> HIDE DEF e, case
<1>7. Replaces(StepEnd(r, s, hasErrors), r, e)
  BY <1>4, <1>6, SetLast
<1> QED
  BY <1>3, <1>5, <1>6, <1>7 DEF case

(* context_deploy_start() and context_deploy_end() add a finished context.   *)
LEMMA ContextReplaces ==
  ASSUME NEW r \in Report, Len(r.cases) # 0
  PROVE  \E e \in CaseReport :
           /\ Replaces(ContextEnd(ContextStart(r)), r, e)
           /\ e.name = CurrentCase(r).name /\ e.criteria = CurrentCase(r).criteria
           /\ e.status = CurrentCase(r).status /\ e.steps = CurrentCase(r).steps
           /\ Len(e.contexts) = Len(CurrentCase(r).contexts) + 1
           /\ e.contexts[Len(e.contexts)] = "FINISHED"
           /\ \A d \in 1 .. Len(e.contexts) - 1 : e.contexts[d] = CurrentCase(r).contexts[d]
<1> DEFINE case == CurrentCase(r)
           begun == Append(case.contexts, NewContext)
           b == [case EXCEPT !.contexts = begun]
           ended == [begun EXCEPT ![Len(begun)] = "FINISHED"]
           e == [case EXCEPT !.contexts = ended]
           x == ContextStart(r)
<1>1. case \in CaseReport
  BY ReportType DEF CurrentCase, Now
<1>2. case.contexts \in Seq(Status) /\ NewContext \in Status /\ "FINISHED" \in Status
  BY <1>1, CaseType DEF NewContext, Status
<1>3. x = [r EXCEPT !.cases = [r.cases EXCEPT ![Len(r.cases)] = b]]
  BY DEF ContextStart, CurrentCase, Now
<1>4. /\ begun \in Seq(Status) /\ Len(begun) = Len(case.contexts) + 1
      /\ \A d \in 1 .. Len(case.contexts) : begun[d] = case.contexts[d]
  BY <1>2, AppendProperties
<1> HIDE DEF begun
<1>5. /\ ended \in Seq(Status) /\ Len(ended) = Len(begun) /\ ended[Len(begun)] = "FINISHED"
      /\ \A d \in 1 .. Len(begun) : d # Len(begun) => ended[d] = begun[d]
  <2>1. Len(begun) \in 1 .. Len(begun)
    BY <1>1, <1>4, CaseType
  <2> QED
    BY <1>2, <1>4, <2>1, ExceptSeq
<1>6. b \in CaseReport /\ b.contexts = begun
  BY <1>1, <1>4 DEF CaseReport
<1> HIDE DEF b, x
<1>7. Replaces(x, r, b)
  BY <1>3, <1>6, SetLast
<1>8. /\ ContextEnd(x) = [x EXCEPT !.cases = [x.cases EXCEPT ![Len(r.cases)] = e]]
  <2>1. Now(x) = Len(r.cases) /\ x.cases[Len(r.cases)] = b
    BY <1>7 DEF Replaces, Now
  <2>2. ContextEnd(x) = [x EXCEPT !.cases = [x.cases EXCEPT ![Now(x)] =
                           [x.cases[Now(x)] EXCEPT !.contexts =
                              [x.cases[Now(x)].contexts EXCEPT
                                 ![Len(x.cases[Now(x)].contexts)] = "FINISHED"]]]]
    BY DEF ContextEnd
  <2>3. [b EXCEPT !.contexts = ended] = e
    BY <1>1 DEF b, CaseReport
  <2> QED
    BY <1>6, <2>1, <2>2, <2>3
<1> HIDE DEF ended
<1>9. /\ e \in CaseReport /\ e.contexts = ended /\ e.name = case.name
      /\ e.criteria = case.criteria /\ e.status = case.status /\ e.steps = case.steps
  BY <1>1, <1>5 DEF CaseReport
<1> HIDE DEF e, case
<1>10. Replaces(ContextEnd(x), x, e)
  BY <1>7, <1>8, <1>9, SetLast DEF Replaces
<1>11. Replaces(ContextEnd(x), r, e)
  BY <1>7, <1>10 DEF Replaces
<1> QED
  BY <1>4, <1>5, <1>9, <1>11 DEF case, x

(* context_deploy_start() alone leaves an open one.                          *)
LEMMA ContextStartReplaces ==
  ASSUME NEW r \in Report, Len(r.cases) # 0
  PROVE  \E e \in CaseReport : Replaces(ContextStart(r), r, e) /\ e.name = CurrentCase(r).name
<1> DEFINE case == CurrentCase(r)
           begun == Append(case.contexts, NewContext)
           b == [case EXCEPT !.contexts = begun]
<1>1. case \in CaseReport
  BY ReportType DEF CurrentCase, Now
<1>2. begun \in Seq(Status)
  BY <1>1, CaseType, AppendProperties DEF NewContext, Status
<1>3. ContextStart(r) = [r EXCEPT !.cases = [r.cases EXCEPT ![Len(r.cases)] = b]]
  BY DEF ContextStart, CurrentCase, Now
<1> HIDE DEF begun
<1>4. b \in CaseReport /\ b.name = case.name
  BY <1>1, <1>2 DEF CaseReport
<1> HIDE DEF b
<1> QED
  BY <1>3, <1>4, SetLast

(* What is done to a report whose last test case is at hand.                 *)
LEMMA ReplacesSelf ==
  ASSUME NEW r \in Report, Len(r.cases) # 0
  PROVE  CurrentCase(r) \in CaseReport /\ Replaces(r, r, CurrentCase(r))
  BY ReportType DEF Replaces, CurrentCase, Now

(* Two such changes are one,                                                 *)
LEMMA ReplacesTwice ==
  ASSUME NEW r, NEW x, NEW y, NEW d, NEW e, Replaces(x, r, d), Replaces(y, x, e)
  PROVE  Replaces(y, r, e)
  BY DEF Replaces

(* and the new report is the one of the test case at hand.                   *)
LEMMA ReplacesCurrent ==
  ASSUME NEW r \in Report, Len(r.cases) # 0, NEW x, NEW e, Replaces(x, r, e)
  PROVE  x \in Report /\ Len(x.cases) # 0 /\ CurrentCase(x) = e
  BY DEF Replaces, CurrentCase, Now

(* The end of a test case: what it was, or its verdict if it had none.       *)
LEMMA CaseEndReplaces ==
  ASSUME NEW r \in Report, Len(r.cases) # 0
  PROVE  \E e \in CaseReport :
           /\ Replaces(CaseEnd(r), r, e)
           /\ e = IF CurrentCase(r).criteria = "N/A"
                  THEN Settle(CurrentCase(r), CaseVerdict(CurrentCase(r))) ELSE CurrentCase(r)
<1>1. CaseVerdict(CurrentCase(r)) \in Criteria
  BY DEF CaseVerdict, Criteria
<1>2. Settle(CurrentCase(r), CaseVerdict(CurrentCase(r))) \in CaseReport
  BY <1>1, ReplacesSelf, SettleType
<1> QED
  BY <1>1, <1>2, ReplacesSelf, SettleCaseReplaces DEF CaseEnd

(* A test case that raises is fatal, and its end does not change that.       *)
LEMMA RaisedReplaces ==
  ASSUME NEW r \in Report, Len(r.cases) # 0
  PROVE  \E e \in CaseReport : /\ Replaces(CaseEnd(CaseFatal(r)), r, e)
                               /\ e = Settle(CurrentCase(r), "FATAL")
<1> DEFINE e == Settle(CurrentCase(r), "FATAL")
<1>1. e \in CaseReport /\ e.criteria = "FATAL"
  BY ReplacesSelf, SettleType DEF Criteria
<1>2. Replaces(CaseFatal(r), r, e)
  BY SettleCaseReplaces DEF CaseFatal, Criteria
<1> HIDE DEF e
<1>3. CurrentCase(CaseFatal(r)) = e
  BY <1>2, ReplacesCurrent
<1>4. CaseEnd(CaseFatal(r)) = CaseFatal(r)
  BY <1>1, <1>3 DEF CaseEnd
<1> QED
  BY <1>1, <1>2, <1>4 DEF e

(* The end of the task, of which only the verdict and the status change.     *)
LEMMA TaskEndType ==
  ASSUME NEW r \in Report
  PROVE  /\ TaskEnd(r) \in Report /\ TaskEnd(r).cases = r.cases /\ TaskEnd(r).criteria # "N/A"
         /\ r.criteria = "N/A" /\ TaskEnd(r).criteria = "PASS" =>
              \A n \in DOMAIN r.cases : ~ BadCase(r.cases[n])
         /\ r.criteria # "N/A" => TaskEnd(r) = r
<1>1. TaskVerdict(r) \in {"FAIL", "PASS"}
  BY DEF TaskVerdict
<1>2. /\ Settle(r, TaskVerdict(r)) \in Report /\ Settle(r, TaskVerdict(r)).cases = r.cases
      /\ Settle(r, TaskVerdict(r)).criteria = TaskVerdict(r)
  BY <1>1 DEF Settle, Report, Criteria, Status
<1>3. TaskVerdict(r) = "PASS" => \A n \in DOMAIN r.cases : ~ BadCase(r.cases[n])
  BY DEF TaskVerdict
<1> QED
  BY <1>1, <1>2, <1>3 DEF TaskEnd

(* When start() raises, the report is settled as FATAL.                      *)
LEMMA TaskRaisedType ==
  ASSUME NEW r \in Report
  PROVE  /\ TaskEnd(TaskFatal(r)) \in Report /\ TaskEnd(TaskFatal(r)).cases = r.cases
         /\ TaskEnd(TaskFatal(r)).criteria = "FATAL"
<1>1. /\ TaskFatal(r) \in Report /\ TaskFatal(r).cases = r.cases
      /\ TaskFatal(r).criteria = "FATAL"
  BY DEF TaskFatal, Settle, Report, Criteria, Status
<1> QED
  BY <1>1, TaskEndType

(***************************** the input ************************************)

(* The parts of a suite.                                                     *)
LEMMA SuiteType ==
  ASSUME suite \in Suites
  PROVE  /\ DOMAIN suite = 1 .. Len(suite) /\ Len(suite) \in Nat /\ Len(suite) <= MaxCases
         /\ MaxCases \in Nat /\ MaxSteps \in Nat /\ MaxContexts \in Nat
         /\ \A c \in 1 .. Len(suite) :
              /\ suite[c].steps \in Seq(StepKind) /\ Len(suite[c].steps) \in Nat
              /\ Len(suite[c].steps) <= MaxSteps
              /\ DOMAIN suite[c].steps = 1 .. Len(suite[c].steps)
              /\ suite[c].parallel \in BOOLEAN
              /\ suite[c].contexts \in 0 .. MaxContexts /\ suite[c].meets \in BOOLEAN
<1>1. suite \in Seq(Case) /\ Len(suite) <= MaxCases
  BY TaskAssumption
<1>2. DOMAIN suite = 1 .. Len(suite) /\ Len(suite) \in Nat
  BY <1>1, LenProperties
<1>3. ASSUME NEW c \in 1 .. Len(suite)
      PROVE  /\ suite[c].steps \in Seq(StepKind) /\ Len(suite[c].steps) \in Nat
             /\ Len(suite[c].steps) <= MaxSteps
             /\ DOMAIN suite[c].steps = 1 .. Len(suite[c].steps)
             /\ suite[c].parallel \in BOOLEAN
             /\ suite[c].contexts \in 0 .. MaxContexts /\ suite[c].meets \in BOOLEAN
  <2>1. suite[c] \in Case
    BY <1>1, ElementOfSeq
  <2>2. suite[c].steps \in Seq(StepKind)
    BY <2>1 DEF Case
  <2> QED
    BY <1>2, <2>1, <2>2, TaskAssumption, LenProperties DEF Case
<1> QED
  BY <1>1, <1>2, <1>3, TaskAssumption

(* Steps and contexts of the suite are known by test case and place.         *)
LEMMA IdType ==
  ASSUME suite \in Suites, NEW c \in 1 .. Len(suite)
  PROVE  /\ \A s \in 1 .. Len(suite[c].steps) : <<c, s>> \in Id
         /\ \A n \in 1 .. suite[c].contexts : <<c, n>> \in ContextId
  BY SuiteType DEF Id, ContextId

(* The contexts of a test case.                                              *)
LEMMA ContextsType ==
  ASSUME suite \in Suites, NEW c \in 1 .. Len(suite), NEW cs,
         cs = [n \in 1 .. suite[c].contexts |-> <<c, n>>]
  PROVE  /\ cs \in Seq(ContextId) /\ Len(cs) = suite[c].contexts
         /\ \A n \in 1 .. Len(cs) : cs[n] = <<c, n>>
<1>1. cs \in [1 .. suite[c].contexts -> ContextId] /\ suite[c].contexts \in Nat
  BY IdType, SuiteType
<1> QED
  BY <1>1, SeqDef

(****************************** the types ***********************************)

(* An interrupt that is lost is handled as a failure of the test case.       *)
LEMMA SwallowEffect ==
  ASSUME Swallow
  PROVE  /\ UNCHANGED <<suite, keep, i, published, contexts, ctx, runners, proc, outcome,
                        inputs, outputs, seen, spoilt>>
         /\ pc \in {"case", "deploy"} /\ pc' = "undeploy" /\ k' = 1
         /\ struck' = struck \cup {i}
         /\ \/ pc = "case" /\ info' \in {info, CaseStart(info, i, 0)}
            \/ pc = "deploy" /\ \E r \in {info, ContextStart(info)} : CaseRaises(r)
  BY DEF Swallow, SwallowedInCase, SwallowedInDeploy, CaseRaises, Goto, inputVars, workerVars,
       dataVars

(* The test cases an interrupt came in become more.                          *)
LEMMA StruckGrows ==
  ASSUME [Next]_vars
  PROVE  struck \subseteq struck' /\ struck' \in {struck, struck \cup {i}}
  BY DEF Next, Interrupt, Swallow, Gone, WorkerExit, vars

(* Every step keeps the types of the places in the loops.                    *)
LEMMA ControlType ==
  ASSUME TypeOK, PlaceInv, [Next]_vars
  PROVE  /\ suite' = suite /\ keep' = keep
         /\ pc' \in {"parse", "case", "deploy", "start", "join", "undeploy", "output",
                     "atexit", "exitUndeploy", "exit", "gone"}
         /\ i' \in 1 .. MaxCases + 1 /\ k' \in Nat /\ spoilt' \in BOOLEAN
         /\ struck' \in SUBSET (1 .. MaxCases + 1)
<1>1. k \in Nat /\ k + 1 \in Nat /\ 1 \in Nat /\ i \in 1 .. MaxCases + 1 /\ MaxCases \in Nat
  BY SuiteType DEF TypeOK
<1>2. i <= Len(suite) => i + 1 \in 1 .. MaxCases + 1
  BY <1>1, SuiteType DEF TypeOK
<1>3. suite' = suite /\ keep' = keep
  <2>1. CASE Main
    BY <2>1 DEF Main, ParseFails, ParseExits, Parse, TaskEnds, CaseBegins, Deploy, AllDeployed,
         StartBackground, StartStep, RunOneStep, AllStarted, JoinStep, JoinBroken, AllJoined,
         KeepContexts, Undeploy, AllUndeployed, Output, TerminateAll, ExitUndeploy,
         ExitUndeployed, Exit, inputVars
  <2> QED
    BY <2>1, SwallowEffect DEF Next, Interrupt, Gone, WorkerExit, vars, inputVars
<1>4. i' \in 1 .. MaxCases + 1
  <2>1. CASE KeepContexts \/ AllUndeployed
    BY <1>2, <2>1 DEF KeepContexts, AllUndeployed, NextCase, PlaceInv, InCase, InLoop
  <2>2. CASE Parse
    BY <1>1, <1>2, <2>2 DEF Parse
  <2>3. CASE Main /\ ~ (KeepContexts \/ AllUndeployed \/ Parse)
    BY <1>1, <2>3 DEF Main, ParseFails, ParseExits, TaskEnds, CaseBegins, Deploy, AllDeployed,
         StartBackground, StartStep, RunOneStep, AllStarted, JoinStep, JoinBroken, AllJoined,
         Undeploy, Output, TerminateAll, ExitUndeploy, ExitUndeployed, Exit
  <2> QED
    BY <1>1, <2>1, <2>2, <2>3, SwallowEffect DEF Next, Interrupt, Gone, WorkerExit, vars
<1>5. spoilt' \in BOOLEAN
  <2>1. spoilt \in BOOLEAN
    BY DEF TypeOK
  <2>2. CASE Undeploy \/ ExitUndeploy
    BY <2>1, <2>2 DEF Undeploy, ExitUndeploy, UndeployContext
  <2>3. CASE Interrupt
    BY <2>3 DEF Interrupt
  <2>4. CASE Main /\ ~ (Undeploy \/ ExitUndeploy)
    BY <2>1, <2>4 DEF Main, ParseFails, ParseExits, Parse, TaskEnds, CaseBegins, Deploy,
         AllDeployed, StartBackground, StartStep, RunOneStep, AllStarted, JoinStep, JoinBroken,
         AllJoined, KeepContexts, AllUndeployed, Output, TerminateAll, ExitUndeployed, Exit
  <2> QED
    BY <2>1, <2>2, <2>3, <2>4, SwallowEffect DEF Next, Gone, WorkerExit, vars
<1>6. /\ k' \in Nat
      /\ pc' \in {"parse", "case", "deploy", "start", "join", "undeploy", "output",
                  "atexit", "exitUndeploy", "exit", "gone"}
  <2>0. pc \in {"parse", "case", "deploy", "start", "join", "undeploy", "output",
                "atexit", "exitUndeploy", "exit", "gone"}
    BY DEF TypeOK
  <2>1. CASE StartBackground \/ StartStep
    <3>1. PICK s, next, n : /\ RunOneStep(s, next, n) /\ next \in {"start", "join"}
                            /\ n \in {1, k, k + 1}
      BY <2>1 DEF StartBackground, StartStep
    <3> QED
      BY <1>1, <3>1 DEF RunOneStep, CaseRaises, Goto
  <2>2. CASE JoinStep
    BY <1>1, <2>2 DEF JoinStep, AfterJoin, CaseRaises, Goto
  <2>3. CASE Undeploy \/ ExitUndeploy
    BY <1>1, <2>3 DEF Undeploy, ExitUndeploy, UndeployContext, TaskRaises, Goto
  <2>4. CASE Deploy
    BY <1>1, <2>4 DEF Deploy, CaseRaises, Goto
  <2>5. CASE CaseBegins
    BY <1>1, <2>5 DEF CaseBegins, CaseRaises, Goto
  <2>6. CASE Main /\ ~ (StartBackground \/ StartStep \/ JoinStep \/ Undeploy \/ ExitUndeploy
                          \/ Deploy \/ CaseBegins)
    BY <1>1, <2>6 DEF Main, ParseFails, ParseExits, Parse, TaskEnds, AllDeployed,
         AllStarted, JoinBroken, AllJoined, KeepContexts, NextCase, AllUndeployed, Output,
         TerminateAll, ExitUndeployed, Exit, TaskRaises, CaseRaises, Goto
  <2> QED
    BY <1>1, <2>0, <2>1, <2>2, <2>3, <2>4, <2>5, <2>6, SwallowEffect
       DEF Next, Interrupt, Gone, WorkerExit, vars, Goto
<1>7. struck' \in SUBSET (1 .. MaxCases + 1)
  BY <1>1, StruckGrows DEF TypeOK
<1> QED
  BY <1>3, <1>4, <1>5, <1>6, <1>7

(* Every step keeps the types of the contexts.                               *)
LEMMA ContextsAreTyped ==
  ASSUME TypeOK, PlaceInv, [Next]_vars
  PROVE  /\ contexts' \in Seq(ContextId)
         /\ ctx' \in [ContextId -> {"none", "created", "deployed", "undeployed"}]
<1>1. contexts \in Seq(ContextId) /\ suite \in Suites
      /\ ctx \in [ContextId -> {"none", "created", "deployed", "undeployed"}]
  BY DEF TypeOK
<1>2. CASE Parse
  <2>1. i \in 1 .. Len(suite)
    BY <1>2, SuiteType DEF Parse, TypeOK
  <2>2. contexts' \in Seq(ContextId)
    BY <1>1, <1>2, <2>1, ContextsType DEF Parse
  <2> QED
    BY <1>1, <1>2, <2>2 DEF Parse
<1>3. CASE Deploy \/ Undeploy \/ ExitUndeploy
  BY <1>1, <1>3 DEF Deploy, Undeploy, ExitUndeploy, UndeployContext
<1>4. CASE KeepContexts \/ AllUndeployed
  <2>1. <<>> \in Seq(ContextId)
    OBVIOUS
  <2> QED
    BY <1>1, <1>4, <2>1 DEF KeepContexts, AllUndeployed
<1>5. CASE Main /\ ~ (Parse \/ Deploy \/ Undeploy \/ ExitUndeploy \/ KeepContexts \/ AllUndeployed)
  BY <1>1, <1>5 DEF Main, ParseFails, ParseExits, TaskEnds, CaseBegins, AllDeployed,
       StartBackground, StartStep, RunOneStep, AllStarted, JoinStep, JoinBroken, AllJoined,
       Output, TerminateAll, ExitUndeployed, Exit
<1> QED
  BY <1>1, <1>2, <1>3, <1>4, <1>5, SwallowEffect DEF Next, Interrupt, Gone, WorkerExit, vars

(* The runners: one more, one less, or every second one.                     *)
LEMMA RunnersAreTyped ==
  ASSUME TypeOK, PlaceInv, [Next]_vars
  PROVE  runners' \in Seq(Id)
<1>1. runners \in Seq(Id) /\ suite \in Suites
  BY DEF TypeOK
<1>2. CASE StartBackground \/ StartStep
  <2>1. \E s \in 1 .. Len(Steps) : \E next, n : RunOneStep(s, next, n)
    <3>1. CASE StartBackground
      <4>1. DOMAIN Steps = 1 .. Len(Steps)
        BY <1>1, <3>1, SuiteType DEF StartBackground, PlaceInv, InCase, InLoop, TypeOK, Steps
      <4> QED
        BY <3>1, <4>1 DEF StartBackground
    <3>2. CASE StartStep
      <4>1. k \in 1 .. Len(Steps)
        BY <1>1, <3>2 DEF StartStep, PlaceInv, TypeOK
      <4>2. \E next, n : RunOneStep(k, next, n)
        BY <3>2 DEF StartStep
      <4> QED
        BY <4>1, <4>2
    <3> QED
      BY <1>2, <3>1, <3>2
  <2>2. PICK s \in 1 .. Len(Steps) : \E next, n : RunOneStep(s, next, n)
    BY <2>1
  <2>3. <<i, s>> \in Id
    <3>1. pc \in {"deploy", "start"}
      BY <1>2 DEF StartBackground, StartStep
    <3>2. i \in 1 .. Len(suite)
      BY <1>1, <3>1, SuiteType DEF PlaceInv, InCase, InLoop, TypeOK
    <3> QED
      BY <1>1, <3>2, IdType DEF Steps
  <2> QED
    BY <1>1, <2>2, <2>3, AppendProperties DEF RunOneStep
<1>3. CASE JoinStep
  <2>1. CASE UNCHANGED runners
    BY <1>1, <2>1
  <2>2. CASE \E n \in DOMAIN runners : runners' = RemoveAt(runners, n)
    <3>1. PICK n \in 1 .. Len(runners) : runners' = RemoveAt(runners, n)
      BY <1>1, <2>2, LenProperties
    <3>2. /\ SubSeq(runners, 1, n - 1) \in Seq(Id)
          /\ SubSeq(runners, n + 1, Len(runners)) \in Seq(Id)
      BY <1>1, LenProperties, SubSeqProperties
    <3> QED
      BY <3>1, <3>2, ConcatProperties DEF RemoveAt
  <2> QED
    BY <1>3, <2>1, <2>2 DEF JoinStep, Joined, Release
<1>4. CASE TerminateAll
  <2>1. Len(runners) \in Nat /\ Len(runners) \div 2 \in Nat
        /\ \A n \in 1 .. Len(runners) \div 2 : 2 * n \in 1 .. Len(runners)
    BY <1>1, LenProperties
  <2>2. runners' \in [1 .. Len(runners) \div 2 -> Id]
    BY <1>1, <1>4, <2>1, ElementOfSeq DEF TerminateAll
  <2> QED
    BY <2>1, <2>2, SeqDef
<1>5. CASE Main /\ ~ (StartBackground \/ StartStep \/ JoinStep \/ TerminateAll)
  BY <1>1, <1>5 DEF Main, ParseFails, ParseExits, Parse, TaskEnds, CaseBegins, Deploy, AllDeployed,
       AllStarted, JoinBroken, AllJoined, KeepContexts, Undeploy, AllUndeployed, Output,
       ExitUndeploy, ExitUndeployed, Exit
<1> QED
  BY <1>1, <1>2, <1>3, <1>4, <1>5, SwallowEffect DEF Next, Interrupt, Gone, WorkerExit, vars

(********************** what the actions come to ****************************)

(* Inside a test case.                                                       *)
LEMMA InCaseType ==
  ASSUME TypeOK, PlaceInv, pc \in InCase
  PROVE  /\ i \in 1 .. Len(suite) /\ i \in Nat
         /\ DOMAIN Steps = 1 .. Len(Steps) /\ Len(Steps) \in Nat
         /\ suite[i].parallel \in BOOLEAN /\ suite[i].contexts \in Nat
         /\ Len(contexts) = suite[i].contexts
         /\ \A n \in 1 .. Len(contexts) : contexts[n] = <<i, n>> /\ <<i, n>> \in ContextId
         /\ \A s \in 1 .. Len(Steps) : <<i, s>> \in Id
<1>1. i \in 1 .. Len(suite) /\ i \in Nat /\ suite \in Suites
  BY SuiteType DEF PlaceInv, TypeOK
<1>2. Len(contexts) = suite[i].contexts /\ \A n \in 1 .. Len(contexts) : contexts[n] = <<i, n>>
  BY <1>1, ContextsType DEF PlaceInv
<1> QED
  BY <1>1, <1>2, SuiteType, IdType DEF Steps

(* The first background step only makes the case raise.                      *)
LEMMA BackgroundEffect ==
  ASSUME TypeOK, PlaceInv, StartBackground
  PROVE  /\ pc = "deploy" /\ \E s \in 1 .. Len(Steps) : CaseRaises(StepStart(info, s))
         /\ UNCHANGED <<i, published, contexts, ctx, spoilt, workerVars, outputs, seen>>
         /\ inputs' = inputs \cup outputs
<1>1. PICK s \in DOMAIN Steps : IsBackground(s) /\ RunOneStep(s, "start", 1)
  BY DEF StartBackground
<1>2. s \in 1 .. Len(Steps) /\ pc = "deploy"
  BY InCaseType DEF StartBackground, InCase, InLoop
<1> QED
  BY <1>1, <1>2 DEF RunOneStep, IsBackground

(* A step is started, unless its runner raises.                              *)
LEMMA StartEffect ==
  ASSUME TypeOK, PlaceInv, StartStep
  PROVE  /\ pc = "start" /\ k \in 1 .. Len(Steps) /\ <<i, k>> \in Id
         /\ UNCHANGED <<i, published, contexts, ctx, spoilt, outcome, outputs>>
         /\ inputs' = inputs \cup outputs
         /\ \/ CaseRaises(StepStart(info, k)) /\ UNCHANGED <<proc, seen>>
            \/ /\ info' = StepStart(info, k)
               /\ proc' \in {proc, [proc EXCEPT ![<<i, k>>] = "alive"]}
               /\ seen' = [seen EXCEPT ![<<i, k>>] = inputs \cup outputs]
               /\ IF suite[i].parallel THEN Goto("start", k + 1) ELSE Goto("join", k)
<1>1. pc = "start" /\ k \in 1 .. Len(Steps) /\ <<i, k>> \in Id
  <2>1. pc = "start" /\ k \in 1 .. Len(Steps)
    BY InCaseType DEF StartStep, PlaceInv, InCase, InLoop, TypeOK
  <2> QED
    BY <2>1, InCaseType DEF InCase, InLoop
<1>2. CASE suite[i].parallel
  <2>1. RunOneStep(k, "start", k + 1)
    BY <1>2 DEF StartStep
  <2>2. CASE Steps[k] \in {"unsupported", "background"}
    BY <1>1, <2>1, <2>2 DEF RunOneStep, workerVars
  <2>3. CASE Steps[k] \notin {"unsupported", "background"}
    BY <1>1, <1>2, <2>1, <2>3 DEF RunOneStep
  <2> QED
    BY <2>2, <2>3
<1>3. CASE ~ suite[i].parallel
  <2>1. RunOneStep(k, "join", k)
    BY <1>3 DEF StartStep
  <2>2. CASE Steps[k] \in {"unsupported", "background"}
    BY <1>1, <2>1, <2>2 DEF RunOneStep, workerVars
  <2>3. CASE Steps[k] \notin {"unsupported", "background"}
    BY <1>1, <1>3, <2>1, <2>3 DEF RunOneStep
  <2> QED
    BY <2>2, <2>3
<1> QED
  BY <1>2, <1>3

(* A step is joined, and its report or its exit code may raise.              *)
LEMMA JoinEffect ==
  ASSUME TypeOK, PlaceInv, JoinStep
  PROVE  /\ pc = "join" /\ k \in 1 .. Len(Steps) /\ <<i, k>> \in Id
         /\ proc[<<i, k>>] = "exited" /\ outputs' = outputs \cup {<<i, k>>}
         /\ UNCHANGED <<i, published, contexts, ctx, spoilt, proc, outcome, inputs, seen>>
         /\ \/ CaseRaises(info) \/ CaseRaises(Reported(k))
            \/ /\ ExitsWithZero(outcome[<<i, k>>]) /\ info' = Reported(k)
               /\ IF suite[i].parallel THEN Goto("join", k + 1) ELSE Goto("start", k + 1)
<1>1. pc = "join" /\ k \in 1 .. Len(Steps) /\ <<i, k>> \in Id
  <2>1. pc = "join" /\ k \in 1 .. Len(Steps)
    BY InCaseType DEF JoinStep, PlaceInv, InCase, InLoop, TypeOK
  <2> QED
    BY <2>1, InCaseType DEF InCase, InLoop
<1>2. \/ CaseRaises(info) \/ CaseRaises(Reported(k))
      \/ /\ ExitsWithZero(outcome[<<i, k>>]) /\ info' = Reported(k)
         /\ IF suite[i].parallel THEN Goto("join", k + 1) ELSE Goto("start", k + 1)
  BY DEF JoinStep, AfterJoin
<1> QED
  BY <1>1, <1>2 DEF JoinStep, Joined, workerVars

(* The actions that leave the workers and the dictionaries alone.            *)
Steady ==
  \/ ParseFails \/ ParseExits \/ TaskEnds \/ CaseBegins \/ Deploy \/ AllDeployed \/ AllStarted
  \/ JoinBroken \/ AllJoined \/ KeepContexts \/ Undeploy \/ AllUndeployed \/ Output
  \/ ExitUndeploy \/ ExitUndeployed \/ Exit \/ Interrupt \/ Swallow

(* Most steps have nothing to do with workers and outputs.                   *)
LEMMA SteadyEffect == Steady => UNCHANGED <<proc, outcome, inputs, outputs, seen>>
  BY SwallowEffect
  DEF Steady, ParseFails, ParseExits, TaskEnds, CaseBegins, Deploy, AllDeployed, AllStarted,
       JoinBroken, AllJoined, KeepContexts, Undeploy, AllUndeployed, Output,
       ExitUndeploy, ExitUndeployed, Exit, Interrupt, workerVars, dataVars

(* Those that have are the starts, the joins and the ends of workers.        *)
LEMMA NextCases ==
  ASSUME [Next]_vars
  PROVE  \/ Steady \/ Parse \/ StartBackground \/ StartStep \/ JoinStep \/ TerminateAll
         \/ (\E id \in Id : WorkerExit(id)) \/ UNCHANGED vars
  BY DEF Next, Main, Gone, Steady

(* Every step keeps the types of the workers.                                *)
LEMMA WorkersAreTyped ==
  ASSUME TypeOK, PlaceInv, [Next]_vars
  PROVE  /\ proc' \in [Id -> {"none", "alive", "exited", "killed"}]
         /\ outcome' \in [Id -> Outcome \cup {"none"}]
         /\ inputs' \in SUBSET Id /\ outputs' \in SUBSET Id
         /\ seen' \in [Id -> SUBSET Id]
<1>1. /\ proc \in [Id -> {"none", "alive", "exited", "killed"}]
      /\ outcome \in [Id -> Outcome \cup {"none"}]
      /\ inputs \in SUBSET Id /\ outputs \in SUBSET Id
      /\ seen \in [Id -> SUBSET Id]
  BY DEF TypeOK
<1>2. CASE Steady
  BY <1>1, <1>2, SteadyEffect
<1>3. CASE Parse
  BY <1>1, <1>3 DEF Parse, workerVars
<1>4. CASE StartBackground
  BY <1>1, <1>4, BackgroundEffect DEF workerVars
<1>5. CASE StartStep
  BY <1>1, <1>5, StartEffect
<1>6. CASE JoinStep
  BY <1>1, <1>6, JoinEffect
<1>7. CASE TerminateAll
  BY <1>1, <1>7 DEF TerminateAll, dataVars
<1>8. ASSUME NEW id \in Id, WorkerExit(id)
      PROVE  /\ proc' \in [Id -> {"none", "alive", "exited", "killed"}]
             /\ outcome' \in [Id -> Outcome \cup {"none"}]
             /\ inputs' = inputs /\ outputs' = outputs /\ seen' = seen
  BY <1>1, <1>8 DEF WorkerExit, dataVars
<1>9. CASE UNCHANGED vars
  BY <1>1, <1>9 DEF vars, workerVars, dataVars
<1> QED
  BY <1>1, <1>2, <1>3, <1>4, <1>5, <1>6, <1>7, <1>8, <1>9, NextCases

(****************************** the places **********************************)

(* Every step keeps the places within the suite.                             *)
LEMMA PlaceInvariant ==
  ASSUME TypeOK, PlaceInv, [Next]_vars
  PROVE  PlaceInv'
<1>0. /\ i \in 1 .. MaxCases + 1 /\ i <= Len(suite) + 1 /\ k \in Nat /\ k >= 1
      /\ Len(suite) \in Nat /\ suite' = suite /\ MaxCases \in Nat /\ Len(contexts) \in Nat
  BY ControlType, SuiteType, LenProperties DEF TypeOK, PlaceInv
<1>1. CASE ParseFails \/ ParseExits \/ TaskEnds \/ Output \/ ExitUndeployed \/ Exit \/ Interrupt
  BY <1>0, <1>1 DEF ParseFails, ParseExits, TaskEnds, Output, ExitUndeployed, Exit, Interrupt,
       TaskRaises, Goto, PlaceInv, InCase, InLoop
<1>2. CASE Parse
  BY <1>0, <1>2, SuiteType DEF Parse, Goto, PlaceInv, InCase, InLoop, TypeOK
<1>3. CASE CaseBegins
  <2>1. i' = i /\ contexts' = contexts /\ pc' \in {"deploy", "undeploy"} /\ k' = 1 /\ pc = "case"
    BY <1>3 DEF CaseBegins, CaseRaises, Goto
  <2> QED
    BY <1>0, <2>1 DEF PlaceInv, InCase, InLoop
<1>4. CASE Deploy \/ AllDeployed \/ AllStarted \/ JoinBroken \/ AllJoined
  <2>1. pc \in {"deploy", "start", "join"} /\ i' = i /\ contexts' = contexts
    BY <1>4 DEF Deploy, AllDeployed, AllStarted, JoinBroken, AllJoined
  <2>2. Len(Steps) \in Nat /\ Len(contexts) \in Nat /\ suite[i].parallel \in BOOLEAN
    BY <2>1, InCaseType DEF InCase, InLoop
  <2>3. \/ pc' = "deploy" /\ k' = k + 1 /\ k <= Len(contexts)
        \/ pc' = "start" /\ k' = 1
        \/ pc' = "join" /\ k' = 1 /\ suite[i].parallel
        \/ pc' = "undeploy" /\ k' = 1
    BY <1>4 DEF Deploy, AllDeployed, AllStarted, JoinBroken, AllJoined, CaseRaises, Goto
  <2>4. Steps' = Steps
    BY <1>0, <2>1 DEF Steps
  <2> QED
    BY <1>0, <2>1, <2>2, <2>3, <2>4 DEF PlaceInv, InCase, InLoop
<1>5. CASE StartBackground \/ StartStep \/ JoinStep
  <2>1. pc \in {"deploy", "start", "join"} /\ i' = i /\ contexts' = contexts
    BY <1>5, BackgroundEffect, StartEffect, JoinEffect
  <2>2. Len(Steps) \in Nat /\ Len(contexts) \in Nat /\ suite[i].parallel \in BOOLEAN
    BY <2>1, InCaseType DEF InCase, InLoop
  <2>3. \/ pc' = "undeploy" /\ k' = 1
        \/ pc' = "start" /\ k' = k + 1 /\ k \in 1 .. Len(Steps)
        \/ pc' = "join" /\ k' = k + 1 /\ k \in 1 .. Len(Steps) /\ suite[i].parallel
        \/ pc' = "join" /\ k' = k /\ k \in 1 .. Len(Steps)
    BY <1>5, BackgroundEffect, StartEffect, JoinEffect DEF CaseRaises, Goto
  <2>4. Steps' = Steps
    BY <1>0, <2>1 DEF Steps
  <2> QED
    BY <1>0, <2>1, <2>2, <2>3, <2>4 DEF PlaceInv, InCase, InLoop
<1>6. CASE KeepContexts \/ AllUndeployed
  BY <1>0, <1>6 DEF KeepContexts, AllUndeployed, NextCase, Goto, PlaceInv, InCase, InLoop
<1>7. CASE Undeploy \/ ExitUndeploy
  <2>1. \/ pc' = pc /\ k' = k + 1 /\ k <= Len(contexts)
        \/ pc' \in {"output", "exit"} /\ k' = 1
    BY <1>7 DEF Undeploy, ExitUndeploy, UndeployContext, TaskRaises, Goto
  <2>2. i' = i /\ contexts' = contexts /\ pc \in {"undeploy", "exitUndeploy"}
    BY <1>7 DEF Undeploy, ExitUndeploy
  <2> QED
    BY <1>0, <2>1, <2>2 DEF PlaceInv, InCase, InLoop
<1>8. CASE TerminateAll
  <2>1. Len(contexts) \in Nat
    BY LenProperties DEF TypeOK
  <2> QED
    BY <1>0, <1>8, <2>1 DEF TerminateAll, Goto, PlaceInv, InCase, InLoop
<1>9. CASE UNCHANGED <<suite, pc, i, k, contexts>>
  BY <1>9 DEF PlaceInv, Steps
<1>10. CASE Swallow
  BY <1>0, <1>10, SwallowEffect DEF PlaceInv, InCase, InLoop
<1> QED
  BY <1>1, <1>2, <1>3, <1>4, <1>5, <1>6, <1>7, <1>8, <1>9, <1>10
     DEF Next, Main, Gone, WorkerExit, vars, inputVars

(***************************** the contexts *********************************)

(* What is deployed stays before the loop that undeploys it,                 *)
LEMMA ContextInvariant ==
  ASSUME TypeOK, PlaceInv, ContextInv, [Next]_vars
  PROVE  ContextInv'
<1>0. /\ ctx \in [ContextId -> {"none", "created", "deployed", "undeployed"}]
      /\ k \in Nat /\ k >= 1 /\ Len(contexts) \in Nat
  BY LenProperties DEF TypeOK, PlaceInv
<1>1. CASE ParseFails \/ ParseExits \/ TaskEnds \/ Output \/ Exit
  <2>1. /\ UNCHANGED <<keep, spoilt, ctx, contexts>> /\ pc \in {"parse", "output", "exit"}
        /\ pc' \in {"output", "atexit", "gone"}
    BY <1>1 DEF ParseFails, ParseExits, TaskEnds, Output, Exit, TaskRaises, Goto, inputVars
  <2> QED
    BY <2>1 DEF ContextInv, ToUndeploy, Deployed
<1>2. CASE CaseBegins \/ AllDeployed \/ AllStarted \/ JoinBroken \/ AllJoined
         \/ StartBackground \/ StartStep \/ JoinStep \/ TerminateAll
  <2>1. CASE CaseBegins \/ AllDeployed \/ AllStarted \/ JoinBroken \/ AllJoined \/ TerminateAll
    <3>1. /\ UNCHANGED <<keep, spoilt, ctx, contexts>>
          /\ pc \in {"case", "deploy", "start", "join", "atexit"}
          /\ pc' \in {"deploy", "start", "join", "undeploy", "exitUndeploy"}
          /\ pc' \in {"undeploy", "exitUndeploy"} => k' = 1
      BY <2>1 DEF CaseBegins, AllDeployed, AllStarted, JoinBroken, AllJoined, TerminateAll,
           CaseRaises, Goto, inputVars
    <3> QED
      BY <3>1 DEF ContextInv, ToUndeploy, Deployed
  <2>2. CASE StartBackground \/ StartStep \/ JoinStep
    <3>1. /\ UNCHANGED <<spoilt, ctx, contexts>> /\ pc \in {"deploy", "start", "join"}
          /\ pc' \in {"start", "join", "undeploy"} /\ (pc' = "undeploy" => k' = 1)
      BY <2>2, BackgroundEffect, StartEffect, JoinEffect DEF CaseRaises, Goto
    <3>2. keep' = keep
      BY ControlType
    <3> QED
      BY <3>1, <3>2 DEF ContextInv, ToUndeploy, Deployed
  <2> QED
    BY <1>2, <2>1, <2>2
<1>3. CASE Parse
  <2>1. /\ UNCHANGED <<keep, spoilt>> /\ pc = "parse" /\ pc' \in {"parse", "case"}
        /\ \A c \in ContextId : ctx'[c] \in {"created", ctx[c]}
    BY <1>0, <1>3 DEF Parse, Goto, inputVars
  <2> QED
    BY <2>1 DEF ContextInv, ToUndeploy, Deployed
<1>4. CASE Deploy
  <2>1. /\ k \in 1 .. Len(contexts) /\ UNCHANGED <<keep, spoilt, contexts>> /\ pc = "deploy"
        /\ pc' \in {"deploy", "undeploy"} /\ (pc' = "undeploy" => k' = 1)
        /\ \A c \in ContextId : c # contexts[k] => ctx'[c] = ctx[c]
    BY <1>0, <1>4 DEF Deploy, CaseRaises, Goto, inputVars
  <2> QED
    BY <2>1 DEF ContextInv, ToUndeploy, Deployed
<1>5. CASE KeepContexts
  BY <1>5 DEF KeepContexts, ContextInv, inputVars
<1>6. CASE Undeploy \/ ExitUndeploy
  <2>1. /\ k \in 1 .. Len(contexts) /\ UNCHANGED <<keep, contexts>>
        /\ pc \in {"undeploy", "exitUndeploy"}
        /\ \/ /\ pc' = pc /\ k' = k + 1 /\ UNCHANGED spoilt
              /\ \A c \in ContextId : /\ c # contexts[k] => ctx'[c] = ctx[c]
                                      /\ c = contexts[k] => ctx'[c] = "undeployed"
           \/ spoilt'
    BY <1>0, <1>6 DEF Undeploy, ExitUndeploy, UndeployContext, Goto, inputVars
  <2>2. CASE spoilt'
    BY <2>2 DEF ContextInv
  <2>3. ASSUME ~ spoilt', ~ keep', NEW c \in ContextId, ctx'[c] = "deployed"
        PROVE  \E m \in k + 1 .. Len(contexts) : contexts[m] = c
    <3>1. c # contexts[k] /\ ctx[c] = "deployed"
      BY <2>1, <2>3
    <3>2. PICK m \in k .. Len(contexts) : contexts[m] = c
      BY <2>1, <2>3, <3>1 DEF ContextInv, ToUndeploy, Deployed
    <3> QED
      BY <1>0, <3>1, <3>2
  <2> QED
    BY <2>1, <2>2, <2>3 DEF ContextInv, ToUndeploy, Deployed
<1>7. CASE AllUndeployed \/ ExitUndeployed
  <2>1. /\ UNCHANGED <<keep, spoilt, ctx>> /\ k > Len(contexts)
        /\ pc \in {"undeploy", "exitUndeploy"} /\ pc' \in {"parse", "exit"}
    BY <1>7 DEF AllUndeployed, ExitUndeployed, NextCase, Goto, inputVars
  <2> QED
    BY <1>0, <2>1 DEF ContextInv, ToUndeploy, Deployed
<1>8. CASE Interrupt
  <2>1. /\ UNCHANGED <<keep, ctx, contexts>> /\ pc' = "atexit"
        /\ pc \in {"case", "deploy", "start", "join", "parse", "undeploy", "output"}
    BY <1>8 DEF Interrupt, InRun, Goto, inputVars
  <2>2. ~ keep /\ ~ spoilt' => ToUndeploy(1)
    <3>1. ~ spoilt' => ~ spoilt /\ (pc = "undeploy" => ~ k > 1)
      BY <1>8 DEF Interrupt
    <3>2. ~ k > 1 => k = 1
      BY <1>0
    <3>3. Deployed = {} => ToUndeploy(1)
      BY DEF ToUndeploy
    <3> QED
      BY <2>1, <3>1, <3>2, <3>3 DEF ContextInv
  <2>3. ToUndeploy(1)' = ToUndeploy(1)
    BY <2>1 DEF ToUndeploy, Deployed
  <2> QED
    BY <2>1, <2>2, <2>3 DEF ContextInv
<1>9. CASE UNCHANGED <<keep, spoilt, pc, k, ctx, contexts>>
  BY <1>9 DEF ContextInv, ToUndeploy, Deployed
<1>10. CASE Swallow
  <2>1. /\ UNCHANGED <<keep, spoilt, ctx, contexts>> /\ pc \in {"case", "deploy"}
        /\ pc' = "undeploy" /\ k' = 1
    BY <1>10, SwallowEffect
  <2> QED
    BY <2>1 DEF ContextInv, ToUndeploy, Deployed
<1> QED
  BY <1>1, <1>2, <1>3, <1>4, <1>5, <1>6, <1>7, <1>8, <1>9, <1>10
     DEF Next, Main, Gone, WorkerExit, vars, inputVars

(* so at its end nothing is left that is not to stay.                        *)
LEMMA ContextsAreUndeployed ==
  ASSUME TypeOK, PlaceInv, ContextInv
  PROVE  NoContextLeaks
<1>1. ASSUME ~ keep, ~ spoilt, pc \in {"case", "deploy"}, NEW c \in Deployed
      PROVE  c[1] = i
  <2>1. PICK m \in 1 .. Len(contexts) : contexts[m] = c
    BY <1>1 DEF ContextInv, ToUndeploy
  <2>2. contexts[m] = <<i, m>>
    BY <1>1, InCaseType DEF InCase, InLoop
  <2> QED
    BY <2>1, <2>2
<1> QED
  BY <1>1 DEF ContextInv, NoContextLeaks

(********************* the steps and their workers **************************)

(* A worker that was started stays behind the place of start().              *)
LEMMA StartInvariant ==
  ASSUME TypeOK, PlaceInv, StartInv, [Next]_vars
  PROVE  StartInv'
<1>0. /\ k \in Nat /\ i \in Nat /\ proc \in [Id -> {"none", "alive", "exited", "killed"}]
      /\ suite' = suite /\ \A id \in Id : id[1] \in Nat /\ id[2] \in Nat
  BY ControlType, SuiteType DEF TypeOK, Id
<1>1. CASE Steady \/ Parse
  <2>1. proc' = proc
    BY <1>1, SteadyEffect DEF Parse, workerVars
  <2>2. \/ pc' \notin InLoop
        \/ pc = "parse" /\ pc' \in {"parse", "case"} /\ i' \in {i, i + 1}
        \/ pc \in {"case", "deploy"} /\ i' = i
        \/ pc = "start" /\ pc' = "undeploy" /\ i' = i
        \/ pc = "start" /\ pc' = "join" /\ i' = i /\ suite[i].parallel
        \/ pc = "join" /\ pc' = "undeploy" /\ i' = i
        \/ pc = "undeploy" /\ pc' = "undeploy" /\ i' = i
        \/ pc = "undeploy" /\ i' = i + 1
    <3>1. CASE Parse \/ ParseFails \/ ParseExits \/ TaskEnds \/ CaseBegins \/ Deploy
              \/ AllDeployed
      BY <1>0, <3>1 DEF Parse, ParseFails, ParseExits, TaskEnds, CaseBegins, Deploy, AllDeployed,
           TaskRaises, CaseRaises, Goto, InLoop
    <3>2. CASE AllStarted \/ JoinBroken \/ AllJoined \/ KeepContexts \/ Undeploy \/ AllUndeployed
      BY <3>2 DEF AllStarted, JoinBroken, AllJoined, KeepContexts, Undeploy, AllUndeployed,
           UndeployContext, NextCase, TaskRaises, CaseRaises, Goto, InLoop
    <3>3. CASE Output \/ ExitUndeploy \/ ExitUndeployed \/ Exit \/ Interrupt \/ Swallow
      BY <3>3, SwallowEffect DEF Output, ExitUndeploy, ExitUndeployed, Exit, Interrupt,
           UndeployContext, Goto, InLoop
    <3> QED
      BY <1>1, <3>1, <3>2, <3>3 DEF Steady
  <2>3. ASSUME NEW id \in Id, Started(id), pc' \in InLoop
        PROVE  Behind(id)'
    <3>1. Behind(id) \/ pc \notin InLoop
      BY <2>3 DEF StartInv
    <3> QED
      BY <1>0, <2>2, <2>3, <3>1 DEF Behind, InLoop
  <2> QED
    BY <2>1, <2>3 DEF StartInv, Started
<1>2. CASE StartBackground \/ JoinStep
  <2>1. proc' = proc /\ i' = i
    BY <1>2, BackgroundEffect, JoinEffect DEF workerVars
  <2>2. \/ pc = "deploy"
        \/ pc = "join" /\ \/ pc' = "undeploy"
                          \/ pc' = "join" /\ suite[i].parallel
                          \/ pc' = "start" /\ k' = k + 1 /\ ~ suite[i].parallel
    BY <1>2, BackgroundEffect, JoinEffect DEF CaseRaises, Goto
  <2>3. ASSUME NEW id \in Id, Started(id)
        PROVE  Behind(id)'
    <3>1. Behind(id)
      BY <2>2, <2>3 DEF StartInv, InLoop
    <3> QED
      BY <1>0, <2>1, <2>2, <3>1 DEF Behind
  <2> QED
    BY <2>1, <2>3 DEF StartInv, Started
<1>3. CASE StartStep
  <2>1. pc = "start" /\ i' = i /\ <<i, k>> \in Id
    BY <1>3, StartEffect
  <2>2. \/ proc' = proc /\ pc' = "undeploy"
        \/ /\ proc' \in {proc, [proc EXCEPT ![<<i, k>>] = "alive"]}
           /\ \/ suite[i].parallel /\ pc' = "start" /\ k' = k + 1
              \/ ~ suite[i].parallel /\ pc' = "join" /\ k' = k
    BY <1>3, StartEffect DEF CaseRaises, Goto
  <2>3. ASSUME NEW id \in Id, Started(id)'
        PROVE  Behind(id)'
    <3>1. Started(id) \/ (id = <<i, k>> /\ pc' # "undeploy")
      BY <1>0, <2>2, <2>3 DEF Started
    <3>2. CASE Started(id)
      <4>1. Behind(id)
        BY <2>1, <3>2 DEF StartInv, InLoop
      <4> QED
        BY <1>0, <2>1, <2>2, <4>1 DEF Behind
    <3>3. CASE id = <<i, k>> /\ pc' # "undeploy"
      BY <1>0, <2>1, <2>2, <3>3 DEF Behind
    <3> QED
      BY <3>1, <3>2, <3>3
  <2> QED
    BY <2>3 DEF StartInv
<1>4. CASE TerminateAll
  BY <1>4 DEF TerminateAll, Goto, StartInv, InLoop
<1>5. ASSUME NEW w \in Id, WorkerExit(w)
      PROVE  StartInv'
  <2>1. UNCHANGED <<pc, i, k, suite>> /\ \A id \in Id : Started(id)' => Started(id)
    BY <1>0, <1>5 DEF WorkerExit, Started, Alive
  <2> QED
    BY <2>1 DEF StartInv, Behind
<1>6. CASE UNCHANGED vars
  BY <1>0, <1>6 DEF vars, workerVars, StartInv, Behind, Started
<1> QED
  BY <1>1, <1>2, <1>3, <1>4, <1>5, <1>6, NextCases

(* Nothing of a serial suite runs, and all that was started left its outputs. *)
Quiet == Quiescent /\ \A id \in Id : Started(id) => id \in outputs

(* A serial suite has only serial test cases.                                *)
LEMMA SerialCase ==
  ASSUME TypeOK, PlaceInv, Serial, pc \in InCase
  PROVE  ~ suite[i].parallel
  BY InCaseType, SuiteType DEF Serial, TypeOK

(* In a serial case no worker is alive between two steps.                    *)
LEMMA QuietCases ==
  ASSUME TypeOK, PlaceInv, SerialInv, Serial, pc \in InLoop
  PROVE  /\ pc # "join" => Quiet
         /\ pc = "join" /\ proc[<<i, k>>] = "none" => Quiet
<1>1. \A id \in Id : Alive(id) => Awaited(id)
  BY DEF SerialInv, InLoop
<1>2. \A id \in Id : Started(id) /\ ~ Awaited(id) => id \in outputs
  BY DEF SerialInv
<1> QED
  BY <1>1, <1>2 DEF Awaited, Quiet, Quiescent, Started, Alive

(* That stays so while no worker starts.                                     *)
LEMMA QuietStays ==
  ASSUME Quiet, UNCHANGED <<proc, outputs>>
  PROVE  SerialInv'
  BY DEF Quiet, Quiescent, SerialInv, Started, Alive

(* Every step keeps all workers ended but the one that is waited for,        *)
LEMMA SerialInvariant ==
  ASSUME TypeOK, PlaceInv, StartInv, SerialInv, [Next]_vars
  PROVE  SerialInv'
<1> SUFFICES ASSUME Serial
             PROVE  SerialInv'
  <2>1. Serial' = Serial
    BY ControlType DEF Serial
  <2> QED
    BY <2>1 DEF SerialInv
<1>0. /\ proc \in [Id -> {"none", "alive", "exited", "killed"}]
      /\ pc \in {"parse", "case", "deploy", "start", "join", "undeploy", "output",
                 "atexit", "exitUndeploy", "exit", "gone"}
  BY DEF TypeOK
<1>1. CASE Steady \/ Parse
  <2>1. proc' = proc /\ outputs' = outputs
    BY <1>1, SteadyEffect DEF Parse, workerVars
  <2>2. \/ pc' \in {"atexit", "exitUndeploy", "exit"} /\ pc' \notin InLoop
        \/ pc' = "output" /\ pc \in InLoop \ {"join"}
        \/ pc = "exit" /\ pc' = "gone" /\ Quiescent
        \/ pc \in InLoop \ {"join"}
        \/ pc = "join" /\ proc[<<i, k>>] = "none"
    <3>1. CASE Parse \/ ParseFails \/ ParseExits \/ TaskEnds \/ CaseBegins \/ Deploy
              \/ AllDeployed \/ AllStarted \/ KeepContexts \/ Undeploy \/ AllUndeployed
      BY <3>1 DEF Parse, ParseFails, ParseExits, TaskEnds, CaseBegins, Deploy, AllDeployed,
           AllStarted, KeepContexts, Undeploy, AllUndeployed, InLoop
    <3>2. CASE JoinBroken
      BY <3>2 DEF JoinBroken
    <3>3. CASE AllJoined
      <4>1. pc = "join" /\ k > Len(Steps)
        BY <3>3 DEF AllJoined
      <4> QED
        BY <4>1, InCaseType, SerialCase DEF PlaceInv, InCase, InLoop, TypeOK
    <3>4. CASE Output \/ ExitUndeploy \/ ExitUndeployed \/ Exit \/ Interrupt \/ Swallow
      BY <3>4, SwallowEffect DEF Output, ExitUndeploy, ExitUndeployed, Exit, Interrupt,
           UndeployContext, Goto, InLoop, Quiescent
    <3> QED
      BY <1>1, <3>1, <3>2, <3>3, <3>4 DEF Steady
  <2>3. CASE pc' \in {"atexit", "exitUndeploy", "exit"} /\ pc' \notin InLoop
    BY <2>3 DEF SerialInv
  <2>4. CASE pc = "exit" /\ pc' = "gone" /\ Quiescent
    BY <2>1, <2>4 DEF SerialInv, Quiescent, Alive, InLoop
  <2>5. CASE pc \in InLoop \ {"join"} \/ (pc = "join" /\ proc[<<i, k>>] = "none")
    <3>1. Quiet
      BY <2>5, QuietCases DEF InLoop
    <3> QED
      BY <2>1, <3>1, QuietStays
  <2> QED
    BY <2>2, <2>3, <2>4, <2>5
<1>2. CASE StartBackground
  BY <1>2, BackgroundEffect, QuietCases, QuietStays DEF InLoop, workerVars
<1>3. CASE StartStep
  <2>1. /\ pc = "start" /\ i' = i /\ outputs' = outputs /\ <<i, k>> \in Id /\ Quiet
    BY <1>3, StartEffect, QuietCases DEF InLoop
  <2>2. ~ suite[i].parallel
    BY <2>1, SerialCase DEF InCase, InLoop
  <2>3. CASE proc' = proc
    BY <2>1, <2>3, QuietStays
  <2>4. CASE proc' = [proc EXCEPT ![<<i, k>>] = "alive"] /\ pc' = "join" /\ k' = k
    <3>1. \A id \in Id : id # <<i, k>> => proc'[id] = proc[id]
      BY <1>0, <2>1, <2>4
    <3> QED
      BY <2>1, <2>4, <3>1 DEF SerialInv, Quiet, Quiescent, Alive, Started, Awaited
  <2> QED
    BY <1>3, <2>2, <2>3, <2>4, StartEffect DEF Goto
<1>4. CASE JoinStep
  <2>1. /\ pc = "join" /\ proc[<<i, k>>] = "exited" /\ outputs' = outputs \cup {<<i, k>>}
        /\ proc' = proc
    BY <1>4, JoinEffect
  <2>2. \A id \in Id : Alive(id) => Awaited(id)
    BY <2>1 DEF SerialInv
  <2>3. \A id \in Id : ~ Alive(id)
    BY <2>1, <2>2 DEF Awaited, Alive
  <2>4. \A id \in Id : Started(id) => id \in outputs'
    BY <2>1 DEF SerialInv, Awaited, InLoop
  <2> QED
    BY <2>1, <2>3, <2>4 DEF SerialInv, Alive, Started
<1>5. CASE TerminateAll
  BY <1>5 DEF TerminateAll, Goto, SerialInv, InLoop
<1>6. ASSUME NEW w \in Id, WorkerExit(w)
      PROVE  SerialInv'
  <2>1. /\ UNCHANGED <<pc, i, k, outputs>>
        /\ \A id \in Id : (Started(id)' => Started(id)) /\ (Alive(id)' => Alive(id))
        /\ \A id \in Id : Awaited(id)' = Awaited(id)
    BY <1>0, <1>6 DEF WorkerExit, Started, Alive, Awaited, dataVars
  <2> QED
    BY <2>1 DEF SerialInv
<1>7. CASE UNCHANGED vars
  BY <1>7 DEF vars, workerVars, dataVars, SerialInv, Alive, Started, Awaited
<1> QED
  BY <1>1, <1>2, <1>3, <1>4, <1>5, <1>6, <1>7, NextCases

(* so there is one at most.                                                  *)
LEMMA SerialRunsOne ==
  ASSUME TypeOK, SerialInv
  PROVE  SerialIsExclusive
  BY DEF SerialInv, SerialIsExclusive, Awaited, Quiescent, Alive

(************************* the chain of the outputs *************************)

(* No output comes from a worker that was never started.                     *)
LEMMA DataInvariant ==
  ASSUME TypeOK, PlaceInv, DataInv, [Next]_vars
  PROVE  DataInv'
<1>0. proc \in [Id -> {"none", "alive", "exited", "killed"}]
      /\ inputs \in SUBSET Id /\ outputs \in SUBSET Id
  BY DEF TypeOK
<1>1. /\ \A id \in Id : Started(id) => Started(id)'
      /\ \A id \in (inputs \cup outputs)' : id \in inputs \cup outputs \/ Started(id)
  <2>1. CASE StartStep
    BY <1>0, <2>1, StartEffect DEF Started
  <2>2. CASE JoinStep
    BY <1>0, <2>2, JoinEffect DEF Started
  <2>3. CASE TerminateAll \/ \E w \in Id : WorkerExit(w)
    BY <1>0, <2>3 DEF TerminateAll, WorkerExit, Started, Alive, dataVars
  <2>4. CASE Steady \/ Parse \/ StartBackground \/ UNCHANGED vars
    BY <2>4, SteadyEffect, BackgroundEffect DEF Parse, Started, vars, workerVars, dataVars
  <2> QED
    BY <2>1, <2>2, <2>3, <2>4, NextCases
<1>2. inputs' \in SUBSET Id /\ outputs' \in SUBSET Id
  BY WorkersAreTyped
<1>3. ASSUME NEW id \in (inputs \cup outputs)'
      PROVE  Started(id)'
  BY <1>1, <1>2, <1>3 DEF DataInv
<1> QED
  BY <1>3 DEF DataInv, Started

(* A step that starts is handed the outputs of those before it, and no       *)
(* others.                                                                   *)
LEMMA ChainInvariant ==
  ASSUME TypeOK, PlaceInv, StartInv, SerialInv, DataInv, OutputsAreChained, [Next]_vars
  PROVE  OutputsAreChained'
<1> SUFFICES ASSUME Serial, NEW id \in Id, proc'[id] # "none"
             PROVE  /\ seen'[id] \in SUBSET Id
                    /\ \A earlier \in Id :
                         earlier \in seen'[id] <=> proc'[earlier] # "none" /\ Before(earlier, id)
  <2>1. Serial' = Serial
    BY ControlType DEF Serial
  <2> QED
    BY <2>1 DEF OutputsAreChained, Before
<1>5. seen'[id] \in SUBSET Id
  BY WorkersAreTyped
<1> SUFFICES ASSUME NEW earlier \in Id
             PROVE  earlier \in seen'[id] <=> proc'[earlier] # "none" /\ Before(earlier, id)
  BY <1>5
<1>0. /\ proc \in [Id -> {"none", "alive", "exited", "killed"}]
      /\ seen \in [Id -> SUBSET Id]
      /\ i \in Nat /\ k \in Nat /\ id[1] \in Nat /\ id[2] \in Nat
      /\ id = <<id[1], id[2]>> /\ earlier = <<earlier[1], earlier[2]>>
      /\ earlier[1] \in Nat /\ earlier[2] \in Nat
  BY SuiteType DEF TypeOK, Id
<1>1. proc[id] # "none" =>
        (earlier \in seen[id] <=> proc[earlier] # "none" /\ Before(earlier, id))
  BY DEF OutputsAreChained
<1>2. CASE StartStep
  <2>1. pc = "start" /\ <<i, k>> \in Id /\ Quiet
    BY <1>2, StartEffect, QuietCases DEF InLoop
  <2>2. \A s \in Id : Started(s) => s[1] < i \/ (s[1] = i /\ s[2] < k)
    BY <2>1 DEF StartInv, Behind, InLoop
  <2>3. CASE UNCHANGED <<proc, seen>>
    BY <1>1, <2>3
  <2>4. CASE /\ proc' \in {proc, [proc EXCEPT ![<<i, k>>] = "alive"]}
             /\ seen' = [seen EXCEPT ![<<i, k>>] = inputs \cup outputs]
    <3>1. \A s \in Id : s # <<i, k>> => proc'[s] = proc[s] /\ seen'[s] = seen[s]
      BY <1>0, <2>1, <2>4
    <3>2. CASE id # <<i, k>>
      <4>1. earlier = <<i, k>> => ~ Before(earlier, id)
        <5>1. id[1] < i \/ (id[1] = i /\ id[2] < k)
          BY <2>2, <3>1, <3>2 DEF Started
        <5> QED
          BY <1>0, <5>1 DEF Before
      <4> QED
        BY <1>1, <3>1, <3>2, <4>1
    <3>3. CASE id = <<i, k>>
      <4>1. seen'[id] = inputs \cup outputs /\ (earlier = <<i, k>> => ~ Before(earlier, id))
        BY <1>0, <2>1, <2>4, <3>3 DEF Before
      <4>2. CASE earlier # <<i, k>>
        <5>1. Started(earlier) <=> earlier \in inputs \cup outputs
          BY <2>1 DEF Quiet, DataInv
        <5>2. Started(earlier) => Before(earlier, id)
          BY <1>0, <2>2, <3>3 DEF Before
        <5> QED
          BY <3>1, <4>1, <4>2, <5>1, <5>2 DEF Started
      <4>3. CASE earlier = <<i, k>>
        BY <2>2, <4>1, <4>3, <1>0 DEF DataInv
      <4> QED
        BY <4>2, <4>3
    <3> QED
      BY <3>2, <3>3
  <2> QED
    BY <1>2, <2>3, <2>4, StartEffect
<1>3. CASE TerminateAll \/ \E w \in Id : WorkerExit(w)
  <2>1. seen' = seen /\ \A s \in Id : proc'[s] # "none" <=> proc[s] # "none"
    BY <1>0, <1>3 DEF TerminateAll, WorkerExit, Alive, dataVars
  <2> QED
    BY <1>1, <2>1
<1>4. CASE Steady \/ Parse \/ StartBackground \/ JoinStep \/ UNCHANGED vars
  <2>1. seen' = seen /\ proc' = proc
    BY <1>4, SteadyEffect, BackgroundEffect, JoinEffect DEF Parse, vars, workerVars, dataVars
  <2> QED
    BY <1>1, <2>1
<1> QED
  BY <1>2, <1>3, <1>4, NextCases

(************************* the report as it moves *****************************)

(* What a worker has brought to a clean end stays so.                        *)
LEMMA SuccessStays ==
  ASSUME TypeOK, PlaceInv, StartInv, [Next]_vars, NEW id \in Id, SuccessfulStep(id)
  PROVE  SuccessfulStep(id)'
<1>0. /\ proc \in [Id -> {"none", "alive", "exited", "killed"}]
      /\ outcome \in [Id -> Outcome \cup {"none"}] /\ proc[id] = "exited"
  BY DEF TypeOK, SuccessfulStep
<1>1. CASE StartStep
  <2>1. id # <<i, k>>
    <3>1. pc = "start" /\ k \in Nat
      BY <1>1, StartEffect
    <3>2. id[1] < i \/ (id[1] = i /\ id[2] < k)
      BY <1>0, <3>1 DEF StartInv, Started, Behind, InLoop
    <3>3. i \in Nat
      BY SuiteType DEF TypeOK
    <3> QED
      BY <3>1, <3>2, <3>3
  <2> QED
    BY <1>0, <1>1, <2>1, StartEffect DEF SuccessfulStep
<1>2. ASSUME NEW w \in Id, WorkerExit(w)
      PROVE  SuccessfulStep(id)'
  BY <1>0, <1>2 DEF WorkerExit, Alive, SuccessfulStep
<1>3. CASE TerminateAll
  BY <1>0, <1>3 DEF TerminateAll, Alive, SuccessfulStep
<1>4. CASE Steady \/ Parse \/ StartBackground \/ JoinStep \/ UNCHANGED vars
  <2>1. proc' = proc /\ outcome' = outcome
    BY <1>4, SteadyEffect, BackgroundEffect, JoinEffect DEF Parse, vars, workerVars
  <2> QED
    BY <2>1 DEF SuccessfulStep
<1> QED
  BY <1>1, <1>2, <1>3, <1>4, NextCases

(* No later step of the program opens a report that is closed.               *)
LEMMA ClosedStays ==
  ASSUME TypeOK, PlaceInv, StartInv, [Next]_vars, NEW e, Closed(e)
  PROVE  Closed(e)'
<1>1. suite' = suite /\ suite \in Suites /\ struck \subseteq struck'
  BY ControlType, StruckGrows DEF TypeOK
<1>2. ASSUME e.criteria = "PASS"
      PROVE  Clean(e)'
  <2>1. Clean(e) /\ e.name \in 1 .. Len(suite)
    BY <1>1, <1>2, SuiteType DEF Closed
  <2>2. ASSUME NEW s \in DOMAIN suite[e.name].steps
        PROVE  SuccessfulStep(<<e.name, s>>)'
    <3>1. <<e.name, s>> \in Id
      BY <1>1, <2>1, SuiteType, IdType
    <3>2. SuccessfulStep(<<e.name, s>>)
      BY <2>1 DEF Clean
    <3> QED
      BY <3>1, <3>2, SuccessStays
  <2> QED
    BY <1>1, <2>1, <2>2 DEF Clean
<1> QED
  BY <1>1, <1>2 DEF Closed

(* The report of the test case that runs.                                    *)
LEMMA CurrentType ==
  ASSUME TypeOK, PlaceInv, NamesInv, InfoInv, pc \in InRun
  PROVE  /\ info \in Report /\ Len(info.cases) # 0 /\ CurrentCase(info) \in CaseReport
         /\ CurrentCase(info).name = i /\ Open(CurrentCase(info))
         /\ i \in 1 .. Len(suite) /\ suite \in Suites /\ DOMAIN suite = 1 .. Len(suite)
         /\ Len(CurrentCase(info).steps) = Len(Steps) /\ Len(Steps) \in Nat
         /\ pc \in InCase /\ pc \in InLoop
<1>1. pc \in InCase /\ pc \in InLoop /\ pc \notin {"parse", "case"}
  BY DEF InRun, InCase, InLoop
<1>2. info \in Report /\ info.cases # <<>> /\ Open(CurrentCase(info)) /\ suite \in Suites
      /\ CurrentCase(info).name = i
  <2>1. ~ Behindhand
    BY DEF InRun, Behindhand
  <2> QED
    BY <1>1, <2>1 DEF TypeOK, NamesInv, InfoInv
<1>3. Len(info.cases) # 0
  BY <1>2, ReportType
<1> QED
  BY <1>1, <1>2, <1>3, ReplacesSelf, InCaseType, SuiteType DEF Open

(* A test case that raises is closed, whatever was reported of it.           *)
LEMMA RaisedIsClosed ==
  ASSUME TypeOK, PlaceInv, NamesInv, InfoInv, pc \in InRun, suite' = suite,
         NEW r, NEW d \in CaseReport, Replaces(r, info, d), d.name = i,
         i \in struck' \/ \A n \in DOMAIN d.contexts : d.contexts[n] = "FINISHED", CaseRaises(r)
  PROVE  \E e \in CaseReport : Replaces(info', info, e) /\ e.name = i /\ Closed(e)'
<1>1. r \in Report /\ Len(r.cases) # 0 /\ CurrentCase(r) = d
  BY CurrentType, ReplacesCurrent
<1>2. PICK e \in CaseReport : /\ Replaces(CaseEnd(CaseFatal(r)), r, e)
                              /\ e = Settle(d, "FATAL")
  BY <1>1, RaisedReplaces
<1>3. Replaces(info', info, e)
  BY <1>2, ReplacesTwice DEF CaseRaises
<1>4. /\ e.name = i /\ e.criteria = "FATAL" /\ e.status = "FINISHED"
      /\ i \in struck' \/ \A n \in DOMAIN e.contexts : e.contexts[n] = "FINISHED"
  BY <1>2, SettleType DEF Criteria
<1>5. Closed(e)'
  BY <1>4, CurrentType DEF Closed
<1> QED
  BY <1>3, <1>4, <1>5

(* A test case that comes to its end passes only if it is clean.             *)
LEMMA EndedIsClosed ==
  ASSUME TypeOK, PlaceInv, NamesInv, InfoInv, pc \in {"start", "join"}, k > Len(Steps),
         pc = "join" \/ ~ suite[i].parallel,
         UNCHANGED <<suite, proc, outcome>>, info' = CaseEnd(info)
  PROVE  \E e \in CaseReport : Replaces(info', info, e) /\ e.name = i /\ Closed(e)'
<1> DEFINE c == CurrentCase(info)
<1>0. pc \in InRun
  BY DEF InRun
<1>1. PICK e \in CaseReport : /\ Replaces(info', info, e)
                              /\ e = IF c.criteria = "N/A" THEN Settle(c, CaseVerdict(c)) ELSE c
  BY <1>0, CurrentType, CaseEndReplaces
<1>2. c \in CaseReport /\ c.criteria = "N/A" /\ c.name = i /\ Open(c)
      /\ Len(c.steps) = Len(Steps)
  BY <1>0, CurrentType DEF Open
<1>3. CaseVerdict(c) \in {"PASS", "FAIL"} /\ CaseVerdict(c) \in Criteria
  BY DEF CaseVerdict, Criteria
<1>4. /\ e.name = i /\ e.criteria = CaseVerdict(c) /\ e.status = "FINISHED"
      /\ e.steps = c.steps /\ e.contexts = c.contexts
  BY <1>1, <1>2, <1>3, SettleType
<1>5. ASSUME CaseVerdict(c) = "PASS", NEW s \in DOMAIN suite[i].steps
      PROVE  SuccessfulStep(<<i, s>>)
  <2>1. s \in 1 .. Len(Steps) /\ Len(Steps) \in Nat /\ k \in Nat
    BY <1>0, CurrentType, InCaseType DEF Steps, TypeOK
  <2>2. c.steps[s].criteria # "FAIL"
    BY <1>2, <1>5, <2>1, CaseType DEF CaseVerdict, HasFailedStep
  <2>3. ReportedBefore(c, k) /\ s \in 1 .. k - 1
    BY <1>2, <2>1 DEF Open
  <2> QED
    BY <2>2, <2>3 DEF ReportedBefore
<1>6. Len(c.contexts) = suite[i].contexts /\ Len(c.steps) = Len(suite[i].steps)
  BY <1>2 DEF Open, Steps
<1> HIDE DEF c
<1>7. Closed(e)'
  <2>1. e.criteria = "PASS" => Clean(e)'
    BY <1>4, <1>5, <1>6 DEF Clean, SuccessfulStep
  <2>2. e.criteria # "N/A" /\ e.name \in DOMAIN suite
    BY <1>0, <1>3, <1>4, CurrentType
  <2>3. \A d \in DOMAIN e.contexts : e.contexts[d] = "FINISHED"
    BY <1>2, <1>4 DEF Open
  <2> QED
    BY <1>4, <2>1, <2>2, <2>3 DEF Closed
<1> QED
  BY <1>1, <1>4, <1>7

(* What an action inside a test case makes of its report.                    *)
CaseMoves(e) == /\ Replaces(info', info, e) /\ e.name = i
             /\ \/ pc' \in InRun /\ Open(e)'
                \/ pc' = "undeploy" /\ Closed(e)'

(* The report of the current test case says what happened when a context is  *)
(* deployed,                                                                 *)
LEMMA DeployReports ==
  ASSUME TypeOK, PlaceInv, NamesInv, InfoInv, Deploy, suite' = suite
  PROVE  \E e \in CaseReport : CaseMoves(e)
<1>0. pc \in InRun /\ pc = "deploy" /\ i' = i /\ k \in 1 .. Len(contexts)
  BY DEF Deploy, InRun, TypeOK, PlaceInv
<1>1. PICK e \in CaseReport :
           /\ Replaces(ContextEnd(ContextStart(info)), info, e)
           /\ e.name = CurrentCase(info).name /\ e.criteria = CurrentCase(info).criteria
           /\ e.status = CurrentCase(info).status /\ e.steps = CurrentCase(info).steps
           /\ Len(e.contexts) = Len(CurrentCase(info).contexts) + 1
           /\ e.contexts[Len(e.contexts)] = "FINISHED"
           /\ \A d \in 1 .. Len(e.contexts) - 1 : e.contexts[d] = CurrentCase(info).contexts[d]
  BY <1>0, CurrentType, ContextReplaces
<1>2. /\ CurrentCase(info) \in CaseReport /\ CurrentCase(info).name = i
      /\ Open(CurrentCase(info)) /\ Len(CurrentCase(info).contexts) = k - 1
  BY <1>0, CurrentType DEF Open
<1>3. \A d \in DOMAIN e.contexts : e.contexts[d] = "FINISHED"
  <2>1. /\ DOMAIN e.contexts = 1 .. Len(e.contexts) /\ Len(e.contexts) \in Nat
        /\ DOMAIN CurrentCase(info).contexts = 1 .. Len(e.contexts) - 1
    BY <1>0, <1>1, <1>2, CaseType
  <2>2. \A d \in 1 .. Len(e.contexts) - 1 : e.contexts[d] = "FINISHED"
    BY <1>1, <1>2, <2>1 DEF Open
  <2> QED
    BY <1>1, <2>1, <2>2
<1>4. CASE CaseRaises(ContextEnd(ContextStart(info)))
  <2>1. PICK f \in CaseReport : Replaces(info', info, f) /\ f.name = i /\ Closed(f)'
    BY <1>0, <1>1, <1>2, <1>3, <1>4, RaisedIsClosed
  <2> QED
    BY <1>4, <2>1 DEF CaseMoves, CaseRaises, Goto
<1>5. CASE info' = ContextEnd(ContextStart(info)) /\ Goto("deploy", k + 1)
  <2>1. pc' = "deploy" /\ k' = k + 1 /\ Steps' = Steps /\ k \in Nat
    BY <1>0, <1>5 DEF Goto, Steps
  <2>2. Open(e)'
    BY <1>1, <1>2, <1>3, <2>1 DEF Open
  <2> QED
    BY <1>1, <1>2, <1>5, <2>1, <2>2 DEF CaseMoves, InRun
<1> QED
  BY <1>4, <1>5 DEF Deploy

(* The report stays, and the loop over the steps begins.                     *)
LEMMA LoopReports ==
  ASSUME TypeOK, PlaceInv, NamesInv, InfoInv,
         AllDeployed \/ (AllStarted /\ suite[i].parallel), suite' = suite
  PROVE  \E e \in CaseReport : CaseMoves(e)
<1>0. pc \in InRun /\ pc \in {"deploy", "start"} /\ pc \in InCase /\ i' = i /\ info' = info
  BY DEF AllDeployed, AllStarted, InRun, InCase, InLoop
<1>1. /\ \/ pc = "deploy" /\ pc' = "start" /\ k = Len(contexts) + 1
         \/ pc = "start" /\ pc' = "join"
      /\ k' = 1
  <2>1. CASE AllDeployed
    <3>1. pc = "deploy" /\ k <= Len(contexts) + 1 /\ k > Len(contexts) /\ k \in Nat
      BY <2>1 DEF AllDeployed, PlaceInv, TypeOK
    <3>2. Len(contexts) \in Nat
      BY <1>0, InCaseType
    <3> QED
      BY <2>1, <3>1, <3>2 DEF AllDeployed, Goto
  <2>2. CASE AllStarted /\ suite[i].parallel
    BY <2>2 DEF AllStarted, Goto
  <2> QED
    BY <2>1, <2>2
<1>2. PICK e \in CaseReport : e = CurrentCase(info)
  BY <1>0, CurrentType
<1>3. Replaces(info', info, e) /\ e.name = i /\ Open(e)
  BY <1>0, <1>2, CurrentType, ReplacesSelf
<1>4. Len(e.contexts) = suite[i].contexts
  BY <1>0, <1>1, <1>3, InCaseType DEF Open
<1>5. Steps' = Steps /\ ReportedBefore(e, k)'
  BY <1>0, <1>1 DEF Steps, ReportedBefore
<1>6. Open(e)'
  BY <1>0, <1>1, <1>3, <1>4, <1>5 DEF Open
<1> QED
  BY <1>1, <1>3, <1>6 DEF CaseMoves, InRun

(* when a background step is refused,                                        *)
LEMMA BackgroundReports ==
  ASSUME TypeOK, PlaceInv, NamesInv, InfoInv, StartBackground, suite' = suite
  PROVE  \E e \in CaseReport : CaseMoves(e)
<1>0. pc \in InRun
  BY BackgroundEffect DEF InRun
<1>1. PICK s \in 1 .. Len(Steps) : CaseRaises(StepStart(info, s))
  BY BackgroundEffect
<1>2. PICK d \in CaseReport : /\ Replaces(StepStart(info, s), info, d)
                              /\ d.name = CurrentCase(info).name
                              /\ d.contexts = CurrentCase(info).contexts
  BY <1>0, CurrentType, StepStartReplaces
<1>3. d.name = i /\ \A n \in DOMAIN d.contexts : d.contexts[n] = "FINISHED"
  BY <1>0, <1>2, CurrentType DEF Open
<1>4. PICK e \in CaseReport : Replaces(info', info, e) /\ e.name = i /\ Closed(e)'
  BY <1>0, <1>1, <1>2, <1>3, RaisedIsClosed
<1> QED
  BY <1>1, <1>4 DEF CaseMoves, CaseRaises, Goto

(* when a step is started,                                                   *)
LEMMA StartReports ==
  ASSUME TypeOK, PlaceInv, StartInv, NamesInv, InfoInv, StartStep, [Next]_vars, suite' = suite
  PROVE  \E e \in CaseReport : CaseMoves(e)
<1>0. pc \in InRun /\ pc = "start" /\ i' = i /\ k \in 1 .. Len(Steps)
      /\ k \in 1 .. Len(CurrentCase(info).steps)
  BY StartEffect, CurrentType DEF InRun
<1>1. PICK d \in CaseReport :
        /\ Replaces(StepStart(info, k), info, d)
        /\ d.name = CurrentCase(info).name /\ d.criteria = CurrentCase(info).criteria
        /\ d.contexts = CurrentCase(info).contexts /\ Len(d.steps) = Len(CurrentCase(info).steps)
        /\ \A t \in 1 .. Len(d.steps) : d.steps[t].criteria = CurrentCase(info).steps[t].criteria
  BY <1>0, CurrentType, StepStartReplaces
<1>2. /\ CurrentCase(info).name = i /\ Open(CurrentCase(info))
      /\ Len(CurrentCase(info).steps) = Len(Steps) /\ Len(Steps) \in Nat
  BY <1>0, CurrentType
<1>3. d.name = i /\ \A n \in DOMAIN d.contexts : d.contexts[n] = "FINISHED"
  BY <1>1, <1>2 DEF Open
<1>4. CASE CaseRaises(StepStart(info, k))
  <2>1. PICK e \in CaseReport : Replaces(info', info, e) /\ e.name = i /\ Closed(e)'
    BY <1>0, <1>1, <1>3, <1>4, RaisedIsClosed
  <2> QED
    BY <1>4, <2>1 DEF CaseMoves, CaseRaises, Goto
<1>5. CASE /\ info' = StepStart(info, k)
           /\ IF suite[i].parallel THEN Goto("start", k + 1) ELSE Goto("join", k)
  <2>1. /\ Steps' = Steps /\ suite'[i'].parallel = suite[i].parallel
        /\ \/ pc' = "start" /\ suite[i].parallel
           \/ pc' = "join" /\ k' = k /\ ~ suite[i].parallel
    BY <1>0, <1>5 DEF Goto, Steps
  <2>2. ASSUME ~ suite[i].parallel, NEW s \in 1 .. k - 1
        PROVE  d.steps[s].criteria = "FAIL" \/ SuccessfulStep(<<i, s>>)'
    <3>1. CurrentCase(info).steps[s].criteria = "FAIL" \/ SuccessfulStep(<<i, s>>)
      BY <1>0, <1>2, <2>2 DEF Open, ReportedBefore
    <3>2. s \in 1 .. Len(Steps) /\ <<i, s>> \in Id
      BY <1>0, <1>2, InCaseType DEF InCase, InLoop
    <3>3. PICK id \in Id : id = <<i, s>>
      BY <3>2
    <3>4. SuccessfulStep(id) => SuccessfulStep(id)'
      BY SuccessStays
    <3> QED
      BY <1>0, <1>1, <1>2, <3>1, <3>2, <3>3, <3>4 DEF SuccessfulStep
  <2>3. pc' = "join" => ReportedBefore(d, k)'
    BY <1>0, <2>1, <2>2 DEF ReportedBefore
  <2>4. Open(d)'
    BY <1>0, <1>1, <1>2, <1>3, <2>1, <2>3 DEF Open
  <2> QED
    BY <1>1, <1>3, <1>5, <2>1, <2>4 DEF CaseMoves, InRun
<1> QED
  BY <1>4, <1>5, StartEffect

(* when it is waited for,                                                    *)
LEMMA JoinReports ==
  ASSUME TypeOK, PlaceInv, NamesInv, InfoInv, JoinStep, suite' = suite
  PROVE  \E e \in CaseReport : CaseMoves(e)
<1>0. /\ pc \in InRun /\ pc = "join" /\ i' = i /\ k \in 1 .. Len(Steps)
      /\ k \in 1 .. Len(CurrentCase(info).steps) /\ UNCHANGED <<proc, outcome>>
      /\ proc[<<i, k>>] = "exited" /\ HasErrors(outcome[<<i, k>>]) \in BOOLEAN
  BY JoinEffect, CurrentType DEF InRun, HasErrors
<1>1. PICK d \in CaseReport :
        /\ Replaces(Reported(k), info, d)
        /\ d.name = CurrentCase(info).name /\ d.criteria = CurrentCase(info).criteria
        /\ d.contexts = CurrentCase(info).contexts /\ Len(d.steps) = Len(CurrentCase(info).steps)
        /\ d.steps[k].criteria = IF HasErrors(outcome[<<i, k>>]) THEN "FAIL" ELSE "PASS"
        /\ \A t \in 1 .. Len(d.steps) : t # k => d.steps[t] = CurrentCase(info).steps[t]
  BY <1>0, CurrentType, StepEndReplaces DEF Reported
<1>2. /\ CurrentCase(info) \in CaseReport /\ CurrentCase(info).name = i
      /\ Open(CurrentCase(info)) /\ Replaces(info, info, CurrentCase(info))
      /\ Len(CurrentCase(info).steps) = Len(Steps) /\ Len(Steps) \in Nat
  BY <1>0, CurrentType, ReplacesSelf
<1>3. d.name = i /\ \A n \in DOMAIN d.contexts : d.contexts[n] = "FINISHED"
  BY <1>1, <1>2 DEF Open
<1>4. CASE CaseRaises(info) \/ CaseRaises(Reported(k))
  <2>1. \A n \in DOMAIN CurrentCase(info).contexts : CurrentCase(info).contexts[n] = "FINISHED"
    BY <1>2 DEF Open
  <2>2. CaseRaises(info) =>
          \E e \in CaseReport : Replaces(info', info, e) /\ e.name = i /\ Closed(e)'
    BY <1>0, <1>2, <2>1, RaisedIsClosed
  <2>3. CaseRaises(Reported(k)) =>
          \E e \in CaseReport : Replaces(info', info, e) /\ e.name = i /\ Closed(e)'
    BY <1>0, <1>1, <1>3, RaisedIsClosed
  <2> QED
    BY <1>4, <2>2, <2>3 DEF CaseMoves, CaseRaises, Goto
<1>5. CASE /\ ExitsWithZero(outcome[<<i, k>>]) /\ info' = Reported(k)
           /\ IF suite[i].parallel THEN Goto("join", k + 1) ELSE Goto("start", k + 1)
  <2>1. /\ Steps' = Steps /\ pc' \in {"join", "start"} /\ k' = k + 1 /\ k \in Nat
    BY <1>0, <1>5 DEF Goto, Steps
  <2>2. ASSUME NEW s \in 1 .. k
        PROVE  d.steps[s].criteria = "FAIL" \/ SuccessfulStep(<<i, s>>)
    <3>1. CASE s = k
      BY <1>0, <1>1, <1>5, <3>1 DEF SuccessfulStep, ExitsWithZero, HasErrors
    <3>2. CASE s # k
      <4>1. s \in 1 .. k - 1 /\ s \in 1 .. Len(d.steps)
        BY <1>0, <1>1, <1>2, <2>1, <3>2
      <4>2. CurrentCase(info).steps[s].criteria = "FAIL" \/ SuccessfulStep(<<i, s>>)
        BY <1>0, <1>2, <4>1 DEF Open, ReportedBefore
      <4> QED
        BY <1>1, <3>2, <4>1, <4>2
    <3> QED
      BY <3>1, <3>2
  <2>3. ReportedBefore(d, k)'
    BY <1>0, <2>1, <2>2 DEF ReportedBefore, SuccessfulStep
  <2>4. Open(d)'
    BY <1>0, <1>1, <1>2, <1>3, <2>1, <2>3 DEF Open
  <2> QED
    BY <1>1, <1>3, <1>5, <2>1, <2>4 DEF CaseMoves, InRun
<1> QED
  BY <1>4, <1>5, JoinEffect

(* and when the last step has been.                                          *)
LEMMA EndReports ==
  ASSUME TypeOK, PlaceInv, NamesInv, InfoInv,
         AllJoined \/ (AllStarted /\ ~ suite[i].parallel) \/ JoinBroken, suite' = suite
  PROVE  \E e \in CaseReport : CaseMoves(e)
<1>1. CASE JoinBroken
  <2>1. pc \in InRun /\ CaseRaises(info)
    BY <1>1 DEF JoinBroken, InRun
  <2>2. /\ CurrentCase(info) \in CaseReport /\ CurrentCase(info).name = i
        /\ Open(CurrentCase(info)) /\ Replaces(info, info, CurrentCase(info))
    BY <2>1, CurrentType, ReplacesSelf
  <2>3. \A n \in DOMAIN CurrentCase(info).contexts : CurrentCase(info).contexts[n] = "FINISHED"
    BY <2>2 DEF Open
  <2>4. PICK e \in CaseReport : Replaces(info', info, e) /\ e.name = i /\ Closed(e)'
    BY <2>1, <2>2, <2>3, RaisedIsClosed
  <2> QED
    BY <2>1, <2>4 DEF CaseMoves, CaseRaises, Goto
<1>2. CASE AllJoined \/ (AllStarted /\ ~ suite[i].parallel)
  <2>1. /\ pc \in {"start", "join"} /\ k > Len(Steps) /\ (pc = "join" \/ ~ suite[i].parallel)
        /\ UNCHANGED <<suite, proc, outcome>> /\ info' = CaseEnd(info) /\ pc' = "undeploy"
    BY <1>2 DEF AllJoined, AllStarted, Goto, workerVars
  <2>2. PICK e \in CaseReport : Replaces(info', info, e) /\ e.name = i /\ Closed(e)'
    BY <2>1, EndedIsClosed
  <2> QED
    BY <2>1, <2>2 DEF CaseMoves
<1> QED
  BY <1>1, <1>2

(* An interrupt that is lost while a context is begun.                       *)
LEMMA SwallowReports ==
  ASSUME TypeOK, PlaceInv, NamesInv, InfoInv, Swallow, pc = "deploy", suite' = suite
  PROVE  \E e \in CaseReport : CaseMoves(e)
<1>0. pc \in InRun /\ i \in struck' /\ pc' = "undeploy"
  BY SwallowEffect DEF InRun
<1>1. PICK r \in {info, ContextStart(info)} : CaseRaises(r)
  BY SwallowEffect
<1>2. \E d \in CaseReport : Replaces(r, info, d) /\ d.name = i
  BY <1>0, <1>1, CurrentType, ReplacesSelf, ContextStartReplaces
<1>3. PICK e \in CaseReport : Replaces(info', info, e) /\ e.name = i /\ Closed(e)'
  BY <1>0, <1>1, <1>2, RaisedIsClosed
<1> QED
  BY <1>0, <1>3 DEF CaseMoves

(* The actions inside a test case, each of which reports as CaseMoves says.  *)
CaseAction == \/ Deploy \/ AllDeployed \/ StartBackground \/ StartStep \/ AllStarted
              \/ JoinStep \/ JoinBroken \/ AllJoined \/ (Swallow /\ pc = "deploy")

(* So every action in a test case moves its own report only,                 *)
LEMMA CaseReports ==
  ASSUME TypeOK, PlaceInv, StartInv, NamesInv, InfoInv, CaseAction, [Next]_vars
  PROVE  /\ pc \in InRun /\ i' = i /\ published' = published
         /\ \E e \in CaseReport : CaseMoves(e)
<1>1. pc \in InRun /\ i' = i /\ published' = published
  <2>1. CASE StartBackground \/ StartStep \/ JoinStep
    BY <2>1, BackgroundEffect, StartEffect, JoinEffect DEF InRun
  <2> QED
    BY <2>1, SwallowEffect
       DEF CaseAction, Deploy, AllDeployed, AllStarted, JoinBroken, AllJoined, InRun
<1>2. suite' = suite
  BY ControlType
<1>3. CASE Deploy \/ AllDeployed \/ StartBackground
  BY <1>1, <1>2, <1>3, DeployReports, LoopReports, BackgroundReports
<1>4. CASE StartStep \/ JoinStep
  BY <1>1, <1>2, <1>4, StartReports, JoinReports
<1>5. CASE AllStarted \/ JoinBroken \/ AllJoined
  BY <1>1, <1>2, <1>5, LoopReports, EndReports
<1>6. CASE Swallow /\ pc = "deploy"
  BY <1>1, <1>2, <1>6, SwallowReports
<1> QED
  BY <1>3, <1>4, <1>5, <1>6 DEF CaseAction

(* A test case begins: its report is added after those of the cases before.  *)
CaseAdds(e) ==
  /\ info' \in Report /\ info'.criteria = info.criteria
  /\ Len(info'.cases) = Len(info.cases) + 1 /\ info'.cases[Len(info.cases) + 1] = e
  /\ \A n \in 1 .. Len(info.cases) : info'.cases[n] = info.cases[n]
  /\ e.name = i
  /\ \/ pc' = "deploy" /\ Open(e)'
     \/ pc' = "undeploy" /\ Closed(e)'

(* The begin of a test case; an interrupt may be lost in it, before or after *)
(* its report was added.                                                     *)
LostAtBegin == Swallow /\ pc = "case" /\ info' = info
CaseBegun == CaseBegins \/ (Swallow /\ pc = "case" /\ info' = CaseStart(info, i, 0))

(* and the begin of a test case adds one.                                    *)
LEMMA BeginReports ==
  ASSUME TypeOK, PlaceInv, CaseBegun, suite' = suite
  PROVE  pc = "case" /\ i' = i /\ published' = published /\ \E e \in CaseReport : CaseAdds(e)
<1>0. /\ pc = "case" /\ i' = i /\ published' = published /\ pc \in InCase /\ i \in Nat
      /\ i \in 1 .. Len(suite) /\ Len(Steps) \in Nat /\ DOMAIN Steps = 1 .. Len(Steps)
      /\ suite \in Suites /\ info \in Report /\ i \in DOMAIN suite
      /\ suite[i].contexts \in Nat
  <2>1. pc = "case" /\ i' = i /\ published' = published /\ pc \in InCase
    BY SwallowEffect DEF CaseBegun, CaseBegins, InCase, InLoop
  <2> QED
    BY <2>1, InCaseType, SuiteType DEF TypeOK
<1>1. ASSUME NEW n \in Nat
      PROVE  LET r == CaseStart(info, i, n)
             IN  /\ r \in Report /\ Len(r.cases) = Len(info.cases) + 1 /\ Len(r.cases) # 0
                 /\ r.criteria = info.criteria
                 /\ \A m \in 1 .. Len(info.cases) : r.cases[m] = info.cases[m]
                 /\ CurrentCase(r) \in CaseReport /\ CurrentCase(r).name = i
                 /\ CurrentCase(r).criteria = "N/A" /\ CurrentCase(r).contexts = <<>>
                 /\ Len(CurrentCase(r).steps) = n
  <2>1. PICK e \in CaseReport :
           /\ e.name = i /\ e.criteria = "N/A" /\ e.contexts = <<>> /\ Len(e.steps) = n
           /\ CaseStart(info, i, n).cases = Append(info.cases, e)
           /\ CaseStart(info, i, n) \in Report
           /\ CaseStart(info, i, n).criteria = info.criteria
    <3>1. i \in Nat /\ info \in Report
      BY <1>0
    <3> QED
      BY <1>1, <3>1, CaseStartAppends
  <2>2. info.cases \in Seq(CaseReport) /\ Len(info.cases) \in Nat
    BY <1>0, ReportType
  <2> DEFINE r == CaseStart(info, i, n)
  <2>3. /\ Len(r.cases) = Len(info.cases) + 1 /\ r.cases[Len(info.cases) + 1] = e
        /\ \A m \in 1 .. Len(info.cases) : r.cases[m] = info.cases[m]
    BY <2>1, <2>2, AppendProperties
  <2> HIDE DEF r
  <2>4. CurrentCase(r) = e /\ Len(r.cases) # 0
    BY <2>2, <2>3 DEF CurrentCase, Now
  <2> QED
    BY <2>1, <2>3, <2>4 DEF r
<1>2. CASE info' = CaseStart(info, i, Len(Steps)) /\ Goto("deploy", 1)
  <2> DEFINE r == CaseStart(info, i, Len(Steps))
  <2>1. PICK e \in CaseReport : e = CurrentCase(r)
    BY <1>0, <1>1
  <2>2. /\ e.name = i /\ e.criteria = "N/A" /\ Len(e.steps) = Len(Steps)
        /\ Len(e.contexts) = 0 /\ DOMAIN e.contexts = {}
    BY <1>0, <1>1, <2>1
  <2>3. pc' = "deploy" /\ k' = 1 /\ Steps' = Steps
    BY <1>0, <1>2 DEF Goto, Steps
  <2>4. Open(e)'
    BY <2>2, <2>3 DEF Open
  <2>5. e = info'.cases[Len(info.cases) + 1]
    BY <1>0, <1>1, <1>2, <2>1 DEF CurrentCase, Now
  <2> QED
    BY <1>0, <1>1, <1>2, <2>2, <2>3, <2>4, <2>5 DEF CaseAdds
<1>3. ASSUME NEW s \in Nat, CaseRaises(CaseStart(info, i, s))
      PROVE  \E e \in CaseReport : CaseAdds(e)
  <2> DEFINE r == CaseStart(info, i, s)
  <2>0. s \in Nat
    OBVIOUS
  <2>1. PICK e \in CaseReport : /\ Replaces(CaseEnd(CaseFatal(r)), r, e)
                                /\ e = Settle(CurrentCase(r), "FATAL")
    BY <1>1, <2>0, RaisedReplaces
  <2>2. /\ e.name = i /\ e.criteria = "FATAL" /\ e.status = "FINISHED" /\ e.contexts = <<>>
    BY <1>1, <2>0, <2>1, SettleType DEF Criteria
  <2>3. Closed(e)'
    BY <1>0, <2>2 DEF Closed
  <2>4. /\ info' \in Report /\ info'.criteria = info.criteria
        /\ Len(info'.cases) = Len(info.cases) + 1 /\ info'.cases[Len(info.cases) + 1] = e
        /\ \A n \in 1 .. Len(info.cases) : info'.cases[n] = info.cases[n]
    <3>1. info' = CaseEnd(CaseFatal(r)) /\ Len(r.cases) = Len(info.cases) + 1
          /\ Len(info.cases) \in Nat
      BY <1>0, <1>1, <1>3, <2>0, ReportType DEF CaseRaises
    <3> QED
      BY <1>1, <2>0, <2>1, <3>1 DEF Replaces
  <2>5. pc' = "undeploy"
    BY <1>3 DEF CaseRaises, Goto
  <2> QED
    BY <2>2, <2>3, <2>4, <2>5 DEF CaseAdds
<1>4. CASE Swallow /\ info' = CaseStart(info, i, 0)
  <2> DEFINE r == CaseStart(info, i, 0)
  <2>1. PICK e \in CaseReport : e = CurrentCase(r)
    BY <1>1
  <2>2. e.name = i /\ e.criteria = "N/A" /\ e = info'.cases[Len(info.cases) + 1]
    BY <1>0, <1>1, <1>4, <2>1 DEF CurrentCase, Now
  <2>3. pc' = "undeploy" /\ i \in struck'
    BY <1>4, SwallowEffect
  <2>4. Closed(e)'
    BY <1>0, <2>2, <2>3 DEF Closed
  <2> QED
    BY <1>0, <1>1, <1>4, <2>2, <2>3, <2>4 DEF CaseAdds
<1>5. ASSUME CaseBegins
      PROVE  \/ info' = CaseStart(info, i, Len(Steps)) /\ Goto("deploy", 1)
             \/ \E s \in Nat : CaseRaises(CaseStart(info, i, s))
  BY <1>0, <1>5 DEF CaseBegins, Addable
<1> QED
  BY <1>0, <1>2, <1>3, <1>4, <1>5 DEF CaseBegun

(* The actions that leave the report and the loop over the test cases alone. *)
Aside == \/ Output \/ TerminateAll \/ ExitUndeploy \/ ExitUndeployed \/ Exit
         \/ (\E id \in Id : WorkerExit(id)) \/ UNCHANGED vars

(* The actions, by what they do to the report.                               *)
LEMMA NextReports ==
  ASSUME [Next]_vars
  PROVE  \/ ParseFails \/ ParseExits \/ Parse \/ TaskEnds \/ CaseBegun \/ CaseAction
         \/ KeepContexts \/ Undeploy \/ AllUndeployed \/ Interrupt \/ LostAtBegin \/ Aside
  BY SwallowEffect DEF Next, Main, Gone, CaseAction, CaseBegun, LostAtBegin, Aside

(* Some leave it alone.                                                      *)
LEMMA AsideEffect ==
  ASSUME Aside
  PROVE  /\ UNCHANGED <<suite, i, info>>
         /\ pc' \notin InLoop \cup {"output"} \/ UNCHANGED <<pc, k, published>>
<1>1. CASE Output \/ TerminateAll \/ ExitUndeploy \/ ExitUndeployed \/ Exit
  BY <1>1 DEF Output, TerminateAll, ExitUndeploy, ExitUndeployed, Exit, UndeployContext, Goto,
       InLoop, inputVars
<1>2. CASE (\E id \in Id : WorkerExit(id)) \/ UNCHANGED vars
  BY <1>2 DEF WorkerExit, vars, inputVars
<1> QED
  BY <1>1, <1>2 DEF Aside

(* Every step keeps the types of the reports,                                *)
LEMMA ReportsAreTyped ==
  ASSUME TypeOK, PlaceInv, StartInv, NamesInv, InfoInv, [Next]_vars
  PROVE  info' \in Report /\ published' \in Report
<1>0. info \in Report /\ published \in Report /\ suite' = suite
  BY ControlType DEF TypeOK
<1>1. CASE ParseFails \/ ParseExits \/ TaskEnds \/ Undeploy
  <2>1. published' = published /\ info' \in {info, TaskEnd(info), TaskEnd(TaskFatal(info))}
    BY <1>1 DEF ParseFails, ParseExits, TaskEnds, Undeploy, UndeployContext, TaskRaises
  <2> QED
    BY <1>0, <2>1, TaskEndType, TaskRaisedType
<1>2. CASE CaseBegun
  BY <1>0, <1>2, BeginReports DEF CaseAdds
<1>3. CASE CaseAction
  BY <1>0, <1>3, CaseReports DEF CaseMoves, Replaces
<1>4. CASE Interrupt
  <2>1. published' = published /\ \E report \in Unwound : info' = TaskEnd(report)
    BY <1>4 DEF Interrupt
  <2>2. pc \in InRun => CaseEnd(info) \in Report
    BY CurrentType, CaseEndReplaces DEF Replaces
  <2>3. ASSUME NEW s \in Nat, pc = "case"
        PROVE  CaseEnd(CaseStart(info, i, s)) \in Report
    <3>1. CaseStart(info, i, s) \in Report /\ Len(CaseStart(info, i, s).cases) # 0
      <4>1. i \in Nat /\ info.cases \in Seq(CaseReport)
        BY <1>0, SuiteType, ReportType DEF TypeOK
      <4>2. PICK e \in CaseReport : /\ CaseStart(info, i, s).cases = Append(info.cases, e)
                                    /\ CaseStart(info, i, s) \in Report
        BY <1>0, <2>3, <4>1, CaseStartAppends
      <4> QED
        BY <4>1, <4>2, AppendProperties
    <3> QED
      BY <3>1, CaseEndReplaces DEF Replaces
  <2>4. Unwound \subseteq Report
    BY <1>0, <2>2, <2>3 DEF Unwound, Addable
  <2> QED
    BY <1>0, <2>1, <2>4, TaskEndType
<1>5. CASE Parse \/ KeepContexts \/ AllUndeployed \/ LostAtBegin \/ Output
  BY <1>0, <1>5, SwallowEffect DEF Parse, KeepContexts, AllUndeployed, LostAtBegin, Output
<1>6. CASE Aside /\ ~ Output
  BY <1>0, <1>6 DEF Aside, TerminateAll, ExitUndeploy, ExitUndeployed, Exit, WorkerExit, vars
<1> QED
  BY <1>1, <1>2, <1>3, <1>4, <1>5, <1>6, NextReports DEF Aside

(*********************** the reports of the cases ***************************)

(* The reports keep their names when only the last one is replaced.          *)
LEMMA SameNames ==
  ASSUME NEW r \in Report, Len(r.cases) # 0, NEW x, NEW e, Replaces(x, r, e),
         e.name = CurrentCase(r).name
  PROVE  /\ x \in Report /\ Len(x.cases) = Len(r.cases) /\ DOMAIN x.cases = DOMAIN r.cases
         /\ x.cases # <<>> /\ CurrentCase(x) = e
         /\ \A n \in DOMAIN r.cases : x.cases[n].name = r.cases[n].name
<1>1. x \in Report /\ Len(x.cases) = Len(r.cases)
  BY DEF Replaces
<1>2. DOMAIN x.cases = 1 .. Len(r.cases) /\ DOMAIN r.cases = 1 .. Len(r.cases)
      /\ Len(r.cases) \in Nat
  BY <1>1, ReportType
<1>3. x.cases # <<>>
  BY <1>1
<1>4. CurrentCase(x) = e
  BY ReplacesCurrent
<1>5. \A n \in 1 .. Len(r.cases) : x.cases[n].name = r.cases[n].name
  BY <1>2 DEF Replaces, CurrentCase, Now
<1> QED
  BY <1>1, <1>2, <1>3, <1>4, <1>5

(* their order, which is that of the suite,                                  *)
LEMMA NamesInvariant ==
  ASSUME TypeOK, PlaceInv, StartInv, NamesInv, InfoInv, [Next]_vars
  PROVE  NamesInv'
<1>0. /\ suite' = suite /\ suite \in Suites /\ info \in Report /\ i \in Nat
      /\ DOMAIN suite = 1 .. Len(suite) /\ Len(info.cases) \in Nat
      /\ DOMAIN info.cases = 1 .. Len(info.cases) /\ Len(suite) \in Nat
      /\ struck \subseteq struck'
  BY ControlType, StruckGrows, SuiteType, ReportType DEF TypeOK
<1>1. CASE CaseAction
  <2>1. pc \in InRun /\ i' = i /\ pc \in InLoop /\ pc \notin {"parse", "case"}
    BY <1>1, CaseReports DEF InRun, InLoop
  <2>2. PICK e \in CaseReport : CaseMoves(e)
    BY <1>1, CaseReports
  <2>3. /\ DOMAIN info'.cases = DOMAIN info.cases
        /\ info'.cases # <<>> /\ CurrentCase(info') = e /\ e.name = i
        /\ \A n \in DOMAIN info.cases : info'.cases[n].name = info.cases[n].name
    BY <2>1, <2>2, CurrentType, SameNames DEF CaseMoves
  <2>4. InOrder(info.cases) /\ Reports(info.cases, i)
    BY <2>1 DEF NamesInv
  <2>5. InOrder(info.cases)' /\ Reports(info.cases, i)'
    BY <1>0, <2>1, <2>3, <2>4 DEF InOrder, Reports
  <2>6. pc' \notin {"parse", "case"}
    BY <2>2 DEF CaseMoves, InRun
  <2> QED
    BY <2>1, <2>3, <2>5, <2>6 DEF NamesInv, CurrentCase, Now
<1>2. CASE CaseBegun
  <2>1. pc = "case" /\ pc \in InCase /\ pc \in InLoop /\ i' = i
    BY <1>0, <1>2, BeginReports DEF InCase, InLoop
  <2>2. PICK e \in CaseReport : CaseAdds(e)
    BY <1>0, <1>2, BeginReports
  <2>3. /\ info' \in Report /\ Len(info'.cases) = Len(info.cases) + 1
        /\ info'.cases[Len(info.cases) + 1] = e /\ e.name = i
        /\ \A n \in 1 .. Len(info.cases) : info'.cases[n] = info.cases[n]
        /\ pc' \notin {"parse", "case"}
    BY <2>2 DEF CaseAdds
  <2>4. DOMAIN info'.cases = 1 .. Len(info.cases) + 1 /\ info'.cases # <<>>
    <3>1. DOMAIN info'.cases = 1 .. Len(info'.cases)
      <4>1. PICK x \in Report : x = info'
        BY <2>3
      <4> QED
        BY <4>1, ReportType
    <3> QED
      BY <1>0, <2>3, <3>1
  <2>5. InOrder(info.cases) /\ Reports(info.cases, i)
        /\ \A n \in DOMAIN info.cases : info.cases[n].name < i
    BY <2>1 DEF NamesInv
  <2>6. i \in DOMAIN suite /\ suite[i].meets
    BY <1>0, <2>1, InCaseType DEF PlaceInv
  <2>7. InOrder(info.cases)'
    <3>1. ASSUME NEW n \in DOMAIN info'.cases
          PROVE  info'.cases[n].name \in DOMAIN suite /\ suite[info'.cases[n].name].meets
      <4>1. CASE n = Len(info.cases) + 1
        BY <2>3, <2>6, <4>1
      <4>2. CASE n \in 1 .. Len(info.cases)
        BY <1>0, <2>3, <2>5, <4>2 DEF InOrder
      <4> QED
        BY <1>0, <2>4, <3>1, <4>1, <4>2
    <3>2. ASSUME NEW m \in DOMAIN info'.cases, NEW n \in DOMAIN info'.cases, m < n
          PROVE  info'.cases[m].name < info'.cases[n].name
      <4>1. m \in 1 .. Len(info.cases) /\ info'.cases[m] = info.cases[m]
        BY <1>0, <2>3, <2>4, <3>2
      <4>2. CASE n = Len(info.cases) + 1
        BY <1>0, <2>3, <2>5, <4>1, <4>2
      <4>3. CASE n \in 1 .. Len(info.cases)
        BY <1>0, <2>3, <2>5, <3>2, <4>1, <4>3 DEF InOrder
      <4> QED
        BY <1>0, <2>4, <4>2, <4>3
    <3> QED
      BY <1>0, <3>1, <3>2 DEF InOrder
  <2>8. Reports(info.cases, i)'
    BY <1>0, <2>1, <2>3, <2>4, <2>5 DEF Reports
  <2> QED
    BY <1>0, <2>1, <2>3, <2>4, <2>7, <2>8 DEF NamesInv, CurrentCase, Now
<1>3. CASE Parse
  <2>1. /\ pc = "parse" /\ info' = info /\ pc' \in {"parse", "case"} /\ i <= Len(suite)
        /\ i' = i \/ (i' = i + 1 /\ ~ suite[i].meets)
    BY <1>3 DEF Parse, Goto
  <2>2. /\ InOrder(info.cases) /\ Reports(info.cases, i)
        /\ \A n \in DOMAIN info.cases : info.cases[n].name < i
    BY <2>1 DEF NamesInv, InLoop
  <2>3. InOrder(info.cases)'
    BY <1>0, <2>1, <2>2 DEF InOrder
  <2>4. Reports(info.cases, i)'
    BY <1>0, <2>1, <2>2 DEF Reports
  <2>5. \A n \in DOMAIN info'.cases : info'.cases[n].name < i'
    BY <1>0, <2>1, <2>2 DEF InOrder
  <2> QED
    BY <2>1, <2>3, <2>4, <2>5 DEF NamesInv
<1>4. CASE KeepContexts \/ AllUndeployed
  <2>1. pc = "undeploy" /\ info' = info /\ pc' = "parse" /\ i' = i + 1
    BY <1>4 DEF KeepContexts, AllUndeployed, NextCase, Goto
  <2>2. /\ InOrder(info.cases) /\ Reports(info.cases, i)
        /\ \/ info.cases # <<>> /\ info.cases[Len(info.cases)].name = i
           \/ i \in struck /\ \A n \in DOMAIN info.cases : info.cases[n].name < i
    BY <2>1 DEF NamesInv, Behindhand, InLoop, CurrentCase, Now
  <2>3. \/ Len(info.cases) \in DOMAIN info.cases /\ info.cases[Len(info.cases)].name = i
        \/ i \in struck /\ \A n \in DOMAIN info.cases : info.cases[n].name < i
    <3>1. info.cases \in Seq(CaseReport)
      BY <1>0, ReportType
    <3>2. info.cases # <<>> => Len(info.cases) # 0
      BY <3>1, EmptySeq
    <3> QED
      BY <1>0, <2>2, <3>2
  <2>4. InOrder(info.cases)'
    BY <1>0, <2>1, <2>2 DEF InOrder
  <2>5. Reports(info.cases, i)'
    BY <1>0, <2>1, <2>2, <2>3 DEF Reports
  <2>6. ASSUME NEW n \in DOMAIN info.cases
        PROVE  info.cases[n].name < i + 1
    <3>1. info.cases[n].name \in DOMAIN suite
      BY <2>2 DEF InOrder
    <3>2. (n = Len(info.cases) /\ info.cases[n].name = i) \/ info.cases[n].name < i
      BY <1>0, <2>2, <2>3 DEF InOrder
    <3> QED
      BY <1>0, <3>1, <3>2
  <2> QED
    BY <2>1, <2>4, <2>5, <2>6 DEF NamesInv
<1>5. CASE Undeploy
  <2>1. /\ pc = "undeploy" /\ i' = i
        /\ pc' = "output" \/ (pc' = "undeploy" /\ info' = info)
    BY <1>5 DEF Undeploy, UndeployContext, TaskRaises, Goto
  <2> QED
    BY <1>0, <2>1 DEF NamesInv, Behindhand, InLoop, InOrder, Reports, CurrentCase, Now
<1>6. CASE ParseFails \/ ParseExits \/ TaskEnds \/ Interrupt
  BY <1>6 DEF ParseFails, ParseExits, TaskEnds, Interrupt, TaskRaises, Goto, NamesInv, InLoop
<1>7. CASE Aside
  <2>1. CASE pc' \notin InLoop
    BY <2>1 DEF NamesInv
  <2>2. CASE UNCHANGED <<suite, i, info, pc>>
    BY <1>0, <2>2 DEF NamesInv, Behindhand, InOrder, Reports, CurrentCase, Now
  <2> QED
    BY <1>7, <2>1, <2>2, AsideEffect
<1>8. CASE LostAtBegin
  <2>1. /\ pc = "case" /\ pc' = "undeploy" /\ i' = i /\ info' = info /\ i \in struck'
    BY <1>8, SwallowEffect DEF LostAtBegin
  <2>2. InOrder(info.cases) /\ Reports(info.cases, i)
        /\ \A n \in DOMAIN info.cases : info.cases[n].name < i
    BY <2>1 DEF NamesInv, InLoop
  <2> QED
    BY <1>0, <2>1, <2>2 DEF NamesInv, Behindhand, InOrder, Reports
<1> QED
  BY <1>1, <1>2, <1>3, <1>4, <1>5, <1>6, <1>7, <1>8, NextReports

(* What is open stays open while a worker ends.                              *)
LEMMA OpenStays ==
  ASSUME TypeOK, PlaceInv, StartInv, NamesInv, InfoInv, [Next]_vars, pc \in InRun,
         UNCHANGED <<suite, pc, i, k>>, NEW e, Open(e)
  PROVE  Open(e)'
<1>1. (Len(Steps) \in Nat /\ k \in Nat /\ k <= Len(Steps) + 1) \/ pc = "deploy"
  BY CurrentType DEF PlaceInv, InRun, TypeOK
<1>2. ASSUME pc # "deploy", ReportedBefore(e, k)
      PROVE  ReportedBefore(e, k)'
  <2>1. ASSUME NEW s \in 1 .. k - 1
        PROVE  SuccessfulStep(<<i, s>>) => SuccessfulStep(<<i, s>>)'
    <3>1. <<i, s>> \in Id
      BY <1>1, <1>2, CurrentType, InCaseType
    <3>2. PICK id \in Id : id = <<i, s>>
      BY <3>1
    <3>3. SuccessfulStep(id) => SuccessfulStep(id)'
      BY SuccessStays
    <3> QED
      BY <3>2, <3>3 DEF SuccessfulStep
  <2> QED
    BY <1>2, <2>1 DEF ReportedBefore
<1> QED
  BY <1>2 DEF Open, Steps

(* what they say of the steps and contexts,                                  *)
LEMMA InfoInvariant ==
  ASSUME TypeOK, PlaceInv, StartInv, NamesInv, InfoInv, [Next]_vars
  PROVE  InfoInv'
<1>0. /\ info \in Report /\ DOMAIN info.cases = 1 .. Len(info.cases) /\ Len(info.cases) \in Nat
  BY ReportType DEF TypeOK
<1>1. CASE CaseAction
  <2>1. pc \in InRun /\ pc \in InLoop
    BY <1>1, CaseReports DEF InRun, InLoop
  <2>2. PICK e \in CaseReport : CaseMoves(e)
    BY <1>1, CaseReports
  <2>3. /\ DOMAIN info'.cases = DOMAIN info.cases /\ CurrentCase(info') = e
        /\ Len(info'.cases) = Len(info.cases) /\ e = info'.cases[Len(info.cases)]
        /\ \A n \in 1 .. Len(info.cases) - 1 : info'.cases[n] = info.cases[n]
        /\ info'.criteria = "N/A"
    <3>1. info.criteria = "N/A"
      BY <2>1 DEF InfoInv
    <3>2. Replaces(info', info, e) /\ e.name = CurrentCase(info).name
      BY <2>1, <2>2, CurrentType DEF CaseMoves
    <3>3. DOMAIN info'.cases = DOMAIN info.cases /\ CurrentCase(info') = e
      BY <2>1, <3>2, CurrentType, SameNames
    <3> QED
      BY <3>1, <3>2, <3>3 DEF Replaces
  <2>4. ASSUME NEW n \in DOMAIN info.cases, n # Len(info.cases)
        PROVE  Closed(info.cases[n])'
    <3>1. Closed(info.cases[n])
      BY <2>1, <2>4 DEF InfoInv, Now
    <3>2. PICK d : d = info.cases[n]
      OBVIOUS
    <3>3. Closed(d)'
      BY <3>1, <3>2, ClosedStays
    <3> QED
      BY <1>0, <2>3, <2>4, <3>2, <3>3 DEF Closed, Clean
  <2>5. pc' \in InRun \/ Closed(info.cases[Len(info.cases)])'
    BY <2>2, <2>3 DEF CaseMoves, Closed, Clean
  <2>6. pc' \in InRun => Open(CurrentCase(info))'
    <3>1. pc' \in InRun => Open(e)'
      BY <2>2 DEF CaseMoves, InRun
    <3> QED
      BY <2>3, <3>1 DEF Open, ReportedBefore, CurrentCase, Now
  <2> QED
    BY <2>3, <2>4, <2>5, <2>6 DEF InfoInv, Now
<1>2. CASE CaseBegun
  <2>0. suite' = suite
    BY ControlType
  <2>1. pc = "case" /\ pc \in InLoop /\ pc \notin InRun
    BY <1>2, <2>0, BeginReports DEF InLoop, InRun
  <2>2. PICK e \in CaseReport : CaseAdds(e)
    BY <1>2, <2>0, BeginReports
  <2>3. /\ info' \in Report /\ info'.criteria = "N/A"
        /\ Len(info'.cases) = Len(info.cases) + 1 /\ info'.cases[Len(info.cases) + 1] = e
        /\ \A n \in 1 .. Len(info.cases) : info'.cases[n] = info.cases[n]
    BY <2>1, <2>2 DEF CaseAdds, InfoInv
  <2>4. DOMAIN info'.cases = 1 .. Len(info.cases) + 1
    <3>1. PICK x \in Report : x = info'
      BY <2>3
    <3> QED
      BY <2>3, <3>1, ReportType
  <2>5. ASSUME NEW n \in 1 .. Len(info.cases)
        PROVE  Closed(info.cases[n])'
    <3>1. PICK d : d = info.cases[n]
      OBVIOUS
    <3>2. Closed(d)
      BY <1>0, <2>1, <3>1 DEF InfoInv
    <3>3. Closed(d)'
      BY <3>2, ClosedStays
    <3> QED
      BY <2>3, <3>1, <3>3 DEF Closed, Clean
  <2>6. CASE pc' = "deploy" /\ Open(e)'
    <3>1. Open(CurrentCase(info))'
      BY <2>3, <2>6 DEF Open, ReportedBefore, CurrentCase, Now
    <3>2. \A n \in DOMAIN info'.cases : n = Len(info'.cases) \/ Closed(info.cases[n])'
      BY <1>0, <2>3, <2>4, <2>5
    <3> QED
      BY <2>3, <2>6, <3>1, <3>2 DEF InfoInv, InRun, Now
  <2>7. CASE pc' = "undeploy" /\ Closed(e)'
    <3>1. Closed(info.cases[Len(info.cases)])'
      BY <2>3, <2>7 DEF Closed, Clean
    <3>2. \A n \in DOMAIN info'.cases : Closed(info.cases[n])'
      BY <1>0, <2>3, <2>4, <2>5, <3>1
    <3> QED
      BY <2>3, <2>7, <3>2 DEF InfoInv, InRun
  <2> QED
    BY <2>2, <2>6, <2>7 DEF CaseAdds
<1>3. CASE Parse \/ KeepContexts \/ AllUndeployed \/ (Undeploy /\ pc' # "output") \/ LostAtBegin
  <2>1. pc \in InLoop /\ pc \notin InRun /\ pc' \notin InRun /\ info' = info
    BY <1>3, SwallowEffect DEF LostAtBegin, Parse, KeepContexts, AllUndeployed, Undeploy,
         UndeployContext, TaskRaises, NextCase, Goto, InLoop, InRun
  <2>2. ASSUME NEW n \in DOMAIN info.cases
        PROVE  Closed(info.cases[n])'
    <3>1. PICK d : d = info.cases[n]
      OBVIOUS
    <3>2. Closed(d)
      BY <2>1, <3>1 DEF InfoInv
    <3>3. Closed(d)'
      BY <3>2, ClosedStays
    <3> QED
      BY <2>1, <3>1, <3>3 DEF Closed, Clean
  <2> QED
    BY <2>1, <2>2 DEF InfoInv
<1>4. CASE ParseFails \/ ParseExits \/ TaskEnds \/ Interrupt \/ (Undeploy /\ pc' = "output")
  BY <1>4 DEF ParseFails, ParseExits, TaskEnds, Interrupt, TaskRaises, Goto, InfoInv, InLoop
<1>5. CASE Aside
  <2>1. CASE pc' \notin InLoop
    BY <2>1 DEF InfoInv
  <2>2. CASE UNCHANGED <<suite, i, info, pc, k>> /\ pc \in InLoop
    <3>1. ASSUME NEW n \in DOMAIN info.cases, Closed(info.cases[n])
          PROVE  Closed(info.cases[n])'
      <4>1. PICK d : d = info.cases[n]
        OBVIOUS
      <4>2. Closed(d)'
        BY <3>1, <4>1, ClosedStays
      <4> QED
        BY <2>2, <4>1, <4>2 DEF Closed, Clean
    <3>2. ASSUME pc \in InRun
          PROVE  Open(CurrentCase(info))'
      <4>1. PICK d : d = CurrentCase(info)
        OBVIOUS
      <4>2. Open(d)'
        BY <2>2, <3>2, <4>1, OpenStays DEF InfoInv
      <4> QED
        BY <2>2, <4>1, <4>2 DEF Open, ReportedBefore, CurrentCase, Now
    <3> QED
      BY <2>2, <3>1, <3>2 DEF InfoInv, Now
  <2> QED
    BY <1>5, <2>1, <2>2, AsideEffect
<1> QED
  BY <1>1, <1>2, <1>3, <1>4, <1>5, NextReports

(**************************** what is published *****************************)

(* (which no later step makes untrue of a published report)                  *)
LEMMA GoodStays ==
  ASSUME TypeOK, PlaceInv, StartInv, [Next]_vars, NEW r, Good(r)
  PROVE  Good(r)'
<1>1. suite' = suite /\ struck \subseteq struck'
  BY ControlType, StruckGrows
<1>2. ASSUME NEW n \in DOMAIN r.cases
      PROVE  Closed(r.cases[n])'
  BY ClosedStays DEF Good
<1> QED
  BY <1>1, <1>2 DEF Good, InOrder, Reports

(* and what was published.                                                   *)
LEMMA PublishedInvariant ==
  ASSUME TypeOK, PlaceInv, StartInv, NamesInv, InfoInv, PublishedInv, [Next]_vars
  PROVE  PublishedInv'
<1>0. /\ info \in Report /\ DOMAIN info.cases = 1 .. Len(info.cases)
      /\ \A n \in DOMAIN info.cases : info.cases[n] \in CaseReport
      /\ suite' = suite /\ suite \in Suites /\ DOMAIN suite = 1 .. Len(suite)
      /\ Len(suite) \in Nat /\ i \in Nat /\ i <= Len(suite) + 1
  BY ControlType, SuiteType, ReportType DEF TypeOK, PlaceInv
<1>1. \A r : Good(r) => Good(r)'
  BY GoodStays
(* A task that raises is fatal, and one that ends passes only if complete.   *)
<1>2. ASSUME pc \in {"parse", "undeploy"}, NEW x \in Report, x.cases = info.cases,
             x.criteria # "N/A",
             x.criteria = "PASS" => i > Len(suite) /\ pc = "parse" /\
                                    \A n \in DOMAIN info.cases : ~ BadCase(info.cases[n])
      PROVE  Good(x)
  <2>1. \A n \in DOMAIN x.cases : Closed(x.cases[n])
    BY <1>2 DEF InfoInv, InRun, InLoop
  <2>2. ASSUME x.criteria = "PASS"
        PROVE  /\ InOrder(x.cases) /\ Reports(x.cases, Len(suite) + 1)
               /\ \A n \in DOMAIN x.cases : \/ x.cases[n].criteria = "PASS"
                                           \/ x.cases[n].name \in struck
    <3>1. InOrder(x.cases) /\ Reports(x.cases, i) /\ i = Len(suite) + 1
      BY <1>0, <1>2, <2>2 DEF NamesInv, InLoop
    <3>2. ASSUME NEW n \in DOMAIN x.cases
          PROVE  x.cases[n].criteria = "PASS" \/ x.cases[n].name \in struck
      <4>1. /\ x.cases[n].criteria \in Criteria
            /\ x.cases[n].name \notin struck => x.cases[n].criteria # "N/A"
        BY <1>0, <1>2, <2>1, CaseType DEF Closed
      <4> QED
        BY <1>2, <2>2, <4>1 DEF BadCase, Criteria
    <3> QED
      BY <3>1, <3>2
  <2> QED
    BY <1>2, <2>1, <2>2 DEF Good
<1>3. ASSUME pc' = "output"
      PROVE  Good(info)'
  <2>1. CASE ParseFails \/ TaskEnds \/ Undeploy
    <3>0. pc \in {"parse", "undeploy"} /\ info.criteria = "N/A"
      BY <2>1 DEF ParseFails, TaskEnds, Undeploy, InfoInv, InLoop
    <3>1. info' = TaskEnd(TaskFatal(info)) \/ (TaskEnds /\ info' = TaskEnd(info))
      BY <1>3, <2>1, <3>0
         DEF ParseFails, TaskEnds, Undeploy, UndeployContext, TaskRaises, Goto
    <3>2. PICK x : x = info'
      OBVIOUS
    <3>3. ASSUME info' = TaskEnd(TaskFatal(info))
          PROVE  Good(x)
      <4>1. x \in Report /\ x.cases = info.cases /\ x.criteria = "FATAL"
        BY <1>0, <3>2, <3>3, TaskRaisedType
      <4> QED
        BY <1>2, <3>0, <4>1
    <3>4. ASSUME TaskEnds, info' = TaskEnd(info)
          PROVE  Good(x)
      <4>1. /\ x \in Report /\ x.cases = info.cases /\ x.criteria # "N/A"
            /\ x.criteria = "PASS" => \A n \in DOMAIN info.cases : ~ BadCase(info.cases[n])
        BY <1>0, <3>0, <3>2, <3>4, TaskEndType
      <4>2. i > Len(suite) /\ pc = "parse"
        BY <3>4 DEF TaskEnds
      <4> QED
        BY <1>2, <3>0, <4>1, <4>2
    <3>5. Good(x)
      BY <3>1, <3>3, <3>4
    <3>6. Good(x)'
      BY <1>1, <3>5
    <3> QED
      BY <3>2, <3>6 DEF Good, Closed, Clean, InOrder, Reports
  <2>2. CASE Aside
    <3>1. UNCHANGED info /\ pc = "output"
      BY <1>3, <2>2, AsideEffect
    <3>2. PICK x : x = info
      OBVIOUS
    <3>3. Good(x)'
      BY <1>1, <3>1, <3>2 DEF PublishedInv
    <3> QED
      BY <3>1, <3>2, <3>3 DEF Good, Closed, Clean, InOrder, Reports
  <2>3. CASE CaseBegun
    BY <1>0, <1>3, <2>3, BeginReports DEF CaseAdds
  <2>4. CASE CaseAction
    BY <1>3, <2>4, CaseReports DEF CaseMoves, InRun
  <2>5. CASE ParseExits \/ Parse \/ KeepContexts \/ AllUndeployed \/ Interrupt \/ LostAtBegin
    BY <1>3, <2>5, SwallowEffect DEF LostAtBegin, ParseExits, Parse, KeepContexts, AllUndeployed,
         Interrupt, NextCase, Goto
  <2> QED
    BY <2>1, <2>2, <2>3, <2>4, <2>5, NextReports
<1>4. published' = published \/ (published' = info /\ pc = "output")
  <2>1. CASE CaseBegun \/ CaseAction
    BY <1>0, <2>1, BeginReports, CaseReports
  <2>2. CASE Aside
    BY <2>2 DEF Aside, Output, TerminateAll, ExitUndeploy, ExitUndeployed, Exit, WorkerExit, vars
  <2>3. CASE \/ ParseFails \/ ParseExits \/ Parse \/ TaskEnds \/ KeepContexts \/ Undeploy
             \/ AllUndeployed \/ Interrupt \/ LostAtBegin
    BY <2>3, SwallowEffect DEF LostAtBegin, ParseFails, ParseExits, Parse, TaskEnds,
         KeepContexts, Undeploy, AllUndeployed, Interrupt
  <2> QED
    BY <2>1, <2>2, <2>3, NextReports
<1>5. ASSUME IsPublished'
      PROVE  Good(published)'
  <2>1. PICK x : x = published'
    OBVIOUS
  <2>2. Good(x)
    BY <1>4, <1>5, <2>1 DEF PublishedInv, IsPublished
  <2>3. Good(x)'
    BY <1>1, <2>2
  <2> QED
    BY <2>1, <2>3 DEF Good, Closed, Clean, InOrder, Reports
<1> QED
  BY <1>3, <1>5 DEF PublishedInv

(***************************** the induction ********************************)

(* The invariant holds at the start.                                         *)
LEMMA InitInv == Init => IInv
<1> SUFFICES ASSUME Init
             PROVE  IInv
  OBVIOUS
<1>1. /\ suite \in Suites /\ keep \in KeepDeploy /\ keep \in BOOLEAN /\ pc = "parse"
      /\ i = 1 /\ k = 1 /\ contexts = <<>> /\ runners = <<>> /\ spoilt = FALSE
      /\ inputs = {} /\ outputs = {} /\ struck = {}
  BY TaskAssumption DEF Init
<1>2. /\ ctx = [c \in ContextId |-> "none"] /\ proc = [id \in Id |-> "none"]
      /\ outcome = [id \in Id |-> "none"] /\ seen = [id \in Id |-> {}]
  BY DEF Init
<1>3. /\ info.criteria = "N/A" /\ info.status = "IN_PROGRESS" /\ info.cases = <<>>
      /\ info \in Report /\ published = info /\ Len(info.cases) = 0
      /\ DOMAIN info.cases = {}
  BY DEF Init, NewInfo, Report, Criteria, Status
<1>4. TypeOK
  <2>1. i \in 1 .. MaxCases + 1 /\ k \in Nat
    BY <1>1, SuiteType
  <2>2. contexts \in Seq(ContextId) /\ runners \in Seq(Id)
    BY <1>1
  <2>3. /\ ctx \in [ContextId -> {"none", "created", "deployed", "undeployed"}]
        /\ proc \in [Id -> {"none", "alive", "exited", "killed"}]
        /\ outcome \in [Id -> Outcome \cup {"none"}]
        /\ seen \in [Id -> SUBSET Id]
    BY <1>2
  <2> QED
    BY <1>1, <1>3, <2>1, <2>2, <2>3 DEF TypeOK
<1>5. PlaceInv
  BY <1>1, SuiteType DEF PlaceInv, InCase, InLoop
<1>6. ContextInv
  BY <1>1, <1>2 DEF ContextInv, Deployed
<1>7. StartInv /\ SerialInv /\ DataInv /\ OutputsAreChained
  BY <1>1, <1>2 DEF StartInv, SerialInv, DataInv, OutputsAreChained, Started, Alive
<1>8. NamesInv
  <2>1. \A c \in DOMAIN suite : ~ c < 1
    BY <1>1, SuiteType
  <2> QED
    BY <1>1, <1>3, <2>1 DEF NamesInv, InOrder, Reports
<1>9. InfoInv
  BY <1>1, <1>3 DEF InfoInv, InRun
<1>10. PublishedInv
  BY <1>1, <1>3 DEF PublishedInv, IsPublished
<1> QED
  BY <1>4, <1>5, <1>6, <1>7, <1>8, <1>9, <1>10 DEF IInv

(* Every step keeps the types.                                               *)
LEMMA TypeInvariant ==
  ASSUME IInv, [Next]_vars
  PROVE  TypeOK'
<1>1. TypeOK /\ PlaceInv /\ StartInv /\ NamesInv /\ InfoInv
  BY DEF IInv
<1>2. suite' \in Suites /\ keep' \in KeepDeploy
  BY <1>1, ControlType DEF TypeOK
<1> QED
  BY <1>1, <1>2, ControlType, ContextsAreTyped, RunnersAreTyped, WorkersAreTyped, ReportsAreTyped
     DEF TypeOK

(* Every step keeps the invariant.                                           *)
LEMMA NextInv == IInv /\ [Next]_vars => IInv'
<1> SUFFICES ASSUME IInv, [Next]_vars
             PROVE  IInv'
  OBVIOUS
<1>1. /\ TypeOK /\ PlaceInv /\ ContextInv /\ StartInv /\ SerialInv
      /\ DataInv /\ OutputsAreChained /\ NamesInv /\ InfoInv /\ PublishedInv
  BY DEF IInv
<1>2. TypeOK'
  BY TypeInvariant
<1>3. PlaceInv' /\ ContextInv' /\ StartInv' /\ SerialInv'
  BY <1>1, PlaceInvariant, ContextInvariant, StartInvariant, SerialInvariant
<1>4. DataInv' /\ OutputsAreChained' /\ NamesInv'
  BY <1>1, DataInvariant, ChainInvariant, NamesInvariant
<1>5. InfoInv' /\ PublishedInv'
  BY <1>1, InfoInvariant, PublishedInvariant
<1> QED
  BY <1>2, <1>3, <1>4, <1>5 DEF IInv

(* The invariant holds in every state of every behaviour.                    *)
THEOREM Inductive == Spec => []IInv
  BY InitInv, NextInv, PTL DEF Spec

(* The types of the orchestrator: the main loop stays in the suite.          *)
THEOREM TypeCorrect == Spec => []TypeOK
<1>1. IInv => TypeOK
  BY DEF IInv
<1> QED
  BY <1>1, Inductive, PTL

(* A serial suite has at most one worker at a time, and none while a context *)
(* is deployed or undeployed.                                                *)
THEOREM OneWorker == Spec => []SerialIsExclusive
<1>1. IInv => SerialIsExclusive
  BY SerialRunsOne DEF IInv
<1> QED
  BY <1>1, Inductive, PTL

(* A worker of a serial suite starts with the outputs of every worker that   *)
(* was started before it, and with no others.                                *)
THEOREM Chained == Spec => []OutputsAreChained
<1>1. IInv => OutputsAreChained
  BY DEF IInv
<1> QED
  BY <1>1, Inductive, PTL

(* No context outlives its test case, or the program, but for an undeploy    *)
(* that raised or was interrupted.                                           *)
THEOREM ContextsEnd == Spec => []NoContextLeaks
<1>1. IInv => NoContextLeaks
  BY ContextsAreUndeployed DEF IInv
<1> QED
  BY <1>1, Inductive, PTL

(* In a published report the task, every test case and every context has its *)
(* end, but for the test cases that lost an interrupt.                       *)
THEOREM Settled == Spec => []PublishedIsSettled
<1>1. IInv => PublishedIsSettled
  BY DEF IInv, PublishedInv, PublishedIsSettled, Good, Closed
<1> QED
  BY <1>1, Inductive, PTL

(* A test case that is published as PASS had all its contexts deployed and   *)
(* all its steps run to a clean end.                                         *)
THEOREM PassedCase == Spec => []PassedCaseIsClean
<1>1. IInv => PassedCaseIsClean
  BY DEF IInv, PublishedInv, PassedCaseIsClean, Good, Closed, Clean
<1> QED
  BY <1>1, Inductive, PTL

(* A task that is published as PASS ran the test cases that meet their       *)
(* preconditions, no others, in the order of the suite, and all of them      *)
(* passed, but for those an interrupt came in.                               *)
THEOREM PassedTask == Spec => []PassedTaskIsComplete
<1>1. ASSUME IInv, IsPublished, published.criteria = "PASS"
      PROVE  /\ InOrder(published.cases)
             /\ \A n \in DOMAIN published.cases : \/ published.cases[n].criteria = "PASS"
                                                 \/ published.cases[n].name \in struck
             /\ Reports(published.cases, Len(suite) + 1)
  BY <1>1 DEF IInv, PublishedInv, Good
<1>2. IInv => \A c \in DOMAIN suite : c < Len(suite) + 1
  BY SuiteType DEF IInv, TypeOK
<1>3. IInv => PassedTaskIsComplete
  BY <1>1, <1>2 DEF PassedTaskIsComplete, Reports
<1> QED
  BY <1>3, Inductive, PTL
=============================================================================
