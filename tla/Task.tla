-------------------------------- MODULE Task --------------------------------
(* The task orchestrator, class Task of vnftest/core/task.py: run the test  *)
(* cases of a suite one after the other, each in its contexts, each step in *)
(* a worker process, and report.  A runner is seen here as RunnerContract   *)
(* promises it: a process that may end at any time, and a join that then    *)
(* returns its exit code and all of its records.                            *)
EXTENDS TaskInfo, FiniteSets, SequencesExt

CONSTANTS MaxCases, MaxSteps, MaxContexts,  \* bounds on a suite
          Suites,                           \* the suites a task may be given
          KeepDeploy                        \* the values of --keep-deploy

(* What a step is configured as.  A background step runs under a Duration    *)
(* runner, and the _run_step() of every runner but Iteration takes one       *)
(* argument less than Runner.run() gives it: "unsupported".  The pre-start   *)
(* action of a "broken" step fails; the records of a step with "actions"     *)
(* have no timestamp; a "nameless" step has no name.                         *)
StepKind == {"plain", "background", "unsupported", "broken", "actions", "nameless"}
Case == [steps : Seq(StepKind), parallel : BOOLEAN, contexts : 0 .. MaxContexts, meets : BOOLEAN]

ASSUME TaskAssumption ==
  /\ MaxCases \in Nat /\ MaxSteps \in Nat /\ MaxContexts \in Nat
  /\ KeepDeploy \subseteq BOOLEAN
  /\ \A suite \in Suites : /\ suite \in Seq(Case)
                           /\ Len(suite) <= MaxCases
                           /\ \A c \in DOMAIN suite : Len(suite[c].steps) <= MaxSteps

Id == (1 .. MaxCases) \X (1 .. MaxSteps)
ContextId == (1 .. MaxCases) \X (1 .. MaxContexts)

(* how a worker ends, and what its records tell (see IterationWorker) *)
Outcome == {"clean", "errors", "failed", "crashed"}
ExitsWithZero(o) == o \in {"clean", "errors"}
HasErrors(o) == o \in {"errors", "failed"}

VARIABLES
  suite, keep,   \* the input
  pc,            \* where the main process is
  i, k,          \* the test case, and the context or step of the current loop
  info,          \* self.task_info
  published,     \* what the dispatchers were given
  contexts,      \* self.contexts, None being the empty sequence
  ctx,           \* the life of each context
  runners,       \* Runner.runners
  proc,          \* the life of each worker process
  outcome,       \* how it ended
  inputs, outputs,  \* the steps whose outputs are in the two dictionaries
  seen,          \* history: the inputs each worker was started with
  spoilt,        \* history: an undeploy raised or was interrupted
  struck         \* history: the test cases an interrupt came in

inputVars == <<suite, keep>>
workerVars == <<proc, outcome>>
dataVars == <<inputs, outputs, seen>>
vars == <<inputVars, pc, i, k, info, published, contexts, ctx, runners, workerVars, dataVars, spoilt, struck>>

Steps == suite[i].steps
IsBackground(s) == Steps[s] = "background"
HasBackground == \E s \in DOMAIN Steps : IsBackground(s)
Alive(id) == proc[id] = "alive"

Init == /\ suite \in Suites /\ keep \in KeepDeploy
        /\ pc = "parse" /\ i = 1 /\ k = 1
        /\ info = NewInfo /\ published = NewInfo
        /\ contexts = <<>>
        /\ ctx = [c \in ContextId |-> "none"]
        /\ runners = <<>>
        /\ proc = [id \in Id |-> "none"]
        /\ outcome = [id \in Id |-> "none"]
        /\ inputs = {} /\ outputs = {}
        /\ seen = [id \in Id |-> {}]
        /\ spoilt = FALSE /\ struck = {}

Goto(label, n) == pc' = label /\ k' = n

(************************ start(): the loop over the cases *****************)

(* the outer except and finally clauses of start() *)
TaskRaises == /\ info' = TaskEnd(TaskFatal(info))
              /\ Goto("output", 1)

ParseFails == /\ pc = "parse" /\ i <= Len(suite)
              /\ TaskRaises
              /\ UNCHANGED <<inputVars, i, published, contexts, ctx, runners, workerVars, dataVars, spoilt>>

(* an unreadable file or an unknown schema leaves by SystemExit *)
ParseExits == /\ pc = "parse" /\ i <= Len(suite)
              /\ info' = TaskEnd(info)
              /\ Goto("atexit", 1)
              /\ UNCHANGED <<inputVars, i, published, contexts, ctx, runners, workerVars, dataVars, spoilt>>

(* The contexts of a case are assigned before its precondition is looked at. *)
Parse == /\ pc = "parse" /\ i <= Len(suite)
         /\ contexts' = [n \in 1 .. suite[i].contexts |-> <<i, n>>]
         /\ ctx' = [c \in ContextId |-> IF c[1] = i /\ c[2] <= suite[i].contexts
                                        THEN "created" ELSE ctx[c]]
         /\ inputs' = outputs
         /\ IF suite[i].meets THEN Goto("case", 1) /\ i' = i
                              ELSE Goto("parse", 1) /\ i' = i + 1
         /\ UNCHANGED <<inputVars, info, published, runners, workerVars, outputs, seen, spoilt>>

TaskEnds == /\ pc = "parse" /\ i > Len(suite)
            /\ info' = TaskEnd(info)
            /\ Goto("output", 1)
            /\ UNCHANGED <<inputVars, i, published, contexts, ctx, runners, workerVars, dataVars, spoilt>>

(******************************* _run() ************************************)

(* the except and finally clauses of _run(); the caller goes on as if the    *)
(* case had ended                                                            *)
CaseRaisesOut(report) == /\ info' = TaskEnd(TaskFatal(CaseEnd(report)))   \* variant
                         /\ Goto("output", 1)
CaseRaises(report) == /\ info' = CaseEnd(CaseFatal(report))
                      /\ Goto("undeploy", 1)

(* step_add() is called for as many steps as come before a nameless one *)
Addable == {s \in 0 .. Len(Steps) : \A t \in 1 .. s : Steps[t] # "nameless"}
CaseBegins ==
  /\ pc = "case"
  /\ IF Len(Steps) \in Addable
     THEN info' = CaseStart(info, i, Len(Steps)) /\ Goto("deploy", 1)
     ELSE \E s \in Addable : /\ \A t \in Addable : t <= s
                             /\ CaseRaises(CaseStart(info, i, s))
  /\ UNCHANGED <<inputVars, i, published, contexts, ctx, runners, workerVars, dataVars, spoilt>>

(* a deploy() that raises may leave something behind for undeploy() *)
Deploy == /\ pc = "deploy" /\ k <= Len(contexts)
          /\ LET reported == ContextEnd(ContextStart(info))
                 deployed == [ctx EXCEPT ![contexts[k]] = "deployed"]
             IN  \/ /\ ctx' = deployed
                    /\ info' = reported /\ Goto("deploy", k + 1)
                 \/ CaseRaises(reported) /\ ctx' \in {ctx, deployed}
          /\ UNCHANGED <<inputVars, i, published, contexts, runners, workerVars, dataVars, spoilt>>

(* The first background step is started, and fails, before any other step.   *)
AllDeployed == /\ pc = "deploy" /\ k > Len(contexts)
               /\ ~ HasBackground
               /\ Goto("start", 1)
               /\ UNCHANGED <<inputVars, i, info, published, contexts, ctx, runners, workerVars, dataVars, spoilt>>

(* run_one_step(): a runner is created and registered, and run() may raise.  *)
RunOneStep(s, next, n) ==
  /\ runners' = Append(runners, <<i, s>>)
  /\ inputs' = inputs \cup outputs
  /\ IF Steps[s] \in {"unsupported", "background"}
     THEN CaseRaises(StepStart(info, s)) /\ UNCHANGED <<workerVars, seen>>
     ELSE /\ info' = StepStart(info, s)
          /\ seen' = [seen EXCEPT ![<<i, s>>] = inputs']
          /\ proc' = IF Steps[s] = "broken" THEN proc ELSE [proc EXCEPT ![<<i, s>>] = "alive"]
          /\ Goto(next, n)
          /\ UNCHANGED outcome
  /\ UNCHANGED <<inputVars, i, published, contexts, ctx, outputs, spoilt>>

StartBackground == /\ pc = "deploy" /\ k > Len(contexts)
                   /\ \E s \in DOMAIN Steps : /\ IsBackground(s)
                                              /\ \A t \in 1 .. s - 1 : ~ IsBackground(t)
                                              /\ RunOneStep(s, "start", 1)

(* in parallel all steps are started before the first is waited for *)
StartStepAhead == /\ pc = "start" /\ k <= Len(Steps)                    \* variant
                  /\ RunOneStep(k, "start", k + 1)
StartStep == /\ pc = "start" /\ k <= Len(Steps)
             /\ IF suite[i].parallel THEN RunOneStep(k, "start", k + 1)
                                     ELSE RunOneStep(k, "join", k)

AllStarted == /\ pc = "start" /\ k > Len(Steps)
              /\ IF suite[i].parallel
                 THEN Goto("join", 1) /\ UNCHANGED info
                 ELSE info' = CaseEnd(info) /\ Goto("undeploy", 1)
              /\ UNCHANGED <<inputVars, i, published, contexts, ctx, runners, workerVars, dataVars, spoilt>>

(* finalize_step(): the outputs are merged and the runner released before    *)
(* the report and the exit code are looked at                                *)
Release(id) ==
  \/ \E n \in DOMAIN runners : runners[n] = id /\ runners' = RemoveAt(runners, n)
  \/ (\A n \in DOMAIN runners : runners[n] # id) /\ UNCHANGED runners
JoinedReplaces(id) == outputs' = {id} /\ Release(id)                   \* variant
Joined(id) == outputs' = outputs \cup {id} /\ Release(id)

Reported(s) == StepEnd(info, s, HasErrors(outcome[<<i, s>>]))

AfterJoin(s) ==
  IF Steps[s] = "actions" THEN CaseRaises(info)
  ELSE IF ExitsWithZero(outcome[<<i, s>>])
       THEN /\ info' = Reported(s)
            /\ IF suite[i].parallel THEN Goto("join", s + 1) ELSE Goto("start", s + 1)
       ELSE CaseRaises(Reported(s))

JoinStep ==
  /\ pc = "join" /\ k <= Len(Steps)
  /\ proc[<<i, k>>] = "exited"
  /\ Joined(<<i, k>>)
  /\ AfterJoin(k)
  /\ UNCHANGED <<inputVars, i, published, contexts, ctx, workerVars, inputs, seen, spoilt>>

(* poll() of a runner that has no process raises; the runner is not released *)
JoinBrokenNever == FALSE                                               \* variant
JoinBroken == /\ pc = "join" /\ k <= Len(Steps)
              /\ proc[<<i, k>>] = "none"
              /\ CaseRaises(info)
              /\ UNCHANGED <<inputVars, i, published, contexts, ctx, runners, workerVars, dataVars, spoilt>>

AllJoined == /\ pc = "join" /\ k > Len(Steps)
             /\ info' = CaseEnd(info)
             /\ Goto("undeploy", 1)
             /\ UNCHANGED <<inputVars, i, published, contexts, ctx, runners, workerVars, dataVars, spoilt>>

(*********************** start(): the end of a case ************************)

NextButOne == i' = i + 2 /\ Goto("parse", 1)                           \* variant
NextCase == i' = i + 1 /\ Goto("parse", 1)

KeepContexts == /\ pc = "undeploy" /\ keep
                /\ contexts' = <<>>
                /\ NextCase
                /\ UNCHANGED <<inputVars, info, published, ctx, runners, workerVars, dataVars, spoilt>>

(* context.undeploy() may fail to delete what is deployed, and raises when   *)
(* the context has been taken off Context._list before, unless it is one     *)
(* that is never torn down (see HeatContext).                                *)
UndeployContext(c, onSuccess, onError) ==
  \/ /\ ctx' = [ctx EXCEPT ![c] = "undeployed"]
     /\ onSuccess
     /\ UNCHANGED spoilt
  \/ /\ ctx[c] \in {"deployed", "undeployed"}
     /\ onError
     /\ spoilt' = TRUE
     /\ UNCHANGED ctx

Undeploy == /\ pc = "undeploy" /\ ~ keep /\ k <= Len(contexts)
            /\ UndeployContext(contexts[k], Goto("undeploy", k + 1) /\ UNCHANGED info, TaskRaises)
            /\ UNCHANGED <<inputVars, i, published, contexts, runners, workerVars, dataVars>>

AllUndeployed == /\ pc = "undeploy" /\ ~ keep /\ k > Len(contexts)
                 /\ contexts' = <<>>
                 /\ NextCase
                 /\ UNCHANGED <<inputVars, info, published, ctx, runners, workerVars, dataVars, spoilt>>

(* _do_output() and _generate_reporting(); a dispatcher may raise *)
Output == /\ pc = "output"
          /\ published' \in {info, published}
          /\ Goto("atexit", 1)
          /\ UNCHANGED <<inputVars, i, info, contexts, ctx, runners, workerVars, dataVars, spoilt>>

(************************* the end of the program **************************)

(* A KeyboardInterrupt passes the finally clauses on its way out; the case   *)
(* that is begun may be told of with some of its steps, or not yet at all.   *)
InRun == {"deploy", "start", "join"}
Unwound == IF pc \in InRun THEN {CaseEnd(info)}
           ELSE {info} \cup {CaseEnd(CaseStart(info, i, s)) : s \in IF pc = "case" THEN Addable ELSE {}}
Interrupt == /\ pc \in InRun \cup {"parse", "case", "undeploy", "output"}
             /\ \E report \in Unwound : info' = TaskEnd(report)
             /\ Goto("atexit", 1)
             /\ spoilt' = (spoilt \/ (pc = "undeploy" /\ k > 1))
             /\ struck' = struck \cup {i}
             /\ UNCHANGED <<inputVars, i, published, contexts, ctx, runners, workerVars, dataVars>>

(* Before its name is registered, the finally clauses look up the test case  *)
(* or the context in vain, and their KeyError replaces the interrupt: it is  *)
(* handled as a failure of the case, and start() goes on.  The entry may be  *)
(* in its list already, and stays open.                                      *)
SwallowedInDeploy == /\ pc = "deploy" /\ k <= Len(contexts)
                     /\ \E report \in {info, ContextStart(info)} : CaseRaises(report)
SwallowedInCase == /\ pc = "case"
                   /\ info' \in {info, CaseStart(info, i, 0)}
                   /\ Goto("undeploy", 1)
Swallow == /\ SwallowedInCase \/ SwallowedInDeploy
           /\ struck' = struck \cup {i}
           /\ UNCHANGED <<inputVars, i, published, contexts, ctx, runners, workerVars, dataVars, spoilt>>

(* Runner.terminate_all() takes each runner it terminates off the list it is *)
(* iterating over, so that the iteration passes over the next one.           *)
Visited == {n \in DOMAIN runners : n % 2 = 1}
TerminateAll ==
  /\ pc = "atexit"
  /\ Goto("exitUndeploy", 1)
  /\ proc' = [id \in Id |-> IF Alive(id) /\ \E n \in Visited : runners[n] = id
                            THEN "killed" ELSE proc[id]]
  /\ runners' = [n \in 1 .. (Len(runners) \div 2) |-> runners[2 * n]]
  /\ UNCHANGED <<inputVars, i, info, published, contexts, ctx, outcome, dataVars, spoilt>>

ExitUndeploy == /\ pc = "exitUndeploy" /\ k <= Len(contexts)
                /\ UndeployContext(contexts[k], Goto("exitUndeploy", k + 1), Goto("exit", 1))
                /\ UNCHANGED <<inputVars, i, info, published, contexts, runners, workerVars, dataVars>>

ExitUndeployed == /\ pc = "exitUndeploy" /\ k > Len(contexts)
                  /\ Goto("exit", 1)
                  /\ UNCHANGED <<inputVars, i, info, published, contexts, ctx, runners, workerVars, dataVars, spoilt>>

(* multiprocessing joins the workers that are still alive *)
Exit == /\ pc = "exit"
        /\ \A id \in Id : ~ Alive(id)
        /\ Goto("gone", 1)
        /\ UNCHANGED <<inputVars, i, info, published, contexts, ctx, runners, workerVars, dataVars, spoilt>>

Gone == pc = "gone" /\ UNCHANGED vars

(******************************* the workers *******************************)

WorkerExit(id) == /\ Alive(id)
                  /\ proc' = [proc EXCEPT ![id] = "exited"]
                  /\ \E o \in Outcome : outcome' = [outcome EXCEPT ![id] = o]
                  /\ UNCHANGED <<inputVars, pc, i, k, info, published, contexts, ctx, runners,
                                 dataVars, spoilt, struck>>

Main == \/ ParseFails \/ ParseExits \/ Parse \/ TaskEnds
        \/ CaseBegins \/ Deploy \/ AllDeployed \/ StartBackground \/ StartStep \/ AllStarted
        \/ JoinStep \/ JoinBroken \/ AllJoined
        \/ KeepContexts \/ Undeploy \/ AllUndeployed \/ Output
        \/ TerminateAll \/ ExitUndeploy \/ ExitUndeployed \/ Exit

Next == \/ Main /\ UNCHANGED struck
        \/ Interrupt \/ Swallow \/ Gone
        \/ \E id \in Id : WorkerExit(id)

Spec == Init /\ [][Next]_vars

(* The main process runs, and deploy() and undeploy() return.  A worker ends *)
(* as long as runner_join() reads its queues; one that is not waited for may *)
(* block on a full pipe, and is not assumed to end.                          *)
Drained(id) == pc = "join" /\ id = <<i, k>>
Fairness == /\ WF_vars(Main /\ UNCHANGED struck)
            /\ \A id \in Id : WF_vars(Drained(id) /\ WorkerExit(id))
FairSpec == Spec /\ Fairness

(****************************** properties *********************************)

(* The types: in particular, the loop of start() takes the test cases of the *)
(* suite one after the other and never leaves its range.                     *)
TypeOK ==
  /\ suite \in Suites /\ keep \in KeepDeploy
  /\ pc \in {"parse", "case", "deploy", "start", "join", "undeploy", "output",
             "atexit", "exitUndeploy", "exit", "gone"}
  /\ i \in 1 .. MaxCases + 1 /\ k \in Nat
  /\ info \in Report /\ published \in Report
  /\ contexts \in Seq(ContextId)
  /\ ctx \in [ContextId -> {"none", "created", "deployed", "undeployed"}]
  /\ runners \in Seq(Id)
  /\ proc \in [Id -> {"none", "alive", "exited", "killed"}]
  /\ outcome \in [Id -> Outcome \cup {"none"}]
  /\ inputs \in SUBSET Id /\ outputs \in SUBSET Id
  /\ seen \in [Id -> SUBSET Id]
  /\ spoilt \in BOOLEAN
  /\ struck \in SUBSET (1 .. MaxCases + 1)

IsPublished == published.status = "FINISHED"
SuccessfulStep(id) == proc[id] = "exited" /\ outcome[id] = "clean"

(* A test case is published as PASS only if all its contexts were deployed   *)
(* and all its steps were run to a clean end: the except and finally clauses *)
(* of _run() never let testcase_end() turn an aborted case into a PASS.      *)
PassedCaseIsClean ==
  IsPublished =>
    \A n \in DOMAIN published.cases : published.cases[n].criteria = "PASS" =>
      LET c == published.cases[n].name
      IN  /\ Len(published.cases[n].contexts) = suite[c].contexts
          /\ Len(published.cases[n].steps) = Len(suite[c].steps)
          /\ \A s \in DOMAIN suite[c].steps : SuccessfulStep(<<c, s>>)

(* A task is published as PASS only if exactly the test cases that meet      *)
(* their preconditions were run, once and in the order of the suite, and     *)
(* passed, but for those an interrupt came in before testcase_start() was    *)
(* through: the lookup of testcase_end() (task.py:545) loses the interrupt.  *)
InOrder(cases) ==
  /\ \A n \in DOMAIN cases : cases[n].name \in DOMAIN suite /\ suite[cases[n].name].meets
  /\ \A m, n \in DOMAIN cases : m < n => cases[m].name < cases[n].name
PassedTaskIsComplete ==
  IsPublished /\ published.criteria = "PASS" =>
    /\ InOrder(published.cases)
    /\ \A c \in DOMAIN suite \ struck :
         suite[c].meets => \E n \in DOMAIN published.cases : published.cases[n].name = c
    /\ \A n \in DOMAIN published.cases : \/ published.cases[n].criteria = "PASS"
                                        \/ published.cases[n].name \in struck

(* Nothing is published that is still open: the finally clauses of _run()    *)
(* and start() settle every test case and the task before the output, and    *)
(* a context that fails to deploy is settled before its exception goes on.   *)
(* Only a test case that lost an interrupt (see Swallow) may stay open.      *)
PublishedIsSettled ==
  IsPublished => /\ published.criteria # "N/A"
                 /\ \A n \in DOMAIN published.cases :
                      LET case == published.cases[n]
                      IN  case.name \notin struck =>
                            /\ case.criteria # "N/A" /\ case.status = "FINISHED"
                            /\ \A d \in DOMAIN case.contexts : case.contexts[d] = "FINISHED"

(* A suite without run_in_parallel never has two workers at a time, and none *)
(* when a context is deployed or undeployed between steps.                   *)
Serial == \A c \in DOMAIN suite : ~ suite[c].parallel
Quiescent == \A id \in Id : ~ Alive(id)
SerialIsExclusive ==
  Serial /\ pc \notin {"atexit", "exitUndeploy", "exit"} =>
    /\ \A id, other \in Id : Alive(id) /\ Alive(other) => id = other
    /\ pc \in {"parse", "deploy", "start", "undeploy", "output"} => Quiescent

(* task.py:321, "Previous steps output is the input of the next step": a     *)
(* worker of a serial suite starts with the outputs of every worker that was *)
(* started before it, and with no others.                                    *)
Before(a, b) == a[1] < b[1] \/ (a[1] = b[1] /\ a[2] < b[2])
OutputsAreChained ==
  Serial => \A id \in Id : proc[id] # "none" =>
              seen[id] = {earlier \in Id : proc[earlier] # "none" /\ Before(earlier, id)}

(* Unless it is to be kept, a deployed context is undeployed before the next *)
(* test case deploys its own, and before the program ends; only an undeploy  *)
(* that raised, or that was interrupted between two contexts, spoils that.   *)
Deployed == {c \in ContextId : ctx[c] = "deployed"}
NoContextLeaks ==
  ~ keep /\ ~ spoilt =>
    /\ pc \in {"case", "deploy"} => \A c \in Deployed : c[1] = i
    /\ pc \in {"output", "exit", "gone"} => Deployed = {}

(* Whatever raises, in whichever step, context or dispatcher, no wait of     *)
(* start() and no undeploy keeps the program from its exit handler, and only *)
(* a worker that terminate_all() passed over can keep it from its end: the   *)
(* exit joins it, and nobody reads its queues.  A serial suite that is not   *)
(* interrupted leaves no such worker.                                        *)
TaskTerminates == /\ <>(pc = "gone" \/ (pc = "exit" /\ ~ Quiescent))
                  /\ Serial => <>(pc = "gone" \/ struck # {})

(* What base.py:117 says of terminate_all(), "Terminate all runners          *)
(* (subprocesses)": no worker is alive when it has returned.                 *)
AllRunnersTerminated == pc = "exitUndeploy" => Quiescent

(* What task.py:263 says the parallel branch does, "Wait for runners to      *)
(* finish": no worker is alive when the contexts it uses are taken away.     *)
RunnersFinishBeforeUndeploy == pc = "undeploy" => Quiescent
=============================================================================
