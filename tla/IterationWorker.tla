--------------------------- MODULE IterationWorker ---------------------------
(* The worker process of the Iteration runner, vnftest/runners/iteration.py: *)
(* construct the step, set it up, call its method until it has been called   *)
(* often enough, an error is fatal or the runner is aborted, tear it down    *)
(* and exit.  What the method does is left open: it returns, with or without *)
(* an output, fails its SLA (AssertionError) or fails otherwise.             *)
EXTENDS Integers, Sequences

CONSTANTS MinIterations, MaxIterations,  \* bounds on runner_cfg["iterations"], any integer
          MaxRecords,  \* the rate is not lowered after that many records
          MinRate,     \* the rate is not followed below this bound
          Delta        \* runner_cfg["delta"]

ASSUME WorkerAssumption == /\ MinIterations \in Int
                           /\ MaxIterations \in Nat \ {0}
                           /\ MaxRecords \in Nat
                           /\ MinRate \in Int
                           /\ Delta \in Nat \ {0}

Phase == {"setup", "run", "teardown"}
SlaAction == {"assert", "monitor", "rate-control", "other"}
DefaultRate == 100

Config == [iterations : MinIterations .. MaxIterations, steps : SUBSET Phase, sla : SlaAction]

VARIABLES
  cfg,       \* the runner's and the SLA's configuration
  pc,        \* where the worker is
  sequence, rate, errors,
  fatal,     \* fatal_error, "unbound" until the first call
  records,   \* what it put on the result queue
  outputs,   \* number of outputs put on the output queue
  aborted,   \* the event shared with the parent
  calls,     \* history: calls of the method, up to MaxIterations + 1
  failed,    \* history: the last call raised
  code       \* exit code of the process

vars == <<cfg, pc, sequence, rate, errors, fatal, records, outputs, aborted, calls, failed, code>>
loopVars == <<sequence, rate, errors, fatal, records, outputs, calls, failed>>

(* The loop looks at the count after the call: it is never run through less  *)
(* than once, whatever the configuration asks for.                           *)
Expected == IF cfg.iterations > 0 THEN cfg.iterations ELSE 1

Init == /\ cfg \in Config
        /\ pc = "construct"
        /\ sequence = 1 /\ rate = DefaultRate
        /\ errors = FALSE /\ fatal = "unbound"
        /\ records = <<>> /\ outputs = 0
        /\ aborted = FALSE
        /\ calls = 0 /\ failed = FALSE
        /\ code = "none"

(* the constructor, setup() when configured, and the lookup of the method *)
Construct == /\ pc = "construct"
             /\ \/ /\ pc' = IF "run" \in cfg.steps THEN "call" ELSE "teardown"
                   /\ code' = code
                \/ pc' = "exit" /\ code' = "error"
             /\ UNCHANGED <<cfg, aborted, loopVars>>

Calling == /\ pc = "call"
           /\ calls' = IF calls <= MaxIterations THEN calls + 1 ELSE calls

(* one call that leads to a record: its errors, and whether they are fatal *)
CallWith(raised, isError, isFatal) ==
  /\ Calling
  /\ errors' = isError /\ failed' = raised
  /\ fatal' = IF isFatal THEN "yes" ELSE "no"
  /\ pc' = "record"
  /\ UNCHANGED <<cfg, sequence, rate, records, aborted, code>>

CallReturns == /\ CallWith(FALSE, FALSE, FALSE)
               /\ outputs' \in {outputs, outputs + 1}

CallRaises == CallWith(TRUE, TRUE, TRUE) /\ UNCHANGED outputs

CallFailsSlaUnnoticed == /\ cfg.sla # "rate-control"  \* variant
                         /\ CallWith(TRUE, cfg.sla = "assert", cfg.sla = "assert")
                         /\ UNCHANGED outputs

(* an SLA failure is fatal by default, noted when monitored, and leaves no   *)
(* trace when the action is none of the three                                *)
CallFailsSla == /\ cfg.sla # "rate-control"
                /\ CallWith(TRUE, cfg.sla # "other", cfg.sla = "assert")
                /\ UNCHANGED outputs

(* rate control lowers the rate and starts over, without a record and        *)
(* without a look at the iterations or at the aborted event                  *)
LowerRate == /\ cfg.sla = "rate-control"
             /\ Len(records) < MaxRecords
             /\ Calling
             /\ rate' = IF rate - Delta >= MinRate THEN rate - Delta ELSE rate
             /\ sequence' = 1
             /\ errors' = FALSE /\ fatal' = "no" /\ failed' = TRUE
             /\ UNCHANGED <<cfg, pc, records, outputs, aborted, code>>

Call == CallReturns \/ CallRaises \/ CallFailsSla \/ LowerRate

(* sleep, put the record, count it, and leave the loop or go on *)
RecordUntil(last(_)) ==
  /\ pc = "record"
  /\ records' = Append(records, [sequence |-> sequence, errors |-> errors, failed |-> failed])
  /\ sequence' = sequence + 1
  /\ pc' = IF last(sequence + 1) THEN "teardown" ELSE "call"
  /\ UNCHANGED <<cfg, rate, errors, fatal, outputs, aborted, calls, failed, code>>
RecordOneLess == RecordUntil(LAMBDA n : n >= cfg.iterations \/ aborted \/ fatal = "yes")  \* variant
RecordForever == RecordUntil(LAMBDA n : n > cfg.iterations + 1 \/ fatal = "yes")  \* variant
RecordCleanOnly == IF errors /\ fatal = "no"  \* variant
                   THEN /\ pc = "record" /\ pc' = "call"
                        /\ UNCHANGED <<cfg, aborted, code, loopVars>>
                   ELSE RecordUntil(LAMBDA n : n > cfg.iterations \/ aborted \/ fatal = "yes")
Record == RecordUntil(LAMBDA n : n > cfg.iterations \/ aborted \/ fatal = "yes")

(* teardown() when configured; its failure and a fatal error both give 1,    *)
(* and so does reading fatal_error when the method was never to be called    *)
TeardownThen(failure) ==
  /\ pc = "teardown"
  /\ pc' = "exit"
  /\ code' \in (IF "teardown" \in cfg.steps THEN {"error"} ELSE {})
                 \cup (IF fatal \in failure THEN {"error"} ELSE {"ok"})
  /\ UNCHANGED <<cfg, aborted, loopVars>>
TeardownForgetsFatal == TeardownThen({"unbound"})  \* variant
Teardown == TeardownThen({"yes", "unbound"})

(* Runner.abort() in the parent *)
Abort == /\ pc # "exit" /\ ~ aborted
         /\ aborted' = TRUE
         /\ UNCHANGED <<cfg, pc, code, loopVars>>

Exited == pc = "exit" /\ UNCHANGED vars

Worker == Construct \/ Call \/ Record \/ Teardown
Next == Worker \/ Abort \/ Exited

Spec == Init /\ [][Next]_vars
(* the process is scheduled, and the method always returns or raises *)
FairSpec == Spec /\ WF_vars(Worker)

(****************************** properties **********************************)

(* The types: in particular, no record has a number beyond the bound on the  *)
(* iterations, since the loop of iteration.py:64 ends when they are done.    *)
TypeOK == /\ cfg \in Config
          /\ pc \in {"construct", "call", "record", "teardown", "exit"}
          /\ sequence \in 1 .. MaxIterations + 1
          /\ rate \in Int
          /\ errors \in BOOLEAN /\ failed \in BOOLEAN /\ aborted \in BOOLEAN
          /\ fatal \in {"unbound", "no", "yes"}
          /\ records \in Seq([sequence : 1 .. MaxIterations, errors : BOOLEAN, failed : BOOLEAN])
          /\ outputs \in Nat
          /\ calls \in 0 .. MaxIterations + 1
          /\ code \in {"none", "ok", "error"}

(* A worker that exits with 0 has put a record, because TaskInfo.step_end()  *)
(* takes an empty list of results for a PASS.  Unless it was aborted, it has *)
(* delivered a run of records numbered 1 .. iterations after the last time   *)
(* the rate was lowered (iteration.py:97 starts the count over, :122 ends    *)
(* it), and has called the method so many times, and no more, if SLA         *)
(* failures are not rate controlled.  One record and one call stand for a    *)
(* count of 0 or less, since the loop of :64 tests at its end (:122).        *)
LastRun == LET before == Len(records) - Expected
           IN  before >= 0 /\ \A i \in 1 .. Expected : records[before + i].sequence = i
FullRun ==
  pc = "exit" /\ code = "ok" =>
    /\ records # <<>>
    /\ ~ aborted => LastRun /\ (cfg.sla # "rate-control" => calls = Expected)

(* An error that is not merely monitored ends the loop, and the process       *)
(* fails, also when the SLA failures themselves are rate controlled.          *)
ErrorIsLast == \A i \in 1 .. Len(records) :
                 records[i].errors => \/ cfg.sla = "monitor"
                                      \/ i = Len(records)
ErrorFails == /\ ErrorIsLast
              /\ pc = "exit" /\ code = "ok"
                   => \A i \in 1 .. Len(records) : records[i].errors => cfg.sla = "monitor"

(* A call that raised is told by its record as long as the SLA action is one *)
(* the worker knows; rate control leaves no record of it.                    *)
FailureIsTold == \A i \in 1 .. Len(records) :
                   records[i].failed => records[i].errors \/ cfg.sla = "other"

(* A worker whose SLA failures are not rate controlled ends, however its     *)
(* calls turn out.  Rate control is left out: it may lower the rate for ever *)
(* (iteration.py:98).                                                        *)
WorkerEnds == cfg.sla # "rate-control" => <>(pc = "exit")
=============================================================================
