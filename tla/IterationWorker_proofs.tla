----------------------- MODULE IterationWorker_proofs -----------------------
(* Proofs about IterationWorker for every bound on the iterations, every     *)
(* configuration and every outcome of the calls.                             *)
EXTENDS IterationWorker, SequenceTheorems, TLAPS

Item == [sequence : 1 .. MaxIterations, errors : BOOLEAN, failed : BOOLEAN]

(* The records since the count was started over, the last of which has the   *)
(* number n, are numbered 1 .. n.                                            *)
Numbered(rs, n) == /\ Len(rs) >= n
                   /\ \A j \in 1 .. n : rs[Len(rs) - n + j].sequence = j

(* No record tells an error, unless errors are merely monitored.             *)
Clean(rs) == \A j \in 1 .. Len(rs) : rs[j].errors => cfg.sla = "monitor"

(* What the place of the worker says about its count, its records and the    *)
(* fatal error: the strengthening that makes the properties inductive.       *)
Running == pc \in {"construct", "call", "record"}
CountInv == /\ Running => sequence <= Expected
            /\ Numbered(records, sequence - 1)
CallInv == pc = "record" => /\ fatal \in {"yes", "no"}
                            /\ errors => fatal = "yes" \/ cfg.sla = "monitor"
                            /\ failed => errors \/ cfg.sla = "other"
EndInv == /\ Running \/ fatal # "yes" => Clean(records)
          /\ ~ Running /\ fatal = "no" =>
               /\ records # <<>>
               /\ sequence = Expected + 1 \/ aborted
          /\ code = "ok" => pc = "exit" /\ fatal = "no"
          /\ pc = "construct" => fatal = "unbound"
(* Without rate control the count is the number of calls. *)
CallCount == cfg.sla # "rate-control" => calls = IF pc = "record" THEN sequence ELSE sequence - 1
Core == TypeOK /\ CountInv /\ CallInv /\ EndInv /\ ErrorIsLast /\ FailureIsTold
WInv == Core /\ CallCount

(* What the configuration's type gives.                                      *)
LEMMA CfgType == ASSUME TypeOK
                 PROVE  /\ cfg.iterations \in Int
                        /\ Expected \in Nat /\ 1 <= Expected
                        /\ Expected <= MaxIterations /\ MaxIterations \in Nat
                        /\ cfg.sla \in SlaAction
  BY WorkerAssumption DEF TypeOK, Config, Expected

(* The invariant holds before the first call.                                *)
LEMMA InitWInv == Init => WInv
<1> SUFFICES ASSUME Init PROVE WInv
  OBVIOUS
<1>1. records = <<>> /\ Len(records) = 0 /\ sequence = 1 /\ pc = "construct"
  BY DEF Init
<1>2. TypeOK
  <2>1. cfg \in Config /\ sequence \in 1 .. MaxIterations + 1 /\ calls \in 0 .. MaxIterations + 1
    BY <1>1, WorkerAssumption DEF Init
  <2>2. rate \in Int /\ outputs \in Nat /\ records \in Seq(Item)
    BY <1>1, EmptySeq DEF Init, DefaultRate
  <2>3. errors \in BOOLEAN /\ failed \in BOOLEAN /\ aborted \in BOOLEAN
    BY DEF Init
  <2>4. fatal \in {"unbound", "no", "yes"} /\ code \in {"none", "ok", "error"}
    BY DEF Init
  <2> QED
    BY <1>1, <2>1, <2>2, <2>3, <2>4 DEF TypeOK, Item
<1>3. CountInv /\ CallInv
  BY <1>1, <1>2, CfgType DEF CountInv, CallInv, Running, Numbered
<1>4. EndInv
  BY <1>1 DEF Init, EndInv, Running, Clean
<1>5. ErrorIsLast /\ FailureIsTold
  BY <1>1 DEF ErrorIsLast, FailureIsTold
<1>6. CallCount
  BY <1>1 DEF Init, CallCount
<1> QED
  BY <1>2, <1>3, <1>4, <1>5, <1>6 DEF WInv, Core

(* A step that leaves the records and the configuration alone keeps what is  *)
(* said of them.                                                             *)
LEMMA RecordsKept ==
  ASSUME WInv, records' = records, cfg' = cfg
  PROVE  /\ Clean(records)' <=> Clean(records)
         /\ ErrorIsLast' /\ FailureIsTold'
  BY DEF WInv, Core, Clean, ErrorIsLast, FailureIsTold

(* The constructor and setup(): the loop is entered with nothing recorded,   *)
(* or left without a call.                                                   *)
LEMMA ConstructKeeps == ASSUME WInv, Construct PROVE Core'
<1>1. /\ records' = records /\ cfg' = cfg /\ sequence' = sequence
      /\ fatal' = fatal /\ aborted' = aborted /\ pc = "construct"
      /\ pc' \in {"call", "teardown", "exit"} /\ code' \in {code, "error"}
      /\ UNCHANGED <<rate, errors, outputs, calls, failed>>
  BY DEF Construct, loopVars
<1>2. TypeOK'
  BY <1>1 DEF WInv, Core, TypeOK
<1>3. CountInv' /\ CallInv'
  BY <1>1 DEF WInv, Core, CountInv, Expected, CallInv, Running, Numbered
<1>4. EndInv'
  BY <1>1, RecordsKept DEF WInv, Core, EndInv, Running
<1> QED
  BY <1>1, <1>2, <1>3, <1>4, RecordsKept DEF WInv, Core

(* A call that leads to a record changes the errors and the fatal error      *)
(* only, and reads the configuration for both.                               *)
LEMMA CallStep ==
  ASSUME WInv, CallReturns \/ CallRaises \/ CallFailsSla
  PROVE  /\ UNCHANGED <<cfg, sequence, rate, records, aborted, code>>
         /\ pc = "call" /\ pc' = "record"
         /\ errors' \in BOOLEAN /\ failed' \in BOOLEAN /\ fatal' \in {"yes", "no"}
         /\ outputs' \in Nat /\ calls' \in 0 .. MaxIterations + 1
         /\ errors' => fatal' = "yes" \/ cfg.sla = "monitor"
         /\ failed' => errors' \/ cfg.sla = "other"
<1>1. MaxIterations \in Nat /\ calls \in 0 .. MaxIterations + 1 /\ outputs \in Nat
      /\ cfg.sla \in SlaAction
  BY CfgType DEF WInv, Core, TypeOK
<1>2. Calling => calls' \in 0 .. MaxIterations + 1
  BY <1>1 DEF Calling
<1>3. CASE CallReturns
  <2>1. CallWith(FALSE, FALSE, FALSE) /\ outputs' \in {outputs, outputs + 1}
    BY <1>3 DEF CallReturns
  <2>2. /\ Calling /\ pc' = "record" /\ fatal' = "no" /\ errors' = FALSE /\ failed' = FALSE
        /\ UNCHANGED <<cfg, sequence, rate, records, aborted, code>>
    BY <2>1 DEF CallWith
  <2>3. outputs' \in Nat
    BY <1>1, <2>1
  <2> QED
    BY <1>2, <2>2, <2>3 DEF Calling
<1>4. CASE CallRaises
  BY <1>1, <1>2, <1>4 DEF CallRaises, CallWith, Calling
<1>5. CASE CallFailsSla
  BY <1>1, <1>2, <1>5 DEF CallFailsSla, CallWith, Calling, SlaAction
<1> QED
  BY <1>3, <1>4, <1>5

(* A call, however it ends, agrees with the errors it leaves behind.         *)
LEMMA CallKeeps == ASSUME WInv, CallReturns \/ CallRaises \/ CallFailsSla PROVE Core'
<1>1. TypeOK'
  BY CallStep DEF WInv, Core, TypeOK
<1>2. CountInv'
  BY CallStep DEF WInv, Core, CountInv, Expected, Running, Numbered
<1>3. CallInv'
  BY CallStep DEF CallInv
<1>4. EndInv'
  BY CallStep, RecordsKept DEF WInv, Core, EndInv, Running
<1> QED
  BY <1>1, <1>2, <1>3, <1>4, CallStep, RecordsKept DEF WInv, Core

(* Rate control starts the count over, with no record of that count yet.     *)
LEMMA LowerRateKeeps == ASSUME WInv, LowerRate PROVE Core'
<1>1. /\ UNCHANGED <<cfg, pc, records, outputs, aborted, code>>
      /\ pc = "call" /\ sequence' = 1 /\ errors' = FALSE /\ failed' = TRUE /\ fatal' = "no"
  BY DEF LowerRate, Calling
<1>2. rate' \in Int /\ calls' \in 0 .. MaxIterations + 1
  BY WorkerAssumption DEF WInv, Core, TypeOK, LowerRate, Calling
<1>3. records \in Seq(Item) /\ Len(records) \in Nat
  BY DEF WInv, Core, TypeOK, Item
<1>4. TypeOK'
  <2>1. sequence' \in 1 .. MaxIterations + 1
    BY <1>1, WorkerAssumption
  <2>2. errors' \in BOOLEAN /\ failed' \in BOOLEAN /\ fatal' \in {"unbound", "no", "yes"}
    BY <1>1
  <2> QED
    BY <1>1, <1>2, <2>1, <2>2 DEF WInv, Core, TypeOK
<1>5. CountInv'
  BY <1>1, <1>3, CfgType DEF WInv, Core, CountInv, Expected, Numbered
<1>6. CallInv' /\ EndInv'
  BY <1>1, RecordsKept DEF WInv, Core, CallInv, EndInv, Running
<1> QED
  BY <1>1, <1>4, <1>5, <1>6, RecordsKept DEF WInv, Core

(* The teardown and the exit code. *)
LEMMA TeardownKeeps == ASSUME WInv, Teardown PROVE Core'
<1>1. /\ UNCHANGED <<cfg, aborted, sequence, rate, errors, fatal, records, outputs, calls, failed>>
      /\ pc = "teardown" /\ pc' = "exit" /\ code' \in {"ok", "error"}
      /\ code' = "ok" => fatal \notin {"yes", "unbound"}
  BY DEF Teardown, TeardownThen, loopVars
<1>2. TypeOK'
  BY <1>1 DEF WInv, Core, TypeOK
<1>3. CountInv' /\ CallInv'
  BY <1>1 DEF WInv, Core, CountInv, CallInv, Running, Numbered
<1>4. fatal \in {"yes", "unbound", "no"}
  BY DEF WInv, Core, TypeOK
<1>5. EndInv'
  BY <1>1, <1>4, RecordsKept DEF WInv, Core, EndInv, Expected, Running
<1> QED
  BY <1>1, <1>2, <1>3, <1>5, RecordsKept DEF WInv, Core

(* The parent's abort, and the steps that change nothing. *)
LEMMA OthersKeep == ASSUME WInv, Abort \/ UNCHANGED vars PROVE Core'
<1>1. /\ UNCHANGED <<cfg, pc, code, sequence, rate, errors, fatal, records, outputs, calls, failed>>
      /\ aborted' = aborted \/ aborted' = TRUE
  BY DEF Abort, vars, loopVars
<1>2. TypeOK'
  BY <1>1 DEF WInv, Core, TypeOK
<1>3. CountInv' /\ CallInv'
  BY <1>1 DEF WInv, Core, CountInv, Expected, CallInv, Running, Numbered
<1>4. EndInv'
  BY <1>1, RecordsKept DEF WInv, Core, EndInv, Expected, Running
<1> QED
  BY <1>1, <1>2, <1>3, <1>4, RecordsKept DEF WInv, Core
(* A record is appended: it carries on the count, and the loop is left after *)
(* the last iteration, after an abort and after a fatal error.               *)
LEMMA RecordKeeps == ASSUME WInv, Record PROVE Core'
<1> DEFINE r == [sequence |-> sequence, errors |-> errors, failed |-> failed]
           last == sequence + 1 > cfg.iterations \/ aborted \/ fatal = "yes"
<1>1. /\ UNCHANGED <<cfg, rate, errors, fatal, outputs, aborted, calls, failed, code>>
      /\ pc = "record" /\ records' = Append(records, r) /\ sequence' = sequence + 1
      /\ pc' = IF last THEN "teardown" ELSE "call"
  BY DEF Record, RecordUntil
<1>2. /\ records \in Seq(Item) /\ sequence \in 1 .. MaxIterations
      /\ cfg.iterations \in Int /\ Expected \in Nat /\ sequence <= Expected /\ MaxIterations \in Nat
      /\ errors \in BOOLEAN /\ failed \in BOOLEAN /\ aborted \in BOOLEAN
      /\ cfg \in Config
  BY <1>1, CfgType DEF WInv, Core, TypeOK, CountInv, Running, Item
<1>3. r \in Item
  BY <1>2 DEF Item
<1>4. /\ records' \in Seq(Item) /\ Len(records) \in Nat /\ Len(records') = Len(records) + 1
      /\ records'[Len(records) + 1] = r
      /\ \A i \in 1 .. Len(records) : records'[i] = records[i]
  BY <1>1, <1>2, <1>3, AppendProperties
<1>5. TypeOK'
  <2>1. sequence' \in 1 .. MaxIterations + 1
    BY <1>1, <1>2
  <2> QED
    BY <1>1, <1>4, <2>1 DEF WInv, Core, TypeOK, Item
<1>6. CountInv'
  <2>1. Running' => sequence' <= Expected'
    BY <1>1, <1>2 DEF Running, Expected
  <2>2. Len(records') >= sequence
    BY <1>2, <1>4 DEF WInv, Core, CountInv, Numbered
  <2>3. ASSUME NEW j \in 1 .. sequence PROVE records'[Len(records') - sequence + j].sequence = j
    <3>1. CASE j = sequence
      BY <1>2, <1>4, <3>1
    <3>2. CASE j # sequence
      <4>1. j \in 1 .. sequence - 1 /\ Len(records) >= sequence - 1
        BY <1>2, <3>2 DEF WInv, Core, CountInv, Numbered
      <4>2. /\ Len(records') - sequence + j = Len(records) - (sequence - 1) + j
            /\ Len(records) - (sequence - 1) + j \in 1 .. Len(records)
        BY <1>2, <1>4, <4>1
      <4>3. records[Len(records) - (sequence - 1) + j].sequence = j
        BY <4>1 DEF WInv, Core, CountInv, Numbered
      <4> QED
        BY <1>4, <4>2, <4>3
    <3> QED
      BY <3>1, <3>2
  <2>4. sequence' - 1 = sequence
    BY <1>1, <1>2
  <2> QED
    BY <2>1, <2>2, <2>3, <2>4 DEF CountInv, Numbered
<1>7. CallInv'
  BY <1>1 DEF CallInv
<1>8. Clean(records)
  BY <1>1 DEF WInv, Core, EndInv, Running
<1>9. r.errors => fatal = "yes" \/ cfg.sla = "monitor"
  BY <1>1 DEF WInv, Core, CallInv
<1>10. fatal \in {"yes", "no"}
  BY <1>1 DEF WInv, Core, CallInv
<1>11. EndInv'
  <2>1. (Running \/ fatal # "yes")' => Clean(records)'
    <3> SUFFICES ASSUME fatal # "yes" PROVE Clean(records)'
      BY <1>1 DEF Running
    <3> QED
      BY <1>1, <1>4, <1>8, <1>9 DEF Clean
  <2>2. records' # <<>>
    BY <1>4
  <2>3. (~ Running /\ fatal = "no")' => sequence' = Expected' + 1 \/ aborted'
    BY <1>1, <1>2 DEF Running, Expected
  <2>4. code # "ok" /\ code' # "ok" /\ pc' # "construct"
    BY <1>1 DEF WInv, Core, EndInv
  <2> QED
    BY <2>1, <2>2, <2>3, <2>4 DEF EndInv
<1>12. ErrorIsLast'
  BY <1>1, <1>4, <1>8 DEF ErrorIsLast, Clean
<1>13. FailureIsTold'
  <2>1. r.failed => r.errors \/ cfg.sla = "other"
    BY <1>1 DEF WInv, Core, CallInv
  <2> QED
    BY <1>1, <1>4, <2>1 DEF WInv, Core, FailureIsTold
<1> QED
  BY <1>5, <1>6, <1>7, <1>11, <1>12, <1>13 DEF WInv, Core

(* The calls of a run are numbered without a gap.                            *)
LEMMA CallsCounted == ASSUME WInv, [Next]_vars PROVE CallCount'
<1> SUFFICES ASSUME cfg'.sla # "rate-control"
             PROVE  calls' = IF pc' = "record" THEN sequence' ELSE sequence' - 1
  BY DEF CallCount
<1>1. cfg' = cfg
  BY DEF Next, Worker, Construct, Call, CallReturns, CallRaises, CallFailsSla, CallWith, LowerRate,
         Record, RecordUntil, Teardown, TeardownThen, Exited, Abort, vars
<1>2. /\ calls = IF pc = "record" THEN sequence ELSE sequence - 1
      /\ sequence \in Nat /\ MaxIterations \in Nat /\ (pc = "call" => sequence <= MaxIterations)
  BY <1>1, CfgType DEF WInv, Core, TypeOK, CallCount, CountInv, Running
<1>3. CASE CallReturns \/ CallRaises \/ CallFailsSla
  BY <1>2, <1>3 DEF CallReturns, CallRaises, CallFailsSla, CallWith, Calling
<1>4. CASE Record
  BY <1>2, <1>4 DEF Record, RecordUntil
<1>5. CASE Construct \/ Teardown \/ Abort \/ UNCHANGED vars
  BY <1>2, <1>5 DEF Construct, Teardown, TeardownThen, Abort, vars, loopVars
<1>6. CASE LowerRate
  BY <1>1, <1>6 DEF LowerRate
<1> QED
  BY <1>3, <1>4, <1>5, <1>6 DEF Next, Worker, Call, Exited

(* Every step keeps the invariant.                                           *)
LEMMA NextKeeps == ASSUME WInv, [Next]_vars PROVE WInv'
<1>1. Core'
  BY ConstructKeeps, CallKeeps, LowerRateKeeps, RecordKeeps, TeardownKeeps, OthersKeep
     DEF Next, Worker, Call, Exited, WInv
<1> QED
  BY <1>1, CallsCounted DEF WInv

(* What the place of the worker says of its count, its last call and its     *)
(* records always holds.                                                     *)
THEOREM Inductive == Spec => []WInv
<1>1. WInv /\ [Next]_vars => WInv'
  BY NextKeeps
<1> QED
  BY InitWInv, <1>1, PTL DEF Spec
(* The types, and with them that no record is numbered beyond the iterations *)
(* the runner was configured with (iteration.py:122).                        *)
THEOREM TypeCorrect == Spec => []TypeOK
<1>1. WInv => TypeOK
  BY DEF WInv, Core
<1> QED
  BY Inductive, <1>1, PTL

(* A worker that ends with 0 has put a record, and if it was not aborted it   *)
(* has delivered the records 1 .. iterations in order, after any count that  *)
(* rate control started over, from as many calls of the method.              *)
THEOREM FullRunDelivered == Spec => []FullRun
<1>1. WInv => FullRun
  <2> SUFFICES ASSUME WInv, pc = "exit", code = "ok"
               PROVE  /\ records # <<>>
                      /\ ~ aborted => LastRun /\ (cfg.sla # "rate-control" => calls = Expected)
    BY DEF FullRun
  <2>1. records # <<>> /\ Expected \in Nat /\ (~ aborted => sequence = Expected + 1)
    BY CfgType DEF WInv, Core, EndInv, Running
  <2>2. ~ aborted => Numbered(records, Expected)
    <3>1. ~ aborted => sequence - 1 = Expected
      BY <2>1
    <3> QED
      BY <3>1 DEF WInv, Core, CountInv
  <2>3. Len(records) \in Nat
    BY DEF WInv, Core, TypeOK
  <2>4. ~ aborted => LastRun
    BY <2>1, <2>2, <2>3 DEF Numbered, LastRun
  <2>5. ~ aborted /\ cfg.sla # "rate-control" => calls = Expected
    BY <2>1 DEF WInv, Core, CallCount
  <2> QED
    BY <2>1, <2>4, <2>5
<1> QED
  BY Inductive, <1>1, PTL

(* An error ends the loop at once and makes the process fail, unless the SLA *)
(* is merely monitored (iteration.py:122 and :139).                          *)
THEOREM ErrorsAreFatal == Spec => []ErrorFails
<1>1. WInv => ErrorFails
  BY DEF WInv, Core, EndInv, Clean, ErrorFails
<1> QED
  BY Inductive, <1>1, PTL

(* The record of a call that raised tells its error for every SLA action the *)
(* worker knows (iteration.py:80-103).                                       *)
THEOREM FailuresAreTold == Spec => []FailureIsTold
<1>1. WInv => FailureIsTold
  BY DEF WInv, Core
<1> QED
  BY Inductive, <1>1, PTL
=============================================================================
