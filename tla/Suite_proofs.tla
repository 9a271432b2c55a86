---------------------------- MODULE Suite_proofs ----------------------------
(* Proofs about Suite for any set of programs: suites of any length with any *)
(* entries, test cases, arguments, environment and configuration.            *)
EXTENDS Suite, SequenceTheorems, TLAPS

Files == cases.files
Loop == {"arguments", "task", "run"}

(* The three lists are parallel: what the k-th test case is given is what    *)
(* its own entry, or the command line, has for it.                           *)
Given == [entry : Nat, given : Args]
ListsInv ==
  /\ Files \in Seq(Nat) /\ cases.args \in Seq(Given) /\ cases.fnames \in Seq(Given)
  /\ Len(Files) <= MaxCases
  /\ DOMAIN cases.args = DOMAIN Files /\ DOMAIN cases.fnames = DOMAIN Files
  /\ pc \in {"configure", "parse"} => Files = <<>>
  /\ \A k \in 1 .. Len(Files) :
       /\ Files[k] \in 1 .. Len(program.tests) /\ Selected(Files[k])
       /\ cases.args[k] = [entry |-> Files[k], given |-> OwnArgs(Files[k])]
       /\ cases.fnames[k] = [entry |-> Files[k], given |-> OwnFile(Files[k])]

(* They are in the order of the suite, and so far have every entry that may  *)
(* be in them.                                                               *)
OrderInv ==
  /\ \A j, k \in 1 .. Len(Files) : j < k => Files[j] < Files[k]
  /\ pc = "entries" => /\ program.suite
                       /\ \A k \in 1 .. Len(Files) : Files[k] < i
                       /\ \A n \in 1 .. Len(program.tests) : n < i /\ Selected(n) =>
                            \E k \in 1 .. Len(Files) : Files[k] = n
  /\ pc \in Loop => \A n \in 1 .. Len(program.tests) : Selected(n) =>
                      \E k \in 1 .. Len(Files) : Files[k] = n

(* Where the loop of each stage is.                                          *)
PlaceInv ==
  /\ i \in Nat \ {0}
  /\ pc \in {"configure", "parse"} => i = 1
  /\ pc = "entries" => i <= Len(program.entries) + 1 /\ Len(Files) < i
  /\ pc = "arguments" => i <= Len(Files) + 1
  /\ pc \in {"task", "run"} => i <= Len(Files)
  /\ pc = "run" => CheckPrecondition(program.tests[Files[i]].precondition)

(* The test cases that ran are those before the one at hand that may run, if *)
(* no interrupt was lost in them.                                            *)
Dictionary == UNION {[N -> Source] : N \in SUBSET Name}
Record == [entry : Nat, inputs : Dictionary, given : SUBSET Name, part : SUBSET Name,
           handed : SUBSET Dictionary]
RanInv ==
  /\ ran \in Seq(Record)
  /\ pc \in {"configure", "parse", "entries"} => ran = <<>> /\ outputs = Empty
  /\ \A r \in 1 .. Len(ran) : ran[r].entry \in 1 .. Len(program.tests)
  /\ Len(ran) <= Len(Files)
  /\ pc \in Loop =>
       /\ Len(ran) < i
       /\ \A r \in 1 .. Len(ran) : \E k \in 1 .. i - 1 : Files[k] = ran[r].entry
       /\ \A k \in 1 .. i - 1 : CheckPrecondition(program.tests[Files[k]].precondition)
                                  => Accounted(Files[k])

(* The outputs are the last that each name was given, and the inputs of the  *)
(* next test case what it has to have.                                       *)
OutputsInv ==
  /\ outputs \in Dictionary
  /\ DOMAIN outputs = {n \in Name : Givers(Len(ran) + 1, n) # {}}
  /\ \A n \in DOMAIN outputs : outputs[n] = <<"output", ran[LastGiver(Len(ran) + 1, n)].entry>>
InputsInv ==
  /\ inputs \in Dictionary
  /\ pc \in {"task", "run"} =>
       /\ DOMAIN inputs = Known(Files[i], Len(ran) + 1)
       /\ \A n \in DOMAIN inputs : inputs[n] = Origin(Files[i], Len(ran) + 1, n)

(* Who delivered a name at all, did so last at some place.                   *)
GiversInv == \A r \in 1 .. Len(ran) + 1 : \A n \in Name :
               Givers(r, n) # {} => LastGiver(r, n) \in Givers(r, n)

(* What the verdict and the result file tell before the end.                 *)
Before == {"configure", "parse", "entries"} \cup Loop
Complete == \A n \in 1 .. Len(program.tests) : Expected(n) => Accounted(n)
VerdictInv ==
  /\ pc \in Before => criteria = "N/A"
  /\ pc \in {"dispatch", "flush"} => criteria # "N/A"
  /\ criteria = "PASS" => ~ failed /\ Complete
Started == IF Uses("file") THEN RunningFile ELSE OldFile
Flushes(n) == \E d \in 1 .. n : Dispatchers[d] = "file"
FileInv ==
  /\ pc # "over" => ending = None
  /\ pc = "configure" => file = OldFile
  /\ pc \in (Before \ {"configure"}) \cup {"dispatch"} => file = Started
  /\ pc = "flush" => /\ i <= Len(Dispatchers) + 1
                     /\ file = IF Flushes(i - 1) THEN ReportFile(criteria) ELSE Started
EndInv ==
  pc = "over" =>
    /\ ending # None
    /\ ending = "raised" <=> file = ErrorFile
    /\ ending = "returned" /\ Uses("file") => file = ReportFile(criteria)
    /\ file \in {OldFile, RunningFile, ErrorFile, ReportFile(criteria)}
    /\ file = RunningFile => ending \in {"exited", "interrupted"}
    /\ file = OldFile => ~ Uses("file") \/ ending = "interrupted"

(* where the program can be, and how what it leaves can look                 *)
Kinds == /\ pc \in Before \cup {"dispatch", "flush", "over"}
         /\ criteria \in {"N/A", "PASS", "FAIL", "FATAL"}
         /\ file \in {OldFile, RunningFile, ErrorFile} \cup
                     {ReportFile(c) : c \in {"PASS", "FAIL", "FATAL"}}
         /\ ending \in {None, "raised", "exited", "interrupted", "returned"}
         /\ failed \in BOOLEAN /\ struck \subseteq 1 .. Len(program.tests)

IInv == /\ program \in Programs /\ Kinds
        /\ ListsInv /\ OrderInv /\ PlaceInv
        /\ RanInv /\ GiversInv /\ OutputsInv /\ InputsInv /\ RunsAsConfigured
        /\ VerdictInv /\ FileInv /\ EndInv

(****************************** the program *********************************)

(* The parts of a program.                                                   *)
LEMMA ProgramType ==
  ASSUME program \in Programs
  PROVE  /\ program \in Program
         /\ program.entries \in Seq(Entry) /\ program.tests \in Seq(Test)
         /\ Len(program.entries) \in Nat /\ Len(program.entries) <= MaxCases
         /\ DOMAIN program.tests = 1 .. Len(program.tests)
         /\ Len(program.tests) \in Nat /\ Len(program.tests) <= MaxCases
         /\ program.suite => Len(program.tests) = Len(program.entries)
         /\ ~ program.suite => Len(program.tests) = 1
         /\ MaxCases \in Nat
<1>1. PICK p : p = program
  OBVIOUS
<1>2. p \in Program /\ Len(p.entries) <= MaxCases
      /\ Len(p.tests) = (IF p.suite THEN Len(p.entries) ELSE 1) /\ MaxCases \in Nat \ {0}
  BY <1>1, SuiteAssumption, Zenon
<1>3. p.entries \in Seq(Entry) /\ p.tests \in Seq(Test) /\ p.suite \in BOOLEAN
  BY <1>2 DEF Program
<1>4. /\ Len(p.entries) \in Nat
      /\ Len(p.tests) \in Nat /\ DOMAIN p.tests = 1 .. Len(p.tests)
  BY <1>3, LenProperties
<1>5. Len(p.tests) <= MaxCases
  BY <1>2, <1>3, <1>4
<1>6. QED
  BY <1>1, <1>2, <1>3, <1>4, <1>5

(* The arguments of an entry, and of a single test case, are arguments.      *)
LEMMA TaskArgsType ==
  ASSUME NEW entry \in Entry
  PROVE  TaskArgs(entry) \in Args /\ TaskArgsFname(entry) \in Args
<1>1. PICK P \in SUBSET (Pod \cup {"default"}) : entry.args \in [P -> Args]
  BY DEF Entry
<1>2. PICK Q \in SUBSET Pod : entry.fnames \in [Q -> Args]
  BY DEF Entry
<1>3. NoArgs \in Args
  BY DEF NoArgs, Args
<1>4. TaskArgs(entry) \in Args
  BY <1>1, <1>3 DEF TaskArgs
<1>5. TaskArgsFname(entry) \in Args
  BY <1>2, <1>3 DEF TaskArgsFname
<1>6. QED
  BY <1>4, <1>5

(* What an entry has of its own, in the suite and in its file, are           *)
(* arguments.                                                                *)
LEMMA OwnArgsType ==
  ASSUME program \in Programs, NEW e \in 1 .. Len(program.tests)
  PROVE  OwnArgs(e) \in Args /\ OwnFile(e) \in Args
<1>1. CASE program.suite
  <2>1. program.entries[e] \in Entry
    BY <1>1, ProgramType, ElementOfSeq
  <2>2. QED
    BY <2>1, <1>1, TaskArgsType DEF OwnArgs, OwnFile
<1>2. CASE ~ program.suite
  BY <1>2, ProgramType DEF OwnArgs, OwnFile, NoArgs, Args, Program
<1>3. QED
  BY <1>1, <1>2

(* All that the program was started with stays as it is.                     *)
LEMMA SameProgram ==
  ASSUME program' = program
  PROVE  /\ \A n : (Selected(n) <=> Selected(n)') /\ (Expected(n) <=> Expected(n)')
         /\ \A e : OwnArgs(e)' = OwnArgs(e) /\ OwnFile(e)' = OwnFile(e)
         /\ \A c : CheckPrecondition(c)' <=> CheckPrecondition(c)
         /\ Dispatchers' = Dispatchers
         /\ \A d : Uses(d)' <=> Uses(d)
<1>0. CurrentPod' = CurrentPod
  BY DEF CurrentPod
<1>1. \A entry : MeetConstraint(entry)' <=> MeetConstraint(entry)
  BY <1>0 DEF MeetConstraint, Fits
<1>2. \A entry : TaskArgs(entry)' = TaskArgs(entry) /\ TaskArgsFname(entry)' = TaskArgsFname(entry)
  BY <1>0 DEF TaskArgs, TaskArgsFname
<1>3. \A c : CheckPrecondition(c)' <=> CheckPrecondition(c)
  BY DEF CheckPrecondition
<1>4. \A n : (Selected(n) <=> Selected(n)')
  BY <1>1 DEF Selected
<1>5. \A n : (Expected(n) <=> Expected(n)')
  BY <1>3, <1>4 DEF Expected
<1>6. \A e : OwnArgs(e)' = OwnArgs(e) /\ OwnFile(e)' = OwnFile(e)
  BY <1>2 DEF OwnArgs, OwnFile
<1>7. Conf' = Conf
  BY DEF Conf
<1>8. Dispatchers' = Dispatchers
  BY <1>7 DEF Dispatchers
<1>9. \A d : Uses(d)' <=> Uses(d)
  BY <1>8 DEF Uses
<1>10. QED
  BY <1>3, <1>4, <1>5, <1>6, <1>8, <1>9

(****************************** the stages **********************************)

(* From the verdict on, nothing changes but the place, the verdict and the   *)
(* result file.                                                              *)
LastStep ==
  \/ TasksEnd \/ MakeDispatchers \/ FlushFile \/ FlushHttp \/ GenerateReporting
  \/ Interrupt \/ UNCHANGED vars

(* What the steps after the loop leave alone, and where they lead.           *)
LEMMA LastSteps ==
  ASSUME IInv, LastStep
  PROVE  /\ UNCHANGED <<program, cases, inputs, outputs, ran, struck, failed>>
         /\ i' \in {1, i, i + 1} /\ i' \in Nat \ {0}
         /\ pc' \in {"dispatch", "flush", "over"} \/ UNCHANGED <<pc, i>>
<1>1. i \in Nat \ {0}
  BY DEF IInv, PlaceInv
<1>2. CASE TasksEnd
  BY <1>1, <1>2 DEF TasksEnd, configVars, runVars
<1>3. CASE MakeDispatchers
  BY <1>1, <1>3 DEF MakeDispatchers, Raises, Leave, configVars, runVars
<1>4. CASE FlushFile
  BY <1>1, <1>4 DEF FlushFile, Flushing, Flushed, configVars, runVars
<1>5. CASE FlushHttp
  BY <1>1, <1>5 DEF FlushHttp, Flushing, Flushed, Raises, Leave, configVars, runVars
<1>6. CASE GenerateReporting
  BY <1>1, <1>6 DEF GenerateReporting, Raises, Leave, configVars, runVars
<1>7. CASE Interrupt
  BY <1>1, <1>7 DEF Interrupt, Leave, configVars, runVars
<1>8. CASE UNCHANGED vars
  BY <1>1, <1>8 DEF vars, configVars, runVars
<1>9. QED
  BY <1>2, <1>3, <1>4, <1>5, <1>6, <1>7, <1>8 DEF LastStep

(* A step of the loop over the test cases.                                   *)
LoopStep == GatherArguments \/ ParseTask \/ RunTask \/ LoseInterrupt

(* The same of the steps of the loop over the test cases.                    *)
LEMMA LoopSteps ==
  ASSUME IInv, LoopStep
  PROVE  /\ UNCHANGED <<program, cases>>
         /\ pc \in Loop /\ i <= Len(Files) /\ i \in 1 .. Len(Files)
         /\ \/ UNCHANGED i /\ pc' \in {"dispatch", "over"}
            \/ UNCHANGED <<i, ran>> /\ pc' = "task" /\ pc = "arguments"
            \/ /\ UNCHANGED <<i, ran>> /\ pc' = "run" /\ pc = "task"
               /\ CheckPrecondition(Current.precondition)
            \/ i' = i + 1 /\ pc' = "arguments" /\ pc \in {"task", "run"}
<1>1. i \in Nat \ {0} /\ Len(Files) \in Nat
  BY LenProperties DEF IInv, PlaceInv, ListsInv
<1>2. pc \in {"task", "run"} => i <= Len(Files)
  BY DEF IInv, PlaceInv
<1>3. CASE GatherArguments
  BY <1>1, <1>3 DEF GatherArguments, InLoop, Fatal, configVars, Loop, Files
<1>4. CASE ParseTask
  <2>1. UNCHANGED <<program, cases, ran>> /\ pc = "task"
    BY <1>4 DEF ParseTask, configVars, runVars
  <2>2. \/ UNCHANGED i /\ pc' \in {"dispatch", "over"}
        \/ UNCHANGED i /\ pc' = "run" /\ CheckPrecondition(Current.precondition)
        \/ i' = i + 1 /\ pc' = "arguments"
    BY <1>4 DEF ParseTask, Exits, Leave, Fatal, SkipTask
  <2>3. QED
    BY <2>1, <2>2, <1>1, <1>2 DEF Loop
<1>5. CASE RunTask \/ LoseInterrupt
  <2>1. pc = "run" /\ CaseEnds /\ UNCHANGED <<program, cases>>
    BY <1>5 DEF RunTask, LoseInterrupt, configVars
  <2>2. \/ UNCHANGED i /\ pc' = "dispatch"
        \/ i' = i + 1 /\ pc' = "arguments"
    BY <2>1 DEF CaseEnds, Fatal, SkipTask
  <2>3. QED
    BY <1>1, <1>2, <2>1, <2>2 DEF Loop
<1>6. QED
  BY <1>3, <1>4, <1>5 DEF LoopStep

(* The lists at the end of parse_suite(), and without it.                    *)
LEMMA WithEntryLists ==
  ASSUME IInv, i \in 1 .. Len(program.entries), program.suite, cases' = WithEntry(i)
  PROVE  \/ ~ Selected(i) /\ cases' = cases
         \/ /\ Selected(i)
            /\ cases.files' = Append(Files, i)
            /\ cases.args' = Append(cases.args, [entry |-> i, given |-> OwnArgs(i)])
            /\ cases.fnames' = Append(cases.fnames, [entry |-> i, given |-> OwnFile(i)])
<1>1. (IsValid(i) <=> Selected(i)) /\ OwnArgs(i) = TaskArgs(program.entries[i])
      /\ OwnFile(i) = TaskArgsFname(program.entries[i])
  BY DEF IsValid, Selected, OwnArgs, OwnFile
<1>2. CASE IsValid(i)
  <2>1. cases' = [files |-> File(i), args |-> ArgsOf(i), fnames |-> FnamesOf(i)]
    BY <1>2 DEF WithEntry
  <2>2. cases.files' = File(i) /\ cases.args' = ArgsOf(i) /\ cases.fnames' = FnamesOf(i)
    BY <2>1
  <2>3. QED
    BY <1>1, <1>2, <2>2 DEF File, ArgsOf, FnamesOf, Files
<1>3. CASE ~ IsValid(i)
  BY <1>1, <1>3 DEF WithEntry
<1>4. QED
  BY <1>2, <1>3

(* After parse_suite() the loop begins, or the program exits.                *)
LEMMA ParsedSteps ==
  ASSUME Parsed
  PROVE  \/ pc' = "over" /\ ending' = "exited" /\ UNCHANGED file
         \/ pc' = "arguments" /\ UNCHANGED <<ending, file>>
  BY DEF Parsed, Exits, Leave

(* The lists, their order and the place survive every step.                  *)
Stages == ListsInv /\ OrderInv /\ PlaceInv

(* An element that is appended comes last, and the others stay.              *)
LEMMA AppendAt ==
  ASSUME NEW S, NEW s \in Seq(S), NEW x \in S, NEW t, t = Append(s, x)
  PROVE  /\ t \in Seq(S) /\ Len(s) \in Nat /\ Len(t) = Len(s) + 1
         /\ DOMAIN s = 1 .. Len(s) /\ DOMAIN t = 1 .. Len(s) + 1
         /\ \A k \in 1 .. Len(s) : t[k] = s[k] /\ s[k] \in S
         /\ t[Len(s) + 1] = x
<1>1. t \in Seq(S) /\ Len(t) = Len(s) + 1 /\ t[Len(s) + 1] = x
      /\ \A k \in 1 .. Len(s) : t[k] = s[k]
  BY AppendProperties
<1>2. QED
  BY <1>1, LenProperties, ElementOfSeq

(* A list in ascending order stays so if a larger number is appended.        *)
LEMMA AppendOrder ==
  ASSUME NEW s \in Seq(Nat), NEW x \in Nat, NEW t, t = Append(s, x),
         \A j, k \in 1 .. Len(s) : j < k => s[j] < s[k],
         \A k \in 1 .. Len(s) : s[k] < x
  PROVE  /\ \A j, k \in 1 .. Len(t) : j < k => t[j] < t[k]
         /\ \A k \in 1 .. Len(t) : t[k] < x + 1
<1>1. /\ Len(s) \in Nat /\ Len(t) = Len(s) + 1 /\ t[Len(s) + 1] = x
      /\ \A k \in 1 .. Len(s) : t[k] = s[k] /\ s[k] \in Nat
  BY AppendAt
<1>2. ASSUME NEW k \in 1 .. Len(t)
      PROVE  t[k] < x + 1 /\ (k # Len(t) => k \in 1 .. Len(s) /\ t[k] < x)
  <2>1. CASE k = Len(s) + 1
    BY <1>1, <2>1
  <2>2. CASE k \in 1 .. Len(s)
    BY <1>1, <2>2
  <2>3. QED
    BY <1>1, <2>1, <2>2
<1>3. ASSUME NEW j \in 1 .. Len(t), NEW k \in 1 .. Len(t), j < k
      PROVE  t[j] < t[k]
  <2>0. j \in 1 .. Len(s)
    BY <1>1, <1>3
  <2>1. CASE k = Len(s) + 1
    BY <1>1, <2>0, <2>1
  <2>2. CASE k \in 1 .. Len(s)
    BY <1>1, <1>3, <2>0, <2>2
  <2>3. QED
    BY <1>1, <2>1, <2>2
<1>4. QED
  BY <1>2, <1>3

(* the facts about the lists that an invariant speaks of when none of them   *)
(* changes                                                                   *)
LEMMA SameLists ==
  ASSUME UNCHANGED <<program, cases>>, ListsInv,
         pc' \in {"configure", "parse"} => pc \in {"configure", "parse"}
  PROVE  ListsInv'
<1>1. /\ \A n : (Selected(n) <=> Selected(n)')
      /\ \A e : OwnArgs(e)' = OwnArgs(e) /\ OwnFile(e)' = OwnFile(e)
  BY SameProgram
<1>2. Files' = Files
  BY DEF Files
<1>3. QED
  BY <1>1, <1>2 DEF ListsInv

(* parse_suite() takes an entry with its arguments, or leaves it out with    *)
(* them.                                                                     *)
LEMMA EntryStages ==
  ASSUME IInv, ParseEntry
  PROVE  Stages'
<1>1. /\ pc = "entries" /\ i \in 1 .. Len(program.entries) /\ i \in Nat
      /\ UNCHANGED <<program, pc>> /\ i' = i + 1 /\ cases' = WithEntry(i)
      /\ ListsInv /\ OrderInv /\ program.suite
  BY ProgramType DEF IInv, ParseEntry, PlaceInv, OrderInv
<1>2. /\ Len(program.tests) = Len(program.entries) /\ Len(program.entries) \in Nat
      /\ Len(program.entries) <= MaxCases /\ MaxCases \in Nat
  BY <1>1, ProgramType DEF IInv
<1>3. /\ \A n : (Selected(n) <=> Selected(n)')
      /\ \A e : OwnArgs(e)' = OwnArgs(e) /\ OwnFile(e)' = OwnFile(e)
  BY <1>1, SameProgram
<1>4. Len(Files) < i /\ (Len(Files') <= Len(Files) + 1 => PlaceInv')
  BY <1>1, <1>2 DEF IInv, PlaceInv
<1>5. CASE cases' = cases /\ ~ Selected(i)
  <2>1. Files' = Files
    BY <1>5 DEF Files
  <2>2. ListsInv'
    BY <1>1, <1>5, SameLists
  <2>3. OrderInv'
    <3>1. \A k \in 1 .. Len(Files) : Files[k] \in Nat /\ Files[k] < i
      BY <1>1, ElementOfSeq DEF OrderInv, ListsInv
    <3>2. \A k \in 1 .. Len(Files) : Files[k] < i + 1
      BY <1>1, <3>1
    <3>3. \A n \in 1 .. Len(program.tests) : n < i + 1 /\ Selected(n) => n < i
      BY <1>1, <1>2, <1>5
    <3>4. \A n \in 1 .. Len(program.tests) : n < i + 1 /\ Selected(n) =>
            \E k \in 1 .. Len(Files) : Files[k] = n
      BY <1>1, <3>3 DEF OrderInv
    <3>5. QED
      BY <1>1, <1>3, <1>5, <2>1, <3>2, <3>4 DEF OrderInv, Loop
  <2>4. QED
    BY <1>4, <2>1, <2>2, <2>3, LenProperties DEF Stages, ListsInv
<1>6. CASE /\ Selected(i)
           /\ cases.files' = Append(Files, i)
           /\ cases.args' = Append(cases.args, [entry |-> i, given |-> OwnArgs(i)])
           /\ cases.fnames' = Append(cases.fnames, [entry |-> i, given |-> OwnFile(i)])
  <2>1. OwnArgs(i) \in Args /\ OwnFile(i) \in Args
    BY <1>1, <1>2, OwnArgsType DEF IInv
  <2>2. /\ [entry |-> i, given |-> OwnArgs(i)] \in Given
        /\ [entry |-> i, given |-> OwnFile(i)] \in Given
    BY <1>1, <2>1 DEF Given
  <2>3. /\ Files \in Seq(Nat) /\ cases.args \in Seq(Given) /\ cases.fnames \in Seq(Given)
        /\ DOMAIN cases.args = DOMAIN Files /\ DOMAIN cases.fnames = DOMAIN Files
    BY <1>1 DEF ListsInv
  <2>4. /\ Files' \in Seq(Nat) /\ Len(Files) \in Nat /\ Len(Files') = Len(Files) + 1
        /\ DOMAIN Files = 1 .. Len(Files) /\ DOMAIN Files' = 1 .. Len(Files) + 1
        /\ \A k \in 1 .. Len(Files) : Files'[k] = Files[k] /\ Files[k] \in Nat
        /\ Files'[Len(Files) + 1] = i
    <3>1. PICK F, t : F = Files /\ t = Files' /\ t = Append(F, i)
      BY <1>6 DEF Files
    <3>2. F \in Seq(Nat) /\ i \in Nat
      BY <1>1, <2>3, <3>1
    <3>3. /\ t \in Seq(Nat) /\ Len(F) \in Nat /\ Len(t) = Len(F) + 1
          /\ DOMAIN F = 1 .. Len(F) /\ DOMAIN t = 1 .. Len(F) + 1
          /\ \A k \in 1 .. Len(F) : t[k] = F[k] /\ F[k] \in Nat
          /\ t[Len(F) + 1] = i
      BY <3>1, <3>2, AppendAt
    <3>4. QED
      BY <3>1, <3>3
  <2>5. /\ Len(cases.args) = Len(Files) /\ Len(cases.fnames) = Len(Files)
    BY <2>3, <2>4, LenProperties
  <2>6. /\ cases.args' \in Seq(Given) /\ DOMAIN cases.args' = 1 .. Len(Files) + 1
        /\ \A k \in 1 .. Len(Files) : cases.args'[k] = cases.args[k]
        /\ cases.args'[Len(Files) + 1] = [entry |-> i, given |-> OwnArgs(i)]
    BY <1>6, <2>2, <2>3, <2>5, AppendAt
  <2>7. /\ cases.fnames' \in Seq(Given) /\ DOMAIN cases.fnames' = 1 .. Len(Files) + 1
        /\ \A k \in 1 .. Len(Files) : cases.fnames'[k] = cases.fnames[k]
        /\ cases.fnames'[Len(Files) + 1] = [entry |-> i, given |-> OwnFile(i)]
    BY <1>6, <2>2, <2>3, <2>5, AppendAt
  <2>8. /\ Len(Files') <= MaxCases
        /\ \A k \in 1 .. Len(Files) :
             /\ Files[k] < i
             /\ Files[k] \in 1 .. Len(program.tests) /\ Selected(Files[k])
             /\ cases.args[k] = [entry |-> Files[k], given |-> OwnArgs(Files[k])]
             /\ cases.fnames[k] = [entry |-> Files[k], given |-> OwnFile(Files[k])]
    BY <1>1, <1>2, <1>4, <2>4 DEF ListsInv, OrderInv
  <2>f. PICK F, A, E : F = Files' /\ A = cases.args' /\ E = cases.fnames'
    OBVIOUS
  <2>9. ASSUME NEW k \in 1 .. Len(F)
        PROVE  /\ F[k] \in 1 .. Len(program.tests) /\ Selected(F[k])
               /\ A[k] = [entry |-> F[k], given |-> OwnArgs(F[k])]
               /\ E[k] = [entry |-> F[k], given |-> OwnFile(F[k])]
    <3>1. CASE k \in 1 .. Len(Files)
      BY <2>f, <2>4, <2>6, <2>7, <2>8, <3>1
    <3>2. CASE k = Len(Files) + 1
      BY <1>1, <1>2, <1>6, <2>f, <2>4, <2>6, <2>7, <3>2
    <3>3. QED
      BY <2>f, <2>4, <3>1, <3>2
  <2>10. ListsInv'
    BY <1>1, <1>3, <2>f, <2>4, <2>6, <2>7, <2>8, <2>9 DEF ListsInv
  <2>12. \A j, k \in 1 .. Len(F) : j < k => F[j] < F[k]
    BY <1>1, <1>6, <2>f, <2>3, <2>8, AppendOrder DEF OrderInv, Files
  <2>13. \A k \in 1 .. Len(F) : F[k] < i'
    BY <1>1, <1>6, <2>f, <2>3, <2>8, AppendOrder DEF OrderInv, Files
  <2>14. \A n \in 1 .. Len(program.tests) : n < i' /\ Selected(n) =>
            \E k \in 1 .. Len(F) : F[k] = n
    <3>1. SUFFICES ASSUME NEW n \in 1 .. Len(program.tests), n < i', Selected(n)
                   PROVE  \E k \in 1 .. Len(F) : F[k] = n
      OBVIOUS
    <3>2. CASE n = i
      BY <2>f, <2>4, <3>2
    <3>3. CASE n < i
      BY <1>1, <2>f, <2>4, <3>1, <3>3 DEF OrderInv
    <3>4. QED
      BY <1>1, <1>2, <3>1, <3>2, <3>3
  <2>15. OrderInv'
    BY <1>1, <1>3, <2>f, <2>12, <2>13, <2>14 DEF OrderInv, Loop
  <2>16. QED
    BY <1>4, <2>4, <2>10, <2>15 DEF Stages
<1>7. QED
  BY <1>1, <1>5, <1>6, WithEntryLists

(* The lists are what they are to be after the last entry,                   *)
LEMMA EndOfEntriesStages ==
  ASSUME IInv, EntriesEnd
  PROVE  Stages'
<1>1. /\ pc = "entries" /\ ~ i <= Len(program.entries) /\ i' = 1
      /\ UNCHANGED <<program, cases>> /\ pc' \in {"over", "arguments"}
      /\ ListsInv /\ OrderInv /\ PlaceInv /\ program.suite
  <2>1. ListsInv /\ OrderInv /\ PlaceInv
    BY DEF IInv
  <2>2. /\ pc = "entries" /\ i > Len(program.entries) /\ Parsed /\ i' = 1
        /\ UNCHANGED <<program, cases>>
    BY DEF EntriesEnd, configVars
  <2>3. pc' \in {"over", "arguments"}
    BY <2>2, ParsedSteps
  <2>4. i \in Nat /\ Len(program.entries) \in Nat /\ program.suite
    BY <2>1, <2>2, ProgramType DEF IInv, PlaceInv, OrderInv
  <2>5. QED
    BY <2>1, <2>2, <2>3, <2>4
<1>2. /\ Len(program.tests) = Len(program.entries) /\ Len(program.entries) \in Nat
      /\ i \in Nat /\ Len(Files) \in Nat
  BY <1>1, ProgramType, LenProperties DEF IInv, PlaceInv, ListsInv
<1>3. \A n : (Selected(n) <=> Selected(n)')
  BY <1>1, SameProgram
<1>4. Files' = Files
  BY <1>1 DEF Files
<1>5. ListsInv'
  BY <1>1, SameLists
<1>6. PlaceInv'
  BY <1>1, <1>2, <1>4 DEF PlaceInv
<1>7. \A n \in 1 .. Len(program.tests) : Selected(n) => \E k \in 1 .. Len(Files) : Files[k] = n
  BY <1>1, <1>2 DEF OrderInv
<1>8. OrderInv'
  BY <1>1, <1>3, <1>4, <1>7 DEF OrderInv
<1>9. QED
  BY <1>5, <1>6, <1>8 DEF Stages

(* and for a single test case;                                               *)
LEMMA SingleStages ==
  ASSUME IInv, TakeSingle
  PROVE  Stages'
<1>1. /\ UNCHANGED program /\ i' = 1 /\ ~ program.suite /\ cases' = SingleLists
      /\ pc' \in {"over", "arguments"}
  BY ParsedSteps DEF IInv, TakeSingle, PlaceInv
<1>2. /\ Len(program.tests) = 1 /\ MaxCases \in Nat /\ Len(program.tests) <= MaxCases
  BY <1>1, ProgramType DEF IInv
<1>3. /\ Files' = <<1>>
      /\ cases.args' = <<[entry |-> 1, given |-> OwnArgs(1)]>>
      /\ cases.fnames' = <<[entry |-> 1, given |-> OwnFile(1)]>>
  BY <1>1 DEF Files, SingleLists, OwnArgs, OwnFile
<1>4. OwnArgs(1) \in Args /\ OwnFile(1) \in Args
  BY <1>2, OwnArgsType DEF IInv
<1>5. /\ [entry |-> 1, given |-> OwnArgs(1)] \in Given
      /\ [entry |-> 1, given |-> OwnFile(1)] \in Given
  BY <1>4 DEF Given
<1>6. /\ \A n : (Selected(n) <=> Selected(n)') /\ Selected(n)
      /\ \A e : OwnArgs(e)' = OwnArgs(e) /\ OwnFile(e)' = OwnFile(e)
  <2>1. \A n : Selected(n)
    BY <1>1 DEF Selected
  <2>2. QED
    BY <1>1, <2>1, SameProgram
<1>7. /\ Files' \in Seq(Nat) /\ Len(Files') = 1 /\ Files'[1] = 1
      /\ DOMAIN Files' = {1} /\ DOMAIN cases.args' = {1} /\ DOMAIN cases.fnames' = {1}
  BY <1>3
<1>8. /\ cases.args' \in Seq(Given) /\ cases.args'[1] = [entry |-> 1, given |-> OwnArgs(1)]
      /\ cases.fnames' \in Seq(Given) /\ cases.fnames'[1] = [entry |-> 1, given |-> OwnFile(1)]
  BY <1>3, <1>5
<1>9. \A k \in 1 .. 1 : k = 1
  OBVIOUS
<1>10. ListsInv'
  BY <1>1, <1>2, <1>6, <1>7, <1>8, <1>9 DEF ListsInv
<1>11. OrderInv' /\ PlaceInv'
  BY <1>1, <1>2, <1>6, <1>7, <1>9 DEF OrderInv, PlaceInv
<1>12. QED
  BY <1>10, <1>11 DEF Stages

(* no step of the loop touches them,                                         *)
LEMMA LoopStages ==
  ASSUME IInv, LoopStep
  PROVE  Stages'
<1>1. /\ UNCHANGED <<program, cases>> /\ pc \in Loop
      /\ i \in Nat \ {0} /\ i <= Len(Files)
      /\ ListsInv /\ OrderInv /\ PlaceInv
  BY LoopSteps DEF IInv, PlaceInv
<1>2. Files' = Files /\ Len(Files) \in Nat
  BY <1>1, LenProperties DEF Files, ListsInv
<1>3. \A n : (Selected(n) <=> Selected(n)')
  BY <1>1, SameProgram
<1>4. \A c : CheckPrecondition(c)' <=> CheckPrecondition(c)
  BY <1>1, SameProgram
<1>5. /\ i' \in Nat \ {0} /\ pc' \notin {"configure", "parse", "entries"}
      /\ pc' = "arguments" => i' <= Len(Files) + 1
      /\ pc' \in {"task", "run"} => i' <= Len(Files)
      /\ pc' = "run" => i' = i /\ CheckPrecondition(program.tests[Files[i]].precondition)
  BY <1>1, <1>2, LoopSteps DEF Current, Files
<1>6. PlaceInv'
  BY <1>1, <1>2, <1>4, <1>5 DEF PlaceInv
<1>7. ListsInv'
  BY <1>1, <1>5, SameLists
<1>8. OrderInv'
  BY <1>1, <1>2, <1>3, <1>5 DEF OrderInv
<1>9. QED
  BY <1>6, <1>7, <1>8 DEF Stages

(* nor do those before and after.                                            *)
LEMMA OtherStages ==
  ASSUME IInv, Configure \/ ParseSuite \/ LastStep
  PROVE  Stages'
<1>1. ListsInv /\ OrderInv /\ PlaceInv /\ i \in Nat \ {0}
  BY DEF IInv, PlaceInv
<1>2. UNCHANGED <<program, cases>>
  BY LastSteps DEF Configure, ParseSuite, configVars
<1>3. \/ /\ pc' \in {"parse", "entries"} /\ pc \in {"configure", "parse"} /\ i' = i
         /\ pc' = "entries" => program.suite
      \/ pc' \in {"dispatch", "flush", "over"} /\ i' \in Nat \ {0}
      \/ UNCHANGED <<pc, i>>
  <2>1. CASE Configure
    BY <1>1, <2>1 DEF Configure, Raises, Leave
  <2>2. CASE ParseSuite
    <3>1. program.suiteParses \in {"well", "raises", "exits"}
      BY ProgramType DEF IInv, Program
    <3>2. QED
      BY <1>1, <2>2, <3>1 DEF ParseSuite, Raises, Exits, Leave
  <2>3. QED
    BY <2>1, <2>2, LastSteps
<1>4. Files' = Files /\ Len(Files) \in Nat
  BY <1>1, <1>2, LenProperties DEF Files, ListsInv
<1>5. /\ \A n : (Selected(n) <=> Selected(n)')
      /\ \A c : CheckPrecondition(c)' <=> CheckPrecondition(c)
  BY <1>2, SameProgram
<1>6. Len(<<>>) = 0 /\ Len(program.entries) \in Nat
  BY ProgramType DEF IInv
<1>7. ListsInv'
  BY <1>1, <1>2, <1>3, SameLists
<1>8. CASE /\ pc' \in {"parse", "entries"} /\ pc \in {"configure", "parse"} /\ i' = i
           /\ pc' = "entries" => program.suite
  <2>1. Files = <<>> /\ i = 1 /\ Len(Files) = 0
    BY <1>1, <1>6, <1>8 DEF ListsInv, PlaceInv
  <2>2. PlaceInv'
    BY <1>4, <1>6, <1>8, <2>1 DEF PlaceInv
  <2>3. OrderInv'
    BY <1>2, <1>4, <1>5, <1>8, <2>1 DEF OrderInv, Loop
  <2>4. QED
    BY <1>7, <2>2, <2>3 DEF Stages
<1>9. CASE pc' \in {"dispatch", "flush", "over"} /\ i' \in Nat \ {0}
  BY <1>1, <1>4, <1>7, <1>9 DEF Stages, OrderInv, PlaceInv, Loop
<1>10. CASE UNCHANGED <<pc, i>>
  BY <1>1, <1>2, <1>4, <1>5, <1>7, <1>10 DEF Stages, OrderInv, PlaceInv
<1>11. QED
  BY <1>3, <1>8, <1>9, <1>10

(* Every step keeps what the lists are at each stage.                        *)
LEMMA StagesKept ==
  ASSUME IInv, [Next]_vars
  PROVE  Stages'
<1>1. Gone => UNCHANGED vars
  BY DEF Gone
<1>2. QED
  BY <1>1, EntryStages, EndOfEntriesStages, SingleStages, LoopStages, OtherStages
  DEF Next, LastStep, LoopStep

(************************* the test cases that ran **************************)

(* A number above all others is the greatest.                                *)
LEMMA MaxOfNew ==
  ASSUME NEW L \in Nat, NEW S \in SUBSET (1 .. L)
  PROVE  Max(S \cup {L + 1}) = L + 1
<1>1. \A q \in S \cup {L + 1} : (\A p \in S \cup {L + 1} : q >= p) <=> q = L + 1
  OBVIOUS
<1>2. QED
  BY <1>1 DEF Max

(* What is known of the test cases before stays, whoever runs next.          *)
LEMMA SameRan ==
  ASSUME UNCHANGED <<program, ran>>
  PROVE  /\ \A r, n : Givers(r, n)' = Givers(r, n) /\ LastGiver(r, n)' = LastGiver(r, n)
         /\ struck \subseteq struck' => \A n : Accounted(n) => Accounted(n)'
         /\ struck' = struck => \A n : Accounted(n)' <=> Accounted(n)
         /\ \A e, r : Known(e, r)' = Known(e, r)
         /\ \A e, r, n : Origin(e, r, n)' = Origin(e, r, n)
         /\ \A r, n : StepOrigin(r, n)' = StepOrigin(r, n)
<1>1. \A e : OwnArgs(e)' = OwnArgs(e) /\ OwnFile(e)' = OwnFile(e)
  BY SameProgram
<1>2. \A r, n : Givers(r, n)' = Givers(r, n)
  BY DEF Givers
<1>3. \A r, n : LastGiver(r, n)' = LastGiver(r, n)
  BY <1>2 DEF LastGiver
<1>4. /\ struck \subseteq struck' => \A n : Accounted(n) => Accounted(n)'
      /\ struck' = struck => \A n : Accounted(n)' <=> Accounted(n)
  BY DEF Accounted
<1>5. \A e, r : Known(e, r)' = Known(e, r)
  BY <1>1, <1>2 DEF Known
<1>6. \A e, r, n : Origin(e, r, n)' = Origin(e, r, n)
  BY <1>1, <1>3 DEF Origin
<1>7. \A r, n : StepOrigin(r, n)' = StepOrigin(r, n)
  BY <1>2, <1>3, <1>6 DEF StepOrigin
<1>8. QED
  BY <1>2, <1>3, <1>4, <1>5, <1>6, <1>7

(* What one more run does to the givers of an argument: only those of the    *)
(* runs behind it change.                                                    *)
LEMMA RanGrows ==
  ASSUME NEW L, L = Len(ran), ran \in Seq(Record), NEW x \in Record, ran' = Append(ran, x),
         UNCHANGED <<program, struck>>, GiversInv
  PROVE  /\ ran' \in Seq(Record) /\ L \in Nat /\ Len(ran') = L + 1 /\ DOMAIN ran' = 1 .. L + 1
         /\ DOMAIN ran = 1 .. L
         /\ \A r \in 1 .. L : ran'[r] = ran[r] /\ ran[r] \in Record
         /\ ran'[L + 1] = x
         /\ \A r \in 1 .. L + 1 : \A n : /\ Givers(r, n)' = Givers(r, n)
                                         /\ LastGiver(r, n)' = LastGiver(r, n)
         /\ \A n : n \in x.given => Givers(L + 2, n)' = Givers(L + 1, n) \cup {L + 1}
         /\ \A n : n \notin x.given => Givers(L + 2, n)' = Givers(L + 1, n)
         /\ \A n : Givers(L + 1, n) \subseteq 1 .. L
         /\ \A n : Accounted(n)' <=> (Accounted(n) \/ n = x.entry)
         /\ \A e : \A r \in 1 .. L + 1 :
              /\ Known(e, r)' = Known(e, r)
              /\ \A n \in Known(e, r) : Origin(e, r, n)' = Origin(e, r, n)
         /\ \A r \in 1 .. L : \A n \in Known(ran[r].entry, r) \cup ran[r].part :
              StepOrigin(r, n)' = StepOrigin(r, n)
<1>1. /\ ran' \in Seq(Record) /\ L \in Nat /\ Len(ran') = L + 1 /\ DOMAIN ran' = 1 .. L + 1
      /\ DOMAIN ran = 1 .. L
      /\ \A r \in 1 .. L : ran'[r] = ran[r] /\ ran[r] \in Record
      /\ ran'[L + 1] = x
  BY AppendAt
<1>2. ASSUME NEW r \in 1 .. L + 1, NEW n
      PROVE  /\ Givers(r, n)' = Givers(r, n)
             /\ LastGiver(r, n)' = LastGiver(r, n)
  <2>1. \A q \in 1 .. r - 1 : q \in 1 .. L
    BY <1>1
  <2>2. Givers(r, n)' = Givers(r, n)
    BY <1>1, <2>1 DEF Givers
  <2>3. QED
    BY <2>2 DEF LastGiver
<1>3. ASSUME NEW n
      PROVE  /\ n \in x.given => Givers(L + 2, n)' = Givers(L + 1, n) \cup {L + 1}
             /\ n \notin x.given => Givers(L + 2, n)' = Givers(L + 1, n)
  <2>1. \A q : q \in 1 .. (L + 2) - 1 <=> (q \in 1 .. (L + 1) - 1 \/ q = L + 1)
    BY <1>1
  <2>2. \A q \in 1 .. (L + 1) - 1 : q \in 1 .. L
    BY <1>1
  <2>3. QED
    BY <1>1, <2>1, <2>2 DEF Givers
<1>4. \A n : Givers(L + 1, n) \subseteq 1 .. L
  BY <1>1 DEF Givers
<1>5. \A n : Accounted(n)' <=> (Accounted(n) \/ n = x.entry)
  BY <1>1 DEF Accounted
<1>6. \A e : OwnArgs(e)' = OwnArgs(e) /\ OwnFile(e)' = OwnFile(e)
  BY SameProgram
<1>7. ASSUME NEW e, NEW r \in 1 .. L + 1
      PROVE  /\ Known(e, r)' = Known(e, r)
             /\ \A n \in Known(e, r) : Origin(e, r, n)' = Origin(e, r, n)
  <2>1. Known(e, r)' = Known(e, r)
    BY <1>2, <1>6 DEF Known
  <2>2. ASSUME NEW n \in Known(e, r)
        PROVE  Origin(e, r, n)' = Origin(e, r, n)
    <3>1. CASE n \in OwnArgs(e).names \cup OwnFile(e).names \cup program.global.names
      BY <1>6, <3>1 DEF Origin
    <3>2. CASE n \in Name /\ Givers(r, n) # {}
      <4>1. LastGiver(r, n) \in Givers(r, n)
        BY <3>2 DEF GiversInv
      <4>2. LastGiver(r, n) \in 1 .. L
        BY <1>1, <4>1 DEF Givers
      <4>3. ran'[LastGiver(r, n)'].entry = ran[LastGiver(r, n)].entry
        BY <1>1, <1>2, <4>2
      <4>4. QED
        BY <1>6, <4>3 DEF Origin
    <3>3. QED
      BY <3>1, <3>2 DEF Known
  <2>3. QED
    BY <2>1, <2>2
<1>8. ASSUME NEW r \in 1 .. L, NEW n \in Known(ran[r].entry, r) \cup ran[r].part
      PROVE  StepOrigin(r, n)' = StepOrigin(r, n)
  <2>1. r \in 1 .. L + 1 /\ ran'[r] = ran[r]
    BY <1>1
  <2>2. CASE n \in ran[r].part
    BY <2>1, <2>2 DEF StepOrigin
  <2>3. CASE n \notin ran[r].part /\ Givers(r, n) # {}
    <3>1. n \in Name
      <4>1. PICK q \in 1 .. r - 1 : n \in ran[q].given
        BY <2>3 DEF Givers
      <4>2. ran[q] \in Record
        BY <1>1, <2>1
      <4>3. QED
        BY <4>1, <4>2 DEF Record
    <3>2. LastGiver(r, n) \in 1 .. L
      <4>1. LastGiver(r, n) \in Givers(r, n)
        BY <1>1, <2>1, <2>3, <3>1 DEF GiversInv
      <4>2. QED
        BY <1>1, <2>1, <4>1 DEF Givers
    <3>3. ran'[LastGiver(r, n)'].entry = ran[LastGiver(r, n)].entry
      BY <1>1, <1>2, <2>1, <3>2
    <3>4. Givers(r, n)' = Givers(r, n)
      BY <1>2, <2>1
    <3>5. QED
      BY <2>1, <2>3, <3>3, <3>4 DEF StepOrigin
  <2>4. CASE n \notin ran[r].part /\ Givers(r, n) = {}
    <3>1. Givers(r, n)' = Givers(r, n) /\ n \in Known(ran[r].entry, r)
      BY <1>2, <2>1, <2>4
    <3>2. Origin(ran[r].entry, r, n)' = Origin(ran[r].entry, r, n)
      <4>1. PICK e : e = ran[r].entry
        OBVIOUS
      <4>2. Origin(e, r, n)' = Origin(e, r, n)
        BY <1>7, <2>1, <3>1, <4>1
      <4>3. ran'[r].entry = e
        BY <2>1, <4>1
      <4>4. QED
        BY <1>6, <4>1, <4>2, <4>3 DEF Origin
    <3>3. QED
      BY <2>1, <2>4, <3>1, <3>2 DEF StepOrigin
  <2>5. QED
    BY <2>2, <2>3, <2>4
<1>9. QED
  BY <1>1, <1>2, <1>3, <1>4, <1>5, <1>7, <1>8

(* Later arguments come over earlier ones.                                   *)
LEMMA OverlayValues ==
  ASSUME NEW d, NEW N, NEW s
  PROVE  /\ DOMAIN Overlay(d, N, s) = DOMAIN d \cup N
         /\ \A n \in N : Overlay(d, N, s)[n] = s
         /\ \A n \in DOMAIN d \ N : Overlay(d, N, s)[n] = d[n]
  BY DEF Overlay

(* The result is a dictionary of arguments again.                            *)
LEMMA OverlayType ==
  ASSUME NEW d \in Dictionary, NEW N \in SUBSET Name, NEW s \in Source
  PROVE  Overlay(d, N, s) \in Dictionary /\ IsDictionary(d)
<1>1. PICK M \in SUBSET Name : d \in [M -> Source]
  BY DEF Dictionary
<1>2. Overlay(d, N, s) \in [M \cup N -> Source]
  BY <1>1 DEF Overlay
<1>3. M \cup N \in SUBSET Name
  BY <1>1
<1>4. QED
  BY <1>1, <1>2, <1>3 DEF Dictionary, IsDictionary

(* and so is what one dictionary leaves of another.                          *)
LEMMA UpdateType ==
  ASSUME NEW d \in Dictionary, NEW e \in Dictionary
  PROVE  Update(d, e) \in Dictionary
<1>1. PICK M \in SUBSET Name : d \in [M -> Source]
  BY DEF Dictionary
<1>2. PICK N \in SUBSET Name : e \in [N -> Source]
  BY DEF Dictionary
<1>3. Update(d, e) \in [M \cup N -> Source]
  BY <1>1, <1>2 DEF Update
<1>4. M \cup N \in SUBSET Name
  BY <1>1, <1>2
<1>5. QED
  BY <1>3, <1>4 DEF Dictionary

(* what the r-th test case, of the entry e, has to hand a step               *)
HandedRight(h, part, e, r) ==
  /\ DOMAIN h = Known(e, r) \cup part
  /\ \A n \in DOMAIN h :
       h[n] = IF n \in part THEN <<"output", e>>
              ELSE IF Givers(r, n) # {} THEN <<"output", ran[LastGiver(r, n)].entry>>
              ELSE Origin(e, r, n)

(* What a step is handed, and the outputs after a part of its test case.     *)
LEMMA HandedOver ==
  ASSUME IInv, pc = "run", NEW part \in SUBSET Name
  PROVE  /\ OutputsWith(part) \in Dictionary /\ Handed(part) \in Dictionary
         /\ HandedRight(Handed(part), part, Files[i], Len(ran) + 1)
<1>0. PICK e, r : e = Files[i] /\ r = Len(ran) + 1
  OBVIOUS
<1>1. PICK s : s = <<"output", e>>
  OBVIOUS
<1>2. s \in Source
  <2>1. i \in 1 .. Len(Files)
    BY LenProperties DEF IInv, PlaceInv, ListsInv
  <2>2. e \in 1 .. Len(program.tests)
    BY <1>0, <2>1 DEF IInv, ListsInv
  <2>3. Len(program.tests) \in Nat /\ Len(program.tests) <= MaxCases /\ MaxCases \in Nat
    BY ProgramType DEF IInv
  <2>4. e \in Place
    BY <2>2, <2>3 DEF Place
  <2>5. QED
    BY <1>1, <2>4 DEF Source
<1>3. /\ outputs \in Dictionary /\ DOMAIN outputs = {n \in Name : Givers(r, n) # {}}
      /\ \A n \in DOMAIN outputs : outputs[n] = <<"output", ran[LastGiver(r, n)].entry>>
  BY <1>0 DEF IInv, OutputsInv
<1>4. /\ inputs \in Dictionary /\ DOMAIN inputs = Known(e, r)
      /\ \A n \in DOMAIN inputs : inputs[n] = Origin(e, r, n)
  BY <1>0 DEF IInv, InputsInv
<1>5. PICK o : o = OutputsWith(part)
  OBVIOUS
<1>6. o = Overlay(outputs, part, s)
  BY <1>0, <1>1, <1>5 DEF OutputsWith, Files
<1>7. o \in Dictionary
  BY <1>2, <1>3, <1>6, OverlayType
<1>8. /\ DOMAIN o = DOMAIN outputs \cup part
      /\ \A n \in part : o[n] = s
      /\ \A n \in DOMAIN outputs \ part : o[n] = outputs[n]
  BY <1>6 DEF Overlay
<1>9. Handed(part) = Update(inputs, o)
  BY <1>5 DEF Handed
<1>10. Handed(part) \in Dictionary
  BY <1>4, <1>7, <1>9, UpdateType
<1>11. DOMAIN Handed(part) = DOMAIN inputs \cup DOMAIN o
  BY <1>9 DEF Update
<1>12. DOMAIN outputs \subseteq Known(e, r)
  BY <1>3 DEF Known
<1>13. DOMAIN Handed(part) = Known(e, r) \cup part
  BY <1>4, <1>8, <1>11, <1>12
<1>14. ASSUME NEW n \in DOMAIN Handed(part)
       PROVE  Handed(part)[n] = IF n \in part THEN <<"output", e>>
                                ELSE IF Givers(r, n) # {}
                                THEN <<"output", ran[LastGiver(r, n)].entry>>
                                ELSE Origin(e, r, n)
  <2>1. Handed(part)[n] = IF n \in DOMAIN o THEN o[n] ELSE inputs[n]
    BY <1>9, <1>11 DEF Update
  <2>2. CASE n \in part
    BY <1>1, <1>8, <2>1, <2>2
  <2>3. CASE n \notin part /\ n \in DOMAIN outputs
    BY <1>3, <1>8, <2>1, <2>3
  <2>4. CASE n \notin part /\ n \notin DOMAIN outputs
    <3>1. n \in DOMAIN inputs /\ Handed(part)[n] = inputs[n]
      BY <1>8, <1>11, <2>1, <2>4
    <3>2. n \in Name
      BY <1>4, <3>1 DEF Dictionary
    <3>3. Givers(r, n) = {}
      BY <1>3, <2>4, <3>2
    <3>4. QED
      BY <1>4, <2>4, <3>1, <3>3
  <2>5. QED
    BY <2>2, <2>3, <2>4
<1>15. HandedRight(Handed(part), part, e, r)
  BY <1>13, <1>14 DEF HandedRight
<1>16. QED
  BY <1>0, <1>5, <1>7, <1>10, <1>15

(* What a run of a test case does, whether it passes or fails.               *)
LEMMA RunSteps ==
  ASSUME IInv, RunTask
  PROVE  /\ pc = "run" /\ UNCHANGED <<program, cases, struck>> /\ inputs' \in Dictionary
         /\ i \in 1 .. Len(Files) /\ Len(Files) \in Nat /\ Files[i] \in Nat
         /\ \/ pc' = "dispatch" /\ UNCHANGED i
            \/ pc' = "arguments" /\ i' = i + 1
         /\ \E x \in Record :
              /\ x.entry = Files[i] /\ x.inputs = inputs
              /\ x.handed \in {{}, {Handed(x.part)}}
              /\ ran' = Append(ran, x)
              /\ outputs' = Overlay(outputs, x.given, <<"output", Files[i]>>)
<1>1. pc = "run" /\ UNCHANGED <<program, cases, struck>>
  BY DEF RunTask, configVars
<1>2. i \in 1 .. Len(Files)
  BY LoopSteps DEF LoopStep
<1>3. /\ Files \in Seq(Nat) /\ Len(Files) \in Nat
      /\ Files[i] \in 1 .. Len(program.tests) /\ Files[i] \in Nat
  BY <1>2, LenProperties, ElementOfSeq DEF IInv, ListsInv
<1>4. Current.gives \in SUBSET Name
  <2>1. program.tests \in Seq(Test)
    BY ProgramType DEF IInv
  <2>2. Current \in Test
    BY <1>3, <2>1, ElementOfSeq DEF Current, Files
  <2>3. QED
    BY <2>2 DEF Test
<1>5. inputs \in Dictionary
  BY DEF IInv, InputsInv
<1>6. \/ pc' = "dispatch" /\ UNCHANGED i
      \/ pc' = "arguments" /\ i' = i + 1
  BY DEF RunTask, CaseEnds, Fatal, SkipTask
<1>7. PICK given \in SUBSET Current.gives, starts \in BOOLEAN, part \in SUBSET Current.gives :
        /\ inputs' = IF starts THEN Handed(part) ELSE inputs
        /\ outputs' = OutputsWith(given)
        /\ ran' = Append(ran, [entry |-> Files[i], inputs |-> inputs, given |-> given,
                               part |-> part, handed |-> IF starts THEN {Handed(part)} ELSE {}])
  BY DEF RunTask, Files
<1>8. given \in SUBSET Name /\ part \in SUBSET Name /\ Handed(part) \in Dictionary
  <2>1. given \in SUBSET Name /\ part \in SUBSET Name
    BY <1>4, <1>7
  <2>2. QED
    BY <1>1, <2>1, HandedOver
<1>9. PICK H : H = IF starts THEN {Handed(part)} ELSE {}
  OBVIOUS
<1>10. H \in {{}, {Handed(part)}} /\ H \in SUBSET Dictionary
  BY <1>8, <1>9
<1>11. PICK x : x = [entry |-> Files[i], inputs |-> inputs, given |-> given, part |-> part,
                     handed |-> H]
  OBVIOUS
<1>12. /\ x \in Record /\ x.entry = Files[i] /\ x.inputs = inputs /\ x.given = given
       /\ x.part = part /\ x.handed = H /\ ran' = Append(ran, x)
  BY <1>3, <1>5, <1>7, <1>8, <1>9, <1>10, <1>11 DEF Record
<1>13. inputs' \in Dictionary
  BY <1>5, <1>7, <1>8
<1>14. outputs' = Overlay(outputs, x.given, <<"output", Files[i]>>)
  BY <1>7, <1>12 DEF OutputsWith, Files
<1>15. QED
  BY <1>1, <1>2, <1>3, <1>6, <1>10, <1>12, <1>13, <1>14

(* The entries before the one that runs: those that were to run did, and     *)
(* those that ran come before it.                                            *)
LEMMA RunIsNext ==
  ASSUME IInv, pc \in {"task", "run"}
  PROVE  /\ Files[i] \in 1 .. Len(program.tests) /\ Selected(Files[i])
         /\ \A q \in 1 .. Len(ran) : ran[q].entry < Files[i]
         /\ \A n \in 1 .. Files[i] - 1 : Expected(n) => Accounted(n)
<1>1. /\ i \in 1 .. Len(Files) /\ Len(Files) \in Nat /\ Files \in Seq(Nat)
      /\ Len(program.tests) \in Nat /\ pc \in Loop
  BY ProgramType, LenProperties DEF IInv, PlaceInv, ListsInv, Loop
<1>2. Files[i] \in 1 .. Len(program.tests) /\ Selected(Files[i])
  BY <1>1 DEF IInv, ListsInv
<1>3. \A k \in 1 .. Len(Files) : Files[k] \in Nat
  BY <1>1, ElementOfSeq
<1>4. ASSUME NEW q \in 1 .. Len(ran)
      PROVE  ran[q].entry < Files[i]
  <2>1. PICK k \in 1 .. i - 1 : Files[k] = ran[q].entry
    BY <1>1 DEF IInv, RanInv
  <2>2. k \in 1 .. Len(Files) /\ k < i
    BY <1>1
  <2>3. QED
    BY <1>1, <2>1, <2>2 DEF IInv, OrderInv
<1>5. ASSUME NEW n \in 1 .. Files[i] - 1, Expected(n)
      PROVE  Accounted(n)
  <2>1. n \in 1 .. Len(program.tests) /\ n < Files[i] /\ Selected(n)
    BY <1>1, <1>2, <1>5 DEF Expected
  <2>2. PICK k \in 1 .. Len(Files) : Files[k] = n
    BY <1>1, <2>1 DEF IInv, OrderInv
  <2>3. k < i
    <3>1. CASE k = i
      BY <2>1, <2>2, <3>1, <1>3, <1>1
    <3>2. CASE i < k
      <4>1. Files[i] < Files[k]
        BY <1>1, <3>2 DEF IInv, OrderInv
      <4>2. QED
        BY <1>1, <1>3, <2>1, <2>2, <4>1
    <3>3. QED
      BY <1>1, <3>1, <3>2
  <2>4. k \in 1 .. i - 1 /\ CheckPrecondition(program.tests[Files[k]].precondition)
    BY <1>1, <1>5, <2>2, <2>3 DEF Expected
  <2>5. QED
    BY <1>1, <2>2, <2>4 DEF IInv, RanInv
<1>6. QED
  BY <1>2, <1>4, <1>5

(* The history of the test cases, and what they hand on.                     *)
History == RanInv /\ GiversInv /\ OutputsInv /\ InputsInv /\ RunsAsConfigured

(* A run keeps what the history says,                                        *)
LEMMA RunHistory ==
  ASSUME IInv, RunTask
  PROVE  History'
<1>1. /\ pc = "run" /\ UNCHANGED <<program, cases, struck>> /\ inputs' \in Dictionary
      /\ i \in 1 .. Len(Files) /\ Len(Files) \in Nat /\ Files[i] \in Nat
      /\ \/ pc' = "dispatch" /\ UNCHANGED i
         \/ pc' = "arguments" /\ i' = i + 1
  BY RunSteps
<1>2. PICK x \in Record :
        /\ x.entry = Files[i] /\ x.inputs = inputs
        /\ x.handed \in {{}, {Handed(x.part)}}
        /\ ran' = Append(ran, x)
        /\ outputs' = Overlay(outputs, x.given, <<"output", Files[i]>>)
  BY RunSteps
<1>3. PICK L : L = Len(ran)
  OBVIOUS
<1>4. PICK given : given = x.given
  OBVIOUS
<1>5. /\ x.entry = Files[i] /\ x.inputs = inputs /\ x.given = given
      /\ given \in SUBSET Name /\ x.part \in SUBSET Name
      /\ ran' = Append(ran, x)
      /\ outputs' = Overlay(outputs, given, <<"output", Files[i]>>)
  BY <1>2, <1>4 DEF Record
<1>6. ran \in Seq(Record) /\ GiversInv /\ RanInv /\ OutputsInv /\ InputsInv /\ RunsAsConfigured
  BY DEF IInv, RanInv
<1>7. /\ ran' \in Seq(Record) /\ L \in Nat /\ Len(ran') = L + 1 /\ DOMAIN ran' = 1 .. L + 1
      /\ DOMAIN ran = 1 .. L
      /\ \A r \in 1 .. L : ran'[r] = ran[r] /\ ran[r] \in Record
      /\ ran'[L + 1] = x
  BY <1>1, <1>3, <1>5, <1>6, RanGrows
<1>8. /\ \A r \in 1 .. L + 1 : \A n : /\ Givers(r, n)' = Givers(r, n)
                                      /\ LastGiver(r, n)' = LastGiver(r, n)
      /\ \A n : n \in given => Givers(L + 2, n)' = Givers(L + 1, n) \cup {L + 1}
      /\ \A n : n \notin given => Givers(L + 2, n)' = Givers(L + 1, n)
      /\ \A n : Givers(L + 1, n) \subseteq 1 .. L
  BY <1>1, <1>3, <1>5, <1>6, RanGrows
<1>9. /\ \A n : Accounted(n)' <=> (Accounted(n) \/ n = Files[i])
      /\ \A e : \A r \in 1 .. L + 1 :
           /\ Known(e, r)' = Known(e, r)
           /\ \A n \in Known(e, r) : Origin(e, r, n)' = Origin(e, r, n)
      /\ \A r \in 1 .. L : \A n \in Known(ran[r].entry, r) \cup ran[r].part :
           StepOrigin(r, n)' = StepOrigin(r, n)
  BY <1>1, <1>3, <1>5, <1>6, RanGrows
<1>10. /\ \A n : (Expected(n) <=> Expected(n)')
       /\ \A c : CheckPrecondition(c)' <=> CheckPrecondition(c)
  BY <1>1, SameProgram
<1>11. /\ \A n \in given : LastGiver(L + 2, n)' = L + 1
       /\ \A n : n \notin given => LastGiver(L + 2, n)' = LastGiver(L + 1, n)
  <2>1. ASSUME NEW n \in given
        PROVE  LastGiver(L + 2, n)' = L + 1
    <3>1. Max(Givers(L + 1, n) \cup {L + 1}) = L + 1
      BY <1>7, <1>8, MaxOfNew
    <3>2. QED
      BY <1>8, <3>1 DEF LastGiver
  <2>2. ASSUME NEW n, n \notin given
        PROVE  LastGiver(L + 2, n)' = LastGiver(L + 1, n)
    BY <1>8, <2>2 DEF LastGiver
  <2>3. QED
    BY <2>1, <2>2
<1>12. \A n \in Name : Givers(L + 1, n) # {} => LastGiver(L + 1, n) \in Givers(L + 1, n)
  BY <1>3, <1>6, <1>7 DEF GiversInv
<1>13. GiversInv'
  <2>1. ASSUME NEW r \in 1 .. L + 2, NEW n \in Name
        PROVE  (Givers(r, n) # {} => LastGiver(r, n) \in Givers(r, n))'
    <3>1. CASE r \in 1 .. L + 1
      BY <1>3, <1>6, <1>8, <3>1 DEF GiversInv
    <3>2. CASE r = L + 2 /\ n \in given
      BY <1>8, <1>11, <3>2
    <3>3. CASE r = L + 2 /\ n \notin given
      BY <1>8, <1>11, <1>12, <3>3
    <3>4. QED
      BY <1>7, <3>1, <3>2, <3>3
  <2>2. Len(ran') + 1 = L + 2
    BY <1>7
  <2>3. QED
    BY <2>1, <2>2 DEF GiversInv
<1>14. OutputsInv'
  <2>1. Len(ran') + 1 = L + 2 /\ Len(ran) + 1 = L + 1
    BY <1>3, <1>7
  <2>2. outputs \in Dictionary /\ DOMAIN outputs = {n \in Name : Givers(L + 1, n) # {}}
    BY <1>6, <2>1 DEF OutputsInv
  <2>3. DOMAIN outputs' = DOMAIN outputs \cup given
        /\ (\A n \in given : outputs'[n] = <<"output", Files[i]>>)
        /\ (\A n \in DOMAIN outputs \ given : outputs'[n] = outputs[n])
    <3>1. PICK source : source = <<"output", Files[i]>>
      OBVIOUS
    <3>2. outputs' = Overlay(outputs, given, source)
      BY <1>5, <3>1
    <3>3. QED
      BY <3>1, <3>2 DEF Overlay
  <2>4. DOMAIN outputs' = {n \in Name : Givers(L + 2, n)' # {}}
    BY <1>5, <1>8, <2>2, <2>3
  <2>5. <<"output", Files[i]>> \in Source
    <3>1. Files[i] \in 1 .. Len(program.tests)
      BY <1>1, RunIsNext
    <3>2. Files[i] \in Place
      BY <3>1, ProgramType DEF IInv, Place
    <3>3. QED
      BY <3>2 DEF Source
  <2>6. outputs' \in Dictionary
    BY <1>5, <2>2, <2>5, OverlayType
  <2>7. ASSUME NEW n \in DOMAIN outputs'
        PROVE  outputs'[n] = <<"output", ran'[LastGiver(L + 2, n)'].entry>>
    <3>1. CASE n \in given
      BY <1>5, <1>7, <1>11, <2>3, <3>1
    <3>2. CASE n \in DOMAIN outputs /\ n \notin given
      <4>1. outputs'[n] = <<"output", ran[LastGiver(L + 1, n)].entry>>
        BY <1>6, <2>1, <2>3, <3>2 DEF OutputsInv
      <4>2. LastGiver(L + 1, n) \in 1 .. L
        BY <1>8, <1>12, <2>2, <3>2
      <4>3. QED
        BY <1>7, <1>11, <3>2, <4>1, <4>2
    <3>3. QED
      BY <2>3, <3>1, <3>2
  <2>8. QED
    BY <2>1, <2>4, <2>6, <2>7 DEF OutputsInv
<1>15. InputsInv'
  BY <1>1, <1>6 DEF InputsInv
<1>16. RanInv'
  <2>1. /\ pc \in Loop /\ Len(ran) < i /\ L < i
        /\ \A r \in 1 .. L : ran[r].entry \in 1 .. Len(program.tests)
        /\ \A r \in 1 .. L : \E k \in 1 .. i - 1 : Files[k] = ran[r].entry
        /\ \A k \in 1 .. i - 1 : CheckPrecondition(program.tests[Files[k]].precondition)
                                   => Accounted(Files[k])
    BY <1>1, <1>3, <1>6 DEF RanInv, Loop
  <2>2. Files' = Files /\ Files[i] \in 1 .. Len(program.tests)
    BY <1>1, RunIsNext DEF Files
  <2>3. \A r \in 1 .. Len(ran') : /\ ran'[r].entry \in 1 .. Len(program.tests)
                                  /\ \E k \in 1 .. i : Files[k] = ran'[r].entry
    <3>1. SUFFICES ASSUME NEW r \in 1 .. L + 1
                   PROVE  /\ ran'[r].entry \in 1 .. Len(program.tests)
                          /\ \E k \in 1 .. i : Files[k] = ran'[r].entry
      BY <1>7
    <3>2. CASE r = L + 1
      BY <1>1, <1>5, <1>7, <2>2, <3>2
    <3>3. CASE r \in 1 .. L
      <4>1. PICK k \in 1 .. i - 1 : Files[k] = ran[r].entry
        BY <2>1, <3>3
      <4>2. k \in 1 .. i
        BY <1>1
      <4>3. QED
        BY <1>7, <2>1, <3>3, <4>1, <4>2
    <3>4. QED
      BY <1>7, <3>2, <3>3
  <2>4. \A k \in 1 .. i : CheckPrecondition(program.tests[Files[k]].precondition)
                           => Accounted(Files[k])'
    <3>1. ASSUME NEW k \in 1 .. i, CheckPrecondition(program.tests[Files[k]].precondition)
          PROVE  Accounted(Files[k]) \/ Files[k] = Files[i]
      <4>1. k = i \/ k \in 1 .. i - 1
        BY <1>1
      <4>2. QED
        BY <2>1, <3>1, <4>1
    <3>2. PICK F : F = Files
      OBVIOUS
    <3>3. QED
      BY <1>9, <2>2, <3>1, <3>2
  <2>5. Len(ran') <= Len(Files')
    BY <1>1, <1>7, <2>1, <2>2
  <2>6. pc' \in Loop => i' = i + 1 /\ i' - 1 = i
    BY <1>1 DEF Loop
  <2>7. pc' \in Loop =>
          /\ Len(ran') < i'
          /\ \A r \in 1 .. Len(ran') : \E k \in 1 .. i' - 1 : Files'[k] = ran'[r].entry
    BY <1>1, <1>7, <2>1, <2>2, <2>3, <2>6
  <2>8. pc' \in Loop =>
          \A k \in 1 .. i' - 1 : CheckPrecondition(program.tests[Files[k]].precondition)
                                   => Accounted(Files[k])'
    BY <2>4, <2>6
  <2>9. /\ ran' \in Seq(Record) /\ pc' \notin {"configure", "parse", "entries"}
        /\ \A r \in 1 .. Len(ran') : ran'[r].entry \in 1 .. Len(program'.tests)
    BY <1>1, <1>7, <2>3
  <2>10. QED
    BY <1>1, <1>10, <2>2, <2>5, <2>7, <2>8, <2>9 DEF RanInv
<1>17. RunsAsConfigured'
  <2>1. ASSUME NEW r \in 1 .. L + 1, NEW e, e = ran'[r].entry
        PROVE  /\ e \in 1 .. Len(program.tests) /\ Expected(e)
               /\ \A q \in 1 .. r - 1 : ran'[q].entry < e
               /\ \A n \in 1 .. e - 1 : Expected(n) => Accounted(n)
               /\ DOMAIN ran'[r].inputs = Known(e, r)
               /\ \A n \in Known(e, r) : ran'[r].inputs[n] = Origin(e, r, n)
               /\ \A h \in ran'[r].handed : /\ DOMAIN h = Known(e, r) \cup ran'[r].part
                                            /\ \A n \in DOMAIN h : h[n] = StepOrigin(r, n)'
    <3>1. CASE r \in 1 .. L
      <4>1. \A q \in 1 .. r - 1 : q \in 1 .. L /\ ran'[q] = ran[q]
        BY <1>7, <3>1
      <4>2. ran'[r] = ran[r] /\ r \in DOMAIN ran
        BY <1>7, <3>1
      <4>3. DOMAIN program.tests = 1 .. Len(program.tests)
        BY ProgramType DEF IInv
      <4>4. /\ e \in 1 .. Len(program.tests) /\ Expected(e)
            /\ \A q \in 1 .. r - 1 : ran'[q].entry < e
            /\ \A n \in 1 .. e - 1 : Expected(n) => Accounted(n)
            /\ DOMAIN ran'[r].inputs = Known(e, r)
            /\ \A n \in Known(e, r) : ran'[r].inputs[n] = Origin(e, r, n)
        BY <1>6, <2>1, <4>1, <4>2, <4>3 DEF RunsAsConfigured
      <4>5. ASSUME NEW h \in ran'[r].handed
            PROVE  /\ DOMAIN h = Known(e, r) \cup ran'[r].part
                   /\ \A n \in DOMAIN h : h[n] = StepOrigin(r, n)'
        <5>1. /\ DOMAIN h = Known(e, r) \cup ran[r].part
              /\ \A n \in DOMAIN h : h[n] = StepOrigin(r, n)
          BY <1>6, <2>1, <4>2, <4>5 DEF RunsAsConfigured
        <5>2. \A n \in Known(e, r) \cup ran[r].part : StepOrigin(r, n)' = StepOrigin(r, n)
          BY <1>9, <2>1, <3>1, <4>2
        <5>3. QED
          BY <4>2, <5>1, <5>2
      <4>6. QED
        BY <4>4, <4>5
    <3>2. CASE r = L + 1
      <4>1. e = Files[i] /\ ran'[r].inputs = inputs
        BY <1>5, <1>7, <2>1, <3>2
      <4>2. \A q \in 1 .. r - 1 : q \in 1 .. L /\ ran'[q] = ran[q]
        BY <1>7, <3>2
      <4>3. Expected(e)
        BY <1>1, <4>1, RunIsNext DEF Expected, IInv, PlaceInv
      <4>4. DOMAIN inputs = Known(e, r) /\ \A n \in DOMAIN inputs : inputs[n] = Origin(e, r, n)
        BY <1>1, <1>3, <1>6, <3>2, <4>1 DEF InputsInv
      <4>5. ASSUME NEW h \in ran'[r].handed
            PROVE  /\ DOMAIN h = Known(e, r) \cup ran'[r].part
                   /\ \A n \in DOMAIN h : h[n] = StepOrigin(r, n)'
        <5>1. ran'[r].part = x.part /\ ran'[r].entry = e /\ h = Handed(x.part)
          BY <1>2, <1>5, <1>7, <3>2, <4>1, <4>5
        <5>2. /\ DOMAIN h = Known(e, r) \cup x.part
              /\ \A n \in DOMAIN h : h[n] = IF n \in x.part THEN <<"output", e>>
                                             ELSE IF Givers(r, n) # {}
                                             THEN <<"output", ran[LastGiver(r, n)].entry>>
                                             ELSE Origin(e, r, n)
          <6>1. pc = "run" /\ x.part \in SUBSET Name /\ e = Files[i] /\ r = Len(ran) + 1
            BY <1>1, <1>3, <1>5, <3>2, <4>1
          <6>2. HandedRight(Handed(x.part), x.part, Files[i], Len(ran) + 1)
            BY <6>1, HandedOver
          <6>3. HandedRight(h, x.part, e, r)
            BY <5>1, <6>1, <6>2
          <6>4. QED
            BY <6>3 DEF HandedRight
        <5>3. ASSUME NEW n \in DOMAIN h
              PROVE  h[n] = StepOrigin(r, n)'
          <6>1. r \in 1 .. L + 1 /\ Givers(r, n)' = Givers(r, n)
            BY <1>7, <1>8, <3>2
          <6>2. CASE n \in x.part
            BY <5>1, <5>2, <6>2 DEF StepOrigin
          <6>3. CASE n \notin x.part /\ Givers(r, n) # {}
            <7>1. n \in Name
              BY <6>1, <6>3, <1>7, <3>2 DEF Givers, Record
            <7>2. LastGiver(r, n) \in 1 .. L
              BY <1>8, <1>12, <3>2, <6>3, <7>1
            <7>3. ran'[LastGiver(r, n)'].entry = ran[LastGiver(r, n)].entry
              BY <1>7, <1>8, <6>1, <7>2
            <7>4. QED
              BY <5>1, <5>2, <6>1, <6>3, <7>3 DEF StepOrigin
          <6>4. CASE n \notin x.part /\ Givers(r, n) = {}
            <7>1. n \in Known(e, r) /\ h[n] = Origin(e, r, n)
              BY <5>2, <6>4
            <7>2. Origin(e, r, n)' = Origin(e, r, n)
              BY <1>9, <6>1, <7>1
            <7>3. QED
              BY <5>1, <6>1, <6>4, <7>1, <7>2 DEF StepOrigin, Origin
          <6>5. QED
            BY <6>2, <6>3, <6>4
        <5>4. QED
          BY <5>1, <5>2, <5>3
      <4>6. QED
        BY <1>1, <1>3, <4>1, <4>2, <4>3, <4>4, <4>5, RunIsNext
    <3>3. r \in 1 .. L \/ r = L + 1
      BY <1>7
    <3>4. QED
      BY <3>1, <3>2, <3>3
  <2>2. DOMAIN program.tests = 1 .. Len(program.tests)
    BY ProgramType DEF IInv
  <2>3. ASSUME NEW r \in 1 .. L + 1, NEW e, e = ran'[r].entry
        PROVE  /\ e \in DOMAIN program.tests /\ Expected(e)'
               /\ \A q \in 1 .. r - 1 : ran'[q].entry < e
               /\ \A n \in 1 .. e - 1 : Expected(n)' => Accounted(n)'
               /\ DOMAIN ran'[r].inputs = Known(e, r)'
               /\ \A n \in Known(e, r)' : ran'[r].inputs[n] = Origin(e, r, n)'
               /\ \A h \in ran'[r].handed : /\ DOMAIN h = Known(e, r)' \cup ran'[r].part
                                            /\ \A n \in DOMAIN h : h[n] = StepOrigin(r, n)'
    <3>1. /\ \A n : Accounted(n) => Accounted(n)'
          /\ Known(e, r)' = Known(e, r)
          /\ \A n \in Known(e, r) : Origin(e, r, n)' = Origin(e, r, n)
      BY <1>9
    <3>2. /\ e \in 1 .. Len(program.tests) /\ Expected(e)
          /\ \A q \in 1 .. r - 1 : ran'[q].entry < e
          /\ \A n \in 1 .. e - 1 : Expected(n) => Accounted(n)
          /\ DOMAIN ran'[r].inputs = Known(e, r)
          /\ \A n \in Known(e, r) : ran'[r].inputs[n] = Origin(e, r, n)
          /\ \A h \in ran'[r].handed : /\ DOMAIN h = Known(e, r) \cup ran'[r].part
                                       /\ \A n \in DOMAIN h : h[n] = StepOrigin(r, n)'
      BY <2>1, <2>3
    <3>3. \A n \in 1 .. e - 1 : Expected(n)' => Accounted(n)'
      BY <1>10, <3>1, <3>2
    <3>4. QED
      BY <1>10, <2>2, <3>1, <3>2, <3>3
  <2>4. QED
    BY <1>1, <1>7, <2>3 DEF RunsAsConfigured
<1>18. QED
  BY <1>13, <1>14, <1>15, <1>16, <1>17 DEF History

(* Of the history, what depends on nothing but the test cases that ran.      *)
LEMMA SameHistory ==
  ASSUME IInv, UNCHANGED <<program, ran, outputs>>, struck \subseteq struck'
  PROVE  GiversInv' /\ OutputsInv' /\ RunsAsConfigured'
<1>1. /\ \A r, n : Givers(r, n)' = Givers(r, n) /\ LastGiver(r, n)' = LastGiver(r, n)
      /\ \A n : Accounted(n) => Accounted(n)'
      /\ \A e, r : Known(e, r)' = Known(e, r)
      /\ \A e, r, n : Origin(e, r, n)' = Origin(e, r, n)
      /\ \A r, n : StepOrigin(r, n)' = StepOrigin(r, n)
      /\ \A n : (Expected(n) <=> Expected(n)')
  BY SameRan, SameProgram
<1>2. GiversInv /\ OutputsInv /\ RunsAsConfigured
  BY DEF IInv
<1>3. GiversInv'
  BY <1>1, <1>2 DEF GiversInv
<1>4. OutputsInv'
  BY <1>1, <1>2 DEF OutputsInv
<1>5. RunsAsConfigured'
  BY <1>1, <1>2 DEF RunsAsConfigured
<1>6. QED
  BY <1>3, <1>4, <1>5

(* Nothing has run before the loop over the test cases.                      *)
ParseStep == Configure \/ ParseSuite \/ ParseEntry \/ EntriesEnd \/ TakeSingle

(* What the steps before the loop leave alone, and where they lead.          *)
LEMMA ParseSteps ==
  ASSUME IInv, ParseStep
  PROVE  /\ UNCHANGED <<program, inputs, outputs, ran, struck, failed, criteria>>
         /\ pc \in {"configure", "parse", "entries"}
         /\ \/ pc' \in {"parse", "entries", "over"}
            \/ pc' = "arguments" /\ i' = 1
<1>1. pc = "parse" => i = 1
  BY DEF IInv, PlaceInv
<1>2. CASE Configure
  BY <1>2 DEF Configure, Raises, Leave, configVars, runVars
<1>3. CASE ParseSuite
  <2>1. program.suiteParses \in {"well", "raises", "exits"}
    BY ProgramType DEF IInv, Program
  <2>2. QED
    BY <1>3, <2>1 DEF ParseSuite, Raises, Exits, Leave, configVars, runVars
<1>4. CASE ParseEntry
  BY <1>4 DEF ParseEntry, runVars
<1>5. CASE EntriesEnd
  BY <1>5, ParsedSteps DEF EntriesEnd, configVars, runVars
<1>6. CASE TakeSingle
  BY <1>1, <1>6, ParsedSteps DEF TakeSingle, runVars
<1>7. QED
  BY <1>2, <1>3, <1>4, <1>5, <1>6 DEF ParseStep

(* and so do the steps before the loop, in which nothing has run,            *)
LEMMA ParseHistory ==
  ASSUME IInv, ParseStep
  PROVE  History'
<1>1. /\ UNCHANGED <<program, inputs, outputs, ran, struck>>
      /\ pc \in {"configure", "parse", "entries"}
      /\ \/ pc' \in {"parse", "entries", "over"}
         \/ pc' = "arguments" /\ i' = 1
  BY ParseSteps
<1>2. ran = <<>> /\ Len(ran) = 0 /\ outputs = Empty /\ ran \in Seq(Record) /\ inputs \in Dictionary
  BY <1>1 DEF IInv, RanInv, InputsInv
<1>3. Len(Files') \in Nat
  <2>1. ListsInv'
    BY StagesKept DEF Stages, Next, ParseStep
  <2>2. QED
    BY <2>1, LenProperties DEF ListsInv
<1>4. RanInv'
  BY <1>1, <1>2, <1>3 DEF RanInv, Loop
<1>5. InputsInv'
  BY <1>1, <1>2 DEF InputsInv
<1>6. QED
  BY <1>1, <1>4, <1>5, SameHistory DEF History

(* and those after it.                                                       *)
LEMMA LastHistory ==
  ASSUME IInv, LastStep
  PROVE  History'
<1>1. /\ UNCHANGED <<program, cases, inputs, outputs, ran, struck>>
      /\ pc' \in {"dispatch", "flush", "over"} \/ UNCHANGED <<pc, i>>
  BY LastSteps
<1>2. RanInv /\ InputsInv /\ Files' = Files
  BY <1>1 DEF IInv, Files
<1>3. /\ \A n : Accounted(n)' <=> Accounted(n)
      /\ \A e, r : Known(e, r)' = Known(e, r)
      /\ \A e, r, n : Origin(e, r, n)' = Origin(e, r, n)
      /\ \A c : CheckPrecondition(c)' <=> CheckPrecondition(c)
  BY <1>1, SameRan, SameProgram
<1>4. RanInv'
  BY <1>1, <1>2, <1>3 DEF RanInv, Loop
<1>5. InputsInv'
  BY <1>1, <1>2, <1>3 DEF InputsInv
<1>6. QED
  BY <1>1, <1>4, <1>5, SameHistory DEF History

(* A test case that may not run here is left out.                            *)
LEMMA ParseTaskHistory ==
  ASSUME IInv, ParseTask
  PROVE  History'
<1>1. /\ UNCHANGED <<program, cases, inputs, outputs, ran, struck>> /\ pc = "task"
      /\ \/ pc' \in {"dispatch", "over"}
         \/ UNCHANGED i /\ pc' = "run"
         \/ i' = i + 1 /\ pc' = "arguments" /\ ~ CheckPrecondition(Current.precondition)
  <2>1. UNCHANGED <<program, cases, inputs, outputs, ran, struck>> /\ pc = "task"
    BY DEF ParseTask, configVars, runVars
  <2>2. \/ pc' \in {"dispatch", "over"}
        \/ UNCHANGED i /\ pc' = "run"
        \/ i' = i + 1 /\ pc' = "arguments" /\ ~ CheckPrecondition(Current.precondition)
    BY DEF ParseTask, Exits, Leave, Fatal, SkipTask
  <2>3. QED
    BY <2>1, <2>2
<1>2. RanInv /\ InputsInv /\ Files' = Files /\ i \in 1 .. Len(Files) /\ Len(Files) \in Nat
  BY <1>1, LoopSteps, LenProperties DEF IInv, Files, LoopStep, ListsInv
<1>3. /\ \A n : Accounted(n)' <=> Accounted(n)
      /\ \A e, r : Known(e, r)' = Known(e, r)
      /\ \A e, r, n : Origin(e, r, n)' = Origin(e, r, n)
      /\ \A c : CheckPrecondition(c)' <=> CheckPrecondition(c)
  BY <1>1, SameRan, SameProgram
<1>4. InputsInv'
  BY <1>1, <1>2, <1>3 DEF InputsInv
<1>5. CASE pc' \in {"dispatch", "over"} \/ (UNCHANGED i /\ pc' = "run")
  <2>1. RanInv'
    BY <1>1, <1>2, <1>3, <1>5 DEF RanInv, Loop
  <2>2. QED
    BY <1>1, <1>4, <2>1, SameHistory DEF History
<1>6. CASE i' = i + 1 /\ pc' = "arguments" /\ ~ CheckPrecondition(Current.precondition)
  <2>1. ~ CheckPrecondition(program.tests[Files[i]].precondition)
    BY <1>6 DEF Current, Files
  <2>2. /\ ran \in Seq(Record) /\ Len(ran) <= Len(Files) /\ Len(ran) < i
        /\ \A r \in 1 .. Len(ran) : ran[r].entry \in 1 .. Len(program.tests)
        /\ \A r \in 1 .. Len(ran) : \E k \in 1 .. i - 1 : Files[k] = ran[r].entry
        /\ \A k \in 1 .. i - 1 : CheckPrecondition(program.tests[Files[k]].precondition)
                                   => Accounted(Files[k])
    BY <1>1, <1>2 DEF RanInv, Loop
  <2>3. \A k \in 1 .. i : k \in 1 .. i - 1 \/ k = i
    BY <1>2
  <2>4. \A k \in 1 .. i - 1 : k \in 1 .. i
    BY <1>2
  <2>5. /\ \A r \in 1 .. Len(ran) : \E k \in 1 .. i : Files[k] = ran[r].entry
        /\ \A k \in 1 .. i : CheckPrecondition(program.tests[Files[k]].precondition)
                               => Accounted(Files[k])
    BY <2>1, <2>2, <2>3, <2>4
  <2>6. (i + 1) - 1 = i /\ Len(ran) \in Nat
    BY <1>2, <2>2, LenProperties
  <2>7. RanInv'
    BY <1>1, <1>2, <1>3, <1>6, <2>2, <2>5, <2>6 DEF RanInv, Loop
  <2>8. QED
    BY <1>1, <1>4, <2>7, SameHistory DEF History
<1>7. QED
  BY <1>1, <1>5, <1>6

(* start() gives the test case what it has to have.                          *)
LEMMA GatherHistory ==
  ASSUME IInv, GatherArguments
  PROVE  History'
<1>1. /\ UNCHANGED <<program, cases, outputs, ran, struck, i>> /\ pc = "arguments"
      /\ \/ pc' = "dispatch" /\ UNCHANGED inputs
         \/ pc' = "task"
  BY DEF GatherArguments, InLoop, Fatal, configVars
<1>2. /\ i \in 1 .. Len(Files) /\ Files[i] \in 1 .. Len(program.tests) /\ Files' = Files
      /\ cases.args[i] = [entry |-> Files[i], given |-> OwnArgs(Files[i])]
      /\ cases.fnames[i] = [entry |-> Files[i], given |-> OwnFile(Files[i])]
  BY <1>1, LoopSteps DEF IInv, Files, LoopStep, ListsInv
<1>3. RanInv /\ InputsInv /\ OutputsInv
  BY DEF IInv
<1>4. /\ \A n : Accounted(n)' <=> Accounted(n)
      /\ \A e, r : Known(e, r)' = Known(e, r)
      /\ \A e, r, n : Origin(e, r, n)' = Origin(e, r, n)
      /\ \A c : CheckPrecondition(c)' <=> CheckPrecondition(c)
  BY <1>1, SameRan, SameProgram
<1>5. RanInv'
  BY <1>1, <1>2, <1>3, <1>4 DEF RanInv, Loop
<1>6. InputsInv'
  <2>1. CASE pc' = "dispatch" /\ UNCHANGED inputs
    BY <1>3, <2>1 DEF InputsInv
  <2>2. CASE pc' = "task"
    <3>1. PICK e, G, F, S, r : /\ e = Files[i] /\ G = program.global.names
                               /\ F = OwnFile(e).names /\ S = OwnArgs(e).names
                               /\ r = Len(ran) + 1
      OBVIOUS
    <3>2. PICK g, f, s : g = <<"global", 0>> /\ f = <<"file", e>> /\ s = <<"suite", e>>
      OBVIOUS
    <3>3. PICK a, b : a = Overlay(outputs, G, g) /\ b = Overlay(a, F, f)
      OBVIOUS
    <3>4. inputs' = Overlay(b, S, s)
      BY <1>2, <2>2, <3>1, <3>2, <3>3 DEF GatherArguments, Fatal
    <3>5. G \in SUBSET Name /\ F \in SUBSET Name /\ S \in SUBSET Name
      <4>1. OwnArgs(e) \in Args /\ OwnFile(e) \in Args
        BY <1>2, <3>1, OwnArgsType DEF IInv
      <4>2. program.global \in Args
        BY ProgramType DEF IInv, Program
      <4>3. QED
        BY <3>1, <4>1, <4>2 DEF Args
    <3>6. e \in Place /\ 0 \in Place
      BY <1>2, <3>1, ProgramType DEF IInv, Place
    <3>7. g \in Source /\ f \in Source /\ s \in Source
      BY <3>2, <3>6 DEF Source
    <3>8. outputs \in Dictionary /\ DOMAIN outputs = {n \in Name : Givers(r, n) # {}}
      BY <1>3, <3>1 DEF OutputsInv
    <3>9. a \in Dictionary /\ b \in Dictionary /\ inputs' \in Dictionary
      BY <3>3, <3>4, <3>5, <3>7, <3>8, OverlayType
    <3>10. /\ DOMAIN inputs' = DOMAIN outputs \cup G \cup F \cup S
           /\ \A n \in S : inputs'[n] = s
           /\ \A n \in F : n \notin S => inputs'[n] = f
           /\ \A n \in G : n \notin S /\ n \notin F => inputs'[n] = g
           /\ \A n \in DOMAIN outputs : n \notin S /\ n \notin F /\ n \notin G
                                          => inputs'[n] = outputs[n]
      BY <3>3, <3>4 DEF Overlay
    <3>11. DOMAIN inputs' = Known(e, r)
      BY <3>1, <3>8, <3>10 DEF Known
    <3>12. \A n \in DOMAIN outputs : outputs[n] = <<"output", ran[LastGiver(r, n)].entry>>
      BY <1>3, <3>1 DEF OutputsInv
    <3>13. ASSUME NEW n \in DOMAIN inputs'
           PROVE  inputs'[n] = Origin(e, r, n)
      <4>1. CASE n \in S
        BY <3>1, <3>2, <3>10, <4>1 DEF Origin
      <4>2. CASE n \notin S /\ n \in F
        BY <3>1, <3>2, <3>10, <4>2 DEF Origin
      <4>3. CASE n \notin S /\ n \notin F /\ n \in G
        BY <3>1, <3>2, <3>10, <4>3 DEF Origin
      <4>4. CASE n \notin S /\ n \notin F /\ n \notin G /\ n \in DOMAIN outputs
        BY <3>1, <3>10, <3>12, <4>4 DEF Origin
      <4>5. QED
        BY <3>10, <3>13, <4>1, <4>2, <4>3, <4>4
    <3>14. QED
      BY <1>1, <1>2, <1>4, <3>1, <3>9, <3>11, <3>13 DEF InputsInv
  <2>3. QED
    BY <1>1, <2>1, <2>2
<1>7. QED
  BY <1>1, <1>5, <1>6, SameHistory DEF History

(* A test case that loses an interrupt is left out too.                      *)
LEMMA LostHistory ==
  ASSUME IInv, LoseInterrupt
  PROVE  History'
<1>1. /\ UNCHANGED <<program, cases, inputs, outputs, ran>> /\ pc = "run"
      /\ struck' = struck \cup {Files[i]}
      /\ \/ pc' = "dispatch"
         \/ i' = i + 1 /\ pc' = "arguments"
  BY DEF LoseInterrupt, CaseEnds, Fatal, SkipTask, configVars, Files
<1>2. RanInv /\ InputsInv /\ Files' = Files /\ i \in 1 .. Len(Files) /\ Len(Files) \in Nat
  BY <1>1, LoopSteps, LenProperties DEF IInv, Files, LoopStep, ListsInv
<1>3. /\ \A n : Accounted(n) => Accounted(n)'
      /\ \A c : CheckPrecondition(c)' <=> CheckPrecondition(c)
  BY <1>1, SameRan, SameProgram
<1>f. PICK F, j : F = Files /\ j = i
  OBVIOUS
<1>4. Accounted(F[j])'
  BY <1>1, <1>2, <1>f DEF Accounted
<1>5. InputsInv'
  BY <1>1, <1>2 DEF InputsInv
<1>6. /\ ran \in Seq(Record) /\ Len(ran) <= Len(Files) /\ Len(ran) < i
      /\ \A r \in 1 .. Len(ran) : ran[r].entry \in 1 .. Len(program.tests)
      /\ \A r \in 1 .. Len(ran) : \E k \in 1 .. i - 1 : Files[k] = ran[r].entry
      /\ \A k \in 1 .. i - 1 : CheckPrecondition(program.tests[Files[k]].precondition)
                                 => Accounted(Files[k])
  BY <1>1, <1>2 DEF RanInv, Loop
<1>7. \A k \in 1 .. i : k \in 1 .. i - 1 \/ k = i
  BY <1>2
<1>8. \A k \in 1 .. i - 1 : k \in 1 .. i
  BY <1>2
<1>10. \A k \in 1 .. j : CheckPrecondition(program.tests[F[k]].precondition) => Accounted(F[k])'
  <2>1. ASSUME NEW k \in 1 .. j, CheckPrecondition(program.tests[F[k]].precondition)
        PROVE  Accounted(F[k])'
    <3>1. CASE k = j
      BY <1>4, <3>1
    <3>2. CASE k \in 1 .. i - 1
      <4>1. Accounted(F[k])
        BY <1>6, <1>f, <2>1, <3>2
      <4>2. QED
        BY <1>3, <4>1
    <3>3. QED
      BY <1>7, <1>f, <3>1, <3>2
  <2>2. QED
    BY <2>1
<1>11. \A r \in 1 .. Len(ran) : \E k \in 1 .. i : Files[k] = ran[r].entry
  BY <1>6, <1>8
<1>12. (i + 1) - 1 = i /\ Len(ran) \in Nat
  BY <1>2, <1>6, LenProperties
<1>13. RanInv'
  <2>1. pc' \in Loop => i' - 1 = j /\ Len(ran) < i'
    BY <1>1, <1>2, <1>6, <1>12, <1>f DEF Loop
  <2>2. pc' \in Loop =>
          \A k \in 1 .. i' - 1 : CheckPrecondition(program.tests[F[k]].precondition)'
                                 => Accounted(F[k])'
    BY <1>1, <1>3, <1>10, <2>1
  <2>3. pc' \in Loop =>
          \A r \in 1 .. Len(ran) : \E k \in 1 .. i' - 1 : F[k] = ran[r].entry
    BY <1>11, <1>f, <2>1
  <2>4. Files' = F /\ pc' \notin {"configure", "parse", "entries"}
    BY <1>1, <1>2, <1>f
  <2>5. QED
    BY <1>1, <1>2, <1>6, <2>1, <2>2, <2>3, <2>4 DEF RanInv
<1>14. QED
  BY <1>1, <1>5, <1>13, SameHistory DEF History

(* Every step keeps who ran, and with which arguments.                       *)
LEMMA HistoryKept ==
  ASSUME IInv, [Next]_vars
  PROVE  History'
<1>1. Gone => UNCHANGED vars
  BY DEF Gone
<1>2. QED
  BY <1>1, ParseHistory, GatherHistory, ParseTaskHistory, RunHistory, LostHistory, LastHistory
  DEF Next, LastStep, ParseStep

(********************* the verdict and the result file **********************)

(* A step of the loop leaves the result file alone.                          *)
LEMMA LoopFile ==
  ASSUME IInv, LoopStep
  PROVE  /\ UNCHANGED program /\ pc \in Loop
         /\ \/ pc' \in Loop /\ UNCHANGED <<criteria, file, ending>>
            \/ pc' = "dispatch" /\ criteria' = "FATAL" /\ UNCHANGED <<file, ending>>
            \/ pc' = "over" /\ ending' = "exited" /\ UNCHANGED <<criteria, file>>
<1>1. UNCHANGED program /\ pc \in Loop
  BY LoopSteps
<1>2. CASE GatherArguments
  BY <1>1, <1>2 DEF GatherArguments, Fatal, Loop
<1>3. CASE ParseTask
  BY <1>1, <1>3 DEF ParseTask, Exits, Leave, Fatal, SkipTask, Loop
<1>4. CASE RunTask \/ LoseInterrupt
  <2>1. CaseEnds
    BY <1>4 DEF RunTask, LoseInterrupt
  <2>2. QED
    BY <1>1, <2>1 DEF CaseEnds, Fatal, SkipTask, Loop
<1>5. QED
  BY <1>2, <1>3, <1>4 DEF LoopStep, Loop

(* When the loop is over, every test case that was to run is accounted for.  *)
LEMMA LoopComplete ==
  ASSUME IInv, TasksEnd
  PROVE  Complete
<1>1. /\ pc = "arguments" /\ ~ i <= Len(Files) /\ i \in Nat /\ Len(Files) \in Nat
      /\ i <= Len(Files) + 1
  BY LenProperties DEF IInv, TasksEnd, PlaceInv, ListsInv, Files
<1>2. SUFFICES ASSUME NEW n \in 1 .. Len(program.tests), Expected(n)
               PROVE  Accounted(n)
  BY DEF Complete
<1>3. PICK k \in 1 .. Len(Files) : Files[k] = n
  BY <1>1, <1>2 DEF Expected, IInv, OrderInv, Loop
<1>4. k \in 1 .. i - 1 /\ CheckPrecondition(program.tests[Files[k]].precondition)
  BY <1>1, <1>2, <1>3 DEF Expected
<1>5. QED
  BY <1>1, <1>3, <1>4 DEF IInv, RanInv, Loop

(* Every step keeps what the verdict says of the runs so far.                *)
LEMMA VerdictKept ==
  ASSUME IInv, [Next]_vars
  PROVE  VerdictInv' /\ criteria' \in {"N/A", "PASS", "FAIL", "FATAL"}
<1>1. /\ VerdictInv /\ criteria \in {"N/A", "PASS", "FAIL", "FATAL"} /\ failed \in BOOLEAN
  BY DEF IInv, Kinds
<1>2. ASSUME UNCHANGED <<program, ran, struck>>
      PROVE  Complete' <=> Complete
  BY <1>2, SameRan, SameProgram DEF Complete
<1>3. CASE ParseStep
  BY <1>1, <1>3, ParseSteps DEF VerdictInv, Before, Loop
<1>4. CASE LoopStep
  <2>1. criteria = "N/A"
    BY <1>1, <1>4, LoopFile DEF VerdictInv, Before
  <2>2. QED
    BY <1>4, <2>1, LoopFile DEF VerdictInv, Before, Loop
<1>5. CASE TasksEnd
  <2>1. UNCHANGED <<program, ran, struck, failed>> /\ pc' = "dispatch" /\ criteria' = Verdict
    BY <1>5 DEF TasksEnd, configVars, runVars
  <2>2. Complete'
    BY <1>2, <1>5, <2>1, LoopComplete
  <2>3. QED
    BY <1>1, <2>1, <2>2 DEF VerdictInv, Verdict, Before, Loop
<1>6. CASE LastStep /\ ~ TasksEnd
  <2>1. UNCHANGED <<program, ran, struck, failed>>
    BY <1>6, LastSteps
  <2>2. UNCHANGED criteria /\ (pc' = pc \/ pc' = "over" \/ (pc = "dispatch" /\ pc' = "flush"))
    BY <1>6 DEF LastStep, MakeDispatchers, FlushFile, FlushHttp, Flushed, GenerateReporting, Raises,
                Leave, Interrupt, vars
  <2>3. QED
    BY <1>1, <1>2, <2>1, <2>2 DEF VerdictInv, Before, Loop
<1>7. Gone => UNCHANGED vars
  BY DEF Gone
<1>8. QED
  BY <1>3, <1>4, <1>5, <1>6, <1>7 DEF Next, ParseStep, LoopStep, LastStep

(* The dispatchers are a list, and a file is written if one of them is for   *)
(* files.                                                                    *)
LEMMA DispatchersType ==
  ASSUME program \in Programs
  PROVE  /\ Dispatchers \in Seq(Dispatcher) /\ Len(Dispatchers) \in Nat
         /\ Uses("file") <=> Flushes(Len(Dispatchers))
<1>1. /\ program.env.dispatchers \in Seq(Dispatcher)
      /\ program.conf.dispatchers \in Seq(Dispatcher)
  BY ProgramType DEF Program, Output
<1>2. <<>> \in Seq(Dispatcher) /\ <<"file">> \in Seq(Dispatcher)
  BY DEF Dispatcher
<1>3. Conf.dispatchers \in Seq(Dispatcher)
  BY <1>1, <1>2 DEF Conf
<1>4. Dispatchers \in Seq(Dispatcher)
  BY <1>1, <1>2, <1>3 DEF Dispatchers
<1>5. DOMAIN Dispatchers = 1 .. Len(Dispatchers) /\ Len(Dispatchers) \in Nat
  BY <1>4, LenProperties
<1>6. QED
  BY <1>4, <1>5 DEF Uses, Flushes

(* The contents of the result file can be told apart.                        *)
LEMMA ReportIsNoOther ==
  ASSUME NEW c
  PROVE  /\ ReportFile(c) # OldFile /\ ReportFile(c) # RunningFile /\ ReportFile(c) # ErrorFile
         /\ OldFile # RunningFile /\ OldFile # ErrorFile /\ RunningFile # ErrorFile
         /\ \A d : ReportFile(c) = ReportFile(d) => c = d
  BY DEF ReportFile, OldFile, RunningFile, ErrorFile

(* How start() is left decides what the file may be.                         *)
LEMMA RaisesFile ==
  ASSUME Raises
  PROVE  FileInv' /\ EndInv'
<1>1. pc' = "over" /\ ending' = "raised" /\ file' = ErrorFile
  BY DEF Raises, Leave
<1>2. \A c : ErrorFile # ReportFile(c)
  BY ReportIsNoOther
<1>3. QED
  BY <1>1, <1>2, ReportIsNoOther DEF FileInv, EndInv, Before, Loop, None

(* An exit or an interrupt leaves the file as it is at that place,           *)
LEMMA LeaveFile ==
  ASSUME IInv, UNCHANGED <<program, criteria, file>>, pc # "over", pc' = "over",
         ending' \in {"exited", "interrupted"}, ending' = "exited" => pc # "configure"
  PROVE  FileInv' /\ EndInv'
<1>1. pc \in {"configure"} \cup ((Before \ {"configure"}) \cup {"dispatch"}) \cup {"flush"}
  BY DEF IInv, Kinds, Before, Loop
<1>2. file \in {OldFile, RunningFile, ReportFile(criteria)}
  BY <1>1 DEF IInv, FileInv, Started
<1>3. ending' = "exited" /\ file = OldFile => ~ Uses("file")
  BY <1>1, ReportIsNoOther DEF IInv, FileInv, Started
<1>4. \A d : Uses(d)' <=> Uses(d)
  BY SameProgram
<1>5. ReportFile(criteria)' = ReportFile(criteria)
  BY DEF ReportFile
<1>6. file' # ErrorFile
  BY <1>2, ReportIsNoOther
<1>7. EndInv'
  BY <1>2, <1>3, <1>4, <1>5, <1>6 DEF EndInv, None
<1>8. FileInv'
  BY DEF FileInv, Before, Loop
<1>9. QED
  BY <1>7, <1>8

(* nor does a step before the verdict that does not leave touch the file     *)
LEMMA StaysFile ==
  ASSUME IInv, UNCHANGED <<program, file, ending>>, pc \in Before \ {"configure"},
         pc' \in (Before \ {"configure"}) \cup {"dispatch"}
  PROVE  FileInv' /\ EndInv'
<1>1. file = Started /\ ending = None
  BY DEF IInv, FileInv, Before, Loop
<1>2. Started' = Started
  BY SameProgram DEF Started
<1>3. QED
  BY <1>1, <1>2 DEF FileInv, EndInv, Before, Loop

(* and so do the steps before the loop.                                      *)
LEMMA ParseFile ==
  ASSUME IInv, ParseStep
  PROVE  FileInv' /\ EndInv'
<1>1. UNCHANGED <<program, criteria>>
  BY ParseSteps
<1>2. CASE Configure
  <2>1. pc = "configure" /\ (Raises \/ (pc' = "parse" /\ UNCHANGED ending
                                        /\ file' = IF Uses("file") THEN RunningFile ELSE file))
    BY <1>2 DEF Configure
  <2>2. file = OldFile /\ ending = None
    BY <2>1 DEF IInv, FileInv
  <2>3. ASSUME pc' = "parse", UNCHANGED ending, file' = IF Uses("file") THEN RunningFile ELSE file
        PROVE  FileInv' /\ EndInv'
    <3>1. file' = Started'
      BY <1>1, <2>2, <2>3, SameProgram DEF Started
    <3>2. QED
      BY <2>2, <2>3, <3>1 DEF FileInv, EndInv, Before, Loop
  <2>4. QED
    BY <2>1, <2>3, RaisesFile
<1>3. CASE ParseSuite
  <2>1. program.suiteParses \in {"well", "raises", "exits"}
    BY ProgramType DEF IInv, Program
  <2>2. pc = "parse" /\ (Raises \/ Exits \/ (pc' = "entries" /\ UNCHANGED <<ending, file>>))
    BY <1>3, <2>1 DEF ParseSuite
  <2>3. QED
    BY <1>1, <2>2, RaisesFile, LeaveFile, StaysFile DEF Exits, Leave, Before, Loop
<1>4. CASE ParseEntry
  BY <1>1, <1>4, StaysFile DEF ParseEntry, Before, Loop
<1>5. CASE EntriesEnd \/ TakeSingle
  <2>1. pc \in {"parse", "entries"} /\ Parsed
    BY <1>5 DEF EntriesEnd, TakeSingle
  <2>2. QED
    BY <1>1, <2>1, ParsedSteps, LeaveFile, StaysFile DEF Before, Loop
<1>6. QED
  BY <1>2, <1>3, <1>4, <1>5 DEF ParseStep

(* Of n dispatchers one is for files if one of those before is, or the last. *)
LEMMA FlushesNext ==
  ASSUME NEW n \in Nat \ {0}
  PROVE  Flushes(n) <=> Flushes(n - 1) \/ Dispatchers[n] = "file"
<1>1. \A d : d \in 1 .. n <=> (d \in 1 .. n - 1 \/ d = n)
  OBVIOUS
<1>2. QED
  BY <1>1 DEF Flushes

(* The dispatchers and do_start() make of the file what the end is.          *)
LEMMA LastFile ==
  ASSUME IInv, LastStep
  PROVE  FileInv' /\ EndInv'
<1>1. /\ UNCHANGED program /\ i \in Nat \ {0} /\ Dispatchers' = Dispatchers
      /\ Started' = Started /\ \A d : Uses(d)' <=> Uses(d)
  <2>1. UNCHANGED program /\ i \in Nat \ {0}
    BY LastSteps DEF IInv, PlaceInv
  <2>2. QED
    BY <2>1, SameProgram DEF Started
<1>2. \A n : Flushes(n)' <=> Flushes(n)
  BY <1>1 DEF Flushes
<1>3. CASE TasksEnd
  BY <1>1, <1>3, StaysFile DEF TasksEnd, Before, Loop
<1>4. CASE MakeDispatchers
  <2>1. ASSUME pc = "dispatch", pc' = "flush", i' = 1, UNCHANGED <<file, ending>>
        PROVE  FileInv' /\ EndInv'
    <3>1. file = Started /\ ending = None
      BY <2>1 DEF IInv, FileInv
    <3>2. ~ Flushes(1 - 1) /\ 1 <= Len(Dispatchers) + 1
      BY DispatchersType DEF Flushes, IInv
    <3>3. QED
      BY <1>1, <1>2, <2>1, <3>1, <3>2 DEF FileInv, EndInv, Before, Loop
  <2>2. QED
    BY <1>4, <2>1, RaisesFile DEF MakeDispatchers
<1>5. CASE FlushFile \/ FlushHttp
  <2>1. CASE Raises
    BY <2>1, RaisesFile
  <2>2. CASE ~ Raises
    <3>1. /\ pc = "flush" /\ i <= Len(Dispatchers) /\ i' = i + 1
          /\ UNCHANGED <<pc, ending, criteria>>
          /\ \/ Dispatchers[i] = "file" /\ file' = ReportFile(criteria)
             \/ Dispatchers[i] = "http" /\ file' = file
      BY <1>5, <2>2 DEF FlushFile, FlushHttp, Flushing, Flushed
    <3>2. /\ ending = None
          /\ file = IF Flushes(i - 1) THEN ReportFile(criteria) ELSE Started
      BY <3>1 DEF IInv, FileInv
    <3>3. Flushes(i) <=> Flushes(i - 1) \/ Dispatchers[i] = "file"
      BY <1>1, FlushesNext
    <3>4. file' = IF Flushes(i) THEN ReportFile(criteria) ELSE Started
      BY <3>1, <3>2, <3>3
    <3>5. i' - 1 = i /\ i' <= Len(Dispatchers) + 1 /\ ReportFile(criteria)' = ReportFile(criteria)
      BY <1>1, <3>1, DispatchersType DEF IInv, ReportFile
    <3>6. file' = (IF Flushes(i - 1) THEN ReportFile(criteria) ELSE Started)'
      BY <1>1, <1>2, <3>4, <3>5
    <3>7. QED
      BY <1>1, <3>1, <3>2, <3>5, <3>6 DEF FileInv, EndInv, Before, Loop
  <2>3. QED
    BY <2>1, <2>2
<1>6. CASE GenerateReporting
  <2>1. ASSUME pc = "flush", i > Len(Dispatchers), Leave("returned"), UNCHANGED <<file, criteria>>
        PROVE  FileInv' /\ EndInv'
    <3>1. Len(Dispatchers) \in Nat /\ (Uses("file") <=> Flushes(Len(Dispatchers)))
      BY DispatchersType DEF IInv
    <3>2. i - 1 = Len(Dispatchers)
      BY <1>1, <2>1, <3>1 DEF IInv, FileInv
    <3>3. file = IF Uses("file") THEN ReportFile(criteria) ELSE OldFile
      BY <2>1, <3>1, <3>2 DEF IInv, FileInv, Started
    <3>4. /\ pc' = "over" /\ ending' = "returned" /\ file' = file
          /\ ReportFile(criteria)' = ReportFile(criteria)
      BY <2>1 DEF Leave, ReportFile
    <3>5. EndInv'
      BY <1>1, <3>3, <3>4, ReportIsNoOther DEF EndInv, None
    <3>6. QED
      BY <3>4, <3>5 DEF FileInv, Before, Loop
  <2>2. QED
    BY <1>6, <2>1, RaisesFile DEF GenerateReporting
<1>7. CASE Interrupt
  BY <1>1, <1>7, LeaveFile DEF Interrupt, Leave
<1>8. CASE UNCHANGED vars
  <2>1. UNCHANGED <<pc, i, file, criteria, ending>>
    BY <1>8 DEF vars
  <2>2. ReportFile(criteria)' = ReportFile(criteria)
    BY <2>1 DEF ReportFile
  <2>3. QED
    BY <1>1, <1>2, <2>1, <2>2 DEF IInv, FileInv, EndInv
<1>9. QED
  BY <1>3, <1>4, <1>5, <1>6, <1>7, <1>8 DEF LastStep

(* Every step keeps what the file says.                                      *)
LEMMA FileKept ==
  ASSUME IInv, [Next]_vars
  PROVE  FileInv' /\ EndInv'
<1>1. ASSUME LoopStep
      PROVE  FileInv' /\ EndInv'
  BY <1>1, LoopFile, LeaveFile, StaysFile DEF Before, Loop
<1>2. Gone => UNCHANGED vars
  BY DEF Gone
<1>3. QED
  BY <1>1, <1>2, ParseFile, LastFile DEF Next, ParseStep, LoopStep, LastStep

(****************************** the theorems ********************************)

(* Every step keeps the types.                                               *)
LEMMA KindsKept ==
  ASSUME IInv, [Next]_vars
  PROVE  Kinds'
<1>0. Kinds
  BY DEF IInv
<1>c. criteria' \in {"N/A", "PASS", "FAIL", "FATAL"}
  BY VerdictKept
<1>1. Raises => pc' = "over" /\ ending' = "raised" /\ file' = ErrorFile
  BY DEF Raises, Leave
<1>2. CASE ParseStep
  <2>1. /\ failed' = failed /\ struck' = struck /\ program' = program
        /\ pc' \in {"parse", "entries", "arguments", "over"}
    BY <1>2, ParseSteps
  <2>2. file' \in {file, ErrorFile, RunningFile} /\ ending' \in {ending, "raised", "exited"}
    <3>1. program.suiteParses \in {"well", "raises", "exits"}
      BY ProgramType DEF IInv, Program
    <3>2. CASE Configure
      BY <1>1, <3>2 DEF Configure
    <3>3. CASE ParseSuite
      BY <1>1, <3>1, <3>3 DEF ParseSuite, Exits, Leave
    <3>4. CASE ParseEntry
      BY <3>4 DEF ParseEntry
    <3>5. CASE EntriesEnd \/ TakeSingle
      BY <3>5, ParsedSteps DEF EntriesEnd, TakeSingle
    <3>6. QED
      BY <1>2, <3>2, <3>3, <3>4, <3>5 DEF ParseStep
  <2>3. QED
    BY <1>0, <1>c, <2>1, <2>2 DEF Kinds, Before, Loop
<1>3. CASE LoopStep
  <2>1. failed' \in BOOLEAN
    BY <1>0, <1>3 DEF LoopStep, GatherArguments, ParseTask, RunTask, LoseInterrupt, runVars, Kinds
  <2>3. struck' \subseteq 1 .. Len(program'.tests)
    <3>1. Files[i] \in 1 .. Len(program.tests) /\ program' = program
      BY <1>3, LoopSteps DEF IInv, ListsInv
    <3>2. struck' \subseteq struck \cup {Files[i]}
      BY <1>3 DEF LoopStep, GatherArguments, ParseTask, RunTask, LoseInterrupt, runVars, Files
    <3>3. QED
      BY <1>0, <3>1, <3>2 DEF Kinds
  <2>2. QED
    BY <1>0, <1>c, <1>3, <2>1, <2>3, LoopFile DEF Kinds, Before, Loop
<1>4. CASE LastStep
  <2>1. /\ failed' = failed /\ struck' = struck /\ program' = program
        /\ pc' \in {"dispatch", "flush", "over"} \/ pc' = pc
    BY <1>4, LastSteps
  <2>2. CASE TasksEnd \/ UNCHANGED vars
    BY <1>0, <1>c, <2>1, <2>2 DEF TasksEnd, vars, Kinds, Before, Loop
  <2>3. CASE MakeDispatchers \/ FlushHttp \/ GenerateReporting \/ Interrupt
    <3>1. file' \in {file, ErrorFile} /\ ending' \in {ending, "raised", "interrupted", "returned"}
      BY <1>1, <2>3 DEF MakeDispatchers, FlushHttp, GenerateReporting, Interrupt, Flushed, Leave
    <3>2. QED
      BY <1>0, <1>c, <2>1, <3>1 DEF Kinds, Before, Loop
  <2>4. CASE FlushFile
    <3>1. criteria \in {"PASS", "FAIL", "FATAL"}
      BY <2>4 DEF FlushFile, Flushing, IInv, Kinds, VerdictInv
    <3>2. file' = ReportFile(criteria) /\ ending' = ending
      BY <2>4 DEF FlushFile, Flushed
    <3>3. QED
      BY <1>0, <1>c, <2>1, <3>1, <3>2 DEF Kinds, Before, Loop
  <2>5. QED
    BY <1>4, <2>2, <2>3, <2>4 DEF LastStep
<1>5. Gone => UNCHANGED vars
  BY DEF Gone
<1>6. QED
  BY <1>2, <1>3, <1>4, <1>5 DEF Next, ParseStep, LoopStep, LastStep

(* The type invariant is part of the invariant.                              *)
LEMMA TypeParts ==
  ASSUME IInv
  PROVE  TypeOK
<1>1. /\ DOMAIN Files = 1 .. Len(Files) /\ Len(Files) \in Nat
      /\ DOMAIN cases.args = DOMAIN Files /\ DOMAIN cases.fnames = DOMAIN Files
      /\ Len(ran) <= Len(Files)
  BY LenProperties DEF IInv, ListsInv, RanInv
<1>2. pc \in {"task", "run"} => i \in DOMAIN Files
  BY <1>1 DEF IInv, PlaceInv
<1>3. \A d \in Dictionary : IsDictionary(d)
  BY DEF Dictionary, IsDictionary
<1>4. IsDictionary(inputs) /\ IsDictionary(outputs)
  BY <1>3 DEF IInv, OutputsInv, InputsInv
<1>5. struck \subseteq DOMAIN program.tests
  BY ProgramType DEF IInv, Kinds
<1>6. QED
  BY <1>1, <1>2, <1>4, <1>5 DEF IInv, TypeOK, Kinds, Files, Before, Loop

(* The invariant holds at the start.                                         *)
LEMMA Initially == Init => IInv
<1>1. SUFFICES ASSUME Init PROVE IInv
  OBVIOUS
<1>2. /\ program \in Programs /\ pc = "configure" /\ i = 1
      /\ cases = [files |-> <<>>, args |-> <<>>, fnames |-> <<>>]
      /\ inputs = Empty /\ outputs = Empty /\ criteria = "N/A"
      /\ file = OldFile /\ ending = None /\ ran = <<>> /\ struck = {} /\ failed = FALSE
  BY <1>1 DEF Init
<1>3. Files = <<>> /\ cases.args = <<>> /\ cases.fnames = <<>> /\ Len(<<>>) = 0 /\ Len(ran) = 0
  BY <1>2 DEF Files
<1>4. ListsInv /\ OrderInv /\ PlaceInv
  BY <1>2, <1>3, ProgramType DEF ListsInv, OrderInv, PlaceInv, Loop
<1>5. Empty \in Dictionary /\ DOMAIN Empty = {}
  <2>1. Empty \in [{} -> Source] /\ {} \in SUBSET Name
    BY DEF Empty
  <2>2. QED
    BY <2>1 DEF Dictionary, Empty
<1>6. \A n : Givers(1, n) = {}
  BY DEF Givers
<1>7. RanInv
  BY <1>2, <1>3 DEF RanInv, Loop
<1>8. GiversInv /\ OutputsInv /\ InputsInv /\ RunsAsConfigured
  BY <1>2, <1>3, <1>5, <1>6 DEF GiversInv, OutputsInv, InputsInv, RunsAsConfigured
<1>9. VerdictInv /\ FileInv /\ EndInv
  BY <1>2 DEF VerdictInv, FileInv, EndInv, Before, Loop
<1>10. Kinds
  BY <1>2 DEF Kinds, Before, Loop
<1>11. QED
  BY <1>2, <1>4, <1>7, <1>8, <1>9, <1>10 DEF IInv

(* Every step keeps the invariant.                                           *)
LEMMA Kept == IInv /\ [Next]_vars => IInv'
<1>1. SUFFICES ASSUME IInv, [Next]_vars PROVE IInv'
  OBVIOUS
<1>2. program' \in Programs
  <2>1. program' = program
    <3>1. Gone => UNCHANGED vars
      BY DEF Gone
    <3>2. QED
      BY <1>1, <3>1, ParseSteps, LoopFile, LastSteps DEF Next, ParseStep, LoopStep, LastStep
  <2>2. QED
    BY <1>1, <2>1 DEF IInv
<1>3. ListsInv' /\ OrderInv' /\ PlaceInv'
  BY <1>1, StagesKept DEF Stages
<1>4. RanInv' /\ GiversInv' /\ OutputsInv' /\ InputsInv' /\ RunsAsConfigured'
  BY <1>1, HistoryKept DEF History
<1>5. VerdictInv' /\ FileInv' /\ EndInv' /\ Kinds'
  BY <1>1, VerdictKept, FileKept, KindsKept
<1>6. QED
  BY <1>2, <1>3, <1>4, <1>5 DEF IInv

(* The inductive invariant.                                                  *)
THEOREM Inductive == Spec => []IInv
  BY Initially, Kept, PTL DEF Spec

(* The three lists of parse_suite() are of one length, and the loop over     *)
(* them does not leave them.                                                 *)
THEOREM TypeCorrect == Spec => []TypeOK
<1>1. IInv => TypeOK
  BY TypeParts
<1>2. QED
  BY <1>1, Inductive, PTL

(* For any suite: the test cases that run are those of its entries that may  *)
(* run here, in order and without a gap but for those an interrupt was lost  *)
(* in.  Each is read with its own arguments over the outputs before it, and  *)
(* its steps are handed the outputs before them over its own arguments.      *)
THEOREM RunsConfigured == Spec => []RunsAsConfigured
<1>1. IInv => RunsAsConfigured
  BY DEF IInv
<1>2. QED
  BY <1>1, Inductive, PTL

(* Whatever ends the program, the result file tells how it ended, and a PASS *)
(* in it is one that every test case that was to run has earned, unless an   *)
(* interrupt was lost in it.                                                 *)
THEOREM FileTells == Spec => []FileTellsTheEnd
<1>1. ASSUME IInv
      PROVE  FileTellsTheEnd
  <2>1. SUFFICES ASSUME pc = "over"
                 PROVE  /\ ending = "raised" <=> file = ErrorFile
                        /\ ending = "returned" /\ Uses("file") => file = ReportFile(criteria)
                        /\ file = ReportFile("PASS") =>
                             /\ ~ failed
                             /\ \A n \in DOMAIN program.tests : Expected(n) => Accounted(n)
                        /\ file = RunningFile => ending \in {"exited", "interrupted"}
                        /\ file = OldFile => ~ Uses("file") \/ ending = "interrupted"
    BY DEF FileTellsTheEnd
  <2>2. EndInv /\ VerdictInv /\ DOMAIN program.tests = 1 .. Len(program.tests)
    BY <1>1, ProgramType DEF IInv
  <2>3. file = ReportFile("PASS") => criteria = "PASS"
    BY <2>1, <2>2, ReportIsNoOther DEF EndInv
  <2>4. QED
    BY <2>1, <2>2, <2>3 DEF EndInv, VerdictInv, Complete
<1>2. QED
  BY <1>1, Inductive, PTL
=============================================================================
