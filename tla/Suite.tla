-------------------------------- MODULE Suite -------------------------------
(* The program "vnftest task start" around the test cases: the command       *)
(* (cmd/commands/task.py), the parser of suites and test cases, the          *)
(* arguments of each test case, the dispatchers and the result file.  What a *)
(* test case does while it runs is Task.                                     *)
EXTENDS Naturals, Sequences, FiniteSetsExt

CONSTANTS Name,      \* names of task arguments and outputs
          Pod,       \* names of pods
          Installer, \* names of installers
          MaxCases,  \* bound on the entries of a suite
          Programs   \* what the program may be started with

None == "none"     \* an environment variable, or a key of a file, that is not there

(* task arguments: the names that are given a value, or no YAML dictionary   *)
Args == [valid : BOOLEAN, names : SUBSET Name]
NoArgs == [valid |-> TRUE, names |-> {}]

(* A condition on the environment; an empty set is met by anything.          *)
Condition == [installers : SUBSET Installer, pods : SUBSET Pod]

(* an entry of a suite; the arguments and the file of arguments are found    *)
(* under the name of a pod                                                   *)
Entry == [named : BOOLEAN, constrained : BOOLEAN, constraint : Condition,
          args : UNION {[P -> Args] : P \in SUBSET (Pod \cup {"default"})},
          fnames : UNION {[P -> Args] : P \in SUBSET Pod}]

(* a test case file: how its parsing ends ("exits": an unknown schema), the  *)
(* arguments its template needs, its precondition and the outputs of its     *)
(* steps                                                                     *)
Test == [parses : {"well", "raises", "exits", "unreadable"}, needs : SUBSET Name,
         precondition : Condition, gives : SUBSET Name]

Dispatcher == {"file", "http", "influxdb", "unknown"}
(* the configuration file, and the environment, which goes before it; no     *)
(* dispatchers means that none are configured                                *)
Target == {None, "empty", "url"}
Output == [dispatchers : Seq(Dispatcher), target : Target]
Program == [suite : BOOLEAN, suiteParses : {"well", "raises", "exits"},
            entries : Seq(Entry), tests : Seq(Test),
            argsFile : Args, global : Args, parseOnly : BOOLEAN,
            confReadable : BOOLEAN, conf : Output, env : Output,
            NODE_NAME : Pod \cup {None}, INSTALLER_TYPE : Installer \cup {None},
            INSTALL_TYPE : Installer \cup {None}]

ASSUME SuiteAssumption ==
  /\ MaxCases \in Nat \ {0}
  /\ None \notin Pod \cup Installer /\ "default" \notin Pod
  /\ \A p \in Programs : /\ p \in Program
                         /\ Len(p.entries) <= MaxCases
                         /\ Len(p.tests) = IF p.suite THEN Len(p.entries) ELSE 1

VARIABLES
  program,   \* the input
  pc,        \* where the program is
  i,         \* the entry, test case or dispatcher of the current loop
  cases,     \* task_files, task_args_list and task_args_fnames
  inputs,    \* inputs: for each name, where its value comes from
  outputs,   \* self.outputs, likewise
  criteria,  \* the criteria of the task in its report
  file,      \* the result file
  ending,    \* how start() was left
  ran,       \* history: the test cases that ran, with their inputs and outputs
  struck,    \* history: the ones that an interrupt was lost in
  failed     \* history: one of them failed

configVars == <<program, cases>>
runVars == <<inputs, outputs, ran, struck, failed>>
vars == <<configVars, pc, i, runVars, criteria, file, ending>>

Empty == [n \in {} |-> <<>>]
(* dict.update(), with names from one source or with those of a dictionary   *)
Overlay(d, names, source) == [n \in DOMAIN d \cup names |-> IF n \in names THEN source ELSE d[n]]
Update(d, e) == [n \in DOMAIN d \cup DOMAIN e |-> IF n \in DOMAIN e THEN e[n] ELSE d[n]]

OldFile == <<"old", None>>
RunningFile == <<"running", None>>      \* {'status': 0, 'result': {}}
ErrorFile == <<"error", None>>          \* {'status': 2, 'result': ...}
ReportFile(c) == <<"report", c>>

Init == /\ program \in Programs
        /\ pc = "configure" /\ i = 1
        /\ cases = [files |-> <<>>, args |-> <<>>, fnames |-> <<>>]
        /\ inputs = Empty /\ outputs = Empty
        /\ criteria = "N/A"
        /\ file = OldFile /\ ending = None
        /\ ran = <<>> /\ struck = {} /\ failed = FALSE

(***************************** ways to leave start() ***********************)

Leave(how) == pc' = "over" /\ ending' = how

(* do_start() catches an exception, and writes the file                      *)
RaisesSilently == Leave("raised") /\ UNCHANGED file                 \* variant
Raises == Leave("raised") /\ file' = ErrorFile

(* a SystemExit, or a KeyboardInterrupt, is not caught there                 *)
Exits == Leave("exited") /\ UNCHANGED file

Interrupt == /\ pc # "over"
             /\ Leave("interrupted")
             /\ UNCHANGED <<configVars, i, runVars, criteria, file>>

(* the except clause of start() reports, and the finally clause of both      *)
Fatal == criteria' = "FATAL" /\ pc' = "dispatch" /\ UNCHANGED <<file, ending>>
Verdict == IF failed THEN "FAIL" ELSE "PASS"

(******************************* configuration *****************************)

(* a configuration that cannot be parsed is taken for an empty one           *)
Conf == IF program.confReadable THEN program.conf ELSE [dispatchers |-> <<>>, target |-> None]
Dispatchers == CASE program.env.dispatchers # <<>> -> program.env.dispatchers
                 [] program.env.dispatchers = <<>> /\ Conf.dispatchers # <<>> -> Conf.dispatchers
                 [] OTHER -> <<"file">>
Uses(d) == \E n \in DOMAIN Dispatchers : Dispatchers[n] = d

(* TARGET is stored under the name of the dispatcher, which exists only if   *)
(* there is one dispatcher, and it is one that start() knows                 *)
Targeted == program.env.target = None
            \/ (Len(Dispatchers) = 1 /\ Dispatchers[1] # "unknown")
HttpTarget == IF program.env.target # None THEN program.env.target ELSE Conf.target

Configure ==
  /\ pc = "configure"
  /\ IF ~ Targeted THEN Raises
     ELSE /\ pc' = "parse" /\ UNCHANGED ending
          /\ file' = IF Uses("file") THEN RunningFile ELSE file
  /\ UNCHANGED <<configVars, i, runVars, criteria>>

(******************************** parse_suite() ****************************)

CurrentPod == IF program.NODE_NAME = None THEN "default" ELSE program.NODE_NAME

Fits(set, current) == set = {} \/ current \in set
MeetConstraint(entry) ==
  entry.constrained => /\ Fits(entry.constraint.pods, CurrentPod)
                       /\ program.INSTALLER_TYPE # None
                       /\ Fits(entry.constraint.installers, program.INSTALLER_TYPE)

TaskArgs(entry) == CASE CurrentPod \in DOMAIN entry.args -> entry.args[CurrentPod]
                     [] CurrentPod \notin DOMAIN entry.args /\ "default" \in DOMAIN entry.args
                                            -> entry.args["default"]
                     [] OTHER               -> NoArgs
TaskArgsFname(entry) == IF CurrentPod \in DOMAIN entry.fnames THEN entry.fnames[CurrentPod]
                                                              ELSE NoArgs

(* The three lists are parallel.  A test case is known by its place in the   *)
(* suite, and an argument by the entry it was taken from.                    *)
File(n) == Append(cases.files, n)
ArgsOf(n) == Append(cases.args, [entry |-> n, given |-> TaskArgs(program.entries[n])])
FnamesOf(n) == Append(cases.fnames, [entry |-> n, given |-> TaskArgsFname(program.entries[n])])

IsValid(n) == program.entries[n].named /\ MeetConstraint(program.entries[n])
WithEntryAhead(n) ==                                                \* variant
  [files |-> IF IsValid(n) THEN File(n) ELSE cases.files,
   args |-> IF program.entries[n].named THEN ArgsOf(n) ELSE cases.args,
   fnames |-> IF program.entries[n].named THEN FnamesOf(n) ELSE cases.fnames]
WithEntry(n) == IF IsValid(n) THEN [files |-> File(n), args |-> ArgsOf(n), fnames |-> FnamesOf(n)]
                              ELSE cases

(* without --suite, the input file is the only test case                     *)
SingleLists == [files |-> <<1>>,
                args |-> <<[entry |-> 1, given |-> NoArgs]>>,
                fnames |-> <<[entry |-> 1, given |-> program.argsFile]>>]

Parsed == IF program.parseOnly THEN Exits ELSE pc' = "arguments" /\ UNCHANGED <<ending, file>>

ParseSuite ==
  /\ pc = "parse" /\ program.suite
  /\ CASE program.suiteParses = "raises" -> Raises
       [] program.suiteParses = "exits"  -> Exits
       [] program.suiteParses = "well"   -> pc' = "entries" /\ UNCHANGED <<ending, file>>
  /\ UNCHANGED <<configVars, i, runVars, criteria>>

ParseEntry ==
  /\ pc = "entries" /\ i <= Len(program.entries)
  /\ cases' = WithEntry(i)
  /\ i' = i + 1
  /\ UNCHANGED <<program, pc, runVars, criteria, file, ending>>

EntriesEnd ==
  /\ pc = "entries" /\ i > Len(program.entries)
  /\ Parsed
  /\ i' = 1
  /\ UNCHANGED <<configVars, runVars, criteria>>

TakeSingle ==
  /\ pc = "parse" /\ ~ program.suite
  /\ cases' = SingleLists
  /\ Parsed
  /\ UNCHANGED <<program, i, runVars, criteria>>

(***************************** start(): one test case **********************)

InLoop == pc = "arguments" /\ i <= Len(cases.files)

(* The outputs of the test cases before, then the global arguments, those of *)
(* a file and those of the suite, each over the ones before.                 *)
GatherArguments ==
  /\ InLoop
  /\ LET fromFile == cases.fnames[i]
         fromSuite == cases.args[i]
         withGlobal == Overlay(outputs, program.global.names, <<"global", 0>>)
         withFile == Overlay(withGlobal, fromFile.given.names, <<"file", fromFile.entry>>)
     IN  IF program.global.valid /\ fromFile.given.valid /\ fromSuite.given.valid
         THEN /\ inputs' = Overlay(withFile, fromSuite.given.names, <<"suite", fromSuite.entry>>)
              /\ pc' = "task" /\ UNCHANGED <<criteria, file, ending>>
         ELSE Fatal /\ UNCHANGED inputs
  /\ UNCHANGED <<configVars, i, outputs, ran, struck, failed>>

Current == program.tests[cases.files[i]]

(* An installer that is looked at is refused, also one that fits; what the   *)
(* environment does not tell is not looked at.                               *)
CheckPrecondition(condition) ==
  /\ ~ (condition.installers # {} /\ program.INSTALL_TYPE # None)
  /\ condition.pods # {} /\ program.NODE_NAME # None => program.NODE_NAME \in condition.pods

Rendered == Current.needs \subseteq DOMAIN inputs

SkipTask == i' = i + 1 /\ pc' = "arguments"
ParseTask ==
  /\ pc = "task"
  /\ \/ /\ Current.parses = "unreadable" \/ (Current.parses = "exits" /\ Rendered)
        /\ Exits /\ UNCHANGED <<i, criteria>>
     \/ /\ Current.parses = "raises" \/ (Current.parses # "unreadable" /\ ~ Rendered)
        /\ Fatal /\ UNCHANGED i
     \/ /\ Current.parses = "well" /\ Rendered
        /\ IF CheckPrecondition(Current.precondition) THEN pc' = "run" /\ UNCHANGED i
                                                      ELSE SkipTask
        /\ UNCHANGED <<criteria, file, ending>>
  /\ UNCHANGED <<configVars, runVars>>

(* The outputs after names of the test case at hand, and what one of its     *)
(* steps is handed: run_one_step() puts all outputs there are, those of the  *)
(* steps before it too, over the arguments.                                  *)
OutputsWith(names) == Overlay(outputs, names, <<"output", cases.files[i]>>)
HandedUnder(part) == Update(OutputsWith(part), inputs)              \* variant
Handed(part) == Update(inputs, OutputsWith(part))

(* the contexts are left, which may raise *)
CaseEnds == \/ SkipTask /\ UNCHANGED <<criteria, file, ending>>
            \/ Fatal /\ UNCHANGED i

(* A test case that fails may have delivered a part of its outputs, or none  *)
(* of its steps may have started.  The history has what one of its steps,    *)
(* whichever, was handed.                                                    *)
RunTask ==
  /\ pc = "run"
  /\ \E given \in SUBSET Current.gives, fails, starts \in BOOLEAN :
     \E part \in SUBSET given :
       /\ ~ fails => given = Current.gives
       /\ ~ starts => given = {}
       /\ inputs' = IF starts THEN Handed(part) ELSE inputs
       /\ outputs' = OutputsWith(given)
       /\ ran' = Append(ran, [entry |-> cases.files[i], inputs |-> inputs, given |-> given,
                              part |-> part, handed |-> IF starts THEN {Handed(part)} ELSE {}])
       /\ failed' = (failed \/ fails)
  /\ CaseEnds
  /\ UNCHANGED <<configVars, struck>>

(* An interrupt before _run() has registered the test case makes             *)
(* testcase_end() raise a KeyError, which replaces it and is caught.         *)
LoseInterrupt ==
  /\ pc = "run"
  /\ struck' = struck \cup {cases.files[i]}
  /\ CaseEnds
  /\ UNCHANGED <<configVars, inputs, outputs, ran, failed>>

TasksEnd == /\ pc = "arguments" /\ i > Len(cases.files)
            /\ criteria' = Verdict
            /\ pc' = "dispatch"
            /\ UNCHANGED <<configVars, i, runVars, file, ending>>

(******************************** _do_output() *****************************)

(* All dispatchers are made before the first is used; there is no class for  *)
(* "influxdb".                                                               *)
MakeDispatchers ==
  /\ pc = "dispatch"
  /\ IF Uses("influxdb") \/ Uses("unknown") THEN Raises /\ UNCHANGED i
     ELSE pc' = "flush" /\ i' = 1 /\ UNCHANGED <<file, ending>>
  /\ UNCHANGED <<configVars, runVars, criteria>>

Flushing(d) == pc = "flush" /\ i <= Len(Dispatchers) /\ Dispatchers[i] = d
Flushed == i' = i + 1 /\ UNCHANGED <<pc, ending>>

FlushFile == /\ Flushing("file")
             /\ file' = ReportFile(criteria)
             /\ Flushed
             /\ UNCHANGED <<configVars, runVars, criteria>>

(* The report has no 'result', which is looked up unless the target is empty *)
FlushHttp == /\ Flushing("http")
             /\ IF HttpTarget = "empty" THEN Flushed /\ UNCHANGED file
                                       ELSE Raises /\ UNCHANGED i
             /\ UNCHANGED <<configVars, runVars, criteria>>

(* the page of the report may not be writable                                *)
GenerateReporting == /\ pc = "flush" /\ i > Len(Dispatchers)
                     /\ \/ Raises
                        \/ Leave("returned") /\ UNCHANGED file
                     /\ UNCHANGED <<configVars, i, runVars, criteria>>

Gone == pc = "over" /\ UNCHANGED vars

Next == \/ Configure \/ ParseSuite \/ ParseEntry \/ EntriesEnd \/ TakeSingle
        \/ GatherArguments \/ ParseTask \/ RunTask \/ LoseInterrupt \/ TasksEnd
        \/ MakeDispatchers \/ FlushFile \/ FlushHttp \/ GenerateReporting
        \/ Interrupt \/ Gone

Spec == Init /\ [][Next]_vars

-----------------------------------------------------------------------------

Place == 0 .. MaxCases
Source == {"global", "file", "suite", "output"} \X Place
IsDictionary(d) == DOMAIN d \subseteq Name /\ \A n \in DOMAIN d : d[n] \in Source

(* The three lists are of one length, and the loop does not leave them.      *)
TypeOK == /\ pc \in {"configure", "parse", "entries", "arguments", "task", "run", "dispatch",
                     "flush", "over"}
          /\ DOMAIN cases.args = DOMAIN cases.files /\ DOMAIN cases.fnames = DOMAIN cases.files
          /\ pc \in {"task", "run"} => i \in DOMAIN cases.files
          /\ IsDictionary(inputs) /\ IsDictionary(outputs)
          /\ criteria \in {"N/A", "PASS", "FAIL", "FATAL"}
          /\ file \in {OldFile, RunningFile, ErrorFile} \cup
                      {ReportFile(c) : c \in {"PASS", "FAIL", "FATAL"}}
          /\ ending \in {None, "raised", "exited", "interrupted", "returned"}
          /\ Len(ran) <= Len(cases.files) /\ failed \in BOOLEAN
          /\ struck \subseteq DOMAIN program.tests

(* the test cases that are to run: those of a suite that its constraints let *)
(* through, and of these the ones that may run here                          *)
Selected(n) == program.suite => program.entries[n].named /\ MeetConstraint(program.entries[n])
Expected(n) == Selected(n) /\ CheckPrecondition(program.tests[n].precondition)
Accounted(n) == n \in struck \/ \E r \in DOMAIN ran : ran[r].entry = n

(* where the r-th test case to run has to have a name from, if it is of the  *)
(* entry e: its own entry of the suite, its own file of arguments, the       *)
(* global arguments, or the last test case before it that delivered it       *)
OwnArgs(e) == IF program.suite THEN TaskArgs(program.entries[e]) ELSE NoArgs
OwnFile(e) == IF program.suite THEN TaskArgsFname(program.entries[e]) ELSE program.argsFile
Givers(r, n) == {q \in 1 .. r - 1 : n \in ran[q].given}
LastGiver(r, n) == Max(Givers(r, n))
Origin(e, r, n) ==
  IF n \in OwnArgs(e).names THEN <<"suite", e>>
  ELSE IF n \in OwnFile(e).names THEN <<"file", e>>
  ELSE IF n \in program.global.names THEN <<"global", 0>>
  ELSE <<"output", ran[LastGiver(r, n)].entry>>
StepOrigin(r, n) ==
  IF n \in ran[r].part THEN <<"output", ran[r].entry>>
  ELSE IF Givers(r, n) # {} THEN <<"output", ran[LastGiver(r, n)].entry>>
  ELSE Origin(ran[r].entry, r, n)
Known(e, r) == OwnArgs(e).names \cup OwnFile(e).names \cup program.global.names
               \cup {n \in Name : Givers(r, n) # {}}

(* The test cases that run are those of the suite that may run here, in its  *)
(* order and without a gap but for those an interrupt was lost in.  The file *)
(* of each is read with its own arguments over the outputs before it, in the *)
(* order of precedence, and no other: the three lists that parse_suite()     *)
(* returns stay aligned over the entries that are left out.  Its steps are   *)
(* handed the same with the precedence of the outputs reversed: those of the *)
(* test cases and steps before go over its own arguments.                    *)
RunsAsConfigured ==
  \A r \in DOMAIN ran :
    LET e == ran[r].entry
    IN  /\ e \in DOMAIN program.tests /\ Expected(e)
        /\ \A q \in 1 .. r - 1 : ran[q].entry < e
        /\ \A n \in 1 .. e - 1 : Expected(n) => Accounted(n)
        /\ DOMAIN ran[r].inputs = Known(e, r)
        /\ \A n \in Known(e, r) : ran[r].inputs[n] = Origin(e, r, n)
        /\ \A h \in ran[r].handed : /\ DOMAIN h = Known(e, r) \cup ran[r].part
                                   /\ \A n \in DOMAIN h : h[n] = StepOrigin(r, n)

(* The result file does not lie at the end.  An exception out of start()     *)
(* leaves an error, even after a report was written; a report of PASS says   *)
(* that every test case that was to run did, or lost an interrupt, and none  *)
(* failed; and the file of an unfinished task is left only by an exit or an  *)
(* interrupt.                                                                *)
FileTellsTheEnd ==
  pc = "over" =>
    /\ ending = "raised" <=> file = ErrorFile
    /\ ending = "returned" /\ Uses("file") => file = ReportFile(criteria)
    /\ file = ReportFile("PASS") => /\ ~ failed
                                    /\ \A n \in DOMAIN program.tests : Expected(n) => Accounted(n)
    /\ file = RunningFile => ending \in {"exited", "interrupted"}
    /\ file = OldFile => ~ Uses("file") \/ ending = "interrupted"
=============================================================================
