-------------------------------- MODULE Step --------------------------------
(* The steps of a test case: the options of a step are resolved by the main  *)
(* process (vnftest/core/task.py), and its run() is called in the worker     *)
(* (the loop around it is IterationWorker).  RestCall of steps/rest_call.py  *)
(* sends a request, picks its outputs from the answer, and judges them, with *)
(* one retry loop inside the other; the other steps reuse it or fail.        *)
EXTENDS Naturals, Sequences, SequencesExt

CONSTANTS MaxRetries,  \* bound on the retries of an SLA
          Steps        \* the configured steps

(* What the code tells apart in a value: a string, which may be empty, or be *)
(* the text of an object or of None; one with braces, around the name of an  *)
(* input that holds "other" ("nested"), around anything else or unbalanced   *)
(* ("braces"), or doubled around such a name ("escaped"); or an object,      *)
(* which is a number, a list of texts, something that is false, or None.     *)
Braced == {"nested", "braces", "escaped"}
Strings == {"text", "other", "empty", "digits", "NoneText"} \cup Braced
Object == {"number", "list", "falsy", "None"}
Value == Strings \cup Object
Absent == "absent"
Error == "error"

(* The definition of a value is an object, $name ("output"), or a text, in   *)
(* which "{name}" ("field") and "{name.attribute}" may stand; "input" is     *)
(* what is known by that name.  No definition is as good as None.            *)
Fields == {"field", "attribute", "nested", "braces"}
Chunk == Strings \cup {"field", "attribute"}
Definition == [text : Seq(Chunk) \cup {<<v>> : v \in Object \cup {"output"}},
               input : Value \cup {Absent}]
(* An output is a hard-coded text, a path into the body of the answer or to  *)
(* an item of a list there, a path that does not begin with "[body]", the    *)
(* modules of a VF, of an unknown crawler, or a key of a dictionary.         *)
Crawled == {"text", "path", "item", "outside", "modules", "unknown", "key"}
Sla == [action : {"none", "assert", "monitor"}, equals : Value \cup {Absent},
        hasRetries : BOOLEAN, retries : 0 .. MaxRetries]
StepConfig == [type : {"RestCall", "VfModuleValidator", "Heat", "Nova", "Dummy"},
               loads : BOOLEAN, form : BOOLEAN,
               inputs : Seq(Definition), outputs : Seq(Crawled), sla : Sla]

ASSUME StepAssumption == MaxRetries \in Nat /\ Steps \subseteq StepConfig

VARIABLES step,     \* the configuration
          pc,       \* where the call of the step is
          attempt,  \* the calls of run_impl() that failed the SLA
          try,      \* the calls of execute_operation_impl() that failed, of this attempt
          params,   \* the evaluated inputs
          answer,   \* the answer that is to be crawled
          result,   \* the dictionary that the record of the call will hold
          judged    \* history: the outputs of every answer

vars == <<step, pc, attempt, try, params, answer, result, judged>>

Init == /\ step \in Steps
        /\ pc = "resolve" /\ attempt = 0 /\ try = 0
        /\ params = <<>> /\ answer = <<>> /\ result = <<>> /\ judged = <<>>

(******************************** utils.format() ***************************)

(* a field with a dot is formatted by str.format(), which makes a string     *)
Text(v) == CASE v \in {"number", "list", "falsy"} -> "digits"
             [] v \in {"None", Absent} -> "NoneText"
             [] OTHER                  -> v

(* "ret_obj or ret_str" loses an object that is false                        *)
FormatField(v) == CASE v = Absent              -> Error
                    [] v \in {"falsy", "None"} -> "empty"
                    [] OTHER                   -> v

FieldValue(chunk, v) == CASE chunk = "field"     -> FormatField(v)
                          [] chunk = "attribute" -> Text(v)
                          [] chunk = "nested"    -> "other"
                          [] chunk = "braces"    -> Error

(* The text directly before a field is lost; an object takes the place of    *)
(* the whole text, and a field behind it is looked up in it, in vain.        *)
Format(t, v) ==
  LET fields == {n \in DOMAIN t : t[n] \in Fields}
      objects == {n \in fields : FieldValue(t[n], v) \in Object}
      Lost(n) == \E m \in fields : n < m /\ \A j \in n + 1 .. m - 1 : t[j] # "escaped"
  IN  IF \/ \E n \in fields : FieldValue(t[n], v) = Error
         \/ \E n \in objects, m \in fields : n < m
      THEN <<Error>>
      ELSE IF objects # {} THEN <<v>>
      ELSE [n \in DOMAIN t |-> IF n \in fields THEN FieldValue(t[n], v)
                              ELSE IF t[n] = "escaped" THEN "nested"
                              ELSE IF Lost(n) THEN "empty" ELSE t[n]]

(* _parse_options(): $name is replaced by an output, None if there is none   *)
ParseOptions(d) == IF d.text = <<"output">> THEN <<IF d.input = Absent THEN "None" ELSE d.input>>
                                            ELSE d.text

Resolve(d) == Format(ParseOptions(d), d.input)

(* The worker formats what is resolved already, a VfModuleValidator twice.   *)
Evaluate(d) == LET again == Format(Resolve(d), d.input)
               IN  IF step.type = "VfModuleValidator" THEN Format(again, d.input) ELSE again

(******************************* the main process **************************)

Goto(label) == pc' = label

(* run_one_step() raises before the runner is started                        *)
ResolveOptions ==
  /\ pc = "resolve"
  /\ Goto(IF \E n \in DOMAIN step.inputs : Resolve(step.inputs[n]) = <<Error>>
          THEN "refused" ELSE "setup")
  /\ UNCHANGED <<step, attempt, try, params, answer, result, judged>>

(*********************************** RestCall ******************************)

Raises == Goto("raised") /\ UNCHANGED <<step, attempt, try, params, answer, result, judged>>

(* the constructor of Dummy does not take the input parameters               *)
DummyStep == pc = "setup" /\ step.type = "Dummy" /\ Raises

(* the operations of these steps call functions that openstack_utils lacks   *)
HeatStep == pc = "setup" /\ step.type = "Heat" /\ Raises
NovaStep == pc = "setup" /\ step.type = "Nova" /\ Raises

Setup == /\ pc = "setup" /\ step.type \in {"RestCall", "VfModuleValidator"}
         /\ Goto("eval")
         /\ UNCHANGED <<step, attempt, try, params, answer, result, judged>>

(* the request of a VfModuleValidator has its outputs in a dictionary, the   *)
(* keys of which are taken for the outputs                                   *)
Outputs == IF step.type = "VfModuleValidator" THEN <<"key">> ELSE step.outputs

Unset(p) == p \in {<<"None">>, <<Error>>}
Missing(p) == Unset(p) \/ \A n \in DOMAIN p : p[n] = "empty"

EvalInputUnless(missing(_)) ==
  /\ pc = "eval"
  /\ params' = [n \in DOMAIN step.inputs |-> Evaluate(step.inputs[n])]
  /\ Goto(IF \E n \in DOMAIN params' : missing(params'[n]) THEN "raised" ELSE "load")
  /\ UNCHANGED <<step, attempt, try, answer, result, judged>>
EvalInputEmpty == EvalInputUnless(Unset)                             \* variant
EvalInput == EvalInputUnless(Missing)

(* execute_operation() makes four tries, whatever it was that failed         *)
TryAgainOnceMore == IF try <= 3 THEN try' = try + 1 /\ Goto("load")  \* variant
                                ELSE UNCHANGED try /\ Goto("raised")
TryAgainUncounted == UNCHANGED try /\ Goto("load")                  \* variant
TryAgain == IF try < 3 THEN try' = try + 1 /\ Goto("load")
                       ELSE UNCHANGED try /\ Goto("raised")

LoadFile == /\ pc = "load"
            /\ IF step.loads THEN Goto("request") /\ UNCHANGED try ELSE TryAgain
            /\ UNCHANGED <<step, attempt, params, answer, result, judged>>

(* What the body holds where an output is looked for.  An element of XML is  *)
(* a list only if there are two of a name, and None if it has no text.       *)
JsonValue == {"text", "number", "list", "falsy", "None", Absent}
ElementToDict(texts) == CASE Len(texts) = 0 -> Absent
                          [] Len(texts) = 1 -> texts[1]
                          [] OTHER          -> "list"
XmlValue == {ElementToDict(texts) : texts \in UNION {[1 .. n -> {"text", "None"}] : n \in 0 .. 2}}

Answered(bodies) == /\ answer' \in bodies
                    /\ Goto("crawl")
                    /\ UNCHANGED <<step, attempt, try, params, result, judged>>
(* no connection, an error status, or a body that cannot be read; the server *)
(* may have done what it was asked for                                       *)
Unanswered == TryAgain /\ UNCHANGED <<step, attempt, params, answer, result, judged>>

Call == /\ pc = "request" /\ ~ step.form
        /\ \/ Answered([DOMAIN Outputs -> JsonValue])
           \/ Answered([DOMAIN Outputs -> XmlValue])
           \/ Unanswered
FormData == /\ pc = "request" /\ step.form
            /\ Answered([DOMAIN Outputs -> JsonValue]) \/ Unanswered

(* The crawlers search the answer as a whole: its return_code, its body and  *)
(* its headers.                                                              *)
CrawlPath(v) == IF v \in {"None", Absent} THEN Error ELSE v
CrawlItem(v) == IF v = "list" THEN "text" ELSE Error
CrawlModules == Error    \* an answer has no "componentInstances"
Pick(crawled, v) == CASE crawled = "text" -> "text"
                      [] crawled = "path" -> CrawlPath(v)
                      [] crawled = "item" -> CrawlItem(v)
                      [] crawled = "modules" -> CrawlModules
                      [] OTHER -> Error

(* the outputs reach the result together or not at all                       *)
Crawl == /\ pc = "crawl"
         /\ LET output == [n \in DOMAIN Outputs |-> Pick(Outputs[n], answer[n])]
            IN  IF \E n \in DOMAIN output : output[n] = Error
                THEN Goto("raised") /\ UNCHANGED <<result, judged>>
                ELSE /\ result' = output /\ judged' = Append(judged, output)
                     /\ Goto("sla")
         /\ try' = 0 /\ answer' = <<>>
         /\ UNCHANGED <<step, attempt, params>>

(* The SLA is about the first output.  Only "assert" is looked at.           *)
Checked == step.sla.action = "assert" /\ step.sla.equals # Absent
Found == IF result = <<>> THEN Error ELSE FormatField(result[1])

RetryWhile(more) ==
  IF more THEN attempt' = attempt + 1 /\ Goto("eval")
          ELSE UNCHANGED attempt /\ Goto("asserted")
HandleSlaThen(more) ==
  /\ pc = "sla"
  /\ CASE ~ Checked             -> UNCHANGED attempt /\ Goto("returned")
       [] Checked /\ Found = Error -> UNCHANGED attempt /\ Goto("raised")
       [] Checked /\ Found = step.sla.equals -> UNCHANGED attempt /\ Goto("returned")
       [] OTHER -> IF step.sla.hasRetries THEN RetryWhile(more)
                                          ELSE UNCHANGED attempt /\ Goto("raised")
  /\ UNCHANGED <<step, try, params, answer, result, judged>>
HandleSlaOneLess == HandleSlaThen(attempt + 1 < step.sla.retries)    \* variant
HandleSla == HandleSlaThen(attempt < step.sla.retries)

Ended == {"refused", "returned", "asserted", "raised"}
Gone == pc \in Ended /\ UNCHANGED vars

Next == \/ ResolveOptions \/ DummyStep \/ HeatStep \/ NovaStep \/ Setup
        \/ EvalInput \/ LoadFile \/ Call \/ FormData \/ Crawl \/ HandleSla
        \/ Gone

Spec == Init /\ [][Next]_vars

(* The worker runs, and a request ends, with an answer or without: nothing   *)
(* is said of which.                                                         *)
FairSpec == Spec /\ WF_vars(Next)

-----------------------------------------------------------------------------

Answer == Value \cup {Absent}
Output == Value \ {"None"}
Param == Seq(Strings) \cup {<<v>> : v \in Object \cup {Error}}

(* The loops stay within their numbers of attempts and tries, and nothing    *)
(* that could not be evaluated or found is passed on.                        *)
TypeOK == /\ step \in StepConfig
          /\ pc \in Ended \cup {"resolve", "setup", "eval", "load", "request", "crawl", "sla"}
          /\ attempt \in 0 .. step.sla.retries /\ try \in 0 .. 3
          /\ params \in Seq(Param) /\ answer \in Seq(Answer)
          /\ result \in Seq(Output) /\ judged \in Seq(Seq(Output))

(* Through both retry loops, the verdict of a call is the one its answers    *)
(* deserve.  When run() returns, the outputs it returns are those of the     *)
(* last answer and meet the SLA; when it fails the SLA, it has judged one    *)
(* answer more than it had retries, and none met it; the record shows the    *)
(* last answer that was judged, even if a later attempt raised.  Two         *)
(* expectations are left out, because utils.format() makes "" of an object   *)
(* that is false: such an object can never be found, and is taken for "".    *)
Meets(output) == output # <<>> /\ output[1] = step.sla.equals
VerdictIsDeserved ==
  /\ pc = "returned" => /\ judged # <<>>
                        /\ Checked /\ step.sla.equals # "empty" => Meets(Last(judged))
  /\ pc = "asserted" => /\ Checked /\ Len(judged) = step.sla.retries + 1
                        /\ step.sla.equals # "falsy" =>
                             \A n \in DOMAIN judged : ~ Meets(judged[n])
  /\ result = IF judged = <<>> THEN <<>> ELSE Last(judged)

(* A request is sent only with all of its inputs, and each with what its     *)
(* definition denotes, although it was formatted twice or three times, in    *)
(* two processes; an attribute is sent as text, and one that is not there,   *)
(* or is None, as "None".  utils.format() does not keep to that for three    *)
(* kinds of definitions, which are left out: it loses text before a field    *)
(* (utils.py:534), it loses the text around an object or the object itself   *)
(* (utils.py:548), and the next formatting takes the braces that the first   *)
(* leaves, or finds in a value, for fields again.                            *)
Lossless(d) ==
  /\ \A m, n \in DOMAIN d.text :
       m < n /\ d.text[n] \in Fields => d.text[m] \in Fields \cup {"empty"}
  /\ Len(d.text) > 1 /\ d.input \in Object => \A n \in DOMAIN d.text : d.text[n] # "field"
  /\ d.input \notin Braced /\ \A n \in DOMAIN d.text : d.text[n] # "escaped"
Denoted(d) ==
  LET t == ParseOptions(d)
  IN  IF t = <<"field">> THEN <<d.input>>
      ELSE [n \in DOMAIN t |-> CASE t[n] \in {"field", "attribute"} -> Text(d.input)
                                 [] t[n] = "nested"               -> "other"
                                 [] OTHER                         -> t[n]]
RequestIsGiven ==
  pc = "request" => \A n \in DOMAIN step.inputs :
    /\ ~ Missing(params[n])
    /\ Lossless(step.inputs[n]) => params[n] = Denoted(step.inputs[n])

(* Whatever fails, and however often, a call of a step ends.                 *)
StepEnds == <>(pc \in Ended)
=============================================================================
