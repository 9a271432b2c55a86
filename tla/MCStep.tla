------------------------------- MODULE MCStep -------------------------------
(* Instances of Step: every definition of an input with a simple rest, and   *)
(* every SLA on every pair of outputs with a simple input.                   *)
EXTENDS Step

NoSla == [action |-> "none", equals |-> Absent, hasRetries |-> TRUE, retries |-> 0]
Simple == [type |-> "RestCall", loads |-> TRUE, form |-> FALSE,
           inputs |-> <<[text |-> <<"field">>, input |-> "text"]>>,
           outputs |-> <<"path">>, sla |-> NoSla]

(* an input may be defined as any object, name, chunk or pair of chunks, or  *)
(* as a field between two texts *)
Named == {<<"output">>, <<"field">>, <<"attribute">>}
Texts == {<<>>} \cup {<<c>> : c \in Chunk \cup Object} \cup {<<c, d>> : c, d \in Chunk}
         \cup {<<"text", f, "digits">> : f \in Fields}
Inputs(t) == IF \E n \in DOMAIN t : t[n] \in {"output", "field", "attribute"}
             THEN Value \cup {Absent} ELSE {"text"}
Definitions(texts) == UNION {{[text |-> t, input |-> v] : v \in Inputs(t)} : t \in texts}
Types == {"RestCall", "VfModuleValidator", "Heat", "Nova", "Dummy"}

InputSteps ==
  {[Simple EXCEPT !.inputs = <<d>>] : d \in Definitions(Texts)}
  \cup {[Simple EXCEPT !.type = t, !.inputs = <<d>>] : t \in Types, d \in Definitions(Named)}
  \cup {[Simple EXCEPT !.inputs = <<d, e>>] :
           d \in Definitions(Named), e \in [text : {<<"field", "text">>}, input : Strings]}

Slas == {NoSla} \cup
        [action : {"none", "assert", "monitor"}, equals : {"text", "number", "falsy", "empty", Absent},
         hasRetries : {TRUE}, retries : {0, MaxRetries}] \cup
        [action : {"assert"}, equals : {"text"}, hasRetries : {FALSE}, retries : {0}]
Asserted == [action |-> "assert", equals |-> "text", hasRetries |-> TRUE, retries |-> MaxRetries]
OutputSteps ==
  {[Simple EXCEPT !.outputs = o, !.sla = s] : o \in {<<>>} \cup [1 .. 1 -> Crawled], s \in Slas}
  \cup {[Simple EXCEPT !.form = TRUE, !.outputs = o, !.sla = Asserted] :
           o \in [1 .. 2 -> {"text", "path", "item"}]}
UnloadedStep == [Simple EXCEPT !.loads = FALSE]

StepsUnderTest == InputSteps \cup OutputSteps \cup {UnloadedStep}
=============================================================================
