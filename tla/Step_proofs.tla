----------------------------- MODULE Step_proofs -----------------------------
(* Proofs about Step for any bound on the retries and any set of steps, with *)
(* any number of inputs and outputs.                                         *)
EXTENDS Step, SequenceTheorems, TLAPS

(* The answer that was judged did not meet an SLA that is looked at. *)
Failed(output) == /\ Checked /\ output # <<>>
                  /\ FormatField(output[1]) # step.sla.equals

(* How many answers were judged, by the place of the call: one for every     *)
(* attempt that was used up, and the one at hand.                            *)
CountInv ==
  /\ pc \in {"resolve", "refused", "setup", "eval", "load", "request", "crawl"} =>
       Len(judged) = attempt
  /\ pc \in {"sla", "returned", "asserted"} => Len(judged) = attempt + 1
  /\ pc = "raised" => Len(judged) \in {attempt, attempt + 1}
  /\ pc = "asserted" => attempt = step.sla.retries /\ Failed(judged[attempt + 1])

(* Every attempt that was used up had failed the SLA, and a call that        *)
(* returns has met it.                                                       *)
JudgedInv ==
  /\ \A n \in 1 .. attempt : Failed(judged[n])
  /\ pc = "returned" /\ Checked =>
       /\ judged[attempt + 1] # <<>>
       /\ FormatField(judged[attempt + 1][1]) = step.sla.equals
  /\ result = IF judged = <<>> THEN <<>> ELSE judged[Len(judged)]

(* From the evaluation on, every input is there, as its definition tells.    *)
ParamsInv ==
  pc \in {"load", "request"} =>
    /\ params = [n \in DOMAIN step.inputs |-> Evaluate(step.inputs[n])]
    /\ \A n \in DOMAIN step.inputs : ~ Missing(params[n])

(* An answer is crawled for the outputs that were asked for.                  *)
AnswerInv == pc = "crawl" => answer \in [DOMAIN Outputs -> Answer]

IInv == TypeOK /\ CountInv /\ JudgedInv /\ ParamsInv /\ AnswerInv

(****************************** the operators *******************************)

(* A function from 1 .. n is a sequence.                                     *)
LEMMA FunctionIsSeq == ASSUME NEW S, NEW n \in Nat, NEW f \in [1 .. n -> S]
                       PROVE  f \in Seq(S) /\ Len(f) = n
  BY SeqDef

(* What the configuration's type gives.                                      *)
LEMMA StepType == ASSUME step \in StepConfig
                  PROVE  /\ step.sla.retries \in Nat
                         /\ step.inputs \in Seq(Definition) /\ step.outputs \in Seq(Crawled)
                         /\ DOMAIN step.inputs = 1 .. Len(step.inputs) /\ Len(step.inputs) \in Nat
                         /\ step.sla.equals \in Value \cup {Absent}
<1>1. step.sla \in Sla /\ step.inputs \in Seq(Definition) /\ step.outputs \in Seq(Crawled)
  BY DEF StepConfig
<1>2. step.sla.retries \in Nat /\ step.sla.equals \in Value \cup {Absent}
  BY <1>1, StepAssumption DEF Sla
<1> QED
  BY <1>1, <1>2, LenProperties

(* What a field gives is a value, but not None, or an error.                 *)
LEMMA FieldType ==
  \A v \in Value \cup {Absent} :
    /\ FormatField(v) \in (Value \ {"None", "falsy"}) \cup {Error}
    /\ Text(v) \in Strings
    /\ v \in Object => Text(v) \notin Braced
    /\ v \notin Braced => Text(v) \notin Braced
  BY DEF FormatField, Text, Value, Strings, Object, Braced, Absent, Error

(* and so is what stands at one place of a text.                             *)
LEMMA FieldValueType ==
  ASSUME NEW c \in Fields, NEW v \in Value \cup {Absent}
  PROVE  /\ FieldValue(c, v) \in Strings \cup Object \cup {Error}
         /\ FieldValue(c, v) \in Object => c = "field" /\ FieldValue(c, v) = v
<1>1. CASE c = "field"
  <2>1. FieldValue(c, v) = FormatField(v)
    BY <1>1 DEF FieldValue
  <2>2. FormatField(v) \in Object => FormatField(v) = v
    BY DEF FormatField, Object, Absent, Error
  <2> QED
    BY <1>1, <2>1, <2>2, FieldType DEF Value
<1>2. CASE c = "attribute"
  <2>1. FieldValue(c, v) \in Strings
    BY <1>2, FieldType DEF FieldValue
  <2> QED
    BY <2>1 DEF Strings, Object, Braced
<1>3. CASE c \in {"nested", "braces"}
  BY <1>3 DEF FieldValue, Strings, Object, Braced, Error
<1> QED
  BY <1>1, <1>2, <1>3 DEF Fields

(* The chunks, sorted.                                                       *)
LEMMA ChunkType ==
  /\ Chunk \ Fields \subseteq Strings
  /\ "nested" \in Strings /\ "empty" \in Strings /\ "other" \in Strings
  /\ Error \notin Strings /\ Error \notin Object /\ Object \cap Fields = {}
  /\ Error \notin Fields /\ "escaped" \notin Object /\ Error # "escaped"
  /\ Braced \subseteq Strings /\ Object \cap Strings = {}
  BY DEF Chunk, Fields, Strings, Object, Braced, Error

(* What is formatted: a text or an object.                                   *)
Formattable == Seq(Chunk) \cup {<<v>> : v \in Object \cup {Error}}

(* A text is formatted to a text of the same length, to an object, or that   *)
(* fails.                                                                    *)
LEMMA FormatType ==
  ASSUME NEW t \in Formattable, NEW v \in Value \cup {Absent}
  PROVE  Format(t, v) \in Param
<1> DEFINE fields == {n \in DOMAIN t : t[n] \in Fields}
           objects == {n \in fields : FieldValue(t[n], v) \in Object}
           Lost(n) == \E m \in fields : n < m /\ \A j \in n + 1 .. m - 1 : t[j] # "escaped"
           text == [n \in DOMAIN t |-> IF n \in fields THEN FieldValue(t[n], v)
                                      ELSE IF t[n] = "escaped" THEN "nested"
                                      ELSE IF Lost(n) THEN "empty" ELSE t[n]]
<1>1. Format(t, v) = IF \/ \E n \in fields : FieldValue(t[n], v) = Error
                        \/ \E n \in objects, m \in fields : n < m
                     THEN <<Error>> ELSE IF objects # {} THEN <<v>> ELSE text
  BY DEF Format
<1>2. <<Error>> \in Param
  BY DEF Param
<1>3. objects # {} => <<v>> \in Param
  <2> SUFFICES ASSUME NEW n \in objects
               PROVE  v \in Object
    BY DEF Param
  <2> QED
    BY FieldValueType
<1>4. ASSUME ~ \E n \in fields : FieldValue(t[n], v) = Error, objects = {}
      PROVE  text \in Param
  <2>1. CASE t \in Seq(Chunk)
    <3>1. DOMAIN t = 1 .. Len(t) /\ Len(t) \in Nat /\ \A n \in DOMAIN t : t[n] \in Chunk
      BY <2>1, LenProperties, ElementOfSeq
    <3>2. \A n \in DOMAIN t : text[n] \in Strings
      <4> SUFFICES ASSUME NEW n \in DOMAIN t
                   PROVE  text[n] \in Strings
        OBVIOUS
      <4> HIDE DEF Lost
      <4>1. CASE n \in fields
        BY <1>4, <4>1, FieldValueType
      <4>2. CASE n \notin fields
        BY <3>1, <4>2, ChunkType
      <4> QED
        BY <4>1, <4>2
    <3>3. text \in [1 .. Len(t) -> Strings]
      BY <3>1, <3>2
    <3> HIDE DEF text
    <3> QED
      BY <3>1, <3>3, FunctionIsSeq DEF Param
  <2>2. CASE t \in {<<w>> : w \in Object \cup {Error}}
    <3>1. PICK w \in Object \cup {Error} : t = <<w>>
      BY <2>2
    <3>2. fields = {} /\ t[1] # "escaped" /\ DOMAIN t = {1}
      BY <3>1, ChunkType
    <3>3. text = [n \in {1} |-> t[n]]
      BY <3>2
    <3>4. text = t
      BY <3>1, <3>2, <3>3
    <3> QED
      BY <3>1, <3>4 DEF Param
  <2> QED
    BY <2>1, <2>2 DEF Formattable
<1> HIDE DEF fields, objects, text
<1> QED
  BY <1>1, <1>2, <1>3, <1>4

(* What has been formatted can be formatted again.                           *)
LEMMA ParamType == Param \subseteq Formattable
<1>1. Seq(Strings) \subseteq Seq(Chunk)
  <2>1. Strings \subseteq Chunk
    BY DEF Chunk
  <2> QED
    BY <2>1
<1> QED
  BY <1>1 DEF Param, Formattable

(* The parts of an input's definition.                                       *)
LEMMA DefinitionType ==
  ASSUME NEW d \in Definition
  PROVE  ParseOptions(d) \in Formattable /\ d.input \in Value \cup {Absent}
<1>1. /\ d.text \in Seq(Chunk) \cup {<<v>> : v \in Object \cup {"output"}}
      /\ d.input \in Value \cup {Absent}
  BY DEF Definition
<1>2. CASE d.text = <<"output">>
  <2>1. ParseOptions(d) \in {<<v>> : v \in Value}
    BY <1>1, <1>2 DEF ParseOptions, Value, Object
  <2>2. PICK v \in Value : ParseOptions(d) = <<v>>
    BY <2>1
  <2>3. v \in Strings => <<v>> \in Seq(Chunk)
    BY DEF Chunk
  <2> QED
    BY <1>1, <2>2, <2>3 DEF Formattable, Value
<1>3. CASE d.text # <<"output">>
  BY <1>1, <1>3 DEF ParseOptions, Formattable
<1> QED
  BY <1>2, <1>3

(* An input is formatted to a value, or that fails.                          *)
LEMMA EvaluateType == ASSUME NEW d \in Definition
                      PROVE  Resolve(d) \in Param /\ Evaluate(d) \in Param
<1>1. Resolve(d) \in Param
  BY DefinitionType, FormatType DEF Resolve
<1>2. Format(Resolve(d), d.input) \in Param
  BY <1>1, DefinitionType, ParamType, FormatType
<1>3. Format(Format(Resolve(d), d.input), d.input) \in Param
  BY <1>2, DefinitionType, ParamType, FormatType
<1> QED
  BY <1>1, <1>2, <1>3 DEF Evaluate

(* What has no braces is left as it is,                                      *)
LEMMA FormatAgain ==
  ASSUME NEW t \in Param, NEW v, \A n \in DOMAIN t : t[n] \notin Braced
  PROVE  Format(t, v) = t
<1>1. \A n \in DOMAIN t : t[n] \notin Fields /\ t[n] # "escaped"
  <2>1. CASE t \in Seq(Strings)
    <3>1. \A n \in DOMAIN t : t[n] \in Strings
      BY <2>1, ElementOfSeq, LenProperties
    <3> QED
      BY <3>1 DEF Fields, Strings, Braced
  <2>2. CASE t \in {<<w>> : w \in Object \cup {Error}}
    BY <2>2, ChunkType
  <2> QED
    BY <2>1, <2>2 DEF Param
<1>2. t = [n \in DOMAIN t |-> t[n]]
  <2>1. CASE t \in Seq(Strings)
    BY <2>1
  <2>2. CASE t \in {<<w>> : w \in Object \cup {Error}}
    BY <2>2
  <2> QED
    BY <2>1, <2>2 DEF Param
<1> QED
  BY <1>1, <1>2 DEF Format

(* A text that is formatted without loss is formatted to what it denotes,    *)
(* and has no braces then.                                                   *)
LEMMA ResolveIsGiven ==
  ASSUME NEW d \in Definition, Lossless(d), Resolve(d) # <<Error>>
  PROVE  /\ \A n \in DOMAIN Resolve(d) : Resolve(d)[n] \notin Braced
         /\ Resolve(d) = Denoted(d) \/ Resolve(d) = <<"empty">>
<1> DEFINE t == ParseOptions(d)
           v == d.input
           fields == {n \in DOMAIN t : t[n] \in Fields}
           objects == {n \in fields : FieldValue(t[n], v) \in Object}
           Lost(n) == \E m \in fields : n < m /\ \A j \in n + 1 .. m - 1 : t[j] # "escaped"
           text == [n \in DOMAIN t |-> IF n \in fields THEN FieldValue(t[n], v)
                                      ELSE IF t[n] = "escaped" THEN "nested"
                                      ELSE IF Lost(n) THEN "empty" ELSE t[n]]
<1>1. /\ t \in Formattable /\ v \in Value \cup {Absent} /\ v \notin Braced
      /\ \A m, n \in DOMAIN t : m < n /\ t[n] \in Fields => t[m] \in Fields \cup {"empty"}
      /\ \A n \in DOMAIN t : t[n] # "escaped"
      /\ t = <<"field">> \/ v \notin Object \/ \A n \in DOMAIN t : t[n] # "field"
  <2>1. t \in Formattable /\ v \in Value \cup {Absent} /\ v \notin Braced
    BY DefinitionType DEF Lossless
  <2>2. CASE d.text = <<"output">>
    <3>1. PICK w : t = <<w>> /\ (w = v \/ w = "None") /\ w # Absent
      BY <2>2 DEF ParseOptions, Absent
    <3>2. w \notin Braced /\ w # "field" /\ w # "escaped"
      BY <2>1, <3>1 DEF Braced, Value, Strings, Object, Absent
    <3> QED
      BY <2>1, <3>1, <3>2
  <2>3. CASE d.text # <<"output">>
    <3>1. t = d.text
      BY <2>3 DEF ParseOptions
    <3>2. ASSUME v \in Object, NEW n \in DOMAIN t, t[n] = "field"
          PROVE  t = <<"field">>
      <4>1. ~ Len(t) > 1
        BY <3>1, <3>2 DEF Lossless
      <4>2. t \in Seq(Chunk) \cup {<<w>> : w \in Object \cup {"output"}}
        BY <3>1 DEF Definition
      <4>3. CASE t \in Seq(Chunk)
        <5>1. DOMAIN t = 1 .. Len(t) /\ Len(t) \in Nat
          BY <4>3, LenProperties
        <5> HIDE DEF t
        <5>2. Len(t) = 1 /\ n = 1
          BY <3>2, <4>1, <5>1
        <5> QED
          BY <3>2, <4>3, <5>2
      <4>4. CASE t \in {<<w>> : w \in Object \cup {"output"}}
        BY <3>2, <4>4
      <4> QED
        BY <4>2, <4>3, <4>4
    <3> QED
      BY <2>1, <3>1, <3>2 DEF Lossless
  <2> QED
    BY <2>2, <2>3
<1>2. Resolve(d) = IF \/ \E n \in fields : FieldValue(t[n], v) = Error
                      \/ \E n \in objects, m \in fields : n < m
                   THEN <<Error>> ELSE IF objects # {} THEN <<v>> ELSE text
  BY DEF Resolve, Format
<1>3. \A n \in fields : FieldValue(t[n], v) # Error
  BY <1>2
<1> HIDE DEF t, v
<1>4. CASE t = <<"field">>
  <2>1. fields = {1} /\ DOMAIN t = {1} /\ FieldValue(t[1], v) = FormatField(v)
    BY <1>4 DEF Fields, FieldValue
  <2>2. text = <<FormatField(v)>>
    BY <2>1
  <2>3. Denoted(d) = <<v>>
    BY <1>4 DEF Denoted, t, v
  <2>4. v # Absent
    BY <1>3, <2>1 DEF FormatField, Absent
  <2>5. CASE v \in {"falsy", "None"}
    <3>1. FormatField(v) = "empty" /\ "empty" \notin Object
      BY <2>4, <2>5 DEF FormatField, Object
    <3>2. objects = {}
      BY <2>1, <3>1
    <3>3. Resolve(d) = <<"empty">>
      BY <1>2, <1>3, <2>2, <3>1, <3>2
    <3> QED
      BY <3>3 DEF Braced
  <2>6. CASE v \notin {"falsy", "None"}
    <3>1. FormatField(v) = v
      BY <2>4, <2>6 DEF FormatField
    <3>2. Resolve(d) = <<v>>
      <4>1. ~ \E n \in objects, m \in fields : n < m
        BY <2>1
      <4> HIDE DEF objects, fields, text
      <4> QED
        BY <1>2, <1>3, <2>2, <3>1, <4>1
    <3> QED
      BY <1>1, <2>3, <3>2
  <2> QED
    BY <2>5, <2>6
<1>5. CASE t # <<"field">>
  <2>1. ASSUME NEW n \in fields
        PROVE  FieldValue(t[n], v) = (CASE t[n] \in {"field", "attribute"} -> Text(v)
                                       [] t[n] = "nested"               -> "other"
                                       [] OTHER                         -> t[n])
               /\ FieldValue(t[n], v) \notin Object \cup Braced
    <3>1. CASE t[n] = "field"
      <4>1. v \notin Object /\ v \in Strings \cup {Absent}
        BY <1>1, <1>5, <3>1 DEF Value
      <4>2. v # Absent
        BY <1>3, <3>1 DEF FieldValue, FormatField, Absent
      <4>3. FormatField(v) = v /\ Text(v) = v
        BY <4>1, <4>2 DEF FormatField, Text, Object
      <4> QED
        BY <1>1, <3>1, <4>1, <4>3 DEF FieldValue
    <3>2. CASE t[n] = "attribute"
      <4>1. FieldValue(t[n], v) = Text(v) /\ Text(v) \in Strings /\ Text(v) \notin Braced
        BY <1>1, <3>2, FieldType DEF FieldValue
      <4> QED
        BY <3>2, <4>1, ChunkType
    <3>3. CASE t[n] \in {"nested", "braces"}
      BY <1>3, <3>3 DEF FieldValue, Object, Braced
    <3> QED
      BY <3>1, <3>2, <3>3 DEF Fields
  <2>2. ASSUME NEW n \in DOMAIN t, n \notin fields
        PROVE  text[n] = t[n] /\ t[n] \notin Braced \cup {"field", "attribute"}
    <3>1. t[n] # "escaped" /\ (Lost(n) => t[n] = "empty")
      BY <1>1, <2>2
    <3> HIDE DEF Lost
    <3> QED
      BY <2>2, <3>1 DEF Fields, Braced
  <2>3. objects = {}
    BY <2>1
  <2>4. Resolve(d) = text
    BY <1>2, <1>3, <2>3
  <2> DEFINE Meant(n) == CASE t[n] \in {"field", "attribute"} -> Text(v)
                           [] t[n] = "nested"               -> "other"
                           [] OTHER                         -> t[n]
  <2>5. Denoted(d) = [n \in DOMAIN t |-> Meant(n)]
    BY <1>5 DEF Denoted, t, v
  <2>6. \A n \in DOMAIN t : text[n] = Meant(n) /\ text[n] \notin Braced
    <3> SUFFICES ASSUME NEW n \in DOMAIN t
                 PROVE  text[n] = Meant(n) /\ text[n] \notin Braced
      OBVIOUS
    <3> HIDE DEF Lost
    <3>1. CASE n \in fields
      BY <2>1, <3>1
    <3>2. CASE n \notin fields
      BY <2>2, <3>2 DEF Braced
    <3> QED
      BY <3>1, <3>2
  <2>7. text = [n \in DOMAIN t |-> text[n]] /\ DOMAIN text = DOMAIN t
    OBVIOUS
  <2> HIDE DEF text, Meant
  <2> QED
    BY <2>4, <2>5, <2>6, <2>7
<1> QED
  BY <1>4, <1>5

(* An evaluation that gives something to send gives what is denoted.         *)
LEMMA EvaluateIsGiven ==
  ASSUME NEW d \in Definition, Lossless(d), ~ Missing(Evaluate(d))
  PROVE  Evaluate(d) = Denoted(d)
<1>1. Resolve(d) \in Param
  BY EvaluateType
<1>2. (\A n \in DOMAIN Resolve(d) : Resolve(d)[n] \notin Braced) => Evaluate(d) = Resolve(d)
  BY <1>1, FormatAgain DEF Evaluate
<1>3. CASE Resolve(d) = <<Error>>
  <2>1. \A n \in DOMAIN Resolve(d) : Resolve(d)[n] \notin Braced
    BY <1>3 DEF Error, Braced
  <2> QED
    BY <1>2, <1>3, <2>1 DEF Missing, Unset
<1>4. CASE Resolve(d) # <<Error>>
  <2>1. Evaluate(d) = Resolve(d) /\ (Resolve(d) = Denoted(d) \/ Resolve(d) = <<"empty">>)
    BY <1>2, <1>4, ResolveIsGiven
  <2> QED
    BY <2>1 DEF Missing
<1> QED
  BY <1>3, <1>4

(* An output that was picked is a value, and not None.                       *)
LEMMA PickType ==
  ASSUME NEW c, NEW v \in Answer, Pick(c, v) # Error
  PROVE  Pick(c, v) \in Output
<1>1. CASE c = "text"
  BY <1>1 DEF Pick, Output, Value, Strings
<1>2. CASE c = "path"
  BY <1>2 DEF Pick, CrawlPath, Output, Answer, Value, Strings, Absent, Error
<1>3. CASE c = "item"
  BY <1>3 DEF Pick, CrawlItem, Output, Value, Strings, Error
<1>4. CASE c \notin {"text", "path", "item"}
  BY <1>4 DEF Pick, CrawlModules
<1> QED
  BY <1>1, <1>2, <1>3, <1>4

(* The outputs of a step come in a finite order.                             *)
LEMMA OutputsType == ASSUME step \in StepConfig
                     PROVE  /\ Outputs \in Seq(Crawled) /\ Len(Outputs) \in Nat
                            /\ DOMAIN Outputs = 1 .. Len(Outputs)
<1>1. <<"key">> \in Seq(Crawled)
  BY DEF Crawled
<1>2. Outputs \in Seq(Crawled)
  BY <1>1, StepType DEF Outputs
<1> QED
  BY <1>2, LenProperties

(* What is picked from XML may be an answer.                                 *)
LEMMA XmlValueType == XmlValue \subseteq Answer
<1> SUFFICES ASSUME NEW n \in 0 .. 2, NEW texts \in [1 .. n -> {"text", "None"}]
             PROVE  ElementToDict(texts) \in Answer
  BY DEF XmlValue
<1>1. Len(texts) = n
  BY FunctionIsSeq
<1>2. n = 1 => texts[1] \in {"text", "None"}
  BY <1>1
<1> QED
  BY <1>1, <1>2 DEF ElementToDict, Answer, Value, Strings, Object

(* What the history tells once one more output is appended to it.            *)
LEMMA JudgedAppend ==
  ASSUME NEW S, NEW s \in Seq(S), NEW x \in S
  PROVE  /\ Append(s, x) \in Seq(S) /\ Len(Append(s, x)) = Len(s) + 1 /\ Append(s, x) # <<>>
         /\ Append(s, x)[Len(s) + 1] = x
         /\ \A n \in 1 .. Len(s) : Append(s, x)[n] = s[n]
  BY AppendProperties

(***************************** the induction ********************************)

(* The invariant holds before the step begins.                               *)
LEMMA InitInv == Init => IInv
<1> SUFFICES ASSUME Init
             PROVE  IInv
  OBVIOUS
<1>1. step \in StepConfig
  BY StepAssumption DEF Init
<1>2. <<>> \in Seq(Param) /\ <<>> \in Seq(Answer) /\ <<>> \in Seq(Output)
      /\ <<>> \in Seq(Seq(Output)) /\ Len(<<>>) = 0
  OBVIOUS
<1>3. TypeOK
  BY <1>1, <1>2, StepType DEF Init, TypeOK
<1>4. CountInv
  BY <1>2 DEF Init, CountInv
<1>5. JudgedInv
  BY DEF Init, JudgedInv
<1>6. ParamsInv
  BY DEF Init, ParamsInv
<1>7. AnswerInv
  BY DEF Init, AnswerInv
<1> QED
  BY <1>3, <1>4, <1>5, <1>6, <1>7 DEF IInv

(* The steps that do not touch the outputs, and where they may lead.         *)
LEMMA Quiet ==
  ASSUME IInv, UNCHANGED <<step, attempt, result, judged>>,
         pc \in {"resolve", "setup", "eval", "load", "request", "crawl"},
         pc' \in {"refused", "setup", "eval", "load", "request", "crawl", "raised"}
  PROVE  CountInv' /\ JudgedInv'
<1>1. attempt \in Nat
  BY StepType DEF IInv, TypeOK
<1>2. CountInv'
  BY <1>1 DEF IInv, CountInv
<1>3. \A n \in 1 .. attempt : Failed(judged[n]) <=> Failed(judged[n])'
  BY DEF Failed, Checked
<1>4. JudgedInv'
  BY <1>3 DEF IInv, JudgedInv
<1> QED
  BY <1>2, <1>4

(* A request is tried again three times at most.                             *)
LEMMA TryAgainType ==
  ASSUME IInv, TryAgain
  PROVE  try' \in 0 .. 3 /\ pc' \in {"load", "raised"}
  BY DEF IInv, TypeOK, TryAgain, Goto

(* A crawl raises, or appends its outputs to the history and to the record.  *)
LEMMA CrawlInv == ASSUME IInv, Crawl PROVE IInv'
<1> DEFINE output == [n \in DOMAIN Outputs |-> Pick(Outputs[n], answer[n])]
<1> USE DEF Goto
<1>1. /\ pc = "crawl" /\ try' = 0 /\ answer' = <<>> /\ UNCHANGED <<step, attempt, params>>
      /\ \/ pc' = "raised" /\ UNCHANGED <<result, judged>>
         \/ /\ \A n \in DOMAIN output : output[n] # Error
            /\ result' = output /\ judged' = Append(judged, output) /\ pc' = "sla"
  BY DEF Crawl
<1>2. /\ step \in StepConfig /\ attempt \in 0 .. step.sla.retries /\ step.sla.retries \in Nat
      /\ params \in Seq(Param) /\ judged \in Seq(Seq(Output))
      /\ answer \in [DOMAIN Outputs -> Answer] /\ Len(judged) = attempt
      /\ \A n \in 1 .. attempt : Failed(judged[n])
  BY <1>1, StepType DEF IInv, TypeOK, AnswerInv, CountInv, JudgedInv
<1>3. ParamsInv' /\ AnswerInv'
  BY <1>1 DEF ParamsInv, AnswerInv
<1>4. <<>> \in Seq(Answer)
  OBVIOUS
<1>5. CASE pc' = "raised" /\ UNCHANGED <<result, judged>>
  <2>1. TypeOK'
    BY <1>1, <1>4, <1>5 DEF IInv, TypeOK, Ended
  <2>2. CountInv' /\ JudgedInv'
    BY <1>1, <1>5, Quiet
  <2> QED
    BY <1>3, <2>1, <2>2 DEF IInv
<1>6. CASE /\ \A n \in DOMAIN output : output[n] # Error
           /\ result' = output /\ judged' = Append(judged, output) /\ pc' = "sla"
  <2>1. output \in Seq(Output)
    <3>1. \A n \in DOMAIN Outputs : output[n] \in Output
      BY <1>2, <1>6, PickType
    <3>2. output \in [1 .. Len(Outputs) -> Output] /\ Len(Outputs) \in Nat
      BY <1>2, <3>1, OutputsType
    <3> HIDE DEF output
    <3> QED
      BY <3>2, FunctionIsSeq
  <2> HIDE DEF output
  <2>2. /\ judged' \in Seq(Seq(Output)) /\ Len(judged') = attempt + 1 /\ judged' # <<>>
        /\ judged'[attempt + 1] = output /\ \A n \in 1 .. attempt : judged'[n] = judged[n]
    BY <1>2, <1>6, <2>1, JudgedAppend
  <2>3. TypeOK'
    BY <1>1, <1>2, <1>4, <1>6, <2>1, <2>2 DEF IInv, TypeOK
  <2>4. CountInv'
    BY <1>1, <1>6, <2>2 DEF CountInv
  <2>5. JudgedInv'
    <3>1. \A n \in 1 .. attempt : Failed(judged[n])'
      BY <1>1, <1>2, <2>2 DEF Failed, Checked
    <3> QED
      BY <1>1, <1>2, <1>6, <2>2, <3>1 DEF JudgedInv
  <2> QED
    BY <1>3, <2>3, <2>4, <2>5 DEF IInv
<1> QED
  BY <1>1, <1>5, <1>6

(* The SLA is judged on the outputs that were picked last.                   *)
LEMMA HandleSlaInv == ASSUME IInv, HandleSla PROVE IInv'
<1> USE DEF Goto
<1>1. /\ pc = "sla" /\ UNCHANGED <<step, try, params, answer, result, judged>>
      /\ \/ /\ Checked => Found = step.sla.equals /\ Found # Error
            /\ attempt' = attempt /\ pc' = "returned"
         \/ attempt' = attempt /\ pc' = "raised"
         \/ /\ Checked /\ Found # Error /\ Found # step.sla.equals
            /\ \/ attempt < step.sla.retries /\ attempt' = attempt + 1 /\ pc' = "eval"
               \/ ~ (attempt < step.sla.retries) /\ attempt' = attempt /\ pc' = "asserted"
  <2>0. step.sla.equals # Error
    BY StepType DEF IInv, TypeOK, Value, Strings, Object, Braced, Absent, Error
  <2>1. CASE ~ Checked
    BY <2>1 DEF HandleSla, HandleSlaThen
  <2>2. CASE Checked /\ Found = Error
    BY <2>0, <2>2 DEF HandleSla, HandleSlaThen
  <2>3. CASE Checked /\ Found # Error /\ Found = step.sla.equals
    BY <2>3 DEF HandleSla, HandleSlaThen
  <2>4. CASE Checked /\ Found # Error /\ Found # step.sla.equals
    BY <2>4 DEF HandleSla, HandleSlaThen, RetryWhile
  <2> QED
    BY <2>1, <2>2, <2>3, <2>4
<1>2. /\ step \in StepConfig /\ attempt \in 0 .. step.sla.retries /\ step.sla.retries \in Nat
      /\ Len(judged) = attempt + 1 /\ judged \in Seq(Seq(Output))
      /\ result = judged[attempt + 1] /\ judged # <<>>
      /\ \A n \in 1 .. attempt : Failed(judged[n])
  <2>1. /\ step \in StepConfig /\ attempt \in 0 .. step.sla.retries /\ step.sla.retries \in Nat
        /\ Len(judged) = attempt + 1 /\ judged \in Seq(Seq(Output))
    BY <1>1, StepType DEF IInv, TypeOK, CountInv
  <2>2. judged # <<>>
    BY <2>1
  <2> QED
    BY <2>1, <2>2 DEF IInv, JudgedInv
<1>3. /\ Found = step.sla.equals /\ Found # Error =>
           judged[attempt + 1] # <<>> /\ FormatField(judged[attempt + 1][1]) = step.sla.equals
      /\ Checked /\ Found # Error /\ Found # step.sla.equals => Failed(judged[attempt + 1])
  BY <1>2 DEF Found, Failed
<1>4. TypeOK'
  BY <1>1, <1>2 DEF IInv, TypeOK, Ended
<1>5. CountInv'
  <2>1. CASE pc' = "asserted"
    <3>1. attempt' = attempt /\ attempt = step.sla.retries /\ Failed(judged[attempt + 1])
      BY <1>1, <1>2, <1>3, <2>1
    <3> QED
      BY <1>1, <1>2, <2>1, <3>1 DEF CountInv, Failed, Checked
  <2>2. CASE pc' # "asserted"
    BY <1>1, <1>2, <2>2 DEF CountInv
  <2> QED
    BY <2>1, <2>2
<1>6. JudgedInv'
  <2>1. \A n \in 1 .. attempt' : Failed(judged[n])
    BY <1>1, <1>2, <1>3
  <2>2. \A n \in 1 .. attempt' : Failed(judged[n])'
    BY <1>1, <2>1 DEF Failed, Checked
  <2>3. pc' = "returned" /\ Checked =>
          judged[attempt' + 1] # <<>> /\ FormatField(judged[attempt' + 1][1]) = step.sla.equals
    BY <1>1, <1>3
  <2>4. Checked' <=> Checked
    BY <1>1 DEF Checked
  <2>5. judged' = judged /\ result' = result /\ step' = step
    BY <1>1
  <2>6. result = IF judged = <<>> THEN <<>> ELSE judged[Len(judged)]
    BY DEF IInv, JudgedInv
  <2> QED
    BY <2>2, <2>3, <2>4, <2>5, <2>6 DEF JudgedInv
<1>7. ParamsInv' /\ AnswerInv'
  BY <1>1 DEF ParamsInv, AnswerInv
<1> QED
  BY <1>4, <1>5, <1>6, <1>7 DEF IInv

(* Every step keeps the invariant.                                           *)
LEMMA StepInv == IInv /\ [Next]_vars => IInv'
<1> SUFFICES ASSUME IInv, [Next]_vars
             PROVE  IInv'
  OBVIOUS
<1> USE DEF Goto
<1>t. /\ step \in StepConfig /\ attempt \in Nat /\ try \in 0 .. 3 /\ judged \in Seq(Seq(Output))
      /\ step.inputs \in Seq(Definition) /\ Len(step.inputs) \in Nat
      /\ DOMAIN step.inputs = 1 .. Len(step.inputs) /\ Len(judged) \in Nat
  BY StepType DEF IInv, TypeOK
<1>1. CASE ResolveOptions
  <2>1. TypeOK'
    BY <1>1 DEF ResolveOptions, IInv, TypeOK, Ended
  <2>2. CountInv' /\ JudgedInv'
    BY <1>1, Quiet DEF ResolveOptions
  <2>3. ParamsInv' /\ AnswerInv'
    BY <1>1 DEF ResolveOptions, ParamsInv, AnswerInv
  <2> QED
    BY <2>1, <2>2, <2>3 DEF IInv
<1>2. CASE DummyStep \/ HeatStep \/ NovaStep \/ Setup
  <2>1. pc = "setup" /\ pc' \in {"raised", "eval"}
        /\ UNCHANGED <<step, attempt, try, params, answer, result, judged>>
    BY <1>2 DEF DummyStep, HeatStep, NovaStep, Setup, Raises
  <2>2. TypeOK'
    BY <2>1 DEF IInv, TypeOK, Ended
  <2>3. CountInv' /\ JudgedInv'
    BY <2>1, Quiet
  <2>4. ParamsInv' /\ AnswerInv'
    BY <2>1 DEF ParamsInv, AnswerInv
  <2> QED
    BY <2>2, <2>3, <2>4 DEF IInv
<1>3. CASE EvalInput
  <2>1. /\ pc = "eval" /\ params' = [n \in DOMAIN step.inputs |-> Evaluate(step.inputs[n])]
        /\ pc' \in {"load", "raised"}
        /\ pc' = "load" => \A n \in DOMAIN params' : ~ Missing(params'[n])
        /\ UNCHANGED <<step, attempt, try, answer, result, judged>>
    BY <1>3 DEF EvalInput, EvalInputUnless
  <2>2. params' \in [1 .. Len(step.inputs) -> Param]
    BY <1>t, <2>1, EvaluateType
  <2>3. params' \in Seq(Param)
    BY <1>t, <2>2, FunctionIsSeq
  <2>4. TypeOK'
    BY <2>1, <2>3 DEF IInv, TypeOK, Ended
  <2>5. CountInv' /\ JudgedInv'
    BY <2>1, Quiet
  <2>6. ParamsInv' /\ AnswerInv'
    BY <2>1 DEF ParamsInv, AnswerInv, Evaluate
  <2> QED
    BY <2>4, <2>5, <2>6 DEF IInv
<1>4. CASE LoadFile
  <2>1. /\ pc = "load" /\ pc' \in {"request", "load", "raised"} /\ try' \in 0 .. 3
        /\ UNCHANGED <<step, attempt, params, answer, result, judged>>
    BY <1>4, <1>t, TryAgainType DEF LoadFile
  <2>2. TypeOK'
    BY <2>1 DEF IInv, TypeOK, Ended
  <2>3. CountInv' /\ JudgedInv'
    BY <2>1, Quiet
  <2>4. ParamsInv' /\ AnswerInv'
    BY <2>1 DEF IInv, ParamsInv, AnswerInv, Evaluate
  <2> QED
    BY <2>2, <2>3, <2>4 DEF IInv
<1>5. CASE Call \/ FormData
  <2>1. /\ pc = "request" /\ pc' \in {"load", "raised", "crawl"} /\ try' \in 0 .. 3
        /\ pc' = "crawl" => answer' \in [DOMAIN Outputs -> Answer]
        /\ pc' # "crawl" => answer' = answer
        /\ UNCHANGED <<step, attempt, params, result, judged>>
    <3>1. JsonValue \subseteq Answer
      BY DEF JsonValue, Answer, Value, Strings, Object
    <3>2. [DOMAIN Outputs -> JsonValue] \subseteq [DOMAIN Outputs -> Answer]
          /\ [DOMAIN Outputs -> XmlValue] \subseteq [DOMAIN Outputs -> Answer]
      BY <3>1, XmlValueType
    <3>3. CASE Unanswered
      BY <3>3, <1>5, TryAgainType DEF Call, FormData, Unanswered
    <3>4. CASE Answered([DOMAIN Outputs -> JsonValue]) \/ Answered([DOMAIN Outputs -> XmlValue])
      BY <3>2, <3>4, <1>5, <1>t DEF Call, FormData, Answered
    <3> QED
      BY <3>3, <3>4, <1>5 DEF Call, FormData
  <2>2. answer' \in Seq(Answer)
    BY <1>t, <2>1, OutputsType, FunctionIsSeq DEF IInv, TypeOK
  <2>3. TypeOK'
    BY <2>1, <2>2 DEF IInv, TypeOK, Ended
  <2>4. CountInv' /\ JudgedInv'
    BY <2>1, Quiet
  <2>5. ParamsInv' /\ AnswerInv'
    BY <2>1 DEF IInv, ParamsInv, AnswerInv, Outputs, Evaluate
  <2> QED
    BY <2>3, <2>4, <2>5 DEF IInv
<1>6. CASE Crawl
  BY <1>6, CrawlInv
<1>7. CASE HandleSla
  BY <1>7, HandleSlaInv
<1>8. CASE UNCHANGED vars
  BY <1>8 DEF vars, IInv, TypeOK, CountInv, JudgedInv, ParamsInv, AnswerInv, Failed, Checked,
              Outputs, Evaluate
<1> QED
  BY <1>1, <1>2, <1>3, <1>4, <1>5, <1>6, <1>7, <1>8 DEF Next, Gone

(* Tries, retries, answers and record agree at every place of the two loops. *)
THEOREM Inductive == Spec => []IInv
  BY InitInv, StepInv, PTL DEF Spec

(**************************** the theorems **********************************)

(* The retries, the tries and what is passed on stay within their types.     *)
THEOREM TypeCorrect == Spec => []TypeOK
<1>1. IInv => TypeOK
  BY DEF IInv
<1> QED
  BY Inductive, <1>1, PTL

(* A call of run() ends with the verdict that its answers deserve, through   *)
(* both of its retry loops.                                                  *)
THEOREM VerdictDeserved == Spec => []VerdictIsDeserved
<1>1. IInv => VerdictIsDeserved
  <2> SUFFICES ASSUME IInv
               PROVE  VerdictIsDeserved
    OBVIOUS
  <2>1. /\ step \in StepConfig /\ attempt \in Nat /\ step.sla.retries \in Nat
        /\ judged \in Seq(Seq(Output)) /\ Len(judged) \in Nat /\ DOMAIN judged = 1 .. Len(judged)
        /\ step.sla.equals \in Value \cup {Absent}
    BY StepType, LenProperties DEF IInv, TypeOK
  <2>2. Last(judged) = judged[Len(judged)]
    BY DEF Last
  <2>3. CASE pc = "returned"
    <3>1. Len(judged) = attempt + 1 /\ judged # <<>>
      BY <2>1, <2>3 DEF IInv, CountInv
    <3>2. ASSUME Checked, step.sla.equals # "empty"
          PROVE  Meets(Last(judged))
      <4>1. /\ Last(judged) # <<>> /\ FormatField(Last(judged)[1]) = step.sla.equals
        BY <2>2, <2>3, <3>1, <3>2 DEF IInv, JudgedInv
      <4>2. step.sla.equals # Error
        BY <2>1 DEF Value, Strings, Object, Braced, Absent, Error
      <4>3. Last(judged)[1] = step.sla.equals
        BY <3>2, <4>1, <4>2 DEF FormatField
      <4> QED
        BY <4>1, <4>3 DEF Meets
    <3> QED
      BY <2>2, <2>3, <3>1, <3>2 DEF IInv, JudgedInv, VerdictIsDeserved
  <2>4. CASE pc = "asserted"
    <3>1. /\ Len(judged) = attempt + 1 /\ attempt = step.sla.retries /\ judged # <<>>
          /\ Failed(judged[attempt + 1])
      BY <2>1, <2>4 DEF IInv, CountInv
    <3>2. \A n \in DOMAIN judged : Failed(judged[n])
      BY <2>1, <3>1 DEF IInv, JudgedInv
    <3>3. ASSUME step.sla.equals # "falsy", NEW n \in DOMAIN judged
          PROVE  ~ Meets(judged[n])
      <4>1. Checked /\ judged[n] # <<>> /\ FormatField(judged[n][1]) # step.sla.equals
        BY <3>2, <3>3 DEF Failed
      <4>2. judged[n] \in Seq(Output)
        BY <2>1, <3>3, ElementOfSeq
      <4>3. judged[n][1] \in Output
        BY <4>1, <4>2, EmptySeq, LenProperties, ElementOfSeq
      <4>4. judged[n][1] \notin {"falsy", "None", Absent} =>
              FormatField(judged[n][1]) = judged[n][1]
        BY DEF FormatField
      <4>5. judged[n][1] # "None" /\ judged[n][1] # Absent
        BY <4>3 DEF Output, Value, Strings, Object, Braced, Absent
      <4> QED
        BY <3>3, <4>1, <4>4, <4>5 DEF Meets
    <3> QED
      BY <2>2, <2>4, <3>1, <3>2, <3>3 DEF IInv, JudgedInv, VerdictIsDeserved, Failed
  <2>5. CASE pc \notin {"returned", "asserted"}
    BY <2>2, <2>5 DEF IInv, JudgedInv, VerdictIsDeserved
  <2> QED
    BY <2>3, <2>4, <2>5
<1> QED
  BY Inductive, <1>1, PTL

(* No request leaves without its inputs, or with another value than their    *)
(* definitions denote, unless utils.format() loses a part of them.           *)
THEOREM RequestGiven == Spec => []RequestIsGiven
<1>1. IInv => RequestIsGiven
  <2> SUFFICES ASSUME IInv, pc = "request", NEW n \in DOMAIN step.inputs
               PROVE  /\ ~ Missing(params[n])
                      /\ Lossless(step.inputs[n]) => params[n] = Denoted(step.inputs[n])
    BY DEF RequestIsGiven
  <2>1. params[n] = Evaluate(step.inputs[n]) /\ ~ Missing(params[n])
    BY DEF IInv, ParamsInv
  <2>2. step.inputs[n] \in Definition
    BY StepType, ElementOfSeq DEF IInv, TypeOK
  <2> QED
    BY <2>1, <2>2, EvaluateIsGiven
<1> QED
  BY Inductive, <1>1, PTL
=============================================================================
