------------------------------- MODULE MCTask -------------------------------
(* Suites for TLC. *)
EXTENDS Task

Of(steps, parallel, n) == [steps |-> steps, parallel |-> parallel, contexts |-> n, meets |-> TRUE]
Unmet == [steps |-> <<"plain">>, parallel |-> FALSE, contexts |-> 1, meets |-> FALSE]

Upto2(S) == {<<>>} \cup {<<a>> : a \in S} \cup {<<a, b>> : a, b \in S}

(* every test case of at most two steps, alone, in one or two contexts *)
SingleCases == {<<Of(steps, par, n)>> : steps \in Upto2(StepKind), par \in BOOLEAN, n \in 1 .. 2}

(* two steps that nothing is wrong with, in parallel *)
PlainInParallel == {<<Of(<<"plain", "plain">>, TRUE, 1)>>}

(* a case that may go wrong in some way, then a plain one; unmet cases *)
First == {Of(<<a, "plain">>, par, 1) : a \in StepKind, par \in BOOLEAN} \cup {Unmet}
Second == {Of(<<"plain">>, FALSE, 1), Of(<<"plain", "plain">>, TRUE, 0), Unmet}
Pairs == First \X Second

AllSuites == SingleCases \cup Pairs
=============================================================================
