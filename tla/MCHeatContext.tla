---------------------------- MODULE MCHeatContext ----------------------------
(* Two contexts, in one test case and in two. *)
EXTENDS HeatContext

CONSTANTS c1, c2

TogetherOrApart == {<< <<c1, c2>> >>, << <<c1>>, <<c2>> >>}
=============================================================================
