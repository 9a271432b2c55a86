------------------------------ MODULE MCRunner ------------------------------
(* Instances of Runner for TLC. *)
EXTENDS Runner

(* all but the two largest: a pre-start action has left when the others start, *)
(* and what it put is in the pipe in the smaller configurations as well        *)
Configurations == {c \in SUBSET Action : ~ {"pre", "single", "periodic"} \subseteq c}
=============================================================================
