---- MODULE MCGeneration ----
(***************************************************************************)
(* Generations of up to three prompt tokens and four new ones, through    *)
(* two layers and pages of two positions.                                  *)
(***************************************************************************)
EXTENDS Generation

\* The default script defines no should_skip_layer; another skips the second
\* layer; a third does so and raises afterwards, a fourth raises at once.
MCScripts ==
  {[defines |-> Undefined, raises |-> "never"],
   [defines |-> {1}, raises |-> "never"],
   [defines |-> {1}, raises |-> "last"],
   [defines |-> {1}, raises |-> "first"]}

MCPositions == 0 .. MaxPages * BlockSize - 1
====
