---- MODULE MCHybridClock ----
(***************************************************************************)
(* A profiler and another thread on one clock.                             *)
(***************************************************************************)
EXTENDS HybridClock

\* A stamp from ahead of the counter's first tick: behind, at and beyond the
\* physical time of the calls that witness it.
MCWitnessed == {[wall |-> 2, logical |-> 1]}
====
