---------------------------- MODULE RowPartition ----------------------------
(***************************************************************************)
(* How linear.rs divides nr rows (or vectors) among n threads.             *)
(***************************************************************************)
EXTENDS Naturals

PerThread(nr, n) == (nr + n - 1) \div n

PartStart(t, nr, n) == t * PerThread(nr, n)

PartEnd(t, nr, n) ==
    IF PartStart(t, nr, n) + PerThread(nr, n) < nr
    THEN PartStart(t, nr, n) + PerThread(nr, n) ELSE nr

\* Thread t returns early when its part is empty (where the code looks).
Part(t, nr, n) == PartStart(t, nr, n)..(PartEnd(t, nr, n) - 1)

\* What re - rs is when the code does not look: below zero it wraps.
Underflows(t, nr, n) == PartStart(t, nr, n) > PartEnd(t, nr, n)
=============================================================================
