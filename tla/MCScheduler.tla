----------------------------- MODULE MCScheduler -----------------------------
(* Small instances of Scheduler for TLC.                                    *)
EXTENDS Scheduler, TLC

CONSTANTS d1, d2, w1, w2, h1, h2, h3, r1, r2, c1, c2

OneList == <<d1>>
TwoList == <<d1, d2>>
EachItsHost == [d \in Downloads |-> d]
ThreadSymmetry ==
  UNION {Permutations(S) : S \in {Workers, Helpers, Reconnectors, Clients}}
==============================================================================
