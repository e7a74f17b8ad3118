--------------------------- MODULE MCSegmentJobs ---------------------------
(* Two calls for one segment: a holder and a rival, each of which may call   *)
(* again.  Calls are interchangeable.                                        *)
EXTENDS SegmentJobs, TLC

CONSTANTS c1, c2

CallSymmetry == Permutations({c1, c2})

=============================================================================
