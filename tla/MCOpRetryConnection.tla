------------------------ MODULE MCOpRetryConnection ------------------------
(* Small instances of the set-up of the retry sockets for TLC.             *)
EXTENDS OpRetryConnection, TLC

CONSTANTS r0, r1, r2

MCRanks == {r0, r1, r2}

(* The ranks other than the root are interchangeable.                      *)
MCSymmetry == Permutations({r1, r2})

=============================================================================
