------------------------- MODULE MCRankInfoDetect -------------------------
(* Small instances of the rank table exchange for TLC.                     *)
EXTENDS RankInfoDetect, TLC

CONSTANTS r0, r1, w0, w1

MCClients == {r0, r1}

MCWorkers == {w0, w1}

Same(v) == [c \in MCClients |-> v]

MCGood == [id |-> r0 :> 0 @@ r1 :> 1, size |-> Same(2), tls |-> Same("enable"),
           listed |-> MCClients, faults |-> 1]

(* A rank outside the white list, a rank with another size and TLS off,    *)
(* two ranks with one id, a third rank that never comes: with any of these *)
(* nothing else goes wrong.                                                *)
MCBad ==
    {[MCGood EXCEPT !.listed = {r0}],
     [MCGood EXCEPT !.size[r1] = 3, !.tls[r1] = "disable"],
     [MCGood EXCEPT !.id = Same(0), !.tls[r1] = "unknown"],
     [MCGood EXCEPT !.size = Same(3)]}

MCConfigs == {MCGood} \cup {[bad EXCEPT !.faults = 0] : bad \in MCBad}

=============================================================================
