----------------------------- MODULE MCOpRetry -----------------------------
EXTENDS OpRetry

MCTags == {"ar", "sr"}

Coll(tag, index) == [tag |-> tag, index |-> index, isSendRecv |-> FALSE,
                     srcRank |-> 0, detRank |-> 0]

OneCollective == [r \in Ranks |-> <<Coll("ar", 1)>>]

P2P(tag, index, src, det) == [tag |-> tag, index |-> index,
                              isSendRecv |-> TRUE, srcRank |-> src,
                              detRank |-> det]

TwoCollectives == [r \in Ranks |-> <<Coll("ar", 1), Coll("ar", 2)>>]

(* 0 sends to 1 while 2 has entered the collective that comes next.        *)
SendAndCollective ==
    [r \in Ranks |-> IF r \in {0, 1} THEN <<P2P("sr", 1, 0, 1)>>
                                    ELSE <<Coll("ar", 1)>>]

AllPorts == BOOLEAN \X BOOLEAN

(* Each end of a link finds one of its two ports up.                       *)
OnePortUp == {<<TRUE, FALSE>>, <<FALSE, TRUE>>}

Sdma == {"sdma"}

AnyFault == {"sdma", "status12", "other"}

PortsFine == {<<TRUE, TRUE>>}

=============================================================================
