-------------------------- MODULE MCHDCommunicate --------------------------
EXTENDS HDCommunicate

CONSTANTS w1, w2, r1, r2

TwoWords == {w1, w2}
OneReader == {r1}
TwoReaders == {r1, r2}
=============================================================================
