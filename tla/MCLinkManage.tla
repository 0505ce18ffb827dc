---------------------------- MODULE MCLinkManage ----------------------------
EXTENDS LinkManage

\* Only the ranks and the tags are interchangeable in every property.
Symmetry == Permutations(RemoteRanks) \cup Permutations(Tags)
=============================================================================
