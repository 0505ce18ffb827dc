----------------------------- MODULE LinkManage -----------------------------
(***************************************************************************)
(* OpretryLinkManage: the registry, one per device, of the remote ranks a   *)
(* communicator reaches over RDMA.  It keeps two views of the same links:   *)
(* per operator tag (allRemoteRankList_) and per communicator               *)
(* (groupAllRemoteRankList_).  A retry consults the first, a resume the     *)
(* second.  Every method holds opretryLinkMutex_, so each is one action.    *)
(***************************************************************************)
EXTENDS TLC, Functions

CONSTANTS Identifiers,     \* communicator names
          Tags,            \* operator tags
          RemoteRanks      \* ranks of the communicator

VARIABLES allRemoteRankList,       \* identifier -> tag -> remote ranks
          groupAllRemoteRankList   \* identifier -> remote ranks

vars == <<allRemoteRankList, groupAllRemoteRankList>>

\* Order and repetition inside a list are never read, so a list is a set.
RankLists == SUBSET RemoteRanks

\* Both views know the same communicators, and list only their ranks: a
\* deletion takes a communicator out of both.
TypeOK ==
  /\ \E I \in SUBSET Identifiers :
       /\ DOMAIN allRemoteRankList = I
       /\ groupAllRemoteRankList \in [I -> RankLists]
  /\ \A i \in DOMAIN allRemoteRankList :
       \E T \in SUBSET Tags : allRemoteRankList[i] \in [T -> RankLists]

Init ==
  /\ allRemoteRankList = [i \in {} |-> {}]
  /\ groupAllRemoteRankList = [i \in {} |-> {}]

\* f extended or overwritten at x
With(f, x, v) == [y \in DOMAIN f \cup {x} |-> IF y = x THEN v ELSE f[y]]

\* The identifier has no links yet: both views start from this list.
AddIdentifier(identifier, newTag, remoteRankList) ==
  /\ identifier \notin DOMAIN allRemoteRankList
  /\ allRemoteRankList' =
       With(allRemoteRankList, identifier, [t \in {newTag} |-> remoteRankList])
  /\ groupAllRemoteRankList' =
       With(groupAllRemoteRankList, identifier, remoteRankList)

\* A tag seen for the first time: its list is recorded and joins the group's.
AddTag(identifier, newTag, remoteRankList) ==
  /\ identifier \in DOMAIN allRemoteRankList
  /\ newTag \notin DOMAIN allRemoteRankList[identifier]
  /\ allRemoteRankList' =
       [allRemoteRankList EXCEPT ![identifier] = With(@, newTag, remoteRankList)]
  /\ groupAllRemoteRankList' =
       [groupAllRemoteRankList EXCEPT ![identifier] = @ \cup remoteRankList]

\* Mutant: the group's view is forgotten on the incremental path.
AddToTag_NoGroup(identifier, newTag, remoteRankList, incre) ==
  /\ identifier \in DOMAIN allRemoteRankList
  /\ newTag \in DOMAIN allRemoteRankList[identifier]
  /\ incre
  /\ allRemoteRankList' =
       [allRemoteRankList EXCEPT ![identifier][newTag] = @ \cup remoteRankList]
  /\ UNCHANGED groupAllRemoteRankList

\* Mutant: a repeated registration replaces the tag's list, and the group's
\* view follows.
AddToTag_Replace(identifier, newTag, remoteRankList, incre) ==
  LET lists == [allRemoteRankList[identifier] EXCEPT ![newTag] = remoteRankList]
  IN  /\ identifier \in DOMAIN allRemoteRankList
      /\ newTag \in DOMAIN allRemoteRankList[identifier]
      /\ allRemoteRankList' = [allRemoteRankList EXCEPT ![identifier] = lists]
      /\ groupAllRemoteRankList' =
           [groupAllRemoteRankList EXCEPT ![identifier] = UNION Range(lists)]

\* A known tag: links built incrementally are merged, a repeated registration
\* is ignored.
AddToTag(identifier, newTag, remoteRankList, incre) ==
  /\ identifier \in DOMAIN allRemoteRankList
  /\ newTag \in DOMAIN allRemoteRankList[identifier]
  /\ incre
  /\ allRemoteRankList' =
       [allRemoteRankList EXCEPT ![identifier][newTag] = @ \cup remoteRankList]
  /\ groupAllRemoteRankList' =
       [groupAllRemoteRankList EXCEPT ![identifier] = @ \cup remoteRankList]

\* Mutant: only the per-tag view is deleted.
DeleteLinkInfoByIdentifier_TagsOnly(identifier) ==
  /\ identifier \in DOMAIN allRemoteRankList
  /\ allRemoteRankList' =
       Restrict(allRemoteRankList, DOMAIN allRemoteRankList \ {identifier})
  /\ UNCHANGED groupAllRemoteRankList

DeleteLinkInfoByIdentifier(identifier) ==
  /\ identifier \in DOMAIN allRemoteRankList
  /\ allRemoteRankList' =
       Restrict(allRemoteRankList, DOMAIN allRemoteRankList \ {identifier})
  /\ groupAllRemoteRankList' =
       Restrict(groupAllRemoteRankList, DOMAIN groupAllRemoteRankList \ {identifier})

AddLinkInfoByIdentifier(identifier, newTag, remoteRankList, incre) ==
  \/ AddIdentifier(identifier, newTag, remoteRankList)
  \/ AddTag(identifier, newTag, remoteRankList)
  \/ AddToTag(identifier, newTag, remoteRankList, incre)

Next ==
  \E identifier \in Identifiers :
    \/ \E newTag \in Tags, remoteRankList \in RankLists, incre \in BOOLEAN :
         AddLinkInfoByIdentifier(identifier, newTag, remoteRankList, incre)
    \/ DeleteLinkInfoByIdentifier(identifier)

Spec == Init /\ [][Next]_vars

-----------------------------------------------------------------------------
\* The two views agree: the ranks a resume re-checks for a communicator are
\* exactly the ranks some operator of it has a link to.  A rank missing from
\* the group's view would keep its link on a dead port after a resume.
GroupIsUnionOfTags ==
  \A i \in DOMAIN allRemoteRankList :
    groupAllRemoteRankList[i]
      = UNION {allRemoteRankList[i][t] : t \in DOMAIN allRemoteRankList[i]}

\* While a communicator stays registered, no operator ever loses a link it
\* had: a late registration without the incremental flag cannot shrink a list.
TagListOnlyGrows ==
  [][\A i \in DOMAIN allRemoteRankList \cap DOMAIN allRemoteRankList' :
       \A t \in DOMAIN allRemoteRankList[i] :
         /\ t \in DOMAIN allRemoteRankList'[i]
         /\ allRemoteRankList[i][t] \subseteq allRemoteRankList'[i][t]]_vars

=============================================================================
