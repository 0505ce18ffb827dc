-------------------------- MODULE LinkManageProofs --------------------------
(***************************************************************************)
(* The two views of OpretryLinkManage agree in every reachable state, and  *)
(* no operator loses a link while its communicator stays registered.       *)
(***************************************************************************)
EXTENDS LinkManage, TLAPS

(* The provers a leaf is tried with that does not name one itself.         *)
USE ZenonT(40), SMTT(60)

\* The inductive invariant: both views know the same communicators, and for
\* each of them the group's view is the union of the tags' lists.
ViewsAgree ==
  /\ DOMAIN groupAllRemoteRankList = DOMAIN allRemoteRankList
  /\ GroupIsUnionOfTags

\* Registering a list under one tag of one communicator adds it, and nothing
\* else, to the union of that communicator's tags.
LEMMA UnionWith ==
  ASSUME NEW f, NEW t, NEW v,
         t \notin DOMAIN f
  PROVE  UNION {With(f, t, v)[u] : u \in DOMAIN With(f, t, v)}
           = (UNION {f[u] : u \in DOMAIN f}) \cup v
  BY DEF With

\* Init establishes the agreement.
LEMMA ViewsAgreeInit == Init => ViewsAgree
  BY DEF Init, ViewsAgree, GroupIsUnionOfTags

\* Every method preserves the agreement.
LEMMA ViewsAgreeNext == ViewsAgree /\ [Next]_vars => ViewsAgree'
<1> SUFFICES ASSUME ViewsAgree, [Next]_vars PROVE ViewsAgree'
  OBVIOUS
<1> USE DEF ViewsAgree, GroupIsUnionOfTags
<1>1. ASSUME NEW i \in Identifiers, NEW t \in Tags, NEW l \in RankLists,
             AddIdentifier(i, t, l)
      PROVE  ViewsAgree'
  BY <1>1, SMTT(60) DEF AddIdentifier, With
<1>2. ASSUME NEW i \in Identifiers, NEW t \in Tags, NEW l \in RankLists,
             AddTag(i, t, l)
      PROVE  ViewsAgree'
  <2>1. UNION {With(allRemoteRankList[i], t, l)[u] :
                 u \in DOMAIN With(allRemoteRankList[i], t, l)}
          = (UNION {allRemoteRankList[i][u] : u \in DOMAIN allRemoteRankList[i]}) \cup l
    BY <1>2, UnionWith, SMTT(60) DEF AddTag
  <2> QED
    BY <1>2, <2>1, SMTT(60) DEF AddTag
<1>3. ASSUME NEW i \in Identifiers, NEW t \in Tags, NEW l \in RankLists,
             NEW incre \in BOOLEAN, AddToTag(i, t, l, incre)
      PROVE  ViewsAgree'
  BY <1>3, SMTT(60) DEF AddToTag
<1>4. ASSUME NEW i \in Identifiers, DeleteLinkInfoByIdentifier(i)
      PROVE  ViewsAgree'
  BY <1>4, SMTT(60) DEF DeleteLinkInfoByIdentifier, Restrict
<1>5. CASE UNCHANGED vars
  BY <1>5, SMTT(60) DEF vars
<1> QED
  BY <1>1, <1>2, <1>3, <1>4, <1>5, SMTT(60) DEF Next,
     AddLinkInfoByIdentifier

\* In every behaviour of the registry the group's view of a communicator is
\* the union of its operators' lists (GroupIsUnionOfTags), whatever the sets
\* of communicators, tags and ranks.
THEOREM GroupViewIsExact == Spec => []GroupIsUnionOfTags
<1>1. ViewsAgree => GroupIsUnionOfTags
  BY DEF ViewsAgree
<1> QED
  BY <1>1, ViewsAgreeInit, ViewsAgreeNext, PTL DEF Spec

-----------------------------------------------------------------------------
\* A communicator's lists, keyed by the tags seen so far.
TagLists == UNION {[T -> RankLists] : T \in SUBSET Tags}

\* The same as TypeOK, without its existential quantifiers.
Typed ==
  /\ DOMAIN allRemoteRankList \subseteq Identifiers
  /\ groupAllRemoteRankList \in [DOMAIN allRemoteRankList -> RankLists]
  /\ allRemoteRankList = [i \in DOMAIN allRemoteRankList |-> allRemoteRankList[i]]
  /\ \A i \in DOMAIN allRemoteRankList : allRemoteRankList[i] \in TagLists

\* The domain of a map is the set TypeOK asks for.
LEMMA TypedIsTypeOK == Typed => TypeOK
<1> SUFFICES ASSUME Typed PROVE TypeOK
  OBVIOUS
<1>1. \A i \in DOMAIN allRemoteRankList :
        \E T \in SUBSET Tags : allRemoteRankList[i] \in [T -> RankLists]
  BY DEF Typed, TagLists
<1> QED
  BY <1>1 DEF Typed, TypeOK

\* A tag that is added, or whose list is merged with another, keeps the lists
\* of a communicator well formed.
LEMMA TagListsClosed ==
  ASSUME NEW f \in TagLists, NEW t \in Tags, NEW l \in RankLists
  PROVE  /\ With(f, t, l) \in TagLists
         /\ [f EXCEPT ![t] = @ \cup l] \in TagLists
<1>1. PICK T \in SUBSET Tags : f \in [T -> RankLists]
  BY DEF TagLists
<1>2. With(f, t, l) \in [T \cup {t} -> RankLists] /\ T \cup {t} \in SUBSET Tags
  BY <1>1 DEF With
<1>3. [f EXCEPT ![t] = @ \cup l] \in [T -> RankLists]
  BY <1>1 DEF RankLists
<1> QED
  BY <1>1, <1>2, <1>3 DEF TagLists

\* Every method keeps the maps well formed.
LEMMA TypedNext == Typed /\ [Next]_vars => Typed'
<1> SUFFICES ASSUME Typed, [Next]_vars PROVE Typed'
  OBVIOUS
<1> USE DEF Typed
<1>1. ASSUME NEW i \in Identifiers, NEW t \in Tags, NEW l \in RankLists,
             AddIdentifier(i, t, l)
      PROVE  Typed'
  <2>1. [u \in {t} |-> l] \in TagLists
    <3>1. {t} \in SUBSET Tags /\ [u \in {t} |-> l] \in [{t} -> RankLists]
      OBVIOUS
    <3> QED BY <3>1 DEF TagLists
  <2> QED BY <1>1, <2>1 DEF AddIdentifier, With
<1>2. ASSUME NEW i \in Identifiers, NEW t \in Tags, NEW l \in RankLists,
             AddTag(i, t, l)
      PROVE  Typed'
  <2>1. With(allRemoteRankList[i], t, l) \in TagLists
    BY <1>2, TagListsClosed DEF AddTag
  <2>2. groupAllRemoteRankList[i] \cup l \in RankLists
    BY <1>2 DEF AddTag, RankLists
  <2> QED BY <1>2, <2>1, <2>2 DEF AddTag
<1>3. ASSUME NEW i \in Identifiers, NEW t \in Tags, NEW l \in RankLists,
             NEW incre \in BOOLEAN, AddToTag(i, t, l, incre)
      PROVE  Typed'
  <2>1. [allRemoteRankList[i] EXCEPT ![t] = @ \cup l] \in TagLists
    BY <1>3, TagListsClosed DEF AddToTag
  <2>2. groupAllRemoteRankList[i] \cup l \in RankLists
    BY <1>3 DEF AddToTag, RankLists
  <2> QED BY <1>3, <2>1, <2>2 DEF AddToTag
<1>4. ASSUME NEW i \in Identifiers, DeleteLinkInfoByIdentifier(i)
      PROVE  Typed'
  BY <1>4 DEF DeleteLinkInfoByIdentifier, Restrict
<1>5. CASE UNCHANGED vars
  BY <1>5 DEF vars
<1> QED
  BY <1>1, <1>2, <1>3, <1>4, <1>5 DEF Next, AddLinkInfoByIdentifier

\* Both views know the same communicators, and list only their ranks, in
\* every reachable state (TypeOK): a deletion never leaves one of them behind.
THEOREM RegistryTypes == Spec => []TypeOK
<1>1. Init => Typed
  BY DEF Init, Typed
<1> QED
  BY <1>1, TypedNext, TypedIsTypeOK, PTL DEF Spec

-----------------------------------------------------------------------------
\* A method that leaves a communicator registered only adds to its lists.
LEMMA NextGrows ==
  ASSUME [Next]_vars,
         NEW i \in DOMAIN allRemoteRankList \cap DOMAIN allRemoteRankList',
         NEW t \in DOMAIN allRemoteRankList[i]
  PROVE  /\ t \in DOMAIN allRemoteRankList'[i]
         /\ allRemoteRankList[i][t] \subseteq allRemoteRankList'[i][t]
<1>1. ASSUME NEW j \in Identifiers, NEW u \in Tags, NEW l \in RankLists,
             NEW incre \in BOOLEAN, AddLinkInfoByIdentifier(j, u, l, incre)
      PROVE  /\ t \in DOMAIN allRemoteRankList'[i]
             /\ allRemoteRankList[i][t] \subseteq allRemoteRankList'[i][t]
  BY <1>1, SMTT(60) DEF AddLinkInfoByIdentifier, AddIdentifier,
     AddTag, AddToTag, With
<1>2. ASSUME NEW j \in Identifiers, DeleteLinkInfoByIdentifier(j)
      PROVE  allRemoteRankList'[i] = allRemoteRankList[i]
  BY <1>2 DEF DeleteLinkInfoByIdentifier, Restrict
<1>3. CASE UNCHANGED vars
  BY <1>3 DEF vars
<1> QED
  BY <1>1, <1>2, <1>3 DEF Next

\* While a communicator stays registered no operator of it loses a link
\* (TagListOnlyGrows), whatever is registered or deleted in between.
THEOREM LinksOnlyGrow == Spec => TagListOnlyGrows
<1>1. [Next]_vars =>
        [\A i \in DOMAIN allRemoteRankList \cap DOMAIN allRemoteRankList' :
           \A t \in DOMAIN allRemoteRankList[i] :
             /\ t \in DOMAIN allRemoteRankList'[i]
             /\ allRemoteRankList[i][t] \subseteq allRemoteRankList'[i][t]]_vars
  BY NextGrows
<1> QED
  BY <1>1, PTL DEF Spec, TagListOnlyGrows
=============================================================================
