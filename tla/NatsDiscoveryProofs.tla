------------------------ MODULE NatsDiscoveryProofs ------------------------
(***************************************************************************)
(* Proofs about NatsDiscovery, for every broker, page size, number of      *)
(* changes and of failed requests.  The inductive invariant says where     *)
(* each part of what has been found comes from, each from a state the      *)
(* broker had during the discovery, though not all from the same; and that *)
(* a list which has been read to its end without an entry coming twice has *)
(* as many entries as the broker had, so that each one it misses is        *)
(* balanced by one that it has in vain.                                    *)
(***************************************************************************)
EXTENDS NatsDiscovery, FiniteSetTheorems, TLAPS

\* F was put together from the states D.
Sighted(F, D) ==
    /\ \A s \in DOMAIN F : \E b \in D : s \in DOMAIN b /\ F[s].subjects = b[s].subjects
    /\ \A s \in DOMAIN F : \A c \in F[s].consumers :
          \E b \in D : s \in DOMAIN b /\ c \in b[s].consumers

\* The entries of a list that all states of D have.
Stayed(D, l) == {n \in Entry : \A b \in D : n \in Entries(b, l)}

OnePage(D) == \A b \in D : \A l \in List : Cardinality(Entries(b, l)) <= PageSize

\* What F has of a list, if entries G were deleted from it.
Complete(F, D, G, l) ==
    /\ Cardinality(Stayed(D, l) \ Entries(F, l)) <= Cardinality(G \cap Entries(F, l))
    /\ OnePage(D) => Stayed(D, l) \subseteq Entries(F, l)

\* On a single page all streams and their subjects come from the same state.
AtOnce(F, D) ==
    OnePage(D) => \E b \in D : /\ DOMAIN F = DOMAIN b
                               /\ \A s \in DOMAIN F : F[s].subjects = b[s].subjects

WorldInv == at # "idle" => broker \in during /\ snapshot = NoSnapshot

FoundInv == at # "idle" => Sighted(found, during)

\* The consumers of these streams are yet to be listed.
PendingInv ==
    at # "idle" =>
        \A s \in DOMAIN found : at = "streams" \/ s \in pending \ {opened} =>
            found[s].consumers = {}

\* The list that is being read.
PageInv ==
    at \in {"streams", "consumers"} =>
        /\ ~twice => offset = Cardinality(Entries(found, opened))
        /\ Entries(found, opened) \ Entries(broker, opened) \subseteq gone[opened]
        /\ OnePage(during) => offset = 0

\* The lists that have been read.
ListsInv ==
    at \in {"open", "consumers"} /\ ~twice =>
        /\ AtOnce(found, during)
        /\ Complete(found, during, gone[NoStream], NoStream)
        /\ \A s \in DOMAIN found \ pending : Complete(found, during, gone[s], s)

SnapshotInv ==
    Discovered =>
        /\ during # {} /\ Sighted(found, during) /\ AtOnce(found, during)
        /\ Complete(found, during, gone[NoStream], NoStream)
        /\ \A s \in DOMAIN found : Complete(found, during, gone[s], s)
        /\ DOMAIN snapshot.nodes = NodesOf(found)
        /\ DOMAIN snapshot.edges = EdgesOf(found)

IInv == TypeOK /\ WorldInv /\ FoundInv /\ PendingInv /\ PageInv /\ ListsInv /\ SnapshotInv

-----------------------------------------------------------------------------
(* The graphs of the provider.                                             *)

\* Identities of different kinds are different, and have the parts they are made of.
LEMMA Identities ==
    /\ BrokerId[1] = "broker"
    /\ \A s : StreamId(s)[1] = "resource"
    /\ \A u : DestinationId(u)[1] = "destination"
    /\ \A s, c : ConsumerId(s, c)[1] = "consumer"
    /\ \A s, t : StreamId(s) = StreamId(t) => s = t
    /\ \A u, v : DestinationId(u) = DestinationId(v) => u = v
    /\ \A s, c, t, d : ConsumerId(s, c) = ConsumerId(t, d) => s = t /\ c = d
<1>1. BrokerId[1] = "broker"
  BY DEF BrokerId
<1>2. \A s : StreamId(s)[1] = "resource" /\ StreamId(s)[2] = s
  BY DEF StreamId
<1>3. \A u : DestinationId(u)[1] = "destination" /\ DestinationId(u)[2] = u
  BY DEF DestinationId
<1>4. \A s, c : /\ ConsumerId(s, c)[1] = "consumer"
                /\ ConsumerId(s, c)[2] = s /\ ConsumerId(s, c)[3] = c
  BY DEF ConsumerId
<1> QED
  BY <1>1, <1>2, <1>3, <1>4

\* What there is a node for.
LEMMA Nodes ==
    ASSUME NEW S
    PROVE  /\ BrokerId \in NodesOf(S)
           /\ \A s : StreamId(s) \in NodesOf(S) <=> s \in DOMAIN S
           /\ \A u : DestinationId(u) \in NodesOf(S)
                        <=> \E s \in DOMAIN S : u \in S[s].subjects
           /\ \A s, c : ConsumerId(s, c) \in NodesOf(S)
                           <=> s \in DOMAIN S /\ c \in S[s].consumers
           /\ \A n \in NodesOf(S) :
                 \/ n = BrokerId
                 \/ \E s : n = StreamId(s)
                 \/ \E u : n = DestinationId(u)
                 \/ \E s, c : n = ConsumerId(s, c)
<1>1. \A n : n \in NodesOf(S) <=>
                \/ n = BrokerId
                \/ \E s \in DOMAIN S : n = StreamId(s)
                \/ \E s \in DOMAIN S : \E u \in S[s].subjects : n = DestinationId(u)
                \/ \E s \in DOMAIN S : \E c \in S[s].consumers : n = ConsumerId(s, c)
  BY DEF NodesOf
<1>2. BrokerId \in NodesOf(S)
  BY <1>1
<1>3. ASSUME NEW s PROVE StreamId(s) \in NodesOf(S) <=> s \in DOMAIN S
  BY <1>1, Identities
<1>4. ASSUME NEW u
      PROVE  DestinationId(u) \in NodesOf(S) <=> \E s \in DOMAIN S : u \in S[s].subjects
  BY <1>1, Identities
<1>5. ASSUME NEW s, NEW c
      PROVE  ConsumerId(s, c) \in NodesOf(S) <=> s \in DOMAIN S /\ c \in S[s].consumers
  <2>1. ASSUME ConsumerId(s, c) \in NodesOf(S) PROVE s \in DOMAIN S /\ c \in S[s].consumers
    <3>1. \E t \in DOMAIN S : \E d \in S[t].consumers : ConsumerId(s, c) = ConsumerId(t, d)
      BY <1>1, <2>1, Identities
    <3> QED
      BY <3>1, Identities
  <2> QED
    BY <1>1, <2>1
<1> QED
  BY <1>1, <1>2, <1>3, <1>4, <1>5

CapturedBy(u, s) == [source |-> DestinationId(u), kind |-> "captured_by", target |-> StreamId(s)]
HasConsumer(s, c) == [source |-> StreamId(s), kind |-> "has_consumer", target |-> ConsumerId(s, c)]

\* What there is an edge for.
LEMMA Edges ==
    ASSUME NEW S
    PROVE  /\ \A s, u : CapturedBy(u, s) \in EdgesOf(S) <=> s \in DOMAIN S /\ u \in S[s].subjects
           /\ \A s, c : HasConsumer(s, c) \in EdgesOf(S)
                           <=> s \in DOMAIN S /\ c \in S[s].consumers
           /\ \A e \in EdgesOf(S) : \/ \E s, u : e = CapturedBy(u, s)
                                    \/ \E s, c : e = HasConsumer(s, c)
<1>1. \A e : e \in EdgesOf(S) <=>
                \/ \E s \in DOMAIN S : \E u \in S[s].subjects : e = CapturedBy(u, s)
                \/ \E s \in DOMAIN S : \E c \in S[s].consumers : e = HasConsumer(s, c)
  BY DEF EdgesOf, CapturedBy, HasConsumer
<1>2. \A s, u : /\ CapturedBy(u, s).source = DestinationId(u)
                /\ CapturedBy(u, s).target = StreamId(s)
                /\ CapturedBy(u, s).kind = "captured_by"
  BY DEF CapturedBy
<1>3. \A s, c : HasConsumer(s, c).kind = "has_consumer" /\ HasConsumer(s, c).target = ConsumerId(s, c)
  BY DEF HasConsumer
<1>4. ASSUME NEW s, NEW u
      PROVE  CapturedBy(u, s) \in EdgesOf(S) <=> s \in DOMAIN S /\ u \in S[s].subjects
  BY <1>1, <1>2, <1>3, Identities
<1>5. ASSUME NEW s, NEW c
      PROVE  HasConsumer(s, c) \in EdgesOf(S) <=> s \in DOMAIN S /\ c \in S[s].consumers
  <2>1. ASSUME HasConsumer(s, c) \in EdgesOf(S) PROVE s \in DOMAIN S /\ c \in S[s].consumers
    <3>1. \E t \in DOMAIN S : \E d \in S[t].consumers : HasConsumer(s, c) = HasConsumer(t, d)
      BY <1>1, <2>1, <1>2, <1>3
    <3>2. PICK t \in DOMAIN S : \E d \in S[t].consumers : HasConsumer(s, c) = HasConsumer(t, d)
      BY <3>1
    <3>3. PICK d \in S[t].consumers : HasConsumer(s, c) = HasConsumer(t, d)
      BY <3>2
    <3>4. ConsumerId(s, c) = ConsumerId(t, d)
      BY <1>3, <3>3
    <3> QED
      BY <3>4, Identities
  <2> QED
    BY <1>1, <2>1
<1> QED
  BY <1>1, <1>4, <1>5

\* Whatever the provider finds, its snapshot passes the constructors, and any two of
\* its snapshots agree on what their nodes are (normalize.go, identity.go): this is
\* what GraphAssumption and IdentityAssumption ask of a broker for the refresh.
THEOREM ProviderQualifies ==
    ASSUME NEW S, NEW T, NEW t \in Time, NEW u \in Time
    PROVE  /\ SnapshotAccepted(Normalized(S, t))
           /\ Consistent(Normalized(S, t), Normalized(T, u))
<1> DEFINE N == Normalized(S, t).nodes
           E == Normalized(S, t).edges
<1>1. /\ DOMAIN N = NodesOf(S)
      /\ \A n \in NodesOf(S) : /\ N[n].kind = n[1]
                               /\ n # BrokerId => N[n].broker = BrokerId
  BY DEF Normalized
<1>2. /\ DOMAIN E = EdgesOf(S)
      /\ \A e \in EdgesOf(S) : E[e] = [x \in {Technology} |-> [first |-> t, last |-> t]]
  BY DEF Normalized
<1> HIDE DEF N, E
<1>3. BrokerReferencesValid(N)
  BY <1>1, Nodes, Identities DEF BrokerReferencesValid, ProviderOwned
<1>4. \A e \in EdgesOf(S) : EdgeBuilds(e, N) /\ e.kind # "belongs_to"
  <2>1. ASSUME NEW s, NEW v, CapturedBy(v, s) \in EdgesOf(S)
        PROVE  EdgeBuilds(CapturedBy(v, s), N) /\ CapturedBy(v, s).kind # "belongs_to"
    <3>1. s \in DOMAIN S /\ v \in S[s].subjects
      BY <2>1, Edges
    <3>2. StreamId(s) \in NodesOf(S) /\ DestinationId(v) \in NodesOf(S)
      BY <3>1, Nodes
    <3> QED
      BY <1>1, <3>2, Identities DEF EdgeBuilds, IsAllowedEdgeEndpointPair, CapturedBy
  <2>2. ASSUME NEW s, NEW c, HasConsumer(s, c) \in EdgesOf(S)
        PROVE  EdgeBuilds(HasConsumer(s, c), N) /\ HasConsumer(s, c).kind # "belongs_to"
    <3>1. s \in DOMAIN S /\ c \in S[s].consumers
      BY <2>2, Edges
    <3>2. StreamId(s) \in NodesOf(S) /\ ConsumerId(s, c) \in NodesOf(S)
      BY <3>1, Nodes
    <3> QED
      BY <1>1, <3>2, Identities DEF EdgeBuilds, IsAllowedEdgeEndpointPair, HasConsumer
  <2> QED
    BY <2>1, <2>2, Edges
<1>5. \A e \in EdgesOf(S) : ValidEvidence(E[e])
  <2>1. t <= t
    BY TimeAssumption
  <2> QED
    BY <1>2, <2>1 DEF ValidEvidence
<1>6. SnapshotAccepted(Normalized(S, t))
  BY <1>2, <1>3, <1>4, <1>5 DEF SnapshotAccepted, SnapshotEdgesValid, N, E
<1>7. Consistent(Normalized(S, t), Normalized(T, u))
  BY DEF Consistent, Normalized
<1> QED
  BY <1>6, <1>7

-----------------------------------------------------------------------------
(* What is found.                                                          *)

\* What is added to the history of the broker takes nothing from what was sighted.
LEMMA SightedLater ==
    ASSUME NEW F, NEW D, NEW C, Sighted(F, D), D \subseteq C
    PROVE  Sighted(F, C)
BY DEF Sighted

\* What was put together of states has nothing that none of them has, and of its
\* streams each subject that all of them have.
LEMMA SightedExactly ==
    ASSUME NEW F, NEW D, D # {}, Sighted(F, D)
    PROVE  /\ NodesOf(F) \subseteq UNION {NodesOf(b) : b \in D}
           /\ EdgesOf(F) \subseteq UNION {EdgesOf(b) : b \in D}
           /\ \A s \in DOMAIN F : \A u : (\A b \in D : CapturedBy(u, s) \in EdgesOf(b))
                                            => CapturedBy(u, s) \in EdgesOf(F)
<1>1. \A s \in DOMAIN F : \E b \in D : s \in DOMAIN b /\ F[s].subjects = b[s].subjects
  BY DEF Sighted
<1>2. \A s \in DOMAIN F : \A c \in F[s].consumers :
         \E b \in D : s \in DOMAIN b /\ c \in b[s].consumers
  BY DEF Sighted
<1>3. ASSUME NEW n \in NodesOf(F) PROVE \E b \in D : n \in NodesOf(b)
  <2>1. CASE n = BrokerId
    BY <2>1, Nodes
  <2>2. ASSUME NEW s, n = StreamId(s) PROVE \E b \in D : n \in NodesOf(b)
    <3>1. s \in DOMAIN F
      BY <2>2, Nodes
    <3>2. PICK b \in D : s \in DOMAIN b
      BY <1>1, <3>1
    <3> QED
      BY <2>2, <3>2, Nodes
  <2>3. ASSUME NEW u, n = DestinationId(u) PROVE \E b \in D : n \in NodesOf(b)
    <3>1. PICK s \in DOMAIN F : u \in F[s].subjects
      BY <2>3, Nodes
    <3>2. PICK b \in D : s \in DOMAIN b /\ F[s].subjects = b[s].subjects
      BY <1>1
    <3> QED
      BY <2>3, <3>1, <3>2, Nodes
  <2>4. ASSUME NEW s, NEW c, n = ConsumerId(s, c) PROVE \E b \in D : n \in NodesOf(b)
    <3>1. s \in DOMAIN F /\ c \in F[s].consumers
      BY <2>4, Nodes
    <3>2. PICK b \in D : s \in DOMAIN b /\ c \in b[s].consumers
      BY <1>2, <3>1
    <3> QED
      BY <2>4, <3>2, Nodes
  <2> QED
    BY <2>1, <2>2, <2>3, <2>4, Nodes
<1>4. ASSUME NEW e \in EdgesOf(F) PROVE \E b \in D : e \in EdgesOf(b)
  <2>1. ASSUME NEW s, NEW u, e = CapturedBy(u, s) PROVE \E b \in D : e \in EdgesOf(b)
    <3>1. s \in DOMAIN F /\ u \in F[s].subjects
      BY <2>1, Edges
    <3>2. PICK b \in D : s \in DOMAIN b /\ F[s].subjects = b[s].subjects
      BY <1>1, <3>1
    <3> QED
      BY <2>1, <3>1, <3>2, Edges
  <2>2. ASSUME NEW s, NEW c, e = HasConsumer(s, c) PROVE \E b \in D : e \in EdgesOf(b)
    <3>1. s \in DOMAIN F /\ c \in F[s].consumers
      BY <2>2, Edges
    <3>2. PICK b \in D : s \in DOMAIN b /\ c \in b[s].consumers
      BY <1>2, <3>1
    <3> QED
      BY <2>2, <3>2, Edges
  <2> QED
    BY <2>1, <2>2, Edges
<1>5. ASSUME NEW s \in DOMAIN F, NEW u, \A b \in D : CapturedBy(u, s) \in EdgesOf(b)
      PROVE  CapturedBy(u, s) \in EdgesOf(F)
  <2>1. PICK b \in D : s \in DOMAIN b /\ F[s].subjects = b[s].subjects
    BY <1>1
  <2>2. u \in b[s].subjects
    BY <1>5, Edges
  <2> QED
    BY <2>1, <2>2, Edges
<1> QED
  BY <1>3, <1>4, <1>5

-----------------------------------------------------------------------------
(* Lists and their pages.                                                  *)

\* What is in a list.
LEMMA EntriesType ==
    ASSUME NEW F \in Streams, NEW l \in List
    PROVE  /\ Entries(F, l) \subseteq Entry
           /\ IsFiniteSet(Entries(F, l))
           /\ l = NoStream => Entries(F, l) = DOMAIN F
           /\ l \in DOMAIN F => l # NoStream /\ Entries(F, l) = F[l].consumers
<1>1. /\ DOMAIN F \subseteq StreamName
      /\ \A s \in DOMAIN F : F[s].consumers \subseteq ConsumerName
  BY DEF Streams, Stream
<1>2. IsFiniteSet(Entry)
  BY DiscoveryAssumption, FS_Union DEF Entry
<1>3. Entries(F, l) \subseteq Entry
  BY <1>1 DEF Entries, Entry
<1>4. IsFiniteSet(Entries(F, l))
  BY <1>2, <1>3, FS_Subset
<1> QED
  BY <1>1, <1>3, <1>4, DiscoveryAssumption DEF Entries

\* Of two finite sets of which the first is not larger than the second, no more of the
\* first is missing in the second than of the second in the first.
LEMMA Balance ==
    ASSUME NEW P, NEW Q, IsFiniteSet(P), IsFiniteSet(Q), Cardinality(P) <= Cardinality(Q)
    PROVE  Cardinality(P \ Q) <= Cardinality(Q \ P)
<1> DEFINE p == Cardinality(P)
           q == Cardinality(Q)
           both == Cardinality(P \cap Q)
           missing == Cardinality(P \ Q)
           vain == Cardinality(Q \ P)
<1>1. missing = p - both
  BY FS_Difference
<1>2. vain = q - both
  <2>1. P \cap Q = Q \cap P
    OBVIOUS
  <2>2. vain = q - Cardinality(Q \cap P)
    BY FS_Difference
  <2> QED
    BY <2>1, <2>2
<1>3. p \in Nat /\ q \in Nat /\ p <= q
  BY FS_CardinalityType
<1>4. both \in Nat
  BY FS_Intersection, FS_CardinalityType
<1> HIDE DEF p, q, both, missing, vain
<1>5. missing <= vain
  BY <1>1, <1>2, <1>3, <1>4
<1> QED
  BY <1>5 DEF missing, vain

LEMMA AtOnceLater ==
    ASSUME NEW F, NEW D, NEW C, AtOnce(F, D), D \subseteq C
    PROVE  AtOnce(F, C)
BY DEF AtOnce, OnePage

\* A list that was complete stays so when the history grows.
LEMMA CompleteLater ==
    ASSUME NEW F \in Streams, NEW D, NEW C, D \subseteq C, NEW G, NEW H, G \subseteq H,
           NEW l \in List, Complete(F, D, G, l)
    PROVE  Complete(F, C, H, l)
<1> DEFINE E == Entries(F, l)
<1>1. IsFiniteSet(E) /\ IsFiniteSet(Entry)
  BY EntriesType, DiscoveryAssumption, FS_Union DEF Entry
<1>2. Stayed(C, l) \subseteq Stayed(D, l)
  BY DEF Stayed
<1>3. IsFiniteSet(Stayed(D, l) \ E)
  <2>1. Stayed(D, l) \ E \in SUBSET Entry
    BY DEF Stayed
  <2> QED
    BY <1>1, <2>1, FS_Subset
<1>4. IsFiniteSet(H \cap E)
  BY <1>1, FS_Intersection
<1>5. /\ Cardinality(Stayed(C, l) \ E) <= Cardinality(Stayed(D, l) \ E)
      /\ IsFiniteSet(Stayed(C, l) \ E)
  <2>1. Stayed(C, l) \ E \in SUBSET (Stayed(D, l) \ E)
    BY <1>2
  <2> QED
    BY <1>3, <2>1, FS_Subset
<1>6. /\ Cardinality(G \cap E) <= Cardinality(H \cap E)
      /\ IsFiniteSet(G \cap E)
  <2>1. G \cap E \in SUBSET (H \cap E)
    OBVIOUS
  <2> QED
    BY <1>4, <2>1, FS_Subset
<1>7. Cardinality(Stayed(D, l) \ E) <= Cardinality(G \cap E)
  BY DEF Complete
<1>8. Cardinality(Stayed(C, l) \ E) <= Cardinality(H \cap E)
  <2>1. /\ Cardinality(Stayed(C, l) \ E) \in Nat /\ Cardinality(Stayed(D, l) \ E) \in Nat
        /\ Cardinality(G \cap E) \in Nat /\ Cardinality(H \cap E) \in Nat
    BY <1>3, <1>4, <1>5, <1>6, FS_CardinalityType
  <2> QED
    BY <1>5, <1>6, <1>7, <2>1
<1>9. OnePage(C) => Stayed(C, l) \subseteq E
  BY <1>2 DEF Complete, OnePage
<1> QED
  BY <1>8, <1>9 DEF Complete

\* A list of which nothing was read in between is as complete as before.
LEMMA CompleteSame ==
    ASSUME NEW F, NEW E, NEW D, NEW G, NEW l, Entries(E, l) = Entries(F, l)
    PROVE  Complete(F, D, G, l) => Complete(E, D, G, l)
BY DEF Complete

\* In a list that is not longer than a page, each entry has a position on the first.
LEMMA FirstPageHasAll ==
    ASSUME NEW names, IsFiniteSet(names), names \subseteq Nat, Cardinality(names) <= PageSize
    PROVE  Between(names, 0, 0 + PageSize) = names
<1>1. ASSUME NEW n \in names
      PROVE  0 <= Position(n, names) /\ Position(n, names) < 0 + PageSize
  <2> DEFINE M == {m \in names : m < n}
  <2>1. M \in SUBSET names /\ M # names
    OBVIOUS
  <2>2. /\ IsFiniteSet(M) /\ Cardinality(M) <= Cardinality(names)
        /\ Cardinality(M) # Cardinality(names)
    BY <2>1, FS_Subset
  <2>3. Cardinality(M) \in Nat /\ Cardinality(names) \in Nat
    BY <2>2, FS_CardinalityType
  <2>4. Position(n, names) = Cardinality(M)
    BY DEF Position
  <2> QED
    BY <2>2, <2>3, <2>4, DiscoveryAssumption
<1> QED
  BY <1>1 DEF Between

\* What a page does for the list that is being read.
LEMMA PageReceived ==
    ASSUME TypeOK, WorldInv, PageInv, at \in {"streams", "consumers"}, ReceivePage,
           NEW F \in Streams, Entries(F, opened) = Entries(found, opened) \cup Page
    PROVE  /\ offset' \in Nat /\ twice' \in BOOLEAN
           /\ Page \subseteq Entries(broker, opened)
           /\ ~twice' => ~twice /\ offset' = Cardinality(Entries(F, opened))
           /\ Entries(F, opened) \ Entries(broker, opened) \subseteq gone[opened]
           /\ MorePages => ~OnePage(during)
           /\ OnePage(during) => offset = 0 /\ Page = Entries(broker, opened)
           /\ ~MorePages /\ ~twice' => Complete(F, during, gone[opened], opened)
<1> DEFINE P == Entries(broker, opened)
           E == Entries(found, opened)
           Q == Entries(F, opened)
<1>1. /\ opened \in List /\ broker \in Streams /\ found \in Streams /\ broker \in during
      /\ offset \in Nat /\ twice \in BOOLEAN
  BY DEF TypeOK, WorldInv, List, Streams
<1>2. /\ IsFiniteSet(P) /\ IsFiniteSet(E) /\ IsFiniteSet(Q)
      /\ P \subseteq Entry /\ Q \subseteq Entry
  BY <1>1, EntriesType
<1>3. Page \subseteq P
  BY DEF Page, Between
<1>4. IsFiniteSet(Page)
  BY <1>2, <1>3, FS_Subset
<1>5. Cardinality(Page) \in Nat /\ Cardinality(P) \in Nat /\ Cardinality(E) \in Nat
  BY <1>2, <1>4, FS_CardinalityType
<1>6. offset' = offset + Cardinality(Page) /\ twice' = (twice \/ Page \cap E # {})
  BY DEF ReceivePage
<1>7. offset' \in Nat /\ twice' \in BOOLEAN
  BY <1>1, <1>5, <1>6
<1>8. ASSUME ~twice' PROVE ~twice /\ offset' = Cardinality(Q)
  <2>1. ~twice /\ E \cap Page = {}
    BY <1>6, <1>8
  <2>2. Cardinality(E \cup Page) = Cardinality(E) + Cardinality(Page) - Cardinality(E \cap Page)
    BY <1>2, <1>4, FS_Union
  <2>3. Cardinality(E \cap Page) = 0
    BY <2>1, FS_EmptySet
  <2>4. offset = Cardinality(E)
    BY <2>1 DEF PageInv
  <2> QED
    BY <1>5, <1>6, <2>1, <2>2, <2>3, <2>4
<1>9. Q \ P \subseteq gone[opened]
  BY <1>3 DEF PageInv
<1>10. ASSUME OnePage(during) PROVE Page = P /\ ~MorePages
  <2>1. Cardinality(P) <= PageSize /\ offset = 0
    BY <1>1, <1>10 DEF OnePage, PageInv
  <2>2. P \subseteq Nat
    BY <1>2, DiscoveryAssumption DEF Entry
  <2>3. Page = P
    BY <1>2, <2>1, <2>2, FirstPageHasAll DEF Page
  <2> QED
    BY <1>5, <2>1, <2>3 DEF MorePages
<1>11. ASSUME ~MorePages, ~twice' PROVE Complete(F, during, gone[opened], opened)
  <2> DEFINE S == Stayed(during, opened)
  <2>1. S \subseteq P
    BY <1>1 DEF Stayed
  <2>2. Cardinality(P) <= Cardinality(Q)
    <3>1. ~(offset' < Cardinality(P))
      BY <1>6, <1>11 DEF MorePages
    <3> QED
      BY <1>5, <1>7, <1>8, <1>11, <3>1
  <2>3. Cardinality(P \ Q) <= Cardinality(Q \ P)
    BY <1>2, <2>2, Balance
  <2>4. IsFiniteSet(P \ Q) /\ IsFiniteSet(gone[opened] \cap Q)
    BY <1>2, FS_Difference, FS_Intersection
  <2>5. Cardinality(S \ Q) <= Cardinality(P \ Q) /\ IsFiniteSet(S \ Q)
    <3>1. S \ Q \in SUBSET (P \ Q)
      BY <2>1
    <3> QED
      BY <2>4, <3>1, FS_Subset
  <2>6. Cardinality(Q \ P) <= Cardinality(gone[opened] \cap Q) /\ IsFiniteSet(Q \ P)
    <3>1. Q \ P \in SUBSET (gone[opened] \cap Q)
      BY <1>9
    <3> QED
      BY <2>4, <3>1, FS_Subset
  <2>7. Cardinality(S \ Q) <= Cardinality(gone[opened] \cap Q)
    <3>1. /\ Cardinality(S \ Q) \in Nat /\ Cardinality(P \ Q) \in Nat
          /\ Cardinality(Q \ P) \in Nat /\ Cardinality(gone[opened] \cap Q) \in Nat
      BY <2>4, <2>5, <2>6, FS_CardinalityType
    <3> QED
      BY <2>3, <2>5, <2>6, <3>1
  <2>8. OnePage(during) => S \subseteq Q
    BY <1>10, <2>1
  <2> QED
    BY <2>7, <2>8 DEF Complete
<1>12. OnePage(during) => offset = 0
  BY DEF PageInv
<1> QED
  BY <1>3, <1>7, <1>8, <1>9, <1>10, <1>11, <1>12

-----------------------------------------------------------------------------
(* The invariant.                                                          *)

LEMMA NoStreamsType == NoStreams \in Streams /\ DOMAIN NoStreams = {}
<1>1. NoStreams \in [{} -> Stream]
  BY DEF NoStreams
<1> QED
  BY <1>1 DEF Streams, NoStreams

LEMMA NothingGoneType ==
    /\ NothingGone \in [List -> SUBSET Entry]
    /\ \A l \in List : NothingGone[l] = {}
BY DEF NothingGone

LEMMA InitIInv == Init => IInv
<1> SUFFICES ASSUME Init PROVE IInv
  OBVIOUS
<1>1. /\ broker \in Streams /\ during = {} /\ gone = NothingGone
      /\ at = "idle" /\ found = NoStreams /\ offset = 0 /\ twice = FALSE
      /\ pending = {} /\ opened = NoStream /\ snapshot = NoSnapshot
      /\ changes = 0 /\ faults = 0
  BY BrokersAssumption DEF Init, Streams
<1>2. gone \in [List -> SUBSET Entry] /\ found \in Streams
  BY <1>1, NoStreamsType, NothingGoneType
<1>3. changes \in 0..MaxChanges /\ faults \in 0..MaxFaults
  BY <1>1, DiscoveryAssumption
<1>4. /\ during \subseteq Streams /\ offset \in Nat /\ twice \in BOOLEAN
      /\ pending \subseteq DOMAIN found /\ opened \in pending \cup {NoStream}
      /\ at \in {"idle", "streams", "open", "consumers"}
      /\ (at = "consumers" <=> opened # NoStream)
  BY <1>1
<1>5. TypeOK
  BY <1>1, <1>2, <1>3, <1>4, Zenon DEF TypeOK
<1> QED
  BY <1>1, <1>5 DEF IInv, WorldInv, FoundInv, PendingInv, PageInv, ListsInv, SnapshotInv,
              Discovered

\* What others do to the broker goes into the history of a discovery under way.
LEMMA ChangeIInv ==
    ASSUME IInv, NEW streams \in Streams, Change(streams)
    PROVE  IInv'
<1> USE DEF Change, discovery
<1>1. /\ \A l \in List : gone[l] \in SUBSET Entry
      /\ found \in Streams /\ broker \in Streams /\ opened \in List
  BY DEF IInv, TypeOK, List, Streams
<1>2. /\ \A l \in List : gone[l] \subseteq gone'[l] /\ gone'[l] \subseteq Entry
      /\ gone' \in [List -> SUBSET Entry]
      /\ during \subseteq during'
  <2>1. CASE at = "idle"
    BY <1>1, <2>1 DEF IInv, TypeOK
  <2>2. CASE at # "idle"
    <3>1. \A l \in List : Entries(broker, l) \subseteq Entry
      BY <1>1, EntriesType
    <3> QED
      BY <1>1, <2>2, <3>1
  <2> QED
    BY <2>1, <2>2
<1>3. TypeOK'
  <2>1. during' \subseteq Streams
    BY DEF IInv, TypeOK
  <2> QED
    BY <1>2, <2>1, DiscoveryAssumption DEF IInv, TypeOK
<1>4. WorldInv'
  BY DEF IInv, WorldInv
<1>5. FoundInv'
  BY <1>2, SightedLater DEF IInv, FoundInv
<1>6. PendingInv'
  BY DEF IInv, PendingInv
<1>7. PageInv'
  <2> SUFFICES ASSUME at \in {"streams", "consumers"}
               PROVE  /\ ~twice => offset = Cardinality(Entries(found, opened))
                      /\ Entries(found, opened) \ Entries(streams, opened) \subseteq gone'[opened]
                      /\ OnePage(during') => offset = 0
    BY DEF PageInv
  <2>1. /\ ~twice => offset = Cardinality(Entries(found, opened))
        /\ Entries(found, opened) \ Entries(broker, opened) \subseteq gone[opened]
        /\ OnePage(during) => offset = 0
    BY DEF IInv, PageInv
  <2>2. OnePage(during') => OnePage(during)
    BY <1>2 DEF OnePage
  <2>3. gone'[opened] = gone[opened] \cup (Entries(broker, opened) \ Entries(streams, opened))
    BY <1>1
  <2> QED
    BY <2>1, <2>2, <2>3
<1>8. \A l \in List : Complete(found, during, gone[l], l) => Complete(found, during', gone'[l], l)
  BY <1>1, <1>2, CompleteLater
<1>9. NoStream \in List /\ DOMAIN found \subseteq List
  BY <1>1 DEF List, Streams
<1>10. ListsInv'
  BY <1>2, <1>8, <1>9, AtOnceLater DEF IInv, ListsInv
<1>11. SnapshotInv'
  BY <1>2, <1>8, <1>9, SightedLater, AtOnceLater DEF IInv, SnapshotInv, Discovered
<1> QED
  BY <1>3, <1>4, <1>5, <1>6, <1>7, <1>10, <1>11 DEF IInv

\* Each change leads to streams again.
LEMMA BrokerIInv ==
    ASSUME IInv, NEW s \in StreamName,
           \/ CreateStream(s) \/ UpdateStream(s) \/ DeleteStream(s)
           \/ \E c \in ConsumerName : CreateConsumer(s, c) \/ DeleteConsumer(s, c)
    PROVE  IInv'
<1>1. /\ broker \in Streams
      /\ \A x \in DOMAIN broker : broker[x] \in Stream
      /\ DOMAIN broker \subseteq StreamName
  BY DEF IInv, TypeOK, Streams
<1>2. ASSUME NEW stream \in Stream PROVE With(broker, s, stream) \in Streams
  <2>1. With(broker, s, stream) \in [DOMAIN broker \cup {s} -> Stream]
    BY <1>1 DEF With
  <2>2. DOMAIN broker \cup {s} \in SUBSET StreamName
    BY <1>1
  <2> QED
    BY <2>1, <2>2 DEF Streams
<1>3. Without(broker, s) \in Streams
  <2>1. Without(broker, s) \in [DOMAIN broker \ {s} -> Stream]
    BY <1>1 DEF Without
  <2>2. DOMAIN broker \ {s} \in SUBSET StreamName
    BY <1>1
  <2> QED
    BY <2>1, <2>2 DEF Streams
<1>4. CASE CreateStream(s)
  <2>1. \A subjects \in SUBSET Subject :
           [subjects |-> subjects, consumers |-> {}] \in Stream
    BY DEF Stream
  <2> QED
    BY <1>2, <1>4, <2>1, ChangeIInv DEF CreateStream
<1>5. CASE UpdateStream(s)
  <2>1. \A subjects \in SUBSET Subject : [broker[s] EXCEPT !.subjects = subjects] \in Stream
    BY <1>1, <1>5 DEF UpdateStream, Stream
  <2> QED
    BY <1>2, <1>5, <2>1, ChangeIInv DEF UpdateStream
<1>6. CASE DeleteStream(s)
  BY <1>3, <1>6, ChangeIInv DEF DeleteStream
<1>7. ASSUME NEW c \in ConsumerName, CreateConsumer(s, c) PROVE IInv'
  <2>1. [broker[s] EXCEPT !.consumers = @ \cup {c}] \in Stream
    BY <1>1, <1>7 DEF CreateConsumer, Stream
  <2> QED
    BY <1>2, <1>7, <2>1, ChangeIInv DEF CreateConsumer
<1>8. ASSUME NEW c \in ConsumerName, DeleteConsumer(s, c) PROVE IInv'
  <2>1. [broker[s] EXCEPT !.consumers = @ \ {c}] \in Stream
    BY <1>1, <1>8 DEF DeleteConsumer, Stream
  <2> QED
    BY <1>2, <1>8, <2>1, ChangeIInv DEF DeleteConsumer
<1> QED
  BY <1>4, <1>5, <1>6, <1>7, <1>8

LEMMA BeginIInv == ASSUME IInv, Begin PROVE IInv'
<1> USE DEF Begin
<1>1. opened = NoStream /\ broker \in Streams
  BY DEF IInv, TypeOK
<1>2. /\ found' \in Streams /\ gone' \in [List -> SUBSET Entry]
      /\ DOMAIN found' = {} /\ pending' = {}
  BY NoStreamsType, NothingGoneType
<1>3. TypeOK'
  BY <1>1, <1>2 DEF IInv, TypeOK
<1>4. Sighted(found', during')
  BY <1>2 DEF Sighted
<1>5. PageInv'
  <2>1. Entries(found', opened') = {}
    BY <1>1, <1>2 DEF Entries
  <2> QED
    BY <2>1, FS_EmptySet DEF PageInv
<1> QED
  BY <1>2, <1>3, <1>4, <1>5 DEF IInv, WorldInv, FoundInv, PendingInv, ListsInv, SnapshotInv,
                                Discovered

\* The streams of a page and their subjects are those of the present state.
LEMMA ListStreamsIInv == ASSUME IInv, ListStreams PROVE IInv'
<1> USE DEF ListStreams, world
<1>1. /\ broker \in Streams /\ broker \in during /\ found \in Streams
      /\ \A x \in DOMAIN broker : broker[x] \in Stream
      /\ \A x \in DOMAIN found : found[x] \in Stream
      /\ DOMAIN broker \subseteq StreamName /\ DOMAIN found \subseteq StreamName
      /\ opened = NoStream /\ NoStream \in List
  BY DEF IInv, TypeOK, WorldInv, Streams, List
<1>2. Page \subseteq DOMAIN broker
  BY <1>1 DEF Page, Between, Entries
<1>3. /\ DOMAIN found' = DOMAIN found \cup Page
      /\ \A x \in Page : found'[x] = Listed(x)
      /\ \A x \in DOMAIN found \ Page : found'[x] = found[x]
  OBVIOUS
<1>4. \A x \in DOMAIN broker : /\ Listed(x) \in Stream
                               /\ Listed(x).subjects = broker[x].subjects
                               /\ Listed(x).consumers = {}
  BY <1>1 DEF Listed, Stream
<1>5. found' \in Streams
  <2>1. \A x \in DOMAIN found' : found'[x] \in Stream
    BY <1>1, <1>2, <1>3, <1>4
  <2>2. DOMAIN found' \in SUBSET StreamName
    BY <1>1, <1>2, <1>3
  <2>3. found' \in [DOMAIN found' -> Stream]
    BY <2>1
  <2> QED
    BY <2>2, <2>3 DEF Streams
<1>6. Entries(found', opened) = Entries(found, opened) \cup Page
  BY <1>1, <1>3 DEF Entries
<1>7. /\ offset' \in Nat /\ twice' \in BOOLEAN
      /\ ~twice' => ~twice /\ offset' = Cardinality(Entries(found', opened))
      /\ Entries(found', opened) \ Entries(broker, opened) \subseteq gone[opened]
      /\ MorePages => ~OnePage(during)
      /\ OnePage(during) => offset = 0 /\ Page = Entries(broker, opened)
      /\ ~MorePages /\ ~twice' => Complete(found', during, gone[opened], opened)
  BY <1>5, <1>6, PageReceived DEF IInv
<1>8. TypeOK'
  BY <1>1, <1>3, <1>5, <1>7 DEF IInv, TypeOK
<1>9. FoundInv' /\ PendingInv'
  <2>1. /\ Sighted(found, during)
        /\ \A x \in DOMAIN found : found[x].consumers = {}
    BY DEF IInv, FoundInv, PendingInv
  <2>2. \A x \in DOMAIN found' : found'[x].consumers = {}
    BY <1>2, <1>3, <1>4, <2>1
  <2>3. \A x \in DOMAIN found' : \E b \in during : x \in DOMAIN b
                                                    /\ found'[x].subjects = b[x].subjects
    BY <1>1, <1>2, <1>3, <1>4, <2>1 DEF Sighted
  <2>4. Sighted(found', during')
    BY <2>2, <2>3 DEF Sighted
  <2> QED
    BY <2>2, <2>4 DEF FoundInv, PendingInv
<1>10. PageInv'
  BY <1>7 DEF PageInv
<1>11. ~twice' => AtOnce(found', during)
  <2> SUFFICES ASSUME ~twice', OnePage(during)
               PROVE  \E b \in during : /\ DOMAIN found' = DOMAIN b
                                        /\ \A x \in DOMAIN found' :
                                              found'[x].subjects = b[x].subjects
    BY DEF AtOnce
  <2>1. Cardinality(DOMAIN found) = 0 /\ IsFiniteSet(DOMAIN found)
    <3>1. ~twice /\ offset = 0
      BY <1>7
    <3>2. Entries(found, opened) = DOMAIN found
      BY <1>1 DEF Entries
    <3> QED
      BY <1>1, <3>1, <3>2, EntriesType DEF IInv, PageInv
  <2>2. DOMAIN found = {}
    BY <2>1, FS_EmptySet
  <2>3. Page = DOMAIN broker
    BY <1>1, <1>7 DEF Entries
  <2> QED
    BY <1>1, <1>3, <1>4, <2>2, <2>3
<1>12. ListsInv'
  BY <1>1, <1>3, <1>7, <1>11 DEF ListsInv
<1> QED
  BY <1>8, <1>9, <1>10, <1>12 DEF IInv, WorldInv, SnapshotInv, Discovered

LEMMA OpenStreamIInv == ASSUME IInv, NEW s \in StreamName, OpenStream(s) PROVE IInv'
<1> USE DEF OpenStream, world
<1>1. s # NoStream /\ s \in DOMAIN found /\ opened = NoStream /\ found \in Streams
  BY DiscoveryAssumption DEF IInv, TypeOK
<1>2. TypeOK'
  BY <1>1 DEF IInv, TypeOK
<1>3. Entries(found, s) = {}
  BY <1>1 DEF IInv, PendingInv, Entries
<1>4. PageInv'
  BY <1>3, FS_EmptySet DEF PageInv
<1>5. NoStream \notin DOMAIN found
  BY <1>1, DiscoveryAssumption DEF Streams
<1>6. PendingInv'
  BY <1>1, <1>5 DEF IInv, PendingInv
<1> QED
  BY <1>2, <1>4, <1>6 DEF IInv, WorldInv, FoundInv, ListsInv, SnapshotInv, Discovered

\* A discovery that fails leaves no snapshot.
LEMMA AbortsIInv ==
    ASSUME IInv, at \in {"streams", "open", "consumers"}, Aborts, faults' \in 0..MaxFaults
    PROVE  IInv'
<1> USE DEF Aborts
<1>1. snapshot = NoSnapshot /\ broker \in Streams /\ changes \in 0..MaxChanges
  BY DEF IInv, TypeOK, WorldInv
<1>2. /\ found' \in Streams /\ gone' \in [List -> SUBSET Entry]
      /\ DOMAIN found' = {} /\ pending' = {}
  BY NoStreamsType, NothingGoneType
<1>3. TypeOK'
  BY <1>1, <1>2 DEF TypeOK
<1> QED
  BY <1>1, <1>3 DEF IInv, WorldInv, FoundInv, PendingInv, PageInv, ListsInv, SnapshotInv,
                    Discovered

\* The consumers of a page are those of the present state; another list stays as it is.
LEMMA ListConsumersIInv == ASSUME IInv, NEW s \in StreamName, ListConsumers(s) PROVE IInv'
<1> USE DEF ListConsumers, world
<1>1. /\ broker \in Streams /\ broker \in during /\ s \in DOMAIN broker /\ s = opened
      /\ found \in Streams /\ s \in pending /\ pending \subseteq DOMAIN found
      /\ \A x \in DOMAIN found : found[x] \in Stream
      /\ DOMAIN found \subseteq StreamName /\ s # NoStream /\ NoStream \notin DOMAIN found
  BY DiscoveryAssumption DEF IInv, TypeOK, WorldInv, Streams
<1>2. Page \subseteq broker[s].consumers /\ broker[s].consumers \subseteq ConsumerName
  BY <1>1 DEF Page, Between, Entries, Streams, Stream
<1>3. /\ DOMAIN found' = DOMAIN found
      /\ \A x \in DOMAIN found :
            /\ found'[x] \in Stream
            /\ found'[x].subjects = found[x].subjects
            /\ found'[x].consumers = IF x = s THEN found[x].consumers \cup Page
                                     ELSE found[x].consumers
  BY <1>1, <1>2 DEF Stream
<1>4. found' \in Streams
  <2>1. found' \in [DOMAIN found -> Stream] /\ DOMAIN found \in SUBSET StreamName
    BY <1>1, <1>3
  <2> QED
    BY <2>1 DEF Streams
<1>5. /\ Entries(found', opened) = Entries(found, opened) \cup Page
      /\ \A l \in List \ {s} : Entries(found', l) = Entries(found, l)
  BY <1>1, <1>3 DEF Entries
<1>6. /\ offset' \in Nat /\ twice' \in BOOLEAN
      /\ ~twice' => ~twice /\ offset' = Cardinality(Entries(found', opened))
      /\ Entries(found', opened) \ Entries(broker, opened) \subseteq gone[opened]
      /\ MorePages => ~OnePage(during)
      /\ ~MorePages /\ ~twice' => Complete(found', during, gone[opened], opened)
  BY <1>4, <1>5, PageReceived DEF IInv
<1>7. \/ at' = "consumers" /\ pending' = pending /\ opened' = opened /\ MorePages
      \/ at' = "open" /\ pending' = pending \ {s} /\ opened' = NoStream /\ ~MorePages
  OBVIOUS
<1>8. TypeOK'
  BY <1>1, <1>3, <1>4, <1>6, <1>7 DEF IInv, TypeOK
<1>9. FoundInv'
  <2>1. Sighted(found, during)
    BY DEF IInv, FoundInv
  <2>2. Sighted(found', during)
    BY <1>1, <1>2, <1>3, <2>1 DEF Sighted
  <2> QED
    BY <2>2 DEF FoundInv
<1>10. PendingInv'
  BY <1>1, <1>3, <1>7 DEF IInv, PendingInv
<1>11. PageInv'
  BY <1>6, <1>7 DEF PageInv
<1>12. ListsInv'
  <2> SUFFICES ASSUME ~twice'
               PROVE  /\ AtOnce(found', during)
                      /\ Complete(found', during, gone[NoStream], NoStream)
                      /\ \A x \in DOMAIN found \ pending' : Complete(found', during, gone[x], x)
    BY <1>3 DEF ListsInv
  <2>1. /\ AtOnce(found, during)
        /\ Complete(found, during, gone[NoStream], NoStream)
        /\ \A x \in DOMAIN found \ pending : Complete(found, during, gone[x], x)
    BY <1>6 DEF IInv, ListsInv
  <2>2. \A l \in List \ {s} : Complete(found, during, gone[l], l)
                                 => Complete(found', during, gone[l], l)
    BY <1>5, CompleteSame
  <2>3. NoStream \in List \ {s} /\ DOMAIN found \subseteq List
    BY <1>1 DEF List
  <2>4. ~MorePages => Complete(found', during, gone[s], s)
    BY <1>1, <1>6
  <2>5. AtOnce(found', during)
    BY <1>3, <2>1 DEF AtOnce
  <2> QED
    BY <1>1, <1>7, <2>1, <2>2, <2>3, <2>4, <2>5
<1>13. WorldInv' /\ SnapshotInv'
  BY <1>7 DEF IInv, WorldInv, SnapshotInv, Discovered
<1> QED
  BY <1>8, <1>9, <1>10, <1>11, <1>12, <1>13 DEF IInv

\* The snapshot is what was found.
LEMMA FinishIInv == ASSUME IInv, Finish PROVE IInv'
<1> USE DEF Finish, world
<1>1. PICK now \in Time : snapshot' = Normalized(found, now)
  OBVIOUS
<1>2. /\ DOMAIN snapshot'.nodes = NodesOf(found)
      /\ DOMAIN snapshot'.edges = EdgesOf(found)
  BY <1>1 DEF Normalized
<1>3. during # {} /\ Sighted(found, during)
  BY DEF IInv, WorldInv, FoundInv
<1>4. /\ AtOnce(found, during)
      /\ Complete(found, during, gone[NoStream], NoStream)
      /\ \A s \in DOMAIN found : Complete(found, during, gone[s], s)
  BY DEF IInv, ListsInv
<1>5. TypeOK'
  BY DEF IInv, TypeOK
<1>6. SnapshotInv'
  BY <1>2, <1>3, <1>4 DEF SnapshotInv
<1> QED
  BY <1>5, <1>6 DEF IInv, WorldInv, FoundInv, PendingInv, PageInv, ListsInv

LEMMA NextIInv == IInv /\ [Next]_vars => IInv'
<1> SUFFICES ASSUME IInv, [Next]_vars PROVE IInv'
  OBVIOUS
<1>1. CASE UNCHANGED vars
  BY <1>1 DEF vars, world, discovery, IInv, TypeOK, WorldInv, FoundInv, PendingInv, PageInv,
              ListsInv, SnapshotInv, Discovered, MorePages, Page
<1>2. ASSUME NEW s \in StreamName,
             \/ CreateStream(s) \/ UpdateStream(s) \/ DeleteStream(s)
             \/ \E c \in ConsumerName : CreateConsumer(s, c) \/ DeleteConsumer(s, c)
      PROVE  IInv'
  BY <1>2, BrokerIInv
<1>3. CASE Begin
  BY <1>3, BeginIInv
<1>4. CASE ListStreams
  BY <1>4, ListStreamsIInv
<1>5. ASSUME NEW s \in StreamName, OpenStream(s) PROVE IInv'
  BY <1>5, OpenStreamIInv
<1>6. ASSUME NEW s \in StreamName, StreamNotFound(s) PROVE IInv'
  BY <1>6, AbortsIInv DEF StreamNotFound, IInv, TypeOK
<1>7. ASSUME NEW s \in StreamName, ListConsumers(s) PROVE IInv'
  BY <1>7, ListConsumersIInv
<1>8. CASE Fail
  <2>1. faults' \in 0..MaxFaults
    BY <1>8, DiscoveryAssumption DEF Fail, IInv, TypeOK
  <2> QED
    BY <1>8, <2>1, AbortsIInv DEF Fail
<1>9. CASE Finish
  BY <1>9, FinishIInv
<1>10. CASE Duplicate
  BY <1>10, AbortsIInv DEF Duplicate, IInv, TypeOK
<1> QED
  BY <1>1, <1>2, <1>3, <1>4, <1>5, <1>6, <1>7, <1>8, <1>9, <1>10 DEF Next

LEMMA Invariant == Spec => []IInv
BY InitIInv, NextIInv, PTL DEF Spec

-----------------------------------------------------------------------------

\* The variables stay in their types (client.go:39-108).
THEOREM TypeCorrect == Spec => []TypeOK
<1>1. IInv => TypeOK
  BY DEF IInv
<1> QED
  BY <1>1, Invariant, PTL

\* Whatever the broker does between the requests, nothing is in a snapshot that was
\* not there during its discovery (client.go:39-108).
THEOREM NothingIsInvented == Spec => []NothingInvented
<1>1. IInv => NothingInvented
  BY SightedExactly DEF IInv, SnapshotInv, NothingInvented
<1> QED
  BY <1>1, Invariant, PTL

\* What all states of a discovery had is what stayed in its lists.
LEMMA StayedExactly ==
    ASSUME NEW D, D # {}, D \subseteq Streams
    PROVE  /\ \A s : (\A b \in D : StreamId(s) \in NodesOf(b)) <=> s \in Stayed(D, NoStream)
           /\ \A s \in StreamName : \A c :
                 (\A b \in D : ConsumerId(s, c) \in NodesOf(b)) <=> c \in Stayed(D, s)
<1>1. PICK b \in D : TRUE
  OBVIOUS
<1>2. /\ \A a \in D : Entries(a, NoStream) = DOMAIN a /\ Entries(a, NoStream) \subseteq Entry
      /\ \A a \in D : \A s \in StreamName : Entries(a, s) \subseteq Entry
  BY EntriesType DEF List
<1>3. ASSUME NEW s PROVE (\A a \in D : StreamId(s) \in NodesOf(a)) <=> s \in Stayed(D, NoStream)
  <2>1. \A a \in D : StreamId(s) \in NodesOf(a) <=> s \in Entries(a, NoStream)
    BY <1>2, Nodes
  <2> QED
    BY <1>1, <1>2, <2>1 DEF Stayed
<1>4. ASSUME NEW s \in StreamName, NEW c
      PROVE  (\A a \in D : ConsumerId(s, c) \in NodesOf(a)) <=> c \in Stayed(D, s)
  <2>1. \A a \in D : ConsumerId(s, c) \in NodesOf(a) <=> c \in Entries(a, s)
    <3>1. s # NoStream
      BY DiscoveryAssumption
    <3> QED
      BY <3>1, Nodes DEF Entries
  <2> QED
    BY <1>1, <1>2, <2>1 DEF Stayed
<1> QED
  BY <1>3, <1>4

\* Entries and nodes of what was found.
LEMMA FoundExactly ==
    ASSUME NEW F \in Streams
    PROVE  /\ \A s : StreamId(s) \in NodesOf(F) <=> s \in Entries(F, NoStream)
           /\ \A s \in StreamName : \A c : ConsumerId(s, c) \in NodesOf(F) <=> c \in Entries(F, s)
<1>1. Entries(F, NoStream) = DOMAIN F
  BY DEF Entries
<1>2. \A s \in StreamName : s # NoStream
  BY DiscoveryAssumption
<1>3. \A s : StreamId(s) \in NodesOf(F) <=> s \in DOMAIN F
  BY Nodes
<1>4. \A s, c : ConsumerId(s, c) \in NodesOf(F) <=> s \in DOMAIN F /\ c \in F[s].consumers
  BY Nodes
<1> QED
  BY <1>1, <1>2, <1>3, <1>4 DEF Entries

\* As long as each list of the broker fits into a page, nothing is missing in a snapshot
\* that was there throughout its discovery (client.go:46, 81, topology_snapshot.go:68).
THEOREM OnePageIsEnough == Spec => []AbsenceIsRealOnOnePage
<1>1. ASSUME IInv, Discovered, OnePage(during)
      PROVE  StayedNodes \subseteq NodesOf(found) /\ StayedEdges \subseteq EdgesOf(found)
  <2>1. /\ during # {} /\ during \subseteq Streams /\ found \in Streams
        /\ \A s \in DOMAIN found : Complete(found, during, gone[s], s)
    BY <1>1 DEF IInv, TypeOK, SnapshotInv
  <2>2. PICK b \in during : /\ DOMAIN found = DOMAIN b
                            /\ \A s \in DOMAIN found : found[s].subjects = b[s].subjects
    BY <1>1 DEF IInv, SnapshotInv, AtOnce
  <2>3. ASSUME NEW s, NEW c, \A a \in during : ConsumerId(s, c) \in NodesOf(a)
        PROVE  s \in DOMAIN found /\ c \in found[s].consumers
    <3>1. s \in DOMAIN found
      BY <2>2, <2>3, Nodes
    <3>2. s \in StreamName
      BY <2>1, <3>1 DEF Streams
    <3>3. c \in Stayed(during, s)
      BY <2>1, <2>3, <3>2, StayedExactly
    <3>4. c \in Entries(found, s)
      BY <1>1, <2>1, <3>1, <3>3 DEF Complete
    <3>5. s # NoStream
      BY <3>2, DiscoveryAssumption
    <3> QED
      BY <3>1, <3>4, <3>5 DEF Entries
  <2>4. ASSUME NEW n \in StayedNodes PROVE n \in NodesOf(found)
    <3>1. n \in NodesOf(b) /\ \A a \in during : n \in NodesOf(a)
      BY DEF StayedNodes
    <3>2. CASE n = BrokerId
      BY <3>2, Nodes
    <3>3. ASSUME NEW s, n = StreamId(s) PROVE n \in NodesOf(found)
      BY <2>2, <3>1, <3>3, Nodes
    <3>4. ASSUME NEW u, n = DestinationId(u) PROVE n \in NodesOf(found)
      <4>1. PICK s \in DOMAIN b : u \in b[s].subjects
        BY <3>1, <3>4, Nodes
      <4> QED
        BY <2>2, <3>4, <4>1, Nodes
    <3>5. ASSUME NEW s, NEW c, n = ConsumerId(s, c) PROVE n \in NodesOf(found)
      BY <2>3, <3>1, <3>5, Nodes
    <3> QED
      BY <3>1, <3>2, <3>3, <3>4, <3>5, Nodes
  <2>5. ASSUME NEW e \in StayedEdges PROVE e \in EdgesOf(found)
    <3>1. e \in EdgesOf(b) /\ \A a \in during : e \in EdgesOf(a)
      BY DEF StayedEdges
    <3>2. ASSUME NEW s, NEW u, e = CapturedBy(u, s) PROVE e \in EdgesOf(found)
      BY <2>2, <3>1, <3>2, Edges
    <3>3. ASSUME NEW s, NEW c, e = HasConsumer(s, c) PROVE e \in EdgesOf(found)
      <4>1. \A a \in during : ConsumerId(s, c) \in NodesOf(a)
        BY <3>1, <3>3, Edges, Nodes
      <4> QED
        BY <2>3, <3>3, <4>1, Edges
    <3> QED
      BY <3>1, <3>2, <3>3, Edges
  <2> QED
    BY <2>4, <2>5
<1>2. IInv => AbsenceIsRealOnOnePage
  BY <1>1 DEF IInv, SnapshotInv, AbsenceIsRealOnOnePage, AbsenceIsReal, OnePageEach, OnePage
<1> QED
  BY <1>2, Invariant, PTL

\* However long the lists are, a snapshot misses no more of the entries of a list that
\* were there throughout than were deleted from it in the meantime, and no subject of a
\* stream it has (client.go:46, 81, normalize.go:86, 136).
THEOREM MissesAreBounded == Spec => []MissesNoMoreThanWasDeleted
<1>1. ASSUME IInv, Discovered
      PROVE  /\ during # {} /\ during \subseteq Streams /\ found \in Streams
             /\ Sighted(found, during)
             /\ Complete(found, during, gone[NoStream], NoStream)
             /\ \A s \in DOMAIN found : Complete(found, during, gone[s], s)
             /\ DOMAIN snapshot.nodes = NodesOf(found)
             /\ DOMAIN snapshot.edges = EdgesOf(found)
  BY <1>1 DEF IInv, TypeOK, SnapshotInv
<1>2. ASSUME IInv, Discovered
      PROVE  Cardinality(MissedStreams)
               <= Cardinality({s \in gone[NoStream] : StreamId(s) \in DOMAIN snapshot.nodes})
  <2>1. MissedStreams = Stayed(during, NoStream) \ Entries(found, NoStream)
    <3>1. \A s : StreamId(s) \in StayedNodes <=> s \in Stayed(during, NoStream)
      BY <1>1, <1>2, StayedExactly DEF StayedNodes
    <3>2. Stayed(during, NoStream) \subseteq StreamName
      BY <1>1, <1>2 DEF Stayed, Entries, Streams
    <3> QED
      BY <1>1, <1>2, <3>1, <3>2, FoundExactly DEF MissedStreams, Missed
  <2>2. {s \in gone[NoStream] : StreamId(s) \in DOMAIN snapshot.nodes}
          = gone[NoStream] \cap Entries(found, NoStream)
    BY <1>1, <1>2, FoundExactly
  <2> QED
    BY <1>1, <1>2, <2>1, <2>2 DEF Complete
<1>3. ASSUME IInv, Discovered, NEW s \in StreamName, StreamId(s) \in DOMAIN snapshot.nodes
      PROVE  Cardinality(MissedConsumers(s))
               <= Cardinality({c \in gone[s] : ConsumerId(s, c) \in DOMAIN snapshot.nodes})
  <2>1. s \in DOMAIN found
    BY <1>1, <1>3, Nodes
  <2>2. MissedConsumers(s) = Stayed(during, s) \ Entries(found, s)
    <3>1. \A c : ConsumerId(s, c) \in StayedNodes <=> c \in Stayed(during, s)
      BY <1>1, <1>3, StayedExactly DEF StayedNodes
    <3>2. Stayed(during, s) \subseteq ConsumerName
      <4>1. PICK b \in during : TRUE
        BY <1>1, <1>3
      <4>2. Entries(b, s) \subseteq ConsumerName
        BY <1>1, <1>3, DiscoveryAssumption DEF Entries, Streams, Stream
      <4> QED
        BY <4>2 DEF Stayed
    <3> QED
      BY <1>1, <1>3, <3>1, <3>2, FoundExactly DEF MissedConsumers, Missed
  <2>3. {c \in gone[s] : ConsumerId(s, c) \in DOMAIN snapshot.nodes} = gone[s] \cap Entries(found, s)
    BY <1>1, <1>3, FoundExactly
  <2> QED
    BY <1>1, <1>3, <2>1, <2>2, <2>3 DEF Complete
<1>4. ASSUME IInv, Discovered, NEW s \in StreamName, StreamId(s) \in DOMAIN snapshot.nodes,
             NEW e \in StayedEdges, e.kind = "captured_by", e.target = StreamId(s)
      PROVE  e \in DOMAIN snapshot.edges
  <2>1. PICK b \in during : e \in EdgesOf(b)
    BY DEF StayedEdges
  <2>2. \E u : e = CapturedBy(u, s)
    <3>1. ASSUME NEW t, NEW c PROVE HasConsumer(t, c).kind # e.kind
      BY <1>4 DEF HasConsumer
    <3>2. PICK t, u : e = CapturedBy(u, t)
      BY <2>1, <3>1, Edges
    <3>3. StreamId(t) = StreamId(s)
      BY <1>4, <3>2 DEF CapturedBy
    <3> QED
      BY <3>2, <3>3, Identities
  <2>3. PICK u : e = CapturedBy(u, s)
    BY <2>2
  <2>4. s \in DOMAIN found
    BY <1>1, <1>4, Nodes
  <2>5. \A a \in during : CapturedBy(u, s) \in EdgesOf(a)
    BY <2>3 DEF StayedEdges
  <2> QED
    BY <1>1, <1>4, <2>3, <2>4, <2>5, SightedExactly
<1>5. IInv => MissesNoMoreThanWasDeleted
  BY <1>2, <1>3, <1>4 DEF MissesNoMoreThanWasDeleted
<1> QED
  BY <1>5, Invariant, PTL

=============================================================================
