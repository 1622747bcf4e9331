---------------------------- MODULE NatsDiscovery ----------------------------
(***************************************************************************)
(* discovery/nats Provider.Discover: the streams of the broker are listed, *)
(* then each of them is opened and its consumers are listed, request after *)
(* request, while others create and delete streams and consumers; what was *)
(* found is normalized to one full snapshot.                               *)
(*                                                                         *)
(* A list comes in pages.  The channel of lister.Info() is filled by one   *)
(* request after another, each for the entries from an offset in the order *)
(* of their names, until the offset has reached the number of entries that *)
(* the last page told.  The broker keeps nothing between two pages: what   *)
(* is created or deleted before the offset moves the rest of the list.     *)
(*                                                                         *)
(* Names are numbers in the order in which the broker lists them.  The     *)
(* identity of a node stands for a hash of its kind and native names.      *)
(* Consumer filters, attributes and counts are metadata and left out; so   *)
(* are blank names, which the broker does not report.                      *)
(***************************************************************************)
EXTENDS Reconciliation, FiniteSets

CONSTANTS
    StreamName, Subject, ConsumerName,
    NoStream,     \* no stream is opened
    Brokers,      \* the brokers it may find at first
    PageSize,     \* the largest number of entries of a page
    Provider,     \* the source the provider is configured with
    ProviderScope,\* the scope it is asked to discover
    Technology,   \* its source system
    MaxChanges,   \* bound: changes of the broker
    MaxFaults     \* bound: requests that fail

ASSUME DiscoveryAssumption ==
    /\ StreamName \subseteq Nat /\ IsFiniteSet(StreamName)
    /\ ConsumerName \subseteq Nat /\ IsFiniteSet(ConsumerName)
    /\ NoStream \notin StreamName
    /\ PageSize \in Nat \ {0}
    /\ MaxChanges \in Nat /\ MaxFaults \in Nat

VARIABLES
    broker,    \* the streams of the broker: [subjects, consumers] of each
    during,    \* history: the states the broker had since the discovery began
    gone,      \* history: the entries that were deleted from each list since then
    at,        \* where Discover is
    found,     \* the streams that were listed, and what is known of each
    offset,    \* of the next page of the list that is being read
    twice,     \* an entry came twice
    pending,   \* the streams whose consumers were not listed yet
    opened,    \* the one that is open
    snapshot,  \* the snapshot of the last discovery, if it succeeded
    changes, faults

world == <<broker, during, gone, changes>>
discovery == <<at, found, offset, twice, pending, opened, snapshot>>
vars == <<world, discovery, faults>>

Stream == [subjects : SUBSET Subject, consumers : SUBSET ConsumerName]
Streams == UNION {[S -> Stream] : S \in SUBSET StreamName}

ASSUME BrokersAssumption ==
    \A b \in Brokers : DOMAIN b \subseteq StreamName /\ b \in [DOMAIN b -> Stream]

NoStreams == [s \in {} |-> [subjects |-> {}, consumers |-> {}]]

\* The lists of a broker: NoStream names that of the streams, a stream that of its
\* consumers.
List == StreamName \cup {NoStream}
Entry == StreamName \cup ConsumerName
NothingGone == [l \in List |-> {}]
Entries(streams, list) ==
    IF list = NoStream THEN DOMAIN streams
    ELSE IF list \in DOMAIN streams THEN streams[list].consumers ELSE {}

TypeOK ==
    /\ broker \in Streams /\ during \subseteq Streams
    /\ gone \in [List -> SUBSET Entry]
    /\ at \in {"idle", "streams", "open", "consumers"}
    /\ found \in Streams
    /\ offset \in Nat /\ twice \in BOOLEAN
    /\ pending \subseteq DOMAIN found
    /\ opened \in pending \cup {NoStream}
    /\ at = "consumers" <=> opened # NoStream
    /\ changes \in 0..MaxChanges /\ faults \in 0..MaxFaults

Without(streams, s) == [t \in DOMAIN streams \ {s} |-> streams[t]]
With(streams, s, stream) ==
    [t \in DOMAIN streams \cup {s} |-> IF t = s THEN stream ELSE streams[t]]

-----------------------------------------------------------------------------
(* normalize.                                                              *)

BrokerId == <<"broker">>
StreamId(s) == <<"resource", s>>
DestinationId(u) == <<"destination", u>>
ConsumerId(s, c) == <<"consumer", s, c>>

\* A subject of several streams is one destination.
NodesOf(streams) ==
    {BrokerId} \cup {StreamId(s) : s \in DOMAIN streams}
    \cup (UNION {{DestinationId(u) : u \in streams[s].subjects} : s \in DOMAIN streams})
    \cup (UNION {{ConsumerId(s, c) : c \in streams[s].consumers} : s \in DOMAIN streams})

EdgesOf(streams) ==
    (UNION {{[source |-> DestinationId(u), kind |-> "captured_by", target |-> StreamId(s)] :
               u \in streams[s].subjects} : s \in DOMAIN streams})
    \cup
    (UNION {{[source |-> StreamId(s), kind |-> "has_consumer", target |-> ConsumerId(s, c)] :
               c \in streams[s].consumers} : s \in DOMAIN streams})

Normalized(streams, time) ==
    [source |-> Provider, scope |-> ProviderScope, capturedAt |-> time,
     completeness |-> "full",
     nodes |-> [n \in NodesOf(streams) |->
                  [kind |-> n[1], broker |-> IF n = BrokerId THEN NoBroker ELSE BrokerId]],
     edges |-> [e \in EdgesOf(streams) |->
                  [t \in {Technology} |-> [first |-> time, last |-> time]]]]

-----------------------------------------------------------------------------

Init ==
    /\ broker \in Brokers
    /\ during = {} /\ gone = NothingGone
    /\ at = "idle"
    /\ found = NoStreams
    /\ offset = 0 /\ twice = FALSE
    /\ pending = {} /\ opened = NoStream
    /\ snapshot = NoSnapshot
    /\ changes = 0 /\ faults = 0

(* The broker.                                                             *)

Change(streams) ==
    /\ changes < MaxChanges /\ streams # broker
    /\ changes' = changes + 1
    /\ broker' = streams
    /\ IF at = "idle" THEN UNCHANGED <<during, gone>>
       ELSE /\ during' = during \cup {streams}
            /\ gone' = [l \in List |->
                           gone[l] \cup (Entries(broker, l) \ Entries(streams, l))]
    /\ UNCHANGED <<discovery, faults>>

CreateStream(s) ==
    /\ s \notin DOMAIN broker
    /\ \E subjects \in SUBSET Subject :
          Change(With(broker, s, [subjects |-> subjects, consumers |-> {}]))

UpdateStream(s) ==
    /\ s \in DOMAIN broker
    /\ \E subjects \in SUBSET Subject :
          Change(With(broker, s, [broker[s] EXCEPT !.subjects = subjects]))

DeleteStream(s) == s \in DOMAIN broker /\ Change(Without(broker, s))

CreateConsumer(s, c) ==
    /\ s \in DOMAIN broker
    /\ Change(With(broker, s, [broker[s] EXCEPT !.consumers = @ \cup {c}]))

DeleteConsumer(s, c) ==
    /\ s \in DOMAIN broker
    /\ Change(With(broker, s, [broker[s] EXCEPT !.consumers = @ \ {c}]))

(* The pages of a list.                                                    *)

\* The position of an entry in the list of these names.
Position(n, names) == Cardinality({m \in names : m < n})

\* The entries at some positions.
Between(names, from, to) ==
    {n \in names : from <= Position(n, names) /\ Position(n, names) < to}

\* What a request that is answered now returns.
Page == Between(Entries(broker, opened), offset, offset + PageSize)

ReceivePage ==
    /\ offset' = offset + Cardinality(Page)
    /\ twice' = (twice \/ Page \cap Entries(found, opened) # {})

MorePages == offset + Cardinality(Page) < Cardinality(Entries(broker, opened))

(* Discover.                                                               *)

\* Mutant: what an earlier discovery found is still in the list.
BeginUncleared ==
    /\ at = "idle"
    /\ at' = "streams" /\ snapshot' = NoSnapshot
    /\ offset' = 0 /\ twice' = FALSE /\ pending' = {}
    /\ during' = {broker} /\ gone' = NothingGone
    /\ UNCHANGED <<broker, changes, found, opened, faults>>

Begin ==
    /\ at = "idle"
    /\ at' = "streams" /\ snapshot' = NoSnapshot
    /\ found' = NoStreams /\ offset' = 0 /\ twice' = FALSE /\ pending' = {}
    /\ during' = {broker} /\ gone' = NothingGone
    /\ UNCHANGED <<broker, changes, opened, faults>>

\* A stream as it is listed: its consumers come later.
Listed(s) == [broker[s] EXCEPT !.consumers = {}]

\* A page of the list of the streams.
ListStreams ==
    /\ at = "streams" /\ ReceivePage
    /\ found' = [s \in DOMAIN found \cup Page |-> IF s \in Page THEN Listed(s) ELSE found[s]]
    /\ \/ MorePages /\ UNCHANGED <<at, pending>>
       \/ ~MorePages /\ at' = "open" /\ pending' = DOMAIN found \cup Page
    /\ UNCHANGED <<world, opened, snapshot, faults>>

\* The discovery returns an error and nothing else.
Aborts ==
    /\ at' = "idle"
    /\ found' = NoStreams /\ offset' = 0 /\ twice' = FALSE
    /\ pending' = {} /\ opened' = NoStream
    /\ during' = {} /\ gone' = NothingGone
    /\ UNCHANGED <<broker, changes, snapshot>>

\* Another list begins.  A stream that came twice is opened once here and twice in
\* the code: the discovery fails in any case.
OpenStream(s) ==
    /\ at = "open" /\ s \in pending \cap DOMAIN broker
    /\ opened' = s /\ offset' = 0 /\ at' = "consumers"
    /\ UNCHANGED <<world, found, twice, pending, snapshot, faults>>

\* Mutant: a stream that is gone is asked for again and again.
StreamRetried(s) ==
    /\ \/ at = "open" /\ s \in pending
       \/ at = "consumers" /\ s = opened
    /\ s \notin DOMAIN broker
    /\ UNCHANGED vars

\* A stream that was listed and deleted since.
StreamNotFound(s) ==
    /\ \/ at = "open" /\ s \in pending
       \/ at = "consumers" /\ s = opened
    /\ s \notin DOMAIN broker
    /\ Aborts /\ UNCHANGED faults

\* A page of the consumers of the open stream.
ListConsumers(s) ==
    /\ at = "consumers" /\ s = opened /\ s \in DOMAIN broker /\ ReceivePage
    /\ found' = [found EXCEPT ![s].consumers = @ \cup Page]
    /\ \/ MorePages /\ UNCHANGED <<at, pending, opened>>
       \/ ~MorePages /\ at' = "open" /\ pending' = pending \ {s} /\ opened' = NoStream
    /\ UNCHANGED <<world, snapshot, faults>>

\* Mutant: the discovery goes on without what was not listed.
FailTolerated ==
    /\ at = "consumers" /\ faults < MaxFaults
    /\ faults' = faults + 1
    /\ pending' = pending \ {opened} /\ opened' = NoStream /\ at' = "open"
    /\ UNCHANGED <<world, found, offset, twice, snapshot>>

\* A request is not answered in time.
Fail ==
    /\ at \in {"streams", "open", "consumers"} /\ faults < MaxFaults
    /\ faults' = faults + 1
    /\ Aborts

\* Mutant: an entry that comes twice is passed over.
FinishUnchecked ==
    /\ at = "open" /\ pending = {}
    /\ \E now \in Time : snapshot' = Normalized(found, now)
    /\ at' = "idle" /\ offset' = 0
    /\ UNCHANGED <<world, found, twice, pending, opened, faults>>

\* All was listed: the snapshot is dated and built.
Finish ==
    /\ at = "open" /\ pending = {} /\ ~twice
    /\ \E now \in Time :
          /\ SnapshotAccepted(Normalized(found, now))
          /\ snapshot' = Normalized(found, now)
    /\ at' = "idle" /\ offset' = 0
    /\ UNCHANGED <<world, found, twice, pending, opened, faults>>

\* ErrStreamDuplicate, ErrConsumerDuplicate.
Duplicate ==
    /\ at = "open" /\ pending = {} /\ twice
    /\ Aborts /\ UNCHANGED faults

Next ==
    \/ \E s \in StreamName :
          \/ CreateStream(s) \/ UpdateStream(s) \/ DeleteStream(s)
          \/ \E c \in ConsumerName : CreateConsumer(s, c) \/ DeleteConsumer(s, c)
          \/ OpenStream(s) \/ StreamNotFound(s) \/ ListConsumers(s)
    \/ Begin \/ ListStreams \/ Fail \/ Finish \/ Duplicate

Spec == Init /\ [][Next]_vars

\* The requests of a discovery are answered, and discoveries are begun again and
\* again; nothing makes the broker change or a request fail.
Progress ==
    \/ Begin \/ ListStreams \/ Finish \/ Duplicate
    \/ \E s \in StreamName : OpenStream(s) \/ StreamNotFound(s) \/ ListConsumers(s)

FairSpec == Spec /\ WF_vars(Progress)

-----------------------------------------------------------------------------

Discovered == at = "idle" /\ snapshot # NoSnapshot

\* Every node and edge of a snapshot was on the broker at some time during the
\* discovery (client.go:39-108), though not all at the same time.
NothingInvented ==
    Discovered =>
        /\ DOMAIN snapshot.nodes \subseteq UNION {NodesOf(b) : b \in during}
        /\ DOMAIN snapshot.edges \subseteq UNION {EdgesOf(b) : b \in during}

\* What was on the broker during the whole discovery.
StayedNodes == {n \in UNION {NodesOf(b) : b \in during} : \A b \in during : n \in NodesOf(b)}
StayedEdges == {e \in UNION {EdgesOf(b) : b \in during} : \A b \in during : e \in EdgesOf(b)}

\* A full snapshot has what was on the broker during the whole discovery, so that
\* the absence of a node means that it was created or deleted
\* (topology_snapshot.go:68, "whether absence can be used for reconciliation").
\* Not so: what is deleted between two pages makes the next one begin too late.
AbsenceIsReal ==
    Discovered => /\ StayedNodes \subseteq DOMAIN snapshot.nodes
                  /\ StayedEdges \subseteq DOMAIN snapshot.edges

\* Every list of the broker fitted into one page all the time.
OnePageEach ==
    \A b \in during : \A l \in List : Cardinality(Entries(b, l)) <= PageSize

\* But as long as no list is longer than a page, absence is real, whatever else
\* happens between the requests (client.go:46, 81).
AbsenceIsRealOnOnePage == OnePageEach => AbsenceIsReal

Missed == StayedNodes \ DOMAIN snapshot.nodes
MissedStreams == {s \in StreamName : StreamId(s) \in Missed}
MissedConsumers(s) == {c \in ConsumerName : ConsumerId(s, c) \in Missed}

\* Longer lists miss no more of the entries that stayed than they have entries that were
\* deleted in the meantime; for a stream to be among these it must have been created
\* again, or it could not have been opened.  Of a stream that was found no subject that
\* stayed is missed (client.go:46-59, 68, 81-98).
MissesNoMoreThanWasDeleted ==
    Discovered =>
        /\ Cardinality(MissedStreams)
             <= Cardinality({s \in gone[NoStream] : StreamId(s) \in DOMAIN snapshot.nodes})
        /\ \A s \in StreamName : StreamId(s) \in DOMAIN snapshot.nodes =>
              /\ Cardinality(MissedConsumers(s))
                   <= Cardinality({c \in gone[s] : ConsumerId(s, c) \in DOMAIN snapshot.nodes})
              /\ \A e \in StayedEdges : e.kind = "captured_by" /\ e.target = StreamId(s) =>
                    e \in DOMAIN snapshot.edges

\* A discovery that met a stream just deleted, or an entry twice, has failed as a
\* whole (client.go:70, 85, normalize.go:86, 136); but once the broker does not change
\* any more, discoveries succeed, and their snapshots are exactly what is on it.
EventuallyExact ==
    []<>(/\ Discovered
         /\ DOMAIN snapshot.nodes = NodesOf(broker)
         /\ DOMAIN snapshot.edges = EdgesOf(broker))

=============================================================================
