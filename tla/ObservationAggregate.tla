------------------------ MODULE ObservationAggregate ------------------------
(***************************************************************************)
(* Observation aggregates: what internal/observation/aggregate.go keeps of *)
(* the runtime facts with one identity.  A fact is a record of its         *)
(* identity (Fact.Key: source, scope, relationship, service, destination), *)
(* its time and its metadata.  An aggregate keeps the range of times, a    *)
(* saturating count and the metadata of the latest fact.                   *)
(***************************************************************************)
EXTENDS Integers

CONSTANTS
    Key,        \* identities of aggregates
    Instant,    \* observation times, the zero time excluded
    Metadata,   \* what facts carry besides
    MaxCount    \* the largest count the store can represent

ASSUME AggregateAssumption == Instant \subseteq Nat \ {0} /\ MaxCount \in Nat \ {0}

Fact == [key : Key, at : Instant, metadata : Metadata]

Aggregate == [first : Instant, last : Instant, count : 1..MaxCount,
              metadata : Metadata]

Aggregates == UNION {[K -> Aggregate] : K \in SUBSET Key}

NewAggregate(fact) ==
    [first |-> fact.at, last |-> fact.at, count |-> 1, metadata |-> fact.metadata]

\* Mutant: the metadata of whatever arrives last.
AddLatestArrival(a, fact) ==
    [first    |-> IF fact.at < a.first THEN fact.at ELSE a.first,
     last     |-> IF fact.at >= a.last THEN fact.at ELSE a.last,
     count    |-> IF a.count < MaxCount THEN a.count + 1 ELSE a.count,
     metadata |-> fact.metadata]

\* Late facts extend first without moving last or its metadata backwards.
Add(a, fact) ==
    [first    |-> IF fact.at < a.first THEN fact.at ELSE a.first,
     last     |-> IF fact.at >= a.last THEN fact.at ELSE a.last,
     count    |-> IF a.count < MaxCount THEN a.count + 1 ELSE a.count,
     metadata |-> IF fact.at >= a.last THEN fact.metadata ELSE a.metadata]

\* Mutant: the fact that starts an aggregate is added to it as well.
StartedAndAdded(aggregates, fact) ==
    [k \in DOMAIN aggregates \cup {fact.key} |->
        IF k # fact.key THEN aggregates[k]
        ELSE Add(IF k \in DOMAIN aggregates THEN aggregates[k] ELSE NewAggregate(fact),
                 fact)]

\* The aggregates after one fact.
WithFact(aggregates, fact) ==
    [k \in DOMAIN aggregates \cup {fact.key} |->
        IF k # fact.key THEN aggregates[k]
        ELSE IF k \in DOMAIN aggregates THEN Add(aggregates[k], fact)
        ELSE NewAggregate(fact)]

\* Mutant: the window does not contain its start.
ActiveAfter(aggregates, since) ==
    {k \in DOMAIN aggregates : aggregates[k].last > since}

\* ListActive: an aggregate seen at the very start of the window is active.
Active(aggregates, since) ==
    {k \in DOMAIN aggregates : aggregates[k].last >= since}

NoAggregates == [k \in {} |-> [first |-> 0, last |-> 0, count |-> 0, metadata |-> 0]]

=============================================================================
