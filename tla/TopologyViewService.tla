------------------------- MODULE TopologyViewService -------------------------
(***************************************************************************)
(* TopologyViewService.Current, the read path of the topology API, called  *)
(* concurrently while refreshes replace the declared snapshot, observations*)
(* are recorded and expire, and the clock is set.  A call reads the        *)
(* declared snapshot, the clock and the active observations one after the  *)
(* other, and may find in between that a store does not answer.            *)
(***************************************************************************)
EXTENDS TopologyProjection

CONSTANTS
    Reader,      \* API requests
    Snapshots,   \* the snapshots the refreshes store, in their order
    NewFacts,    \* the facts that are ingested
    Retention,   \* EVENTATLAS_OBSERVATION_RETENTION
    Clock,       \* bound: readings of the clock
    NoView,      \* no view
    MaxFacts     \* bound: ingested facts

ASSUME ReadPathAssumption ==
    /\ NewFacts \subseteq Fact
    /\ Retention \in Nat \ {0} /\ Clock \subseteq Nat \ {0} /\ MaxFacts \in Nat
    /\ Snapshots \in Seq(Snapshot)
    /\ \A i \in DOMAIN Snapshots :
          /\ SnapshotAccepted(Snapshots[i]) /\ IsFiniteSet(DOMAIN Snapshots[i].nodes)
          /\ \A k \in Key : ServiceNode[k.service] \in DOMAIN Snapshots[i].nodes
                             => Snapshots[i].nodes[ServiceNode[k.service]].kind = "service"

\* What a call can project.
Views ==
    {Projected(Snapshots[i], aggregates, now - Retention, now) :
        i \in DOMAIN Snapshots, aggregates \in Aggregates, now \in Clock}

ASSUME NoViewAssumption == NoView \notin Views

VARIABLES
    refreshes,    \* how many snapshots were stored: the last one is declared
    aggregates,   \* the observation store
    facts,        \* how many facts were ingested
    lastSuccess,  \* the view kept for failing calls
    call          \* the calls: their step and what they have read

vars == <<refreshes, aggregates, facts, lastSuccess, call>>
environment == <<refreshes, aggregates, facts>>

\* A call: its step, the number of the snapshot it read, the time it took, the
\* view it projected or fell back to, and what was stored when it began (history).
NothingKnown == [version |-> 0, aggregates |-> NoAggregates]

Calls == [at : {"idle", "declared", "clock", "list", "keep", "fallback", "missing", "returned",
               "failed", "notFound"},
          version : 0..Len(Snapshots), time : Clock \cup {0}, view : Views \cup {NoView},
          knew : [version : 0..Len(Snapshots), aggregates : Aggregates]]

NoCall == [at |-> "idle", version |-> 0, time |-> 0, view |-> NoView, knew |-> NothingKnown]

TypeOK ==
    /\ refreshes \in 0..Len(Snapshots)
    /\ aggregates \in Aggregates
    /\ facts \in 0..MaxFacts
    /\ lastSuccess \in Views \cup {NoView}
    /\ call \in [Reader -> Calls]
    /\ \A r \in Reader : /\ call[r].version \in 0..refreshes
                         /\ call[r].at \in {"keep", "returned"} <=> call[r].view # NoView

Init ==
    /\ refreshes = 0 /\ aggregates = NoAggregates /\ facts = 0
    /\ lastSuccess = NoView
    /\ call = [r \in Reader |-> NoCall]

-----------------------------------------------------------------------------
(* What goes on around the calls.                                          *)

Refresh ==
    /\ refreshes < Len(Snapshots)
    /\ refreshes' = refreshes + 1
    /\ UNCHANGED <<aggregates, facts, lastSuccess, call>>

Ingest ==
    /\ facts < MaxFacts
    /\ facts' = facts + 1
    /\ \E fact \in NewFacts : aggregates' = WithFact(aggregates, fact)
    /\ UNCHANGED <<refreshes, lastSuccess, call>>

-----------------------------------------------------------------------------
(* TopologyViewService.Current.                                            *)

\* A call ends, or goes on without anything it has read.
Ends(r, at, view) == call' = [call EXCEPT ![r] = [NoCall EXCEPT !.at = at, !.view = view]]

\* A request arrives.
Begin(r) ==
    /\ call[r].at \in {"idle", "returned", "failed", "notFound"}
    /\ call' = [call EXCEPT ![r] = [NoCall EXCEPT
                    !.at = "declared",
                    !.knew = [version |-> refreshes, aggregates |-> aggregates]]]
    /\ UNCHANGED <<environment, lastSuccess>>

\* TopologyService.Current; without a snapshot it is ErrTopologyNotFound.
ReadDeclared(r) ==
    /\ call[r].at = "declared"
    /\ IF refreshes = 0
       THEN call' = [call EXCEPT ![r].at = "missing"]
       ELSE call' = [call EXCEPT ![r].at = "clock", ![r].version = refreshes]
    /\ UNCHANGED <<environment, lastSuccess>>

ReadClock(r) ==
    /\ call[r].at = "clock"
    /\ \E now \in Clock :
          call' = [call EXCEPT ![r].at = "list", ![r].time = now]
    /\ UNCHANGED <<environment, lastSuccess>>

\* The projection of the snapshot and the time that were read before.
ProjectionOf(r) ==
    Projected(Snapshots[call[r].version], aggregates,
              call[r].time - Retention, call[r].time)

\* ListActive and the projection of what it returns.
Project(r) ==
    /\ call[r].at = "list"
    /\ LET view == ProjectionOf(r)
       IN  IF ProjectionAccepted(Snapshots[call[r].version], view)
           THEN call' = [call EXCEPT ![r].at = "keep", ![r].view = view]
           ELSE Ends(r, "fallback", NoView)
    /\ UNCHANGED <<environment, lastSuccess>>

\* Mutant: an error is returned at once.
FailsAtOnce(r) ==
    /\ call[r].at \in {"declared", "list"}
    /\ Ends(r, "failed", NoView)
    /\ UNCHANGED <<environment, lastSuccess>>

\* Mutant: a snapshot that cannot be read is taken for one that is not there.
FailureIsAbsence(r) ==
    /\ call[r].at \in {"declared", "list"}
    /\ call' = [call EXCEPT ![r] = [NoCall EXCEPT !.at = "missing", !.knew = call[r].knew]]
    /\ UNCHANGED <<environment, lastSuccess>>

\* A store does not answer, or the request is cancelled.
ReadFails(r) ==
    /\ call[r].at \in {"declared", "list"}
    /\ Ends(r, "fallback", NoView)
    /\ UNCHANGED <<environment, lastSuccess>>

\* Mutant: the view of the slowest call is kept.
KeepUnordered(r) ==
    /\ call[r].at = "keep"
    /\ lastSuccess' = call[r].view
    /\ Ends(r, "returned", call[r].view)
    /\ UNCHANGED environment

\* Under the lock: only a view that was not generated earlier replaces another.
Keep(r) ==
    /\ call[r].at = "keep"
    /\ lastSuccess' = IF \/ lastSuccess = NoView
                         \/ call[r].view.generatedAt >= lastSuccess.generatedAt
                      THEN call[r].view ELSE lastSuccess
    /\ Ends(r, "returned", call[r].view)
    /\ UNCHANGED environment

\* lastSuccessfulOr; the API answers 404 for ErrTopologyNotFound, and 500 for any
\* other error.
Fallback(r) ==
    /\ call[r].at \in {"fallback", "missing"}
    /\ Ends(r, IF lastSuccess # NoView THEN "returned"
               ELSE IF call[r].at = "missing" THEN "notFound" ELSE "failed", lastSuccess)
    /\ UNCHANGED <<environment, lastSuccess>>

Current(r) == \/ Begin(r) \/ ReadDeclared(r) \/ ReadClock(r) \/ Project(r)
              \/ ReadFails(r) \/ Keep(r) \/ Fallback(r)

Next == Refresh \/ Ingest \/ \E r \in Reader : Current(r)

Spec == Init /\ [][Next]_vars

-----------------------------------------------------------------------------

Returned(r) == call[r].at = "returned"

\* No snapshot that was stored and no aggregate that was recorded makes a
\* projection fail: NewTopologyView accepts every one (topology_view.go:94-230).
ProjectionNeverFails ==
    \A r \in Reader : call[r].at = "list" =>
        ProjectionAccepted(Snapshots[call[r].version], ProjectionOf(r))

\* Every active aggregate is counted as unresolved or as ambiguous or is part of
\* one piece of evidence; the range of that evidence has no slack, and its
\* metadata are those of an aggregate seen last (topology_view_projector.go:
\* 98-138,363-380).
ProjectionIsExact ==
    \A r \in Reader : call[r].at = "list" =>
        LET declared == Snapshots[call[r].version]
            view == ProjectionOf(r)
            active == Active(aggregates, call[r].time - Retention)
            keys == {k \in active : Resolved(k, declared.nodes)}
            Merged(e, by) == {k \in keys : k.source = by.source
                                              /\ ObservedEdge(k, declared.nodes) = e}
        IN  /\ view.unresolved + view.ambiguous + Cardinality(keys) = Cardinality(active)
            /\ \A e \in DOMAIN view.edges : \A by \in DOMAIN view.edges[e] :
                  by.mode = "observed" =>
                    LET evidence == view.edges[e][by]
                    IN  /\ \A k \in Merged(e, by) : /\ evidence.first <= aggregates[k].first
                                                    /\ evidence.last >= aggregates[k].last
                        /\ \E k \in Merged(e, by) : aggregates[k].first = evidence.first
                        /\ \E k \in Merged(e, by) : /\ aggregates[k].last = evidence.last
                                                    /\ aggregates[k].metadata = evidence.metadata

\* A view of its own shows all that was stored when its call began: a snapshot
\* not older than the one then current, and in full every observation that is
\* active at its time and resolves (README.md, "on every read").
ShowsWhatWasKnown ==
    \A r \in Reader : call[r].at = "keep" =>
        LET declared == Snapshots[call[r].version]
            view == call[r].view
            before == call[r].knew.aggregates
        IN  /\ call[r].version >= call[r].knew.version
            /\ \A k \in DOMAIN before :
                 (before[k].last >= view.generatedAt - Retention /\ Resolved(k, declared.nodes)) =>
                   LET e == ObservedEdge(k, declared.nodes)
                   IN  /\ e \in DOMAIN view.edges
                       /\ ObservedBy(k.source) \in DOMAIN view.edges[e]
                       /\ view.edges[e][ObservedBy(k.source)].first <= before[k].first
                       /\ view.edges[e][ObservedBy(k.source)].last >= before[k].last
                       /\ view.edges[e][ObservedBy(k.source)].count >= before[k].count

\* Once a call has returned a view no call returns an error, whatever fails
\* (topology_view_service.go:27-29, "remains readable").
StaysReadable ==
    [][\A r, s \in Reader :
          Returned(s) /\ call'[r].at \in {"failed", "notFound"} => call[r].at = call'[r].at]_vars

\* "topology has not been discovered yet" (api.go:49-51) is answered only if that
\* was so when the request arrived, never because a store failed.
NotFoundIsTrue ==
    [][\A r \in Reader :
          call[r].at # "notFound" /\ call'[r].at = "notFound" => call[r].knew.version = 0]_vars

\* A call that falls back shows nothing generated before a view that some call
\* has returned, although slow calls finish in any order and the clock is set.
FallbackNeverGoesBack ==
    [][\A r, s \in Reader :
          /\ call[r].at \in {"fallback", "missing"} /\ call'[r].at = "returned"
          /\ Returned(s)
          => call'[r].view.generatedAt >= call[s].view.generatedAt]_vars

=============================================================================
