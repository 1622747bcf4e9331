--------------------- MODULE OverlappingRefreshesProofs ---------------------
(***************************************************************************)
(* Proofs about OverlappingRefreshes, for any number of processes and      *)
(* refreshes.  The inductive invariant says of every snapshot a call holds *)
(* that it is genuine and claims nothing nobody has seen; that the         *)
(* refreshes of a process do not overlap, so that a call of Replace knows  *)
(* of all earlier ones of its process that they have returned; and hence   *)
(* that what an earlier one asked for can not take effect after it.        *)
(***************************************************************************)
EXTENDS OverlappingRefreshes, ReconciliationProofs

\* The ends of the ranges of s are instants in seen.
Sighted(s, seen) ==
    s # NoSnapshot =>
        \A k \in DOMAIN s.edges :
            {s.edges[k][System].first, s.edges[k][System].last} \subseteq seen[k]

Sound(s, seen) == (s # NoSnapshot => Genuine(s)) /\ Sighted(s, seen)

ContentInv ==
    /\ Sound(stored, sighted)
    /\ \A w \in Attempt : Sound(replace[w].content, sighted)
    /\ \A p \in Process : Sound(read[p].content, sighted)

AttemptInv ==
    \A p \in Process :
        /\ at[p] \in {"current", "reconciled", "replace"} => FromBroker(incoming[p])
        /\ Sighted(incoming[p], sighted)
        /\ read[p].state \in {"called", "looked"} => at[p] = "current"

SequenceInv ==
    /\ \A p \in Process : at[p] # "idle" =>
          /\ attempt[p] \in 1..begun /\ owner[attempt[p]] = p
          /\ \A w \in 1..begun : owner[w] = p => w <= attempt[p]
    /\ \A w \in Attempt : replace[w].state # "idle" => w <= begun
    /\ \A w \in Attempt : replace[w].state = "called" =>
          at[owner[w]] = "replace" /\ attempt[owner[w]] = w

OrderInv ==
    /\ \A u, w \in Attempt :
          /\ replace[u].state # "idle" /\ replace[w].state # "idle"
          /\ u < w /\ owner[u] = owner[w]
          => u \in replace[w].after
    /\ \A w \in Attempt :
          /\ replace[w].state = "succeeded" => replace[w].applied
          /\ replace[w].applied =>
                /\ replace[w].state # "idle" /\ by # 0
                /\ by >= w \/ owner[by] # owner[w]

IInv == TypeOK /\ ContentInv /\ AttemptInv /\ SequenceInv /\ OrderInv

-----------------------------------------------------------------------------
(* What is sound stays sound.                                              *)

\* What was seen once has been seen.
LEMMA SoundLater ==
    ASSUME NEW s \in Snapshot \cup {NoSnapshot}, NEW seen, NEW more,
           \A k \in EdgeKey : seen[k] \subseteq more[k]
    PROVE  /\ Sound(s, seen) => Sound(s, more)
           /\ Sighted(s, seen) => Sighted(s, more)
<1>1. s # NoSnapshot => DOMAIN s.edges \subseteq EdgeKey
  BY DEF Snapshot, EdgeMap
<1> QED
  BY <1>1 DEF Sound, Sighted

\* A reconciled snapshot claims of an edge what one of the two claimed.
LEMMA ReconciledSound ==
    ASSUME NEW c \in Snapshot \cup {NoSnapshot}, NEW i, FromBroker(i), NEW seen,
           Sound(c, seen), Sighted(i, seen)
    PROVE  /\ Reconciled(c, i) \in Snapshot
           /\ Sound(Reconciled(c, i), seen)
<1> DEFINE n == Reconciled(c, i)
<1>1. i \in Snapshot /\ Genuine(i) /\ i # NoSnapshot
  BY SnapshotOfGenuine DEF FromBroker
<1>2. n \in Snapshot /\ n # NoSnapshot /\ Genuine(n)
  BY ReconciledGenuine DEF Sound
<1>3. CASE c = NoSnapshot
  BY <1>1, <1>2, <1>3 DEF Reconciled, Sound
<1>4. CASE c # NoSnapshot
  <2>1. c \in Snapshot /\ Genuine(c) /\ Sighted(c, seen)
    BY <1>4 DEF Sound
  <2>2. n.edges = ReconciledEdges(c, i)
    <3>1. i = [source |-> i.source, scope |-> i.scope, capturedAt |-> i.capturedAt,
               completeness |-> i.completeness, nodes |-> i.nodes, edges |-> i.edges]
      BY <1>1 DEF Snapshot
    <3> QED
      BY <1>4, <3>1 DEF Reconciled
  <2> SUFFICES ASSUME NEW k \in DOMAIN n.edges
               PROVE  /\ n.edges[k][System].first \in seen[k]
                      /\ n.edges[k][System].last \in seen[k]
    BY <1>2 DEF Sound, Sighted
  <2>3. CASE k \notin DOMAIN i.edges
    <3>1. k \in DOMAIN c.edges /\ n.edges[k] = c.edges[k]
      BY <2>2, <2>3 DEF ReconciledEdges
    <3> QED
      BY <1>4, <2>1, <3>1 DEF Sighted
  <2>4. CASE k \in DOMAIN i.edges /\ k \notin DOMAIN c.edges
    <3>1. n.edges[k] = i.edges[k]
      BY <2>2, <2>4 DEF ReconciledEdges
    <3> QED
      BY <1>1, <2>4, <3>1 DEF Sighted
  <2>5. CASE k \in DOMAIN i.edges /\ k \in DOMAIN c.edges
    <3>1. n.edges[k] = ReconciledEvidence(c.edges[k], i.edges[k])
      BY <2>2, <2>5 DEF ReconciledEdges
    <3>2. System \in DOMAIN c.edges[k] /\ System \in DOMAIN i.edges[k]
      BY <1>1, <2>1, <2>5 DEF Genuine
    <3>3. n.edges[k][System] = MergedRange(c.edges[k][System], i.edges[k][System])
      BY <3>1, <3>2 DEF ReconciledEvidence
    <3>4. /\ {c.edges[k][System].first, c.edges[k][System].last} \subseteq seen[k]
          /\ {i.edges[k][System].first, i.edges[k][System].last} \subseteq seen[k]
      BY <1>1, <1>4, <2>1, <2>5 DEF Sighted
    <3> QED
      BY <3>3, <3>4 DEF MergedRange
  <2> QED
    BY <2>3, <2>4, <2>5
<1> QED
  BY <1>3, <1>4

-----------------------------------------------------------------------------
(* The steps.                                                              *)

\* Initially.
LEMMA InitIInv == Init => IInv
<1> SUFFICES ASSUME Init PROVE IInv
  OBVIOUS
<1> USE DEF Init, Store!Init, Store!NotCalled, Store!NotReading
<1>1. TypeOK
  BY BoundsAssumption DEF TypeOK
<1>2. ContentInv
  BY DEF ContentInv, Sound, Sighted
<1>3. AttemptInv
  BY DEF AttemptInv, Sighted
<1>4. SequenceInv /\ OrderInv
  BY DEF SequenceInv, OrderInv
<1> QED
  BY <1>1, <1>2, <1>3, <1>4 DEF IInv

\* A refresh begins: no other of its process is under way.
LEMMA BeginKeeps ==
    ASSUME IInv, NEW p \in Process, Begin(p)
    PROVE  IInv'
<1> USE DEF Begin, Goes
<1>0. begun \in Nat /\ begun + 1 \in 1..MaxAttempts /\ MaxAttempts \in Nat
  BY BoundsAssumption DEF IInv, TypeOK
<1>1. TypeOK'
  <2>1. attempt' \in [Process -> 0..MaxAttempts]
    BY <1>0 DEF IInv, TypeOK
  <2>2. owner' \in [1..begun' -> Process] /\ by' \in 0..begun'
    BY <1>0 DEF IInv, TypeOK
  <2> QED
    BY <1>0, <2>1, <2>2 DEF IInv, TypeOK
<1>2. ContentInv'
  BY DEF IInv, ContentInv
<1>3. AttemptInv'
  BY DEF IInv, TypeOK, AttemptInv
<1>4. \A w \in Attempt : replace[w].state # "idle" => w \in 1..begun /\ owner'[w] = owner[w]
  BY BoundsAssumption DEF IInv, TypeOK, SequenceInv, Attempt
<1>5. SequenceInv'
  <2>1. \A q \in Process : at'[q] # "idle" =>
          /\ attempt'[q] \in 1..begun' /\ owner'[attempt'[q]] = q
          /\ \A w \in 1..begun' : owner'[w] = q => w <= attempt'[q]
    BY BoundsAssumption DEF IInv, TypeOK, SequenceInv
  <2>2. \A w \in Attempt : replace'[w].state # "idle" => w <= begun'
    BY <1>0, <1>4
  <2>3. \A w \in Attempt : replace'[w].state = "called" =>
          at'[owner'[w]] = "replace" /\ attempt'[owner'[w]] = w
    <3> SUFFICES ASSUME NEW w \in Attempt, replace[w].state = "called"
                 PROVE  at'[owner'[w]] = "replace" /\ attempt'[owner'[w]] = w
      OBVIOUS
    <3>1. /\ w \in 1..begun /\ owner'[w] = owner[w]
          /\ at[owner[w]] = "replace" /\ attempt[owner[w]] = w
      BY <1>4 DEF IInv, SequenceInv
    <3>2. owner[w] \in Process /\ owner[w] # p
      BY <3>1 DEF IInv, TypeOK
    <3>3. at'[owner[w]] = at[owner[w]] /\ attempt'[owner[w]] = attempt[owner[w]]
      BY <3>2 DEF IInv, TypeOK
    <3> QED
      BY <3>1, <3>3
  <2> QED
    BY <2>1, <2>2, <2>3 DEF SequenceInv
<1>6. by # 0 => by \in 1..begun /\ owner'[by] = owner[by]
  BY <1>0 DEF IInv, TypeOK
<1>7. OrderInv'
  <2>1. replace' = replace /\ by' = by
    OBVIOUS
  <2>2. \A u, w \in Attempt :
          /\ replace[u].state # "idle" /\ replace[w].state # "idle"
          /\ u < w /\ owner'[u] = owner'[w]
          => u \in replace[w].after
    BY <1>4 DEF IInv, OrderInv
  <2>3. \A w \in Attempt : replace[w].applied =>
          by # 0 /\ (by >= w \/ owner'[by] # owner'[w])
    BY <1>4, <1>6 DEF IInv, OrderInv
  <2> HIDE DEF Begin
  <2> QED
    BY <2>1, <2>2, <2>3 DEF IInv, OrderInv
<1> QED
  BY <1>1, <1>2, <1>3, <1>5, <1>7 DEF IInv

\* The broker changes.
LEMMA BrokerChangesKeeps ==
    ASSUME IInv, BrokerChanges
    PROVE  IInv'
<1> USE DEF BrokerChanges, refreshes, history
<1>1. TypeOK'
  BY BoundsAssumption DEF IInv, TypeOK
<1>2. ContentInv' /\ AttemptInv'
  BY DEF IInv, ContentInv, AttemptInv
<1>3. SequenceInv' /\ OrderInv'
  BY DEF IInv, SequenceInv, OrderInv
<1> QED
  BY <1>1, <1>2, <1>3 DEF IInv

\* A provider answers: everything held before was sighted before.
LEMMA DiscoverKeeps ==
    ASSUME IInv, NEW p \in Process, Discover(p)
    PROVE  IInv'
<1> USE DEF Discover, Goes, Store!CallCurrent
<1>1. PICK t \in Time, report \in Reports : \E g \in Visible(broker, report) :
         /\ incoming' = [incoming EXCEPT ![p] = SnapshotOf(g, t, report)]
         /\ sighted' = [k \in EdgeKey |-> sighted[k] \cup IF k \in g.edges THEN {t} ELSE {}]
  OBVIOUS
<1>2. PICK g \in Visible(broker, report) :
         /\ incoming' = [incoming EXCEPT ![p] = SnapshotOf(g, t, report)]
         /\ sighted' = [k \in EdgeKey |-> sighted[k] \cup IF k \in g.edges THEN {t} ELSE {}]
  BY <1>1
<1> HIDE DEF Discover
<1> DEFINE i == SnapshotOf(g, t, report)
<1>3. g \in Graph
  BY <1>2 DEF Visible, IInv, TypeOK
<1>4. i \in Snapshot /\ FromBroker(i) /\ i # NoSnapshot
  BY <1>3, SnapshotOfGenuine DEF FromBroker
<1>5. \A k \in EdgeKey : sighted[k] \subseteq sighted'[k]
  BY <1>2
<1>6. Sighted(i, sighted')
  <2>1. i.edges = [k \in g.edges |-> [x \in {System} |-> [first |-> t, last |-> t]]]
    BY DEF SnapshotOf
  <2>2. g.edges \subseteq EdgeKey
    BY <1>3, GraphAssumption
  <2>3. \A k \in g.edges : t \in sighted'[k]
    BY <1>2, <2>2
  <2> QED
    BY <2>1, <2>3 DEF Sighted
<1> HIDE DEF i
<1>7. TypeOK'
  <2>1. sighted' \in [EdgeKey -> SUBSET Time]
    BY <1>2 DEF IInv, TypeOK
  <2>2. incoming' \in [Process -> Snapshot \cup {NoSnapshot}]
    BY <1>2, <1>4 DEF IInv, TypeOK, i
  <2> QED
    BY <2>1, <2>2 DEF Discover, IInv, TypeOK
<1>8. ContentInv'
  <2>1. stored' = stored /\ replace' = replace
    BY DEF Discover
  <2>2. \A q \in Process : read'[q].content \in {read[q].content, NoSnapshot}
    BY DEF Discover, IInv, TypeOK
  <2>3. Sound(NoSnapshot, sighted')
    BY DEF Sound, Sighted
  <2> QED
    BY <1>5, <2>1, <2>2, <2>3, SoundLater DEF IInv, TypeOK, ContentInv
<1>9. AttemptInv'
  <2>1. \A q \in Process : incoming'[q] = IF q = p THEN i ELSE incoming[q]
    BY <1>2 DEF IInv, TypeOK, i
  <2>2. \A q \in Process : Sighted(incoming'[q], sighted')
    BY <1>5, <1>6, <2>1, SoundLater DEF IInv, TypeOK, AttemptInv
  <2>3. \A q \in Process : /\ at'[q] = IF q = p THEN "current" ELSE at[q]
                           /\ q # p => read'[q] = read[q]
    BY DEF Discover, IInv, TypeOK
  <2> QED
    BY <1>4, <2>1, <2>2, <2>3 DEF IInv, AttemptInv
<1>10. SequenceInv'
  BY DEF Discover, IInv, TypeOK, SequenceInv
<1>11. OrderInv'
  BY DEF Discover, IInv, OrderInv
<1> QED
  BY <1>7, <1>8, <1>9, <1>10, <1>11 DEF IInv

\* The store shows a reader what it holds.
LEMMA LooksKeeps ==
    ASSUME IInv, NEW p \in Process, Looks(p)
    PROVE  IInv'
<1> USE DEF Looks, Store!Look, refreshes, history
<1>1. TypeOK'
  BY DEF IInv, TypeOK
<1>2. ContentInv'
  BY DEF IInv, TypeOK, ContentInv
<1>3. AttemptInv'
  BY DEF IInv, TypeOK, AttemptInv
<1>4. SequenceInv' /\ OrderInv'
  BY DEF IInv, SequenceInv, OrderInv
<1> QED
  BY <1>1, <1>2, <1>3, <1>4 DEF IInv

Calls == [state : {"idle", "called", "succeeded", "failed"},
          content : Snapshot \cup {NoSnapshot}, applied : BOOLEAN, after : SUBSET Attempt]

\* The record of a call of Replace stays one.
LEMMA CallEdits ==
    ASSUME NEW c \in Calls
    PROVE  /\ \A state \in {"idle", "called", "succeeded", "failed"} :
                 [c EXCEPT !.state = state] \in Calls
           /\ [c EXCEPT !.applied = TRUE] \in Calls
           /\ \A content \in Snapshot \cup {NoSnapshot}, after \in SUBSET Attempt :
                 [c EXCEPT !.state = "called", !.content = content, !.after = after] \in Calls
  BY DEF Calls

\* A call of Replace changes its own record only.
LEMMA CallsType ==
    ASSUME TypeOK, NEW w \in Attempt, NEW c \in Calls, replace' = [replace EXCEPT ![w] = c]
    PROVE  /\ replace' \in [Attempt -> Calls]
           /\ \A u \in Attempt : replace'[u] = IF u = w THEN c ELSE replace[u]
  BY DEF TypeOK, Calls

\* What a refresh leaves behind.
LEMMA EndsType ==
    ASSUME TypeOK, NEW p \in Process, Ends(p)
    PROVE  /\ at' \in [Process -> {"idle", "discover", "current", "reconciled", "replace"}]
           /\ attempt' \in [Process -> 0..MaxAttempts]
           /\ incoming' \in [Process -> Snapshot \cup {NoSnapshot}]
           /\ begun' = begun
  BY BoundsAssumption DEF Ends, Goes, TypeOK

\* A refresh that ends, and a Replace whose call has returned if it made one.
LEMMA EndsKeeps ==
    ASSUME IInv, NEW p \in Process, Ends(p), at[p] # "idle",
           TypeOK', UNCHANGED <<stored, history>>,
           \A w \in Attempt : /\ replace'[w].content = replace[w].content
                              /\ replace'[w].applied = replace[w].applied
                              /\ replace'[w].after = replace[w].after,
           \A w \in Attempt :
              \/ replace'[w].state = replace[w].state
                    /\ ~(at[p] = "replace" /\ w = attempt[p])
              \/ /\ at[p] = "replace" /\ w = attempt[p] /\ replace[w].state = "called"
                 /\ replace'[w].state \in {"succeeded", "failed"}
                 /\ replace'[w].state = "succeeded" => replace[w].applied,
           \A q \in Process : /\ read'[q].content \in {read[q].content, NoSnapshot}
                              /\ q # p => read'[q] = read[q],
           read'[p].state \notin {"called", "looked"}
    PROVE  IInv'
<1> USE DEF Ends, Goes, history
<1>1. ContentInv'
  BY DEF IInv, ContentInv, Sound, Sighted
<1>2. \A q \in Process :
         /\ at'[q] = IF q = p THEN "idle" ELSE at[q]
         /\ attempt'[q] = IF q = p THEN 0 ELSE attempt[q]
         /\ incoming'[q] = IF q = p THEN NoSnapshot ELSE incoming[q]
  BY DEF IInv, TypeOK
<1>3. AttemptInv'
  BY <1>2 DEF IInv, AttemptInv, Sighted
<1>4. SequenceInv'
  <2>1. \A q \in Process : at'[q] # "idle" =>
          /\ attempt'[q] \in 1..begun' /\ owner'[attempt'[q]] = q
          /\ \A w \in 1..begun' : owner'[w] = q => w <= attempt'[q]
    BY <1>2 DEF IInv, SequenceInv
  <2>2. \A w \in Attempt : replace'[w].state # "idle" => w <= begun'
    BY DEF IInv, SequenceInv
  <2>3. ASSUME NEW w \in Attempt, replace'[w].state = "called"
        PROVE  at'[owner'[w]] = "replace" /\ attempt'[owner'[w]] = w
    <3>1. /\ replace[w].state = "called" /\ ~(at[p] = "replace" /\ w = attempt[p])
          /\ at[owner[w]] = "replace" /\ attempt[owner[w]] = w /\ w <= begun
      BY <2>3 DEF IInv, SequenceInv
    <3>2. owner[w] \in Process /\ owner[w] # p
      BY <3>1, BoundsAssumption DEF IInv, TypeOK, Attempt
    <3> QED
      BY <1>2, <3>1, <3>2
  <2> QED
    BY <2>1, <2>2, <2>3 DEF SequenceInv
<1>5. OrderInv'
  BY DEF IInv, OrderInv
<1> QED
  BY <1>1, <1>3, <1>4, <1>5 DEF IInv

\* Current returns, and what it returned is reconciled.
LEMMA ReconcileKeeps ==
    ASSUME IInv, NEW p \in Process, Reconcile(p)
    PROVE  IInv'
<1> USE DEF Store!ReturnCurrent, history
<1>1. /\ at[p] = "current" /\ read[p].state = "looked"
      /\ read' = [read EXCEPT ![p].state = "returned"]
      /\ UNCHANGED <<stored, replace, broker, history, changes, faults>>
  BY DEF Reconcile
<1>2. CASE Goes(p, "reconciled") /\ UNCHANGED <<attempt, incoming, begun>>
  <2>1. TypeOK'
    BY <1>1, <1>2 DEF Goes, IInv, TypeOK
  <2>2. ContentInv'
    BY <1>1, <1>2 DEF IInv, TypeOK, ContentInv
  <2>3. AttemptInv'
    BY <1>1, <1>2 DEF Goes, IInv, TypeOK, AttemptInv
  <2>4. SequenceInv' /\ OrderInv'
    BY <1>1, <1>2 DEF Goes, IInv, TypeOK, SequenceInv, OrderInv
  <2> QED
    BY <2>1, <2>2, <2>3, <2>4 DEF IInv
<1>3. CASE Ends(p)
  <2>1. TypeOK'
    BY <1>1, <1>3, EndsType DEF IInv, TypeOK
  <2>2. \A q \in Process : /\ read'[q].content \in {read[q].content, NoSnapshot}
                           /\ q # p => read'[q] = read[q]
    BY <1>1 DEF IInv, TypeOK
  <2>3. read'[p].state \notin {"called", "looked"}
    BY <1>1 DEF IInv, TypeOK
  <2> QED
    BY <1>1, <1>3, <2>1, <2>2, <2>3, EndsKeeps
<1> QED
  BY <1>2, <1>3 DEF Reconcile

\* Replace is called: what its process asked for before has returned.
LEMMA ReplaceKeeps ==
    ASSUME IInv, NEW p \in Process, Replace(p)
    PROVE  IInv'
<1> DEFINE w == attempt[p]
           c == Reconciled(read[p].content, incoming[p])
<1>1. /\ at[p] = "reconciled" /\ replace[w].state = "idle"
      /\ replace' = [replace EXCEPT ![w].state = "called", ![w].content = c,
                                    ![w].after = Store!Returned]
      /\ at' = [at EXCEPT ![p] = "replace"]
      /\ UNCHANGED <<stored, read, broker, attempt, incoming, begun, history, changes, faults>>
  BY DEF Replace, Store!CallReplace, Goes
<1>2. /\ w \in Attempt /\ w \in 1..begun /\ owner[w] = p
      /\ \A u \in 1..begun : owner[u] = p => u <= w
  BY <1>1, BoundsAssumption DEF IInv, TypeOK, SequenceInv, Attempt
<1>3. c \in Snapshot /\ Sound(c, sighted)
  BY <1>1, ReconciledSound DEF IInv, TypeOK, ContentInv, AttemptInv
<1>4. Store!Returned = {u \in Attempt : replace[u].state \in {"succeeded", "failed"}}
  BY DEF Store!Returned
<1> HIDE DEF w, c
<1> DEFINE n == [replace[w] EXCEPT !.state = "called", !.content = c,
                                   !.after = Store!Returned]
<1>5. /\ replace' \in [Attempt -> Calls]
      /\ \A u \in Attempt : replace'[u] = IF u = w THEN n ELSE replace[u]
  <2>1. n \in Calls
    <3>1. replace[w] \in Calls /\ Store!Returned \in SUBSET Attempt
      BY <1>2, <1>4 DEF IInv, TypeOK, Calls
    <3> QED
      BY <1>3, <3>1, CallEdits
  <2>2. replace' = [replace EXCEPT ![w] = n]
    BY <1>1
  <2> HIDE DEF n
  <2> QED
    BY <1>2, <2>1, <2>2, CallsType DEF IInv
<1>6. \A u \in Attempt :
         /\ u # w => replace'[u] = replace[u]
         /\ replace'[u].applied = replace[u].applied
  <2>1. replace[w] \in Calls
    BY <1>2 DEF IInv, TypeOK, Calls
  <2>2. n.applied = replace[w].applied
    BY <2>1 DEF Calls
  <2> HIDE DEF n
  <2> QED
    BY <1>2, <1>5, <2>2
<1>7. replace'[w].state = "called" /\ replace'[w].content = c /\ replace'[w].after = Store!Returned
  BY <1>2, <1>5 DEF IInv, TypeOK
<1>8. TypeOK'
  BY <1>1, <1>5 DEF IInv, TypeOK, Calls, history
<1>9. ContentInv'
  BY <1>1, <1>3, <1>6, <1>7 DEF IInv, ContentInv, history
<1>10. AttemptInv'
  BY <1>1 DEF IInv, TypeOK, AttemptInv, history
<1>11. SequenceInv'
  <2>1. \A q \in Process : at'[q] = IF q = p THEN "replace" ELSE at[q]
    BY <1>1 DEF IInv, TypeOK
  <2>2. \A u \in Attempt : replace'[u].state = "called" =>
          at'[owner[u]] = "replace" /\ attempt[owner[u]] = u
    <3>1. \A u \in Attempt : replace[u].state = "called" => owner[u] \in Process
      BY BoundsAssumption DEF IInv, TypeOK, SequenceInv, Attempt
    <3> QED
      BY <1>2, <1>6, <2>1, <3>1 DEF w, IInv, SequenceInv
  <2>3. \A q \in Process : at'[q] # "idle" =>
          /\ attempt[q] \in 1..begun /\ owner[attempt[q]] = q
          /\ \A u \in 1..begun : owner[u] = q => u <= attempt[q]
    BY <1>1, <2>1 DEF IInv, SequenceInv
  <2>4. \A u \in Attempt : replace'[u].state # "idle" => u <= begun
    BY <1>2, <1>6 DEF IInv, SequenceInv
  <2> QED
    BY <1>1, <2>2, <2>3, <2>4 DEF SequenceInv, history
<1>12. OrderInv'
  <2>1. ASSUME NEW u \in Attempt, replace'[u].state # "idle", u # w, owner[u] = p
        PROVE  u < w /\ u \in replace'[w].after
    <3>1. replace[u].state # "idle" /\ u \in 1..begun
      BY <1>6, <2>1, BoundsAssumption DEF IInv, TypeOK, SequenceInv, Attempt
    <3>2. u < w
      BY <1>2, <2>1, <3>1, BoundsAssumption DEF IInv, TypeOK, Attempt
    <3>3. replace[u].state # "called"
      BY <1>1, <2>1 DEF IInv, SequenceInv
    <3>4. u \in Store!Returned
      BY <1>4, <3>1, <3>3 DEF IInv, TypeOK
    <3> QED
      BY <1>7, <3>2, <3>4
  <2>2. ASSUME NEW u \in Attempt, NEW v \in Attempt,
               replace'[u].state # "idle", replace'[v].state # "idle",
               u < v, owner[u] = owner[v]
        PROVE  u \in replace'[v].after
    <3>1. CASE v = w
      BY <1>2, <2>1, <2>2, <3>1 DEF Attempt
    <3>2. CASE u = w
      <4>1. v # w /\ owner[v] = p
        BY <1>2, <2>2, <3>2 DEF Attempt
      <4>2. v < w
        BY <2>1, <2>2, <4>1
      <4> QED
        BY <2>2, <3>2, <4>2 DEF Attempt
    <3>3. CASE u # w /\ v # w
      BY <1>6, <2>2, <3>3 DEF IInv, OrderInv
    <3> QED
      BY <3>1, <3>2, <3>3
  <2>3. \A u \in Attempt : replace'[u].state = "succeeded" => replace'[u].applied
    BY <1>6, <1>7 DEF IInv, OrderInv
  <2>4. \A u \in Attempt : replace'[u].applied =>
          replace'[u].state # "idle" /\ by # 0 /\ (by >= u \/ owner[by] # owner[u])
    BY <1>6, <1>7 DEF IInv, OrderInv
  <2> QED
    BY <1>1, <2>2, <2>3, <2>4 DEF OrderInv, history
<1> QED
  BY <1>8, <1>9, <1>10, <1>11, <1>12 DEF IInv

\* A refresh ends with its call of Replace.
LEMMA ReturnKeeps ==
    ASSUME IInv, NEW p \in Process, NEW state \in {"succeeded", "failed"},
           at[p] = "replace", Store!ReturnReplace(attempt[p], state), Ends(p),
           UNCHANGED <<broker, history, changes>>, faults' \in 0..MaxFaults
    PROVE  IInv'
<1> DEFINE w == attempt[p]
<1>1. /\ replace[w].state = "called" /\ (state = "succeeded" => replace[w].applied)
      /\ replace' = [replace EXCEPT ![w].state = state] /\ UNCHANGED <<stored, read>>
  BY DEF Store!ReturnReplace
<1>2. w \in Attempt
  BY BoundsAssumption DEF IInv, TypeOK, SequenceInv, Attempt
<1>3. /\ replace' \in [Attempt -> Calls]
      /\ \A u \in Attempt : replace'[u] = IF u = w THEN [replace[w] EXCEPT !.state = state]
                                           ELSE replace[u]
  <2>1. [replace[w] EXCEPT !.state = state] \in Calls
    <3>1. replace[w] \in Calls
      BY <1>2 DEF IInv, TypeOK, Calls
    <3> QED
      BY <3>1, CallEdits
  <2> QED
    BY <1>1, <1>2, <2>1, CallsType DEF IInv
<1>4. TypeOK'
  BY <1>1, <1>3, EndsType DEF IInv, TypeOK, Calls, history
<1> HIDE DEF w
<1>5. \A u \in Attempt : /\ replace'[u].content = replace[u].content
                         /\ replace'[u].applied = replace[u].applied
                         /\ replace'[u].after = replace[u].after
                         /\ replace'[u].state = IF u = w THEN state ELSE replace[u].state
  BY <1>2, <1>3 DEF IInv, TypeOK
<1>6. read[p].state \notin {"called", "looked"}
  BY DEF IInv, AttemptInv
<1> QED
  BY <1>1, <1>2, <1>4, <1>5, <1>6, EndsKeeps DEF w

\* A refresh succeeds.
LEMMA SucceedKeeps ==
    ASSUME IInv, NEW p \in Process, Succeed(p)
    PROVE  IInv'
  BY ReturnKeeps DEF Succeed, IInv, TypeOK

\* A refresh fails in any of its calls, or dies.
LEMMA FailKeeps ==
    ASSUME IInv, NEW p \in Process, Fail(p)
    PROVE  IInv'
<1>1. faults' \in 0..MaxFaults
  BY BoundsAssumption DEF Fail, IInv, TypeOK
<1>2. /\ at[p] # "idle" /\ Ends(p) /\ UNCHANGED <<broker, history, changes>>
  BY DEF Fail
<1>3. CASE at[p] = "replace"
  BY <1>1, <1>2, <1>3, ReturnKeeps DEF Fail
<1>4. CASE at[p] = "current"
  <2>1. read' = [read EXCEPT ![p] = Store!NotReading] /\ UNCHANGED <<stored, replace>>
    BY <1>4 DEF Fail, Store!FailCurrent
  <2>2. TypeOK'
    BY <1>1, <1>2, <2>1, EndsType DEF IInv, TypeOK, history, Store!NotReading
  <2>3. \A q \in Process : read'[q] = IF q = p THEN [state |-> "idle", content |-> NoSnapshot]
                                      ELSE read[q]
    BY <2>1 DEF IInv, TypeOK, Store!NotReading
  <2> QED
    BY <1>2, <1>4, <2>1, <2>2, <2>3, EndsKeeps
<1>5. CASE at[p] \in {"discover", "reconciled"}
  <2>1. UNCHANGED <<stored, replace, read>>
    BY <1>5 DEF Fail
  <2>2. TypeOK'
    BY <1>1, <1>2, <2>1, EndsType DEF IInv, TypeOK, history
  <2>3. read[p].state \notin {"called", "looked"}
    BY <1>5 DEF IInv, AttemptInv
  <2> QED
    BY <1>2, <1>5, <2>1, <2>2, <2>3, EndsKeeps
<1> QED
  BY <1>2, <1>3, <1>4, <1>5 DEF IInv, TypeOK

\* What was asked for takes effect: no later one of its process has.
LEMMA AppliesKeeps ==
    ASSUME IInv, NEW w \in Attempt, Applies(w)
    PROVE  IInv'
<1>1. /\ replace[w].state \in {"called", "failed"} /\ ~replace[w].applied
      /\ \A u \in Attempt : ~(replace[u].applied /\ w \in replace[u].after)
      /\ stored' = replace[w].content /\ by' = w
      /\ replace' = [replace EXCEPT ![w].applied = TRUE]
      /\ UNCHANGED <<read, broker, refreshes, owner, sighted, changes, faults>>
  BY DEF Applies, Store!Apply, Store!Superseded
<1> USE DEF refreshes
<1>2. w \in 1..begun
  BY <1>1, BoundsAssumption DEF IInv, TypeOK, SequenceInv, Attempt
<1>3. /\ replace' \in [Attempt -> Calls]
      /\ \A u \in Attempt : replace'[u] = IF u = w THEN [replace[w] EXCEPT !.applied = TRUE]
                                           ELSE replace[u]
  <2>1. [replace[w] EXCEPT !.applied = TRUE] \in Calls
    <3>1. replace[w] \in Calls
      BY DEF IInv, TypeOK, Calls
    <3> QED
      BY <3>1, CallEdits
  <2> QED
    BY <1>1, <2>1, CallsType DEF IInv
<1>4. TypeOK'
  <2>1. stored' \in Snapshot \cup {NoSnapshot} /\ by' \in 0..begun
    BY <1>1, <1>2, BoundsAssumption DEF IInv, TypeOK
  <2> QED
    BY <1>1, <1>3, <2>1 DEF IInv, TypeOK, Calls
<1>5. \A u \in Attempt : /\ replace'[u].content = replace[u].content
                         /\ replace'[u].after = replace[u].after
                         /\ replace'[u].state = replace[u].state
                         /\ replace'[u].applied <=> (replace[u].applied \/ u = w)
  BY <1>3 DEF IInv, TypeOK
<1>6. ContentInv'
  BY <1>1, <1>5 DEF IInv, ContentInv
<1>7. AttemptInv' /\ SequenceInv'
  BY <1>1, <1>5 DEF IInv, AttemptInv, SequenceInv
<1>8. OrderInv'
  <2>1. ASSUME NEW u \in Attempt, replace[u].applied, owner[u] = owner[w]
        PROVE  w >= u
    <3>1. u >= w => u = w \/ u > w
      BY DEF Attempt
    <3>2. replace[u].state # "idle" /\ replace[w].state # "idle" /\ w \notin replace[u].after
      BY <1>1, <2>1 DEF IInv, OrderInv
    <3>3. ~(w < u)
      BY <2>1, <3>2 DEF IInv, OrderInv
    <3> QED
      BY <3>3 DEF Attempt
  <2>2. \A u \in Attempt : replace'[u].applied =>
          /\ replace'[u].state # "idle" /\ by' # 0
          /\ by' >= u \/ owner'[by'] # owner'[u]
    BY <1>1, <1>2, <1>5, <2>1 DEF IInv, OrderInv, Attempt
  <2>3. \A u \in Attempt : replace'[u].state = "succeeded" => replace'[u].applied
    BY <1>5 DEF IInv, OrderInv
  <2> QED
    BY <1>1, <1>5, <2>2, <2>3 DEF IInv, OrderInv
<1> QED
  BY <1>4, <1>6, <1>7, <1>8 DEF IInv

\* Every step.
LEMMA NextIInv == IInv /\ [Next]_vars => IInv'
<1> SUFFICES ASSUME IInv, [Next]_vars PROVE IInv'
  OBVIOUS
<1>1. CASE UNCHANGED vars
  BY <1>1 DEF vars, refreshes, history, IInv, TypeOK, ContentInv, AttemptInv, SequenceInv, OrderInv
<1>2. CASE Next
  BY <1>2, BrokerChangesKeeps, BeginKeeps, DiscoverKeeps, LooksKeeps, ReconcileKeeps,
     ReplaceKeeps, SucceedKeeps, FailKeeps, AppliesKeeps DEF Next
<1> QED
  BY <1>1, <1>2

\* The inductive invariant.
LEMMA IInvAlways == Spec => []IInv
  BY InitIInv, NextIInv, PTL DEF Spec

-----------------------------------------------------------------------------
(* What follows from the invariant.                                        *)

\* Every variable stays in its type.
THEOREM TypeCorrect == Spec => []TypeOK
  BY IInvAlways, PTL DEF IInv

\* However the refreshes of any number of processes interleave, none of them finds
\* in the store what it can not reconcile with what it has discovered.
THEOREM NeverLockedOut == Spec => []ReconciliationNeverFails
<1>1. IInv => ReconciliationNeverFails
  BY ReconciledGenuine DEF IInv, TypeOK, ContentInv, Sound, AttemptInv, ReconciliationNeverFails
<1> QED
  BY <1>1, IInvAlways, PTL

\* The stored ranges are delimited by instants of discoveries.
THEOREM NothingUnseenIsClaimed == Spec => []RangesAreSighted
<1>1. IInv => RangesAreSighted
  BY DEF IInv, ContentInv, Sound, Sighted, RangesAreSighted
<1> QED
  BY <1>1, IInvAlways, PTL

\* What a process was told is stored gives way to its own later refreshes only, or to
\* those of another process.
THEOREM SuccessStands == Spec => []SuccessIsNotUndone
<1>1. IInv => SuccessIsNotUndone
  BY DEF IInv, OrderInv, SuccessIsNotUndone
<1> QED
  BY <1>1, IInvAlways, PTL

=============================================================================
