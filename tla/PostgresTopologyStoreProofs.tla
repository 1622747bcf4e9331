--------------------- MODULE PostgresTopologyStoreProofs ---------------------
(***************************************************************************)
(* PostgresTopologyStore implements TopologyRegister, for any number of    *)
(* overlapping calls of Replace and Current.  Each statement is a step of  *)
(* the register or none; what makes a COMMIT one is that a transaction     *)
(* left behind by a caller that gave up holds the row it has inserted: no  *)
(* call made after that gets past its own INSERT before the other is over. *)
(***************************************************************************)
EXTENDS PostgresTopologyStore, TLAPS

\* What the transaction of a call has come to.
ProgressInv ==
    \A w \in Writer :
        /\ call[w] = "idle" => tx[w].at = "none" /\ before[w] = {}
        /\ call[w] # "idle" => tx[w].snap \in Snap /\ tx[w].at # "none"
        /\ call[w] = "succeeded" => tx[w].at = "committed"
        /\ tx[w].at \in {"nodes", "edges", "commit"} => tx[w].writes.snapshot = tx[w].snap
        /\ tx[w].at \in {"edges", "commit"} => tx[w].writes.nodes = tx[w].snap
        /\ tx[w].at = "commit" => /\ tx[w].writes.edges = tx[w].snap
                                  /\ tx[w].writes.evidence = tx[w].snap

\* Past its INSERT a call has no rival among those that had ended before it.
ExclusionInv ==
    \A u, w \in Writer : w \in before[u] =>
        /\ w # u /\ call[w] \in {"succeeded", "failed"}
        /\ Inserted(u) \/ tx[u].at = "committed" => ~Inserted(w)

\* What a reader has read so far is what its transaction can see.
ReadInv ==
    \A r \in Reader :
        /\ \E s \in Rows : view[r] = Whole(s)
        /\ reading[r] \in {"nodes", "edges", "evidence"} =>
              view[r] # Empty /\ got[r].snapshot = view[r].snapshot
        /\ reading[r] \in {"edges", "evidence"} => got[r].nodes = view[r].nodes
        /\ reading[r] = "evidence" => got[r].edges = view[r].edges
        /\ reading[r] \in {"idle", "snapshot"} => view[r] = Empty /\ got[r] = Empty
        /\ reading[r] \in {"commit", "returned"} => got[r] = view[r]

IInv == TypeOK /\ ProgressInv /\ ExclusionInv /\ ReadInv

-----------------------------------------------------------------------------

\* Initially.
LEMMA InitIInv == Init => IInv
<1> SUFFICES ASSUME Init PROVE IInv
  OBVIOUS
<1> USE DEF Init
<1>1. TypeOK
  BY StoreAssumption DEF TypeOK, NoTx, Empty, Whole, Rows, Contents, Statement
<1>2. ProgressInv /\ ExclusionInv
  BY DEF ProgressInv, ExclusionInv, NoTx
<1>3. ReadInv
  BY DEF ReadInv, Empty, Rows
<1> QED
  BY <1>1, <1>2, <1>3 DEF IInv

Tx == [at : Statement, snap : Rows, target : Writer \cup {NoWriter},
       deleted : Writer \cup {NoWriter}, writes : Contents]

\* A statement changes the transaction of its own call only.
LEMMA TxChanges ==
    ASSUME TypeOK, NEW w \in Writer, NEW t \in Tx, tx' = [tx EXCEPT ![w] = t]
    PROVE  /\ tx' \in [Writer -> Tx]
           /\ \A u \in Writer : tx'[u] = IF u = w THEN t ELSE tx[u]
  BY DEF TypeOK, Tx

\* Statements that write no rows.
LEMMA TxEdits ==
    ASSUME NEW t \in Tx, NEW at \in Statement, NEW other \in Writer \cup {NoWriter}
    PROVE  /\ [t EXCEPT !.at = at] \in Tx
           /\ [t EXCEPT !.at = at, !.target = other] \in Tx
           /\ [t EXCEPT !.at = at, !.deleted = other] \in Tx
           /\ \A s \in Rows : [t EXCEPT !.at = at, !.snap = s] \in Tx
  BY DEF Tx

\* Statements that write rows.
LEMMA TxWrites ==
    ASSUME NEW t \in Tx, NEW at \in Statement, NEW s \in Rows
    PROVE  /\ [t EXCEPT !.at = at, !.writes.snapshot = s] \in Tx
           /\ [t EXCEPT !.at = at, !.writes.nodes = s] \in Tx
           /\ [t EXCEPT !.at = at, !.writes.edges = s, !.writes.evidence = s] \in Tx
<1>1. \A c \in Contents : /\ [c EXCEPT !.snapshot = s] \in Contents
                          /\ [c EXCEPT !.nodes = s] \in Contents
                          /\ [c EXCEPT !.edges = s, !.evidence = s] \in Contents
  BY DEF Contents
<1>2. t.writes \in Contents
  BY DEF Tx
<1> QED
  BY <1>1, <1>2 DEF Tx

RegisterMoves == [Register!Next]_(Register!registerVars)

-----------------------------------------------------------------------------
(* Replace.                                                                *)

\* A statement whose effect nobody sees yet, or never will.
LEMMA StatementKeeps ==
    ASSUME IInv, NEW w \in Writer, NEW t \in Tx, tx' = [tx EXCEPT ![w] = t],
           UNCHANGED <<tables, call, before, readers, faults>>,
           call[w] \in {"called", "failed"}, tx[w].at # "committed",
           t.snap = tx[w].snap, t.at \notin {"none", "committed"},
           t.at \in {"nodes", "edges", "commit"} =>
              /\ call[w] = "called"
              /\ Inserted(w) \/ \A u \in Writer \ {w} : ~Inserted(u)
              /\ t.writes.snapshot = t.snap,
           t.at \in {"edges", "commit"} => t.writes.nodes = t.snap,
           t.at = "commit" => t.writes.edges = t.snap /\ t.writes.evidence = t.snap
    PROVE  IInv' /\ RegisterMoves
<1>1. /\ tx' \in [Writer -> Tx]
      /\ \A u \in Writer : tx'[u] = IF u = w THEN t ELSE tx[u]
  BY TxChanges DEF IInv
<1>2. TypeOK'
  BY <1>1 DEF IInv, TypeOK, Tx, readers
<1>3. ProgressInv'
  BY <1>1 DEF IInv, ProgressInv
<1>4. ExclusionInv'
  <2> SUFFICES ASSUME NEW u \in Writer, NEW v \in Writer, v \in before[u]
               PROVE  /\ v # u /\ call[v] \in {"succeeded", "failed"}
                      /\ Inserted(u)' \/ tx'[u].at = "committed" => ~Inserted(v)'
    BY DEF ExclusionInv
  <2>1. /\ v # u /\ call[v] \in {"succeeded", "failed"}
        /\ Inserted(u) \/ tx[u].at = "committed" => ~Inserted(v)
    BY DEF IInv, ExclusionInv
  <2>2. CASE u = w
    BY <1>1, <2>1, <2>2 DEF Inserted
  <2>3. CASE v = w
    BY <1>1, <2>1, <2>3 DEF Inserted
  <2>4. CASE u # w /\ v # w
    BY <1>1, <2>1, <2>4 DEF Inserted
  <2> QED
    BY <2>2, <2>3, <2>4
<1>5. ReadInv'
  BY DEF IInv, ReadInv, readers
<1>6. RegisterReplace' = RegisterReplace
  BY <1>1 DEF RegisterReplace
<1>7. RegisterRead' = RegisterRead
  BY DEF RegisterRead, readers
<1> QED
  BY <1>2, <1>3, <1>4, <1>5, <1>6, <1>7 DEF IInv, RegisterMoves, Register!registerVars

\* A call returns, and its transaction is what it was or is rolled back.
LEMMA ReturnKeeps ==
    ASSUME IInv, NEW w \in Writer, NEW t \in Tx, NEW state \in {"succeeded", "failed"},
           tx' = [tx EXCEPT ![w] = t], call' = [call EXCEPT ![w] = state],
           UNCHANGED <<tables, before, readers>>, faults' \in 0..MaxFaults,
           call[w] = "called", state = "succeeded" => tx[w].at = "committed",
           t = tx[w] \/ (t = [tx[w] EXCEPT !.at = "aborted"] /\ state = "failed"
                            /\ tx[w].at # "committed")
    PROVE  IInv' /\ RegisterMoves
<1>1. /\ tx' \in [Writer -> Tx]
      /\ \A u \in Writer : tx'[u] = IF u = w THEN t ELSE tx[u]
  BY TxChanges DEF IInv
<1>2. \A u \in Writer : call'[u] = IF u = w THEN state ELSE call[u]
  BY DEF IInv, TypeOK
<1>3. tx[w] \in Tx
  BY DEF IInv, TypeOK, Tx
<1>4. /\ t.snap = tx[w].snap /\ t.writes = tx[w].writes
      /\ t.at = tx[w].at \/ (t.at = "aborted" /\ state = "failed" /\ tx[w].at # "committed")
  BY <1>3 DEF Tx
<1>5. TypeOK'
  BY <1>1, <1>2 DEF IInv, TypeOK, Tx, readers
<1>6. ProgressInv'
  BY <1>1, <1>2, <1>4 DEF IInv, ProgressInv
<1>7. ExclusionInv'
  BY <1>1, <1>2, <1>4 DEF IInv, ExclusionInv, Inserted
<1>8. ReadInv'
  BY DEF IInv, ReadInv, readers
<1>9. RegisterRead' = RegisterRead
  BY DEF RegisterRead, readers
<1>10. RegisterReplace' = [RegisterReplace EXCEPT ![w].state = state]
  BY <1>1, <1>2, <1>4 DEF RegisterReplace
<1>11. Register!ReturnReplace(w, state)
  BY <1>9, <1>10 DEF Register!ReturnReplace, RegisterReplace
<1> QED
  BY <1>5, <1>6, <1>7, <1>8, <1>11 DEF IInv, RegisterMoves, Register!Next

\* A call begins: the register knows which calls have returned.
LEMMA BeginKeeps ==
    ASSUME IInv, NEW w \in Writer, NEW s \in Snap, Begin(w, s)
    PROVE  IInv' /\ RegisterMoves
<1> DEFINE t == [tx[w] EXCEPT !.at = "delete", !.snap = s]
           ended == {u \in Writer : call[u] \in {"succeeded", "failed"}}
<1>1. /\ call[w] = "idle" /\ call' = [call EXCEPT ![w] = "called"]
      /\ tx' = [tx EXCEPT ![w] = t] /\ before' = [before EXCEPT ![w] = ended]
      /\ UNCHANGED <<tables, readers, faults>>
  BY DEF Begin
<1>2. t \in Tx /\ t.at = "delete" /\ t.snap = s
  <2>1. tx[w] \in Tx
    BY DEF IInv, TypeOK, Tx
  <2>2. "delete" \in Statement /\ s \in Rows /\ NoWriter \in Writer \cup {NoWriter}
    BY DEF Statement, Rows
  <2>3. t \in Tx
    BY <2>1, <2>2, TxEdits
  <2> QED
    BY <2>1, <2>3 DEF Tx
<1> HIDE DEF t
<1>3. /\ tx' \in [Writer -> Tx]
      /\ \A u \in Writer : tx'[u] = IF u = w THEN t ELSE tx[u]
  BY <1>1, <1>2, TxChanges DEF IInv
<1>4. \A u \in Writer : /\ call'[u] = IF u = w THEN "called" ELSE call[u]
                        /\ before'[u] = IF u = w THEN ended ELSE before[u]
  BY <1>1 DEF IInv, TypeOK
<1>5. TypeOK'
  <2>1. /\ call' \in [Writer -> {"idle", "called", "succeeded", "failed"}]
        /\ before' \in [Writer -> SUBSET Writer]
    BY <1>1 DEF IInv, TypeOK
  <2> QED
    BY <1>1, <1>3, <2>1 DEF IInv, TypeOK, Tx, readers
<1>6. ProgressInv'
  <2>1. tx'[w] = t /\ call'[w] = "called"
    BY <1>3, <1>4
  <2>2. \A u \in Writer \ {w} : tx'[u] = tx[u] /\ call'[u] = call[u] /\ before'[u] = before[u]
    BY <1>3, <1>4
  <2> QED
    BY <1>2, <2>1, <2>2 DEF IInv, ProgressInv
<1>7. ExclusionInv'
  BY <1>1, <1>2, <1>3, <1>4 DEF IInv, ExclusionInv, Inserted
<1>8. ReadInv'
  BY <1>1 DEF IInv, ReadInv, readers
<1>9. RegisterRead' = RegisterRead
  BY <1>1 DEF RegisterRead, readers
<1>10. Register!Returned = ended
  BY DEF Register!Returned, RegisterReplace
<1>11. tx[w].at # "committed"
  BY <1>1 DEF IInv, ProgressInv
<1> HIDE DEF ended
<1>12. RegisterReplace' = [RegisterReplace EXCEPT ![w].state = "called",
          ![w].content = Whole(s), ![w].after = ended]
  <2> DEFINE old == RegisterReplace[w]
             new == [state |-> "called", content |-> Whole(s), applied |-> FALSE,
                     after |-> ended]
  <2>1. old = [state |-> "idle", content |-> NoRows, applied |-> FALSE, after |-> before[w]]
    BY <1>1, <1>11 DEF RegisterReplace
  <2>2. [old EXCEPT !.state = "called", !.content = Whole(s), !.after = ended] = new
    <3> HIDE DEF old
    <3>1. old \in [state : {"idle"}, content : {NoRows}, applied : {FALSE}, after : {before[w]}]
      BY <2>1
    <3>2. [old EXCEPT !.state = "called", !.content = Whole(s), !.after = ended]
            \in [state : {"called"}, content : {Whole(s)}, applied : {FALSE}, after : {ended}]
      BY <3>1
    <3>3. \A r \in [state : {"called"}, content : {Whole(s)}, applied : {FALSE},
                    after : {ended}] :
             r = [state |-> r.state, content |-> r.content, applied |-> r.applied,
                  after |-> r.after]
      OBVIOUS
    <3>4. \A r \in [state : {"called"}, content : {Whole(s)}, applied : {FALSE},
                    after : {ended}] :
             /\ r.state = "called" /\ r.content = Whole(s)
             /\ r.applied = FALSE /\ r.after = ended
      OBVIOUS
    <3> QED
      BY <3>2, <3>3, <3>4, Zenon
  <2>3. \A u \in Writer : RegisterReplace'[u] = IF u = w THEN new ELSE RegisterReplace[u]
    BY <1>2, <1>3, <1>4 DEF RegisterReplace
  <2>4. RegisterReplace' = [RegisterReplace EXCEPT ![w] = new]
    BY <2>3 DEF RegisterReplace
  <2> QED
    BY <2>2, <2>4
<1>13. Register!CallReplace(w, Whole(s))
  BY <1>1, <1>9, <1>10, <1>12 DEF Register!CallReplace, RegisterReplace
<1> QED
  BY <1>5, <1>6, <1>7, <1>8, <1>13 DEF IInv, RegisterMoves, Register!Next

\* The statements before COMMIT.
LEMMA StatementsKeep ==
    ASSUME IInv, NEW w \in Writer,
           \/ StartDelete(w) \/ FinishDelete(w) \/ InsertSnapshot(w)
           \/ InsertNodes(w) \/ InsertEdges(w) \/ Rollback(w)
    PROVE  IInv' /\ RegisterMoves
<1>1. /\ tx[w] \in Tx /\ tx[w].snap \in Rows /\ tables.by \in Writer \cup {NoWriter}
      /\ call[w] # "idle" => tx[w].at # "none"
  BY DEF IInv, TypeOK, ProgressInv, Tx
<1>2. CASE StartDelete(w)
  <2> DEFINE t == [tx[w] EXCEPT !.at = "deleting", !.target = tables.by]
  <2>1. t \in Tx
    BY <1>1, TxEdits DEF Statement
  <2>2. t.at = "deleting" /\ t.snap = tx[w].snap
    BY <1>1 DEF Tx
  <2>3. /\ tx' = [tx EXCEPT ![w] = t] /\ call[w] = "called" /\ tx[w].at = "delete"
        /\ UNCHANGED <<tables, call, before, readers, faults>>
    BY <1>2 DEF StartDelete, Runs
  <2> HIDE DEF t
  <2> QED
    BY <2>1, <2>2, <2>3, StatementKeeps
<1>3. CASE FinishDelete(w)
  <2> DEFINE d == IF tables.by = tx[w].target THEN tables.by ELSE NoWriter
             t == [tx[w] EXCEPT !.at = "insert", !.deleted = d]
  <2>1. d \in Writer \cup {NoWriter}
    BY <1>1
  <2>2. /\ tx' = [tx EXCEPT ![w] = t] /\ call[w] = "called" /\ tx[w].at = "deleting"
        /\ UNCHANGED <<tables, call, before, readers, faults>>
    BY <1>3 DEF FinishDelete, Runs
  <2> HIDE DEF d
  <2>3. t \in Tx
    BY <1>1, <2>1, TxEdits DEF Statement
  <2>4. t.at = "insert" /\ t.snap = tx[w].snap
    BY <1>1 DEF Tx
  <2> HIDE DEF t
  <2> QED
    BY <2>2, <2>3, <2>4, StatementKeeps
<1>4. CASE InsertSnapshot(w)
  <2> DEFINE t == [tx[w] EXCEPT !.at = "nodes", !.writes.snapshot = tx[w].snap]
  <2>1. t \in Tx
    BY <1>1, TxWrites DEF Statement
  <2>2. t.at = "nodes" /\ t.snap = tx[w].snap /\ t.writes.snapshot = t.snap
    BY <1>1 DEF Tx, Contents
  <2>3. /\ tx' = [tx EXCEPT ![w] = t] /\ call[w] = "called" /\ tx[w].at = "insert"
        /\ \A u \in Writer \ {w} : ~Inserted(u)
        /\ UNCHANGED <<tables, call, before, readers, faults>>
    BY <1>4 DEF InsertSnapshot, Runs, InsertBlocked, InsertWaits, Open, Inserted
  <2> HIDE DEF t
  <2> QED
    BY <2>1, <2>2, <2>3, StatementKeeps
<1>5. CASE InsertNodes(w)
  <2> DEFINE t == [tx[w] EXCEPT !.at = "edges", !.writes.nodes = tx[w].snap]
  <2>1. t \in Tx
    BY <1>1, TxWrites DEF Statement
  <2>2. /\ t.at = "edges" /\ t.snap = tx[w].snap /\ t.writes.nodes = t.snap
        /\ t.writes.snapshot = tx[w].writes.snapshot
    BY <1>1 DEF Tx, Contents
  <2>3. /\ tx' = [tx EXCEPT ![w] = t] /\ call[w] = "called" /\ tx[w].at = "nodes"
        /\ UNCHANGED <<tables, call, before, readers, faults>>
    BY <1>5 DEF InsertNodes, Runs
  <2>4. Inserted(w) /\ tx[w].writes.snapshot = tx[w].snap
    BY <2>3 DEF Inserted, IInv, ProgressInv
  <2> HIDE DEF t
  <2> QED
    BY <2>1, <2>2, <2>3, <2>4, StatementKeeps
<1>6. CASE InsertEdges(w)
  <2> DEFINE t == [tx[w] EXCEPT !.at = "commit", !.writes.edges = tx[w].snap,
                                !.writes.evidence = tx[w].snap]
  <2>1. t \in Tx
    BY <1>1, TxWrites DEF Statement
  <2>2. /\ t.at = "commit" /\ t.snap = tx[w].snap
        /\ t.writes.edges = t.snap /\ t.writes.evidence = t.snap
        /\ t.writes.snapshot = tx[w].writes.snapshot /\ t.writes.nodes = tx[w].writes.nodes
    BY <1>1 DEF Tx, Contents
  <2>3. /\ tx' = [tx EXCEPT ![w] = t] /\ call[w] = "called" /\ tx[w].at = "edges"
        /\ UNCHANGED <<tables, call, before, readers, faults>>
    BY <1>6 DEF InsertEdges, Runs
  <2>4. /\ Inserted(w) /\ tx[w].writes.snapshot = tx[w].snap
        /\ tx[w].writes.nodes = tx[w].snap
    BY <2>3 DEF Inserted, IInv, ProgressInv
  <2> HIDE DEF t
  <2> QED
    BY <2>1, <2>2, <2>3, <2>4, StatementKeeps
<1>7. CASE Rollback(w)
  <2> DEFINE t == [tx[w] EXCEPT !.at = "aborted"]
  <2>1. t \in Tx
    BY <1>1, StoreAssumption, TxEdits DEF Statement
  <2>2. t.at = "aborted" /\ t.snap = tx[w].snap
    BY <1>1 DEF Tx
  <2>3. /\ tx' = [tx EXCEPT ![w] = t] /\ call[w] = "failed" /\ tx[w].at # "committed"
        /\ UNCHANGED <<tables, call, before, readers, faults>>
    BY <1>7 DEF Rollback, Open
  <2> HIDE DEF t
  <2> QED
    BY <2>1, <2>2, <2>3, StatementKeeps
<1> QED
  BY <1>2, <1>3, <1>4, <1>5, <1>6, <1>7

\* The calls that return.
LEMMA ReturnsKeep ==
    ASSUME IInv, NEW w \in Writer, UniqueViolation(w) \/ Succeed(w) \/ Fail(w)
    PROVE  IInv' /\ RegisterMoves
<1>1. tx[w] \in Tx /\ tx = [tx EXCEPT ![w] = tx[w]] /\ faults \in 0..MaxFaults
  BY DEF IInv, TypeOK, Tx
<1>2. CASE UniqueViolation(w)
  <2>1. [tx[w] EXCEPT !.at = "aborted"] \in Tx
    BY <1>1, StoreAssumption, TxEdits DEF Statement
  <2>2. /\ tx' = [tx EXCEPT ![w] = [tx[w] EXCEPT !.at = "aborted"]]
        /\ call[w] = "called" /\ call' = [call EXCEPT ![w] = "failed"]
        /\ tx[w].at = "insert" /\ UNCHANGED <<tables, before, readers, faults>>
    BY <1>2 DEF UniqueViolation, Runs
  <2> QED
    BY <1>1, <2>1, <2>2, ReturnKeeps
<1>3. CASE Succeed(w)
  BY <1>1, <1>3, ReturnKeeps DEF Succeed
<1>4. CASE Fail(w)
  <2>1. faults' \in 0..MaxFaults
    BY <1>1, <1>4, StoreAssumption DEF Fail
  <2> QED
    BY <1>1, <1>4, <2>1, ReturnKeeps DEF Fail
<1> QED
  BY <1>2, <1>3, <1>4

\* A transaction commits: the whole of what it was asked for is what is stored, and no
\* call that began after it was given up has got past its INSERT.
LEMMA CommitKeeps ==
    ASSUME IInv, NEW w \in Writer, Commit(w)
    PROVE  IInv' /\ RegisterMoves
<1> DEFINE t == [tx[w] EXCEPT !.at = "committed"]
<1>1. /\ tx[w].at = "commit" /\ tables' = [content |-> tx[w].writes, by |-> w]
      /\ tx' = [tx EXCEPT ![w] = t] /\ UNCHANGED <<call, before, readers, faults>>
  BY DEF Commit
<1>2. /\ tx[w] \in Tx /\ call[w] \in {"called", "failed"} /\ tx[w].snap \in Snap
      /\ tx[w].writes.snapshot = tx[w].snap /\ tx[w].writes.nodes = tx[w].snap
      /\ tx[w].writes.edges = tx[w].snap /\ tx[w].writes.evidence = tx[w].snap
  BY <1>1 DEF IInv, TypeOK, ProgressInv, Tx
<1>3. t \in Tx /\ t.at = "committed" /\ t.snap = tx[w].snap /\ t.writes = tx[w].writes
  <2>1. "committed" \in Statement /\ NoWriter \in Writer \cup {NoWriter}
    BY DEF Statement
  <2>2. t \in Tx
    BY <1>2, <2>1, TxEdits
  <2> QED
    BY <1>2, <2>2 DEF Tx
<1> HIDE DEF t
<1>4. /\ tx' \in [Writer -> Tx]
      /\ \A u \in Writer : tx'[u] = IF u = w THEN t ELSE tx[u]
  BY <1>1, <1>3, TxChanges DEF IInv
<1>5. tx[w].writes = Whole(tx[w].snap)
  BY <1>2 DEF Whole, Tx, Contents
<1>6. TypeOK'
  <2>1. tables' \in [content : {Whole(s) : s \in Rows}, by : Writer \cup {NoWriter}]
    BY <1>1, <1>2, <1>5 DEF Rows
  <2> QED
    BY <1>1, <1>4, <2>1 DEF IInv, TypeOK, Tx, readers
<1>7. ProgressInv'
  BY <1>1, <1>2, <1>3, <1>4 DEF IInv, ProgressInv
<1>8. ExclusionInv'
  BY <1>1, <1>3, <1>4 DEF IInv, ExclusionInv, Inserted
<1>9. ReadInv'
  BY <1>1 DEF IInv, ReadInv, readers
<1>10. RegisterRead' = RegisterRead
  BY <1>1 DEF RegisterRead, readers
<1>11. RegisterReplace' = [RegisterReplace EXCEPT ![w].applied = TRUE]
  BY <1>1, <1>3, <1>4 DEF RegisterReplace
<1>12. ~Register!Superseded(w)
  BY <1>1 DEF Register!Superseded, RegisterReplace, IInv, ExclusionInv, Inserted
<1>13. Stated(tables.content)' = Whole(tx[w].snap)
  <2>1. Whole(tx[w].snap) # Empty
    BY <1>2, StoreAssumption DEF Whole, Empty
  <2> QED
    BY <1>1, <1>5, <2>1 DEF Stated
<1>14. Register!Apply(w)
  BY <1>1, <1>2, <1>10, <1>11, <1>12, <1>13 DEF Register!Apply, RegisterReplace
<1> QED
  BY <1>6, <1>7, <1>8, <1>9, <1>14 DEF IInv, RegisterMoves, Register!Next

-----------------------------------------------------------------------------
(* Current.                                                                *)

\* What a step of a reader has to keep besides its own part of the invariant.
LEMMA ReaderKeeps ==
    ASSUME IInv, UNCHANGED writing, faults' \in 0..MaxFaults, ReadInv',
           view' \in [Reader -> Contents], got' \in [Reader -> Contents],
           reading' \in [Reader -> {"idle", "snapshot", "nodes", "edges", "evidence",
                                    "commit", "returned"}]
    PROVE  /\ IInv'
           /\ RegisterReplace' = RegisterReplace
           /\ Stated(tables.content)' = Stated(tables.content)
  BY DEF writing, IInv, TypeOK, ProgressInv, ExclusionInv, Inserted, RegisterReplace, Stated

\* What the tables, and every view of them, hold.
LEMMA WholeContents ==
    /\ Empty \in Contents /\ \A s \in Rows : Whole(s) \in Contents
    /\ \A s \in Rows : Whole(s).snapshot = NoRows => Whole(s) = Empty
    /\ Empty.snapshot = NoRows
  BY DEF Empty, Whole, Contents, Rows

\* A call of Current begins, or fails.
LEMMA ReadEdgesKeep ==
    ASSUME IInv, NEW r \in Reader, BeginRead(r) \/ FailRead(r)
    PROVE  IInv' /\ RegisterMoves
<1>1. /\ view' = [view EXCEPT ![r] = Empty] /\ got' = [got EXCEPT ![r] = Empty]
      /\ UNCHANGED writing
  BY DEF BeginRead, FailRead
<1>2. \A q \in Reader : /\ view'[q] = IF q = r THEN Empty ELSE view[q]
                        /\ got'[q] = IF q = r THEN Empty ELSE got[q]
  BY <1>1 DEF IInv, TypeOK
<1>3. view' \in [Reader -> Contents] /\ got' \in [Reader -> Contents]
  BY <1>1, WholeContents DEF IInv, TypeOK
<1>4. Empty = Whole(NoRows) /\ NoRows \in Rows
  BY DEF Empty, Rows
<1> DEFINE next == [state |-> reading'[r], content |-> NoRows]
<1>5. ASSUME NEW to \in {"snapshot", "idle"}, reading' = [reading EXCEPT ![r] = to],
             faults' \in 0..MaxFaults
      PROVE  /\ IInv'
             /\ RegisterReplace' = RegisterReplace
             /\ Stated(tables.content)' = Stated(tables.content)
             /\ RegisterRead' = [RegisterRead EXCEPT ![r] =
                   [state |-> IF to = "idle" THEN "idle" ELSE "called", content |-> NoRows]]
  <2>1. \A q \in Reader : reading'[q] = IF q = r THEN to ELSE reading[q]
    BY <1>5 DEF IInv, TypeOK
  <2>2. ReadInv'
    BY <1>2, <1>4, <2>1 DEF IInv, ReadInv
  <2>3. reading' \in [Reader -> {"idle", "snapshot", "nodes", "edges", "evidence",
                                 "commit", "returned"}]
    BY <1>5 DEF IInv, TypeOK
  <2>4. Stated(Empty) = NoRows
    BY DEF Stated
  <2>5. RegisterRead' = [RegisterRead EXCEPT ![r] =
           [state |-> IF to = "idle" THEN "idle" ELSE "called", content |-> NoRows]]
    BY <1>2, <2>1, <2>4 DEF RegisterRead, Stated
  <2> QED
    BY <1>1, <1>3, <1>5, <2>2, <2>3, <2>5, ReaderKeeps
<1>6. CASE BeginRead(r)
  <2>1. reading' = [reading EXCEPT ![r] = "snapshot"] /\ faults' \in 0..MaxFaults
    BY <1>6 DEF BeginRead, IInv, TypeOK
  <2>2. RegisterRead[r].state \in {"idle", "returned"}
    BY <1>6 DEF BeginRead, RegisterRead
  <2> QED
    BY <1>5, <2>1, <2>2 DEF RegisterMoves, Register!Next, Register!CallCurrent
<1>7. CASE FailRead(r)
  <2>1. reading' = [reading EXCEPT ![r] = "idle"] /\ faults' \in 0..MaxFaults
    BY <1>7, StoreAssumption DEF FailRead, IInv, TypeOK
  <2>2. RegisterRead[r].state \in {"called", "looked"}
    BY <1>7 DEF FailRead, RegisterRead, IInv, TypeOK
  <2> QED
    BY <1>5, <2>1, <2>2 DEF RegisterMoves, Register!Next, Register!FailCurrent,
       Register!NotReading
<1> QED
  BY <1>6, <1>7

\* The first statement looks at the register.
LEMMA ReadSnapshotKeeps ==
    ASSUME IInv, NEW r \in Reader, ReadSnapshot(r)
    PROVE  IInv' /\ RegisterMoves
<1> DEFINE c == tables.content
           to == IF c.snapshot = NoRows THEN "commit" ELSE "nodes"
<1>1. /\ reading[r] = "snapshot" /\ view' = [view EXCEPT ![r] = c]
      /\ got' = [got EXCEPT ![r].snapshot = c.snapshot]
      /\ reading' = [reading EXCEPT ![r] = to] /\ UNCHANGED <<writing, faults>>
  BY DEF ReadSnapshot
<1>2. PICK s \in Rows : c = Whole(s)
  BY DEF IInv, TypeOK
<1>3. view[r] = Empty /\ got[r] = Empty
  BY <1>1 DEF IInv, ReadInv
<1> DEFINE g == [Empty EXCEPT !.snapshot = c.snapshot]
<1>4. g \in Contents /\ g.snapshot = c.snapshot /\ (c.snapshot = NoRows => g = Empty)
  BY <1>2 DEF Empty, Whole, Contents, Rows
<1>5. got' = [got EXCEPT ![r] = g]
  BY <1>1, <1>3
<1>6. c \in Contents /\ (c.snapshot = NoRows <=> c = Empty)
  BY <1>2, WholeContents
<1> HIDE DEF c, g
<1>7. \A q \in Reader : /\ view'[q] = IF q = r THEN c ELSE view[q]
                        /\ got'[q] = IF q = r THEN g ELSE got[q]
                        /\ reading'[q] = IF q = r THEN to ELSE reading[q]
  BY <1>1, <1>5 DEF IInv, TypeOK
<1>8. ReadInv'
  BY <1>2, <1>4, <1>6, <1>7 DEF IInv, ReadInv
<1>9. /\ view' \in [Reader -> Contents] /\ got' \in [Reader -> Contents]
      /\ reading' \in [Reader -> {"idle", "snapshot", "nodes", "edges", "evidence",
                                  "commit", "returned"}]
  BY <1>1, <1>4, <1>5, <1>6 DEF IInv, TypeOK
<1>10. /\ IInv' /\ RegisterReplace' = RegisterReplace
       /\ Stated(tables.content)' = Stated(tables.content)
  BY <1>1, <1>8, <1>9, ReaderKeeps DEF IInv, TypeOK
<1>11. RegisterRead' = [RegisterRead EXCEPT ![r] =
          [state |-> "looked", content |-> Stated(tables.content)]]
  BY <1>7 DEF RegisterRead, c
<1>12. RegisterRead[r].state = "called"
  BY <1>1 DEF RegisterRead
<1> QED
  BY <1>10, <1>11, <1>12 DEF RegisterMoves, Register!Next, Register!Look

\* The other statements see what the first one saw.
LEMMA ReadTablesKeep ==
    ASSUME IInv, NEW r \in Reader, ReadNodes(r) \/ ReadEdges(r) \/ ReadEvidence(r)
    PROVE  IInv' /\ RegisterMoves
<1>1. got[r] \in Contents /\ view[r] \in Contents
  BY DEF IInv, TypeOK
<1>2. ASSUME NEW table \in {"nodes", "edges", "evidence"},
             NEW from \in {"nodes", "edges", "evidence"},
             NEW to \in {"edges", "evidence", "commit"},
             ReadTable(r, table, from, to), NEW g \in Contents,
             got' = [got EXCEPT ![r] = g],
             to = "commit" => g = view[r],
             g.snapshot = view[r].snapshot,
             to \in {"edges", "evidence"} => g.nodes = view[r].nodes,
             to = "evidence" => g.edges = view[r].edges
      PROVE  IInv' /\ RegisterMoves
  <2>1. /\ reading[r] = from /\ reading' = [reading EXCEPT ![r] = to]
        /\ UNCHANGED <<writing, view, faults>>
    BY <1>2 DEF ReadTable
  <2>2. \A q \in Reader : /\ got'[q] = IF q = r THEN g ELSE got[q]
                          /\ reading'[q] = IF q = r THEN to ELSE reading[q]
    BY <1>2, <2>1 DEF IInv, TypeOK
  <2>3. ReadInv'
    BY <1>2, <2>1, <2>2 DEF IInv, ReadInv
  <2>4. /\ view' \in [Reader -> Contents] /\ got' \in [Reader -> Contents]
        /\ reading' \in [Reader -> {"idle", "snapshot", "nodes", "edges", "evidence",
                                    "commit", "returned"}]
        /\ faults' \in 0..MaxFaults
    BY <1>2, <2>1 DEF IInv, TypeOK
  <2>5. RegisterRead' = RegisterRead
    BY <2>1, <2>2 DEF RegisterRead, Stated
  <2> QED
    BY <2>1, <2>3, <2>4, <2>5, ReaderKeeps DEF RegisterMoves, Register!registerVars
<1>3. CASE ReadNodes(r)
  <2> DEFINE g == [got[r] EXCEPT !.nodes = view[r].nodes]
  <2>1. g \in Contents /\ g.snapshot = got[r].snapshot /\ g.nodes = view[r].nodes
    BY <1>1 DEF Contents
  <2>2. ReadTable(r, "nodes", "nodes", "edges") /\ got' = [got EXCEPT ![r] = g]
    BY <1>3 DEF ReadNodes, ReadTable
  <2>3. got[r].snapshot = view[r].snapshot
    BY <2>2 DEF ReadTable, IInv, ReadInv
  <2> HIDE DEF g
  <2> QED
    BY <1>2, <2>1, <2>2, <2>3
<1>4. CASE ReadEdges(r)
  <2> DEFINE g == [got[r] EXCEPT !.edges = view[r].edges]
  <2>1. /\ g \in Contents /\ g.snapshot = got[r].snapshot /\ g.nodes = got[r].nodes
        /\ g.edges = view[r].edges
    BY <1>1 DEF Contents
  <2>2. ReadTable(r, "edges", "edges", "evidence") /\ got' = [got EXCEPT ![r] = g]
    BY <1>4 DEF ReadEdges, ReadTable
  <2>3. got[r].snapshot = view[r].snapshot /\ got[r].nodes = view[r].nodes
    BY <2>2 DEF ReadTable, IInv, ReadInv
  <2> HIDE DEF g
  <2> QED
    BY <1>2, <2>1, <2>2, <2>3
<1>5. CASE ReadEvidence(r)
  <2> DEFINE g == [got[r] EXCEPT !.evidence = view[r].evidence]
  <2>1. /\ g \in Contents /\ g.snapshot = got[r].snapshot /\ g.nodes = got[r].nodes
        /\ g.edges = got[r].edges /\ g.evidence = view[r].evidence
    BY <1>1 DEF Contents
  <2>2. ReadTable(r, "evidence", "evidence", "commit") /\ got' = [got EXCEPT ![r] = g]
    BY <1>5 DEF ReadEvidence, ReadTable
  <2>3. /\ got[r].snapshot = view[r].snapshot /\ got[r].nodes = view[r].nodes
        /\ got[r].edges = view[r].edges
    BY <2>2 DEF ReadTable, IInv, ReadInv
  <2>4. g = view[r]
    BY <1>1, <2>1, <2>3 DEF Contents
  <2> HIDE DEF g
  <2> QED
    BY <1>2, <2>1, <2>2, <2>3, <2>4
<1> QED
  BY <1>3, <1>4, <1>5

\* A call of Current returns what it saw first.
LEMMA EndReadKeeps ==
    ASSUME IInv, NEW r \in Reader, EndRead(r)
    PROVE  IInv' /\ RegisterMoves
<1>1. /\ reading[r] = "commit" /\ reading' = [reading EXCEPT ![r] = "returned"]
      /\ UNCHANGED <<writing, view, got, faults>>
  BY DEF EndRead
<1>2. \A q \in Reader : reading'[q] = IF q = r THEN "returned" ELSE reading[q]
  BY <1>1 DEF IInv, TypeOK
<1>3. got[r] = view[r]
  BY <1>1 DEF IInv, ReadInv
<1>4. ReadInv'
  BY <1>1, <1>2 DEF IInv, ReadInv
<1>5. reading' \in [Reader -> {"idle", "snapshot", "nodes", "edges", "evidence",
                               "commit", "returned"}]
  BY <1>1 DEF IInv, TypeOK
<1>6. RegisterRead' = [RegisterRead EXCEPT ![r].state = "returned"]
  <2> DEFINE c == Stated(view[r])
  <2>1. RegisterRead[r] = [state |-> "looked", content |-> c]
    BY <1>1 DEF RegisterRead
  <2>2. Stated(got'[r]) = c
    BY <1>1, <1>3 DEF Stated
  <2>3. RegisterRead' = [RegisterRead EXCEPT ![r] = [state |-> "returned", content |-> c]]
    BY <1>1, <1>2, <2>2 DEF RegisterRead, Stated
  <2> HIDE DEF c
  <2>4. [RegisterRead[r] EXCEPT !.state = "returned"] = [state |-> "returned", content |-> c]
    BY <2>1
  <2> QED
    BY <2>3, <2>4
<1>7. RegisterRead[r].state = "looked"
  BY <1>1 DEF RegisterRead
<1>8. /\ IInv' /\ RegisterReplace' = RegisterReplace
      /\ Stated(tables.content)' = Stated(tables.content)
  BY <1>1, <1>4, <1>5, ReaderKeeps DEF IInv, TypeOK
<1> QED
  BY <1>6, <1>7, <1>8 DEF RegisterMoves, Register!Next, Register!ReturnCurrent

-----------------------------------------------------------------------------

\* Every step.
LEMMA NextKeeps == IInv /\ [Next]_vars => IInv' /\ RegisterMoves
<1> SUFFICES ASSUME IInv, [Next]_vars PROVE IInv' /\ RegisterMoves
  OBVIOUS
<1>1. CASE UNCHANGED vars
  BY <1>1 DEF vars, writing, readers, IInv, TypeOK, ProgressInv, ExclusionInv, Inserted,
     ReadInv, RegisterMoves, Register!registerVars, RegisterReplace, RegisterRead, Stated
<1>2. CASE Next
  BY <1>2, BeginKeeps, StatementsKeep, ReturnsKeep, CommitKeeps, ReadEdgesKeep,
     ReadSnapshotKeeps, ReadTablesKeep, EndReadKeeps DEF Next, Replaces, Reads
<1> QED
  BY <1>1, <1>2

\* Initially nothing is stored and nothing is called.
LEMMA InitRegister == Init => Register!Init
<1> SUFFICES ASSUME Init PROVE Register!Init
  OBVIOUS
<1>1. Stated(Empty) = NoRows
  BY DEF Stated
<1> QED
  BY <1>1 DEF Init, NoTx, Register!Init, Register!NotCalled, Register!NotReading,
     RegisterReplace, RegisterRead, Stated

\* Every variable stays in its type.
THEOREM TypeCorrect == Spec => []TypeOK
<1>1. IInv => TypeOK
  BY DEF IInv
<1> QED
  BY <1>1, InitIInv, NextKeeps, PTL DEF Spec

\* However many calls of Replace and Current overlap, fail or are given up, the
\* statements of the store act like the atomic register its users rely on.
THEOREM Refinement == Spec => ImplementsRegister
  BY InitIInv, InitRegister, NextKeeps, PTL DEF Spec, ImplementsRegister, RegisterMoves,
     Register!Spec

-----------------------------------------------------------------------------
(* Nobody waits in a circle.                                               *)

\* Before the end of its DELETE a transaction has deleted nothing.
DeletedInv ==
    \A w \in Writer : tx[w].at \in {"none", "delete", "deleting"} => tx[w].deleted = NoWriter

LEMMA DeletedInvKept == IInv /\ DeletedInv /\ [Next]_vars => DeletedInv'
<1> SUFFICES ASSUME IInv, DeletedInv, [Next]_vars PROVE DeletedInv'
  OBVIOUS
<1> USE DEF DeletedInv
<1> TypeOK /\ ProgressInv
  BY DEF IInv
<1>1. ASSUME NEW w \in Writer, NEW s \in Snap, Begin(w, s) PROVE DeletedInv'
  BY <1>1 DEF Begin, TypeOK, ProgressInv
<1>2. ASSUME NEW w \in Writer, StartDelete(w) PROVE DeletedInv'
  <2>1. /\ \A u \in Writer \ {w} : tx'[u] = tx[u]
        /\ tx'[w].deleted = tx[w].deleted /\ tx[w].at = "delete"
    BY <1>2 DEF StartDelete, Runs, TypeOK
  <2> QED
    BY <2>1
<1>3. ASSUME NEW w \in Writer, FinishDelete(w) PROVE DeletedInv'
  BY <1>3 DEF FinishDelete, TypeOK
<1>4. ASSUME NEW w \in Writer, InsertSnapshot(w) PROVE DeletedInv'
  BY <1>4 DEF InsertSnapshot, TypeOK
<1>5. ASSUME NEW w \in Writer, UniqueViolation(w) PROVE DeletedInv'
  BY <1>5 DEF UniqueViolation, TypeOK
<1>6. ASSUME NEW w \in Writer, InsertNodes(w) PROVE DeletedInv'
  BY <1>6 DEF InsertNodes, TypeOK
<1>7. ASSUME NEW w \in Writer, InsertEdges(w) PROVE DeletedInv'
  BY <1>7 DEF InsertEdges, TypeOK
<1>8. ASSUME NEW w \in Writer, Commit(w) \/ Rollback(w) PROVE DeletedInv'
  BY <1>8 DEF Commit, Rollback, TypeOK
<1>9. CASE UNCHANGED tx
  BY <1>9
<1>10. ASSUME NEW w \in Writer, Succeed(w) \/ Fail(w) PROVE UNCHANGED tx
  BY <1>10 DEF Succeed, Fail
<1>11. ASSUME NEW r \in Reader, BeginRead(r) \/ Reads(r) \/ FailRead(r) PROVE UNCHANGED tx
  BY <1>11 DEF BeginRead, Reads, ReadSnapshot, ReadNodes, ReadEdges, ReadEvidence, ReadTable,
     EndRead, FailRead, writing
<1>12. CASE UNCHANGED vars
  BY <1>9, <1>12 DEF vars, writing
<1> QED
  BY <1>1, <1>2, <1>3, <1>4, <1>5, <1>6, <1>7, <1>8, <1>9, <1>10, <1>11, <1>12
     DEF Next, Replaces

\* Who waits at its INSERT without a conflict waits only for those that have inserted;
\* with one, for these and for who is deleting the committed row and has no conflict;
\* who waits at its DELETE, for those that have finished theirs.  So of several the one
\* that got furthest waits for none of the others.
LEMMA TheFurthestIsFree == TypeOK /\ DeletedInv => NoCircleOfWaits
<1> SUFFICES ASSUME TypeOK, DeletedInv, NEW W \in SUBSET Writer, W # {}
             PROVE  \E w \in W : \A u \in W : ~WaitsFor(w, u)
  BY DEF NoCircleOfWaits
<1>1. \A u \in W : tx[u].at \in {"none", "delete", "deleting"} => tx[u].deleted = NoWriter
  BY DEF DeletedInv
<1>2. CASE \E w \in W : tx[w].at \notin {"deleting", "insert"}
  BY <1>2 DEF WaitsFor
<1>3. CASE /\ \A w \in W : tx[w].at \in {"deleting", "insert"}
           /\ \E w \in W : tx[w].at = "insert" /\ ~Conflict(w)
  BY <1>3 DEF WaitsFor, InsertWaits, Inserted
<1>4. CASE /\ \A w \in W : tx[w].at \in {"deleting", "insert"}
           /\ \A w \in W : tx[w].at = "insert" => Conflict(w)
           /\ \E w \in W : tx[w].at = "insert"
  <2>1. PICK w \in W : tx[w].at = "insert" /\ Conflict(w)
    BY <1>4
  <2>2. ASSUME NEW u \in W, WaitsFor(w, u) PROVE FALSE
    <3>1. tx[u].deleted = tables.by /\ tables.by # NoWriter
      BY <1>4, <2>1, <2>2 DEF WaitsFor, InsertWaits, Inserted, Conflict
    <3>2. tx[u].at = "insert"
      BY <1>1, <1>4, <3>1
    <3> QED
      BY <1>4, <3>1, <3>2 DEF Conflict
  <2> QED
    BY <2>2
<1>5. CASE \A w \in W : tx[w].at = "deleting"
  BY <1>1, <1>5 DEF WaitsFor, DeleteWaits
<1> QED
  BY <1>2, <1>3, <1>4, <1>5

\* However many calls of Replace overlap, are given up or leave transactions behind,
\* none of them wait for each other in a circle.
THEOREM NobodyWaitsInACircle == Spec => []NoCircleOfWaits
<1>1. Init => DeletedInv
  BY DEF Init, DeletedInv, NoTx
<1>2. IInv => TypeOK
  BY DEF IInv
<1> QED
  BY <1>1, <1>2, InitIInv, NextKeeps, DeletedInvKept, TheFurthestIsFree, PTL DEF Spec

=============================================================================
