----------------------- MODULE PostgresTopologyStore -----------------------
(***************************************************************************)
(* storage/postgres TopologyStore: the transactions of Replace and Current *)
(* statement by statement, for one source and scope.                       *)
(*                                                                         *)
(* Replace runs at READ COMMITTED.  Its DELETE chooses the row to delete   *)
(* when it starts and waits for a transaction that deletes the same row;   *)
(* its INSERT waits for a transaction that inserted the same primary key,  *)
(* or that deletes a committed one, and fails when a committed row of      *)
(* another transaction is left.  Current runs at REPEATABLE READ: all its  *)
(* statements see what was committed when the first of them ran.           *)
(*                                                                         *)
(* A client that gives up (its timeout, or its death) leaves a transaction *)
(* behind, which ends later: rolled back, or committed if COMMIT was sent. *)
(***************************************************************************)
EXTENDS Naturals

CONSTANTS
    Writer,     \* the calls of Replace, of any process
    Reader,     \* callers of Current
    Snap,       \* snapshots; a table is named by the snapshot its rows are of
    NoRows,     \* the content of a table without rows
    NoWriter,   \* the transaction that inserted no row
    MaxFaults   \* bound: calls that fail or are given up

ASSUME StoreAssumption ==
    NoRows \notin Snap /\ NoWriter \notin Writer /\ MaxFaults \in Nat

VARIABLES
    tables,   \* the committed rows, and the transaction that inserted them
    tx,       \* the transaction of each Replace
    call,     \* what its client knows
    view,     \* what the transaction of each reader can see
    got,      \* what each reader has read so far
    reading,  \* the next statement of each reader
    before,   \* history: the calls of Replace that had ended when one began
    faults

writing == <<tables, tx, call, before>>
readers == <<view, got, reading>>
vars == <<writing, readers, faults>>

Rows == Snap \cup {NoRows}

\* The snapshot row, topology_nodes, topology_edges and their evidence.
Whole(s) == [snapshot |-> s, nodes |-> s, edges |-> s, evidence |-> s]
Contents == [snapshot : Rows, nodes : Rows, edges : Rows, evidence : Rows]
Empty == Whole(NoRows)

\* The statement a transaction is about to run.
Statement == {"none", "delete", "deleting", "insert", "nodes", "edges",
              "commit", "committed", "aborted"}

NoTx == [at |-> "none", snap |-> NoRows, target |-> NoWriter,
         deleted |-> NoWriter, writes |-> Empty]

TypeOK ==
    /\ tables \in [content : {Whole(s) : s \in Rows}, by : Writer \cup {NoWriter}]
    /\ tx \in [Writer -> [at : Statement, snap : Rows, target : Writer \cup {NoWriter},
                          deleted : Writer \cup {NoWriter}, writes : Contents]]
    /\ call \in [Writer -> {"idle", "called", "succeeded", "failed"}]
    /\ view \in [Reader -> Contents] /\ got \in [Reader -> Contents]
    /\ reading \in [Reader -> {"idle", "snapshot", "nodes", "edges", "evidence",
                               "commit", "returned"}]
    /\ before \in [Writer -> SUBSET Writer]
    /\ faults \in 0..MaxFaults

Init ==
    /\ tables = [content |-> Empty, by |-> NoWriter]
    /\ tx = [w \in Writer |-> NoTx]
    /\ call = [w \in Writer |-> "idle"]
    /\ view = [r \in Reader |-> Empty] /\ got = [r \in Reader |-> Empty]
    /\ reading = [r \in Reader |-> "idle"]
    /\ before = [w \in Writer |-> {}]
    /\ faults = 0

Open(w) == tx[w].at \notin {"none", "committed", "aborted"}

\* The transaction of u has inserted the snapshot row and is still open.
Inserted(u) == tx[u].at \in {"nodes", "edges", "commit"}

-----------------------------------------------------------------------------
(* Replace.                                                                *)

Begin(w, s) ==
    /\ call[w] = "idle"
    /\ call' = [call EXCEPT ![w] = "called"]
    /\ tx' = [tx EXCEPT ![w].at = "delete", ![w].snap = s]
    /\ before' = [before EXCEPT ![w] = {u \in Writer : call[u] \in {"succeeded", "failed"}}]
    /\ UNCHANGED <<tables, readers, faults>>

\* The client runs a statement and gets its result.
Runs(w, at) == tx[w].at = at /\ call[w] = "called"

\* The DELETE looks for the row it will delete.
StartDelete(w) ==
    /\ Runs(w, "delete")
    /\ tx' = [tx EXCEPT ![w].at = "deleting", ![w].target = tables.by]
    /\ UNCHANGED <<tables, call, before, readers, faults>>

\* u is deleting the row that w wants to delete.
DeleteWaits(w, u) ==
    tx[w].target # NoWriter /\ Open(u) /\ tx[u].deleted = tx[w].target

\* Once nobody else deletes that row it is deleted if it is still there; the
\* rows of the other tables go with it.
FinishDelete(w) ==
    /\ Runs(w, "deleting")
    /\ ~\E u \in Writer \ {w} : DeleteWaits(w, u)
    /\ tx' = [tx EXCEPT ![w].at = "insert",
                        ![w].deleted = IF tables.by = tx[w].target THEN tables.by
                                       ELSE NoWriter]
    /\ UNCHANGED <<tables, call, before, readers, faults>>

\* A committed row of another transaction that w has not deleted.
Conflict(w) == tables.by \notin {NoWriter, tx[w].deleted}

\* Mutant: the table is locked before the INSERT; whoever has begun a DELETE has a
\* lock on the table that excludes this one.
TableLocked(w, u) == Open(u) /\ tx[u].at # "delete"

\* u has inserted the key of w, or deletes the row that has it.
InsertWaits(w, u) ==
    Open(u) /\ (Inserted(u) \/ (Conflict(w) /\ tx[u].deleted = tables.by))

InsertBlocked(w) == \E u \in Writer \ {w} : InsertWaits(w, u)

InsertSnapshot(w) ==
    /\ Runs(w, "insert") /\ ~InsertBlocked(w) /\ ~Conflict(w)
    /\ tx' = [tx EXCEPT ![w].at = "nodes", ![w].writes.snapshot = tx[w].snap]
    /\ UNCHANGED <<tables, call, before, readers, faults>>

\* The primary key of topology_snapshots: the call fails and is rolled back.
UniqueViolation(w) ==
    /\ Runs(w, "insert") /\ ~InsertBlocked(w) /\ Conflict(w)
    /\ tx' = [tx EXCEPT ![w].at = "aborted"]
    /\ call' = [call EXCEPT ![w] = "failed"]
    /\ UNCHANGED <<tables, before, readers, faults>>

InsertNodes(w) ==
    /\ Runs(w, "nodes")
    /\ tx' = [tx EXCEPT ![w].at = "edges", ![w].writes.nodes = tx[w].snap]
    /\ UNCHANGED <<tables, call, before, readers, faults>>

\* The edges and their evidence; then the client sends COMMIT.
InsertEdges(w) ==
    /\ Runs(w, "edges")
    /\ tx' = [tx EXCEPT ![w].at = "commit", ![w].writes.edges = tx[w].snap,
                        ![w].writes.evidence = tx[w].snap]
    /\ UNCHANGED <<tables, call, before, readers, faults>>

\* The server commits, whether or not the client still waits for it.
Commit(w) ==
    /\ tx[w].at = "commit"
    /\ tables' = [content |-> tx[w].writes, by |-> w]
    /\ tx' = [tx EXCEPT ![w].at = "committed"]
    /\ UNCHANGED <<call, before, readers, faults>>

Succeed(w) ==
    /\ tx[w].at = "committed" /\ call[w] = "called"
    /\ call' = [call EXCEPT ![w] = "succeeded"]
    /\ UNCHANGED <<tables, tx, before, readers, faults>>

\* A statement fails, or the client gives up or dies before it is answered.
Fail(w) ==
    /\ call[w] = "called" /\ faults < MaxFaults
    /\ faults' = faults + 1
    /\ call' = [call EXCEPT ![w] = "failed"]
    /\ UNCHANGED <<tables, tx, before, readers>>

\* The deferred rollback, or the server's when the connection is gone.
Rollback(w) ==
    /\ call[w] = "failed" /\ Open(w)
    /\ tx' = [tx EXCEPT ![w].at = "aborted"]
    /\ UNCHANGED <<tables, call, before, readers, faults>>

-----------------------------------------------------------------------------
(* Current.                                                                *)

BeginRead(r) ==
    /\ reading[r] \in {"idle", "returned"}
    /\ reading' = [reading EXCEPT ![r] = "snapshot"]
    /\ view' = [view EXCEPT ![r] = Empty] /\ got' = [got EXCEPT ![r] = Empty]
    /\ UNCHANGED <<writing, faults>>

\* The first statement fixes what the transaction sees; without a row the
\* call returns ErrTopologyNotFound.
ReadSnapshot(r) ==
    /\ reading[r] = "snapshot"
    /\ view' = [view EXCEPT ![r] = tables.content]
    /\ got' = [got EXCEPT ![r].snapshot = tables.content.snapshot]
    /\ reading' = [reading EXCEPT ![r] = IF tables.content.snapshot = NoRows
                                         THEN "commit" ELSE "nodes"]
    /\ UNCHANGED <<writing, faults>>

\* Mutant: the default isolation level.
ReadCommitted(r, table, from, to) ==
    /\ reading[r] = from
    /\ got' = [got EXCEPT ![r][table] = tables.content[table]]
    /\ reading' = [reading EXCEPT ![r] = to]
    /\ UNCHANGED <<writing, view, faults>>

ReadTable(r, table, from, to) ==
    /\ reading[r] = from
    /\ got' = [got EXCEPT ![r][table] = view[r][table]]
    /\ reading' = [reading EXCEPT ![r] = to]
    /\ UNCHANGED <<writing, view, faults>>

ReadNodes(r) == ReadTable(r, "nodes", "nodes", "edges")
ReadEdges(r) == ReadTable(r, "edges", "edges", "evidence")
ReadEvidence(r) == ReadTable(r, "evidence", "evidence", "commit")

EndRead(r) ==
    /\ reading[r] = "commit"
    /\ reading' = [reading EXCEPT ![r] = "returned"]
    /\ UNCHANGED <<writing, view, got, faults>>

FailRead(r) ==
    /\ reading[r] \notin {"idle", "returned"} /\ faults < MaxFaults
    /\ faults' = faults + 1
    /\ reading' = [reading EXCEPT ![r] = "idle"]
    /\ view' = [view EXCEPT ![r] = Empty] /\ got' = [got EXCEPT ![r] = Empty]
    /\ UNCHANGED writing

-----------------------------------------------------------------------------

Replaces(w) ==
    \/ StartDelete(w) \/ FinishDelete(w) \/ InsertSnapshot(w) \/ UniqueViolation(w)
    \/ InsertNodes(w) \/ InsertEdges(w) \/ Commit(w) \/ Succeed(w) \/ Rollback(w)

Reads(r) == ReadSnapshot(r) \/ ReadNodes(r) \/ ReadEdges(r) \/ ReadEvidence(r) \/ EndRead(r)

Next ==
    \/ \E w \in Writer : (\E s \in Snap : Begin(w, s)) \/ Replaces(w) \/ Fail(w)
    \/ \E r \in Reader : BeginRead(r) \/ Reads(r) \/ FailRead(r)

Spec == Init /\ [][Next]_vars

-----------------------------------------------------------------------------

Stated(content) == IF content = Empty THEN NoRows ELSE content

RegisterReplace ==
    [w \in Writer |->
        [state |-> call[w],
         content |-> IF call[w] = "idle" THEN NoRows ELSE Whole(tx[w].snap),
         applied |-> tx[w].at = "committed", after |-> before[w]]]

RegisterRead ==
    [r \in Reader |->
        [state |-> IF reading[r] \in {"idle", "returned"} THEN reading[r]
                   ELSE IF reading[r] = "snapshot" THEN "called" ELSE "looked",
         content |-> Stated(IF reading[r] = "returned" THEN got[r] ELSE view[r])]]

Register == INSTANCE TopologyRegister WITH
    Content <- {Whole(s) : s \in Snap}, Nothing <- NoRows,
    stored <- Stated(tables.content), replace <- RegisterReplace, read <- RegisterRead

\* Whatever overlaps, fails or is left behind, a Replace is all or nothing and a
\* Current returns one snapshot as it was replaced, never rows of two
\* (postgres/topology_store.go:44-127).
ImplementsRegister == Register!Spec

WaitsFor(w, u) ==
    /\ w # u
    /\ \/ tx[w].at = "deleting" /\ DeleteWaits(w, u)
       \/ tx[w].at = "insert" /\ InsertWaits(w, u)

\* A Replace waits for others at its DELETE and at its INSERT, for different rows, for
\* several of them at a time, and for transactions whose client has given up as well;
\* yet among any of them there is one that waits for none of the others
\* (postgres/topology_store.go:71-98).
NoCircleOfWaits ==
    \A W \in SUBSET Writer : W # {} => \E w \in W : \A u \in W : ~WaitsFor(w, u)

=============================================================================
