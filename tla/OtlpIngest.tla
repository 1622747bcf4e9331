----------------------------- MODULE OtlpIngest -----------------------------
(***************************************************************************)
(* Trace exporters, the OTLP/HTTP receiver and the observation store.      *)
(* The handlers of the receiver (observation/otel/http_receiver.go) run    *)
(* concurrently and record what a request yields with one Ingest before    *)
(* they answer.  An exporter retries what was not answered or was answered *)
(* with 503 or 504; the handler of an earlier attempt may still be at work *)
(* then, and what it records is recorded twice.  RequestBody is how the    *)
(* body of an attempt is taken.                                            *)
(***************************************************************************)
EXTENDS ObservationStore, RequestBody, FiniteSets, Functions

CONSTANTS
    Client,       \* trace exporters, each with one request to deliver
    Requests,     \* the requests: bodies whose payload are facts, and whether
                  \* the store has room and type for them
    Durable,      \* PostgreSQL is configured, not the memory store
    MaxAttempts,  \* bound: how often an exporter sends its request
    MaxFaults     \* bound: failures, lost answers, timeouts and crashes

ASSUME IngestAssumption ==
    /\ Batches \subseteq Seq(Fact)
    /\ \A r \in Requests :
          /\ IsBody(r) /\ r.payload \in {<<>>} \cup Batches
          /\ r.storable \in BOOLEAN
          /\ ~Durable => r.storable
    /\ IsFiniteSet(Client) /\ Durable \in BOOLEAN
    /\ MaxAttempts \in Nat \ {0} /\ MaxFaults \in Nat

VARIABLES
    maxRequestBytes,   \* the configured limit
    request,   \* the request of each exporter
    phase,     \* where each exporter is
    sent,      \* how many attempts it has made
    handler,   \* the handler of each attempt: stage and status
    cutOff,    \* history: exporters of which a body did not arrive in time
    faults

given == <<maxRequestBytes, request>>
exporters == <<given, phase, sent>>
ingestVars == <<aggregates, exporters, handler, cutOff, faults>>

Attempt == 1..MaxAttempts
Stage == {"none", "receive", "ingest", "answer"}
Status == {0, 200, 400, 413, 415, 503, 504}

TypeOK ==
    /\ aggregates \in Aggregates
    /\ maxRequestBytes \in Limits
    /\ request \in [Client -> Requests]
    /\ phase \in [Client -> {"idle", "waiting", "acked", "dropped"}]
    /\ sent \in [Client -> 0..MaxAttempts]
    /\ handler \in [Client -> [Attempt -> [stage : Stage, status : Status]]]
    /\ cutOff \subseteq Client
    /\ faults \in 0..MaxFaults

NoHandler == [stage |-> "none", status |-> 0]

IngestInit ==
    /\ Init
    /\ maxRequestBytes \in Limits
    /\ request \in [Client -> Requests]
    /\ phase = [c \in Client |-> "idle"]
    /\ sent = [c \in Client |-> 0]
    /\ handler = [c \in Client |-> [i \in Attempt |-> NoHandler]]
    /\ cutOff = {}
    /\ faults = 0

\* The handler of attempt i goes on to a stage, with the status it answers.
Goes(c, i, stage, status) ==
    handler' = [handler EXCEPT ![c][i] = [stage |-> stage, status |-> status]]

\* The exporter still waits for attempt i: its request context is not done.
Connected(c, i) == phase[c] = "waiting" /\ sent[c] = i

Fault == faults < MaxFaults /\ faults' = faults + 1

-----------------------------------------------------------------------------
(* The exporters, outside the repository.                                  *)

Send(c) ==
    /\ phase[c] = "idle" /\ sent[c] < MaxAttempts
    /\ phase' = [phase EXCEPT ![c] = "waiting"]
    /\ sent' = [sent EXCEPT ![c] = @ + 1]
    /\ Goes(c, sent[c] + 1, "receive", 0)
    /\ UNCHANGED <<aggregates, given, cutOff, faults>>

\* The exporter's own timeout: it closes the connection.
Timeout(c) ==
    /\ phase[c] = "waiting" /\ Fault
    /\ phase' = [phase EXCEPT ![c] = "idle"]
    /\ UNCHANGED <<aggregates, given, sent, handler, cutOff>>

AfterAnswer(status) ==
    CASE status = 200 -> "acked"
      [] status \in {400, 413, 415} -> "dropped"
      [] status \in {503, 504} -> "idle"

-----------------------------------------------------------------------------
(* The receiver.                                                           *)

\* What the receiver has of the facts of a request.
Received(c) == Taken(maxRequestBytes, request[c])

\* A body that cannot be taken or decoded is answered with a client error; a
\* request whose context ended is not normalized; one without an accepted span
\* is answered at once, with the spans it rejects as a partial success.
Receive(c, i) ==
    /\ handler[c][i].stage = "receive"
    /\ \E status \in BodyStatuses(maxRequestBytes, request[c]) :
          IF status # 200 THEN Goes(c, i, "answer", status)
          ELSE IF ~Connected(c, i) THEN Goes(c, i, "answer", 503)
          ELSE IF Received(c) = <<>> THEN Goes(c, i, "answer", 200)
          ELSE Goes(c, i, "ingest", 0)
    /\ UNCHANGED <<aggregates, exporters, cutOff, faults>>

\* The body breaks off: ReadTimeout ends a slow one.  Nobody tells this from a
\* body that is wrong, and no exporter sends it again.
ReceiveCutOff(c, i) ==
    /\ handler[c][i].stage = "receive"
    /\ HeaderStatus(maxRequestBytes, request[c]) = 200
    /\ Fault
    /\ cutOff' = cutOff \cup {c}
    /\ Goes(c, i, "answer", 400)
    /\ UNCHANGED <<aggregates, exporters>>

\* Mutant: a failed Ingest is answered with success.
IngestFailureHidden(c, i) ==
    /\ handler[c][i].stage = "ingest"
    /\ \/ ~Connected(c, i) /\ UNCHANGED faults
       \/ Fault
    /\ Goes(c, i, "answer", 200)
    /\ UNCHANGED <<aggregates, exporters, cutOff>>

\* Mutant: a failed Ingest is answered with a client error.
IngestFailureFinal(c, i) ==
    /\ handler[c][i].stage = "ingest"
    /\ \/ ~Connected(c, i) /\ UNCHANGED faults
       \/ Fault
    /\ Goes(c, i, "answer", 400)
    /\ UNCHANGED <<aggregates, exporters, cutOff>>

\* ObservationService.Ingest, one atomic UpsertBatch.
Ingest(c, i) ==
    /\ handler[c][i].stage = "ingest" /\ request[c].storable
    /\ UpsertBatch(Received(c))
    /\ Goes(c, i, "answer", 200)
    /\ UNCHANGED <<exporters, cutOff, faults>>

\* The store fails or the request context ends; PostgreSQL may have committed.
IngestFails(c, i) ==
    /\ handler[c][i].stage = "ingest"
    /\ \/ ~Connected(c, i) /\ UNCHANGED faults
       \/ Fault
    /\ \/ UNCHANGED aggregates
       \/ Durable /\ request[c].storable /\ UpsertBatch(Received(c))
    /\ \E status \in {503, 504} : Goes(c, i, "answer", status)
    /\ UNCHANGED <<exporters, cutOff>>

\* The database refuses a fact, and with it the batch, whenever it is sent: an
\* identity that exceeds an index row, a text with a NUL character.
IngestRefused(c, i) ==
    /\ handler[c][i].stage = "ingest" /\ ~request[c].storable
    /\ Goes(c, i, "answer", 503)
    /\ UNCHANGED <<aggregates, exporters, cutOff, faults>>

\* The answer reaches the exporter, or nobody if it no longer waits.
Answer(c, i) ==
    /\ handler[c][i].stage = "answer"
    /\ phase' = IF Connected(c, i)
                THEN [phase EXCEPT ![c] = AfterAnswer(handler[c][i].status)]
                ELSE phase
    /\ Goes(c, i, "none", 0)
    /\ UNCHANGED <<aggregates, given, sent, cutOff, faults>>

\* The process dies: handlers end, exporters lose their connections.
Crash ==
    /\ Fault
    /\ aggregates' = IF Durable THEN aggregates ELSE NoAggregates
    /\ handler' = [c \in Client |-> [i \in Attempt |-> NoHandler]]
    /\ phase' = [c \in Client |-> IF phase[c] = "waiting" THEN "idle" ELSE phase[c]]
    /\ UNCHANGED <<given, sent, cutOff>>

Handles(c, i) == \/ Receive(c, i) \/ ReceiveCutOff(c, i)
                 \/ Ingest(c, i) \/ IngestFails(c, i) \/ IngestRefused(c, i)
                 \/ Answer(c, i)

IngestNext ==
    \/ \E c \in Client : \/ Send(c) \/ Timeout(c)
                         \/ \E i \in Attempt : Handles(c, i)
    \/ Crash

IngestSpec == IngestInit /\ [][IngestNext]_ingestVars

\* Some handler runs as long as there is one, and some exporter that may retries as
\* OTLP asks it to.
FairIngestSpec ==
    /\ IngestSpec
    /\ WF_ingestVars(\E c \in Client : Send(c))
    /\ WF_ingestVars(\E c \in Client, i \in Attempt : Handles(c, i))

-----------------------------------------------------------------------------

FactsOf(c) == {request[c].payload[j] : j \in DOMAIN request[c].payload}

Recorded(f) ==
    /\ f.key \in DOMAIN aggregates
    /\ aggregates[f.key].first <= f.at /\ f.at <= aggregates[f.key].last

\* What was answered with success is in the store, every fact that the exporter
\* sent and not only the beginning of a body that exceeds the limit, and it stays
\* there over crashes when the store is durable (http_receiver.go:84-119, 152-165).
AckedIsRecorded ==
    Durable => \A c \in Client : phase[c] = "acked" => \A f \in FactsOf(c) : Recorded(f)

\* How often the facts of a request with this identity are in it.
Occurrences(c, k) ==
    Cardinality({j \in DOMAIN request[c].payload : request[c].payload[j].key = k})

\* How often the exporters sent the identity k in requests that the store takes, and
\* how often they were told that it is recorded.
Offered(k) ==
    SumFunctionOnSet([c \in Client |-> sent[c] * Occurrences(c, k)],
                     {c \in Client : request[c].storable})
Acknowledged(k) ==
    SumFunctionOnSet([c \in Client |-> Occurrences(c, k)],
                     {c \in Client : phase[c] = "acked"})

\* The count is approximate: never more than what was sent, where a batch that the
\* store refuses counts for nothing, and never less than what was acknowledged
\* unless the store cannot represent that many (http_receiver.go:105-110).
CountIsBetween ==
    Durable =>
        \A k \in DOMAIN aggregates :
            /\ aggregates[k].count >=
                 IF Acknowledged(k) < MaxCount THEN Acknowledged(k) ELSE MaxCount
            /\ aggregates[k].count <= Offered(k)

\* Requests that the receiver and the store have no reason to refuse.
Acceptable(c) ==
    /\ WellFormed(request[c]) /\ Fits(maxRequestBytes, request[c])
    /\ request[c].storable

\* While there are more attempts than faults every request that is well formed,
\* fits the limit, be it exactly, and can be stored is acknowledged in the end,
\* unless its body broke off on the way (http_receiver.go:77-125).
EventuallyAcked ==
    \A c \in Client :
        Acceptable(c) => <>(phase[c] = "acked" \/ (phase[c] = "dropped" /\ c \in cutOff))

=============================================================================
