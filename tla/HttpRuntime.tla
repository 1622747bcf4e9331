----------------------------- MODULE HttpRuntime -----------------------------
(***************************************************************************)
(* The end of cmd/eventatlas run and all of runHTTPServers: servers that   *)
(* are bound one after the other and served together, the signal or the    *)
(* failure that stops them all within one shutdown budget, the refresher   *)
(* that shares the process context, and the stores that are closed last:   *)
(* closing the pool waits for the connections that requests still hold.    *)
(***************************************************************************)
EXTENDS Naturals, Sequences, FiniteSets

CONSTANTS
    Servers,      \* the configured servers, in the order they are bound
    MaxRequests   \* bound: requests in flight on a server

Server == {Servers[i] : i \in DOMAIN Servers}

ASSUME ServersAssumption ==
    Servers \in Seq(Server) /\ Servers # <<>> /\ MaxRequests \in Nat

VARIABLES
    main,        \* where run is
    server,      \* the listener and the Serve goroutine of each server
    inFlight,    \* the requests each server is handling
    querying,    \* how many of them hold a connection of the pool
    results,     \* the channel of Serve results
    completed,   \* the results received from it
    triggered,   \* a server's result, not the signal, was first
    shutdown,    \* the Shutdown goroutine of each server
    expired,     \* the shutdown budget is used up
    cancelled,   \* the context of the process is done
    refresher,   \* PeriodicRefresher.Run
    stores,      \* whether the stores are open
    errors,      \* what run returns
    aborted      \* the servers that cut requests short

requests == <<inFlight, querying>>
servers == <<server, requests>>
stopping == <<completed, triggered, shutdown, expired>>
vars == <<main, servers, results, stopping, cancelled, refresher, stores, errors, aborted>>

Result == [server : Server, clean : BOOLEAN]

TypeOK ==
    /\ main \in {"bind", "select", "shutdown", "collect", "returned", "closing",
                "exited"}
    /\ server \in [Server -> {"none", "listening", "spawned", "serving", "stopped"}]
    /\ inFlight \in [Server -> 0..MaxRequests]
    /\ querying \in [Server -> 0..MaxRequests] /\ \A s \in Server : querying[s] <= inFlight[s]
    /\ results \in Seq(Result) /\ completed \in Seq(Result)
    /\ Len(results) + Len(completed) <= Cardinality(Server)
    /\ shutdown \in [Server -> {"none", "spawned", "waiting", "clean", "forced"}]
    /\ triggered \in BOOLEAN /\ expired \in BOOLEAN /\ cancelled \in BOOLEAN
    /\ refresher \in {"waiting", "refreshing", "done"}
    /\ stores \in {"open", "closed"}
    /\ errors \subseteq ({"listen", "serve", "stopped", "shutdown"} \X Server)
    /\ aborted \subseteq Server

Init ==
    /\ main = "bind"
    /\ server = [s \in Server |-> "none"] /\ inFlight = [s \in Server |-> 0]
    /\ querying = [s \in Server |-> 0]
    /\ results = <<>> /\ completed = <<>> /\ triggered = FALSE
    /\ shutdown = [s \in Server |-> "none"] /\ expired = FALSE
    /\ cancelled \in BOOLEAN
    /\ refresher = "waiting" /\ stores = "open"
    /\ errors = {} /\ aborted = {}

-----------------------------------------------------------------------------
(* Around runHTTPServers.                                                  *)

Signal ==
    /\ ~cancelled /\ main # "exited"
    /\ cancelled' = TRUE
    /\ UNCHANGED <<main, servers, results, stopping, refresher, stores, errors, aborted>>

\* An attempt may begin after the context is done: select chooses at random.
StartRefresh ==
    /\ refresher = "waiting"
    /\ refresher' = "refreshing"
    /\ UNCHANGED <<main, servers, results, stopping, cancelled, stores, errors, aborted>>

EndRefresh ==
    /\ refresher = "refreshing"
    /\ refresher' = "waiting"
    /\ UNCHANGED <<main, servers, results, stopping, cancelled, stores, errors, aborted>>

StopRefresher ==
    /\ refresher = "waiting" /\ cancelled
    /\ refresher' = "done"
    /\ UNCHANGED <<main, servers, results, stopping, cancelled, stores, errors, aborted>>

\* Mutant: run does not wait for the refresher.
CloseStoresAtOnce ==
    /\ main = "returned"
    /\ main' = "closing" /\ stores' = "closed"
    /\ UNCHANGED <<servers, results, stopping, cancelled, refresher, errors, aborted>>

\* run waits for the refresher and then closes the stores: the pool gives no
\* connection any more.
CloseStores ==
    /\ main = "returned" /\ refresher = "done"
    /\ main' = "closing" /\ stores' = "closed"
    /\ UNCHANGED <<servers, results, stopping, cancelled, refresher, errors, aborted>>

\* pool.Close returns when every connection was given back.
Exit ==
    /\ main = "closing" /\ \A s \in Server : querying[s] = 0
    /\ main' = "exited"
    /\ UNCHANGED <<servers, results, stopping, cancelled, refresher, stores, errors, aborted>>

-----------------------------------------------------------------------------
(* The servers.                                                            *)

\* The next server to bind.
Bound == Cardinality({s \in Server : server[s] # "none"})

Listen ==
    /\ main = "bind"
    /\ LET s == Servers[Bound + 1]
       IN  /\ server' = IF Bound + 1 < Len(Servers)
                        THEN [server EXCEPT ![s] = "listening"]
                        ELSE [t \in Server |-> "spawned"]
           /\ main' = IF Bound + 1 < Len(Servers) THEN "bind" ELSE "select"
    /\ UNCHANGED <<requests, results, stopping, cancelled, refresher, stores, errors, aborted>>

\* An address is taken: what was opened is closed again.
ListenFails ==
    /\ main = "bind"
    /\ errors' = {<<"listen", Servers[Bound + 1]>>}
    /\ server' = [s \in Server |-> "stopped"]
    /\ cancelled' = TRUE
    /\ main' = "returned"
    /\ UNCHANGED <<requests, results, stopping, refresher, stores, aborted>>

\* Serve begins, unless Shutdown was called first.
Serve(s) ==
    /\ server[s] = "spawned" /\ shutdown[s] \in {"none", "spawned"}
    /\ server' = [server EXCEPT ![s] = "serving"]
    /\ UNCHANGED <<main, requests, results, stopping, cancelled, refresher, stores,
                   errors, aborted>>

\* Serve returns and closes the listener, by itself or because of Shutdown.
ServeReturns(s) ==
    /\ server[s] \in {"spawned", "serving"}
    /\ \E clean \in BOOLEAN :
          /\ clean => shutdown[s] \notin {"none", "spawned"}
          /\ results' = Append(results, [server |-> s, clean |-> clean])
    /\ server' = [server EXCEPT ![s] = "stopped"]
    /\ UNCHANGED <<main, requests, stopping, cancelled, refresher, stores, errors, aborted>>

Accept(s) ==
    /\ server[s] = "serving" /\ shutdown[s] \in {"none", "spawned"}
    /\ inFlight[s] < MaxRequests
    /\ inFlight' = [inFlight EXCEPT ![s] = @ + 1]
    /\ UNCHANGED <<main, server, querying, results, stopping, cancelled, refresher, stores,
                   errors, aborted>>

\* A handler takes a connection of the pool; its statement may take for ever.
Query(s) ==
    /\ querying[s] < inFlight[s] /\ s \notin aborted /\ stores = "open"
    /\ querying' = [querying EXCEPT ![s] = @ + 1]
    /\ UNCHANGED <<main, server, inFlight, results, stopping, cancelled, refresher, stores,
                   errors, aborted>>

\* The statement ends, or the context of its request is done.
QueryEnds(s) ==
    /\ querying[s] > 0
    /\ querying' = [querying EXCEPT ![s] = @ - 1]
    /\ UNCHANGED <<main, server, inFlight, results, stopping, cancelled, refresher, stores,
                   errors, aborted>>

Answer(s) ==
    /\ querying[s] < inFlight[s]
    /\ inFlight' = [inFlight EXCEPT ![s] = @ - 1]
    /\ UNCHANGED <<main, server, querying, results, stopping, cancelled, refresher, stores,
                   errors, aborted>>

-----------------------------------------------------------------------------
(* The main loop of runHTTPServers.                                        *)

\* The first of a result and the end of the context stops everything.
Select ==
    /\ main = "select"
    /\ \/ /\ results # <<>>
          /\ completed' = <<Head(results)>> /\ results' = Tail(results)
          /\ triggered' = TRUE
       \/ cancelled /\ UNCHANGED <<completed, results, triggered>>
    /\ cancelled' = TRUE
    /\ shutdown' = [s \in Server |-> "spawned"]
    /\ main' = "shutdown"
    /\ UNCHANGED <<servers, expired, refresher, stores, errors, aborted>>

Expire ==
    /\ main = "shutdown" /\ ~expired
    /\ expired' = TRUE
    /\ UNCHANGED <<main, servers, results, completed, triggered, shutdown, cancelled,
                   refresher, stores, errors, aborted>>

\* A step of the Shutdown goroutine of s.
Shuts(s, from, to) ==
    /\ shutdown[s] = from /\ shutdown' = [shutdown EXCEPT ![s] = to]
    /\ UNCHANGED <<main, servers, results, completed, triggered, expired, cancelled,
                   refresher, stores>>

CallShutdown(s) == Shuts(s, "spawned", "waiting") /\ UNCHANGED <<errors, aborted>>

\* Shutdown returns when the server is idle.
ShutdownIdle(s) ==
    inFlight[s] = 0 /\ Shuts(s, "waiting", "clean") /\ UNCHANGED <<errors, aborted>>

\* Mutant: the error of Shutdown is reported and the server is not closed.
ShutdownUnclosed(s) ==
    /\ expired /\ Shuts(s, "waiting", "forced")
    /\ errors' = errors \cup {<<"shutdown", s>>} /\ UNCHANGED aborted

\* The budget is used up: Close ends the connections, which cancels the contexts of
\* their requests; the handlers may run on.
ShutdownForced(s) ==
    /\ expired /\ Shuts(s, "waiting", "forced")
    /\ errors' = errors \cup {<<"shutdown", s>>}
    /\ aborted' = IF inFlight[s] > 0 THEN aborted \cup {s} ELSE aborted

ShutdownsReported ==
    /\ main = "shutdown" /\ \A s \in Server : shutdown[s] \in {"clean", "forced"}
    /\ main' = "collect"
    /\ UNCHANGED <<servers, results, stopping, cancelled, refresher, stores, errors, aborted>>

Collect ==
    /\ main = "collect" /\ Len(completed) < Len(Servers)
    /\ results # <<>>
    /\ completed' = Append(completed, Head(results)) /\ results' = Tail(results)
    /\ UNCHANGED <<main, servers, triggered, shutdown, expired, cancelled, refresher,
                   stores, errors, aborted>>

\* Mutant: only the server that triggered the shutdown is reported.
ReturnFirst ==
    /\ main = "collect" /\ Len(completed) = Len(Servers)
    /\ main' = "returned"
    /\ errors' = errors \cup (IF completed[1].clean THEN {}
                              ELSE {<<"serve", completed[1].server>>})
    /\ UNCHANGED <<servers, results, stopping, cancelled, refresher, stores, aborted>>

\* Every result but ErrServerClosed is an error, and so is a first one that
\* triggered the shutdown.
Return ==
    /\ main = "collect" /\ Len(completed) = Len(Servers)
    /\ main' = "returned"
    /\ errors' = errors
           \cup {<<"serve", completed[i].server>> :
                    i \in {j \in DOMAIN completed : ~completed[j].clean}}
           \cup {<<"stopped", completed[i].server>> :
                    i \in {j \in {1} : triggered /\ completed[j].clean}}
    /\ UNCHANGED <<servers, results, stopping, cancelled, refresher, stores, aborted>>

ShutsDown(s) == CallShutdown(s) \/ ShutdownIdle(s) \/ ShutdownForced(s)

Main == Select \/ ShutdownsReported \/ Collect \/ Return \/ CloseStores \/ Exit

Next ==
    \/ Signal \/ StartRefresh \/ EndRefresh \/ StopRefresher
    \/ Listen \/ ListenFails \/ Expire \/ Main
    \/ \E s \in Server : \/ Serve(s) \/ ServeReturns(s) \/ Accept(s) \/ Answer(s)
                         \/ Query(s) \/ QueryEnds(s)
                         \/ ShutsDown(s)

Spec == Init /\ [][Next]_vars

\* Goroutines run, the budget expires, attempts have a timeout and a statement ends
\* when the context of its request is done; otherwise requests and their statements
\* may take for ever, and nothing has to fail.
FairSpec ==
    /\ Spec
    /\ WF_vars(Listen \/ ListenFails) /\ WF_vars(Main) /\ WF_vars(Expire)
    /\ WF_vars(EndRefresh) /\ SF_vars(StopRefresher)
    /\ \A s \in Server :
          /\ WF_vars(ShutsDown(s))
          /\ WF_vars(s \in aborted /\ QueryEnds(s))
          /\ WF_vars(shutdown[s] \notin {"none", "spawned"} /\ ServeReturns(s))

-----------------------------------------------------------------------------

\* The stores are closed when nobody uses them any more: the refresher has
\* returned, no server accepts a request and no handler is at work but those whose
\* connection was closed.
StoresOutliveTheirUsers ==
    stores = "closed" =>
        /\ refresher = "done"
        /\ \A s \in Server : server[s] = "stopped" /\ (inFlight[s] > 0 => s \in aborted)

Failed(s) == \E r \in {results[i] : i \in DOMAIN results}
                      \cup {completed[i] : i \in DOMAIN completed} :
                r.server = s /\ ~r.clean

\* run returns no error exactly if all servers were bound, ran until they were
\* told to stop and were idle in time, whichever of them stopped first.
ErrorsTellTheTruth ==
    main \in {"returned", "closing", "exited"} =>
        (errors = {} <=> /\ \A s \in Server : shutdown[s] = "clean"
                         /\ \A s \in Server : ~Failed(s)
                         /\ aborted = {})

\* A signal, a failed server and an address in use all end the process, however
\* long requests and the statements of their handlers take (http_runtime.go:64-87,
\* main.go:50, 154).
CancellationEndsTheProcess ==
    /\ cancelled ~> main = "exited"
    /\ \A s \in Server : server[s] = "stopped" ~> main = "exited"

=============================================================================
