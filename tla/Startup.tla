------------------------------- MODULE Startup -------------------------------
(***************************************************************************)
(* One start of the process (cmd/eventatlas: loadConfig, run,              *)
(* configureStores, configureOTLPServer, configureTopologyViewService,     *)
(* loadInitialTopology), up to the point where it serves, and its return:  *)
(* what the environment variables become, which constructor looks at what, *)
(* what is opened, and what is closed again wherever the start ends.       *)
(*                                                                         *)
(* A call of the database or of the broker may succeed, fail, or never     *)
(* answer.  What happens while the process serves is HttpRuntime's.        *)
(***************************************************************************)
EXTENDS Integers, Sequences, SequencesExt

CONSTANT
    Environments   \* what the variables may be set to: functions Names -> texts

\* The numbers, in the order in which loadConfig reads them.
NumberNames ==
    <<"OTLP_MAX_REQUEST_BYTES", "OTLP_MAX_FUTURE_SKEW", "OBSERVATION_RETENTION",
      "DISCOVERY_TIMEOUT", "DATABASE_TIMEOUT", "REFRESH_INTERVAL", "SHUTDOWN_TIMEOUT">>

Numbers   == ToSet(NumberNames)
Strings   == {"HTTP_ADDRESS", "NATS_URL", "NATS_SOURCE_ID", "NATS_BROKER_NAME",
              "NATS_DISCOVERY_SCOPE", "ENVIRONMENT", "OTLP_SOURCE_ID"}
Optionals == {"DATABASE_URL", "OTLP_HTTP_ADDRESS"}
Names     == Numbers \cup Strings \cup Optionals

Texts == {"unset", "blank", "malformed", "negative", "zero", "usable"}

ASSUME EnvironmentAssumption == Environments \subseteq [Names -> Texts]

VARIABLES
    env,        \* the environment of the process
    stored,     \* whether the database has a snapshot of the source
    stage,      \* what run() is about to do
    config,     \* the configuration, or << >>
    open,       \* resources that are open
    deferred,   \* the deferred calls: the resources they close, in order
    signalled,  \* whether the process was told to end
    persisted,  \* whether loadInitialTopology found a snapshot
    serves,     \* the snapshot it serves: "none", "persisted" or "discovered"
    failure     \* why run() returns, or "none"

startVars == <<env, stored, stage, config, open, deferred, signalled, persisted, serves, failure>>

StartInit ==
    /\ env \in Environments /\ stored \in BOOLEAN
    /\ stage = "load" /\ config = << >>
    /\ open = {} /\ deferred = << >>
    /\ signalled = FALSE /\ persisted = FALSE
    /\ serves = "none" /\ failure = "none"

-----------------------------------------------------------------------------
(* config.go *)

\* strings.TrimSpace of a variable; empty if there is none.
Trimmed(text) == IF text \in {"unset", "blank"} THEN "" ELSE text

\* Mutant: a blank variable replaces the default.
AnyTextSet(text) == IF text = "unset" THEN "default" ELSE Trimmed(text)

StringFromEnv(text) == IF Trimmed(text) = "" THEN "default" ELSE Trimmed(text)

\* What ParseDuration and ParseInt make of a text, and every default: all of them
\* are positive.
Parsed(text) == CASE text = "zero" -> 0 [] text = "negative" -> -1 [] OTHER -> 1

Refused(text) == text = "malformed" \/ Parsed(text) <= 0

ConfigOf(e) ==
    [n \in Names |-> IF n \in Numbers THEN Parsed(e[n])
                     ELSE IF n \in Strings THEN StringFromEnv(e[n])
                     ELSE Trimmed(e[n])]

-----------------------------------------------------------------------------
(* What the constructors demand of the configuration. *)

\* NewSourceID and NewDiscoveryScope reject what is blank.
Identifies(c) == c["NATS_SOURCE_ID"] # "" /\ c["NATS_DISCOVERY_SCOPE"] # ""

NormalizerAccepts(c) ==
    c["OTLP_SOURCE_ID"] # "" /\ c["ENVIRONMENT"] # "" /\ c["OTLP_MAX_FUTURE_SKEW"] >= 0

ReceiverAccepts(c) == c["OTLP_MAX_REQUEST_BYTES"] > 0

ProviderAccepts(c) == c["NATS_BROKER_NAME"] # "" /\ c["ENVIRONMENT"] # ""

ProjectorAccepts(c) == c["OBSERVATION_RETENTION"] > 0

RefresherAccepts(c) == c["REFRESH_INTERVAL"] > 0 /\ c["DISCOVERY_TIMEOUT"] > 0

-----------------------------------------------------------------------------
(* run *)

FailStart(why) ==
    /\ stage' = "returning" /\ failure' = why
    /\ UNCHANGED <<config, deferred, persisted, serves>>

GoOn(next) ==
    stage' = next /\ UNCHANGED <<config, persisted, serves, failure>>

Untouched == UNCHANGED <<env, stored, signalled>>

\* The first variable that cannot be used ends the start.
Load ==
    /\ stage = "load"
    /\ \/ \E i \in DOMAIN NumberNames :
             /\ Refused(env[NumberNames[i]])
             /\ \A j \in 1..(i - 1) : ~Refused(env[NumberNames[j]])
             /\ FailStart(NumberNames[i])
       \/ /\ \A n \in Numbers : ~Refused(env[n])
          /\ config' = ConfigOf(env) /\ stage' = "identify"
          /\ UNCHANGED <<deferred, persisted, serves, failure>>
    /\ Untouched /\ UNCHANGED open

Identify ==
    /\ stage = "identify"
    /\ IF ~Identifies(config)
       THEN FailStart("constructor")
       ELSE GoOn("open") /\ UNCHANGED deferred
    /\ Untouched /\ UNCHANGED open

Durable == config["DATABASE_URL"] # ""

\* configureStores: the memory stores, or a pool, which connects only later.
OpenStores ==
    /\ stage = "open"
    /\ IF ~Durable THEN GoOn("otlp") /\ UNCHANGED <<open, deferred>>
       ELSE IF config["DATABASE_URL"] = "malformed" THEN FailStart("database") /\ UNCHANGED open
       ELSE GoOn("ping") /\ open' = open \cup {"pool"} /\ UNCHANGED deferred
    /\ Untouched

\* The calls that wait for somebody else have a deadline and see the signal.
\* Mutant: the persisted snapshot is read without a deadline.
BoundedUpToStores == {"ping", "migrate", "refresh"}

Bounded == {"ping", "migrate", "current", "refresh"}

\* Mutant: only a failed ping closes the pool.
PoolKeptByMigrate == IF stage = "ping" THEN open \ {"pool"} ELSE open

ClosePool == open \ {"pool"}

\* Ping and Migrate; then NewTopologyStore and NewObservationStore, and the
\* caller of configureStores defers the close.
DatabaseAnswers ==
    /\ stage \in {"ping", "migrate"} /\ ~signalled
    /\ IF stage = "ping" THEN GoOn("migrate") /\ UNCHANGED deferred
       ELSE GoOn("otlp") /\ deferred' = Append(deferred, "pool")
    /\ Untouched /\ UNCHANGED open

DatabaseFails ==
    /\ stage \in {"ping", "migrate"}
    /\ FailStart("database") /\ open' = ClosePool
    /\ Untouched

Receives == config["OTLP_HTTP_ADDRESS"] # ""

\* configureOTLPServer: the constructors of the normalizer and of the receiver.
ConfigureOTLPServer ==
    /\ stage = "otlp"
    /\ IF Receives /\ ~(NormalizerAccepts(config) /\ ReceiverAccepts(config))
       THEN FailStart("constructor")
       ELSE GoOn("connect") /\ UNCHANGED deferred
    /\ Untouched /\ UNCHANGED open

\* Connect does not fail because the broker cannot be reached: it goes on trying
\* in the background.
Connect ==
    /\ stage = "connect"
    /\ IF config["NATS_URL"] = "malformed" THEN FailStart("broker") /\ UNCHANGED open
       ELSE /\ GoOn("construct")
            /\ open' = open \cup {"connection"}
            /\ deferred' = Append(deferred, "connection")
    /\ Untouched

\* The provider, the services and the projector.
Construct ==
    /\ stage = "construct"
    /\ IF ~(ProviderAccepts(config) /\ ProjectorAccepts(config))
       THEN FailStart("constructor")
       ELSE GoOn("current") /\ UNCHANGED deferred
    /\ Untouched /\ UNCHANGED open

\* loadInitialTopology reads what is persisted; that there is nothing is no error.
ReadPersisted ==
    /\ stage = "current" /\ ~signalled
    /\ persisted' = (Durable /\ stored)
    /\ stage' = "refresh"
    /\ Untouched /\ UNCHANGED <<config, open, deferred, serves, failure>>

ReadFails ==
    /\ stage = "current" /\ (Durable \/ signalled)
    /\ FailStart("database")
    /\ Untouched /\ UNCHANGED open

Loaded(snapshot) ==
    /\ stage' = "refresher" /\ serves' = snapshot
    /\ UNCHANGED <<config, deferred, persisted, failure>>

\* The first refresh, which needs some time; or the persisted snapshot instead.
FirstRefresh ==
    /\ stage = "refresh" /\ ~signalled /\ config["DISCOVERY_TIMEOUT"] > 0
    /\ Loaded("discovered")
    /\ Untouched /\ UNCHANGED open

FirstRefreshFails ==
    /\ stage = "refresh"
    /\ IF persisted THEN Loaded("persisted") ELSE FailStart("discovery")
    /\ Untouched /\ UNCHANGED open

\* NewPeriodicRefresher and NewHandler; then the refresher and the servers run.
StartServing ==
    /\ stage = "refresher"
    /\ IF ~RefresherAccepts(config)
       THEN FailStart("constructor")
       ELSE GoOn("serving") /\ UNCHANGED deferred
    /\ Untouched /\ UNCHANGED open

\* runHTTPServers and the refresher have returned (HttpRuntime).
StopServing ==
    /\ stage = "serving"
    /\ stage' = "returning"
    /\ Untouched /\ UNCHANGED <<config, open, deferred, persisted, serves, failure>>

\* The deferred calls, the last one first.
RunDeferred ==
    /\ stage = "returning"
    /\ IF deferred = << >> THEN stage' = "ended" /\ UNCHANGED <<open, deferred>>
       ELSE /\ open' = open \ {Last(deferred)}
            /\ deferred' = Front(deferred)
            /\ UNCHANGED stage
    /\ Untouched /\ UNCHANGED <<config, persisted, serves, failure>>

SignalArrives ==
    /\ stage # "load" /\ ~signalled
    /\ signalled' = TRUE
    /\ UNCHANGED <<env, stored, stage, config, open, deferred, persisted, serves, failure>>

\* What run() does without waiting for anybody.
Own ==
    \/ Load \/ Identify \/ OpenStores \/ ConfigureOTLPServer \/ Connect
    \/ Construct \/ StartServing \/ RunDeferred

CallAnswers == DatabaseAnswers \/ ReadPersisted \/ FirstRefresh \/ StopServing

\* An error, or the end of the context of the call.
CallFails == DatabaseFails \/ ReadFails \/ FirstRefreshFails

StartNext == Own \/ CallAnswers \/ CallFails \/ SignalArrives

StartSpec == StartInit /\ [][StartNext]_startVars

\* A deadline passes although the database or the broker never answers.  The
\* memory store answers at once, or its context has ended.
Deadline == stage \in Bounded /\ CallFails

FairStartSpec ==
    /\ StartSpec
    /\ WF_startVars(Own) /\ WF_startVars(Deadline)
    /\ WF_startVars(ReadPersisted /\ ~Durable)

-----------------------------------------------------------------------------

\* Whatever is in the environment, a configuration that loadConfig accepts is
\* accepted by every constructor that is given a part of it (main.go:38-117): a
\* start fails because of a variable it names, of the database or of the broker.
AcceptedIsUsable == failure # "constructor"

\* Wherever a start ends, nothing stays open (stores.go:31-51, main.go:50, 75), and
\* the connection is closed before the stores that its users write to.
NothingLeaks ==
    /\ stage = "ended" => open = {}
    /\ stage = "returning" /\ "connection" \in open /\ env["DATABASE_URL"] = "usable"
          => "pool" \in open

\* However the database and the broker behave, a start ends in service or fails:
\* each call that waits for them has a deadline (stores.go:25, main.go:165, 175).
EveryStartDecides == <>(stage \in {"serving", "ended"})

=============================================================================
