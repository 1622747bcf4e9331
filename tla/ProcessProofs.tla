--------------------------- MODULE ProcessProofs ----------------------------
(***************************************************************************)
(* Proofs about one process from its start to its end: Startup,            *)
(* Migrations, which the start runs against those of other processes, and  *)
(* HttpRuntime, which takes over when the start is done.                   *)
(***************************************************************************)
EXTENDS Startup, Migrations, HttpRuntime,
        FiniteSetTheorems, FunctionTheorems, SequenceTheorems, TLAPS

-----------------------------------------------------------------------------
(***************************************************************************)
(* Proofs about Startup, for every set of environments: once loadConfig    *)
(* has accepted the environment every constructor is satisfied, and what   *)
(* is deferred is at every stage what is open.                             *)
(***************************************************************************)

Stages == {"load", "identify", "open", "ping", "migrate", "otlp", "connect", "construct",
           "current", "refresh", "refresher", "serving", "returning", "ended"}

\* What is not read from the environment any more has been accepted.
ConfigInv ==
    /\ env \in [Names -> Texts]
    /\ stage \in Stages
    /\ stage \notin {"load", "returning", "ended"} =>
          config = ConfigOf(env) /\ \A n \in Numbers : ~Refused(env[n])
    /\ failure # "constructor"

IsOpen(resources, calls) == open = resources /\ deferred = calls

\* Which deferred call closes which resource.
ResourceInv ==
    /\ stage \in {"load", "identify", "open", "ended"} => IsOpen({}, << >>)
    /\ stage \in {"ping", "migrate"} => IsOpen({"pool"}, << >>)
    /\ stage \in {"otlp", "connect"} =>
          \/ IsOpen({"pool"}, <<"pool">>)
          \/ IsOpen({}, << >>) /\ env["DATABASE_URL"] # "usable"
    /\ stage \in {"construct", "current", "refresh", "refresher", "serving"} =>
          \/ IsOpen({"pool", "connection"}, <<"pool", "connection">>)
          \/ IsOpen({"connection"}, <<"connection">>) /\ env["DATABASE_URL"] # "usable"
    /\ stage = "returning" =>
          \/ IsOpen({}, << >>)
          \/ IsOpen({"pool"}, <<"pool">>)
          \/ IsOpen({"pool", "connection"}, <<"pool", "connection">>)
          \/ IsOpen({"connection"}, <<"connection">>) /\ env["DATABASE_URL"] # "usable"

StartIInv == ConfigInv /\ ResourceInv

\* What ConfigOf makes of a variable.
LEMMA ConfigOfAccepted ==
    ASSUME NEW e \in [Names -> Texts], \A n \in Numbers : ~Refused(e[n])
    PROVE  /\ \A n \in Numbers : ConfigOf(e)[n] > 0
           /\ \A n \in Strings : ConfigOf(e)[n] # ""
           /\ e["DATABASE_URL"] = "usable" => ConfigOf(e)["DATABASE_URL"] # ""
<1>1. Numbers = {"OTLP_MAX_REQUEST_BYTES", "OTLP_MAX_FUTURE_SKEW", "OBSERVATION_RETENTION",
                 "DISCOVERY_TIMEOUT", "DATABASE_TIMEOUT", "REFRESH_INTERVAL",
                 "SHUTDOWN_TIMEOUT"}
  BY DEF Numbers, NumberNames, ToSet
<1>2. /\ Numbers \subseteq Names /\ Strings \subseteq Names /\ "DATABASE_URL" \in Names
      /\ \A n \in Strings : n \notin Numbers
      /\ "DATABASE_URL" \notin Numbers \cup Strings
  BY <1>1 DEF Names, Strings, Optionals
<1>3. \A n \in Numbers : Parsed(e[n]) \in Int /\ Parsed(e[n]) > 0
  BY DEF Refused, Parsed
<1>4. \A n \in Strings : StringFromEnv(e[n]) # ""
  BY DEF StringFromEnv, Trimmed
<1>5. Trimmed("usable") # ""
  BY DEF Trimmed
<1> QED
  BY <1>2, <1>3, <1>4, <1>5 DEF ConfigOf

\* Every constructor accepts what loadConfig has accepted.
LEMMA ConstructorsAccept ==
    ASSUME NEW e \in [Names -> Texts], \A n \in Numbers : ~Refused(e[n])
    PROVE  /\ Identifies(ConfigOf(e)) /\ NormalizerAccepts(ConfigOf(e))
           /\ ReceiverAccepts(ConfigOf(e)) /\ ProviderAccepts(ConfigOf(e))
           /\ ProjectorAccepts(ConfigOf(e)) /\ RefresherAccepts(ConfigOf(e))
<1>1. /\ {"OTLP_MAX_REQUEST_BYTES", "OTLP_MAX_FUTURE_SKEW", "OBSERVATION_RETENTION",
          "DISCOVERY_TIMEOUT", "REFRESH_INTERVAL"} \subseteq Numbers
      /\ {"NATS_SOURCE_ID", "NATS_BROKER_NAME", "NATS_DISCOVERY_SCOPE", "ENVIRONMENT",
          "OTLP_SOURCE_ID"} \subseteq Strings
  BY DEF Numbers, NumberNames, ToSet, Strings
<1>2. ConfigOf(e)["OTLP_MAX_FUTURE_SKEW"] >= 0
  <2>1. \A t : Parsed(t) \in Int
    BY DEF Parsed
  <2>2. ConfigOf(e)["OTLP_MAX_FUTURE_SKEW"] = Parsed(e["OTLP_MAX_FUTURE_SKEW"])
    BY <1>1 DEF ConfigOf, Names
  <2>3. ConfigOf(e)["OTLP_MAX_FUTURE_SKEW"] > 0
    BY <1>1, ConfigOfAccepted
  <2>4. \A i \in Int : i > 0 => i >= 0
    OBVIOUS
  <2> QED
    BY <2>1, <2>2, <2>3, <2>4
<1> QED
  BY <1>1, <1>2, ConfigOfAccepted DEF Identifies, NormalizerAccepts, ReceiverAccepts,
     ProviderAccepts, ProjectorAccepts, RefresherAccepts

\* The two deferred calls, one after the other.
LEMMA BothDeferred ==
    /\ Append(<<"pool">>, "connection") = <<"pool", "connection">>
    /\ Last(<<"pool", "connection">>) = "connection"
    /\ Front(<<"pool", "connection">>) = <<"pool">>
<1> DEFINE S == {"pool", "connection"}
           one == <<"pool">>
           two == <<"pool", "connection">>
<1>1. /\ one \in Seq(S) /\ Len(one) = 1 /\ one[1] = "pool"
      /\ two \in Seq(S) /\ Len(two) = 2 /\ two[1] = "pool" /\ two[2] = "connection"
  <2>1. one \in Seq(S)
    OBVIOUS
  <2>2. two \in Seq(S)
    OBVIOUS
  <2>3. Len(one) = 1 /\ one[1] = "pool"
    OBVIOUS
  <2>4. Len(two) = 2 /\ two[1] = "pool" /\ two[2] = "connection"
    OBVIOUS
  <2> QED
    BY <2>1, <2>2, <2>3, <2>4
<1> HIDE DEF one, two
<1>2. Append(one, "connection") = two
  <2>1. /\ Append(one, "connection") \in Seq(S) /\ Len(Append(one, "connection")) = 2
        /\ Append(one, "connection")[1] = "pool" /\ Append(one, "connection")[2] = "connection"
    <3>1. "connection" \in S
      OBVIOUS
    <3> HIDE DEF S
    <3>2. /\ Append(one, "connection") \in Seq(S)
          /\ Len(Append(one, "connection")) = Len(one) + 1
          /\ \A i \in 1..Len(one) : Append(one, "connection")[i] = one[i]
          /\ Append(one, "connection")[Len(one) + 1] = "connection"
      BY <1>1, <3>1, AppendProperties
    <3>3. 1 \in 1..1 /\ 1 + 1 = 2
      OBVIOUS
    <3> QED
      BY <1>1, <3>2, <3>3
  <2>2. \A i \in 1..2 : i = 1 \/ i = 2
    OBVIOUS
  <2> HIDE DEF S
  <2> QED
    BY <1>1, <2>1, <2>2, SeqEqual
<1>3. Last(two) = "connection"
  BY <1>1 DEF Last
<1>4. Front(two) = one
  <2>1. Front(two) = SubSeq(two, 1, 1)
    BY <1>1 DEF Front
  <2>2. \A i \in 1..1 : i = 1 /\ two[i] \in S
    BY <1>1
  <2>3. /\ SubSeq(two, 1, 1) \in Seq(S) /\ Len(SubSeq(two, 1, 1)) = 1
        /\ SubSeq(two, 1, 1)[1] = two[1]
    BY <2>2, SubSeqProperties
  <2> QED
    BY <1>1, <2>1, <2>2, <2>3, SeqEqual
<1> QED
  BY <1>2, <1>3, <1>4 DEF one, two

\* Initially.
LEMMA StartInitIInv == StartInit => StartIInv
  BY EnvironmentAssumption DEF StartInit, StartIInv, ConfigInv, ResourceInv, Stages, IsOpen

\* Every step keeps what is known of the configuration.
LEMMA ConfigKept == ConfigInv /\ [StartNext]_startVars => ConfigInv'
<1> SUFFICES ASSUME ConfigInv, [StartNext]_startVars PROVE ConfigInv'
  OBVIOUS
<1> USE DEF ConfigInv, Stages, FailStart, GoOn, Untouched
<1>1. CASE UNCHANGED startVars \/ SignalArrives
  BY <1>1 DEF startVars, SignalArrives
<1>2. CASE Load
  <2>1. \A i \in DOMAIN NumberNames : NumberNames[i] # "constructor"
    BY DEF NumberNames
  <2> QED
    BY <1>2, <2>1 DEF Load
<1>3. CASE Identify
  BY <1>3, ConstructorsAccept DEF Identify
<1>4. CASE OpenStores
  BY <1>4 DEF OpenStores
<1>5. CASE DatabaseAnswers \/ DatabaseFails
  BY <1>5 DEF DatabaseAnswers, DatabaseFails
<1>6. CASE ConfigureOTLPServer
  BY <1>6, ConstructorsAccept DEF ConfigureOTLPServer
<1>7. CASE Connect
  BY <1>7 DEF Connect
<1>8. CASE Construct
  BY <1>8, ConstructorsAccept DEF Construct
<1>9. CASE ReadPersisted \/ ReadFails
  BY <1>9 DEF ReadPersisted, ReadFails
<1>10. CASE FirstRefresh \/ FirstRefreshFails
  BY <1>10 DEF FirstRefresh, FirstRefreshFails, Loaded
<1>11. CASE StartServing
  BY <1>11, ConstructorsAccept DEF StartServing
<1>12. CASE StopServing \/ RunDeferred
  BY <1>12 DEF StopServing, RunDeferred
<1> QED
  BY <1>1, <1>2, <1>3, <1>4, <1>5, <1>6, <1>7, <1>8, <1>9, <1>10, <1>11, <1>12
     DEF StartNext, Own, CallAnswers, CallFails

\* Every step defers what it opens, or closes it.
LEMMA ResourcesKept == StartIInv /\ [StartNext]_startVars => ResourceInv'
<1> SUFFICES ASSUME StartIInv, [StartNext]_startVars PROVE ResourceInv'
  OBVIOUS
<1> USE DEF StartIInv, ResourceInv, IsOpen, FailStart, GoOn, Untouched
<1>1. CASE UNCHANGED startVars \/ SignalArrives
  BY <1>1 DEF startVars, SignalArrives
<1>2. CASE Load \/ Identify
  BY <1>2 DEF Load, Identify
<1>3. CASE OpenStores
  <2>1. config = ConfigOf(env) /\ ~Durable => env["DATABASE_URL"] # "usable"
    BY <1>3, ConfigOfAccepted DEF OpenStores, ConfigInv, Durable
  <2> QED
    BY <1>3, <2>1 DEF OpenStores, ConfigInv
<1>4. CASE DatabaseAnswers \/ DatabaseFails
  <2>1. Append(<< >>, "pool") = <<"pool">> /\ {"pool"} \ {"pool"} = {}
    OBVIOUS
  <2> QED
    BY <1>4, <2>1 DEF DatabaseAnswers, DatabaseFails, ClosePool
<1>5. CASE ConfigureOTLPServer
  BY <1>5 DEF ConfigureOTLPServer
<1>6. CASE Connect
  <2>1. Append(<< >>, "connection") = <<"connection">>
    OBVIOUS
  <2> QED
    BY <1>6, <2>1, BothDeferred DEF Connect
<1>7. CASE Construct
  BY <1>7 DEF Construct
<1>8. CASE ReadPersisted \/ ReadFails
  BY <1>8 DEF ReadPersisted, ReadFails
<1>9. CASE FirstRefresh \/ FirstRefreshFails
  BY <1>9 DEF FirstRefresh, FirstRefreshFails, Loaded
<1>10. CASE StartServing
  BY <1>10 DEF StartServing
<1>11. CASE StopServing
  BY <1>11 DEF StopServing
<1>12. CASE RunDeferred
  <2>1. /\ Last(<<"pool">>) = "pool" /\ Front(<<"pool">>) = << >>
        /\ Last(<<"connection">>) = "connection" /\ Front(<<"connection">>) = << >>
    BY SubSeqEmpty DEF Last, Front
  <2>2. {"pool", "connection"} \ {"connection"} = {"pool"}
    OBVIOUS
  <2> QED
    BY <1>12, <2>1, <2>2, BothDeferred DEF RunDeferred
<1> QED
  BY <1>1, <1>2, <1>3, <1>4, <1>5, <1>6, <1>7, <1>8, <1>9, <1>10, <1>11, <1>12
     DEF StartNext, Own, CallAnswers, CallFails

\* The inductive invariant.
LEMMA StartIInvAlways == StartSpec => []StartIInv
<1>1. StartIInv /\ [StartNext]_startVars => StartIInv'
  BY ConfigKept, ResourcesKept DEF StartIInv
<1> QED
  BY <1>1, StartInitIInv, PTL DEF StartSpec

-----------------------------------------------------------------------------

\* No environment that loadConfig accepts makes a constructor fail.
THEOREM ConfigIsUsable == StartSpec => []AcceptedIsUsable
<1>1. StartIInv => AcceptedIsUsable
  BY DEF StartIInv, ConfigInv, AcceptedIsUsable
<1> QED
  BY <1>1, StartIInvAlways, PTL

\* Whatever a start opened is closed when run returns, the connection first.
THEOREM EverythingIsClosed == StartSpec => []NothingLeaks
<1>1. StartIInv => NothingLeaks
  BY DEF StartIInv, ResourceInv, IsOpen, NothingLeaks
<1> QED
  BY <1>1, StartIInvAlways, PTL

-----------------------------------------------------------------------------
(***************************************************************************)
(* Proofs about Migrations, for any number of processes, releases and      *)
(* faults.  The inductive invariant says what each transaction owes to the *)
(* advisory lock: only its holder is past the first statement, so what it  *)
(* found missing stays missing until it commits.                           *)
(***************************************************************************)

Elements(s) == {s[i] : i \in DOMAIN s}

Tx == [at : {"none", "lock"} \cup Locked, next : Nat \ {0}, created : BOOLEAN,
       ran : Seq(Version), recorded : SUBSET Version]

Typed ==
    /\ schema \in Seq(Version) /\ IsInjective(schema)
    /\ registry \in SUBSET Version /\ created \in BOOLEAN
    /\ lock \in Process \cup {NoProcess}
    /\ tx \in [Process -> Tx]
    /\ call \in [Process -> {"idle", "called", "committed", "ready", "failed"}]
    /\ faults \in 0..MaxFaults

\* Only the holder of the lock is past its first statement.
Exclusion == \A p \in Process : tx[p].at \in Locked <=> lock = p

\* What the transaction of p, embedding the files f, has written and found so far.
Progress(p, t, f) ==
    /\ t.next <= Len(f) + 1
    /\ t.at \in {"none", "lock"} => t.ran = <<>> /\ t.recorded = {}
    /\ t.at \in {"run", "record"} => t.next <= Len(f)
    /\ t.at = "run" => f[t.next] \notin registry \cup t.recorded
    /\ Elements(t.ran) = IF t.at = "record" THEN t.recorded \cup {f[t.next]}
                                            ELSE t.recorded
    /\ IsInjective(schema \o t.ran)

MigrateIInv ==
    /\ Typed
    /\ Exclusion
    /\ SchemaIsRegistered
    /\ \A p \in Process : Progress(p, tx[p], Files[p])

-----------------------------------------------------------------------------
(* Sequences of migrations.                                                *)

\* Concatenation runs the one migrations and then the others.
LEMMA ElementsConcat ==
    ASSUME NEW s \in Seq(Version), NEW t \in Seq(Version)
    PROVE  /\ s \o t \in Seq(Version)
           /\ Elements(s \o t) = Elements(s) \cup Elements(t)
<1>1. s \o t \in Seq(Version) /\ Len(s \o t) = Len(s) + Len(t)
  OBVIOUS
<1>2. \A i \in 1..Len(s) : (s \o t)[i] = s[i]
  OBVIOUS
<1>3. \A i \in 1..Len(t) : (s \o t)[Len(s) + i] = t[i]
  OBVIOUS
<1>4. Elements(s) \cup Elements(t) \subseteq Elements(s \o t)
  <2>1. ASSUME NEW i \in DOMAIN s PROVE s[i] \in Elements(s \o t)
    BY <1>1, <1>2 DEF Elements
  <2>2. ASSUME NEW i \in DOMAIN t PROVE t[i] \in Elements(s \o t)
    <3>1. Len(s) + i \in DOMAIN (s \o t)
      BY <1>1
    <3> QED BY <3>1, <1>3 DEF Elements
  <2> QED BY <2>1, <2>2 DEF Elements
<1>5. Elements(s \o t) \subseteq Elements(s) \cup Elements(t)
  <2> SUFFICES ASSUME NEW j \in 1..Len(s) + Len(t)
               PROVE  (s \o t)[j] \in Elements(s) \cup Elements(t)
    BY <1>1 DEF Elements
  <2>1. CASE j <= Len(s)
    BY <2>1, <1>2 DEF Elements
  <2>2. CASE j > Len(s)
    <3>1. j - Len(s) \in 1..Len(t) /\ j = Len(s) + (j - Len(s))
      BY <2>2
    <3>2. (s \o t)[j] = t[j - Len(s)]
      BY <3>1, <1>3
    <3> QED BY <3>1, <3>2 DEF Elements
  <2> QED BY <2>1, <2>2
<1> QED BY <1>1, <1>4, <1>5

\* Appending one more.
LEMMA ElementsAppend ==
    ASSUME NEW s \in Seq(Version), NEW v \in Version
    PROVE  Elements(Append(s, v)) = Elements(s) \cup {v}
<1>1. /\ Len(Append(s, v)) = Len(s) + 1
      /\ \A i \in 1..Len(s) : Append(s, v)[i] = s[i]
      /\ Append(s, v)[Len(s) + 1] = v
  OBVIOUS
<1> QED BY <1>1 DEF Elements

\* A migration that neither the schema nor the transaction has run is run once.
LEMMA RunInjective ==
    ASSUME NEW s \in Seq(Version), NEW t \in Seq(Version), NEW v \in Version,
           IsInjective(s \o t), v \notin Elements(s) \cup Elements(t)
    PROVE  IsInjective(s \o Append(t, v))
<1> DEFINE u == s \o t
<1>1. u \in Seq(Version) /\ v \notin Elements(u)
  BY ElementsConcat
<1>2. s \o Append(t, v) = Append(u, v)
  OBVIOUS
<1>3. /\ DOMAIN Append(u, v) = 1..Len(u) + 1
      /\ \A i \in 1..Len(u) : Append(u, v)[i] = u[i]
      /\ Append(u, v)[Len(u) + 1] = v
  BY <1>1
<1>4. \A i \in 1..Len(u) : u[i] # v
  BY <1>1 DEF Elements
<1>5. \A i, j \in 1..Len(u) : u[i] = u[j] => i = j
  BY <1>1 DEF IsInjective
<1>6. \A i, j \in 1..Len(u) + 1 : Append(u, v)[i] = Append(u, v)[j] => i = j
  <2> SUFFICES ASSUME NEW i \in 1..Len(u) + 1, NEW j \in 1..Len(u) + 1,
                      Append(u, v)[i] = Append(u, v)[j]
               PROVE  i = j
    OBVIOUS
  <2>1. CASE i \in 1..Len(u) /\ j \in 1..Len(u)
    BY <2>1, <1>3, <1>5
  <2>2. CASE i \notin 1..Len(u) \/ j \notin 1..Len(u)
    <3>1. Len(u) \in Nat
      BY <1>1
    <3>2. i \notin 1..Len(u) => i = Len(u) + 1 /\ Append(u, v)[i] = v
      BY <3>1, <1>3
    <3>3. j \notin 1..Len(u) => j = Len(u) + 1 /\ Append(u, v)[j] = v
      BY <3>1, <1>3
    <3>4. i \in 1..Len(u) => Append(u, v)[i] # v
      BY <1>3, <1>4
    <3>5. j \in 1..Len(u) => Append(u, v)[j] # v
      BY <1>3, <1>4
    <3> QED BY <2>2, <3>2, <3>3, <3>4, <3>5
  <2> QED BY <2>1, <2>2
<1>7. IsInjective(Append(u, v))
  <2> HIDE DEF u
  <2> QED BY <1>3, <1>6 DEF IsInjective
<1> QED BY <1>2, <1>7

\* Without the lock a transaction has written nothing.
LEMMA EmptyTransaction ==
    ASSUME NEW s \in Seq(Version)
    PROVE  s \o <<>> = s /\ Elements(<<>>) = {}
<1>1. Elements(<<>>) = {}
  BY DEF Elements
<1> QED BY <1>1

-----------------------------------------------------------------------------
(* The invariant.                                                          *)

\* Initially nothing is open and nothing has been run.
LEMMA MigrateInitIInv == MigrateInit => MigrateIInv
<1> SUFFICES ASSUME MigrateInit PROVE MigrateIInv
  OBVIOUS
<1>1. NoTx \in Tx
  BY DEF NoTx, Tx
<1>2. Typed
  <2>1. schema \in Seq(Version) /\ IsInjective(schema) /\ 0 \in 0..MaxFaults
    BY MigrationsAssumption DEF MigrateInit, IsInjective
  <2> QED BY <1>1, <2>1 DEF MigrateInit, Typed
<1>3. Exclusion
  BY MigrationsAssumption DEF MigrateInit, Exclusion, NoTx, Locked
<1>4. SchemaIsRegistered
  BY DEF MigrateInit, SchemaIsRegistered
<1>5. ASSUME NEW p \in Process PROVE Progress(p, tx[p], Files[p])
  <2>1. Files[p] \in Seq(Version) /\ Len(Files[p]) \in Nat
    BY MigrationsAssumption
  <2>2. IsInjective(<<>> \o <<>>)
    BY DEF IsInjective
  <2>3. tx[p] = NoTx /\ schema = <<>> /\ registry = {}
    BY DEF MigrateInit
  <2> QED BY <2>1, <2>2, <2>3, EmptyTransaction DEF Progress, NoTx
<1> QED BY <1>2, <1>3, <1>4, <1>5 DEF MigrateIInv

\* A step of the client of p that is no commit disturbs no other transaction.
LEMMA RunsIInv ==
    ASSUME MigrateIInv, NEW p \in Process, NEW at, NEW result \in Tx, Runs(p, at, result),
           lock' \in Process \cup {NoProcess},
           \A q \in Process : tx'[q].at \in Locked <=> lock' = q,
           Progress(p, result, Files[p])
    PROVE  MigrateIInv'
<1>1. /\ UNCHANGED <<schema, registry, created, call, faults>>
      /\ tx' = [tx EXCEPT ![p] = result]
  BY DEF Runs, database
<1>2. /\ tx' \in [Process -> Tx] /\ tx'[p] = result
      /\ \A q \in Process \ {p} : tx'[q] = tx[q]
  BY <1>1 DEF MigrateIInv, Typed
<1>3. Typed'
  BY <1>1, <1>2 DEF MigrateIInv, Typed
<1>4. Exclusion'
  BY DEF Exclusion
<1>5. SchemaIsRegistered'
  BY <1>1 DEF MigrateIInv, SchemaIsRegistered
<1>6. ASSUME NEW q \in Process PROVE Progress(q, tx[q], Files[q])'
  <2>1. Progress(q, tx'[q], Files[q])
    BY <1>2 DEF MigrateIInv
  <2> QED BY <2>1, <1>1 DEF Progress
<1> QED BY <1>3, <1>4, <1>5, <1>6 DEF MigrateIInv

\* The end of a transaction that has written nothing to the schema.
LEMMA EndsIInv ==
    ASSUME MigrateIInv, NEW p \in Process,
           UNCHANGED <<schema, registry, created, faults>>,
           tx' = [tx EXCEPT ![p] = NoTx],
           lock' = IF lock = p THEN NoProcess ELSE lock,
           call' \in [Process -> {"idle", "called", "committed", "ready", "failed"}]
    PROVE  MigrateIInv'
<1>1. NoTx \in Tx /\ NoTx.at = "none"
  BY DEF NoTx, Tx
<1>2. /\ tx' \in [Process -> Tx] /\ tx'[p] = NoTx
      /\ \A q \in Process \ {p} : tx'[q] = tx[q]
  BY <1>1 DEF MigrateIInv, Typed
<1>3. Typed'
  BY <1>2 DEF MigrateIInv, Typed
<1>4. Exclusion'
  BY <1>1, <1>2, MigrationsAssumption DEF MigrateIInv, Exclusion, Locked
<1>5. SchemaIsRegistered'
  BY DEF MigrateIInv, SchemaIsRegistered
<1>6. ASSUME NEW q \in Process PROVE Progress(q, tx[q], Files[q])'
  <2>1. CASE q # p
    <3>1. Progress(q, tx'[q], Files[q])
      BY <2>1, <1>2 DEF MigrateIInv
    <3> QED BY <3>1 DEF Progress
  <2>2. CASE q = p
    <3>1. schema \in Seq(Version) /\ Files[p] \in Seq(Version) /\ Len(Files[p]) \in Nat
      BY MigrationsAssumption DEF MigrateIInv, Typed
    <3>2. IsInjective(schema)
      BY DEF MigrateIInv, Typed
    <3>3. Progress(p, NoTx, Files[p])
      BY <3>1, <3>2, EmptyTransaction DEF Progress, NoTx
    <3> QED BY <3>3, <2>2, <1>2 DEF Progress
  <2> QED BY <2>1, <2>2
<1> QED BY <1>3, <1>4, <1>5, <1>6 DEF MigrateIInv

\* What is known of the transaction and of the files of one process.
LEMMA Facts ==
    ASSUME MigrateIInv, NEW p \in Process
    PROVE  /\ tx \in [Process -> Tx] /\ tx[p] \in Tx
           /\ Files[p] \in Seq(Version) /\ Len(Files[p]) \in Nat
           /\ tx[p].next \in Nat \ {0}
           /\ tx[p].next <= Len(Files[p]) => File(p) \in Version
           /\ tx[p].ran \in Seq(Version) /\ tx[p].recorded \in SUBSET Version
           /\ Progress(p, tx[p], Files[p])
           /\ tx[p].at \in Locked <=> lock = p
<1>1. tx \in [Process -> Tx] /\ tx[p] \in Tx
  BY DEF MigrateIInv, Typed
<1>2. Files[p] \in Seq(Version) /\ Len(Files[p]) \in Nat
  BY MigrationsAssumption
<1>3. tx[p].next \in Nat \ {0} /\ tx[p].ran \in Seq(Version) /\ tx[p].recorded \in SUBSET Version
  BY <1>1 DEF Tx
<1>4. tx[p].next <= Len(Files[p]) => File(p) \in Version
  BY <1>2, <1>3 DEF File
<1> QED BY <1>1, <1>2, <1>3, <1>4 DEF MigrateIInv, Exclusion

\* The process takes the lock when nobody is past the first statement.
LEMMA LockIInv == ASSUME MigrateIInv, NEW p \in Process, Lock(p) PROVE MigrateIInv'
<1> DEFINE result == [tx[p] EXCEPT !.at = "create"]
<1>1. lock = NoProcess /\ lock' = p /\ Runs(p, "lock", result) /\ tx[p].at = "lock"
  BY DEF Lock, Runs
<1>2. result \in Tx /\ result.at = "create"
  BY Facts DEF Tx, Locked
<1>3. Progress(p, result, Files[p])
  BY <1>1, Facts DEF Progress, Tx
<1>4. \A q \in Process : tx'[q].at \in Locked <=> lock' = q
  <2>1. tx' = [tx EXCEPT ![p] = result]
    BY <1>1 DEF Runs
  <2>2. \A q \in Process : tx[q].at \notin Locked
    BY <1>1, MigrationsAssumption DEF MigrateIInv, Exclusion
  <2> QED BY <2>1, <2>2, <1>1, <1>2, Facts DEF Locked
<1>5. lock' \in Process \cup {NoProcess}
  BY <1>1
<1> HIDE DEF result
<1> QED BY <1>1, <1>2, <1>3, <1>4, <1>5, RunsIInv

\* A step of the holder of the lock, which it keeps.
LEMMA HolderIInv ==
    ASSUME MigrateIInv, NEW p \in Process, NEW at \in Locked, NEW result \in Tx,
           Runs(p, at, result), result.at \in Locked, UNCHANGED lock,
           Progress(p, result, Files[p])
    PROVE  MigrateIInv'
<1>1. tx' = [tx EXCEPT ![p] = result] /\ tx[p].at \in Locked
  BY DEF Runs
<1>2. lock' \in Process \cup {NoProcess}
  BY DEF MigrateIInv, Typed
<1>3. \A q \in Process : tx'[q].at \in Locked <=> lock' = q
  BY <1>1, Facts DEF MigrateIInv, Exclusion
<1> QED BY <1>2, <1>3, RunsIInv

\* The table of the registry is made, nothing is found or run.
LEMMA CreateRegistryIInv == ASSUME MigrateIInv, NEW p \in Process, CreateRegistry(p) PROVE MigrateIInv'
<1> DEFINE result == [tx[p] EXCEPT !.at = "check", !.created = ~created]
<1>1. Runs(p, "create", result) /\ tx[p].at = "create" /\ UNCHANGED lock
  BY DEF CreateRegistry, Runs
<1>2. result \in Tx /\ result.at \in Locked
  BY Facts DEF Tx, Locked, MigrateIInv, Typed
<1>3. Progress(p, result, Files[p])
  BY <1>1, Facts DEF Progress, Tx
<1>4. "create" \in Locked
  BY DEF Locked
<1> HIDE DEF result
<1> QED BY <1>1, <1>2, <1>3, <1>4, HolderIInv

\* What is about to run has been found missing.
LEMMA CheckIInv == ASSUME MigrateIInv, NEW p \in Process, Check(p) PROVE MigrateIInv'
<1>1. "check" \in Locked /\ UNCHANGED lock /\ tx[p].next <= Len(Files[p]) /\ tx[p].at = "check"
  BY DEF Check, Locked, Runs
<1>2. CASE Applied(p) /\ Runs(p, "check", [tx[p] EXCEPT !.next = @ + 1])
  <2> DEFINE result == [tx[p] EXCEPT !.next = @ + 1]
  <2>1. result \in Tx /\ result.at \in Locked
    BY <1>1, Facts DEF Tx, Locked
  <2>2. Progress(p, result, Files[p])
    <3>1. /\ result.at = "check" /\ result.next = tx[p].next + 1
          /\ result.ran = tx[p].ran /\ result.recorded = tx[p].recorded
      BY <1>1, Facts DEF Tx
    <3>2. result.next <= Len(Files[p]) + 1
      BY <3>1, <1>1, Facts
    <3> HIDE DEF result
    <3> QED BY <3>1, <3>2, <1>1, Facts DEF Progress
  <2>3. Runs(p, "check", result)
    BY <1>2
  <2> HIDE DEF result
  <2> QED BY <1>1, <2>1, <2>2, <2>3, HolderIInv
<1>3. CASE ~Applied(p) /\ Runs(p, "check", [tx[p] EXCEPT !.at = "run"])
  <2> DEFINE result == [tx[p] EXCEPT !.at = "run"]
  <2>1. result \in Tx /\ result.at \in Locked
    BY Facts DEF Tx, Locked
  <2>2. Progress(p, result, Files[p])
    BY <1>1, <1>3, Facts DEF Progress, Tx, Applied, File
  <2>3. Runs(p, "check", result)
    BY <1>3
  <2> HIDE DEF result
  <2> QED BY <1>1, <2>1, <2>2, <2>3, HolderIInv
<1> QED BY <1>2, <1>3 DEF Check

\* It runs once: neither the schema nor the transaction has it.
LEMMA RunMigrationIInv == ASSUME MigrateIInv, NEW p \in Process, RunMigration(p) PROVE MigrateIInv'
<1> DEFINE result == [tx[p] EXCEPT !.at = "record", !.ran = Append(@, File(p))]
<1>1. Runs(p, "run", result) /\ tx[p].at = "run" /\ UNCHANGED lock
  BY DEF RunMigration, Runs
<1>2. tx[p].next <= Len(Files[p]) /\ File(p) \in Version
  BY <1>1, Facts DEF Progress
<1>3. result \in Tx /\ result.at \in Locked
  <2>1. Append(tx[p].ran, File(p)) \in Seq(Version)
    BY <1>2, Facts
  <2> QED BY <2>1, Facts DEF Tx, Locked
<1>4. Elements(result.ran) = tx[p].recorded \cup {File(p)}
  <2>1. result.ran = Append(tx[p].ran, File(p))
    BY Facts DEF Tx
  <2>2. Elements(tx[p].ran) = tx[p].recorded
    BY <1>1, Facts DEF Progress
  <2> QED BY <2>1, <2>2, <1>2, Facts, ElementsAppend
<1>5. IsInjective(schema \o result.ran)
  <2>1. schema \in Seq(Version) /\ Elements(schema) = registry
    BY DEF MigrateIInv, Typed, SchemaIsRegistered, Elements
  <2>2. File(p) \notin Elements(schema) \cup Elements(tx[p].ran)
    BY <2>1, <1>1, Facts DEF Progress, File
  <2>3. IsInjective(schema \o tx[p].ran)
    BY Facts DEF Progress
  <2>4. result.ran = Append(tx[p].ran, File(p))
    BY Facts DEF Tx
  <2> QED BY <2>1, <2>2, <2>3, <2>4, <1>2, Facts, RunInjective
<1>6. Progress(p, result, Files[p])
  <2>1. /\ result.at = "record" /\ result.next = tx[p].next
        /\ result.recorded = tx[p].recorded
    BY Facts DEF Tx
  <2> QED BY <2>1, <1>2, <1>4, <1>5, Facts DEF Progress, File
<1>7. "run" \in Locked
  BY DEF Locked
<1> HIDE DEF result
<1> QED BY <1>1, <1>3, <1>6, <1>7, HolderIInv

\* The holder registers what it has just run and goes to the next file.
LEMMA RecordIInv == ASSUME MigrateIInv, NEW p \in Process, Record(p) PROVE MigrateIInv'
<1> DEFINE result == [tx[p] EXCEPT !.at = "check", !.next = @ + 1,
                                   !.recorded = @ \cup {File(p)}]
<1>1. Runs(p, "record", result) /\ tx[p].at = "record" /\ UNCHANGED lock
  BY DEF Record, Runs
<1>2. tx[p].next <= Len(Files[p]) /\ File(p) \in Version
  BY <1>1, Facts DEF Progress
<1>3. result \in Tx /\ result.at \in Locked
  <2>1. tx[p].recorded \cup {File(p)} \in SUBSET Version /\ tx[p].next + 1 \in Nat \ {0}
    BY <1>2, Facts
  <2> QED BY <2>1, Facts DEF Tx, Locked
<1>4. Progress(p, result, Files[p])
  <2>1. /\ result.at = "check" /\ result.next = tx[p].next + 1
        /\ result.ran = tx[p].ran /\ result.recorded = tx[p].recorded \cup {File(p)}
    BY Facts DEF Tx
  <2>2. result.next <= Len(Files[p]) + 1
    BY <2>1, <1>2, Facts
  <2>3. Elements(result.ran) = result.recorded
    BY <2>1, <1>1, Facts DEF Progress, File
  <2> HIDE DEF result
  <2> QED BY <2>1, <2>2, <2>3, Facts DEF Progress
<1>5. "record" \in Locked
  BY DEF Locked
<1> HIDE DEF result
<1> QED BY <1>1, <1>3, <1>4, <1>5, HolderIInv

\* The holder has seen all its files; it still holds the lock.
LEMMA SendCommitIInv == ASSUME MigrateIInv, NEW p \in Process, SendCommit(p) PROVE MigrateIInv'
<1> DEFINE result == [tx[p] EXCEPT !.at = "commit"]
<1>1. Runs(p, "check", result) /\ tx[p].at = "check" /\ UNCHANGED lock
  BY DEF SendCommit, Runs
<1>2. result \in Tx /\ result.at \in Locked
  BY Facts DEF Tx, Locked
<1>3. Progress(p, result, Files[p])
  BY <1>1, Facts DEF Progress, Tx
<1>4. "check" \in Locked
  BY DEF Locked
<1> HIDE DEF result
<1> QED BY <1>1, <1>2, <1>3, <1>4, HolderIInv

\* All that was run is committed with its registration, and the others, who have
\* not got past the lock, have nothing that could be out of date.
LEMMA CommitIInv == ASSUME MigrateIInv, NEW p \in Process, Commit(p) PROVE MigrateIInv'
<1>1. /\ tx[p].at = "commit" /\ schema' = schema \o tx[p].ran
      /\ registry' = registry \cup tx[p].recorded /\ created' \in BOOLEAN
      /\ lock' = NoProcess /\ tx' = [tx EXCEPT ![p] = NoTx]
      /\ call' = [call EXCEPT ![p] = IF @ = "called" THEN "committed" ELSE @]
      /\ UNCHANGED faults
  BY DEF Commit, MigrateIInv, Typed
<1>2. lock = p /\ \A q \in Process \ {p} : tx[q].at \in {"none", "lock"}
  <2>1. lock = p
    BY <1>1, Facts DEF Locked
  <2>2. \A q \in Process \ {p} : tx[q].at \notin Locked /\ tx[q] \in Tx
    BY <2>1, Facts
  <2> QED BY <2>1, <2>2 DEF Tx
<1>3. NoTx \in Tx /\ NoTx.at = "none"
  BY DEF NoTx, Tx
<1>4. /\ tx' \in [Process -> Tx] /\ tx'[p] = NoTx
      /\ \A q \in Process \ {p} : tx'[q] = tx[q]
  BY <1>1, <1>3 DEF MigrateIInv, Typed
<1>5. schema \in Seq(Version) /\ Elements(schema) = registry /\ Elements(tx[p].ran) = tx[p].recorded
  BY <1>1, Facts DEF MigrateIInv, Typed, SchemaIsRegistered, Elements, Progress
<1>6. schema' \in Seq(Version) /\ Elements(schema') = registry'
  BY <1>1, <1>5, Facts, ElementsConcat
<1>7. Typed'
  <2>1. registry' \in SUBSET Version
    BY <1>1, Facts DEF MigrateIInv, Typed
  <2>2. call' \in [Process -> {"idle", "called", "committed", "ready", "failed"}]
    BY <1>1 DEF MigrateIInv, Typed
  <2>3. IsInjective(schema')
    BY <1>1, Facts DEF Progress
  <2> QED BY <1>1, <1>4, <1>6, <2>1, <2>2, <2>3 DEF MigrateIInv, Typed
<1>8. Exclusion'
  BY <1>1, <1>2, <1>3, <1>4, MigrationsAssumption DEF Exclusion, Locked
<1>9. SchemaIsRegistered'
  BY <1>6 DEF SchemaIsRegistered, Elements
<1>10. ASSUME NEW q \in Process PROVE Progress(q, tx[q], Files[q])'
  <2>1. CASE q = p
    <3>1. Len(Files[p]) \in Nat /\ tx'[q] = NoTx
      BY <2>1, <1>4, Facts
    <3>2. IsInjective(schema' \o <<>>)
      BY <1>7, EmptyTransaction DEF Typed
    <3>3. /\ NoTx.at = "none" /\ NoTx.ran = <<>> /\ NoTx.recorded = {}
          /\ NoTx.next <= Len(Files[q]) + 1
      BY <2>1, <3>1 DEF NoTx
    <3>4. Elements(<<>>) = {}
      BY DEF Elements
    <3> QED BY <3>1, <3>2, <3>3, <3>4 DEF Progress
  <2>2. CASE q # p
    <3>1. tx'[q] = tx[q] /\ tx[q].at \in {"none", "lock"} /\ Progress(q, tx[q], Files[q])
      BY <2>2, <1>2, <1>4 DEF MigrateIInv
    <3>2. tx[q].ran = <<>> /\ tx[q].recorded = {}
      BY <3>1 DEF Progress
    <3>3. IsInjective(schema' \o <<>>)
      BY <1>7, EmptyTransaction DEF Typed
    <3> QED BY <3>1, <3>2, <3>3, EmptyTransaction DEF Progress
  <2> QED BY <2>1, <2>2
<1> QED BY <1>7, <1>8, <1>9, <1>10 DEF MigrateIInv

\* The transaction ends and leaves nothing behind.
LEMMA RollbackIInv == ASSUME MigrateIInv, NEW p \in Process, Rollback(p) PROVE MigrateIInv'
<1>1. /\ UNCHANGED <<schema, registry, created, faults>>
      /\ tx' = [tx EXCEPT ![p] = NoTx]
      /\ lock' = IF lock = p THEN NoProcess ELSE lock
      /\ call' \in [Process -> {"idle", "called", "committed", "ready", "failed"}]
  BY DEF Rollback, database, MigrateIInv, Typed
<1> QED BY <1>1, EndsIInv

\* A process that starts waits for the lock.
LEMMA BeginIInv == ASSUME MigrateIInv, NEW p \in Process, Begin(p) PROVE MigrateIInv'
<1> DEFINE result == [tx[p] EXCEPT !.at = "lock"]
<1>1. /\ UNCHANGED <<schema, registry, created, lock, faults>>
      /\ tx' = [tx EXCEPT ![p].at = "lock"] /\ tx[p].at = "none"
      /\ call' = [call EXCEPT ![p] = "called"]
  BY DEF Begin, Open, database
<1>2. result \in Tx /\ result.at = "lock"
  BY Facts DEF Tx
<1>3. /\ tx' \in [Process -> Tx] /\ tx'[p] = result
      /\ \A q \in Process \ {p} : tx'[q] = tx[q]
  BY <1>1, <1>2, Facts
<1>4. Typed'
  BY <1>1, <1>3 DEF MigrateIInv, Typed
<1>5. Exclusion'
  <2>1. tx[p].at \notin Locked /\ result.at \notin Locked
    BY <1>1, <1>2 DEF Locked
  <2> QED BY <1>1, <1>3, <2>1 DEF MigrateIInv, Exclusion
<1>6. SchemaIsRegistered'
  BY <1>1 DEF MigrateIInv, SchemaIsRegistered
<1>7. ASSUME NEW q \in Process PROVE Progress(q, tx[q], Files[q])'
  <2>1. Progress(p, result, Files[p])
    BY <1>1, Facts DEF Progress, Tx
  <2>2. Progress(q, tx'[q], Files[q])
    BY <2>1, <1>3 DEF MigrateIInv
  <2> QED BY <2>2, <1>1 DEF Progress
<1> QED BY <1>4, <1>5, <1>6, <1>7 DEF MigrateIInv

\* What a process learns of its call, or does not, changes no transaction.
LEMMA CallIInv ==
    ASSUME MigrateIInv, UNCHANGED <<database, lock, tx>>, faults' \in 0..MaxFaults,
           call' \in [Process -> {"idle", "called", "committed", "ready", "failed"}]
    PROVE  MigrateIInv'
<1>1. UNCHANGED <<schema, registry, created, lock, tx>>
  BY DEF database
<1>2. Typed'
  BY <1>1 DEF MigrateIInv, Typed
<1>3. Exclusion' /\ SchemaIsRegistered'
  BY <1>1 DEF MigrateIInv, Exclusion, SchemaIsRegistered
<1>4. \A q \in Process : Progress(q, tx[q], Files[q])'
  BY <1>1 DEF MigrateIInv, Progress
<1> QED BY <1>2, <1>3, <1>4 DEF MigrateIInv

\* Every step.
LEMMA MigrateNextIInv == MigrateIInv /\ [MigrateNext]_migrateVars => MigrateIInv'
<1> SUFFICES ASSUME MigrateIInv, [MigrateNext]_migrateVars PROVE MigrateIInv'
  OBVIOUS
<1>1. ASSUME NEW p \in Process, Migrate(p) PROVE MigrateIInv'
  <2>1. CASE Succeed(p)
    <3>1. /\ UNCHANGED <<database, lock, tx>> /\ faults' \in 0..MaxFaults
          /\ call' \in [Process -> {"idle", "called", "committed", "ready", "failed"}]
      BY <2>1 DEF Succeed, MigrateIInv, Typed
    <3> QED BY <3>1, CallIInv
  <2> QED BY <1>1, <2>1, LockIInv, CreateRegistryIInv, CheckIInv, RunMigrationIInv,
             RecordIInv, SendCommitIInv, CommitIInv, RollbackIInv DEF Migrate
<1>2. ASSUME NEW p \in Process, Fail(p) PROVE MigrateIInv'
  <2>1. /\ UNCHANGED <<database, lock, tx>>
        /\ call' \in [Process -> {"idle", "called", "committed", "ready", "failed"}]
    BY <1>2 DEF Fail, MigrateIInv, Typed
  <2>2. faults' \in 0..MaxFaults
    BY <1>2, MigrationsAssumption DEF Fail, MigrateIInv, Typed
  <2> QED BY <2>1, <2>2, CallIInv
<1>3. CASE UNCHANGED migrateVars
  <2>1. /\ UNCHANGED <<database, lock, tx>> /\ faults' \in 0..MaxFaults
        /\ call' \in [Process -> {"idle", "called", "committed", "ready", "failed"}]
    BY <1>3 DEF migrateVars, MigrateIInv, Typed
  <2> QED BY <2>1, CallIInv
<1> QED BY <1>1, <1>2, <1>3, BeginIInv DEF MigrateNext

\* The inductive invariant.
LEMMA MigrateIInvAlways == MigrateSpec => []MigrateIInv
<1> QED BY MigrateInitIInv, MigrateNextIInv, PTL DEF MigrateSpec

-----------------------------------------------------------------------------
(* The theorems.                                                           *)

\* Every variable stays in its type, no migration is in the schema twice, and
\* whoever holds the lock is at work.
THEOREM MigrateTypeCorrect == MigrateSpec => []MigrateTypeOK
<1>1. MigrateIInv => MigrateTypeOK
  <2> SUFFICES ASSUME MigrateIInv PROVE MigrateTypeOK
    OBVIOUS
  <2>1. lock # NoProcess => tx[lock].at \in Locked
    BY DEF MigrateIInv, Typed, Exclusion
  <2>2. ASSUME NEW p \in Process
        PROVE  /\ tx[p].at \in {"none", "lock"} \cup Locked
               /\ tx[p].next \in 1..Len(Files[p]) + 1
               /\ tx[p].created \in BOOLEAN /\ tx[p].recorded \subseteq Version
               /\ tx[p].ran \in Seq(Version)
    <3>1. tx[p].next \in Nat \ {0} /\ Len(Files[p]) \in Nat /\ tx[p].next <= Len(Files[p]) + 1
      BY Facts DEF Progress
    <3> QED BY <3>1, Facts DEF Tx
  <2> QED BY <2>1, <2>2 DEF MigrateIInv, Typed, MigrateTypeOK
<1> QED BY <1>1, MigrateIInvAlways, PTL

\* The schema is what the registry says, wherever starts are interrupted.
THEOREM RegisteredAlways == MigrateSpec => []SchemaIsRegistered
<1>1. MigrateIInv => SchemaIsRegistered
  BY DEF MigrateIInv
<1> QED BY <1>1, MigrateIInvAlways, PTL

\* A process that starts is not failed by others that start at the same time.
THEOREM StartersCoexist == MigrateSpec => []NoStarterFailsAnother
<1>1. MigrateIInv => NoStarterFailsAnother
  <2> SUFFICES ASSUME MigrateIInv, NEW p \in Process, tx[p].at = "run"
               PROVE  /\ ~Contains(schema, File(p))
                      /\ \A q \in Process \ {p} : ~Contains(tx[q].ran, File(p))
    BY DEF NoStarterFailsAnother
  <2>1. lock = p /\ File(p) \notin registry
    BY Facts DEF Locked, Progress, File
  <2>2. ~Contains(schema, File(p))
    BY <2>1 DEF MigrateIInv, SchemaIsRegistered, Typed, Contains
  <2>3. ASSUME NEW q \in Process \ {p} PROVE ~Contains(tx[q].ran, File(p))
    <3>1. tx[q].at \in {"none", "lock"}
      BY <2>1, Facts DEF Tx
    <3>2. tx[q].ran = <<>>
      BY <3>1, Facts DEF Progress
    <3> QED BY <3>2 DEF Contains
  <2> QED BY <2>2, <2>3
<1> QED BY <1>1, MigrateIInvAlways, PTL

-----------------------------------------------------------------------------
(***************************************************************************)
(* Proofs about HttpRuntime, for any number of servers and requests.  What *)
(* makes the collection of the results a barrier is a count: every server  *)
(* that has stopped has put one result into the channel, so that run has   *)
(* received as many as there are servers only when all of them stopped.    *)
(***************************************************************************)

Stopped == {s \in Server : server[s] = "stopped"}

Shape ==
    /\ main \in {"bind", "select", "shutdown", "collect", "returned", "closing",
                "exited"}
    /\ server \in [Server -> {"none", "listening", "spawned", "serving", "stopped"}]
    /\ inFlight \in [Server -> Nat] /\ querying \in [Server -> Nat]
    /\ results \in Seq(Result) /\ completed \in Seq(Result)
    /\ shutdown \in [Server -> {"none", "spawned", "waiting", "clean", "forced"}]
    /\ triggered \in BOOLEAN

\* Before anything stops them.
ServingInv ==
    /\ main \in {"bind", "select"} =>
          /\ shutdown = [s \in Server |-> "none"] /\ completed = <<>> /\ ~triggered
          /\ errors = {} /\ aborted = {}
          /\ \A i \in DOMAIN results : ~results[i].clean
    /\ main = "bind" => /\ results = <<>>
                        /\ \A s \in Server : server[s] \in {"none", "listening"}
                        /\ \A s \in Server : inFlight[s] = 0

CountInv ==
    main \in {"select", "shutdown", "collect"} =>
        Len(results) + Len(completed) = Cardinality(Stopped)

\* A server that stops everybody did not stop cleanly.
TriggerInv == triggered => completed # <<>> /\ ~completed[1].clean

ShutdownInv ==
    /\ \A s \in Server : shutdown[s] = "clean" => inFlight[s] = 0
    /\ \A s \in Server : shutdown[s] = "forced" /\ inFlight[s] > 0 => s \in aborted
    /\ \A s \in aborted : s \in Server /\ shutdown[s] = "forced"
    /\ main \in {"shutdown", "collect"} =>
          /\ errors = {<<"shutdown", s>> : s \in {t \in Server : shutdown[t] = "forced"}}
          /\ \A s \in Server : shutdown[s] # "none"
    /\ main = "collect" => \A s \in Server : shutdown[s] \in {"clean", "forced"}

EndInv ==
    main \in {"returned", "closing", "exited"} =>
        /\ Stopped = Server /\ \A s \in Server : inFlight[s] > 0 => s \in aborted
        /\ \A s \in Server : shutdown[s] \notin {"spawned", "waiting"}
        /\ ErrorsTellTheTruth

StoreInv ==
    /\ stores = "closed" => main \in {"closing", "exited"}
    /\ main \in {"closing", "exited"} => refresher = "done"

IInv == Shape /\ ServingInv /\ CountInv /\ TriggerInv /\ ShutdownInv /\ EndInv /\ StoreInv

-----------------------------------------------------------------------------
(* Counting.                                                               *)

\* There are no more servers than places in the list of servers, and at least one.
LEMMA ServerCount ==
    /\ IsFiniteSet(Server) /\ Cardinality(Server) <= Len(Servers)
    /\ Server # {} /\ Len(Servers) \in Nat
<1>1. /\ Len(Servers) \in Nat /\ Servers \in [1..Len(Servers) -> Server]
      /\ DOMAIN Servers = 1..Len(Servers) /\ Len(Servers) # 0
  BY ServersAssumption, LenProperties, EmptySeq
<1>2. Servers \in Surjection(1..Len(Servers), Server)
  BY <1>1, Fun_IsSurj DEF Server
<1>3. IsFiniteSet(1..Len(Servers)) /\ Cardinality(1..Len(Servers)) = Len(Servers)
  BY <1>1, FS_Interval
<1>4. Servers[1] \in Server
  BY <1>1
<1> QED
  BY <1>1, <1>2, <1>3, <1>4, FS_Surjection

\* The servers that have stopped can be counted.
LEMMA StoppedCount ==
    /\ IsFiniteSet(Stopped) /\ Cardinality(Stopped) \in Nat
    /\ Cardinality(Stopped) <= Cardinality(Server)
    /\ Cardinality(Stopped) = Cardinality(Server) => Stopped = Server
    /\ Cardinality(Server) \in Nat
  BY ServerCount, FS_Subset, FS_CardinalityType DEF Stopped

-----------------------------------------------------------------------------

\* Initially.
LEMMA InitIInv == Init => IInv
<1> SUFFICES ASSUME Init PROVE IInv
  OBVIOUS
<1> USE DEF Init
<1>1. Shape
  BY EmptySeq DEF Shape
<1>2. ServingInv /\ CountInv /\ TriggerInv /\ ShutdownInv
  BY DEF ServingInv, CountInv, TriggerInv, ShutdownInv
<1>3. EndInv /\ StoreInv
  BY DEF EndInv, StoreInv
<1> QED
  BY <1>1, <1>2, <1>3 DEF IInv

\* What the refresher, the signal, the clock and the end of run do to the rest: nothing.
LEMMA OthersKeep ==
    ASSUME IInv, Signal \/ StartRefresh \/ EndRefresh \/ StopRefresher
           \/ CloseStores \/ Exit \/ Expire
    PROVE  IInv'
<1>1. /\ UNCHANGED <<server, inFlight, querying, results, completed, triggered, shutdown,
                     errors, aborted>>
      /\ \/ main' = main
         \/ main = "returned" /\ main' = "closing"
         \/ main = "closing" /\ main' = "exited"
  BY DEF Signal, StartRefresh, EndRefresh, StopRefresher, CloseStores, Exit, Expire,
         servers, requests, stopping
<1>2. Shape' /\ ServingInv' /\ CountInv' /\ TriggerInv' /\ ShutdownInv'
  BY <1>1 DEF IInv, Shape, ServingInv, CountInv, TriggerInv, ShutdownInv, Stopped
<1>3. EndInv'
  BY <1>1 DEF IInv, EndInv, Stopped, ErrorsTellTheTruth, Failed
<1>4. StoreInv'
  BY DEF Signal, StartRefresh, EndRefresh, StopRefresher, CloseStores, Exit, Expire, IInv, StoreInv
<1> QED
  BY <1>2, <1>3, <1>4 DEF IInv

\* The servers are bound; nothing has stopped when the last one is.
LEMMA ListenKeeps ==
    ASSUME IInv, Listen
    PROVE  IInv'
<1>1. /\ main = "bind" /\ main' \in {"bind", "select"}
      /\ UNCHANGED <<inFlight, querying, results, completed, triggered, shutdown, errors,
                     aborted, stores, refresher>>
      /\ results = <<>> /\ completed = <<>> /\ ~triggered
      /\ \A s \in Server : server[s] \in {"none", "listening"} /\ inFlight[s] = 0
  BY DEF Listen, requests, stopping, IInv, ServingInv
<1>2. /\ server' \in [Server -> {"none", "listening", "spawned"}]
      /\ main' = "bind" => \A s \in Server : server'[s] \in {"none", "listening"}
  <2> DEFINE next == Servers[Bound + 1]
  <2>1. CASE Bound + 1 < Len(Servers)
    <3>1. server' = [server EXCEPT ![next] = "listening"]
      BY <2>1 DEF Listen
    <3> HIDE DEF next
    <3> QED
      BY <1>1, <3>1 DEF IInv, Shape
  <2>2. CASE ~(Bound + 1 < Len(Servers))
    BY <2>2 DEF Listen
  <2> QED
    BY <2>1, <2>2
<1>3. Shape'
  BY <1>1, <1>2 DEF IInv, Shape
<1>4. ServingInv' /\ TriggerInv' /\ ShutdownInv'
  BY <1>1, <1>2 DEF IInv, ServingInv, TriggerInv, ShutdownInv
<1>5. CountInv'
  <2>1. Stopped' = {}
    BY <1>2 DEF Stopped
  <2>2. Len(results') + Len(completed') = 0
    BY <1>1, EmptySeq
  <2> QED
    BY <2>1, <2>2, FS_EmptySet DEF CountInv
<1>6. EndInv' /\ StoreInv'
  BY <1>1 DEF EndInv, StoreInv, IInv
<1> QED
  BY <1>3, <1>4, <1>5, <1>6 DEF IInv

\* A server cannot be bound: those that were are closed, and run says so.
LEMMA ListenFailsKeeps ==
    ASSUME IInv, ListenFails
    PROVE  IInv'
<1>1. /\ main = "bind" /\ main' = "returned" /\ server' = [s \in Server |-> "stopped"]
      /\ errors' = {<<"listen", Servers[Bound + 1]>>}
      /\ UNCHANGED <<inFlight, querying, results, completed, triggered, shutdown, aborted,
                     stores, refresher>>
      /\ shutdown = [s \in Server |-> "none"] /\ completed = <<>> /\ ~triggered /\ aborted = {}
      /\ \A s \in Server : inFlight[s] = 0
  BY DEF ListenFails, requests, stopping, IInv, ServingInv
<1>2. Shape'
  BY <1>1 DEF IInv, Shape
<1>3. ServingInv' /\ CountInv' /\ TriggerInv' /\ ShutdownInv' /\ StoreInv'
  BY <1>1 DEF IInv, ServingInv, CountInv, TriggerInv, ShutdownInv, StoreInv
<1>4. EndInv'
  <2>1. errors' # {} /\ ~\A s \in Server : shutdown'[s] = "clean"
    BY <1>1, ServerCount
  <2>2. ErrorsTellTheTruth'
    BY <2>1 DEF ErrorsTellTheTruth
  <2> QED
    BY <1>1, <2>2 DEF EndInv, Stopped
<1> QED
  BY <1>2, <1>3, <1>4 DEF IInv

\* A server begins to serve, takes a request, works on it or answers one.
LEMMA ServesKeep ==
    ASSUME IInv, NEW s \in Server, Serve(s) \/ Accept(s) \/ Answer(s) \/ Query(s) \/ QueryEnds(s)
    PROVE  IInv'
<1>1. UNCHANGED <<main, results, completed, triggered, shutdown, errors, aborted,
                   stores, refresher>>
  BY DEF Serve, Accept, Answer, Query, QueryEnds, requests, stopping
<1>2. /\ server' \in [Server -> {"none", "listening", "spawned", "serving", "stopped"}]
      /\ Stopped' = Stopped
      /\ main = "bind" => server' = server
  BY DEF Serve, Accept, Answer, Query, QueryEnds, IInv, Shape, Stopped, ServingInv
<1>3. /\ inFlight' \in [Server -> Nat] /\ querying' \in [Server -> Nat]
      /\ \A t \in Server : inFlight'[t] > inFlight[t] =>
            server[t] = "serving" /\ shutdown[t] \in {"none", "spawned"}
  <2>1. /\ inFlight \in [Server -> Nat] /\ querying \in [Server -> Nat]
        /\ inFlight[s] \in Nat /\ querying[s] \in Nat
    BY DEF IInv, Shape
  <2>2. CASE Serve(s)
    BY <2>1, <2>2 DEF Serve, requests
  <2>3. CASE Accept(s)
    BY <2>1, <2>3 DEF Accept
  <2>4. CASE Answer(s)
    <3>1. inFlight[s] - 1 \in Nat
      BY <2>1, <2>4 DEF Answer
    <3> QED
      BY <2>1, <2>4, <3>1 DEF Answer
  <2>5. CASE Query(s)
    BY <2>1, <2>5 DEF Query
  <2>6. CASE QueryEnds(s)
    BY <2>1, <2>6 DEF QueryEnds
  <2> QED
    BY <2>2, <2>3, <2>4, <2>5, <2>6
<1>4. \A t \in Server : inFlight[t] \in Nat /\ inFlight'[t] \in Nat
  BY <1>3 DEF IInv, Shape
<1>5. Shape'
  BY <1>1, <1>2, <1>3 DEF IInv, Shape
<1>6. ServingInv'
  <2>1. ASSUME main = "bind", NEW t \in Server PROVE inFlight'[t] = 0
    <3>1. inFlight[t] = 0 /\ server[t] # "serving"
      BY <2>1 DEF IInv, ServingInv
    <3>2. ~(inFlight'[t] > inFlight[t]) /\ inFlight'[t] \in Nat
      BY <1>3, <1>4, <3>1
    <3> QED
      BY <3>1, <3>2
  <2> QED
    BY <1>1, <1>2, <2>1 DEF IInv, ServingInv
<1>7. CountInv' /\ TriggerInv' /\ StoreInv'
  BY <1>1, <1>2 DEF IInv, CountInv, TriggerInv, StoreInv
<1>8. ShutdownInv'
  BY <1>1, <1>3, <1>4 DEF IInv, ShutdownInv
<1>9. EndInv'
  <2> SUFFICES ASSUME main \in {"returned", "closing", "exited"} PROVE EndInv'
    BY <1>1 DEF EndInv
  <2>1. /\ Stopped = Server /\ ErrorsTellTheTruth
        /\ \A t \in Server : inFlight[t] > 0 => t \in aborted
        /\ \A t \in Server : shutdown[t] \notin {"spawned", "waiting"}
    BY DEF IInv, EndInv
  <2>2. \A t \in Server : inFlight'[t] > 0 => t \in aborted
    BY <1>3, <1>4, <2>1 DEF Stopped
  <2>3. ErrorsTellTheTruth'
    BY <1>1, <2>1 DEF ErrorsTellTheTruth, Failed
  <2> QED
    BY <1>1, <1>2, <2>1, <2>2, <2>3 DEF EndInv
<1> QED
  BY <1>5, <1>6, <1>7, <1>8, <1>9 DEF IInv

\* A server stops and puts its result into the channel.
LEMMA ServeReturnsKeeps ==
    ASSUME IInv, NEW s \in Server, ServeReturns(s)
    PROVE  IInv'
<1>1. PICK clean \in BOOLEAN :
         /\ clean => shutdown[s] \notin {"none", "spawned"}
         /\ results' = Append(results, [server |-> s, clean |-> clean])
  BY DEF ServeReturns
<1> DEFINE r == [server |-> s, clean |-> clean]
<1>2. /\ server[s] \in {"spawned", "serving"} /\ server' = [server EXCEPT ![s] = "stopped"]
      /\ UNCHANGED <<main, inFlight, querying, completed, triggered, shutdown, errors,
                     aborted, stores, refresher>>
  BY DEF ServeReturns, requests, stopping
<1>3. /\ r \in Result /\ results \in Seq(Result) /\ completed \in Seq(Result)
      /\ Len(results) \in Nat /\ Len(completed) \in Nat
  BY LenProperties DEF IInv, Shape, Result
<1>4. /\ results' \in Seq(Result) /\ Len(results') = Len(results) + 1
      /\ \A i \in DOMAIN results' : results'[i] = IF i = Len(results) + 1 THEN r ELSE results[i]
      /\ \A i \in DOMAIN results' : i # Len(results) + 1 => i \in DOMAIN results
  BY <1>1, <1>3, AppendProperties, LenProperties
<1>5. s \notin Stopped /\ Stopped' = Stopped \cup {s}
  BY <1>2 DEF IInv, Shape, Stopped
<1>6. Cardinality(Stopped') = Cardinality(Stopped) + 1
  BY <1>5, StoppedCount, FS_AddElement
<1>7. Shape'
  BY <1>2, <1>4 DEF IInv, Shape
<1>8. ServingInv'
  <2>1. main # "bind"
    BY <1>2 DEF IInv, ServingInv
  <2>2. main = "select" => ~r.clean
    BY <1>1 DEF IInv, ServingInv
  <2> QED
    BY <1>2, <1>4, <2>1, <2>2 DEF IInv, ServingInv
<1>9. CountInv'
  BY <1>2, <1>3, <1>4, <1>6, StoppedCount DEF IInv, CountInv
<1>10. TriggerInv' /\ ShutdownInv' /\ StoreInv'
  BY <1>2 DEF IInv, TriggerInv, ShutdownInv, StoreInv
<1>11. EndInv'
  BY <1>2, <1>5 DEF IInv, EndInv
<1> QED
  BY <1>7, <1>8, <1>9, <1>10, <1>11 DEF IInv

\* run is told to stop.
LEMMA SelectKeeps ==
    ASSUME IInv, Select
    PROVE  IInv'
<1>1. /\ main = "select" /\ main' = "shutdown" /\ shutdown' = [s \in Server |-> "spawned"]
      /\ UNCHANGED <<server, inFlight, querying, errors, aborted, stores, refresher>>
      /\ completed = <<>> /\ ~triggered /\ errors = {} /\ aborted = {}
      /\ \A i \in DOMAIN results : ~results[i].clean
  BY DEF Select, servers, requests, IInv, ServingInv
<1>2. /\ results \in Seq(Result) /\ completed \in Seq(Result) /\ Len(results) \in Nat
      /\ Len(results) + Len(completed) = Cardinality(Stopped) /\ Len(completed) = 0
  BY <1>1, LenProperties, EmptySeq DEF IInv, Shape, CountInv
<1>3. /\ results' \in Seq(Result) /\ completed' \in Seq(Result) /\ triggered' \in BOOLEAN
      /\ Len(results') + Len(completed') = Len(results) + Len(completed)
      /\ TriggerInv'
  <2>1. CASE results # <<>> /\ completed' = <<Head(results)>> /\ results' = Tail(results)
              /\ triggered' = TRUE
    <3>1. /\ Head(results) \in Result /\ Tail(results) \in Seq(Result)
          /\ Len(Tail(results)) = Len(results) - 1
      BY <1>2, <2>1, HeadTailProperties
    <3>2. Head(results) = results[1] /\ 1 \in DOMAIN results
      BY <1>2, <2>1, EmptySeq, LenProperties
    <3>3. completed' \in Seq(Result) /\ Len(completed') = 1 /\ completed'[1] = Head(results)
          /\ completed' # <<>>
      BY <2>1, <3>1
    <3> QED
      BY <1>1, <1>2, <2>1, <3>1, <3>2, <3>3 DEF TriggerInv
  <2>2. CASE UNCHANGED <<completed, results, triggered>>
    <3>1. triggered' \in BOOLEAN /\ ~triggered'
      BY <1>1, <2>2 DEF IInv, Shape
    <3> QED
      BY <1>2, <2>2, <3>1 DEF TriggerInv
  <2> QED
    BY <2>1, <2>2 DEF Select
<1>4. Shape'
  BY <1>1, <1>3 DEF IInv, Shape
<1>5. ServingInv' /\ EndInv' /\ StoreInv'
  BY <1>1 DEF IInv, ServingInv, EndInv, StoreInv
<1>6. CountInv'
  BY <1>1, <1>2, <1>3 DEF CountInv, Stopped
<1>7. ShutdownInv'
  BY <1>1 DEF ShutdownInv
<1> QED
  BY <1>3, <1>4, <1>5, <1>6, <1>7 DEF IInv

\* A server is shut down, in time or not.
LEMMA ShutsDownKeeps ==
    ASSUME IInv, NEW s \in Server, ShutsDown(s)
    PROVE  IInv'
<1>1. /\ shutdown[s] \in {"spawned", "waiting"}
      /\ UNCHANGED <<main, server, inFlight, querying, results, completed, triggered,
                     stores, refresher>>
      /\ shutdown' \in [Server -> {"none", "spawned", "waiting", "clean", "forced"}]
      /\ \A t \in Server : t # s => shutdown'[t] = shutdown[t]
      /\ shutdown'[s] # "none"
  BY DEF ShutsDown, CallShutdown, ShutdownIdle, ShutdownForced, Shuts, servers, requests,
         IInv, Shape
<1>2. main \in {"shutdown", "collect"} => main = "shutdown"
  BY <1>1 DEF IInv, ShutdownInv
<1>3. main = "shutdown"
  BY <1>1, <1>2 DEF IInv, Shape, ServingInv, EndInv
<1>4. \/ shutdown'[s] = "clean" /\ inFlight[s] = 0 /\ UNCHANGED <<errors, aborted>>
      \/ shutdown'[s] = "waiting" /\ UNCHANGED <<errors, aborted>>
      \/ /\ shutdown'[s] = "forced" /\ errors' = errors \cup {<<"shutdown", s>>}
         /\ aborted' = IF inFlight[s] > 0 THEN aborted \cup {s} ELSE aborted
  BY DEF ShutsDown, CallShutdown, ShutdownIdle, ShutdownForced, Shuts, IInv, Shape
<1>5. ShutdownInv'
  <2>1. \A t \in Server : shutdown'[t] = "clean" => inFlight'[t] = 0
    BY <1>1, <1>4 DEF IInv, ShutdownInv
  <2>2. \A t \in Server : shutdown'[t] = "forced" /\ inFlight'[t] > 0 => t \in aborted'
    BY <1>1, <1>4 DEF IInv, ShutdownInv
  <2>3. \A t \in aborted' : t \in Server /\ shutdown'[t] = "forced"
    BY <1>1, <1>4 DEF IInv, ShutdownInv
  <2>4. errors' = {<<"shutdown", t>> : t \in {u \in Server : shutdown'[u] = "forced"}}
    <3>1. errors = {<<"shutdown", t>> : t \in {u \in Server : shutdown[u] = "forced"}}
      BY <1>3 DEF IInv, ShutdownInv
    <3>2. CASE shutdown'[s] = "forced"
      <4>1. {u \in Server : shutdown'[u] = "forced"}
              = {u \in Server : shutdown[u] = "forced"} \cup {s}
        BY <1>1, <3>2
      <4> QED
        BY <1>4, <3>1, <3>2, <4>1
    <3>3. CASE shutdown'[s] # "forced"
      <4>1. {u \in Server : shutdown'[u] = "forced"} = {u \in Server : shutdown[u] = "forced"}
        BY <1>1, <3>3
      <4> QED
        BY <1>4, <3>1, <3>3, <4>1
    <3> QED
      BY <3>2, <3>3
  <2>5. \A t \in Server : shutdown'[t] # "none"
    BY <1>1, <1>3 DEF IInv, ShutdownInv
  <2> QED
    BY <1>1, <1>3, <2>1, <2>2, <2>3, <2>4, <2>5 DEF ShutdownInv
<1>6. Shape' /\ ServingInv' /\ CountInv' /\ TriggerInv' /\ EndInv' /\ StoreInv'
  BY <1>1, <1>3 DEF IInv, Shape, ServingInv, CountInv, TriggerInv, EndInv, StoreInv, Stopped
<1> QED
  BY <1>5, <1>6 DEF IInv

\* run turns to the results, and receives them one by one.
LEMMA CollectKeeps ==
    ASSUME IInv, ShutdownsReported \/ Collect
    PROVE  IInv'
<1>1. CASE ShutdownsReported
  BY <1>1 DEF ShutdownsReported, servers, requests, stopping, IInv, Shape, ServingInv, CountInv,
     TriggerInv, ShutdownInv, EndInv, StoreInv, Stopped
<1>2. CASE Collect
  <2>1. /\ main = "collect" /\ results # <<>>
        /\ completed' = Append(completed, Head(results)) /\ results' = Tail(results)
        /\ UNCHANGED <<main, server, inFlight, querying, triggered, shutdown, errors,
                       aborted, stores, refresher>>
    BY <1>2 DEF Collect, servers, requests
  <2>2. /\ results \in Seq(Result) /\ completed \in Seq(Result)
        /\ Len(results) \in Nat /\ Len(completed) \in Nat
    BY LenProperties DEF IInv, Shape
  <2>3. /\ Head(results) \in Result /\ results' \in Seq(Result)
        /\ Len(results') = Len(results) - 1
    BY <2>1, <2>2, HeadTailProperties
  <2>4. /\ completed' \in Seq(Result) /\ completed' # <<>>
        /\ Len(completed') = Len(completed) + 1
        /\ completed # <<>> => completed'[1] = completed[1]
    <3>1. completed # <<>> => 1 \in 1..Len(completed)
      BY <2>2, EmptySeq
    <3> QED
      BY <2>1, <2>2, <2>3, <3>1, AppendProperties
  <2>5. Shape' /\ ServingInv' /\ ShutdownInv' /\ EndInv' /\ StoreInv'
    BY <2>1, <2>3, <2>4 DEF IInv, Shape, ServingInv, ShutdownInv, EndInv, StoreInv
  <2>6. CountInv'
    BY <2>1, <2>2, <2>3, <2>4 DEF IInv, CountInv, Stopped
  <2>7. TriggerInv'
    BY <2>1, <2>4 DEF IInv, TriggerInv
  <2> QED
    BY <2>5, <2>6, <2>7 DEF IInv
<1> QED
  BY <1>1, <1>2

\* run has received as many results as there are servers: all of them have stopped,
\* and what it returns is what they returned.
LEMMA ReturnKeeps ==
    ASSUME IInv, Return
    PROVE  IInv'
<1>1. /\ main = "collect" /\ main' = "returned" /\ Len(completed) = Len(Servers)
      /\ UNCHANGED <<server, inFlight, querying, results, completed, triggered, shutdown,
                     aborted, stores, refresher>>
  BY DEF Return, servers, requests, stopping
<1>2. /\ results \in Seq(Result) /\ completed \in Seq(Result)
      /\ Len(results) \in Nat /\ Len(completed) \in Nat
      /\ Len(results) + Len(completed) = Cardinality(Stopped)
      /\ DOMAIN results = 1..Len(results) /\ DOMAIN completed = 1..Len(completed)
  BY <1>1, LenProperties DEF IInv, Shape, CountInv
<1>3. Stopped = Server /\ Len(results) = 0
  BY <1>1, <1>2, ServerCount, StoppedCount
<1>4. results = <<>>
  BY <1>2, <1>3, EmptySeq
<1>5. \A s \in Server : shutdown[s] \in {"clean", "forced"}
  BY <1>1 DEF IInv, ShutdownInv
<1> DEFINE unclean == {j \in DOMAIN completed : ~completed[j].clean}
           triggers == {j \in {1} : triggered /\ completed[j].clean}
<1>6. triggers = {}
  BY DEF IInv, TriggerInv
<1>7. errors' = errors \cup {<<"serve", completed[i].server>> : i \in unclean}
                       \cup {<<"stopped", completed[i].server>> : i \in triggers}
  BY DEF Return
<1>8. errors' = {} <=> errors = {} /\ unclean = {}
  BY <1>6, <1>7
<1>9. errors = {} <=> \A s \in Server : shutdown[s] = "clean"
  BY <1>1, <1>5 DEF IInv, ShutdownInv
<1>10. unclean = {} <=> \A s \in Server : ~Failed(s)
  <2>1. \A s \in Server : Failed(s) <=> \E i \in DOMAIN completed :
           completed[i].server = s /\ ~completed[i].clean
    BY <1>2, <1>3 DEF Failed
  <2>2. \A i \in DOMAIN completed : completed[i].server \in Server
    <3>1. \A i \in DOMAIN completed : completed[i] \in Result
      BY <1>2, ElementOfSeq
    <3> QED
      BY <3>1 DEF Result
  <2> QED
    BY <2>1, <2>2
<1>11. (\A s \in Server : shutdown[s] = "clean") => aborted = {}
  BY DEF IInv, ShutdownInv
<1>12. ErrorsTellTheTruth'
  <2>1. \A s \in Server : Failed(s)' <=> Failed(s)
    BY <1>1 DEF Failed
  <2> HIDE DEF unclean
  <2> QED
    BY <1>1, <1>8, <1>9, <1>10, <1>11, <2>1 DEF ErrorsTellTheTruth
<1>13. EndInv'
  <2>1. \A s \in Server : inFlight[s] > 0 => s \in aborted
    <3>1. \A s \in Server : inFlight[s] \in Nat
      BY DEF IInv, Shape
    <3> QED
      BY <1>5, <3>1 DEF IInv, ShutdownInv
  <2> QED
    BY <1>1, <1>3, <1>5, <1>12, <2>1 DEF EndInv, Stopped
<1>14. Shape' /\ ServingInv' /\ CountInv' /\ TriggerInv' /\ StoreInv'
  BY <1>1 DEF IInv, Shape, ServingInv, CountInv, TriggerInv, StoreInv
<1>15. ShutdownInv'
  BY <1>1 DEF IInv, ShutdownInv
<1> QED
  BY <1>13, <1>14, <1>15 DEF IInv

\* Every step.
LEMMA NextIInv == IInv /\ [Next]_vars => IInv'
<1> SUFFICES ASSUME IInv, [Next]_vars PROVE IInv'
  OBVIOUS
<1>1. CASE UNCHANGED vars
  BY <1>1 DEF vars, servers, requests, stopping, IInv, Shape, ServingInv, CountInv, TriggerInv,
     ShutdownInv, EndInv, StoreInv, Stopped, ErrorsTellTheTruth, Failed
<1>2. CASE Next
  BY <1>2, OthersKeep, ListenKeeps, ListenFailsKeeps, ServesKeep, ServeReturnsKeeps,
     SelectKeeps, ShutsDownKeeps, CollectKeeps, ReturnKeeps DEF Next, Main
<1> QED
  BY <1>1, <1>2

\* The inductive invariant.
LEMMA IInvAlways == Spec => []IInv
  BY InitIInv, NextIInv, PTL DEF Spec

-----------------------------------------------------------------------------

\* The stores are closed after everybody who uses them has stopped.
THEOREM StoresCloseLast == Spec => []StoresOutliveTheirUsers
<1>1. IInv => StoresOutliveTheirUsers
  BY DEF IInv, StoreInv, EndInv, Stopped, StoresOutliveTheirUsers
<1> QED
  BY <1>1, IInvAlways, PTL

\* The process reports an error exactly if something went wrong.
THEOREM ExitStatusIsTrue == Spec => []ErrorsTellTheTruth
<1>1. IInv => ErrorsTellTheTruth
  BY DEF IInv, EndInv, ErrorsTellTheTruth
<1> QED
  BY <1>1, IInvAlways, PTL

=============================================================================
