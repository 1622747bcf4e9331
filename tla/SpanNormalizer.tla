--------------------------- MODULE SpanNormalizer ---------------------------
(***************************************************************************)
(* observation/otel Normalizer: one OTLP trace request, span by span, from *)
(* raw attributes and timestamps to facts and to one reason per rejected   *)
(* span.                                                                   *)
(*                                                                         *)
(* An attribute list is a function from keys to the sequence of values it  *)
(* gives each key.  A value is the text that is left after trimming, or    *)
(* one of TooLong and NotString.  Timestamps are unsigned words that are   *)
(* converted to signed ones, here of Width bits.                           *)
(***************************************************************************)
EXTENDS Integers, Sequences, FiniteSets

CONSTANTS
    Traces,        \* the requests: sequences of spans, flattened
    Environment,   \* the configured environment
    Systems,       \* the supported messaging systems
    Unknown,       \* service names that stand for none
    Inbox,         \* <<system, name>> of temporary destinations
    Blank, TooLong, NotString,
    Width,         \* bits of a timestamp
    Now,           \* the time of the request
    MaxFutureSkew

ASSUME WidthAssumption == Width \in Nat \ {0} /\ Now \in Nat /\ MaxFutureSkew \in Nat

\* The sources of an environment are no texts that a value may be.
ASSUME ValueAssumption == {Blank, TooLong} \cap {"resource", "configured_fallback"} = {}

\* A request is a sequence of spans, and its timestamps are words.
ASSUME TraceAssumption ==
    \A t \in Traces :
        /\ t \in Seq({t[i] : i \in DOMAIN t})
        /\ \A i \in DOMAIN t : {t[i].start, t[i].end} \subseteq 0..(2^Width - 1)

MaxInt == 2^(Width - 1) - 1

\* The conversion to a signed word of the same width.
Signed(word) == IF word > MaxInt THEN word - 2^Width ELSE word

-----------------------------------------------------------------------------
(* Attributes: a value, or the reason why there is none.                   *)

Failed(reason) == [reason |-> reason, value |-> Blank]
Has(value) == [reason |-> "none", value |-> value]

\* stringValue, with the reason a missing attribute is rejected for.
StringValue(values, missing) ==
    CASE Len(values) = 0          -> Failed(missing)
      [] Len(values) > 1          -> Failed("duplicate_attribute")
      [] values = <<NotString>>   -> Failed("invalid_attribute_type")
      [] values = <<TooLong>>     -> Failed("attribute_value_too_long")
      [] OTHER                    -> Has(values[1])

RequiredString(values, missing) ==
    IF values = <<Blank>> THEN Failed(missing) ELSE StringValue(values, missing)

OptionalString(values) ==
    IF values = <<>> THEN Has(Blank) ELSE StringValue(values, "none")

ResolveEnvironment(values) ==
    CASE values = <<>>            -> Has(Environment)
      [] values = <<Blank>>       -> Failed("environment_invalid")
      [] OTHER ->
            LET read == StringValue(values, "none")
            IN  IF read.reason = "none" /\ read.value # Environment
                THEN Failed("environment_mismatch") ELSE read

\* Mutant: a span counts as labelled if it is of the configured environment.
SourceByValue(values) ==
    IF ResolveEnvironment(values).value = Environment THEN "resource" ELSE "configured_fallback"

\* Whether the resource named the environment, or the configuration stands in.
EnvironmentSource(values) == IF values = <<>> THEN "configured_fallback" ELSE "resource"

\* Mutant: any word is converted.
ObservedAtUnchecked(span) ==
    LET nanos == IF span.end # 0 THEN span.end ELSE span.start
    IN  CASE span.start # 0 /\ span.end # 0 /\ span.end < span.start
                                              -> Failed("timestamp_invalid")
          [] nanos = 0                        -> Failed("timestamp_missing")
          [] Signed(nanos) > Now + MaxFutureSkew -> Failed("timestamp_future")
          [] OTHER                            -> Has(Signed(nanos))

ObservedAt(span) ==
    LET nanos == IF span.end # 0 THEN span.end ELSE span.start
    IN  IF span.start # 0 /\ span.end # 0 /\ span.end < span.start
        THEN Failed("timestamp_invalid")
        ELSE IF nanos = 0 THEN Failed("timestamp_missing")
        ELSE IF nanos > MaxInt THEN Failed("timestamp_invalid")
        ELSE IF Signed(nanos) > Now + MaxFutureSkew THEN Failed("timestamp_future")
        ELSE Has(Signed(nanos))

-----------------------------------------------------------------------------
(* normalizeSpan.                                                          *)

\* The checks of an eligible span, in their order: the first that fails counts.
ServiceName(span) ==
    LET read == RequiredString(span.service, "service_name_missing")
    IN  IF read.value \in Unknown THEN Failed("service_name_unknown") ELSE read

System(span) ==
    LET read == RequiredString(span.system, "messaging_system_missing")
    IN  IF read.reason = "none" /\ read.value \notin Systems
        THEN Failed("messaging_system_unsupported") ELSE read

Destination(span) ==
    LET read == RequiredString(span.destination, "destination_missing")
    IN  IF <<System(span).value, read.value>> \in Inbox
        THEN Failed("destination_temporary") ELSE read

Checks(span) ==
    <<ServiceName(span), OptionalString(span.namespace), ResolveEnvironment(span.environment),
      System(span), Destination(span), OptionalString(span.template), ObservedAt(span)>>

FirstReason(checks) ==
    LET failing == {i \in DOMAIN checks : checks[i].reason # "none"}
    IN  IF failing = {} THEN "none"
        ELSE checks[CHOOSE i \in failing : \A j \in failing : i <= j].reason

\* Mutant: any text that is there is added.
AddAnyMetadata(metadata, key, text) ==
    IF text = Blank THEN metadata
    ELSE [k \in DOMAIN metadata \cup {key} |-> IF k = key THEN text ELSE metadata[k]]

\* addMetadata: a text that is blank or too long is left out.
AddMetadata(metadata, key, text) ==
    IF text \in {Blank, TooLong} THEN metadata
    ELSE [k \in DOMAIN metadata \cup {key} |-> IF k = key THEN text ELSE metadata[k]]

\* The schemas and the instrumentation scope of a span are alike: one text, its
\* origin, stands for them.
MetadataOf(span) ==
    AddMetadata([environment_source |-> EnvironmentSource(span.environment)],
                "origin", span.origin)

\* relationshipKindForOperation.
Kind == [operation \in {"send", "process"} |->
            IF operation = "send" THEN "publishes" ELSE "consumes"]

FactOf(span) ==
    [relationship |-> Kind[span.operation[1]], service |-> ServiceName(span).value,
     namespace |-> OptionalString(span.namespace).value,
     environment |-> Environment, system |-> System(span).value,
     physical |-> Destination(span).value,
     logical |-> OptionalString(span.template).value, at |-> ObservedAt(span).value,
     metadata |-> MetadataOf(span)]

\* Mutant: the operation is looked at last.
ReasonOperationLast(span) ==
    LET reason == FirstReason(Checks(span))
    IN  IF reason # "none" THEN reason
        ELSE IF span.operation = <<>> THEN "ignored"
        ELSE LET read == StringValue(span.operation, "none")
             IN  IF read.reason # "none" THEN read.reason
                 ELSE IF read.value \notin DOMAIN Kind THEN "ignored" ELSE "none"

\* Why a span yields no fact; "none" if it yields one.  A span without an operation
\* or with another one is not the receiver's business, whatever else is wrong.
Reason(span) ==
    IF span.operation = <<>> THEN "ignored"
    ELSE LET read == StringValue(span.operation, "none")
         IN  IF read.reason # "none" THEN read.reason
             ELSE IF read.value \notin DOMAIN Kind THEN "ignored"
             ELSE FirstReason(Checks(span))

-----------------------------------------------------------------------------
(* Normalize.                                                              *)

VARIABLES
    trace,     \* the spans of the request
    next,      \* the span the loop is at
    result,    \* the result so far
    done,      \* whether the context of the request is done
    answer     \* "none" while the loop runs, then "result" or "error"

normalizeVars == <<trace, next, result, done, answer>>

NoResult == [facts |-> <<>>, total |-> 0, ignored |-> 0, rejected |-> 0, reasons |-> {}]

NormalizeInit ==
    /\ trace \in Traces
    /\ next = 1 /\ result = NoResult
    /\ done \in BOOLEAN /\ answer = "none"

\* The context is looked at before each span: partial work is discarded.
Discard ==
    /\ answer = "none" /\ done
    /\ answer' = "error" /\ result' = NoResult
    /\ UNCHANGED <<trace, next, done>>

NormalizeSpan ==
    /\ answer = "none" /\ ~done /\ next <= Len(trace)
    /\ LET reason == Reason(trace[next])
       IN  result' = [facts |-> IF reason = "none" THEN Append(result.facts, FactOf(trace[next]))
                                ELSE result.facts,
                      total |-> result.total + 1,
                      ignored |-> result.ignored + IF reason = "ignored" THEN 1 ELSE 0,
                      rejected |-> result.rejected
                                       + IF reason \notin {"none", "ignored"} THEN 1 ELSE 0,
                      reasons |-> result.reasons \cup ({reason} \ {"none", "ignored"})]
    /\ next' = next + 1
    /\ UNCHANGED <<trace, done, answer>>

Return ==
    /\ answer = "none" /\ next > Len(trace)
    /\ answer' = "result"
    /\ UNCHANGED <<trace, next, result, done>>

\* The client goes away or its deadline passes.
Cancel ==
    /\ ~done /\ answer = "none"
    /\ done' = TRUE
    /\ UNCHANGED <<trace, next, result, answer>>

NormalizeNext == Discard \/ NormalizeSpan \/ Return \/ Cancel

NormalizeSpec == NormalizeInit /\ [][NormalizeNext]_normalizeVars

-----------------------------------------------------------------------------

\* A span without an operation, or with one that can be read and is another one.
Foreign(span) ==
    \/ span.operation = <<>>
    \/ /\ Len(span.operation) = 1
       /\ span.operation[1] \notin DOMAIN Kind \cup {TooLong, NotString}

\* Spans that are not about messaging are never held against the exporter,
\* however malformed: a request of only such spans is a full success.
ForeignSpansAreNotRejected ==
    (\A i \in DOMAIN trace : Foreign(trace[i])) => result.rejected = 0

\* A fact is dated by its own span, by its end if it has one, never before the
\* epoch and never beyond the tolerated skew, whatever the words wrap to.
FactsAreDated ==
    \A j \in DOMAIN result.facts :
        LET at == result.facts[j].at
        IN  /\ 0 < at /\ at <= Now + MaxFutureSkew
            /\ \E i \in DOMAIN trace :
                  /\ at = IF trace[i].end # 0 THEN trace[i].end ELSE trace[i].start
                  /\ trace[i].start <= at

\* How many of the first i spans yield a fact.
Accepted(i) == Cardinality({h \in 1..i : Reason(trace[h]) = "none"})

\* The j-th fact tells of the j-th span that yields one whether its environment
\* was named or assumed, and has a text of its origin exactly if that is not blank and
\* is bounded (normalizer.go:432-454).
MetadataIsHonest ==
    answer # "error" =>
        /\ Len(result.facts) = Accepted(next - 1)
        /\ \A i \in 1..(next - 1) :
              Reason(trace[i]) = "none" =>
                 LET metadata == result.facts[Accepted(i)].metadata
                 IN  /\ metadata["environment_source"] = "resource"
                            <=> trace[i].environment # <<>>
                     /\ \A key \in DOMAIN metadata : metadata[key] \notin {Blank, TooLong}
                     /\ "origin" \in DOMAIN metadata
                            <=> trace[i].origin \notin {Blank, TooLong}

=============================================================================
