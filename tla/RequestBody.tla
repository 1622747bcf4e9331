----------------------------- MODULE RequestBody -----------------------------
(***************************************************************************)
(* How the OTLP receiver takes the body of a request                       *)
(* (observation/otel/http_receiver.go): the checks of the headers, and     *)
(* io.ReadAll over an io.LimitReader over a gzip reader over a             *)
(* MaxBytesReader.  A body has a length on the wire and a payload, which   *)
(* is as long if it is not compressed; a beginning of the payload may well *)
(* decode, to a beginning of what the exporter sent.                       *)
(***************************************************************************)
EXTENDS Integers, Sequences

CONSTANTS
    MaxInt64,      \* the largest number of bytes that can be counted
    Limits         \* the limits that may be configured

ASSUME LimitAssumption == MaxInt64 \in Nat /\ Limits \subseteq 1..MaxInt64

Encodings == {"identity", "gzip", "br"}

\* The length of a body without Content-Length.
Undeclared == -1

IsBody(b) ==
    /\ {b.protobuf, b.sound, b.valid} \subseteq BOOLEAN
    /\ b.encoding \in Encodings
    /\ b.wire \in 0..MaxInt64 /\ b.declared \in {Undeclared, b.wire}
    /\ Len(b.payload) \in 0..MaxInt64
    /\ b.encoding # "gzip" => b.sound /\ b.wire = Len(b.payload)

\* Mutant: a body of exactly the limit is declared too large.
HeaderStatusAtLimit(limit, b) ==
    CASE ~b.protobuf                            -> 415
      [] b.declared >= limit                    -> 413
      [] b.encoding \notin {"identity", "gzip"} -> 415
      [] OTHER                                  -> 200

\* What the headers alone decide; 200 if they admit the body.
HeaderStatus(limit, b) ==
    CASE ~b.protobuf                            -> 415
      [] b.declared > limit                     -> 413
      [] b.encoding \notin {"identity", "gzip"} -> 415
      [] OTHER                                  -> 200

\* Mutant: the reader stops at the limit instead of one byte after it.
LimitWithoutProbe(limit) == limit

\* Mutant: the byte more is added without a look at the width: the sum wraps.
ReadLimitWraps(limit) == IF limit = MaxInt64 THEN -MaxInt64 - 1 ELSE limit + 1

\* The LimitReader admits one byte more than the limit, to tell a payload that
\* is as long as it may be from one that is longer; but no more than 2^63 - 1.
ReadLimit(limit) == IF limit < MaxInt64 THEN limit + 1 ELSE limit

\* What ReadAll returns of the payload.
Taken(limit, b) ==
    SubSeq(b.payload, 1,
           IF Len(b.payload) < ReadLimit(limit) THEN Len(b.payload) ELSE ReadLimit(limit))

\* A stream that is broken somewhere may be refused before MaxBytesReader refuses
\* the byte after the limit, or after it.  Who stops at the end of the LimitReader
\* does not see the end of the stream.
ReadStatuses(limit, b) ==
    LET taken == Len(Taken(limit, b))
    IN  IF b.wire > limit THEN IF b.sound THEN {413} ELSE {400, 413}
        ELSE IF taken < ReadLimit(limit) /\ ~b.sound THEN {400}
        ELSE IF taken > limit THEN {413}
        ELSE IF ~b.valid THEN {400}
        ELSE {200}

\* How the receiver may answer a body that arrives; 200 if it is taken.
BodyStatuses(limit, b) ==
    IF HeaderStatus(limit, b) # 200 THEN {HeaderStatus(limit, b)}
    ELSE ReadStatuses(limit, b)

\* "The configured byte limit applies to both the on-wire request and its
\* decompressed representation" (README.md:168-170).
Fits(limit, b) == b.wire <= limit /\ Len(b.payload) <= limit

WellFormed(b) == b.protobuf /\ b.encoding \in {"identity", "gzip"} /\ b.sound /\ b.valid

=============================================================================
