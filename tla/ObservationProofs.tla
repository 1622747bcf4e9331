-------------------------- MODULE ObservationProofs --------------------------
(***************************************************************************)
(* Proofs about what happens to an observation: its normalization          *)
(* (SpanNormalizer), its delivery (OtlpIngest) and its transaction         *)
(* (PostgresObservationStore), for any requests, batches and number of     *)
(* exporters and writers.                                                  *)
(***************************************************************************)
EXTENDS SpanNormalizer, OtlpIngest, PostgresObservationStore,
        FiniteSetTheorems, WellFoundedInduction, TLAPS

-----------------------------------------------------------------------------
(* Aggregates.                                                             *)

\* The type of aggregates, one by one.
LEMMA AggregatesTyped ==
    ASSUME NEW a \in Aggregates
    PROVE  /\ DOMAIN a \subseteq Key
           /\ \A k \in DOMAIN a : a[k] \in Aggregate
<1>1. PICK K \in SUBSET Key : a \in [K -> Aggregate]
  BY DEF Aggregates
<1>2. QED
  BY <1>1

LEMMA AggregateTyped ==
    ASSUME NEW a \in Aggregate
    PROVE  /\ a.first \in Instant /\ a.last \in Instant /\ a.metadata \in Metadata
           /\ a.first \in Nat /\ a.last \in Nat
           /\ a.count \in Nat \ {0} /\ a.count <= MaxCount /\ MaxCount \in Nat
<1>1. /\ a.first \in Instant /\ a.last \in Instant /\ a.metadata \in Metadata
      /\ a.count \in 1..MaxCount
  BY DEF Aggregate
<1>2. (\A t \in Instant : t \in Nat) /\ MaxCount \in Nat
  BY AggregateAssumption
<1>3. a.first \in Nat /\ a.last \in Nat
  BY <1>1, <1>2, Zenon
<1>4. a.count \in Nat \ {0} /\ a.count <= MaxCount
  BY <1>1, <1>2
<1>5. QED
  BY <1>1, <1>2, <1>3, <1>4

LEMMA FactTyped ==
    ASSUME NEW fact \in Fact
    PROVE  /\ fact.key \in Key /\ fact.at \in Instant /\ fact.metadata \in Metadata
           /\ fact.at \in Nat
<1>1. fact.key \in Key /\ fact.at \in Instant /\ fact.metadata \in Metadata
  BY DEF Fact
<1>2. \A t \in Instant : t \in Nat
  BY AggregateAssumption
<1>3. QED
  BY <1>1, <1>2, Zenon

\* What one more fact makes of an aggregate.
LEMMA Added ==
    ASSUME NEW a \in Aggregate, NEW fact \in Fact
    PROVE  LET b == Add(a, fact)
           IN  /\ b \in Aggregate
               /\ b.first <= a.first /\ a.last <= b.last
               /\ b.first <= fact.at /\ fact.at <= b.last
               /\ a.first <= a.last => b.first <= b.last
               /\ b.count = IF a.count < MaxCount THEN a.count + 1 ELSE MaxCount
               /\ \/ b.last = a.last /\ b.metadata = a.metadata
                  \/ b.last = fact.at /\ b.metadata = fact.metadata
<1> DEFINE b == Add(a, fact)
<1>1. /\ b.first = IF fact.at < a.first THEN fact.at ELSE a.first
      /\ b.last = IF fact.at >= a.last THEN fact.at ELSE a.last
      /\ b.count = IF a.count < MaxCount THEN a.count + 1 ELSE a.count
      /\ b.metadata = IF fact.at >= a.last THEN fact.metadata ELSE a.metadata
      /\ b = [first |-> b.first, last |-> b.last, count |-> b.count, metadata |-> b.metadata]
  BY DEF Add
<1> HIDE DEF b
<1>2. /\ a.first \in Instant /\ a.last \in Instant /\ a.metadata \in Metadata
      /\ a.first \in Nat /\ a.last \in Nat
      /\ a.count \in Nat \ {0} /\ a.count <= MaxCount /\ MaxCount \in Nat
  BY AggregateTyped
<1>3. /\ fact.at \in Instant /\ fact.metadata \in Metadata /\ fact.at \in Nat
  BY FactTyped
<1>4. /\ b.first <= a.first /\ a.last <= b.last
      /\ b.first <= fact.at /\ fact.at <= b.last
  BY <1>1, <1>2, <1>3
<1>5. a.first <= a.last => b.first <= b.last
  BY <1>1, <1>2, <1>3
<1>6. /\ b.count = IF a.count < MaxCount THEN a.count + 1 ELSE MaxCount
      /\ b.count \in 1..MaxCount
  BY <1>1, <1>2
<1>7. b \in Aggregate
  <2>1. b.first \in Instant /\ b.last \in Instant /\ b.metadata \in Metadata
    BY <1>1, <1>2, <1>3
  <2>2. QED
    BY <1>1, <1>6, <2>1 DEF Aggregate
<1>8. \/ b.last = a.last /\ b.metadata = a.metadata
      \/ b.last = fact.at /\ b.metadata = fact.metadata
  BY <1>1
<1>9. QED
  BY <1>4, <1>5, <1>6, <1>7, <1>8 DEF b

LEMMA Started ==
    ASSUME NEW fact \in Fact
    PROVE  LET b == NewAggregate(fact)
           IN  /\ b \in Aggregate
               /\ b.first = fact.at /\ b.last = fact.at /\ b.count = 1
               /\ b.metadata = fact.metadata
<1>1. fact.at \in Instant /\ fact.metadata \in Metadata
  BY FactTyped
<1>2. 1 \in 1..MaxCount
  BY AggregateAssumption
<1>3. NewAggregate(fact) \in Aggregate
  BY <1>1, <1>2 DEF NewAggregate, Aggregate
<1>4. /\ NewAggregate(fact).first = fact.at /\ NewAggregate(fact).last = fact.at
      /\ NewAggregate(fact).count = 1 /\ NewAggregate(fact).metadata = fact.metadata
  BY DEF NewAggregate
<1>5. QED
  BY <1>3, <1>4

\* Where the store has one more fact.
LEMMA OneMoreFact ==
    ASSUME NEW a, NEW fact
    PROVE  LET b == WithFact(a, fact)
           IN  /\ DOMAIN b = DOMAIN a \cup {fact.key}
               /\ \A k \in DOMAIN a \ {fact.key} : b[k] = a[k]
               /\ b[fact.key] = IF fact.key \in DOMAIN a THEN Add(a[fact.key], fact)
                                ELSE NewAggregate(fact)
               /\ b = [k \in DOMAIN b |-> b[k]]
BY DEF WithFact

LEMMA WithFactTyped ==
    ASSUME NEW a \in Aggregates, NEW fact \in Fact
    PROVE  WithFact(a, fact) \in Aggregates
<1> DEFINE b == WithFact(a, fact)
<1>1. /\ DOMAIN b = DOMAIN a \cup {fact.key}
      /\ \A k \in DOMAIN a \ {fact.key} : b[k] = a[k]
      /\ b[fact.key] = IF fact.key \in DOMAIN a THEN Add(a[fact.key], fact)
                       ELSE NewAggregate(fact)
      /\ b = [k \in DOMAIN b |-> b[k]]
  BY OneMoreFact
<1> HIDE DEF b
<1>2. DOMAIN a \subseteq Key /\ \A k \in DOMAIN a : a[k] \in Aggregate
  BY AggregatesTyped
<1>3. DOMAIN b \in SUBSET Key
  BY <1>1, <1>2, FactTyped
<1>4. \A k \in DOMAIN b : b[k] \in Aggregate
  BY <1>1, <1>2, Added, Started
<1>5. b \in [DOMAIN b -> Aggregate]
  BY <1>1, <1>4
<1>6. QED
  BY <1>3, <1>5 DEF Aggregates, b

-----------------------------------------------------------------------------
(* Batches: an induction over the facts of a batch.                        *)

\* A set of naturals that is not empty has a least element.
LEMMA LeastNumber ==
    ASSUME NEW S \in SUBSET Nat, S # {}
    PROVE  \E m \in S : \A n \in S : m <= n
<1>1. PICK m \in S : \A n \in S : <<n, m>> \notin OpToRel(<, Nat)
  BY NatLessThanWellFounded, WFMin, Zenon
<1>2. \A n \in S : ~(n < m)
  BY <1>1, Zenon DEF OpToRel
<1>3. QED
  BY <1>2

\* g[i] is what the first i facts of a batch make of the aggregates.
IsRun(g, before, batch, n) ==
    g = [i \in 0..n |-> IF i = 0 THEN before ELSE WithFact(g[i - 1], batch[i])]

LEMMA RunExists ==
    ASSUME NEW before, NEW batch, NEW n \in Nat
    PROVE  \E g : IsRun(g, before, batch, n)
<1> DEFINE Bad == {i \in Nat : ~\E g : IsRun(g, before, batch, i)}
<1>1. SUFFICES ASSUME Bad # {} PROVE FALSE
  OBVIOUS
<1>2. PICK m \in Bad : \A i \in Bad : m <= i
  <2>1. Bad \in SUBSET Nat
    OBVIOUS
  <2>2. QED
    BY <1>1, <2>1, LeastNumber
<1>3. m # 0
  <2>1. IsRun([i \in 0..0 |-> before], before, batch, 0)
    BY DEF IsRun
  <2>2. QED
    BY <2>1
<1>4. m - 1 \in Nat /\ m - 1 \notin Bad
  BY <1>2, <1>3
<1>5. PICK g : IsRun(g, before, batch, m - 1)
  BY <1>4
<1> DEFINE h == [i \in 0..m |-> IF i = m THEN WithFact(g[m - 1], batch[m]) ELSE g[i]]
<1>6. IsRun(h, before, batch, m)
  <2>1. ASSUME NEW i \in 0..m
        PROVE  h[i] = IF i = 0 THEN before ELSE WithFact(h[i - 1], batch[i])
    <3>1. CASE i = m
      BY <1>3, <3>1
    <3>2. CASE i # m
      <4>1. i \in 0..(m - 1) /\ m \in Nat
        BY <3>2
      <4>2. h[i] = g[i] /\ (i # 0 => h[i - 1] = g[i - 1])
        BY <4>1
      <4>3. g[i] = IF i = 0 THEN before ELSE WithFact(g[i - 1], batch[i])
        BY <1>5, <4>1 DEF IsRun
      <4>4. QED
        BY <4>2, <4>3
    <3>3. QED
      BY <3>1, <3>2
  <2>2. h = [i \in 0..m |-> h[i]]
    OBVIOUS
  <2> HIDE DEF h
  <2>3. QED
    BY <2>1, <2>2 DEF IsRun
<1>7. QED
  BY <1>6

LEMMA RunUnique ==
    ASSUME NEW before, NEW batch, NEW n \in Nat, NEW g, NEW h,
           IsRun(g, before, batch, n), IsRun(h, before, batch, n)
    PROVE  g[n] = h[n]
<1> DEFINE Bad == {i \in 0..n : g[i] # h[i]}
<1>1. SUFFICES ASSUME Bad # {} PROVE FALSE
  OBVIOUS
<1>2. PICK m \in Bad : \A i \in Bad : m <= i
  <2>1. Bad \in SUBSET Nat
    OBVIOUS
  <2>2. QED
    BY <1>1, <2>1, LeastNumber
<1>3. /\ g[m] = IF m = 0 THEN before ELSE WithFact(g[m - 1], batch[m])
      /\ h[m] = IF m = 0 THEN before ELSE WithFact(h[m - 1], batch[m])
  BY <1>2 DEF IsRun
<1>4. m # 0
  BY <1>3
<1>5. m - 1 \in 0..n /\ m - 1 \notin Bad
  BY <1>2, <1>4
<1>6. g[m - 1] = h[m - 1]
  BY <1>5
<1>7. QED
  BY <1>3, <1>4, <1>6

\* Any such g tells what a batch makes of the aggregates.
LEMMA WithBatchIs ==
    ASSUME NEW before, NEW batch, Len(batch) \in Nat, NEW g, IsRun(g, before, batch, Len(batch))
    PROVE  WithBatch(before, batch) = g[Len(batch)]
<1> DEFINE R == CHOOSE h : IsRun(h, before, batch, Len(batch))
<1>1. IsRun(R, before, batch, Len(batch))
  BY RunExists, Zenon
<1>2. WithBatch(before, batch) = R[Len(batch)]
  BY DEF WithBatch, IsRun
<1> HIDE DEF R
<1>3. R[Len(batch)] = g[Len(batch)]
  BY <1>1, RunUnique
<1>4. QED
  BY <1>2, <1>3

LEMMA WithNoFacts ==
    ASSUME NEW before
    PROVE  WithBatch(before, <<>>) = before
<1> DEFINE g == [i \in 0..0 |-> before]
<1>1. IsRun(g, before, <<>>, 0)
  BY DEF IsRun
<1>2. Len(<<>>) = 0 /\ 0 \in Nat
  OBVIOUS
<1>3. WithBatch(before, <<>>) = g[0]
  <2> HIDE DEF g
  <2>1. QED
    BY <1>1, <1>2, WithBatchIs
<1>4. QED
  BY <1>3

\* The facts of a batch are recorded in its order.
LEMMA WithLastFact ==
    ASSUME NEW S, NEW before, NEW batch \in Seq(S), NEW fact \in S
    PROVE  WithBatch(before, Append(batch, fact)) = WithFact(WithBatch(before, batch), fact)
<1> DEFINE n == Len(batch)
           longer == Append(batch, fact)
<1>1. /\ n \in Nat /\ Len(longer) = n + 1 /\ longer[n + 1] = fact
      /\ \A i \in 1..n : longer[i] = batch[i]
  OBVIOUS
<1> HIDE DEF longer, n
<1>2. PICK g : IsRun(g, before, batch, n)
  BY <1>1, RunExists
<1> DEFINE h == [i \in 0..(n + 1) |-> IF i = n + 1 THEN WithFact(g[n], fact) ELSE g[i]]
<1>3. IsRun(h, before, longer, n + 1)
  <2>1. ASSUME NEW i \in 0..(n + 1)
        PROVE  h[i] = IF i = 0 THEN before ELSE WithFact(h[i - 1], longer[i])
    <3>1. CASE i = n + 1
      BY <1>1, <3>1
    <3>2. CASE i # n + 1
      <4>1. i \in 0..n
        BY <1>1, <3>2
      <4>2. h[i] = g[i] /\ (i # 0 => h[i - 1] = g[i - 1] /\ longer[i] = batch[i])
        BY <1>1, <4>1
      <4>3. g[i] = IF i = 0 THEN before ELSE WithFact(g[i - 1], batch[i])
        BY <1>2, <4>1 DEF IsRun
      <4>4. QED
        BY <4>2, <4>3
    <3>3. QED
      BY <3>1, <3>2
  <2>2. h = [i \in 0..(n + 1) |-> h[i]]
    OBVIOUS
  <2> HIDE DEF h
  <2>3. QED
    BY <2>1, <2>2 DEF IsRun
<1>4. h[n + 1] = WithFact(g[n], fact)
  BY <1>1
<1> HIDE DEF h
<1>5. WithBatch(before, longer) = h[n + 1]
  BY <1>1, <1>3, WithBatchIs
<1>6. WithBatch(before, batch) = g[n]
  BY <1>1, <1>2, WithBatchIs DEF n
<1>7. QED
  BY <1>4, <1>5, <1>6 DEF longer

-----------------------------------------------------------------------------
(* The PostgreSQL store: the inductive invariant.                          *)

\* The facts of the call of w whose statement has returned.
Upserted(w) == {tx[w].batch[i] : i \in 1..(tx[w].next - 1)}

\* a is what the facts F leave of identity k: a range, and the metadata of a fact of
\* the latest microsecond.
Reflects(a, F, k) ==
    /\ a.count > 0 /\ a.first <= a.last
    /\ \A f \in F : f.key = k => Stored(f.at) <= a.last
    /\ \E f \in F : f.key = k /\ a.last = Stored(f.at) /\ a.metadata = f.metadata

\* The rows K of r are those of the table.
Agrees(r, K) ==
    \A k \in K : /\ k \in DOMAIN r <=> k \in DOMAIN rows
                 /\ k \in DOMAIN r => r[k] = rows[k]

\* What the transaction of w makes of the rows r.
Overlaid(r, w) ==
    [k \in DOMAIN r \cup DOMAIN tx[w].writes |->
        IF k \in DOMAIN tx[w].writes THEN tx[w].writes[k] ELSE r[k]]

\* The facts of the call of w up to the next statement, as they are stored.
Prefix(w, n) == [i \in 1..n |-> Truncated(tx[w].batch[i])]

\* The rows tell of the facts that were committed and of no others.
RowsInv ==
    /\ \A f \in recorded : f.key \in DOMAIN rows
    /\ \A k \in DOMAIN rows : Reflects(rows[k], recorded, k)

\* A transaction holds the rows it has written, and has made of them what its facts
\* make of the committed ones, whatever it may be of the rows it does not hold.
HoldsInv(w) ==
    /\ ~tx[w].open => tx[w] = Closed
    /\ tx[w].open => tx[w].batch \in CallBatches /\ tx[w].next <= Len(tx[w].batch) + 1
    /\ DOMAIN tx[w].writes = {f.key : f \in Upserted(w)}
    /\ \A k \in DOMAIN tx[w].writes :
          lock[k] = w /\ Reflects(tx[w].writes[k], recorded \cup Upserted(w), k)
    /\ \A r \in Aggregates :
          Agrees(r, DOMAIN tx[w].writes)
             => WithBatch(r, Prefix(w, tx[w].next - 1)) = Overlaid(r, w)

TableInv == TableTypeOK /\ RowsInv /\ \A w \in Writer : HoldsInv(w)

-----------------------------------------------------------------------------
(* The PostgreSQL store: times.                                            *)

LEMMA Quotient ==
    ASSUME NEW a \in Nat, NEW unit \in Nat \ {0}
    PROVE  /\ a % unit \in 0..(unit - 1)
           /\ \E q \in Nat : a = unit * q + (a % unit)
<1>1. a % unit \in 0..(unit - 1)
  OBVIOUS
<1>2. a = unit * (a \div unit) + (a % unit)
  OBVIOUS
<1>3. a \div unit \in Nat
  OBVIOUS
<1>4. QED
  BY <1>1, <1>2, <1>3

LEMMA NextMultiple ==
    ASSUME NEW unit \in Nat \ {0}, NEW q \in Nat, NEW r \in Nat, q < r
    PROVE  unit * q + unit <= unit * r
<1>1. q + 1 <= r
  OBVIOUS
<1>2. unit * (q + 1) <= unit * r
  BY <1>1
<1>3. unit * (q + 1) = unit * q + unit
  OBVIOUS
<1>4. QED
  BY <1>2, <1>3

\* A truncated time is a multiple of the unit, less than one unit earlier.
LEMMA Truncates ==
    ASSUME NEW a \in Nat, NEW unit \in Nat \ {0}
    PROVE  /\ Truncate(a, unit) \in Nat
           /\ Truncate(a, unit) <= a /\ a < Truncate(a, unit) + unit
           /\ \E q \in Nat : Truncate(a, unit) = unit * q
<1>1. PICK q \in Nat : a = unit * q + (a % unit)
  BY Quotient
<1> DEFINE rest == a % unit
           whole == unit * q
<1>2. Truncate(a, unit) = a - rest
  BY DEF Truncate
<1>3. a = whole + rest /\ rest \in 0..(unit - 1) /\ whole \in Nat
  BY <1>1, Quotient
<1> HIDE DEF rest, whole
<1>4. /\ Truncate(a, unit) = whole /\ whole \in Nat
      /\ whole <= a /\ a < whole + unit
  BY <1>2, <1>3
<1>5. QED
  BY <1>4 DEF whole

\* Truncation keeps the order of times.
LEMMA TruncateMonotone ==
    ASSUME NEW a \in Nat, NEW b \in Nat, NEW unit \in Nat \ {0}, a <= b
    PROVE  Truncate(a, unit) <= Truncate(b, unit)
<1>1. PICK q \in Nat : Truncate(a, unit) = unit * q
  BY Truncates
<1>2. PICK r \in Nat : Truncate(b, unit) = unit * r
  BY Truncates
<1>3. unit * q <= a /\ b < unit * r + unit /\ unit * q \in Nat /\ unit * r \in Nat
  BY <1>1, <1>2, Truncates
<1>4. ~(r < q)
  <2> SUFFICES ASSUME r < q PROVE FALSE
    OBVIOUS
  <2>1. unit * r + unit <= unit * q
    BY NextMultiple
  <2>2. QED
    BY <1>3, <2>1
<1>5. CASE q = r
  BY <1>1, <1>2, <1>3, <1>5
<1>6. CASE q < r
  <2>1. unit * q + unit <= unit * r
    BY <1>6, NextMultiple
  <2>2. QED
    BY <1>1, <1>2, <1>3, <2>1
<1>7. QED
  BY <1>4, <1>5, <1>6

\* A fact as it is stored.
LEMMA TruncatedTyped ==
    ASSUME NEW f \in Fact
    PROVE  /\ Truncated(f) \in Fact
           /\ Truncated(f).key = f.key /\ Truncated(f).at = Stored(f.at)
           /\ Truncated(f).metadata = f.metadata
           /\ Stored(f.at) \in Nat /\ f.at \in Nat
<1>1. f.key \in Key /\ f.at \in Instant /\ f.metadata \in Metadata /\ f.at \in Nat
  BY FactTyped
<1>2. Stored(f.at) \in Instant
  BY <1>1, PrecisionAssumption
<1>3. Truncated(f) = [key |-> f.key, at |-> Stored(f.at), metadata |-> f.metadata]
  BY DEF Truncated, Fact
<1>4. Truncated(f) \in Fact
  BY <1>1, <1>2, <1>3 DEF Fact
<1>5. Stored(f.at) \in Nat
  BY <1>1, PrecisionAssumption, Truncates DEF Stored
<1>6. QED
  BY <1>1, <1>3, <1>4, <1>5

-----------------------------------------------------------------------------
(* The PostgreSQL store: one more fact.                                    *)

\* Facts with other identities do not matter.
LEMMA ReflectsOthers ==
    ASSUME NEW a, NEW F, NEW G, NEW k, Reflects(a, F, k), \A f \in G : f.key # k
    PROVE  Reflects(a, F \cup G, k)
BY DEF Reflects

LEMMA ReflectsStarted ==
    ASSUME NEW f \in Fact, NEW F, \A g \in F : g.key # f.key
    PROVE  Reflects(NewAggregate(Truncated(f)), F \cup {f}, f.key)
<1> DEFINE t == Truncated(f)
           a == NewAggregate(t)
<1>1. /\ t \in Fact /\ t.key = f.key /\ t.at = Stored(f.at) /\ t.metadata = f.metadata
      /\ Stored(f.at) \in Nat
  BY TruncatedTyped
<1> HIDE DEF t
<1>2. a.first = t.at /\ a.last = t.at /\ a.count = 1 /\ a.metadata = t.metadata
  BY <1>1, Started
<1> HIDE DEF a
<1>3. a.count > 0 /\ a.first <= a.last
  BY <1>1, <1>2
<1>4. \A g \in F \cup {f} : g.key = f.key => Stored(g.at) <= a.last
  BY <1>1, <1>2
<1>5. \E g \in F \cup {f} : g.key = f.key /\ a.last = Stored(g.at) /\ a.metadata = g.metadata
  BY <1>1, <1>2
<1>6. QED
  BY <1>3, <1>4, <1>5 DEF Reflects, a, t

LEMMA ReflectsAdded ==
    ASSUME NEW f \in Fact, NEW F \in SUBSET Fact, NEW a \in Aggregate, Reflects(a, F, f.key)
    PROVE  Reflects(Add(a, Truncated(f)), F \cup {f}, f.key)
<1> DEFINE t == Truncated(f)
           b == Add(a, t)
<1>1. /\ t \in Fact /\ t.key = f.key /\ t.at = Stored(f.at) /\ t.metadata = f.metadata
      /\ Stored(f.at) \in Nat
  BY TruncatedTyped
<1> HIDE DEF t
<1>2. /\ b \in Aggregate
      /\ a.last <= b.last /\ t.at <= b.last
      /\ a.first <= a.last => b.first <= b.last
      /\ \/ b.last = a.last /\ b.metadata = a.metadata
         \/ b.last = t.at /\ b.metadata = t.metadata
  BY <1>1, Added
<1> HIDE DEF b
<1>3. b.count > 0 /\ b.last \in Nat /\ a.last \in Nat
  BY <1>2, AggregateTyped
<1>4. b.first <= b.last
  BY <1>2 DEF Reflects
<1>5. \A g \in F \cup {f} : g.key = f.key => Stored(g.at) <= b.last
  <2>1. ASSUME NEW g \in F, g.key = f.key PROVE Stored(g.at) <= b.last
    <3>1. Stored(g.at) \in Nat
      BY TruncatedTyped
    <3>2. Stored(g.at) <= a.last
      BY <2>1 DEF Reflects
    <3>3. QED
      BY <1>2, <1>3, <3>1, <3>2
  <2>2. QED
    BY <1>1, <1>2, <2>1
<1>6. \E g \in F \cup {f} : g.key = f.key /\ b.last = Stored(g.at) /\ b.metadata = g.metadata
  <2>1. CASE b.last = a.last /\ b.metadata = a.metadata
    <3>1. PICK g \in F : g.key = f.key /\ a.last = Stored(g.at) /\ a.metadata = g.metadata
      BY DEF Reflects
    <3>2. QED
      BY <2>1, <3>1
  <2>2. CASE b.last = t.at /\ b.metadata = t.metadata
    BY <1>1, <2>2
  <2>3. QED
    BY <1>2, <2>1, <2>2
<1>7. QED
  BY <1>3, <1>4, <1>5, <1>6 DEF Reflects, b, t

-----------------------------------------------------------------------------
(* The PostgreSQL store: the steps of a transaction.                       *)

LEMMA NoAggregatesTyped ==
    /\ NoAggregates \in Aggregates
    /\ DOMAIN NoAggregates = {}
<1>1. NoAggregates \in [{} -> Aggregate] /\ DOMAIN NoAggregates = {}
  BY DEF NoAggregates
<1>2. QED
  BY <1>1 DEF Aggregates

LEMMA AggregatesAreFunctions ==
    ASSUME NEW a \in Aggregates
    PROVE  a = [k \in DOMAIN a |-> a[k]]
BY DEF Aggregates

LEMMA ClosedTyped ==
    /\ Closed \in Calls
    /\ Closed.open = FALSE /\ Closed.batch = <<>> /\ Closed.next = 1
    /\ Closed.writes = NoAggregates
BY NoAggregatesTyped DEF Closed, Calls

LEMMA BatchTyped ==
    ASSUME NEW batch \in CallBatches
    PROVE  /\ batch \in Seq(Fact) /\ Len(batch) \in Nat \ {0}
           /\ \A i \in 1..Len(batch) : batch[i] \in Fact
<1>1. batch \in Seq(Fact) /\ batch # <<>>
  BY CallAssumption
<1>2. QED
  BY <1>1

\* What an open call has come to.
LEMMA CallTyped ==
    ASSUME TableInv, NEW w \in Writer
    PROVE  /\ tx \in [Writer -> Calls] /\ tx[w] \in Calls
           /\ tx[w].writes \in Aggregates /\ tx[w].next \in Nat \ {0}
           /\ tx[w].open => /\ tx[w].batch \in CallBatches
                            /\ tx[w].next <= Len(tx[w].batch) + 1
           /\ ~tx[w].open => Upserted(w) = {}
           /\ Upserted(w) \in SUBSET Fact
           /\ rows \in Aggregates /\ recorded \in SUBSET Fact
           /\ lock \in [Key -> Writer \cup {NoWriter}]
           /\ HoldsInv(w)
<1>1. /\ tx \in [Writer -> Calls] /\ tx[w] \in Calls
      /\ rows \in Aggregates /\ recorded \in SUBSET Fact
      /\ lock \in [Key -> Writer \cup {NoWriter}] /\ HoldsInv(w)
  BY DEF TableInv, TableTypeOK
<1>2. tx[w].writes \in Aggregates /\ tx[w].next \in Nat \ {0}
  BY <1>1 DEF Calls
<1>3. /\ tx[w].open => tx[w].batch \in CallBatches /\ tx[w].next <= Len(tx[w].batch) + 1
      /\ ~tx[w].open => tx[w] = Closed
  BY <1>1 DEF HoldsInv
<1>4. ~tx[w].open => Upserted(w) = {}
  BY <1>3, ClosedTyped DEF Upserted
<1>5. ASSUME tx[w].open PROVE Upserted(w) \in SUBSET Fact
  <2>1. /\ Len(tx[w].batch) \in Nat
        /\ \A i \in 1..Len(tx[w].batch) : tx[w].batch[i] \in Fact
    BY <1>3, <1>5, BatchTyped
  <2>2. \A i \in 1..(tx[w].next - 1) : i \in 1..Len(tx[w].batch)
    BY <1>2, <1>3, <1>5, <2>1
  <2>3. QED
    BY <2>1, <2>2 DEF Upserted
<1>6. QED
  BY <1>1, <1>2, <1>3, <1>4, <1>5

\* A call that has done nothing yet, or is over.
LEMMA FreshHolds ==
    ASSUME NEW w \in Writer, tx'[w].next = 1, tx'[w].writes = NoAggregates,
           tx'[w].open => tx'[w].batch \in CallBatches,
           ~tx'[w].open => tx'[w] = Closed
    PROVE  HoldsInv(w)'
<1>1. Upserted(w)' = {} /\ DOMAIN NoAggregates = {}
  BY NoAggregatesTyped DEF Upserted
<1>2. tx'[w].open => tx'[w].next <= Len(tx'[w].batch) + 1
  <2>1. ASSUME tx'[w].open PROVE Len(tx'[w].batch) \in Nat
    BY <2>1, BatchTyped
  <2>2. QED
    BY <2>1
<1>3. ASSUME NEW r \in Aggregates
      PROVE  WithBatch(r, Prefix(w, tx[w].next - 1)') = Overlaid(r, w)'
  <2>1. Prefix(w, tx[w].next - 1)' = <<>>
    BY DEF Prefix
  <2>2. Overlaid(r, w)' = r
    BY <1>1, AggregatesAreFunctions DEF Overlaid
  <2>3. QED
    BY <2>1, <2>2, WithNoFacts
<1>4. QED
  BY <1>1, <1>2, <1>3 DEF HoldsInv

\* What others commit does not touch the rows that a call holds.
LEMMA OthersHold ==
    ASSUME TableInv, NEW w \in Writer, tx'[w] = tx[w],
           \A k \in DOMAIN tx[w].writes :
              /\ lock'[k] = w
              /\ k \in DOMAIN rows' <=> k \in DOMAIN rows
              /\ k \in DOMAIN rows => rows'[k] = rows[k],
           NEW G, recorded' = recorded \cup G,
           \A f \in G : f.key \notin DOMAIN tx[w].writes
    PROVE  HoldsInv(w)'
<1>1. HoldsInv(w)
  BY CallTyped
<1>2. Upserted(w)' = Upserted(w)
  BY DEF Upserted
<1>3. ASSUME NEW k \in DOMAIN tx[w].writes
      PROVE  Reflects(tx[w].writes[k], recorded' \cup Upserted(w), k)
  <2>1. Reflects(tx[w].writes[k], recorded \cup Upserted(w), k)
    BY <1>1 DEF HoldsInv
  <2>2. \A f \in G : f.key # k
    OBVIOUS
  <2>3. Reflects(tx[w].writes[k], (recorded \cup Upserted(w)) \cup G, k)
    BY <2>1, <2>2, ReflectsOthers
  <2>4. (recorded \cup Upserted(w)) \cup G = recorded' \cup Upserted(w)
    OBVIOUS
  <2>5. QED
    BY <2>3, <2>4
<1>4. ASSUME NEW r \in Aggregates, Agrees(r, DOMAIN tx[w].writes)'
      PROVE  WithBatch(r, Prefix(w, tx[w].next - 1)') = Overlaid(r, w)'
  <2>1. Agrees(r, DOMAIN tx[w].writes)
    BY <1>4 DEF Agrees
  <2>2. WithBatch(r, Prefix(w, tx[w].next - 1)) = Overlaid(r, w)
    BY <1>1, <2>1 DEF HoldsInv
  <2>3. Prefix(w, tx[w].next - 1)' = Prefix(w, tx[w].next - 1)
    BY DEF Prefix
  <2>4. Overlaid(r, w)' = Overlaid(r, w)
    BY DEF Overlaid
  <2>5. QED
    BY <2>2, <2>3, <2>4
<1>5. /\ ~tx'[w].open => tx'[w] = Closed
      /\ tx'[w].open => tx'[w].batch \in CallBatches /\ tx'[w].next <= Len(tx'[w].batch) + 1
      /\ DOMAIN tx'[w].writes = {f.key : f \in Upserted(w)'}
  BY <1>1, <1>2 DEF HoldsInv
<1>6. QED
  BY <1>2, <1>3, <1>4, <1>5 DEF HoldsInv

LEMMA BeginKeeps ==
    ASSUME TableInv, NEW w \in Writer, NEW batch \in CallBatches, Begin(w, batch)
    PROVE  TableInv' /\ rows' = rows
<1> DEFINE c == [Closed EXCEPT !.open = TRUE, !.batch = batch]
<1>1. /\ tx' = [tx EXCEPT ![w] = c] /\ begun' = begun + 1 /\ begun < MaxBatches
      /\ rows' = rows /\ lock' = lock /\ recorded' = recorded /\ failures' = failures
  <2>1. tx' = [tx EXCEPT ![w] = c]
    BY Zenon DEF Begin
  <2>2. /\ begun' = begun + 1 /\ begun < MaxBatches
        /\ rows' = rows /\ lock' = lock /\ recorded' = recorded /\ failures' = failures
    BY DEF Begin
  <2>3. QED
    BY <2>1, <2>2
<1>2. /\ c.open = TRUE /\ c.batch = batch /\ c.next = 1 /\ c.writes = NoAggregates
      /\ c \in Calls
  <2>1. c.open = TRUE /\ c.batch = batch /\ c.next = 1 /\ c.writes = NoAggregates
    BY DEF Closed
  <2>2. c \in Calls
    <3> DEFINE d == [Closed EXCEPT !.open = TRUE]
    <3>1. c = [d EXCEPT !.batch = batch]
      BY Zenon
    <3>2. d = [open |-> TRUE, batch |-> <<>>, next |-> 1, writes |-> NoAggregates]
      <4>1. Closed = [open |-> FALSE, batch |-> <<>>, next |-> 1, writes |-> NoAggregates]
        BY DEF Closed
      <4>2. d = [Closed EXCEPT !.open = TRUE]
        OBVIOUS
      <4> HIDE DEF d
      <4>3. QED
        BY <4>1, <4>2
    <3> HIDE DEF c, d
    <3>3. c = [open |-> TRUE, batch |-> batch, next |-> 1, writes |-> NoAggregates]
      BY <3>1, <3>2
    <3>4. NoAggregates \in Aggregates
      BY NoAggregatesTyped
    <3>5. QED
      BY <3>3, <3>4 DEF Calls
  <2>3. QED
    BY <2>1, <2>2
<1> HIDE DEF c
<1>3. tx \in [Writer -> Calls]
  BY CallTyped
<1>4. TableTypeOK'
  <2>1. begun' \in 0..MaxBatches
    BY <1>1, CallAssumption DEF TableInv, TableTypeOK
  <2>2. tx' \in [Writer -> Calls]
    BY <1>1, <1>2, <1>3
  <2>3. QED
    BY <1>1, <2>1, <2>2 DEF TableInv, TableTypeOK
<1>5. RowsInv'
  BY <1>1 DEF TableInv, RowsInv
<1>6. ASSUME NEW v \in Writer PROVE HoldsInv(v)'
  <2>1. CASE v = w
    BY <1>1, <1>2, <1>3, <2>1, FreshHolds
  <2>2. CASE v # w
    <3>1. tx'[v] = tx[v]
      BY <1>1, <1>3, <2>2
    <3>2. \A k \in DOMAIN tx[v].writes :
             /\ lock'[k] = v
             /\ k \in DOMAIN rows' <=> k \in DOMAIN rows
             /\ k \in DOMAIN rows => rows'[k] = rows[k]
      BY <1>1, CallTyped DEF HoldsInv
    <3> DEFINE G == {}
    <3>3. recorded' = recorded \cup G
      BY <1>1
    <3>4. \A f \in G : f.key \notin DOMAIN tx[v].writes
      OBVIOUS
    <3> HIDE DEF G
    <3>5. QED
      BY <3>1, <3>2, <3>3, <3>4, OthersHold
  <2>3. QED
    BY <2>1, <2>2
<1>7. QED
  BY <1>1, <1>4, <1>5, <1>6 DEF TableInv

\* When a transaction ends, what it wrote is gone, and what others hold is not.
LEMMA ReleaseHolds ==
    ASSUME TableInv, NEW w \in Writer, Release(w),
           NEW G, recorded' = recorded \cup G,
           \A f \in G : f.key \in DOMAIN tx[w].writes,
           \A k \in (DOMAIN rows \cup DOMAIN rows') \ DOMAIN tx[w].writes :
              k \in DOMAIN rows /\ k \in DOMAIN rows' /\ rows'[k] = rows[k]
    PROVE  /\ \A v \in Writer : HoldsInv(v)'
           /\ tx' \in [Writer -> Calls]
           /\ lock' \in [Key -> Writer \cup {NoWriter}]
<1>1. /\ tx' = [tx EXCEPT ![w] = Closed]
      /\ lock' = [k \in Key |-> IF lock[k] = w THEN NoWriter ELSE lock[k]]
  BY DEF Release
<1>2. tx \in [Writer -> Calls] /\ lock \in [Key -> Writer \cup {NoWriter}]
  BY CallTyped
<1>3. tx' \in [Writer -> Calls] /\ lock' \in [Key -> Writer \cup {NoWriter}]
  BY <1>1, <1>2, ClosedTyped
<1>4. ASSUME NEW v \in Writer PROVE HoldsInv(v)'
  <2>1. CASE v = w
    BY <1>1, <1>2, <2>1, ClosedTyped, FreshHolds
  <2>2. CASE v # w
    <3>1. tx'[v] = tx[v]
      BY <1>1, <1>2, <2>2
    <3>2. ASSUME NEW k \in DOMAIN tx[v].writes
          PROVE  /\ lock'[k] = v
                 /\ k \notin DOMAIN tx[w].writes
      <4>1. lock[k] = v
        BY CallTyped DEF HoldsInv
      <4>2. k \in Key
        <5>1. tx[v].writes \in Aggregates
          BY CallTyped
        <5>2. QED
          BY <5>1, AggregatesTyped
      <4>3. k \in DOMAIN tx[w].writes => lock[k] = w
        BY CallTyped DEF HoldsInv
      <4>4. QED
        BY <1>1, <2>2, <4>1, <4>2, <4>3
    <3>3. \A k \in DOMAIN tx[v].writes :
             /\ lock'[k] = v
             /\ k \in DOMAIN rows' <=> k \in DOMAIN rows
             /\ k \in DOMAIN rows => rows'[k] = rows[k]
      BY <3>2
    <3>4. \A f \in G : f.key \notin DOMAIN tx[v].writes
      BY <3>2
    <3>5. QED
      BY <3>1, <3>3, <3>4, OthersHold
  <2>3. QED
    BY <2>1, <2>2
<1>5. QED
  BY <1>3, <1>4

LEMMA AbortKeeps ==
    ASSUME TableInv, NEW w \in Writer, Rollback(w) \/ DeadlockVictim(w)
    PROVE  TableInv' /\ rows' = rows
<1>1. /\ Release(w) /\ rows' = rows /\ recorded' = recorded /\ begun' = begun
      /\ failures' \in 0..MaxFailures
  BY CallAssumption DEF Rollback, DeadlockVictim, TableInv, TableTypeOK
<1> DEFINE G == {}
<1>2. recorded' = recorded \cup G
  BY <1>1
<1>3. /\ \A v \in Writer : HoldsInv(v)'
      /\ tx' \in [Writer -> Calls]
      /\ lock' \in [Key -> Writer \cup {NoWriter}]
  <2>1. Release(w)
    BY <1>1
  <2>2. \A f \in G : f.key \in DOMAIN tx[w].writes
    OBVIOUS
  <2> HIDE DEF G
  <2>3. \A k \in (DOMAIN rows \cup DOMAIN rows') \ DOMAIN tx[w].writes :
           k \in DOMAIN rows /\ k \in DOMAIN rows' /\ rows'[k] = rows[k]
    BY <1>1
  <2>4. QED
    BY <1>2, <2>1, <2>2, <2>3, ReleaseHolds
<1>4. TableTypeOK'
  BY <1>1, <1>3 DEF TableInv, TableTypeOK
<1>5. RowsInv'
  BY <1>1 DEF TableInv, RowsInv
<1>6. QED
  BY <1>1, <1>3, <1>4, <1>5 DEF TableInv

\* What a transaction sees.
LEMMA VisibleRows ==
    ASSUME TableInv, NEW w \in Writer
    PROVE  /\ Visible(w) \in Aggregates
           /\ Visible(w) = Overlaid(rows, w)
           /\ DOMAIN Visible(w) = DOMAIN rows \cup DOMAIN tx[w].writes
           /\ \A k \in DOMAIN tx[w].writes : Visible(w)[k] = tx[w].writes[k]
           /\ \A k \in DOMAIN rows \ DOMAIN tx[w].writes : Visible(w)[k] = rows[k]
           /\ \A k \in DOMAIN Visible(w) :
                 Reflects(Visible(w)[k], recorded \cup Upserted(w), k)
<1>1. rows \in Aggregates /\ tx[w].writes \in Aggregates
  BY CallTyped
<1>2. /\ DOMAIN rows \subseteq Key /\ \A k \in DOMAIN rows : rows[k] \in Aggregate
      /\ DOMAIN tx[w].writes \subseteq Key
      /\ \A k \in DOMAIN tx[w].writes : tx[w].writes[k] \in Aggregate
  BY <1>1, AggregatesTyped
<1>3. /\ DOMAIN Visible(w) = DOMAIN rows \cup DOMAIN tx[w].writes
      /\ \A k \in DOMAIN tx[w].writes : Visible(w)[k] = tx[w].writes[k]
      /\ \A k \in DOMAIN rows \ DOMAIN tx[w].writes : Visible(w)[k] = rows[k]
      /\ Visible(w) = [k \in DOMAIN Visible(w) |-> Visible(w)[k]]
  BY DEF Visible
<1>4. Visible(w) \in Aggregates
  <2>1. DOMAIN Visible(w) \in SUBSET Key
    BY <1>2, <1>3
  <2>2. Visible(w) \in [DOMAIN Visible(w) -> Aggregate]
    BY <1>2, <1>3
  <2>3. QED
    BY <2>1, <2>2 DEF Aggregates
<1>5. ASSUME NEW k \in DOMAIN Visible(w)
      PROVE  Reflects(Visible(w)[k], recorded \cup Upserted(w), k)
  <2>1. HoldsInv(w) /\ RowsInv
    BY CallTyped DEF TableInv
  <2>2. CASE k \in DOMAIN tx[w].writes
    BY <1>3, <2>1, <2>2 DEF HoldsInv
  <2>3. CASE k \notin DOMAIN tx[w].writes
    <3>1. Visible(w)[k] = rows[k] /\ Reflects(rows[k], recorded, k)
      BY <1>3, <2>1, <2>3 DEF RowsInv
    <3>2. \A f \in Upserted(w) : f.key # k
      BY <2>1, <2>3 DEF HoldsInv
    <3>3. QED
      BY <3>1, <3>2, ReflectsOthers
  <2>4. QED
    BY <2>2, <2>3
<1>6. Visible(w) = Overlaid(rows, w)
  BY DEF Visible, Overlaid
<1>7. QED
  BY <1>3, <1>4, <1>5, <1>6

LEMMA PrefixTyped ==
    ASSUME TableInv, NEW w \in Writer, tx[w].open, NEW n \in 0..Len(tx[w].batch)
    PROVE  /\ Prefix(w, n) \in Seq(Fact)
           /\ n < Len(tx[w].batch)
                => Prefix(w, n + 1) = Append(Prefix(w, n), Truncated(tx[w].batch[n + 1]))
<1>1. /\ Len(tx[w].batch) \in Nat
      /\ \A i \in 1..Len(tx[w].batch) : tx[w].batch[i] \in Fact
  BY CallTyped, BatchTyped
<1>2. \A i \in 1..Len(tx[w].batch) : Truncated(tx[w].batch[i]) \in Fact
  BY <1>1, TruncatedTyped
<1> DEFINE t(i) == Truncated(tx[w].batch[i])
           m == Len(tx[w].batch)
           a == [i \in 1..n |-> t(i)]
<1>3. m \in Nat /\ n \in 0..m /\ \A i \in 1..m : t(i) \in Fact
  BY <1>1, <1>2
<1> HIDE DEF t, m
<1>4. a \in Seq(Fact) /\ Len(a) = n
  <2>1. a \in [1..n -> Fact]
    BY <1>3
  <2>2. QED
    BY <1>3, <2>1
<1>5. n < m => [i \in 1..(n + 1) |-> t(i)] = Append(a, t(n + 1))
  <2>1. ASSUME n < m PROVE [i \in 1..(n + 1) |-> t(i)] = Append(a, t(n + 1))
    <3> DEFINE b == [i \in 1..(n + 1) |-> t(i)]
    <3>1. b \in [1..(n + 1) -> Fact]
      BY <1>3, <2>1
    <3>2. b \in Seq(Fact) /\ Len(b) = n + 1
      BY <1>3, <3>1
    <3>3. Append(a, t(n + 1)) \in Seq(Fact) /\ Len(Append(a, t(n + 1))) = n + 1
      BY <1>3, <1>4, <2>1
    <3>4. ASSUME NEW i \in 1..(n + 1) PROVE b[i] = Append(a, t(n + 1))[i]
      <4>1. CASE i = n + 1
        BY <1>3, <1>4, <4>1
      <4>2. CASE i # n + 1
        <5>1. i \in 1..n
          BY <1>3, <4>2
        <5>2. a[i] = t(i) /\ b[i] = t(i)
          BY <5>1
        <5>3. Append(a, t(n + 1))[i] = a[i]
          BY <1>3, <1>4, <2>1, <5>1
        <5>4. QED
          BY <5>2, <5>3
      <4>3. QED
        BY <4>1, <4>2
    <3> HIDE DEF a, b
    <3>5. QED
      BY <3>2, <3>3, <3>4 DEF b
  <2>2. QED
    BY <2>1
<1>6. QED
  BY <1>4, <1>5 DEF Prefix, t, m

\* A statement of a transaction: its fact is added to the row that the transaction
\* sees, and the row is its own from now on.
LEMMA UpsertKeeps ==
    ASSUME TableInv, NEW w \in Writer, UpsertObservation(w)
    PROVE  TableInv' /\ rows' = rows
<1> DEFINE n == tx[w].next
           raw == tx[w].batch[n]
           fact == NextFact(w)
           id == fact.key
           seen == WithFact(Visible(w), fact)
           written == [k \in DOMAIN tx[w].writes \cup {id} |-> seen[k]]
<1>1. /\ tx[w].open /\ n <= Len(tx[w].batch) /\ lock[id] \in {w, NoWriter}
      /\ rows' = rows /\ recorded' = recorded /\ begun' = begun /\ failures' = failures
      /\ lock' = [lock EXCEPT ![id] = w]
  BY DEF UpsertObservation, Blocked, MoreFacts
<1>2. /\ tx \in [Writer -> Calls] /\ tx[w] \in Calls /\ n \in Nat \ {0}
      /\ tx[w].batch \in CallBatches /\ Len(tx[w].batch) \in Nat
      /\ tx[w].writes \in Aggregates
      /\ lock \in [Key -> Writer \cup {NoWriter}]
      /\ HoldsInv(w) /\ RowsInv
      /\ Upserted(w) \in SUBSET Fact /\ recorded \in SUBSET Fact
  BY <1>1, CallTyped, BatchTyped DEF TableInv
<1>3. raw \in Fact /\ fact = Truncated(raw) /\ fact \in Fact /\ id = raw.key /\ id \in Key
  <2>1. raw \in Fact
    BY <1>1, <1>2, BatchTyped
  <2>2. fact = Truncated(raw)
    BY DEF NextFact
  <2>3. QED
    BY <2>1, <2>2, TruncatedTyped, FactTyped
<1>4. /\ DOMAIN seen = DOMAIN Visible(w) \cup {id}
      /\ \A k \in DOMAIN Visible(w) \ {id} : seen[k] = Visible(w)[k]
      /\ seen[id] = IF id \in DOMAIN Visible(w) THEN Add(Visible(w)[id], fact)
                    ELSE NewAggregate(fact)
      /\ seen \in Aggregates
  <2>1. /\ DOMAIN seen = DOMAIN Visible(w) \cup {id}
        /\ \A k \in DOMAIN Visible(w) \ {id} : seen[k] = Visible(w)[k]
        /\ seen[id] = IF id \in DOMAIN Visible(w) THEN Add(Visible(w)[id], fact)
                      ELSE NewAggregate(fact)
    BY OneMoreFact, Zenon
  <2>2. Visible(w) \in Aggregates
    BY VisibleRows
  <2>3. seen \in Aggregates
    <3> HIDE DEF fact
    <3>1. QED
      BY <1>3, <2>2, WithFactTyped
  <2>4. QED
    BY <2>1, <2>3
<1>5. /\ DOMAIN written = DOMAIN tx[w].writes \cup {id}
      /\ \A k \in DOMAIN written : written[k] = seen[k]
      /\ \A k \in DOMAIN tx[w].writes \ {id} : written[k] = tx[w].writes[k]
      /\ written[id] = IF id \in DOMAIN Visible(w) THEN Add(Visible(w)[id], fact)
                       ELSE NewAggregate(fact)
      /\ written \in Aggregates
  <2>1. /\ DOMAIN written = DOMAIN tx[w].writes \cup {id}
        /\ \A k \in DOMAIN written : written[k] = seen[k]
        /\ written = [k \in DOMAIN written |-> written[k]]
    OBVIOUS
  <2> HIDE DEF written, seen
  <2>2. \A k \in DOMAIN tx[w].writes : k \in DOMAIN Visible(w) /\ Visible(w)[k] = tx[w].writes[k]
    BY VisibleRows
  <2>3. DOMAIN written \in SUBSET Key
    BY <1>2, <1>3, <2>1, AggregatesTyped
  <2>4. \A k \in DOMAIN written : written[k] \in Aggregate
    BY <1>4, <2>1, <2>2, AggregatesTyped
  <2>5. written \in Aggregates
    <3>1. written \in [DOMAIN written -> Aggregate]
      BY <2>1, <2>4
    <3>2. QED
      BY <2>3, <3>1 DEF Aggregates
  <2>6. QED
    BY <1>4, <2>1, <2>2, <2>5
<1>6. /\ tx'[w].open = TRUE /\ tx'[w].batch = tx[w].batch
      /\ tx'[w].next = n + 1 /\ tx'[w].writes = written
      /\ \A v \in Writer \ {w} : tx'[v] = tx[v]
      /\ tx' \in [Writer -> Calls]
  <2>1. tx' = [tx EXCEPT ![w].next = @ + 1,
                         ![w].writes = [k \in DOMAIN @ \cup {fact.key} |->
                                           WithFact(Visible(w), fact)[k]]]
    BY Zenon DEF UpsertObservation
  <2> DEFINE first == [tx EXCEPT ![w].next = @ + 1]
  <2>2. /\ first \in [Writer -> Calls]
        /\ first[w].open = TRUE /\ first[w].batch = tx[w].batch
        /\ first[w].next = n + 1 /\ first[w].writes = tx[w].writes
        /\ \A v \in Writer \ {w} : first[v] = tx[v]
    <3>1. first \in [Writer -> Calls]
      BY <1>2 DEF Calls
    <3>2. QED
      BY <1>1, <1>2, <3>1 DEF Calls
  <2>3. tx' = [first EXCEPT ![w].writes = written]
    BY <1>1, <1>2, <2>1, <2>2
  <2> HIDE DEF first, written
  <2>4. QED
    BY <1>5, <2>2, <2>3 DEF Calls
<1> HIDE DEF written, seen, fact, id
<1>7. Upserted(w)' = Upserted(w) \cup {raw}
  <2> DEFINE b == tx[w].batch
  <2>1. Upserted(w)' = {b[i] : i \in 1..n}
    <3>1. (n + 1) - 1 = n
      BY <1>2
    <3>2. QED
      BY <1>6, <3>1 DEF Upserted
  <2>2. Upserted(w) = {b[i] : i \in 1..(n - 1)}
    BY DEF Upserted
  <2>3. 1..n = 1..(n - 1) \cup {n}
    BY <1>2
  <2>4. QED
    BY <2>1, <2>2, <2>3
<1> DEFINE F == recorded \cup Upserted(w)
<1>8. /\ DOMAIN Visible(w) = DOMAIN rows \cup DOMAIN tx[w].writes
      /\ \A k \in DOMAIN Visible(w) : Reflects(Visible(w)[k], F, k) /\ Visible(w)[k] \in Aggregate
      /\ \A g \in F : g.key \in DOMAIN Visible(w)
      /\ F \in SUBSET Fact
  <2>1. \A g \in F : g.key \in DOMAIN Visible(w)
    <3>1. \A g \in recorded : g.key \in DOMAIN rows
      BY <1>2 DEF RowsInv
    <3>2. \A g \in Upserted(w) : g.key \in DOMAIN tx[w].writes
      <4>1. DOMAIN tx[w].writes = {g.key : g \in Upserted(w)}
        BY <1>2 DEF HoldsInv
      <4>2. QED
        BY <4>1
    <3>3. DOMAIN Visible(w) = DOMAIN rows \cup DOMAIN tx[w].writes
      BY VisibleRows
    <3>4. QED
      BY <3>1, <3>2, <3>3
  <2>2. QED
    BY <1>2, <2>1, VisibleRows, AggregatesTyped
<1> HIDE DEF raw
<1>9. Reflects(written[id], F \cup {raw}, id)
  <2> HIDE DEF F
  <2>1. CASE id \in DOMAIN Visible(w)
    BY <1>3, <1>5, <1>8, <2>1, ReflectsAdded
  <2>2. CASE id \notin DOMAIN Visible(w)
    BY <1>3, <1>5, <1>8, <2>2, ReflectsStarted
  <2>3. QED
    BY <2>1, <2>2
<1>10. ASSUME NEW k \in DOMAIN tx[w].writes \ {id}
       PROVE  Reflects(written[k], F \cup {raw}, k)
  <2>1. written[k] = tx[w].writes[k] /\ Reflects(tx[w].writes[k], F, k)
    BY <1>2, <1>5 DEF HoldsInv
  <2>2. \A f \in {raw} : f.key # k
    BY <1>3
  <2> HIDE DEF F
  <2>3. QED
    BY <2>1, <2>2, ReflectsOthers
<1>11. ASSUME NEW r \in Aggregates, Agrees(r, DOMAIN written)
       PROVE  WithFact(Overlaid(r, w), fact) = Overlaid(r, w)'
  <2> DEFINE o == Overlaid(r, w)
             p == Overlaid(r, w)'
             q == WithFact(o, fact)
  <2>1. /\ DOMAIN o = DOMAIN r \cup DOMAIN tx[w].writes
        /\ \A k \in DOMAIN tx[w].writes : o[k] = tx[w].writes[k]
        /\ \A k \in DOMAIN r \ DOMAIN tx[w].writes : o[k] = r[k]
    BY DEF Overlaid
  <2>2. /\ p = [k \in DOMAIN p |-> p[k]]
        /\ DOMAIN p = DOMAIN r \cup DOMAIN written
        /\ \A k \in DOMAIN written : p[k] = written[k]
        /\ \A k \in DOMAIN r \ DOMAIN written : p[k] = r[k]
    BY <1>6 DEF Overlaid
  <2> HIDE DEF o, p
  <2>3. /\ DOMAIN q = DOMAIN o \cup {id}
        /\ \A k \in DOMAIN o \ {id} : q[k] = o[k]
        /\ q[id] = IF id \in DOMAIN o THEN Add(o[id], fact) ELSE NewAggregate(fact)
        /\ q = [k \in DOMAIN q |-> q[k]]
    BY OneMoreFact DEF id
  <2> HIDE DEF q
  <2>4. /\ id \in DOMAIN o <=> id \in DOMAIN Visible(w)
        /\ id \in DOMAIN o => o[id] = Visible(w)[id]
    <3>1. id \in DOMAIN written
      BY <1>5
    <3>2. /\ id \in DOMAIN r <=> id \in DOMAIN rows
          /\ id \in DOMAIN r => r[id] = rows[id]
      BY <1>11, <3>1 DEF Agrees
    <3>3. QED
      BY <2>1, <3>2, VisibleRows
  <2>5. DOMAIN q = DOMAIN p
    BY <1>5, <2>1, <2>2, <2>3
  <2>6. ASSUME NEW k \in DOMAIN q PROVE q[k] = p[k]
    <3>1. CASE k = id
      BY <1>5, <2>2, <2>3, <2>4, <3>1
    <3>2. CASE k # id /\ k \in DOMAIN tx[w].writes
      BY <1>5, <2>1, <2>2, <2>3, <3>2
    <3>3. CASE k # id /\ k \notin DOMAIN tx[w].writes
      BY <1>5, <2>1, <2>2, <2>3, <3>3
    <3>4. QED
      BY <3>1, <3>2, <3>3
  <2>7. QED
    <3>1. q = p
      BY <2>2, <2>3, <2>5, <2>6
    <3>2. QED
      BY <3>1 DEF p, q, o
<1>12. ASSUME NEW r \in Aggregates, Agrees(r, DOMAIN written)
       PROVE  WithBatch(r, Prefix(w, tx[w].next - 1)') = Overlaid(r, w)'
  <2>1. Agrees(r, DOMAIN written)
    BY <1>12
  <2>2. Agrees(r, DOMAIN tx[w].writes)
    BY <1>5, <2>1 DEF Agrees
  <2>3. WithBatch(r, Prefix(w, n - 1)) = Overlaid(r, w)
    BY <1>2, <2>2 DEF HoldsInv
  <2>4. Prefix(w, tx[w].next - 1)' = Prefix(w, n)
    <3>1. (n + 1) - 1 = n
      BY <1>2
    <3>2. QED
      BY <1>6, <3>1 DEF Prefix
  <2>5. /\ Prefix(w, n - 1) \in Seq(Fact)
        /\ Prefix(w, n) = Append(Prefix(w, n - 1), fact)
    <3>1. n - 1 \in 0..Len(tx[w].batch) /\ n - 1 < Len(tx[w].batch) /\ (n - 1) + 1 = n
      BY <1>1, <1>2
    <3>2. Truncated(tx[w].batch[n]) = fact
      BY <1>3 DEF raw
    <3>3. QED
      BY <1>1, <3>1, <3>2, PrefixTyped
  <2>6. WithBatch(r, Prefix(w, n)) = WithFact(Overlaid(r, w), fact)
    BY <1>3, <2>3, <2>5, WithLastFact
  <2>7. QED
    BY <1>11, <2>1, <2>4, <2>6
<1>13. HoldsInv(w)'
  <2>1. tx'[w].next <= Len(tx'[w].batch) + 1
    BY <1>1, <1>2, <1>6
  <2>2. DOMAIN tx'[w].writes = {f.key : f \in Upserted(w)'}
    BY <1>2, <1>3, <1>5, <1>6, <1>7 DEF HoldsInv
  <2>3. ASSUME NEW k \in DOMAIN tx'[w].writes
        PROVE  lock'[k] = w /\ Reflects(tx'[w].writes[k], recorded' \cup Upserted(w)', k)
    <3>1. F \cup {raw} = recorded' \cup Upserted(w)'
      BY <1>1, <1>7
    <3>2. CASE k = id
      BY <1>1, <1>2, <1>3, <1>6, <1>9, <3>1, <3>2
    <3>3. CASE k # id
      <4>1. k \in DOMAIN tx[w].writes \ {id} /\ k \in Key
        BY <1>2, <1>5, <1>6, <3>3, AggregatesTyped
      <4>2. lock'[k] = w
        BY <1>1, <1>2, <4>1 DEF HoldsInv
      <4>3. QED
        BY <1>6, <1>10, <3>1, <4>1, <4>2
    <3>4. QED
      BY <3>2, <3>3
  <2>4. ASSUME NEW r \in Aggregates, Agrees(r, DOMAIN tx[w].writes)'
        PROVE  WithBatch(r, Prefix(w, tx[w].next - 1)') = Overlaid(r, w)'
    <3>1. Agrees(r, DOMAIN written)
      BY <1>1, <1>6, <2>4 DEF Agrees
    <3>2. QED
      BY <1>12, <3>1
  <2>5. QED
    BY <1>2, <1>6, <2>1, <2>2, <2>3, <2>4 DEF HoldsInv
<1>14. ASSUME NEW v \in Writer, v # w PROVE HoldsInv(v)'
  <2>1. tx'[v] = tx[v]
    BY <1>6, <1>14
  <2>2. ASSUME NEW k \in DOMAIN tx[v].writes PROVE lock'[k] = v
    <3>1. lock[k] = v /\ k \in Key
      BY CallTyped, AggregatesTyped DEF HoldsInv
    <3>2. k # id
      BY <1>1, <1>14, <3>1, CallAssumption
    <3>3. QED
      BY <1>1, <1>2, <3>1, <3>2
  <2>3. \A k \in DOMAIN tx[v].writes :
           /\ lock'[k] = v
           /\ k \in DOMAIN rows' <=> k \in DOMAIN rows
           /\ k \in DOMAIN rows => rows'[k] = rows[k]
    BY <1>1, <2>2
  <2> DEFINE G == {}
  <2>4. recorded' = recorded \cup G
    BY <1>1
  <2>5. \A f \in G : f.key \notin DOMAIN tx[v].writes
    OBVIOUS
  <2> HIDE DEF G
  <2>6. QED
    BY <2>1, <2>3, <2>4, <2>5, OthersHold
<1>15. TableTypeOK'
  <2>1. lock' \in [Key -> Writer \cup {NoWriter}]
    BY <1>1, <1>2, <1>3
  <2>2. QED
    BY <1>1, <1>6, <2>1 DEF TableInv, TableTypeOK
<1>16. RowsInv'
  BY <1>1 DEF TableInv, RowsInv
<1>17. QED
  BY <1>1, <1>13, <1>14, <1>15, <1>16 DEF TableInv

\* A commit records the whole batch of the transaction, as if it had come alone.
LEMMA CommitKeeps ==
    ASSUME TableInv, NEW w \in Writer, Commit(w)
    PROVE  /\ TableInv'
           /\ tx[w].batch \in CallBatches
           /\ rows' = WithBatch(rows, TruncatedBatch(tx[w].batch))
<1> DEFINE b == tx[w].batch
           n == tx[w].next
           all == {b[i] : i \in 1..Len(b)}
<1>1. /\ tx[w].open /\ ~(n <= Len(b))
      /\ rows' = Visible(w) /\ Release(w)
      /\ begun' = begun /\ failures' = failures
  BY DEF Commit, MoreFacts
<1>2. recorded' = recorded \cup all
  BY DEF Commit, Range
<1>3. /\ b \in CallBatches /\ n - 1 = Len(b)
      /\ HoldsInv(w) /\ RowsInv
      /\ Upserted(w) \in SUBSET Fact /\ recorded \in SUBSET Fact
      /\ rows \in Aggregates
  <2>1. /\ b \in CallBatches /\ n <= Len(b) + 1 /\ n \in Nat
        /\ HoldsInv(w) /\ RowsInv
        /\ Upserted(w) \in SUBSET Fact /\ recorded \in SUBSET Fact
        /\ rows \in Aggregates
    BY <1>1, CallTyped DEF TableInv
  <2>2. Len(b) \in Nat
    BY <2>1, BatchTyped
  <2>3. QED
    BY <1>1, <2>1, <2>2
<1>4. all = Upserted(w)
  BY <1>3 DEF Upserted
<1> HIDE DEF all
<1>5. \A f \in all : f.key \in DOMAIN tx[w].writes
  <2>1. DOMAIN tx[w].writes = {f.key : f \in Upserted(w)}
    BY <1>3 DEF HoldsInv
  <2>2. QED
    BY <1>4, <2>1
<1>6. /\ DOMAIN rows' = DOMAIN rows \cup DOMAIN tx[w].writes
      /\ \A k \in DOMAIN rows \ DOMAIN tx[w].writes : rows'[k] = rows[k]
      /\ \A k \in DOMAIN rows' : Reflects(rows'[k], recorded', k)
      /\ rows' \in Aggregates
  BY <1>1, <1>2, <1>4, VisibleRows
<1>7. /\ \A v \in Writer : HoldsInv(v)'
      /\ tx' \in [Writer -> Calls]
      /\ lock' \in [Key -> Writer \cup {NoWriter}]
  <2>1. \A k \in (DOMAIN rows \cup DOMAIN rows') \ DOMAIN tx[w].writes :
           k \in DOMAIN rows /\ k \in DOMAIN rows' /\ rows'[k] = rows[k]
    BY <1>6
  <2>2. Release(w)
    BY <1>1
  <2>3. QED
    BY <1>2, <1>5, <2>1, <2>2, ReleaseHolds
<1>8. RowsInv'
  <2>1. \A f \in recorded' : f.key \in DOMAIN rows'
    BY <1>2, <1>3, <1>5, <1>6 DEF RowsInv
  <2>2. QED
    BY <1>6, <2>1 DEF RowsInv
<1>9. TableTypeOK'
  BY <1>1, <1>2, <1>3, <1>4, <1>6, <1>7 DEF TableInv, TableTypeOK
<1>10. rows' = WithBatch(rows, TruncatedBatch(b))
  <2>1. Agrees(rows, DOMAIN tx[w].writes)
    BY DEF Agrees
  <2>2. WithBatch(rows, Prefix(w, n - 1)) = Overlaid(rows, w)
    BY <1>3, <2>1 DEF HoldsInv
  <2>3. Prefix(w, n - 1) = TruncatedBatch(b)
    BY <1>3 DEF Prefix, TruncatedBatch
  <2>4. QED
    BY <1>1, <2>2, <2>3, VisibleRows
<1>11. QED
  BY <1>3, <1>7, <1>8, <1>9, <1>10 DEF TableInv

LEMMA TableInitially ==
    ASSUME TableInit
    PROVE  TableInv
<1>1. /\ rows = NoAggregates /\ lock = [k \in Key |-> NoWriter]
      /\ tx = [w \in Writer |-> Closed] /\ recorded = {} /\ begun = 0 /\ failures = 0
  BY DEF TableInit
<1>2. TableTypeOK
  <2>1. rows \in Aggregates
    BY <1>1, NoAggregatesTyped
  <2>2. tx \in [Writer -> Calls]
    BY <1>1, ClosedTyped
  <2>3. begun \in 0..MaxBatches /\ failures \in 0..MaxFailures
    BY <1>1, CallAssumption
  <2>4. QED
    BY <1>1, <2>1, <2>2, <2>3 DEF TableTypeOK
<1>3. RowsInv
  BY <1>1, NoAggregatesTyped DEF RowsInv
<1>4. ASSUME NEW w \in Writer PROVE HoldsInv(w)
  <2>1. tx[w] = Closed
    BY <1>1
  <2>2. /\ tx[w].open = FALSE /\ tx[w].next = 1 /\ tx[w].writes = NoAggregates
        /\ DOMAIN tx[w].writes = {}
    BY <2>1, ClosedTyped, NoAggregatesTyped
  <2>3. Upserted(w) = {}
    BY <2>2 DEF Upserted
  <2>4. ASSUME NEW r \in Aggregates
        PROVE  WithBatch(r, Prefix(w, tx[w].next - 1)) = Overlaid(r, w)
    <3>1. Prefix(w, tx[w].next - 1) = <<>>
      BY <2>2 DEF Prefix
    <3>2. Overlaid(r, w) = r
      BY <2>2, AggregatesAreFunctions DEF Overlaid
    <3>3. QED
      BY <3>1, <3>2, WithNoFacts
  <2>5. QED
    BY <2>1, <2>2, <2>3, <2>4 DEF HoldsInv
<1>5. QED
  BY <1>2, <1>3, <1>4 DEF TableInv

LEMMA TableInductive ==
    ASSUME TableInv, [TableNext]_tableVars
    PROVE  /\ TableInv'
           /\ \/ rows' = rows
              \/ \E batch \in CallBatches : rows' = WithBatch(rows, TruncatedBatch(batch))
<1>1. ASSUME NEW w \in Writer, NEW batch \in CallBatches, Begin(w, batch)
      PROVE  TableInv' /\ rows' = rows
  BY <1>1, BeginKeeps
<1>2. ASSUME NEW w \in Writer, UpsertObservation(w)
      PROVE  TableInv' /\ rows' = rows
  BY <1>2, UpsertKeeps
<1>3. ASSUME NEW w \in Writer, Commit(w)
      PROVE  /\ TableInv'
             /\ \E batch \in CallBatches : rows' = WithBatch(rows, TruncatedBatch(batch))
  BY <1>3, CommitKeeps
<1>4. ASSUME NEW w \in Writer, Rollback(w) \/ DeadlockVictim(w)
      PROVE  TableInv' /\ rows' = rows
  BY <1>4, AbortKeeps
<1>5. CASE UNCHANGED tableVars
  <2>1. /\ rows' = rows /\ lock' = lock /\ tx' = tx /\ recorded' = recorded
        /\ begun' = begun /\ failures' = failures
    BY <1>5 DEF tableVars
  <2>2. TableTypeOK' /\ RowsInv'
    BY <2>1 DEF TableInv, TableTypeOK, RowsInv
  <2>3. ASSUME NEW w \in Writer PROVE HoldsInv(w)'
    <3>1. tx'[w] = tx[w]
      BY <2>1
    <3>2. \A k \in DOMAIN tx[w].writes :
             /\ lock'[k] = w
             /\ k \in DOMAIN rows' <=> k \in DOMAIN rows
             /\ k \in DOMAIN rows => rows'[k] = rows[k]
      BY <2>1, CallTyped DEF HoldsInv
    <3> DEFINE G == {}
    <3>3. recorded' = recorded \cup G
      BY <2>1
    <3>4. \A f \in G : f.key \notin DOMAIN tx[w].writes
      OBVIOUS
    <3> HIDE DEF G
    <3>5. QED
      BY <3>1, <3>2, <3>3, <3>4, OthersHold
  <2>4. QED
    BY <2>1, <2>2, <2>3 DEF TableInv
<1>6. QED
  BY <1>1, <1>2, <1>3, <1>4, <1>5, Zenon DEF TableNext

-----------------------------------------------------------------------------
(* The PostgreSQL store: the theorems.                                     *)

\* The type invariant of the PostgreSQL observation store.
THEOREM TableTypeCorrect == TableSpec => []TableTypeOK
<1>1. TableInv => TableTypeOK
  BY DEF TableInv
<1>2. TableInv /\ [TableNext]_tableVars => TableInv'
  BY TableInductive
<1>3. QED
  BY <1>1, <1>2, TableInitially, PTL DEF TableSpec

\* ListActive of the PostgreSQL store lists what was observed since the start of the
\* window, and nothing that was seen more than a microsecond before
\* (postgres/observation_store.go:78-102).
THEOREM ListsTheActiveAlways == TableSpec => []ListsTheActive
<1>1. ASSUME TableInv PROVE ListsTheActive
  <2> SUFFICES ASSUME NEW since \in Instant
               PROVE  /\ \A f \in recorded : f.at >= since => f.key \in ListActive(since)
                      /\ \A k \in ListActive(since) :
                            \E f \in recorded : f.key = k /\ f.at + Precision > since
    BY DEF ListsTheActive
  <2>1. RowsInv /\ rows \in Aggregates /\ recorded \in SUBSET Fact
    BY <1>1 DEF TableInv, TableTypeOK
  <2>2. /\ since \in Nat /\ Precision \in Nat \ {0}
        /\ Stored(since) \in Nat /\ Stored(since) <= since /\ since < Stored(since) + Precision
    <3>1. since \in Nat
      BY AggregateAssumption
    <3>2. QED
      BY <3>1, PrecisionAssumption, Truncates DEF Stored
  <2>3. ListActive(since) = Active(rows, Stored(since))
    BY <2>1 DEF ListActive, Active, RowsInv, Reflects, Restorable
  <2>4. ASSUME NEW f \in recorded, f.at >= since
        PROVE  f.key \in ListActive(since)
    <3>1. f.at \in Nat /\ f \in Fact
      BY <2>1, FactTyped
    <3>2. Stored(since) <= Stored(f.at) /\ Stored(f.at) \in Nat
      BY <2>2, <2>4, <3>1, PrecisionAssumption, TruncateMonotone, TruncatedTyped DEF Stored
    <3>3. f.key \in DOMAIN rows /\ Stored(f.at) <= rows[f.key].last
      BY <2>1 DEF RowsInv, Reflects
    <3>4. rows[f.key].last \in Nat
      BY <2>1, <3>3, AggregatesTyped, AggregateTyped
    <3>5. rows[f.key].last >= Stored(since)
      BY <2>2, <3>2, <3>3, <3>4
    <3>6. QED
      BY <2>3, <3>3, <3>5 DEF Active
  <2>5. ASSUME NEW k \in ListActive(since)
        PROVE  \E f \in recorded : f.key = k /\ f.at + Precision > since
    <3>1. k \in DOMAIN rows /\ rows[k].last >= Stored(since)
      BY <2>3 DEF Active
    <3>2. PICK f \in recorded : f.key = k /\ rows[k].last = Stored(f.at)
      BY <2>1, <3>1 DEF RowsInv, Reflects
    <3>3. f \in Fact /\ f.at \in Nat /\ Stored(f.at) \in Nat /\ Stored(f.at) <= f.at
      BY <2>1, FactTyped, PrecisionAssumption, Truncates DEF Stored
    <3>4. f.at + Precision > since
      BY <2>2, <3>1, <3>2, <3>3
    <3>5. QED
      BY <3>2, <3>4
  <2>6. QED
    BY <2>4, <2>5
<1>2. TableInv /\ [TableNext]_tableVars => TableInv'
  BY TableInductive
<1>3. QED
  BY <1>1, <1>2, TableInitially, PTL DEF TableSpec

\* The metadata of a row are those of its latest fact, or of one of the same
\* microsecond, in whatever order transactions commit
\* (postgres/observation_store.go:156-160).
THEOREM MetadataOfTheLatestAlways == TableSpec => []MetadataOfTheLatest
<1>1. ASSUME TableInv PROVE MetadataOfTheLatest
  <2> SUFFICES ASSUME NEW k \in DOMAIN rows
               PROVE  \E f \in Latest(k, Precision) : rows[k].metadata = f.metadata
    BY DEF MetadataOfTheLatest
  <2>1. Reflects(rows[k], recorded, k)
    BY <1>1 DEF TableInv, RowsInv
  <2>2. PICK f \in recorded : /\ f.key = k /\ rows[k].last = Stored(f.at)
                              /\ rows[k].metadata = f.metadata
    BY <2>1 DEF Reflects
  <2>3. \A g \in FactsWith(k) : Stored(g.at) <= Stored(f.at)
    BY <2>1, <2>2 DEF Reflects, FactsWith
  <2>4. f \in Latest(k, Precision)
    BY <2>2, <2>3 DEF Latest, FactsWith, Stored
  <2>5. QED
    BY <2>2, <2>4
<1>2. TableInv /\ [TableNext]_tableVars => TableInv'
  BY TableInductive
<1>3. QED
  BY <1>1, <1>2, TableInitially, PTL DEF TableSpec

\* Concurrent transactions implement the contract of the observation store, which
\* records one whole batch after the other (postgres/observation_store.go:42-76,130-175).
THEOREM PostgresImplementsStore == TableSpec => ImplementsStore
<1>1. TableInit => Store!Init
  BY DEF TableInit, Store!Init, Store!NoAggregates, NoAggregates
<1>2. TableInv /\ [TableNext]_tableVars => [Store!Next]_rows
  <2> SUFFICES ASSUME TableInv, [TableNext]_tableVars PROVE [Store!Next]_rows
    OBVIOUS
  <2>1. \/ rows' = rows
        \/ \E batch \in CallBatches : rows' = WithBatch(rows, TruncatedBatch(batch))
    BY TableInductive
  <2>2. ASSUME NEW batch \in CallBatches, rows' = WithBatch(rows, TruncatedBatch(batch))
        PROVE  Store!Next
    <3>1. Store!WithBatch(rows, TruncatedBatch(batch)) = WithBatch(rows, TruncatedBatch(batch))
      BY DEF Store!WithBatch, WithBatch, Store!WithFact, WithFact, Store!Add, Add,
             Store!NewAggregate, NewAggregate
    <3>2. Store!UpsertBatch(TruncatedBatch(batch))
      BY <2>2, <3>1 DEF Store!UpsertBatch
    <3>3. QED
      BY <3>2 DEF Store!Next
  <2>3. QED
    BY <2>1, <2>2
<1>3. TableInv /\ [TableNext]_tableVars => TableInv'
  BY TableInductive
<1>4. QED
  BY <1>1, <1>2, <1>3, TableInitially, PTL DEF TableSpec, ImplementsStore, Store!Spec

-----------------------------------------------------------------------------
(* Delivery: what a batch leaves of its facts.                             *)

Covers(a, f) ==
    f.key \in DOMAIN a /\ a[f.key].first <= f.at /\ f.at <= a[f.key].last

LEMMA FactCovers ==
    ASSUME NEW a \in Aggregates, NEW fact \in Fact
    PROVE  /\ Covers(WithFact(a, fact), fact)
           /\ \A f \in Fact : Covers(a, f) => Covers(WithFact(a, fact), f)
<1> DEFINE b == WithFact(a, fact)
           id == fact.key
<1>1. /\ DOMAIN b = DOMAIN a \cup {id}
      /\ \A k \in DOMAIN a \ {id} : b[k] = a[k]
      /\ b[id] = IF id \in DOMAIN a THEN Add(a[id], fact) ELSE NewAggregate(fact)
  BY OneMoreFact, Zenon
<1> HIDE DEF b, id
<1>2. fact.at \in Nat /\ \A k \in DOMAIN a : a[k] \in Aggregate
  BY FactTyped, AggregatesTyped
<1>3. b[id].first <= fact.at /\ fact.at <= b[id].last
  <2>1. CASE id \in DOMAIN a
    BY <1>1, <1>2, <2>1, Added
  <2>2. CASE id \notin DOMAIN a
    BY <1>1, <1>2, <2>2, Started
  <2>3. QED
    BY <2>1, <2>2
<1>4. ASSUME NEW f \in Fact, Covers(a, f) PROVE Covers(b, f)
  <2>1. f.key \in DOMAIN a /\ a[f.key].first <= f.at /\ f.at <= a[f.key].last /\ f.at \in Nat
    BY <1>4, FactTyped DEF Covers
  <2>2. CASE f.key # id
    BY <1>1, <2>1, <2>2 DEF Covers
  <2>3. CASE f.key = id
    <3>1. b[id] = Add(a[id], fact) /\ a[id] \in Aggregate
      BY <1>1, <1>2, <2>1, <2>3
    <3>2. b[id] \in Aggregate /\ b[id].first <= a[id].first /\ a[id].last <= b[id].last
      BY <3>1, Added
    <3>3. /\ a[id].first \in Nat /\ a[id].last \in Nat
          /\ b[id].first \in Nat /\ b[id].last \in Nat
      BY <3>1, <3>2, AggregateTyped
    <3>4. b[id].first <= f.at /\ f.at <= b[id].last
      BY <2>1, <2>3, <3>2, <3>3
    <3>5. QED
      BY <1>1, <2>1, <2>3, <3>4 DEF Covers
  <2>4. QED
    BY <2>2, <2>3
<1>5. QED
  BY <1>1, <1>3, <1>4 DEF Covers, b, id

LEMMA BatchCovers ==
    ASSUME NEW before \in Aggregates, NEW batch \in Seq(Fact)
    PROVE  /\ WithBatch(before, batch) \in Aggregates
           /\ \A f \in Fact : Covers(before, f) => Covers(WithBatch(before, batch), f)
           /\ \A j \in 1..Len(batch) : Covers(WithBatch(before, batch), batch[j])
<1> DEFINE n == Len(batch)
<1>1. n \in Nat /\ \A j \in 1..n : batch[j] \in Fact
  OBVIOUS
<1>2. PICK g : IsRun(g, before, batch, n)
  BY <1>1, RunExists
<1>3. WithBatch(before, batch) = g[n]
  BY <1>1, <1>2, WithBatchIs
<1> HIDE DEF n
<1> DEFINE Good(i) == /\ g[i] \in Aggregates
                      /\ \A f \in Fact : Covers(before, f) => Covers(g[i], f)
                      /\ \A j \in 1..i : Covers(g[i], batch[j])
           Bad == {i \in 0..n : ~Good(i)}
<1>4. Bad = {}
  <2> SUFFICES ASSUME Bad # {} PROVE FALSE
    OBVIOUS
  <2>1. PICK m \in Bad : \A i \in Bad : m <= i
    <3>1. Bad \in SUBSET Nat
      BY <1>1
    <3> HIDE DEF Bad
    <3>2. QED
      BY <3>1, LeastNumber
  <2>2. m \in 0..n /\ ~Good(m) /\ m \in Nat
    BY <1>1, <2>1
  <2>3. g[m] = IF m = 0 THEN before ELSE WithFact(g[m - 1], batch[m])
    BY <1>2, <2>2 DEF IsRun
  <2>4. CASE m = 0
    <3>1. g[0] = before /\ 1..0 = {}
      BY <2>3, <2>4
    <3>2. Good(0)
      BY <3>1
    <3> HIDE DEF Good
    <3>3. QED
      BY <2>2, <2>4, <3>2
  <2>5. CASE m # 0
    <3>1. m - 1 \in 0..n /\ ~(m <= m - 1)
      BY <1>1, <2>2, <2>5
    <3>2. Good(m - 1)
      BY <2>1, <3>1
    <3>3. batch[m] \in Fact /\ g[m] = WithFact(g[m - 1], batch[m])
      BY <1>1, <2>2, <2>3, <2>5
    <3>4. /\ g[m] \in Aggregates /\ Covers(g[m], batch[m])
          /\ \A f \in Fact : Covers(g[m - 1], f) => Covers(g[m], f)
      BY <3>2, <3>3, WithFactTyped, FactCovers
    <3>5. \A j \in 1..m : Covers(g[m], batch[j])
      <4> SUFFICES ASSUME NEW j \in 1..m PROVE Covers(g[m], batch[j])
        OBVIOUS
      <4>1. CASE j = m
        BY <3>4, <4>1
      <4>2. CASE j # m
        <5>1. j \in 1..(m - 1) /\ j \in 1..n
          BY <1>1, <2>2, <4>2
        <5>2. QED
          BY <1>1, <3>2, <3>4, <5>1
      <4>3. QED
        BY <4>1, <4>2
    <3>6. Good(m)
      BY <3>2, <3>4, <3>5
    <3> HIDE DEF Good
    <3>7. QED
      BY <2>2, <3>6
  <2>6. QED
    BY <2>4, <2>5
<1>5. Good(n)
  BY <1>1, <1>4
<1>6. QED
  BY <1>3, <1>5 DEF n

\* A body that the receiver takes is taken as a whole: whoever could tell from the
\* byte after the limit that it goes on has read that byte.
LEMMA TakenWhole ==
    ASSUME NEW limit \in Limits, NEW b, IsBody(b), b.payload \in Seq(Fact),
           200 \in BodyStatuses(limit, b)
    PROVE  Taken(limit, b) = b.payload
<1> DEFINE n == Len(b.payload)
           m == IF n < ReadLimit(limit) THEN n ELSE ReadLimit(limit)
<1>1. /\ MaxInt64 \in Nat /\ limit \in 1..MaxInt64 /\ n \in 0..MaxInt64
      /\ ReadLimit(limit) = IF limit < MaxInt64 THEN limit + 1 ELSE limit
  BY LimitAssumption DEF IsBody, ReadLimit
<1>2. m \in 0..n /\ Taken(limit, b) = SubSeq(b.payload, 1, m)
  BY <1>1 DEF Taken
<1>3. Len(Taken(limit, b)) = m
  BY <1>2
<1>4. 200 \in ReadStatuses(limit, b)
  BY DEF BodyStatuses, HeaderStatus
<1>5. ~(m > limit)
  BY <1>3, <1>4 DEF ReadStatuses
<1>6. m = n
  BY <1>1, <1>5
<1>7. QED
  BY <1>2, <1>6

-----------------------------------------------------------------------------
(* Delivery: the inductive invariant.                                      *)

\* The store has every fact of the request of c, if it is durable.
Delivered(c) == Durable => \A f \in FactsOf(c) : Covers(aggregates, f)

\* A handler that records has taken the whole body, and one that answers with
\* success has recorded it.
HandlerInv(c, i) ==
    /\ handler[c][i].stage = "ingest" => 200 \in BodyStatuses(maxRequestBytes, request[c])
    /\ handler[c][i].stage = "answer" =>
          /\ handler[c][i].status # 0
          /\ handler[c][i].status = 200 => Delivered(c)

IngestInv ==
    /\ TypeOK
    /\ \A c \in Client : phase[c] = "acked" => Delivered(c)
    /\ \A c \in Client, i \in Attempt : HandlerInv(c, i)

\* A request and its facts.
LEMMA RequestTyped ==
    ASSUME TypeOK, NEW c \in Client
    PROVE  /\ request[c] \in Requests /\ IsBody(request[c])
           /\ request[c].payload \in Seq(Fact)
           /\ FactsOf(c) \in SUBSET Fact
           /\ maxRequestBytes \in Limits
<1>1. request[c] \in Requests /\ maxRequestBytes \in Limits
  BY DEF TypeOK
<1>2. IsBody(request[c]) /\ request[c].payload \in Seq(Fact)
  <2>1. IsBody(request[c]) /\ request[c].payload \in {<<>>} \cup Batches
    BY <1>1, IngestAssumption, Zenon
  <2>2. <<>> \in Seq(Fact) /\ Batches \subseteq Seq(Fact)
    BY IngestAssumption
  <2>3. QED
    BY <2>1, <2>2
<1>3. FactsOf(c) \in SUBSET Fact
  BY <1>2 DEF FactsOf
<1>4. QED
  BY <1>1, <1>2, <1>3

\* What the store does to the facts it has: it records more, or loses them all when
\* it is not durable.
Grows ==
    /\ aggregates' \in Aggregates
    /\ Durable => \A f \in Fact : Covers(aggregates, f) => Covers(aggregates', f)

LEMMA UpsertGrows ==
    ASSUME TypeOK, NEW c \in Client, 200 \in BodyStatuses(maxRequestBytes, request[c]),
           UpsertBatch(Received(c))
    PROVE  /\ Grows
           /\ \A f \in FactsOf(c) : Covers(aggregates', f)
<1>1. Received(c) = request[c].payload /\ request[c].payload \in Seq(Fact)
  BY RequestTyped, TakenWhole DEF Received
<1>2. aggregates \in Aggregates /\ aggregates' = WithBatch(aggregates, request[c].payload)
  BY <1>1 DEF UpsertBatch, TypeOK
<1>3. QED
  BY <1>1, <1>2, BatchCovers DEF Grows, FactsOf

LEMMA DeliveredStays ==
    ASSUME TypeOK, Grows, UNCHANGED given, NEW c \in Client, Delivered(c)
    PROVE  Delivered(c)'
<1>1. FactsOf(c)' = FactsOf(c) /\ FactsOf(c) \in SUBSET Fact
  BY RequestTyped DEF FactsOf, given
<1>2. QED
  BY <1>1 DEF Delivered, Grows

LEMMA UnchangedGrows ==
    ASSUME TypeOK, UNCHANGED aggregates
    PROVE  Grows
BY DEF Grows, TypeOK

\* One handler goes on.
LEMMA HandlerGoes ==
    ASSUME TypeOK, NEW c \in Client, NEW i \in Attempt, NEW stage \in Stage,
           NEW status \in Status, Goes(c, i, stage, status)
    PROVE  /\ handler' \in [Client -> [Attempt -> [stage : Stage, status : Status]]]
           /\ handler'[c][i].stage = stage /\ handler'[c][i].status = status
           /\ \A d \in Client, j \in Attempt : d # c \/ j # i => handler'[d][j] = handler[d][j]
<1> DEFINE h == [stage |-> stage, status |-> status]
<1>1. handler' = [handler EXCEPT ![c][i] = h]
  BY DEF Goes
<1>2. h \in [stage : Stage, status : Status] /\ h.stage = stage /\ h.status = status
  OBVIOUS
<1> HIDE DEF h
<1>3. handler \in [Client -> [Attempt -> [stage : Stage, status : Status]]]
  BY DEF TypeOK
<1>4. QED
  BY <1>1, <1>2, <1>3

\* What holds of the other handlers and of the exporters holds still.
LEMMA OneHandlerGoes ==
    ASSUME IngestInv, Grows, UNCHANGED given,
           NEW c \in Client, NEW i \in Attempt, NEW stage \in Stage, NEW status \in Status,
           Goes(c, i, stage, status),
           stage = "ingest" => 200 \in BodyStatuses(maxRequestBytes, request[c]),
           stage = "answer" => status # 0 /\ (status = 200 => Delivered(c)')
    PROVE  /\ \A d \in Client, j \in Attempt : HandlerInv(d, j)'
           /\ handler' \in [Client -> [Attempt -> [stage : Stage, status : Status]]]
           /\ \A d \in Client : Delivered(d) => Delivered(d)'
<1>1. TypeOK /\ \A d \in Client, j \in Attempt : HandlerInv(d, j)
  BY DEF IngestInv
<1>2. /\ handler' \in [Client -> [Attempt -> [stage : Stage, status : Status]]]
      /\ handler'[c][i].stage = stage /\ handler'[c][i].status = status
      /\ \A d \in Client, j \in Attempt : d # c \/ j # i => handler'[d][j] = handler[d][j]
  BY <1>1, HandlerGoes
<1>3. request' = request /\ maxRequestBytes' = maxRequestBytes
  BY DEF given
<1>4. \A d \in Client : Delivered(d) => Delivered(d)'
  BY <1>1, DeliveredStays
<1>5. ASSUME NEW d \in Client, NEW j \in Attempt PROVE HandlerInv(d, j)'
  <2>1. BodyStatuses(maxRequestBytes, request[d])' = BodyStatuses(maxRequestBytes, request[d])
    BY <1>3
  <2>2. CASE d = c /\ j = i
    BY <1>2, <2>1, <2>2 DEF HandlerInv
  <2>3. CASE d # c \/ j # i
    <3>1. handler'[d][j] = handler[d][j]
      BY <1>2, <2>3
    <3>2. QED
      BY <1>1, <1>4, <2>1, <3>1 DEF HandlerInv
  <2>4. QED
    BY <2>2, <2>3
<1>6. QED
  BY <1>2, <1>4, <1>5

LEMMA FaultTyped ==
    ASSUME TypeOK, Fault
    PROVE  faults' \in 0..MaxFaults
BY IngestAssumption DEF TypeOK, Fault

LEMMA StatusTyped ==
    ASSUME NEW limit, NEW b, NEW status \in BodyStatuses(limit, b)
    PROVE  status \in Status \ {0}
BY DEF BodyStatuses, HeaderStatus, ReadStatuses, Status

\* The steps of a handler of the receiver.
LEMMA HandlerKeeps ==
    ASSUME IngestInv, NEW c \in Client, NEW i \in Attempt, Handles(c, i)
    PROVE  IngestInv'
<1>1. /\ TypeOK /\ HandlerInv(c, i)
      /\ \A d \in Client : phase[d] = "acked" => Delivered(d)
  BY DEF IngestInv
<1>2. /\ {"none", "receive", "ingest", "answer"} = Stage
      /\ {0, 200, 400, 413, 415, 503, 504} = Status
  BY DEF Stage, Status
<1>3. ASSUME Grows, UNCHANGED exporters, cutOff' \subseteq Client, faults' \in 0..MaxFaults,
             NEW stage \in Stage, NEW status \in Status, Goes(c, i, stage, status),
             stage = "ingest" => 200 \in BodyStatuses(maxRequestBytes, request[c]),
             stage = "answer" => status # 0 /\ (status = 200 => Delivered(c)')
      PROVE  IngestInv'
  <2>1. UNCHANGED given /\ phase' = phase /\ sent' = sent
    BY <1>3 DEF exporters
  <2>2. /\ \A d \in Client, j \in Attempt : HandlerInv(d, j)'
        /\ handler' \in [Client -> [Attempt -> [stage : Stage, status : Status]]]
        /\ \A d \in Client : Delivered(d) => Delivered(d)'
    BY <1>3, <2>1, OneHandlerGoes
  <2>3. TypeOK'
    BY <1>1, <1>3, <2>1, <2>2 DEF TypeOK, Grows, given
  <2>4. QED
    BY <1>1, <2>1, <2>2, <2>3 DEF IngestInv
<1>4. cutOff \subseteq Client /\ faults \in 0..MaxFaults
  BY <1>1 DEF TypeOK
<1>5. ASSUME UNCHANGED <<aggregates, exporters>> PROVE Grows /\ UNCHANGED exporters
  BY <1>1, <1>5, UnchangedGrows
<1>6. ASSUME Receive(c, i) PROVE IngestInv'
  <2>1. /\ UNCHANGED <<aggregates, exporters>> /\ cutOff' = cutOff /\ faults' = faults
    BY <1>6 DEF Receive
  <2>2. PICK status \in BodyStatuses(maxRequestBytes, request[c]) :
          IF status # 200 THEN Goes(c, i, "answer", status)
          ELSE IF ~Connected(c, i) THEN Goes(c, i, "answer", 503)
          ELSE IF Received(c) = <<>> THEN Goes(c, i, "answer", 200)
          ELSE Goes(c, i, "ingest", 0)
    BY <1>6 DEF Receive
  <2>3. Grows /\ UNCHANGED exporters
    BY <1>5, <2>1
  <2>4. CASE status # 200
    <3>1. Goes(c, i, "answer", status) /\ status \in Status \ {0}
      BY <2>2, <2>4, StatusTyped
    <3>2. QED
      BY <1>2, <1>3, <1>4, <2>1, <2>3, <2>4, <3>1
  <2>5. CASE status = 200 /\ ~Connected(c, i)
    <3>1. Goes(c, i, "answer", 503)
      BY <2>2, <2>5
    <3>2. QED
      BY <1>2, <1>3, <1>4, <2>1, <2>3, <3>1
  <2>6. CASE status = 200 /\ Connected(c, i) /\ Received(c) = <<>>
    <3>1. Goes(c, i, "answer", 200)
      BY <2>2, <2>6
    <3>2. request[c].payload = <<>>
      BY <1>1, <2>2, <2>6, RequestTyped, TakenWhole DEF Received
    <3>3. Delivered(c)'
      <4>1. FactsOf(c) = {}
        BY <3>2 DEF FactsOf
      <4>2. FactsOf(c)' = FactsOf(c)
        BY <2>1 DEF FactsOf, exporters, given
      <4>3. QED
        BY <4>1, <4>2 DEF Delivered
    <3>4. QED
      BY <1>2, <1>3, <1>4, <2>1, <2>3, <3>1, <3>3
  <2>7. CASE status = 200 /\ Connected(c, i) /\ Received(c) # <<>>
    <3>1. Goes(c, i, "ingest", 0)
      BY <2>2, <2>7
    <3>2. 200 \in BodyStatuses(maxRequestBytes, request[c])
      BY <2>2, <2>7
    <3>3. QED
      BY <1>2, <1>3, <1>4, <2>1, <2>3, <3>1, <3>2
  <2>8. QED
    BY <2>4, <2>5, <2>6, <2>7
<1>7. ASSUME ReceiveCutOff(c, i) PROVE IngestInv'
  <2>1. /\ UNCHANGED <<aggregates, exporters>> /\ cutOff' \subseteq Client
        /\ faults' \in 0..MaxFaults /\ Goes(c, i, "answer", 400)
    BY <1>1, <1>4, <1>7, FaultTyped DEF ReceiveCutOff
  <2>2. QED
    BY <1>2, <1>3, <1>5, <2>1
<1>8. ASSUME Ingest(c, i) PROVE IngestInv'
  <2>1. /\ UpsertBatch(Received(c)) /\ Goes(c, i, "answer", 200)
        /\ UNCHANGED exporters /\ cutOff' = cutOff /\ faults' = faults
        /\ handler[c][i].stage = "ingest"
    BY <1>8 DEF Ingest
  <2>2. Grows /\ \A f \in FactsOf(c) : Covers(aggregates', f)
    BY <1>1, <2>1, UpsertGrows DEF HandlerInv
  <2>3. Delivered(c)'
    <3>1. FactsOf(c)' = FactsOf(c)
      BY <2>1 DEF FactsOf, exporters, given
    <3>2. QED
      BY <2>2, <3>1 DEF Delivered
  <2>4. QED
    BY <1>2, <1>3, <1>4, <2>1, <2>2, <2>3
<1>9. ASSUME IngestFails(c, i) PROVE IngestInv'
  <2>1. /\ UNCHANGED exporters /\ cutOff' = cutOff
        /\ handler[c][i].stage = "ingest"
        /\ UNCHANGED aggregates \/ UpsertBatch(Received(c))
        /\ UNCHANGED faults \/ Fault
        /\ \E status \in {503, 504} : Goes(c, i, "answer", status)
    BY <1>9 DEF IngestFails
  <2>2. Grows
    BY <1>1, <2>1, UnchangedGrows, UpsertGrows DEF HandlerInv
  <2>3. faults' \in 0..MaxFaults
    BY <1>1, <1>4, <2>1, FaultTyped
  <2>4. QED
    BY <1>2, <1>3, <1>4, <2>1, <2>2, <2>3
<1>10. ASSUME IngestRefused(c, i) PROVE IngestInv'
  <2>1. /\ UNCHANGED <<aggregates, exporters>> /\ cutOff' = cutOff /\ faults' = faults
        /\ Goes(c, i, "answer", 503)
    BY <1>10 DEF IngestRefused
  <2>2. QED
    BY <1>2, <1>3, <1>4, <1>5, <2>1
<1>11. ASSUME Answer(c, i) PROVE IngestInv'
  <2>1. /\ aggregates' = aggregates /\ UNCHANGED given /\ sent' = sent
        /\ cutOff' = cutOff /\ faults' = faults
        /\ handler[c][i].stage = "answer" /\ Goes(c, i, "none", 0)
        /\ phase' = IF Connected(c, i)
                    THEN [phase EXCEPT ![c] = AfterAnswer(handler[c][i].status)]
                    ELSE phase
    BY <1>11 DEF Answer
  <2>2. Grows
    BY <1>1, <2>1, UnchangedGrows
  <2>3. /\ \A d \in Client, j \in Attempt : HandlerInv(d, j)'
        /\ handler' \in [Client -> [Attempt -> [stage : Stage, status : Status]]]
        /\ \A d \in Client : Delivered(d) => Delivered(d)'
    <3>1. "none" \in Stage /\ 0 \in Status /\ "none" # "ingest" /\ "none" # "answer"
      BY <1>2
    <3>2. QED
      BY <2>1, <2>2, <3>1, OneHandlerGoes
  <2>4. /\ phase \in [Client -> {"idle", "waiting", "acked", "dropped"}]
        /\ handler[c][i].status \in Status \ {0}
        /\ handler[c][i].status = 200 => Delivered(c)
    BY <1>1, <2>1 DEF TypeOK, HandlerInv
  <2>5. /\ AfterAnswer(handler[c][i].status) \in {"idle", "acked", "dropped"}
        /\ AfterAnswer(handler[c][i].status) = "acked" => handler[c][i].status = 200
    BY <1>2, <2>4 DEF AfterAnswer
  <2>6. /\ phase' \in [Client -> {"idle", "waiting", "acked", "dropped"}]
        /\ \A d \in Client : phase'[d] = "acked" => phase[d] = "acked" \/ Delivered(d)
    BY <2>1, <2>4, <2>5
  <2>7. TypeOK'
    BY <1>1, <2>1, <2>2, <2>3, <2>6 DEF TypeOK, Grows, given
  <2>8. QED
    BY <1>1, <2>3, <2>6, <2>7 DEF IngestInv
<1>12. QED
  BY <1>6, <1>7, <1>8, <1>9, <1>10, <1>11 DEF Handles

LEMMA SendKeeps ==
    ASSUME IngestInv, NEW c \in Client, Send(c)
    PROVE  IngestInv'
<1>1. TypeOK /\ \A d \in Client : phase[d] = "acked" => Delivered(d)
  BY DEF IngestInv
<1>2. /\ sent[c] < MaxAttempts /\ phase' = [phase EXCEPT ![c] = "waiting"]
      /\ sent' = [sent EXCEPT ![c] = @ + 1] /\ Goes(c, sent[c] + 1, "receive", 0)
      /\ aggregates' = aggregates /\ UNCHANGED given /\ cutOff' = cutOff /\ faults' = faults
  BY DEF Send
<1>3. /\ sent[c] + 1 \in Attempt /\ sent' \in [Client -> 0..MaxAttempts]
      /\ phase' \in [Client -> {"idle", "waiting", "acked", "dropped"}]
      /\ \A d \in Client : phase'[d] = "acked" => phase[d] = "acked"
  BY <1>1, <1>2, IngestAssumption DEF TypeOK, Attempt
<1>4. Grows
  BY <1>1, <1>2, UnchangedGrows
<1>5. /\ \A d \in Client, j \in Attempt : HandlerInv(d, j)'
      /\ handler' \in [Client -> [Attempt -> [stage : Stage, status : Status]]]
      /\ \A d \in Client : Delivered(d) => Delivered(d)'
  <2>1. /\ "receive" \in Stage /\ 0 \in Status
        /\ "receive" # "ingest" /\ "receive" # "answer"
    BY DEF Stage, Status
  <2>2. QED
    BY <1>2, <1>3, <1>4, <2>1, OneHandlerGoes
<1>6. TypeOK'
  BY <1>1, <1>2, <1>3, <1>4, <1>5 DEF TypeOK, Grows, given
<1>7. QED
  BY <1>1, <1>3, <1>5, <1>6 DEF IngestInv

\* A step that no handler takes, and after which handlers are as before or gone.
LEMMA NoHandlerGoes ==
    ASSUME IngestInv, Grows, UNCHANGED given,
           \/ handler' = handler
           \/ handler' = [c \in Client |-> [i \in Attempt |-> NoHandler]]
    PROVE  /\ \A c \in Client, i \in Attempt : HandlerInv(c, i)'
           /\ handler' \in [Client -> [Attempt -> [stage : Stage, status : Status]]]
           /\ \A c \in Client : Delivered(c) => Delivered(c)'
<1>1. TypeOK /\ \A c \in Client, i \in Attempt : HandlerInv(c, i)
  BY DEF IngestInv
<1>2. \A c \in Client : Delivered(c) => Delivered(c)'
  BY <1>1, DeliveredStays
<1>3. request' = request /\ maxRequestBytes' = maxRequestBytes
  BY DEF given
<1>4. /\ NoHandler \in [stage : Stage, status : Status] /\ NoHandler.stage = "none"
  BY DEF NoHandler, Stage, Status
<1>5. CASE handler' = handler
  <2>1. ASSUME NEW c \in Client, NEW i \in Attempt PROVE HandlerInv(c, i)'
    BY <1>1, <1>2, <1>3, <1>5 DEF HandlerInv
  <2>2. QED
    BY <1>1, <1>2, <1>5, <2>1 DEF TypeOK
<1>6. CASE handler' = [c \in Client |-> [i \in Attempt |-> NoHandler]]
  <2>1. ASSUME NEW c \in Client, NEW i \in Attempt PROVE HandlerInv(c, i)'
    BY <1>4, <1>6 DEF HandlerInv
  <2>2. QED
    BY <1>2, <1>4, <1>6, <2>1
<1>7. QED
  BY <1>5, <1>6

LEMMA OutsideKeeps ==
    ASSUME IngestInv, (\E c \in Client : Timeout(c)) \/ Crash \/ UNCHANGED ingestVars
    PROVE  IngestInv'
<1>1. TypeOK /\ \A d \in Client : phase[d] = "acked" => Delivered(d)
  BY DEF IngestInv
<1>2. /\ UNCHANGED given /\ sent' = sent /\ cutOff' = cutOff
      /\ \/ handler' = handler
         \/ handler' = [c \in Client |-> [i \in Attempt |-> NoHandler]]
      /\ Fault \/ UNCHANGED faults
      /\ aggregates' = aggregates \/ (~Durable /\ aggregates' = NoAggregates)
  BY DEF Timeout, Crash, ingestVars, exporters
<1>3. /\ phase' \in [Client -> {"idle", "waiting", "acked", "dropped"}]
      /\ \A d \in Client : phase'[d] = "acked" => phase[d] = "acked"
  BY <1>1 DEF TypeOK, Timeout, Crash, ingestVars, exporters
<1>4. Grows
  BY <1>1, <1>2, UnchangedGrows, NoAggregatesTyped DEF Grows
<1>5. /\ \A d \in Client, j \in Attempt : HandlerInv(d, j)'
      /\ handler' \in [Client -> [Attempt -> [stage : Stage, status : Status]]]
      /\ \A d \in Client : Delivered(d) => Delivered(d)'
  BY <1>2, <1>4, NoHandlerGoes
<1>6. faults' \in 0..MaxFaults
  BY <1>1, <1>2, FaultTyped DEF TypeOK
<1>7. TypeOK'
  BY <1>1, <1>2, <1>3, <1>4, <1>5, <1>6 DEF TypeOK, Grows, given
<1>8. QED
  BY <1>1, <1>3, <1>5, <1>7 DEF IngestInv

LEMMA IngestInitially ==
    ASSUME IngestInit
    PROVE  IngestInv
<1>1. /\ aggregates = NoAggregates /\ maxRequestBytes \in Limits
      /\ request \in [Client -> Requests] /\ phase = [c \in Client |-> "idle"]
      /\ sent = [c \in Client |-> 0] /\ cutOff = {} /\ faults = 0
      /\ handler = [c \in Client |-> [i \in Attempt |-> NoHandler]]
  BY DEF IngestInit, Init
<1>2. NoHandler \in [stage : Stage, status : Status] /\ NoHandler.stage = "none"
  BY DEF NoHandler, Stage, Status
<1>3. handler \in [Client -> [Attempt -> [stage : Stage, status : Status]]]
  BY <1>1, <1>2
<1>4. 0 \in 0..MaxAttempts /\ 0 \in 0..MaxFaults
  BY IngestAssumption
<1>5. TypeOK
  BY <1>1, <1>3, <1>4, NoAggregatesTyped DEF TypeOK
<1>6. \A c \in Client, i \in Attempt : HandlerInv(c, i)
  BY <1>1, <1>2 DEF HandlerInv
<1>7. QED
  BY <1>1, <1>5, <1>6 DEF IngestInv

LEMMA IngestInductive ==
    ASSUME IngestInv, [IngestNext]_ingestVars
    PROVE  IngestInv'
BY HandlerKeeps, SendKeeps, OutsideKeeps, Zenon DEF IngestNext

\* The type invariant of the receiver, its exporters and the store behind it.
THEOREM IngestTypeCorrect == IngestSpec => []TypeOK
<1>1. IngestInv => TypeOK
  BY DEF IngestInv
<1>2. IngestInv /\ [IngestNext]_ingestVars => IngestInv'
  BY IngestInductive
<1>3. QED
  BY <1>1, <1>2, IngestInitially, PTL DEF IngestSpec

\* What was acknowledged is in the store and stays there, for any number of
\* exporters, attempts, timeouts, lost answers and crashes, and for any limit
\* (http_receiver.go:84-119,152-165).
THEOREM AckedIsRecordedAlways == IngestSpec => []AckedIsRecorded
<1>1. IngestInv => AckedIsRecorded
  BY DEF IngestInv, AckedIsRecorded, Delivered, Covers, Recorded
<1>2. IngestInv /\ [IngestNext]_ingestVars => IngestInv'
  BY IngestInductive
<1>3. QED
  BY <1>1, <1>2, IngestInitially, PTL DEF IngestSpec

-----------------------------------------------------------------------------
(* Sums over finite sets.                                                  *)

\* What holds of a set once it holds of all smaller ones holds of any finite set.
LEMMA FiniteSetsByInduction ==
    ASSUME NEW S, IsFiniteSet(S), NEW Good,
           \A T \in SUBSET S : (\A U \in SUBSET T : U # T => U \in Good) => T \in Good
    PROVE  S \in Good
<1> DEFINE Bad == {T \in SUBSET S : T \notin Good}
           Sizes == {n \in Nat : \E T \in Bad : Cardinality(T) = n}
<1>1. SUFFICES ASSUME S \notin Good PROVE FALSE
  OBVIOUS
<1>2. \A T \in SUBSET S : IsFiniteSet(T) /\ Cardinality(T) \in Nat
  BY FS_Subset, FS_CardinalityType
<1>3. Cardinality(S) \in Sizes /\ Sizes \in SUBSET Nat
  BY <1>1, <1>2
<1>4. PICK m \in Sizes : \A n \in Sizes : m <= n
  <2> HIDE DEF Sizes
  <2>1. Sizes # {}
    BY <1>3
  <2>2. QED
    BY <1>3, <2>1, LeastNumber
<1>5. PICK T \in Bad : Cardinality(T) = m /\ m \in Nat
  BY <1>4
<1>6. ASSUME NEW U \in SUBSET T, U # T PROVE U \in Good
  <2>1. U \in SUBSET S /\ IsFiniteSet(T)
    BY <1>2, <1>5
  <2>2. Cardinality(U) \in Nat /\ Cardinality(T) \in Nat
    BY <1>2, <1>5, <2>1
  <2>3. Cardinality(U) < Cardinality(T)
    BY <1>6, <2>1, <2>2, FS_Subset
  <2>4. Cardinality(U) \notin Sizes
    BY <1>4, <1>5, <2>2, <2>3
  <2>5. QED
    BY <2>1, <2>2, <2>4
<1>7. QED
  BY <1>5, <1>6

\* What SumFunctionOnSet computes: a number for each subset.
IsSum(g, f, S) ==
    g = [T \in SUBSET S |->
            IF T = {} THEN 0
            ELSE LET x == CHOOSE x \in T : TRUE IN f[x] + g[T \ {x}]]

LEMMA SumUnfolds ==
    ASSUME NEW g, NEW f, NEW S, IsSum(g, f, S), NEW T \in SUBSET S
    PROVE  /\ T = {} => g[T] = 0
           /\ T # {} => LET x == CHOOSE x \in T : TRUE
                        IN  x \in T /\ g[T] = f[x] + g[T \ {x}]
<1> DEFINE x == CHOOSE y \in T : TRUE
<1>1. g[T] = IF T = {} THEN 0 ELSE f[x] + g[T \ {x}]
  BY DEF IsSum
<1>2. T # {} => x \in T
  OBVIOUS
<1> HIDE DEF x
<1>3. /\ T = {} => g[T] = 0
      /\ T # {} => x \in T /\ g[T] = f[x] + g[T \ {x}]
  BY <1>1, <1>2
<1>4. QED
  BY <1>3 DEF x

\* Two such functions agree where both are defined.
LEMMA SumUnique ==
    ASSUME NEW S, IsFiniteSet(S), NEW f, NEW g, NEW h, NEW A, NEW B,
           IsSum(g, f, A), IsSum(h, f, B), S \subseteq A, S \subseteq B
    PROVE  g[S] = h[S]
<1> DEFINE Good == {T \in SUBSET S : g[T] = h[T]}
<1>1. ASSUME NEW T \in SUBSET S, \A U \in SUBSET T : U # T => U \in Good
      PROVE  T \in Good
  <2>1. CASE T = {}
    BY <2>1, SumUnfolds
  <2>2. CASE T # {}
    <3> DEFINE x == CHOOSE y \in T : TRUE
    <3>1. T \in SUBSET A /\ T \in SUBSET B
      OBVIOUS
    <3>2. x \in T /\ g[T] = f[x] + g[T \ {x}] /\ h[T] = f[x] + h[T \ {x}]
      BY <2>2, <3>1, SumUnfolds
    <3> HIDE DEF x
    <3>3. T \ {x} \in Good
      BY <1>1, <3>2
    <3>4. QED
      BY <3>2, <3>3
  <2>3. QED
    BY <2>1, <2>2
<1> HIDE DEF Good
<1>2. S \in Good
  BY <1>1, FiniteSetsByInduction
<1>3. QED
  BY <1>2 DEF Good

LEMMA SumExists ==
    ASSUME NEW S, IsFiniteSet(S), NEW f
    PROVE  \E g : IsSum(g, f, S)
<1> DEFINE Good == {T \in SUBSET S : \E g : IsSum(g, f, T)}
           Total(T) == (CHOOSE g : IsSum(g, f, T))[T]
<1>1. ASSUME NEW T \in SUBSET S, \A U \in SUBSET T : U # T => U \in Good
      PROVE  T \in Good
  <2> DEFINE y == CHOOSE x \in T : TRUE
             h == [U \in SUBSET T |-> IF U # T THEN Total(U)
                                      ELSE IF U = {} THEN 0 ELSE f[y] + Total(U \ {y})]
  <2>1. ASSUME NEW U \in SUBSET T
        PROVE  h[U] = IF U = {} THEN 0
                      ELSE LET x == CHOOSE x \in U : TRUE IN f[x] + h[U \ {x}]
    <3> DEFINE x == CHOOSE v \in U : TRUE
    <3>1. U # {} => x \in U
      OBVIOUS
    <3>2. CASE U = T
      <4>1. x = y
        BY <3>2
      <4>2. h[U] = IF U = {} THEN 0 ELSE f[x] + Total(U \ {x})
        BY <3>2, <4>1
      <4>3. U # {} => U \ {x} \in SUBSET T /\ U \ {x} # T
        BY <3>1, <3>2
      <4> HIDE DEF x, y, Total
      <4>4. U # {} => h[U \ {x}] = Total(U \ {x})
        BY <4>3
      <4> HIDE DEF h
      <4>5. h[U] = IF U = {} THEN 0 ELSE f[x] + h[U \ {x}]
        BY <4>2, <4>4
      <4>6. QED
        BY <4>5 DEF x
    <3>3. CASE U # T
      <4>1. h[U] = Total(U)
        BY <3>3
      <4>2. IsSum(CHOOSE g : IsSum(g, f, U), f, U)
        BY <1>1, <3>3
      <4>3. PICK g : g = (CHOOSE k : IsSum(k, f, U)) /\ IsSum(g, f, U)
        BY <4>2
      <4>4. Total(U) = g[U]
        BY <4>3
      <4>5. U = {} => g[U] = 0
        BY <4>3, SumUnfolds
      <4>6. ASSUME U # {} PROVE g[U] = f[x] + g[U \ {x}]
        BY <4>3, <4>6, SumUnfolds
      <4>7. ASSUME U # {} PROVE g[U \ {x}] = h[U \ {x}]
        <5> DEFINE W == U \ {x}
        <5>1. W \in SUBSET T /\ W # T /\ W \subseteq U /\ W \subseteq W
          BY <3>1, <3>3, <4>7
        <5>2. IsFiniteSet(W)
          BY <5>1, FS_Subset
        <5> HIDE DEF W
        <5>3. IsSum(CHOOSE k : IsSum(k, f, W), f, W)
          BY <1>1, <5>1
        <5>4. PICK k : k = (CHOOSE j : IsSum(j, f, W)) /\ IsSum(k, f, W)
          BY <5>3
        <5>5. Total(W) = k[W]
          BY <5>4
        <5>6. g[W] = k[W]
          BY <4>3, <5>1, <5>2, <5>4, SumUnique
        <5>7. h[W] = Total(W)
          BY <5>1
        <5>8. QED
          BY <5>5, <5>6, <5>7 DEF W
      <4> HIDE DEF h, Total, x
      <4>8. h[U] = IF U = {} THEN 0 ELSE f[x] + h[U \ {x}]
        BY <4>1, <4>4, <4>5, <4>6, <4>7
      <4>9. QED
        BY <4>8 DEF x
    <3>4. QED
      BY <3>2, <3>3
  <2>2. h = [U \in SUBSET T |-> h[U]]
    OBVIOUS
  <2> HIDE DEF h
  <2>3. IsSum(h, f, T)
    BY <2>1, <2>2 DEF IsSum
  <2>4. QED
    BY <2>3
<1> HIDE DEF Good
<1>2. S \in Good
  BY <1>1, FiniteSetsByInduction
<1>3. QED
  BY <1>2 DEF Good

LEMMA SumIs ==
    ASSUME NEW f, NEW S, IsFiniteSet(S)
    PROVE  \E g : IsSum(g, f, S) /\ SumFunctionOnSet(f, S) = g[S]
<1>1. SumFunctionOnSet(f, S) = (CHOOSE g : IsSum(g, f, S))[S]
  BY DEF SumFunctionOnSet, FoldFunctionOnSet, MapThenFoldSet, IsSum
<1>2. IsSum(CHOOSE g : IsSum(g, f, S), f, S)
  BY SumExists
<1>3. QED
  BY <1>1, <1>2

\* The sum of nothing, and the sum as one value and the sum of the others.
LEMMA SumChosen ==
    ASSUME NEW f, NEW S, IsFiniteSet(S)
    PROVE  /\ S = {} => SumFunctionOnSet(f, S) = 0
           /\ S # {} => \E x \in S :
                 SumFunctionOnSet(f, S) = f[x] + SumFunctionOnSet(f, S \ {x})
<1>1. PICK g : IsSum(g, f, S) /\ SumFunctionOnSet(f, S) = g[S]
  BY SumIs
<1>2. S = {} => SumFunctionOnSet(f, S) = 0
  BY <1>1, SumUnfolds
<1>3. ASSUME S # {}
      PROVE  \E x \in S : SumFunctionOnSet(f, S) = f[x] + SumFunctionOnSet(f, S \ {x})
  <2>1. PICK x \in S : g[S] = f[x] + g[S \ {x}]
    <3> DEFINE y == CHOOSE x \in S : TRUE
    <3>1. y \in S /\ g[S] = f[y] + g[S \ {y}]
      BY <1>1, <1>3, SumUnfolds
    <3> HIDE DEF y
    <3>2. QED
      BY <3>1
  <2>2. IsFiniteSet(S \ {x}) /\ S \ {x} \subseteq S /\ S \ {x} \subseteq S \ {x}
    BY FS_RemoveElement
  <2>3. PICK h : IsSum(h, f, S \ {x}) /\ SumFunctionOnSet(f, S \ {x}) = h[S \ {x}]
    BY <2>2, SumIs
  <2>4. g[S \ {x}] = h[S \ {x}]
    BY <1>1, <2>2, <2>3, SumUnique
  <2>5. QED
    BY <1>1, <2>1, <2>3, <2>4
<1>4. QED
  BY <1>2, <1>3

LEMMA SumTyped ==
    ASSUME NEW f, NEW S, IsFiniteSet(S), \A x \in S : f[x] \in Nat
    PROVE  SumFunctionOnSet(f, S) \in Nat
<1> DEFINE Good == {T \in SUBSET S : SumFunctionOnSet(f, T) \in Nat}
<1>1. ASSUME NEW T \in SUBSET S, \A U \in SUBSET T : U # T => U \in Good
      PROVE  T \in Good
  <2>1. IsFiniteSet(T)
    BY FS_Subset
  <2>2. CASE T = {}
    BY <2>1, <2>2, SumChosen
  <2>3. CASE T # {}
    <3>1. PICK x \in T : SumFunctionOnSet(f, T) = f[x] + SumFunctionOnSet(f, T \ {x})
      BY <2>1, <2>3, SumChosen
    <3>2. T \ {x} \in Good /\ f[x] \in Nat
      BY <1>1
    <3>3. QED
      BY <3>1, <3>2
  <2>4. QED
    BY <2>2, <2>3
<1> HIDE DEF Good
<1>2. S \in Good
  BY <1>1, FiniteSetsByInduction
<1>3. QED
  BY <1>2 DEF Good

\* Any value may be taken out of a sum.
LEMMA SumWithout ==
    ASSUME NEW f, NEW S, IsFiniteSet(S), \A x \in S : f[x] \in Nat, NEW c \in S
    PROVE  SumFunctionOnSet(f, S) = f[c] + SumFunctionOnSet(f, S \ {c})
<1> DEFINE Sum(T) == SumFunctionOnSet(f, T)
           Good == {T \in SUBSET S : \A d \in T : Sum(T) = f[d] + Sum(T \ {d})}
<1>1. ASSUME NEW T \in SUBSET S, \A U \in SUBSET T : U # T => U \in Good,
             NEW d \in T
      PROVE  Sum(T) = f[d] + Sum(T \ {d})
  <2>1. IsFiniteSet(T)
    BY FS_Subset
  <2>2. PICK x \in T : Sum(T) = f[x] + Sum(T \ {x})
    BY <2>1, SumChosen
  <2>3. CASE x = d
    BY <2>2, <2>3
  <2>4. CASE x # d
    <3> DEFINE W == (T \ {x}) \ {d}
    <3>1. W = (T \ {d}) \ {x} /\ IsFiniteSet(W) /\ \A y \in W : f[y] \in Nat
      BY <2>1, FS_Difference
    <3>2. Sum(W) \in Nat /\ f[x] \in Nat /\ f[d] \in Nat
      BY <3>1, SumTyped
    <3>3. T \ {x} \in Good /\ T \ {d} \in Good
      BY <1>1
    <3>4. d \in T \ {x} /\ x \in T \ {d}
      BY <2>4
    <3>5. Sum(T \ {x}) = f[d] + Sum(W)
      BY <3>3, <3>4
    <3>6. Sum(T \ {d}) = f[x] + Sum(W)
      BY <3>1, <3>3, <3>4
    <3> HIDE DEF W, Sum
    <3>7. QED
      BY <2>2, <3>2, <3>5, <3>6
  <2>5. QED
    BY <2>3, <2>4
<1>2. \A T \in SUBSET S : (\A U \in SUBSET T : U # T => U \in Good) => T \in Good
  BY <1>1
<1> HIDE DEF Good
<1>3. S \in Good
  BY <1>2, FiniteSetsByInduction
<1>4. QED
  BY <1>3 DEF Good

\* Larger values have a larger sum, and so do more of them.
LEMMA SumGrows ==
    ASSUME NEW f, NEW h, NEW S, IsFiniteSet(S),
           \A x \in S : f[x] \in Nat /\ h[x] \in Nat /\ f[x] <= h[x]
    PROVE  SumFunctionOnSet(f, S) <= SumFunctionOnSet(h, S)
<1> DEFINE Good == {T \in SUBSET S : SumFunctionOnSet(f, T) <= SumFunctionOnSet(h, T)}
<1>1. ASSUME NEW T \in SUBSET S, \A U \in SUBSET T : U # T => U \in Good
      PROVE  T \in Good
  <2>1. IsFiniteSet(T)
    BY FS_Subset
  <2>2. CASE T = {}
    <3>1. SumFunctionOnSet(f, T) = 0 /\ SumFunctionOnSet(h, T) = 0
      BY <2>1, <2>2, SumChosen
    <3>2. QED
      BY <3>1
  <2>3. CASE T # {}
    <3>1. PICK x \in T : TRUE
      BY <2>3
    <3> DEFINE W == T \ {x}
    <3>2. IsFiniteSet(W) /\ W \in Good
      BY <1>1, <2>1, FS_RemoveElement
    <3>3. /\ SumFunctionOnSet(f, T) = f[x] + SumFunctionOnSet(f, W)
          /\ SumFunctionOnSet(h, T) = h[x] + SumFunctionOnSet(h, W)
      BY <2>1, SumWithout
    <3>4. SumFunctionOnSet(f, W) \in Nat /\ SumFunctionOnSet(h, W) \in Nat
      BY <3>2, SumTyped
    <3>5. f[x] \in Nat /\ h[x] \in Nat /\ f[x] <= h[x]
      OBVIOUS
    <3> HIDE DEF W
    <3>6. QED
      BY <3>2, <3>3, <3>4, <3>5
  <2>4. QED
    BY <2>2, <2>3
<1> HIDE DEF Good
<1>2. S \in Good
  BY <1>1, FiniteSetsByInduction
<1>3. QED
  BY <1>2 DEF Good

LEMMA SumOfMore ==
    ASSUME NEW f, NEW S, IsFiniteSet(S), \A x \in S : f[x] \in Nat, NEW R \in SUBSET S
    PROVE  SumFunctionOnSet(f, R) <= SumFunctionOnSet(f, S)
<1> DEFINE Good == {T \in SUBSET S :
                      R \subseteq T => SumFunctionOnSet(f, R) <= SumFunctionOnSet(f, T)}
<1>1. ASSUME NEW T \in SUBSET S, \A U \in SUBSET T : U # T => U \in Good, R \subseteq T
      PROVE  SumFunctionOnSet(f, R) <= SumFunctionOnSet(f, T)
  <2>1. IsFiniteSet(T) /\ IsFiniteSet(R)
    BY FS_Subset
  <2>2. SumFunctionOnSet(f, R) \in Nat /\ SumFunctionOnSet(f, T) \in Nat
    BY <2>1, SumTyped
  <2>3. CASE T = R
    BY <2>2, <2>3
  <2>4. CASE T # R
    <3>1. PICK x \in T : x \notin R
      BY <1>1, <2>4
    <3> DEFINE W == T \ {x}
    <3>2. IsFiniteSet(W) /\ W \in Good /\ R \subseteq W
      BY <1>1, <2>1, <3>1, FS_RemoveElement
    <3>3. SumFunctionOnSet(f, T) = f[x] + SumFunctionOnSet(f, W)
      BY <2>1, SumWithout
    <3>4. SumFunctionOnSet(f, W) \in Nat /\ f[x] \in Nat
      BY <3>2, SumTyped
    <3> HIDE DEF W
    <3>5. QED
      BY <2>2, <3>2, <3>3, <3>4
  <2>5. QED
    BY <2>3, <2>4
<1>2. \A T \in SUBSET S : (\A U \in SUBSET T : U # T => U \in Good) => T \in Good
  BY <1>1
<1> HIDE DEF Good
<1>3. S \in Good
  BY <1>2, FiniteSetsByInduction
<1>4. QED
  BY <1>3 DEF Good

-----------------------------------------------------------------------------
(* Counting: what a batch adds to the count of an aggregate.               *)

CountOf(a, k) == IF k \in DOMAIN a THEN a[k].count ELSE 0

LEMMA CountTyped ==
    ASSUME NEW a \in Aggregates, NEW k
    PROVE  CountOf(a, k) \in Nat /\ CountOf(a, k) <= MaxCount /\ MaxCount \in Nat
<1>1. \A j \in DOMAIN a : a[j] \in Aggregate
  BY AggregatesTyped
<1>2. QED
  BY <1>1, AggregateTyped, AggregateAssumption DEF CountOf

LEMMA FactCounts ==
    ASSUME NEW a \in Aggregates, NEW fact \in Fact, NEW k
    PROVE  CountOf(WithFact(a, fact), k) =
             IF k = fact.key /\ CountOf(a, k) < MaxCount THEN CountOf(a, k) + 1
             ELSE CountOf(a, k)
<1> DEFINE b == WithFact(a, fact)
<1>1. /\ DOMAIN b = DOMAIN a \cup {fact.key}
      /\ \A j \in DOMAIN a \ {fact.key} : b[j] = a[j]
      /\ b[fact.key] = IF fact.key \in DOMAIN a THEN Add(a[fact.key], fact)
                       ELSE NewAggregate(fact)
  BY OneMoreFact
<1> HIDE DEF b
<1>2. (\A j \in DOMAIN a : a[j] \in Aggregate) /\ MaxCount \in Nat /\ 0 < MaxCount
  BY AggregatesTyped, AggregateAssumption
<1>3. CASE k # fact.key
  BY <1>1, <1>3 DEF CountOf, b
<1>4. CASE k = fact.key /\ k \in DOMAIN a
  <2>1. b[k] = Add(a[k], fact) /\ a[k] \in Aggregate
    BY <1>1, <1>2, <1>4
  <2>2. b[k].count = IF a[k].count < MaxCount THEN a[k].count + 1 ELSE MaxCount
    BY <2>1, Added
  <2>3. a[k].count \in Nat /\ a[k].count <= MaxCount
    BY <2>1, AggregateTyped
  <2>4. CountOf(b, k) = b[k].count /\ CountOf(a, k) = a[k].count
    BY <1>1, <1>4 DEF CountOf
  <2>5. QED
    BY <1>2, <1>4, <2>2, <2>3, <2>4 DEF b
<1>5. CASE k = fact.key /\ k \notin DOMAIN a
  <2>1. b[k].count = 1
    BY <1>1, <1>5, Started
  <2>2. CountOf(b, k) = 1 /\ CountOf(a, k) = 0
    BY <1>1, <1>5, <2>1 DEF CountOf
  <2>3. QED
    BY <1>2, <1>5, <2>2 DEF b
<1>6. QED
  BY <1>3, <1>4, <1>5

\* The positions of an identity in a batch.
At(batch, n, k) == {j \in 1..n : batch[j].key = k}

LEMMA OneMorePosition ==
    ASSUME NEW batch, NEW n \in Nat, NEW k
    PROVE  /\ Cardinality(At(batch, n, k)) \in Nat
           /\ Cardinality(At(batch, 0, k)) = 0
           /\ batch[n + 1].key = k =>
                 Cardinality(At(batch, n + 1, k)) = Cardinality(At(batch, n, k)) + 1
           /\ batch[n + 1].key # k =>
                 Cardinality(At(batch, n + 1, k)) = Cardinality(At(batch, n, k))
<1>1. IsFiniteSet(At(batch, n, k))
  <2>1. IsFiniteSet(1..n)
    BY FS_Interval
  <2>2. At(batch, n, k) \in SUBSET (1..n)
    BY DEF At
  <2>3. QED
    BY <2>1, <2>2, FS_Subset
<1>2. Cardinality(At(batch, n, k)) \in Nat
  BY <1>1, FS_CardinalityType
<1>3. At(batch, 0, k) = {}
  BY DEF At
<1>4. n + 1 \notin At(batch, n, k)
  BY DEF At
<1>5. CASE batch[n + 1].key = k
  <2>1. At(batch, n + 1, k) = At(batch, n, k) \cup {n + 1}
    BY <1>5 DEF At
  <2>2. Cardinality(At(batch, n + 1, k)) = Cardinality(At(batch, n, k)) + 1
    BY <1>1, <1>4, <2>1, FS_AddElement
  <2>3. QED
    BY <1>2, <1>3, <1>5, <2>2, FS_EmptySet
<1>6. CASE batch[n + 1].key # k
  <2>1. At(batch, n + 1, k) = At(batch, n, k)
    BY <1>6 DEF At
  <2>2. QED
    BY <1>2, <1>3, <1>6, <2>1, FS_EmptySet
<1>7. QED
  BY <1>5, <1>6

\* A batch adds to a count as many as it has facts of the identity, and stops at
\* the largest count.
LEMMA BatchCounts ==
    ASSUME NEW before \in Aggregates, NEW batch \in Seq(Fact), NEW k
    PROVE  LET total == CountOf(before, k) + Cardinality(At(batch, Len(batch), k))
           IN  CountOf(WithBatch(before, batch), k) =
                 IF total < MaxCount THEN total ELSE MaxCount
<1> DEFINE n == Len(batch)
           Capped(t) == IF t < MaxCount THEN t ELSE MaxCount
<1>1. n \in Nat /\ \A j \in 1..n : batch[j] \in Fact
  OBVIOUS
<1>2. PICK g : IsRun(g, before, batch, n)
  BY <1>1, RunExists
<1>3. WithBatch(before, batch) = g[n]
  BY <1>1, <1>2, WithBatchIs
<1> HIDE DEF n
<1> DEFINE Hits(i) == Cardinality(At(batch, i, k))
           Good(i) == /\ g[i] \in Aggregates
                      /\ CountOf(g[i], k) = Capped(CountOf(before, k) + Hits(i))
           Bad == {i \in 0..n : ~Good(i)}
<1>4. Bad = {}
  <2> SUFFICES ASSUME Bad # {} PROVE FALSE
    OBVIOUS
  <2>1. PICK m \in Bad : \A i \in Bad : m <= i
    <3>1. Bad \in SUBSET Nat
      BY <1>1
    <3> HIDE DEF Bad
    <3>2. QED
      BY <3>1, LeastNumber
  <2>2. m \in 0..n /\ ~Good(m) /\ m \in Nat
    BY <1>1, <2>1
  <2>3. g[m] = IF m = 0 THEN before ELSE WithFact(g[m - 1], batch[m])
    BY <1>2, <2>2 DEF IsRun
  <2>4. CASE m = 0
    <3>1. g[0] = before /\ Hits(0) = 0
      BY <2>3, <2>4, OneMorePosition
    <3>2. Good(0)
      BY <3>1, CountTyped
    <3> HIDE DEF Good
    <3>3. QED
      BY <2>2, <2>4, <3>2
  <2>5. CASE m # 0
    <3>1. m - 1 \in 0..n /\ m - 1 \in Nat /\ ~(m <= m - 1) /\ (m - 1) + 1 = m
      BY <1>1, <2>2, <2>5
    <3>2. Good(m - 1)
      BY <2>1, <3>1
    <3>3. batch[m] \in Fact /\ g[m] = WithFact(g[m - 1], batch[m])
      BY <1>1, <2>2, <2>3, <2>5
    <3>4. g[m] \in Aggregates
      BY <3>2, <3>3, WithFactTyped
    <3>5. CountOf(g[m], k) =
            IF k = batch[m].key /\ CountOf(g[m - 1], k) < MaxCount
            THEN CountOf(g[m - 1], k) + 1 ELSE CountOf(g[m - 1], k)
      BY <3>2, <3>3, FactCounts
    <3>6. /\ Hits(m - 1) \in Nat
          /\ Hits(m) = IF batch[m].key = k THEN Hits(m - 1) + 1 ELSE Hits(m - 1)
      <4>1. PICK p \in Nat : p = m - 1 /\ p + 1 = m
        BY <3>1
      <4>2. Cardinality(At(batch, p, k)) \in Nat
        BY <4>1, OneMorePosition, Zenon
      <4>3. /\ batch[p + 1].key = k =>
                  Cardinality(At(batch, p + 1, k)) = Cardinality(At(batch, p, k)) + 1
            /\ batch[p + 1].key # k =>
                  Cardinality(At(batch, p + 1, k)) = Cardinality(At(batch, p, k))
        BY <4>1, OneMorePosition, Zenon
      <4>4. /\ Hits(p) \in Nat
            /\ Hits(p + 1) = IF batch[p + 1].key = k THEN Hits(p) + 1 ELSE Hits(p)
        BY <4>2, <4>3
      <4> HIDE DEF Hits
      <4>5. QED
        BY <4>1, <4>4
    <3>7. CountOf(before, k) \in Nat /\ MaxCount \in Nat
      BY CountTyped
    <3>8. CountOf(g[m - 1], k) = Capped(CountOf(before, k) + Hits(m - 1))
      BY <3>2
    <3> HIDE DEF Hits
    <3>9. CountOf(g[m], k) = Capped(CountOf(before, k) + Hits(m))
      BY <3>5, <3>6, <3>7, <3>8
    <3>10. Good(m)
      BY <3>4, <3>9
    <3> HIDE DEF Good
    <3>11. QED
      BY <2>2, <3>10
  <2>6. QED
    BY <2>4, <2>5
<1>5. Good(n)
  BY <1>1, <1>4
<1>6. CountOf(g[n], k) = Capped(CountOf(before, k) + Hits(n))
  BY <1>5
<1>7. QED
  BY <1>3, <1>6 DEF n

-----------------------------------------------------------------------------
(* Counting: the inductive invariant.                                      *)

\* Exporters that were told of a success, or are about to be if they still wait.
Settled ==
    {c \in Client : \/ phase[c] = "acked"
                    \/ \E i \in Attempt : /\ handler[c][i].stage = "answer"
                                          /\ handler[c][i].status = 200}

\* The attempts of c that record nothing any more.
Over(c) == {i \in Attempt : i <= sent[c] /\ handler[c][i].stage \notin {"receive", "ingest"}}

Low(k) == SumFunctionOnSet([c \in Client |-> Occurrences(c, k)], Settled)

High(k) == SumFunctionOnSet([c \in Client |-> Cardinality(Over(c)) * Occurrences(c, k)],
                            {c \in Client : request[c].storable})

\* A handler belongs to an attempt that was made.
SentInv == \A c \in Client, i \in Attempt : handler[c][i].stage # "none" => i <= sent[c]

\* The count is no less than what was settled, but for the largest count, and no more
\* than what the attempts that are over can have recorded.
CountInv ==
    Durable => \A k \in Key : /\ CountOf(aggregates, k) >= Low(k)
                                 \/ CountOf(aggregates, k) = MaxCount
                              /\ CountOf(aggregates, k) <= High(k)

DeliveryInv == IngestInv /\ SentInv /\ CountInv

LEMMA Product ==
    ASSUME NEW a \in Nat, NEW b \in Nat, NEW n \in Nat, a <= b
    PROVE  /\ a * n \in Nat /\ b * n \in Nat /\ a * n <= b * n
           /\ (a + 1) * n = a * n + n
<1>1. PICK d \in Nat : b = a + d
  <2>1. b - a \in Nat /\ b = a + (b - a)
    OBVIOUS
  <2>2. QED
    BY <2>1
<1>2. a * n \in Nat /\ d * n \in Nat /\ b * n = a * n + d * n
  BY <1>1
<1>3. (a + 1) * n = a * n + n
  OBVIOUS
<1>4. QED
  BY <1>2, <1>3

LEMMA CountsTyped ==
    ASSUME TypeOK, NEW c \in Client, NEW k
    PROVE  /\ IsFiniteSet(Client) /\ IsFiniteSet(Over(c))
           /\ Occurrences(c, k) \in Nat
           /\ Occurrences(c, k) = Cardinality(At(request[c].payload, Len(request[c].payload), k))
           /\ Cardinality(Over(c)) \in 0..sent[c]
           /\ sent[c] \in Nat
<1>1. request[c].payload \in Seq(Fact)
  BY RequestTyped
<1>2. /\ Len(request[c].payload) \in Nat
      /\ DOMAIN request[c].payload = 1..Len(request[c].payload)
  BY <1>1
<1>3. Occurrences(c, k) = Cardinality(At(request[c].payload, Len(request[c].payload), k))
  BY <1>2 DEF Occurrences, At
<1>4. Occurrences(c, k) \in Nat
  BY <1>2, <1>3, OneMorePosition
<1>5. sent[c] \in Nat
  BY IngestAssumption DEF TypeOK
<1>6. Over(c) \in SUBSET (1..sent[c])
  BY <1>5 DEF Over, Attempt
<1>7. IsFiniteSet(1..sent[c]) /\ Cardinality(1..sent[c]) = sent[c]
  BY <1>5, FS_Interval
<1>8. IsFiniteSet(Over(c)) /\ Cardinality(Over(c)) <= sent[c]
  BY <1>6, <1>7, FS_Subset
<1>9. Cardinality(Over(c)) \in 0..sent[c]
  BY <1>5, <1>8, FS_CardinalityType
<1>10. QED
  BY <1>3, <1>4, <1>5, <1>8, <1>9, IngestAssumption

\* The two bounds are numbers.
LEMMA BoundsTyped ==
    ASSUME TypeOK, NEW k
    PROVE  Low(k) \in Nat /\ High(k) \in Nat
<1> DEFINE storable == {c \in Client : request[c].storable}
           occ == [c \in Client |-> Occurrences(c, k)]
           rec == [c \in Client |-> Cardinality(Over(c)) * Occurrences(c, k)]
<1>1. IsFiniteSet(Client)
  BY IngestAssumption
<1>2. /\ IsFiniteSet(Settled) /\ Settled \subseteq Client
      /\ IsFiniteSet(storable) /\ storable \subseteq Client
  BY <1>1, FS_Subset DEF Settled
<1>3. ASSUME NEW c \in Client PROVE occ[c] \in Nat /\ rec[c] \in Nat
  <2>1. Occurrences(c, k) \in Nat /\ Cardinality(Over(c)) \in Nat
    BY CountsTyped
  <2>2. QED
    BY <2>1, Product
<1> HIDE DEF storable, occ, rec
<1>4. SumFunctionOnSet(occ, Settled) \in Nat /\ SumFunctionOnSet(rec, storable) \in Nat
  BY <1>2, <1>3, SumTyped
<1>5. QED
  BY <1>4 DEF Low, High, storable, occ, rec

LEMMA BoundsTypedNext ==
    (TypeOK => \A k : Low(k) \in Nat /\ High(k) \in Nat)'
<1>1. TypeOK => \A k : Low(k) \in Nat /\ High(k) \in Nat
  BY BoundsTyped
<1>2. QED
  BY <1>1, PTL

\* How the lower bound moves if at most c is settled by a step.
LEMMA LowMoves ==
    ASSUME TypeOK, TypeOK', request' = request, NEW k, NEW c \in Client,
           Settled' \subseteq Settled \cup {c}
    PROVE  /\ Low(k)' <= Low(k) + Occurrences(c, k)
           /\ Settled' \subseteq Settled => Low(k)' <= Low(k)
<1> DEFINE occ == [d \in Client |-> Occurrences(d, k)]
           S == Settled
           T == Settled \cup {c}
           R == Settled'
<1>1. \A d \in Client : Occurrences(d, k)' = Occurrences(d, k)
  BY DEF Occurrences
<1>2. Low(k) = SumFunctionOnSet(occ, S) /\ Low(k)' = SumFunctionOnSet(occ, R)
  <2>1. [d \in Client |-> Occurrences(d, k)'] = occ
    BY <1>1
  <2>2. QED
    BY <2>1 DEF Low
<1>3. S \subseteq Client /\ T \subseteq Client /\ R \subseteq T /\ T = S \cup {c} /\ c \in T
  BY DEF Settled
<1>4. \A d \in Client : occ[d] \in Nat
  BY CountsTyped
<1>5. occ[c] = Occurrences(c, k)
  OBVIOUS
<1>6. Settled' \subseteq Settled <=> R \subseteq S
  OBVIOUS
<1> HIDE DEF occ, S, T, R
<1>7. IsFiniteSet(S) /\ IsFiniteSet(T) /\ IsFiniteSet(T \ {c})
  BY <1>3, IngestAssumption, FS_Subset
<1>8. \A d \in T : occ[d] \in Nat
  BY <1>3, <1>4
<1>9. SumFunctionOnSet(occ, R) <= SumFunctionOnSet(occ, T)
  BY <1>3, <1>7, <1>8, SumOfMore
<1>10. SumFunctionOnSet(occ, T) = occ[c] + SumFunctionOnSet(occ, T \ {c})
  BY <1>3, <1>7, <1>8, SumWithout
<1>11. SumFunctionOnSet(occ, T \ {c}) <= SumFunctionOnSet(occ, S)
  <2>1. T \ {c} \in SUBSET S /\ \A d \in S : occ[d] \in Nat
    BY <1>3, <1>4
  <2>2. QED
    BY <1>7, <2>1, SumOfMore
<1>12. /\ SumFunctionOnSet(occ, R) \in Nat /\ SumFunctionOnSet(occ, S) \in Nat
       /\ SumFunctionOnSet(occ, T) \in Nat /\ SumFunctionOnSet(occ, T \ {c}) \in Nat
       /\ occ[c] \in Nat
  <2>1. IsFiniteSet(R)
    BY <1>3, <1>7, FS_Subset
  <2>2. /\ \A d \in R : occ[d] \in Nat
        /\ \A d \in S : occ[d] \in Nat
        /\ \A d \in T \ {c} : occ[d] \in Nat
    BY <1>3, <1>4
  <2>3. QED
    BY <1>4, <1>7, <1>8, <2>1, <2>2, SumTyped
<1>13. SumFunctionOnSet(occ, R) <= SumFunctionOnSet(occ, S) + occ[c]
  BY <1>9, <1>10, <1>11, <1>12
<1>14. R \subseteq S => SumFunctionOnSet(occ, R) <= SumFunctionOnSet(occ, S)
  <2>1. \A d \in S : occ[d] \in Nat
    BY <1>3, <1>4
  <2>2. QED
    BY <1>7, <2>1, SumOfMore
<1>15. QED
  BY <1>2, <1>5, <1>6, <1>13, <1>14

\* How the upper bound moves if no attempt that was over comes back.
LEMMA HighMoves ==
    ASSUME TypeOK, TypeOK', request' = request, NEW k,
           \A d \in Client : Over(d) \subseteq Over(d)'
    PROVE  /\ High(k) <= High(k)'
           /\ \A c \in Client : request[c].storable /\ Over(c)' # Over(c)
                => High(k) + Occurrences(c, k) <= High(k)'
<1> DEFINE S == {d \in Client : request[d].storable}
           old == [d \in Client |-> Cardinality(Over(d)) * Occurrences(d, k)]
           new == [d \in Client |-> Cardinality(Over(d)') * Occurrences(d, k)]
<1>1. \A d \in Client : Occurrences(d, k)' = Occurrences(d, k)
  BY DEF Occurrences
<1>2. High(k) = SumFunctionOnSet(old, S) /\ High(k)' = SumFunctionOnSet(new, S)
  <2>1. [d \in Client |-> Cardinality(Over(d)') * Occurrences(d, k)'] = new
    BY <1>1
  <2>2. {d \in Client : request'[d].storable} = S
    OBVIOUS
  <2> HIDE DEF new, S
  <2>3. High(k)' = SumFunctionOnSet(new, S)
    BY <2>1, <2>2 DEF High
  <2>4. QED
    BY <2>3 DEF High, S
<1>3. ASSUME NEW d \in Client
      PROVE  /\ old[d] \in Nat /\ new[d] \in Nat /\ old[d] <= new[d]
             /\ Over(d)' # Over(d) => old[d] + Occurrences(d, k) <= new[d]
  <2>1. /\ IsFiniteSet(Over(d)) /\ Occurrences(d, k) \in Nat /\ Cardinality(Over(d)) \in Nat
    BY CountsTyped
  <2>2. IsFiniteSet(Over(d)') /\ Cardinality(Over(d)') \in Nat
    <3>1. Over(d)' \in SUBSET Attempt
      BY DEF Over
    <3>2. IsFiniteSet(Attempt)
      BY IngestAssumption, FS_Interval DEF Attempt
    <3>3. QED
      BY <3>1, <3>2, FS_Subset, FS_CardinalityType
  <2>3. /\ Cardinality(Over(d)) <= Cardinality(Over(d)')
        /\ Over(d)' # Over(d) => Cardinality(Over(d)) + 1 <= Cardinality(Over(d)')
    BY <2>1, <2>2, FS_Subset
  <2> DEFINE a == Cardinality(Over(d))
             b == Cardinality(Over(d)')
             n == Occurrences(d, k)
  <2>4. old[d] = a * n /\ new[d] = b * n
    OBVIOUS
  <2>5. a \in Nat /\ b \in Nat /\ n \in Nat /\ a <= b
    BY <2>1, <2>2, <2>3
  <2>6. Over(d)' # Over(d) => a + 1 <= b
    BY <2>3
  <2> HIDE DEF a, b, n, old, new
  <2>7. a * n \in Nat /\ b * n \in Nat /\ a * n <= b * n /\ (a + 1) * n = a * n + n
    BY <2>5, Product
  <2>8. a + 1 <= b => (a + 1) * n <= b * n
    BY <2>5, Product
  <2>9. QED
    BY <2>4, <2>6, <2>7, <2>8 DEF n
<1>4. S \subseteq Client /\ IsFiniteSet(S)
  BY IngestAssumption, FS_Subset
<1>5. \A d \in Client : request[d].storable => d \in S
  OBVIOUS
<1> HIDE DEF S, old, new
<1>6. SumFunctionOnSet(old, S) <= SumFunctionOnSet(new, S)
  <2>1. \A d \in S : old[d] \in Nat /\ new[d] \in Nat /\ old[d] <= new[d]
    BY <1>3, <1>4
  <2>2. QED
    BY <1>4, <2>1, SumGrows
<1>7. ASSUME NEW c \in Client, request[c].storable, Over(c)' # Over(c)
      PROVE  SumFunctionOnSet(old, S) + Occurrences(c, k) <= SumFunctionOnSet(new, S)
  <2> DEFINE W == S \ {c}
  <2>1. c \in S
    BY <1>5, <1>7
  <2>2. /\ \A d \in S : old[d] \in Nat /\ new[d] \in Nat
        /\ \A d \in W : old[d] \in Nat /\ new[d] \in Nat /\ old[d] <= new[d]
    BY <1>3, <1>4
  <2>3. IsFiniteSet(W)
    BY <1>4, FS_RemoveElement
  <2>4. /\ SumFunctionOnSet(old, S) = old[c] + SumFunctionOnSet(old, W)
        /\ SumFunctionOnSet(new, S) = new[c] + SumFunctionOnSet(new, W)
    BY <1>4, <2>1, <2>2, SumWithout
  <2> HIDE DEF W
  <2>5. SumFunctionOnSet(old, W) <= SumFunctionOnSet(new, W)
    BY <2>2, <2>3, SumGrows
  <2>6. SumFunctionOnSet(old, W) \in Nat /\ SumFunctionOnSet(new, W) \in Nat
    BY <2>2, <2>3, SumTyped
  <2>7. old[c] \in Nat /\ new[c] \in Nat /\ old[c] + Occurrences(c, k) <= new[c]
    BY <1>3, <1>7
  <2>8. Occurrences(c, k) \in Nat
    BY CountsTyped
  <2>9. QED
    BY <2>4, <2>5, <2>6, <2>7, <2>8
<1>8. QED
  BY <1>2, <1>6, <1>7

\* A step that adds to the counts what the request of c has, or nothing.
LEMMA BoundsKept ==
    ASSUME TypeOK, TypeOK', CountInv, request' = request, NEW c \in Client,
           Settled' \subseteq Settled \cup {c},
           \A d \in Client : Over(d) \subseteq Over(d)',
           \/ /\ Durable => aggregates' = aggregates
              /\ Settled' \subseteq Settled \/ request[c].payload = <<>>
           \/ /\ aggregates' = WithBatch(aggregates, request[c].payload)
              /\ request[c].storable /\ Over(c)' # Over(c)
    PROVE  CountInv'
<1> SUFFICES ASSUME Durable, NEW k \in Key
             PROVE  /\ CountOf(aggregates, k)' >= Low(k)' \/ CountOf(aggregates, k)' = MaxCount
                    /\ CountOf(aggregates, k)' <= High(k)'
  BY DEF CountInv
<1> DEFINE old == CountOf(aggregates, k)
           new == CountOf(aggregates, k)'
           w == Occurrences(c, k)
<1>1. /\ Low(k)' <= Low(k) + w
      /\ Settled' \subseteq Settled => Low(k)' <= Low(k)
  BY LowMoves
<1>2. /\ High(k) <= High(k)'
      /\ request[c].storable /\ Over(c)' # Over(c) => High(k) + w <= High(k)'
  BY HighMoves
<1>3. w \in Nat /\ w = Cardinality(At(request[c].payload, Len(request[c].payload), k))
  BY CountsTyped
<1>4. Low(k) \in Nat /\ High(k) \in Nat
  BY BoundsTyped
<1>5. Low(k)' \in Nat /\ High(k)' \in Nat
  BY BoundsTypedNext
<1>6. old \in Nat /\ old <= MaxCount /\ MaxCount \in Nat
  BY CountTyped DEF TypeOK
<1>7. (old >= Low(k) \/ old = MaxCount) /\ old <= High(k)
  BY DEF CountInv
<1>8. CASE /\ Durable => aggregates' = aggregates
           /\ Settled' \subseteq Settled \/ request[c].payload = <<>>
  <2>1. new = old
    BY <1>8
  <2>2. Low(k)' <= Low(k)
    <3>1. CASE Settled' \subseteq Settled
      BY <1>1, <3>1
    <3>2. CASE request[c].payload = <<>>
      <4>1. w = 0
        <5>1. Len(request[c].payload) = 0
          BY <3>2
        <5>2. Cardinality(At(request[c].payload, 0, k)) = 0
          BY OneMorePosition, Zenon
        <5>3. QED
          BY <1>3, <5>1, <5>2
      <4>2. QED
        BY <1>1, <1>4, <4>1
    <3>3. QED
      BY <1>8, <3>1, <3>2
  <2> HIDE DEF old, new, w
  <2>3. QED
    BY <1>2, <1>4, <1>5, <1>6, <1>7, <2>1, <2>2 DEF new
<1>9. CASE /\ aggregates' = WithBatch(aggregates, request[c].payload)
           /\ request[c].storable /\ Over(c)' # Over(c)
  <2>1. new = IF old + w < MaxCount THEN old + w ELSE MaxCount
    <3>1. request[c].payload \in Seq(Fact) /\ aggregates \in Aggregates
      BY RequestTyped DEF TypeOK
    <3>2. CountOf(WithBatch(aggregates, request[c].payload), k) =
            IF old + w < MaxCount THEN old + w ELSE MaxCount
      BY <1>3, <3>1, BatchCounts
    <3>3. new = CountOf(WithBatch(aggregates, request[c].payload), k)
      BY <1>9
    <3>4. QED
      BY <3>2, <3>3
  <2>2. High(k) + w <= High(k)'
    BY <1>2, <1>9
  <2> HIDE DEF old, new, w
  <2>3. QED
    BY <1>1, <1>3, <1>4, <1>5, <1>6, <1>7, <2>1, <2>2 DEF new
<1>10. QED
  BY <1>8, <1>9

\* A handler that was receiving or recording goes on.
LEMMA HandlerCounts ==
    ASSUME IngestInv, SentInv, NEW c \in Client, NEW i \in Attempt, UNCHANGED exporters,
           handler[c][i].stage \in {"receive", "ingest"},
           NEW stage \in Stage, NEW status \in Status, Goes(c, i, stage, status)
    PROVE  /\ SentInv' /\ request' = request
           /\ Settled' \subseteq Settled \cup {c}
           /\ Settled' \subseteq Settled \/ (stage = "answer" /\ status = 200)
           /\ \A d \in Client : Over(d) \subseteq Over(d)'
           /\ stage = "answer" => Over(c)' # Over(c)
<1>1. TypeOK
  BY DEF IngestInv
<1>2. /\ handler'[c][i].stage = stage /\ handler'[c][i].status = status
      /\ \A d \in Client, j \in Attempt : d # c \/ j # i => handler'[d][j] = handler[d][j]
  BY <1>1, HandlerGoes
<1>3. phase' = phase /\ sent' = sent /\ request' = request
  BY DEF exporters, given
<1>4. handler[c][i].stage # "none" /\ handler[c][i].stage # "answer" /\ i <= sent[c]
  BY DEF SentInv
<1>5. ASSUME NEW d \in Client, NEW j \in Attempt, handler'[d][j].stage # "none"
      PROVE  j <= sent'[d]
  <2>1. CASE d = c /\ j = i
    BY <1>3, <1>4, <2>1
  <2>2. CASE d # c \/ j # i
    BY <1>2, <1>3, <1>5, <2>2 DEF SentInv
  <2>3. QED
    BY <2>1, <2>2
<1>6. SentInv'
  BY <1>5 DEF SentInv
<1>7. ASSUME NEW d \in Settled' PROVE d \in Settled \/ (d = c /\ stage = "answer" /\ status = 200)
  <2>1. d \in Client
    BY DEF Settled
  <2>2. CASE phase[d] = "acked"
    BY <2>1, <2>2 DEF Settled
  <2>3. CASE phase[d] # "acked"
    <3>1. PICK j \in Attempt : handler'[d][j].stage = "answer" /\ handler'[d][j].status = 200
      BY <1>3, <2>3 DEF Settled
    <3>2. CASE d = c /\ j = i
      BY <1>2, <3>1, <3>2
    <3>3. CASE d # c \/ j # i
      <4>1. handler[d][j].stage = "answer" /\ handler[d][j].status = 200
        BY <1>2, <2>1, <3>1, <3>3
      <4>2. QED
        BY <2>1, <4>1 DEF Settled
    <3>4. QED
      BY <3>2, <3>3
  <2>4. QED
    BY <2>2, <2>3
<1>8. ASSUME NEW d \in Client, NEW j \in Over(d) PROVE j \in Over(d)'
  <2>1. j \in Attempt /\ j <= sent[d] /\ handler[d][j].stage \notin {"receive", "ingest"}
    BY DEF Over
  <2>2. d # c \/ j # i
    BY <2>1
  <2>3. handler'[d][j] = handler[d][j]
    BY <1>2, <2>1, <2>2
  <2>4. QED
    BY <1>3, <2>1, <2>3 DEF Over
<1>9. ASSUME stage = "answer" PROVE Over(c)' # Over(c)
  <2>1. i \notin Over(c)
    BY DEF Over
  <2>2. i \in Over(c)'
    BY <1>2, <1>3, <1>4, <1>9 DEF Over
  <2>3. QED
    BY <2>1, <2>2
<1>10. QED
  BY <1>3, <1>6, <1>7, <1>8, <1>9

LEMMA HandlerKeepsCounts ==
    ASSUME DeliveryInv, NEW c \in Client, NEW i \in Attempt, Handles(c, i)
    PROVE  DeliveryInv'
<1>1. IngestInv /\ SentInv /\ CountInv /\ TypeOK /\ HandlerInv(c, i)
  BY DEF DeliveryInv, IngestInv
<1>2. IngestInv' /\ TypeOK'
  <2>1. IngestInv'
    BY <1>1, HandlerKeeps
  <2>2. QED
    BY <2>1 DEF IngestInv
<1>3. /\ {0, 200, 400, 413, 415, 503, 504} = Status
      /\ "none" \in Stage /\ "ingest" \in Stage /\ "answer" \in Stage
      /\ 0 \in Status /\ 200 \in Status /\ 400 \in Status /\ 503 \in Status /\ 504 \in Status
  BY DEF Stage, Status
<1>4. ASSUME UNCHANGED exporters, handler[c][i].stage \in {"receive", "ingest"},
             NEW stage \in Stage, NEW status \in Status, Goes(c, i, stage, status),
             \/ /\ Durable => aggregates' = aggregates
                /\ ~(stage = "answer" /\ status = 200) \/ request[c].payload = <<>>
             \/ /\ aggregates' = WithBatch(aggregates, request[c].payload)
                /\ request[c].storable /\ stage = "answer"
      PROVE  DeliveryInv'
  <2>1. /\ SentInv' /\ request' = request
        /\ Settled' \subseteq Settled \cup {c}
        /\ Settled' \subseteq Settled \/ (stage = "answer" /\ status = 200)
        /\ \A d \in Client : Over(d) \subseteq Over(d)'
        /\ stage = "answer" => Over(c)' # Over(c)
    BY <1>1, <1>4, HandlerCounts
  <2>2. CountInv'
    <3>1. \/ /\ Durable => aggregates' = aggregates
             /\ Settled' \subseteq Settled \/ request[c].payload = <<>>
          \/ /\ aggregates' = WithBatch(aggregates, request[c].payload)
             /\ request[c].storable /\ Over(c)' # Over(c)
      BY <1>4, <2>1
    <3>2. QED
      BY <1>1, <1>2, <2>1, <3>1, BoundsKept
  <2>3. QED
    BY <1>2, <2>1, <2>2 DEF DeliveryInv
<1>4a. ASSUME aggregates' = aggregates, UNCHANGED exporters,
              handler[c][i].stage \in {"receive", "ingest"},
              NEW stage \in Stage, NEW status \in Status, Goes(c, i, stage, status),
              stage # "answer" \/ status # 200 \/ request[c].payload = <<>>
       PROVE  DeliveryInv'
  BY <1>4, <1>4a
<1>4b. ASSUME aggregates' = WithBatch(aggregates, request[c].payload), UNCHANGED exporters,
              request[c].storable, handler[c][i].stage = "ingest",
              NEW status \in Status, Goes(c, i, "answer", status)
       PROVE  DeliveryInv'
  BY <1>3, <1>4, <1>4b
<1>5. ASSUME Receive(c, i) PROVE DeliveryInv'
  <2>1. /\ aggregates' = aggregates /\ UNCHANGED exporters /\ handler[c][i].stage = "receive"
    BY <1>5 DEF Receive
  <2>2. PICK status \in BodyStatuses(maxRequestBytes, request[c]) :
          IF status # 200 THEN Goes(c, i, "answer", status)
          ELSE IF ~Connected(c, i) THEN Goes(c, i, "answer", 503)
          ELSE IF Received(c) = <<>> THEN Goes(c, i, "answer", 200)
          ELSE Goes(c, i, "ingest", 0)
    BY <1>5 DEF Receive
  <2>3. CASE status # 200
    <3>1. Goes(c, i, "answer", status) /\ status \in Status
      BY <2>2, <2>3, StatusTyped
    <3>2. QED
      BY <1>3, <1>4a, <2>1, <2>3, <3>1
  <2>4. CASE status = 200 /\ ~Connected(c, i)
    <3>1. Goes(c, i, "answer", 503)
      BY <2>2, <2>4
    <3>2. QED
      BY <1>3, <1>4a, <2>1, <3>1
  <2>5. CASE status = 200 /\ Connected(c, i) /\ Received(c) = <<>>
    <3>1. Goes(c, i, "answer", 200)
      BY <2>2, <2>5
    <3>2. request[c].payload = <<>>
      BY <1>1, <2>2, <2>5, RequestTyped, TakenWhole DEF Received
    <3>3. QED
      BY <1>3, <1>4a, <2>1, <3>1, <3>2
  <2>6. CASE status = 200 /\ Connected(c, i) /\ Received(c) # <<>>
    <3>1. Goes(c, i, "ingest", 0)
      BY <2>2, <2>6
    <3>2. QED
      BY <1>3, <1>4a, <2>1, <3>1
  <2>7. QED
    BY <2>3, <2>4, <2>5, <2>6
<1>6. ASSUME ReceiveCutOff(c, i) PROVE DeliveryInv'
  <2>1. /\ aggregates' = aggregates /\ UNCHANGED exporters /\ handler[c][i].stage = "receive"
        /\ Goes(c, i, "answer", 400)
    BY <1>6 DEF ReceiveCutOff
  <2>2. QED
    BY <1>3, <1>4a, <2>1
<1>7. ASSUME UpsertBatch(Received(c)), handler[c][i].stage = "ingest"
      PROVE  aggregates' = WithBatch(aggregates, request[c].payload)
  <2>1. Received(c) = request[c].payload
    BY <1>1, <1>7, RequestTyped, TakenWhole DEF Received, HandlerInv
  <2>2. QED
    BY <1>7, <2>1 DEF UpsertBatch
<1>8. ASSUME Ingest(c, i) PROVE DeliveryInv'
  <2>1. /\ UNCHANGED exporters /\ handler[c][i].stage = "ingest" /\ request[c].storable
        /\ Goes(c, i, "answer", 200) /\ UpsertBatch(Received(c))
    BY <1>8 DEF Ingest
  <2>2. QED
    BY <1>3, <1>4b, <1>7, <2>1
<1>9. ASSUME IngestFails(c, i) PROVE DeliveryInv'
  <2>1. /\ UNCHANGED exporters /\ handler[c][i].stage = "ingest"
        /\ \/ UNCHANGED aggregates
           \/ request[c].storable /\ UpsertBatch(Received(c))
        /\ \E status \in {503, 504} : Goes(c, i, "answer", status)
    BY <1>9 DEF IngestFails
  <2>2. PICK status \in {503, 504} : Goes(c, i, "answer", status)
    BY <2>1
  <2>3. QED
    BY <1>3, <1>4a, <1>4b, <1>7, <2>1, <2>2
<1>10. ASSUME IngestRefused(c, i) PROVE DeliveryInv'
  <2>1. /\ aggregates' = aggregates /\ UNCHANGED exporters /\ handler[c][i].stage = "ingest"
        /\ Goes(c, i, "answer", 503)
    BY <1>10 DEF IngestRefused
  <2>2. QED
    BY <1>3, <1>4a, <2>1
<1>11. ASSUME Answer(c, i) PROVE DeliveryInv'
  <2>1. /\ aggregates' = aggregates /\ request' = request /\ sent' = sent
        /\ handler[c][i].stage = "answer" /\ Goes(c, i, "none", 0)
        /\ phase' = IF Connected(c, i)
                    THEN [phase EXCEPT ![c] = AfterAnswer(handler[c][i].status)]
                    ELSE phase
    BY <1>11 DEF Answer, given
  <2>2. /\ phase \in [Client -> {"idle", "waiting", "acked", "dropped"}]
        /\ handler[c][i].status \in Status \ {0}
    BY <1>1, <2>1 DEF TypeOK, HandlerInv
  <2>3. AfterAnswer(handler[c][i].status) = "acked" => handler[c][i].status = 200
    BY <1>3, <2>2 DEF AfterAnswer
  <2>4. \A d \in Client : phase'[d] = "acked" =>
          phase[d] = "acked" \/ (d = c /\ handler[c][i].status = 200)
    BY <2>1, <2>2, <2>3
  <2>5. /\ handler'[c][i].stage = "none"
        /\ \A d \in Client, j \in Attempt : d # c \/ j # i => handler'[d][j] = handler[d][j]
    BY <1>1, <1>3, <2>1, HandlerGoes
  <2>6. SentInv'
    BY <1>1, <2>1, <2>5 DEF SentInv
  <2>7. Settled' \subseteq Settled
    <3>1. ASSUME NEW d \in Settled' PROVE d \in Settled
      <4>1. d \in Client
        BY DEF Settled
      <4>2. CASE phase'[d] = "acked"
        BY <2>1, <2>4, <4>1, <4>2 DEF Settled
      <4>3. CASE phase'[d] # "acked"
        <5>1. PICK j \in Attempt :
                handler'[d][j].stage = "answer" /\ handler'[d][j].status = 200
          BY <4>3 DEF Settled
        <5>2. handler'[d][j] = handler[d][j]
          BY <2>5, <4>1, <5>1
        <5>3. QED
          BY <4>1, <5>1, <5>2 DEF Settled
      <4>4. QED
        BY <4>2, <4>3
    <3>2. QED
      BY <3>1
  <2>8. ASSUME NEW d \in Client, NEW j \in Over(d) PROVE j \in Over(d)'
    <3>1. j \in Attempt /\ j <= sent[d] /\ handler[d][j].stage \notin {"receive", "ingest"}
      BY DEF Over
    <3>2. handler'[d][j].stage \notin {"receive", "ingest"}
      BY <2>5, <3>1
    <3>3. QED
      BY <2>1, <3>1, <3>2 DEF Over
  <2>9. CountInv'
    BY <1>1, <1>2, <2>1, <2>7, <2>8, BoundsKept
  <2>10. QED
    BY <1>2, <2>6, <2>9 DEF DeliveryInv
<1>12. QED
  BY <1>5, <1>6, <1>8, <1>9, <1>10, <1>11 DEF Handles

\* The other steps record nothing that counts and settle nobody.
LEMMA OthersKeepCounts ==
    ASSUME DeliveryInv,
           \/ \E c \in Client : Send(c) \/ Timeout(c)
           \/ Crash \/ UNCHANGED ingestVars
    PROVE  DeliveryInv'
<1>1. IngestInv /\ SentInv /\ CountInv /\ TypeOK
  BY DEF DeliveryInv, IngestInv
<1>2. IngestInv' /\ TypeOK'
  <2>1. IngestInv'
    BY <1>1, SendKeeps, OutsideKeeps, Zenon
  <2>2. QED
    BY <2>1 DEF IngestInv
<1>3. /\ request' = request /\ (Durable => aggregates' = aggregates)
      /\ \A d \in Client : phase'[d] = "acked" => phase[d] = "acked"
      /\ \A d \in Client : sent[d] <= sent'[d]
  <2>1. /\ request' = request /\ (Durable => aggregates' = aggregates)
    BY DEF Send, Timeout, Crash, ingestVars, exporters, given
  <2>2. phase \in [Client -> {"idle", "waiting", "acked", "dropped"}]
    BY <1>1 DEF TypeOK
  <2>3. \A d \in Client : phase'[d] = "acked" => phase[d] = "acked"
    BY <2>2 DEF Send, Timeout, Crash, ingestVars, exporters
  <2>4. sent \in [Client -> 0..MaxAttempts] /\ MaxAttempts \in Nat
    BY <1>1, IngestAssumption DEF TypeOK
  <2>5. \A d \in Client : sent[d] <= sent'[d]
    BY <2>4 DEF Send, Timeout, Crash, ingestVars, exporters
  <2>6. QED
    BY <2>1, <2>3, <2>5
<1>4. ASSUME NEW d \in Client, NEW j \in Attempt
      PROVE  \/ handler'[d][j] = handler[d][j]
             \/ handler'[d][j].stage = "none"
             \/ handler'[d][j].stage = "receive" /\ j <= sent'[d] /\ ~(j <= sent[d])
  <2>1. CASE Crash
    BY <2>1 DEF Crash, NoHandler
  <2>2. CASE (\E c \in Client : Timeout(c)) \/ UNCHANGED ingestVars
    BY <2>2 DEF Timeout, ingestVars
  <2>3. ASSUME NEW c \in Client, Send(c)
        PROVE  \/ handler'[d][j] = handler[d][j]
               \/ handler'[d][j].stage = "receive" /\ j <= sent'[d] /\ ~(j <= sent[d])
    <3>1. sent \in [Client -> 0..MaxAttempts] /\ MaxAttempts \in Nat
      BY <1>1, IngestAssumption DEF TypeOK
    <3>2. /\ sent[c] < MaxAttempts /\ sent' = [sent EXCEPT ![c] = @ + 1]
          /\ Goes(c, sent[c] + 1, "receive", 0)
      BY <2>3 DEF Send
    <3>3. "receive" \in Stage /\ 0 \in Status
      BY DEF Stage, Status
    <3>4. sent[c] + 1 \in Attempt /\ sent'[c] = sent[c] + 1
      BY <3>1, <3>2 DEF Attempt
    <3>5. /\ handler'[c][sent[c] + 1].stage = "receive"
          /\ d # c \/ j # sent[c] + 1 => handler'[d][j] = handler[d][j]
      BY <1>1, <3>2, <3>3, <3>4, HandlerGoes
    <3>6. sent[c] \in Nat
      BY <3>1
    <3>7. QED
      BY <3>4, <3>5, <3>6
  <2>4. QED
    BY <2>1, <2>2, <2>3
<1>5. \A d \in Client : sent[d] \in Nat /\ sent'[d] \in Nat
  BY <1>1, <1>2, IngestAssumption DEF TypeOK
<1>6. SentInv'
  <2> SUFFICES ASSUME NEW d \in Client, NEW j \in Attempt, handler'[d][j].stage # "none"
               PROVE  j <= sent'[d]
    BY DEF SentInv
  <2>1. CASE handler'[d][j] = handler[d][j]
    <3>1. j <= sent[d] /\ sent[d] <= sent'[d] /\ j \in Nat
      BY <1>1, <1>3, <2>1, IngestAssumption DEF SentInv, Attempt
    <3>2. QED
      BY <1>5, <3>1
  <2>2. QED
    BY <1>4, <2>1
<1>7. Settled' \subseteq Settled
  <2>1. ASSUME NEW d \in Settled' PROVE d \in Settled
    <3>1. d \in Client
      BY DEF Settled
    <3>2. CASE phase'[d] = "acked"
      BY <1>3, <3>1, <3>2 DEF Settled
    <3>3. CASE phase'[d] # "acked"
      <4>1. PICK j \in Attempt :
              handler'[d][j].stage = "answer" /\ handler'[d][j].status = 200
        BY <3>3 DEF Settled
      <4>2. handler'[d][j] = handler[d][j]
        BY <1>4, <3>1, <4>1
      <4>3. QED
        BY <3>1, <4>1, <4>2 DEF Settled
    <3>4. QED
      BY <3>2, <3>3
  <2>2. QED
    BY <2>1
<1>8. ASSUME NEW d \in Client, NEW j \in Over(d) PROVE j \in Over(d)'
  <2>1. j \in Attempt /\ j <= sent[d] /\ handler[d][j].stage \notin {"receive", "ingest"}
    BY DEF Over
  <2>2. j \in Nat /\ sent[d] <= sent'[d]
    BY <1>3, <2>1, IngestAssumption DEF Attempt
  <2>3. j <= sent'[d]
    BY <1>5, <2>1, <2>2
  <2>4. handler'[d][j].stage \notin {"receive", "ingest"}
    BY <1>4, <2>1
  <2>5. QED
    BY <2>1, <2>3, <2>4 DEF Over
<1>9. CountInv'
  <2>1. CASE Client = {}
    <3>1. SUFFICES ASSUME Durable, NEW k \in Key
                   PROVE  /\ CountOf(aggregates, k)' >= Low(k)'
                             \/ CountOf(aggregates, k)' = MaxCount
                          /\ CountOf(aggregates, k)' <= High(k)'
      BY DEF CountInv
    <3>2. QED
      BY <1>1, <1>3, <2>1, <3>1 DEF CountInv, Low, High, Settled
  <2>2. CASE Client # {}
    <3>1. PICK c \in Client : TRUE
      BY <2>2
    <3>2. Settled' \subseteq Settled \cup {c}
      BY <1>7
    <3>3. QED
      BY <1>1, <1>2, <1>3, <1>7, <1>8, <3>2, BoundsKept
  <2>3. QED
    BY <2>1, <2>2
<1>10. QED
  BY <1>2, <1>6, <1>9 DEF DeliveryInv

LEMMA DeliveryInitially ==
    ASSUME IngestInit
    PROVE  DeliveryInv
<1>1. IngestInv /\ TypeOK
  <2>1. IngestInv
    BY IngestInitially
  <2>2. QED
    BY <2>1 DEF IngestInv
<1>2. /\ aggregates = NoAggregates /\ phase = [c \in Client |-> "idle"]
      /\ handler = [c \in Client |-> [i \in Attempt |-> NoHandler]]
  BY DEF IngestInit, Init
<1>3. NoHandler.stage = "none"
  BY DEF NoHandler
<1>4. SentInv
  BY <1>2, <1>3 DEF SentInv
<1>5. Settled = {}
  BY <1>2, <1>3 DEF Settled
<1>6. ASSUME NEW k PROVE CountOf(aggregates, k) = 0 /\ Low(k) = 0 /\ High(k) \in Nat
  <2>1. CountOf(aggregates, k) = 0
    BY <1>2 DEF NoAggregates, CountOf
  <2>2. IsFiniteSet(Settled)
    BY <1>5, FS_EmptySet
  <2>3. Low(k) = 0
    BY <1>5, <2>2, SumChosen DEF Low
  <2>4. QED
    BY <1>1, <2>1, <2>3, BoundsTyped
<1>7. CountInv
  <2>1. ASSUME NEW k \in Key
        PROVE  /\ CountOf(aggregates, k) >= Low(k) \/ CountOf(aggregates, k) = MaxCount
               /\ CountOf(aggregates, k) <= High(k)
    BY <1>6
  <2>2. QED
    BY <2>1 DEF CountInv
<1>8. QED
  BY <1>1, <1>4, <1>7 DEF DeliveryInv

LEMMA DeliveryInductive ==
    ASSUME DeliveryInv, [IngestNext]_ingestVars
    PROVE  DeliveryInv'
BY HandlerKeepsCounts, OthersKeepCounts, Zenon DEF IngestNext

\* What the invariant says of the bounds that the property is about.
LEMMA CountsAreBetween ==
    ASSUME DeliveryInv
    PROVE  CountIsBetween
<1> SUFFICES ASSUME Durable, NEW k \in DOMAIN aggregates
             PROVE  /\ aggregates[k].count >=
                         IF Acknowledged(k) < MaxCount THEN Acknowledged(k) ELSE MaxCount
                    /\ aggregates[k].count <= Offered(k)
  BY DEF CountIsBetween
<1> DEFINE occ == [c \in Client |-> Occurrences(c, k)]
           rec == [c \in Client |-> Cardinality(Over(c)) * Occurrences(c, k)]
           all == [c \in Client |-> sent[c] * Occurrences(c, k)]
           acked == {c \in Client : phase[c] = "acked"}
           storable == {c \in Client : request[c].storable}
           count == aggregates[k].count
<1>1. TypeOK /\ CountInv /\ aggregates \in Aggregates
  BY DEF DeliveryInv, IngestInv, TypeOK
<1>2. k \in Key /\ count = CountOf(aggregates, k)
  BY <1>1, AggregatesTyped DEF CountOf
<1>3. /\ count >= Low(k) \/ count = MaxCount
      /\ count <= High(k)
  BY <1>1, <1>2 DEF CountInv
<1>4. Low(k) = SumFunctionOnSet(occ, Settled) /\ High(k) = SumFunctionOnSet(rec, storable)
  BY DEF Low, High
<1>4a. /\ Acknowledged(k) = SumFunctionOnSet(occ, acked)
       /\ Offered(k) = SumFunctionOnSet(all, storable)
  <2>1. Acknowledged(k) = SumFunctionOnSet(occ, acked)
    BY DEF Acknowledged
  <2>2. Offered(k) = SumFunctionOnSet(all, storable)
    BY DEF Offered
  <2>3. QED
    BY <2>1, <2>2
<1>5. /\ acked \subseteq Settled /\ Settled \subseteq Client /\ storable \subseteq Client
      /\ IsFiniteSet(Client)
  BY IngestAssumption DEF Settled
<1>6. ASSUME NEW c \in Client
      PROVE  occ[c] \in Nat /\ rec[c] \in Nat /\ all[c] \in Nat /\ rec[c] <= all[c]
  <2>1. /\ Occurrences(c, k) \in Nat /\ Cardinality(Over(c)) \in 0..sent[c] /\ sent[c] \in Nat
    BY <1>1, CountsTyped
  <2>2. Cardinality(Over(c)) \in Nat /\ Cardinality(Over(c)) <= sent[c]
    BY <2>1
  <2>3. QED
    BY <2>1, <2>2, Product
<1>7. Low(k) \in Nat /\ High(k) \in Nat
  BY <1>1, BoundsTyped
<1>8. CountOf(aggregates, k) \in Nat /\ CountOf(aggregates, k) <= MaxCount /\ MaxCount \in Nat
  BY <1>1, CountTyped
<1> HIDE DEF occ, rec, all, acked, storable
<1>9. IsFiniteSet(Settled) /\ IsFiniteSet(storable) /\ IsFiniteSet(acked)
  BY <1>5, FS_Subset
<1>10. Acknowledged(k) <= Low(k) /\ Acknowledged(k) \in Nat
  <2>1. (\A c \in Settled : occ[c] \in Nat) /\ (\A c \in acked : occ[c] \in Nat)
    BY <1>5, <1>6
  <2>2. QED
    BY <1>4, <1>4a, <1>5, <1>9, <2>1, SumOfMore, SumTyped
<1>11. High(k) <= Offered(k) /\ Offered(k) \in Nat
  <2>1. \A c \in storable : rec[c] \in Nat /\ all[c] \in Nat /\ rec[c] <= all[c]
    BY <1>5, <1>6
  <2>2. QED
    BY <1>4, <1>4a, <1>9, <2>1, SumGrows, SumTyped
<1>12. QED
  BY <1>2, <1>3, <1>7, <1>8, <1>10, <1>11

\* A count is never less than what was acknowledged, unless it is the largest one, and
\* never more than all attempts to deliver can have recorded, for any number of exporters,
\* attempts and faults and any largest count (aggregate.go, http_receiver.go:105-110).
THEOREM CountIsBetweenAlways == IngestSpec => []CountIsBetween
<1>1. DeliveryInv => CountIsBetween
  BY CountsAreBetween
<1>2. DeliveryInv /\ [IngestNext]_ingestVars => DeliveryInv'
  BY DeliveryInductive
<1>3. QED
  BY <1>1, <1>2, DeliveryInitially, PTL DEF IngestSpec

-----------------------------------------------------------------------------
(* Normalization: one span.                                                *)

\* No check fails when there is no first one that does.
LEMMA NoReason ==
    ASSUME NEW checks, NEW n \in Nat, DOMAIN checks = 1..n, FirstReason(checks) = "none"
    PROVE  \A i \in 1..n : checks[i].reason = "none"
<1> DEFINE failing == {i \in DOMAIN checks : checks[i].reason # "none"}
           first == CHOOSE i \in failing : \A j \in failing : i <= j
<1>1. SUFFICES ASSUME failing # {} PROVE FALSE
  OBVIOUS
<1>2. first \in failing
  <2>1. failing \in SUBSET Nat
    OBVIOUS
  <2> HIDE DEF failing
  <2>2. \E i \in failing : \A j \in failing : i <= j
    BY <1>1, <2>1, LeastNumber
  <2>3. QED
    BY <2>2
<1>3. FirstReason(checks) = checks[first].reason
  BY <1>1 DEF FirstReason
<1> HIDE DEF first
<1>4. QED
  BY <1>2, <1>3

LEMMA AcceptedPasses ==
    ASSUME NEW span, Reason(span) = "none"
    PROVE  \A i \in 1..7 : Checks(span)[i].reason = "none"
<1>1. FirstReason(Checks(span)) = "none"
  BY DEF Reason
<1>2. DOMAIN Checks(span) = 1..7
  BY DEF Checks
<1>3. QED
  BY <1>1, <1>2, NoReason

\* When a fact was observed.
LEMMA Dated ==
    ASSUME NEW span, span.start \in Nat, span.end \in Nat, Reason(span) = "none"
    PROVE  LET at == FactOf(span).at
           IN  /\ 0 < at /\ at <= Now + MaxFutureSkew
               /\ at = IF span.end # 0 THEN span.end ELSE span.start
               /\ span.start <= at
<1> DEFINE read == ObservedAt(span)
           nanos == IF span.end # 0 THEN span.end ELSE span.start
<1>1. read.reason = "none"
  <2>1. Checks(span)[7] = read
    BY DEF Checks
  <2>2. 7 \in 1..7
    OBVIOUS
  <2> HIDE DEF read
  <2>3. QED
    BY <2>1, <2>2, AcceptedPasses
<1>2. FactOf(span).at = read.value
  BY DEF FactOf
<1>3. nanos \in Nat
  OBVIOUS
<1>4. /\ ~(span.start # 0 /\ span.end # 0 /\ span.end < span.start)
      /\ nanos # 0 /\ ~(nanos > MaxInt) /\ ~(Signed(nanos) > Now + MaxFutureSkew)
      /\ read = Has(Signed(nanos))
  BY <1>1 DEF ObservedAt, Failed, Has
<1>5. Signed(nanos) = nanos
  BY <1>4 DEF Signed
<1>6. read.value = nanos
  BY <1>4, <1>5 DEF Has
<1>7. nanos <= Now + MaxFutureSkew
  BY <1>3, <1>4, <1>5, WidthAssumption
<1>8. span.start <= nanos
  BY <1>3, <1>4
<1>9. QED
  BY <1>2, <1>3, <1>4, <1>6, <1>7, <1>8

\* A span that is not about messaging is ignored before anything else of it is read.
LEMMA ForeignIsIgnored ==
    ASSUME NEW span, Foreign(span)
    PROVE  Reason(span) = "ignored"
<1>1. CASE span.operation = <<>>
  BY <1>1 DEF Reason
<1>2. CASE /\ Len(span.operation) = 1
           /\ span.operation[1] \notin DOMAIN Kind \cup {TooLong, NotString}
  <2>1. /\ span.operation # <<NotString>> /\ span.operation # <<TooLong>>
        /\ span.operation # <<>>
    BY <1>2
  <2>2. StringValue(span.operation, "none") = Has(span.operation[1])
    BY <1>2, <2>1 DEF StringValue
  <2>3. QED
    BY <1>2, <2>1, <2>2 DEF Reason, Has
<1>3. QED
  BY <1>1, <1>2 DEF Foreign

\* What the metadata of a fact tell of its span.
LEMMA MetadataOfSpan ==
    ASSUME NEW span
    PROVE  LET metadata == FactOf(span).metadata
           IN  /\ metadata["environment_source"] = "resource" <=> span.environment # <<>>
               /\ \A key \in DOMAIN metadata : metadata[key] \notin {Blank, TooLong}
               /\ "origin" \in DOMAIN metadata <=> span.origin \notin {Blank, TooLong}
<1> DEFINE metadata == FactOf(span).metadata
           source == EnvironmentSource(span.environment)
           named == [environment_source |-> source]
<1>1. metadata = AddMetadata(named, "origin", span.origin)
  BY DEF FactOf, MetadataOf
<1>2. /\ source \in {"resource", "configured_fallback"}
      /\ source = "resource" <=> span.environment # <<>>
  BY DEF EnvironmentSource
<1>3. DOMAIN named = {"environment_source"} /\ named["environment_source"] = source
  OBVIOUS
<1> HIDE DEF metadata, source, named
<1>4. /\ DOMAIN metadata = IF span.origin \in {Blank, TooLong} THEN {"environment_source"}
                           ELSE {"environment_source", "origin"}
      /\ metadata["environment_source"] = source
      /\ "origin" \in DOMAIN metadata => metadata["origin"] = span.origin
  BY <1>1, <1>3 DEF AddMetadata
<1>5. QED
  BY <1>2, <1>3, <1>4, ValueAssumption DEF metadata

-----------------------------------------------------------------------------
(* Normalization: the loop over the spans of a request.                    *)

\* What the spans of the request may yield.
Yield == {FactOf(trace[i]) : i \in {h \in 1..Len(trace) : Reason(trace[h]) = "none"}}

\* The facts are those of the accepted spans before the one the loop is at, in order.
NormalizeInv ==
    /\ trace \in Traces /\ next \in 1..(Len(trace) + 1)
    /\ result.facts \in Seq(Yield)
    /\ (\A i \in DOMAIN trace : Foreign(trace[i])) => result.rejected = 0
    /\ answer # "error" =>
          /\ Len(result.facts) = Accepted(next - 1)
          /\ \A i \in 1..(next - 1) :
                Reason(trace[i]) = "none" =>
                   /\ Accepted(i) \in 1..Len(result.facts)
                   /\ result.facts[Accepted(i)] = FactOf(trace[i])

LEMMA AcceptedSoFar ==
    ASSUME NEW n \in Nat
    PROVE  /\ Accepted(0) = 0
           /\ Accepted(n) \in Nat
           /\ Accepted(n + 1) = IF Reason(trace[n + 1]) = "none" THEN Accepted(n) + 1
                                ELSE Accepted(n)
<1> DEFINE Those(m) == {h \in 1..m : Reason(trace[h]) = "none"}
<1>1. \A m : Accepted(m) = Cardinality(Those(m))
  BY DEF Accepted
<1>2. IsFiniteSet(Those(n)) /\ Cardinality(Those(n)) \in Nat
  <2>1. IsFiniteSet(1..n)
    BY FS_Interval
  <2>2. Those(n) \in SUBSET (1..n)
    OBVIOUS
  <2>3. QED
    BY <2>1, <2>2, FS_Subset, FS_CardinalityType
<1>3. Those(0) = {}
  OBVIOUS
<1>4. /\ Reason(trace[n + 1]) = "none" => Those(n + 1) = Those(n) \cup {n + 1}
      /\ Reason(trace[n + 1]) # "none" => Those(n + 1) = Those(n)
      /\ n + 1 \notin Those(n)
  OBVIOUS
<1> HIDE DEF Those
<1>5. Cardinality(Those(0)) = 0
  BY <1>3, FS_EmptySet
<1>6. Reason(trace[n + 1]) = "none" => Cardinality(Those(n + 1)) = Cardinality(Those(n)) + 1
  BY <1>2, <1>4, FS_AddElement
<1>7. QED
  BY <1>1, <1>2, <1>4, <1>5, <1>6

LEMMA TraceTyped ==
    ASSUME NEW t \in Traces
    PROVE  /\ Len(t) \in Nat /\ DOMAIN t = 1..Len(t)
           /\ \A i \in 1..Len(t) : t[i].start \in Nat /\ t[i].end \in Nat
<1>1. t \in Seq({t[i] : i \in DOMAIN t})
  BY TraceAssumption
<1>2. Len(t) \in Nat /\ DOMAIN t = 1..Len(t)
  BY <1>1
<1> DEFINE top == 2^Width - 1
<1>3. \A i \in DOMAIN t : t[i].start \in 0..top /\ t[i].end \in 0..top
  BY TraceAssumption
<1>4. \A x : x \in 0..top => x \in Nat
  <2> HIDE DEF top
  <2>1. QED
    OBVIOUS
<1>5. QED
  BY <1>2, <1>3, <1>4

LEMMA NormalizeInitially ==
    ASSUME NormalizeInit
    PROVE  NormalizeInv
<1>1. /\ trace \in Traces /\ next = 1 /\ result.facts = <<>> /\ result.rejected = 0
  BY DEF NormalizeInit, NoResult
<1>2. Len(trace) \in Nat
  BY <1>1, TraceTyped
<1>3. Len(result.facts) = Accepted(next - 1) /\ 1..(next - 1) = {}
  BY <1>1, AcceptedSoFar
<1>4. QED
  BY <1>1, <1>2, <1>3 DEF NormalizeInv

LEMMA SpanKeeps ==
    ASSUME NormalizeInv, NormalizeSpan
    PROVE  NormalizeInv'
<1> DEFINE span == trace[next]
           facts == result.facts
           new == result'.facts
           reason == Reason(span)
<1>1. /\ answer = "none" /\ next <= Len(trace) /\ next' = next + 1
      /\ trace' = trace /\ answer' = answer
      /\ new = IF reason = "none" THEN Append(facts, FactOf(span)) ELSE facts
      /\ result'.rejected = result.rejected
                               + IF reason \notin {"none", "ignored"} THEN 1 ELSE 0
  BY DEF NormalizeSpan
<1>2. /\ trace \in Traces /\ next \in 1..(Len(trace) + 1) /\ Len(trace) \in Nat
      /\ DOMAIN trace = 1..Len(trace)
      /\ facts \in Seq(Yield) /\ Len(facts) = Accepted(next - 1)
      /\ next \in Nat /\ next - 1 \in Nat /\ (next - 1) + 1 = next
  BY <1>1, TraceTyped DEF NormalizeInv
<1>3. next \in 1..Len(trace)
  BY <1>1, <1>2
<1>4. Yield' = Yield /\ \A i : Accepted(i)' = Accepted(i)
  BY <1>1 DEF Yield, Accepted
<1>5. reason = "none" => FactOf(span) \in Yield
  BY <1>3 DEF Yield
<1>6. /\ Accepted(next) = IF reason = "none" THEN Accepted(next - 1) + 1 ELSE Accepted(next - 1)
      /\ Accepted(next - 1) \in Nat
  BY <1>2, AcceptedSoFar
<1>7. (\A i \in DOMAIN trace' : Foreign(trace'[i])) => result'.rejected = 0
  <2> SUFFICES ASSUME \A i \in DOMAIN trace : Foreign(trace[i]) PROVE result'.rejected = 0
    BY <1>1
  <2>1. reason = "ignored"
    BY <1>2, <1>3, ForeignIsIgnored
  <2>2. result.rejected = 0
    BY DEF NormalizeInv
  <2> HIDE DEF reason
  <2>3. QED
    BY <1>1, <2>1, <2>2
<1>8. \A i \in 1..(next - 1) :
         Reason(trace[i]) = "none" => /\ Accepted(i) \in 1..Len(facts)
                                      /\ facts[Accepted(i)] = FactOf(trace[i])
  BY <1>1 DEF NormalizeInv
<1>9. /\ new \in Seq(Yield) /\ Len(new) = Accepted(next)
      /\ \A j \in 1..Len(facts) : new[j] = facts[j]
      /\ Len(facts) \in Nat /\ Len(facts) <= Len(new)
      /\ reason = "none" => new[Accepted(next)] = FactOf(span) /\ Accepted(next) \in 1..Len(new)
  <2> HIDE DEF new, facts, reason, span
  <2>1. QED
    BY <1>1, <1>2, <1>5, <1>6
<1>10. ASSUME NEW i \in 1..next, Reason(trace[i]) = "none"
       PROVE  Accepted(i) \in 1..Len(new) /\ new[Accepted(i)] = FactOf(trace[i])
  <2>1. CASE i = next
    BY <1>9, <1>10, <2>1
  <2>2. CASE i # next
    <3>1. i \in 1..(next - 1)
      BY <1>2, <2>2
    <3>2. Accepted(i) \in 1..Len(facts) /\ facts[Accepted(i)] = FactOf(trace[i])
      BY <1>8, <1>10, <3>1
    <3> HIDE DEF new, facts
    <3>3. QED
      BY <1>9, <3>2
  <2>3. QED
    BY <2>1, <2>2
<1>11. next' \in 1..(Len(trace') + 1) /\ next' - 1 = next
  BY <1>1, <1>2, <1>3
<1> HIDE DEF new
<1>12. QED
  BY <1>1, <1>2, <1>4, <1>7, <1>9, <1>10, <1>11 DEF NormalizeInv, new

LEMMA NormalizeInductive ==
    ASSUME NormalizeInv, [NormalizeNext]_normalizeVars
    PROVE  NormalizeInv'
<1>1. ASSUME Discard PROVE NormalizeInv'
  <2>1. /\ trace' = trace /\ next' = next /\ answer' = "error"
        /\ result'.facts = <<>> /\ result'.rejected = 0
    BY <1>1 DEF Discard, NoResult
  <2>2. QED
    BY <2>1 DEF NormalizeInv
<1>2. ASSUME UNCHANGED <<trace, next, result>>, answer' = answer \/ answer = "none"
      PROVE  NormalizeInv'
  <2>1. Yield' = Yield /\ \A i : Accepted(i)' = Accepted(i)
    BY <1>2 DEF Yield, Accepted
  <2>2. QED
    BY <1>2, <2>1 DEF NormalizeInv
<1>3. ASSUME Return \/ Cancel \/ UNCHANGED normalizeVars PROVE NormalizeInv'
  BY <1>2, <1>3 DEF Return, Cancel, normalizeVars
<1>4. QED
  BY <1>1, <1>3, SpanKeeps DEF NormalizeNext

\* A request of spans that are not about messaging is never rejected in part,
\* whatever else is wrong with them (normalizer.go:141-213).
THEOREM ForeignSpansAreNotRejectedAlways == NormalizeSpec => []ForeignSpansAreNotRejected
<1>1. NormalizeInv => ForeignSpansAreNotRejected
  BY DEF NormalizeInv, ForeignSpansAreNotRejected
<1>2. NormalizeInv /\ [NormalizeNext]_normalizeVars => NormalizeInv'
  BY NormalizeInductive
<1>3. QED
  BY <1>1, <1>2, NormalizeInitially, PTL DEF NormalizeSpec

\* Every fact is dated by its span, after the epoch and not beyond the tolerated
\* skew, for timestamps of any width.
THEOREM FactsAreDatedAlways == NormalizeSpec => []FactsAreDated
<1>1. ASSUME NormalizeInv PROVE FactsAreDated
  <2> SUFFICES ASSUME NEW j \in DOMAIN result.facts
               PROVE  LET at == result.facts[j].at
                      IN  /\ 0 < at /\ at <= Now + MaxFutureSkew
                          /\ \E i \in DOMAIN trace :
                                /\ at = IF trace[i].end # 0 THEN trace[i].end
                                        ELSE trace[i].start
                                /\ trace[i].start <= at
    BY DEF FactsAreDated
  <2>1. result.facts \in Seq(Yield) /\ trace \in Traces
    BY <1>1 DEF NormalizeInv
  <2>2. result.facts[j] \in Yield
    BY <2>1
  <2>3. PICK i \in 1..Len(trace) :
           Reason(trace[i]) = "none" /\ result.facts[j] = FactOf(trace[i])
    BY <2>2 DEF Yield
  <2>4. i \in DOMAIN trace /\ trace[i].start \in Nat /\ trace[i].end \in Nat
    BY <2>1, TraceTyped
  <2>5. LET at == FactOf(trace[i]).at
        IN  /\ 0 < at /\ at <= Now + MaxFutureSkew
            /\ at = IF trace[i].end # 0 THEN trace[i].end ELSE trace[i].start
            /\ trace[i].start <= at
    BY <2>3, <2>4, Dated
  <2>6. QED
    BY <2>3, <2>4, <2>5
<1>2. NormalizeInv /\ [NormalizeNext]_normalizeVars => NormalizeInv'
  BY NormalizeInductive
<1>3. QED
  BY <1>1, <1>2, NormalizeInitially, PTL DEF NormalizeSpec

\* The facts are those of the accepted spans, in order, and their metadata say what
\* the span said (normalizer.go:432-454).
THEOREM MetadataIsHonestAlways == NormalizeSpec => []MetadataIsHonest
<1>1. ASSUME NormalizeInv PROVE MetadataIsHonest
  <2> SUFFICES ASSUME answer # "error"
               PROVE  /\ Len(result.facts) = Accepted(next - 1)
                      /\ \A i \in 1..(next - 1) :
                            Reason(trace[i]) = "none" =>
                               LET metadata == result.facts[Accepted(i)].metadata
                               IN  /\ metadata["environment_source"] = "resource"
                                          <=> trace[i].environment # <<>>
                                   /\ \A key \in DOMAIN metadata :
                                         metadata[key] \notin {Blank, TooLong}
                                   /\ "origin" \in DOMAIN metadata
                                          <=> trace[i].origin \notin {Blank, TooLong}
    BY DEF MetadataIsHonest
  <2>1. /\ Len(result.facts) = Accepted(next - 1)
        /\ \A i \in 1..(next - 1) :
              Reason(trace[i]) = "none" => result.facts[Accepted(i)] = FactOf(trace[i])
    BY <1>1 DEF NormalizeInv
  <2>2. QED
    BY <2>1, MetadataOfSpan
<1>2. NormalizeInv /\ [NormalizeNext]_normalizeVars => NormalizeInv'
  BY NormalizeInductive
<1>3. QED
  BY <1>1, <1>2, NormalizeInitially, PTL DEF NormalizeSpec

=============================================================================
