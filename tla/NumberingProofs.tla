-------------------------- MODULE NumberingProofs --------------------------
(***************************************************************************)
(* Theorems about Numbering, for any callers, keys, documents, years,      *)
(* configurations and values.  A transaction changes the tables only under *)
(* the row lock of the series, so that at most one has changes at a time.  *)
(* What is proved of the tables is therefore proved of the tables as each  *)
(* open transaction would leave them (Seen), and as each call under way    *)
(* would leave them if it were undone (Kept).                              *)
(***************************************************************************)
EXTENDS Numbering, TLAPS

Repair == [period : Period, previous : Nat, new : Nat]
\* Series that validate lets through.
Proper ==
    {s \in Series : s.start_value # 0 /\ (s.shape.reset_policy = "yearly" => s.shape.include_year)}
Changes == [series : Proper \cup {None}, counters : [Period -> Counter], receipts : SUBSET Receipt,
            ledger : [Keys -> Receipt \cup {None}], repairs : SUBSET Repair,
            claims : SUBSET Claim]

\* The tables d with the changes x.
With(d, x) ==
    [series |-> IF x.series # None THEN x.series ELSE d.series,
     counters |-> [p \in Period |->
                     IF x.counters[p] # NoCounter THEN x.counters[p] ELSE d.counters[p]],
     receipts |-> d.receipts \cup x.receipts,
     ledger |-> [k \in Keys |-> IF x.ledger[k] # None THEN x.ledger[k] ELSE d.ledger[k]],
     repairs |-> d.repairs \cup x.repairs,
     claims |-> d.claims \cup x.claims]

\* The committed tables, and what a caller sees of them.
Committed == [series |-> series, counters |-> counters, receipts |-> receipts, ledger |-> ledger,
              repairs |-> repairs, claims |-> claims]
Seen(c) == With(Committed, tx[c])
Kept(c) == With(Committed, call[c].saved)

-----------------------------------------------------------------------------
(* What is true of such tables *)

Tables == [series : Proper \cup {Unset}, counters : [Period -> Counter], receipts : SUBSET Receipt,
           ledger : [Keys -> Receipt \cup {None}], repairs : SUBSET Repair,
           claims : SUBSET Claim]

\* A counter begins at 1 or later and moves forward; so do repairs, within bounds.
Ahead(counter) == 1 <= counter.first /\ counter.first <= counter.next_value
Forward(m) ==
    /\ \A p \in Period : m.counters[p] # NoCounter => Ahead(m.counters[p])
    /\ \A r \in m.repairs : r.previous <= r.new /\ r.new <= MAX_VALUE

\* A receipt carries the series' shape and the period its policy gives.
Configured(m) ==
    \A r \in m.receipts :
        /\ m.series # Unset /\ r.shape = m.series.shape
        /\ r.period = period_for(r.year, r.shape.reset_policy)

\* The values a counter has passed.
Window(counter) == {v \in Value : counter.first <= v /\ v < counter.next_value}
Passed(m, p) == Window(m.counters[p])
Skipped(m, p) ==
    {v \in Value : \E r \in m.repairs : r.period = p /\ r.previous <= v /\ v < r.new}
Explained(m) ==
    \A p \in Period :
        Passed(m, p) = {r.value : r \in {r \in m.receipts : r.period = p}} \cup Skipped(m, p)

\* A value of a period is issued once.
Single(m) ==
    \A r, s \in m.receipts : r.period = s.period /\ r.value = s.value => r = s

Claimed(m) ==
    /\ \A x, y \in m.claims : x.number = y.number \/ x.document = y.document => x = y
    /\ {<<x.provenance, x.number>> : x \in {x \in m.claims : x.provenance # Elsewhere}}
        = {<<r.key, Rendered(r)>> : r \in {r \in m.receipts : r.strict}}

Sound(m) == m \in Tables /\ Forward(m) /\ Configured(m) /\ Explained(m) /\ Single(m) /\ Claimed(m)

\* The receipts are those recorded, and those still to be recorded.
Replayed(m, pending) ==
    m.receipts = {m.ledger[k] : k \in {k \in Keys : m.ledger[k] # None}} \cup pending

-----------------------------------------------------------------------------
(* What each caller may rely on *)

Allocating(c) == call[c].step \in {"series", "counter", "insert"}
PendingOf(c) == IF call[c].step = "insert" THEN {call[c].receipt} ELSE {}

\* Changes are made under the lock, and are sound.
TxOK(c) ==
    /\ tx[c] \in Changes
    /\ tx[c] # Untouched => series_lock = c
    /\ Sound(Seen(c)) /\ Replayed(Seen(c), PendingOf(c))

\* The savepoint of a call.
SavedOK(c) ==
    Allocating(c) =>
        /\ call[c].key \in Keys /\ call[c].saved \in Changes
        /\ call[c].had_series => series_lock = c
        /\ call[c].saved # Untouched => call[c].had_series
        /\ Sound(Kept(c)) /\ Replayed(Kept(c), {})
        /\ tx[c].ledger[call[c].key] = None

CallOK(c) ==
    /\ call[c].step \in {"series", "counter"} =>
          call[c].year \in Years /\ call[c].document \in Docs \cup {None}
    /\ call[c].step \in {"counter", "insert"} => series_lock = c
    /\ call[c].step = "counter" => call[c].series = SeriesOf(c) /\ SeriesOf(c) # Unset
    /\ call[c].step = "insert" => call[c].receipt \in Receipt
    /\ call[c].step = "configure" =>
          call[c].series \in Proper /\ (call[c].found => series_lock = c /\ SeriesOf(c) # Unset)

Mine(c) == TxOK(c) /\ SavedOK(c) /\ CallOK(c)

Inv ==
    /\ series_lock \in Callers \cup {None}
    /\ counter_lock \in [Period -> Callers \cup {None}]
    /\ tx \in [Callers -> Changes] /\ DOMAIN call = Callers
    /\ Sound(Committed) /\ Replayed(Committed, {})
    /\ \A c \in Callers : Mine(c)

-----------------------------------------------------------------------------
(* Seeing and keeping *)

LEMMA UnsetIsNoSeries == Unset \notin Series /\ Unset \notin Proper
<1>1. DOMAIN Unset = {"reset_policy"}
  BY DEF Unset
<1>2. \A s \in Series : DOMAIN s = {"shape", "start_value", "strict"}
  BY DEF Series
<1>3. "shape" \notin {"reset_policy"}
  OBVIOUS
<1> QED
  BY <1>1, <1>2, <1>3 DEF Proper

LEMMA ProperIsSeries == Proper \subseteq Series /\ None \notin Proper
BY NumberingAssumption DEF Proper

LEMMA UntouchedIsNoChange ==
    Untouched \in Changes
BY DEF Untouched, Changes, NoCounter, Counter

LEMMA WithFields ==
    ASSUME NEW d, NEW x
    PROVE  /\ With(d, x).series = IF x.series # None THEN x.series ELSE d.series
           /\ \A p \in Period : With(d, x).counters[p] =
                  IF x.counters[p] # NoCounter THEN x.counters[p] ELSE d.counters[p]
           /\ With(d, x).receipts = d.receipts \cup x.receipts
           /\ \A k \in Keys : With(d, x).ledger[k] =
                  IF x.ledger[k] # None THEN x.ledger[k] ELSE d.ledger[k]
           /\ With(d, x).repairs = d.repairs \cup x.repairs
           /\ With(d, x).claims = d.claims \cup x.claims
BY DEF With

LEMMA CommittedFields ==
    /\ Committed.series = series /\ Committed.counters = counters
    /\ Committed.receipts = receipts /\ Committed.ledger = ledger
    /\ Committed.repairs = repairs /\ Committed.claims = claims
BY DEF Committed

LEMMA WithTyped ==
    ASSUME NEW d \in Tables, NEW x \in Changes
    PROVE  With(d, x) \in Tables
<1>1. d.series \in Proper \cup {Unset} /\ d.counters \in [Period -> Counter]
      /\ d.receipts \in SUBSET Receipt /\ d.ledger \in [Keys -> Receipt \cup {None}]
      /\ d.repairs \in SUBSET Repair /\ d.claims \in SUBSET Claim
  BY DEF Tables
<1>2. x.series \in Proper \cup {None} /\ x.counters \in [Period -> Counter]
      /\ x.receipts \in SUBSET Receipt /\ x.ledger \in [Keys -> Receipt \cup {None}]
      /\ x.repairs \in SUBSET Repair /\ x.claims \in SUBSET Claim
  BY DEF Changes
<1> QED
  BY <1>1, <1>2 DEF With, Tables

LEMMA NothingChanged ==
    ASSUME NEW d \in Tables
    PROVE  With(d, Untouched) = d
<1>1. d.counters \in [Period -> Counter] /\ d.ledger \in [Keys -> Receipt \cup {None}]
  BY DEF Tables
<1>2. d = [series |-> d.series, counters |-> d.counters, receipts |-> d.receipts,
           ledger |-> d.ledger, repairs |-> d.repairs, claims |-> d.claims]
  BY DEF Tables
<1>3. [p \in Period |-> IF Untouched.counters[p] # NoCounter THEN Untouched.counters[p]
                        ELSE d.counters[p]] = d.counters
  BY <1>1 DEF Untouched
<1>4. [k \in Keys |-> IF Untouched.ledger[k] # None THEN Untouched.ledger[k]
                      ELSE d.ledger[k]] = d.ledger
  BY <1>1 DEF Untouched
<1>5. Untouched.series = None /\ Untouched.receipts = {} /\ Untouched.repairs = {}
      /\ Untouched.claims = {}
  BY DEF Untouched
<1> QED
  BY <1>2, <1>3, <1>4, <1>5 DEF With

\* What the model's operators read is what the caller sees.
LEMMA SeenFields ==
    ASSUME NEW c
    PROVE  /\ Seen(c).series = SeriesOf(c)
           /\ \A p \in Period : Seen(c).counters[p] = CounterOf(c, p)
           /\ Seen(c).receipts = receipts \cup tx[c].receipts
           /\ \A k \in Keys : Seen(c).ledger[k] = Recorded(c, k)
           /\ Seen(c).repairs = repairs \cup tx[c].repairs
           /\ Seen(c).claims = ClaimsOf(c)
BY WithFields, CommittedFields DEF Seen, SeriesOf, CounterOf, Recorded, ClaimsOf

LEMMA CommittedStays ==
    ASSUME UNCHANGED tables
    PROVE  Committed' = Committed
BY DEF Committed, tables

-----------------------------------------------------------------------------
(* What one operation does to sound tables: m before, n after *)

\* A series is created, or reconfigured within what SafeTransition lets through.
LEMMA SeriesChange ==
    ASSUME NEW m, NEW n \in Tables, Sound(m), NEW pending, Replayed(m, pending),
           n.series # Unset,
           (m.series # Unset /\ n.series.shape = m.series.shape) \/ m.receipts = {},
           n.counters = m.counters, n.receipts = m.receipts, n.ledger = m.ledger,
           n.repairs = m.repairs, n.claims = m.claims
    PROVE  Sound(n) /\ Replayed(n, pending)
<1>1. Forward(n)
  BY DEF Sound, Forward
<1>2. Configured(n)
  BY DEF Sound, Configured
<1>3. Explained(n)
  BY DEF Sound, Explained, Passed, Skipped
<1>4. Single(n) /\ Claimed(n)
  BY DEF Sound, Single, Claimed
<1> QED
  BY <1>1, <1>2, <1>3, <1>4 DEF Sound, Replayed

\* A number of elsewhere is claimed.
LEMMA Reservation ==
    ASSUME NEW m, NEW n \in Tables, Sound(m), NEW pending, Replayed(m, pending),
           NEW claim, claim.provenance = Elsewhere,
           \A x \in m.claims : x.number # claim.number /\ x.document # claim.document,
           n.claims = m.claims \cup {claim},
           n.series = m.series, n.counters = m.counters, n.receipts = m.receipts,
           n.ledger = m.ledger, n.repairs = m.repairs
    PROVE  Sound(n) /\ Replayed(n, pending)
<1>1. Forward(n)
  BY DEF Sound, Forward
<1>2. Configured(n)
  BY DEF Sound, Configured
<1>3. Explained(n)
  BY DEF Sound, Explained, Passed, Skipped
<1>4. Single(n)
  BY DEF Sound, Single
<1>5. {x \in n.claims : x.provenance # Elsewhere} = {x \in m.claims : x.provenance # Elsewhere}
  OBVIOUS
<1>6. \A x, y \in n.claims : x.number = y.number \/ x.document = y.document => x = y
  BY DEF Sound, Claimed
<1>7. Claimed(n)
  BY <1>5, <1>6 DEF Sound, Claimed
<1> QED
  BY <1>1, <1>2, <1>3, <1>4, <1>7 DEF Sound, Replayed

\* The ledger records the receipt of the call.
LEMMA Recording ==
    ASSUME NEW m, NEW n \in Tables, Sound(m), NEW k \in Keys, NEW r \in Receipt,
           m.ledger[k] = None, Replayed(m, {r}),
           n.ledger = [m.ledger EXCEPT ![k] = r],
           n.series = m.series, n.counters = m.counters, n.receipts = m.receipts,
           n.repairs = m.repairs, n.claims = m.claims
    PROVE  Sound(n) /\ Replayed(n, {})
<1>1. Forward(n)
  BY DEF Sound, Forward
<1>2. Configured(n)
  BY DEF Sound, Configured
<1>3. Explained(n)
  BY DEF Sound, Explained, Passed, Skipped
<1>4. Single(n) /\ Claimed(n)
  BY DEF Sound, Single, Claimed
<1>5. m.ledger \in [Keys -> Receipt \cup {None}]
  BY DEF Sound, Tables
<1>6. r # None
  BY NumberingAssumption
<1>7. {n.ledger[j] : j \in {j \in Keys : n.ledger[j] # None}}
      = {m.ledger[j] : j \in {j \in Keys : m.ledger[j] # None}} \cup {r}
  <2>1. \A j \in Keys : n.ledger[j] = IF j = k THEN r ELSE m.ledger[j]
    BY <1>5
  <2> QED
    BY <1>6, <2>1
<1> QED
  BY <1>1, <1>2, <1>3, <1>4, <1>7 DEF Sound, Replayed

\* The counter of a period that has none begins at start.
Begun(counter, start) ==
    IF counter = NoCounter THEN [first |-> start, next_value |-> start] ELSE counter

LEMMA BegunFacts ==
    ASSUME NEW m, Sound(m), NEW p \in Period, NEW start \in Nat \ {0}, NEW k,
           k = Begun(m.counters[p], start)
    PROVE  /\ k \in Counter /\ k # NoCounter
           /\ Ahead(k)
           /\ Passed(m, p) = Window(k)
<1>1. m.counters[p] \in Counter
  BY DEF Sound, Tables
<1>2. CASE m.counters[p] = NoCounter
  <2>1. k = [first |-> start, next_value |-> start]
    BY <1>2 DEF Begun
  <2>2. k.first = start /\ k.next_value = start /\ k \in Counter
    BY <2>1 DEF Counter
  <2>3. NoCounter.first = 0 /\ NoCounter.next_value = 0
    BY DEF NoCounter
  <2>4. MAX_VALUE \in Nat
    BY NumberingAssumption
  <2>5. \A v \in Value : v \in Nat
    BY <2>4 DEF Value
  <2>6. Passed(m, p) = {}
    BY <1>2, <2>3, <2>5 DEF Passed, Window
  <2> QED
    BY <2>2, <2>3, <2>5, <2>6 DEF Window, Ahead
<1>3. CASE m.counters[p] # NoCounter
  BY <1>1, <1>3 DEF Begun, Sound, Forward, Passed
<1> QED
  BY <1>2, <1>3

\* A counter moves from k.next_value to after; what it skips is recorded.
LEMMA Advance ==
    ASSUME NEW m, NEW n \in Tables, Sound(m), NEW pending, Replayed(m, pending),
           NEW p \in Period, NEW start \in Nat \ {0}, NEW k, k = Begun(m.counters[p], start),
           NEW after \in Nat, k.next_value <= after,
           k.next_value # after => after <= MAX_VALUE,
           n.counters = [m.counters EXCEPT ![p] = [k EXCEPT !.next_value = after]],
           n.repairs = m.repairs \cup {r \in {[period |-> p, previous |-> k.next_value,
                                               new |-> after]} : r.previous # r.new},
           n.series = m.series, n.receipts = m.receipts, n.ledger = m.ledger,
           n.claims = m.claims
    PROVE  Sound(n) /\ Replayed(n, pending)
<1> DEFINE skip == [period |-> p, previous |-> k.next_value, new |-> after]
<1>k. k \in Counter /\ k # NoCounter /\ 1 <= k.first /\ k.first <= k.next_value
      /\ Passed(m, p) = Window(k)
  BY BegunFacts DEF Ahead
<1>v. \A v \in Value : v \in Nat
  BY NumberingAssumption DEF Value
<1>n. n.counters[p].first = k.first /\ n.counters[p].next_value = after
      /\ \A q \in Period \ {p} : n.counters[q] = m.counters[q]
  BY <1>k DEF Sound, Tables, Counter
<1>s. skip.period = p /\ skip.previous = k.next_value /\ skip.new = after
  OBVIOUS
<1>r. n.repairs = m.repairs \cup (IF k.next_value = after THEN {} ELSE {skip})
  OBVIOUS
<1>m. k.first \in Nat /\ k.next_value \in Nat /\ MAX_VALUE \in Nat
  BY <1>k, NumberingAssumption DEF Counter
<1> HIDE DEF skip
<1>1. Forward(n)
  <2>1. \A q \in Period : n.counters[q] # NoCounter => Ahead(n.counters[q])
    BY <1>k, <1>n, <1>m DEF Sound, Forward, Ahead
  <2>2. \A r \in n.repairs : r.previous <= r.new /\ r.new <= MAX_VALUE
    BY <1>r, <1>s, <1>m DEF Sound, Forward
  <2> QED
    BY <2>1, <2>2 DEF Forward
<1>2. Configured(n)
  BY DEF Sound, Configured
<1>3. Explained(n)
  <2> SUFFICES ASSUME NEW q \in Period
               PROVE  Passed(n, q) = {r.value : r \in {r \in n.receipts : r.period = q}}
                                        \cup Skipped(n, q)
    BY DEF Explained
  <2>1. Passed(m, q) = {r.value : r \in {r \in m.receipts : r.period = q}} \cup Skipped(m, q)
    BY DEF Sound, Explained
  <2>2. CASE q = p
    <3> DEFINE gap == {v \in Value : k.next_value <= v /\ v < after}
    <3>1. Passed(n, p) = Passed(m, p) \cup gap
      BY <1>k, <1>v, <1>n, <1>m DEF Passed, Window
    <3>2. Skipped(n, p) = Skipped(m, p) \cup gap
      BY <1>r, <1>s, <1>v, <1>m DEF Skipped
    <3> HIDE DEF gap
    <3> QED
      BY <2>1, <2>2, <3>1, <3>2
  <2>3. CASE q # p
    <3>1. Passed(n, q) = Passed(m, q)
      BY <2>3, <1>n DEF Passed
    <3>2. Skipped(n, q) = Skipped(m, q)
      BY <2>3, <1>r, <1>s DEF Skipped
    <3> QED
      BY <2>1, <3>1, <3>2
  <2> QED
    BY <2>2, <2>3
<1>4. Single(n) /\ Claimed(n)
  BY DEF Sound, Single, Claimed
<1> QED
  BY <1>1, <1>2, <1>3, <1>4 DEF Sound, Replayed

LEMMA WindowGrows ==
    ASSUME NEW k \in Counter, Ahead(k), k.next_value \in Value,
           NEW j, j = [k EXCEPT !.next_value = @ + 1]
    PROVE  /\ Window(j) = Window(k) \cup {k.next_value} /\ k.next_value \notin Window(k)
           /\ j \in Counter /\ Ahead(j)
<1>1. k.first \in Nat /\ k.next_value \in Nat /\ \A v \in Value : v \in Nat
  BY NumberingAssumption DEF Counter, Value
<1>2. j \in Counter /\ j.first = k.first /\ j.next_value = k.next_value + 1
  BY <1>1 DEF Counter
<1> QED
  BY <1>1, <1>2 DEF Window, Ahead

\* A claim that collides with none.
Free(m, x) == \A y \in m.claims : y.number # x.number /\ y.document # x.document

\* From m to n: the number r, the value after what k has passed, claimed by x.
Issued(m, n, p, k, j, r, x) ==
    /\ p \in Period /\ Passed(m, p) = Window(k)
    /\ r \in Receipt /\ r.period = p /\ r.value \notin Window(k)
    /\ m.series # Unset /\ r.shape = m.series.shape
    /\ p = period_for(r.year, r.shape.reset_policy)
    /\ x.number = Rendered(r) /\ x.provenance = r.key
    /\ r.strict => Free(m, x)
    /\ Ahead(j) /\ Window(j) = Window(k) \cup {r.value}
    /\ n.counters = [m.counters EXCEPT ![p] = j]
    /\ n.receipts = m.receipts \cup {r}
    /\ r.strict => n.claims = m.claims \cup {x}
    /\ ~ r.strict => n.claims = m.claims
    /\ n.series = m.series /\ n.ledger = m.ledger /\ n.repairs = m.repairs

\* A number is taken from the counter, and claimed if the series is enrolled.
LEMMA Allocation ==
    ASSUME NEW m, NEW n \in Tables, Sound(m), Replayed(m, {}),
           NEW p, NEW k, NEW j, NEW r, NEW x, Issued(m, n, p, k, j, r, x)
    PROVE  Sound(n) /\ Replayed(n, {r})
<1> USE DEF Issued
<1>n. n.counters[p] = j /\ \A q \in Period \ {p} : n.counters[q] = m.counters[q]
  BY DEF Sound, Tables
<1>1. Forward(n)
  BY <1>n DEF Sound, Forward
<1>2. Configured(n)
  BY DEF Sound, Configured
<1>3. Explained(n)
  <2> SUFFICES ASSUME NEW q \in Period
               PROVE  Passed(n, q) = {s.value : s \in {s \in n.receipts : s.period = q}}
                                        \cup Skipped(n, q)
    BY DEF Explained
  <2>1. Passed(m, q) = {s.value : s \in {s \in m.receipts : s.period = q}} \cup Skipped(m, q)
    BY DEF Sound, Explained
  <2>2. Skipped(n, q) = Skipped(m, q)
    BY DEF Skipped
  <2>3. CASE q = p
    <3>1. Passed(n, p) = Passed(m, p) \cup {r.value}
      BY <1>n DEF Passed
    <3>2. {s.value : s \in {s \in n.receipts : s.period = p}}
          = {s.value : s \in {s \in m.receipts : s.period = p}} \cup {r.value}
      OBVIOUS
    <3> QED
      BY <2>1, <2>2, <2>3, <3>1, <3>2
  <2>4. CASE q # p
    <3>1. Passed(n, q) = Passed(m, q)
      BY <2>4, <1>n DEF Passed
    <3>2. {s \in n.receipts : s.period = q} = {s \in m.receipts : s.period = q}
      BY <2>4
    <3> QED
      BY <2>1, <2>2, <3>1, <3>2
  <2> QED
    BY <2>3, <2>4
<1>4. Single(n)
  <2>1. \A s \in m.receipts : s.period = p => s.value # r.value
    <3> SUFFICES ASSUME NEW s \in m.receipts, s.period = p
                 PROVE  s.value # r.value
      OBVIOUS
    <3>1. s.value \in Passed(m, p)
      BY DEF Sound, Explained
    <3> QED
      BY <3>1
  <2> QED
    BY <2>1 DEF Sound, Single
<1>5. Claimed(n)
  <2>1. r.key \in Keys /\ r.key # Elsewhere
    BY NumberingAssumption DEF Receipt
  <2>2. CASE ~ r.strict
    <3>1. n.claims = m.claims /\ {s \in n.receipts : s.strict} = {s \in m.receipts : s.strict}
      BY <2>2
    <3> QED
      BY <3>1 DEF Sound, Claimed
  <2>3. CASE r.strict
    <3>1. {y \in n.claims : y.provenance # Elsewhere}
          = {y \in m.claims : y.provenance # Elsewhere} \cup {x}
      BY <2>1, <2>3
    <3>2. {s \in n.receipts : s.strict} = {s \in m.receipts : s.strict} \cup {r}
      BY <2>3
    <3>3. {<<y.provenance, y.number>> : y \in {y \in n.claims : y.provenance # Elsewhere}}
          = {<<y.provenance, y.number>> : y \in {y \in m.claims : y.provenance # Elsewhere}}
              \cup {<<r.key, Rendered(r)>>}
      BY <3>1
    <3>4. {<<s.key, Rendered(s)>> : s \in {s \in n.receipts : s.strict}}
          = {<<s.key, Rendered(s)>> : s \in {s \in m.receipts : s.strict}}
              \cup {<<r.key, Rendered(r)>>}
      BY <3>2
    <3>5. \A y, z \in n.claims : y.number = z.number \/ y.document = z.document => y = z
      BY <2>3 DEF Sound, Claimed, Free
    <3> QED
      BY <3>3, <3>4, <3>5 DEF Sound, Claimed
  <2> QED
    BY <2>2, <2>3
<1> QED
  BY <1>1, <1>2, <1>3, <1>4, <1>5 DEF Sound, Replayed

-----------------------------------------------------------------------------
(* What one more change of a transaction is to what it sees *)

LEMMA ChangeFields ==
    ASSUME NEW x \in Changes
    PROVE  /\ x.series \in Proper \cup {None} /\ x.counters \in [Period -> Counter]
           /\ x.receipts \subseteq Receipt /\ x.ledger \in [Keys -> Receipt \cup {None}]
           /\ x.repairs \subseteq Repair /\ x.claims \subseteq Claim
BY DEF Changes

\* The changes x and one more.
Claiming(x, claim) == [x EXCEPT !.claims = x.claims \cup {claim}]
Repairing(x, p, k, R) == [x EXCEPT !.counters[p] = k, !.repairs = x.repairs \cup R]
Issuing(x, p, k, r, K) ==
    [x EXCEPT !.counters[p] = k, !.receipts = x.receipts \cup {r}, !.claims = x.claims \cup K]

LEMMA WithSeries ==
    ASSUME NEW d, NEW x \in Changes, NEW s \in Proper,
           NEW y, y = [x EXCEPT !.series = s],
           NEW m, m = With(d, x), NEW n, n = With(d, y)
    PROVE  /\ y \in Changes
           /\ n.series = s /\ n.counters = m.counters /\ n.receipts = m.receipts
           /\ n.ledger = m.ledger /\ n.repairs = m.repairs /\ n.claims = m.claims
<1>1. y \in Changes
  BY DEF Changes
<1>2. y.series = s /\ y.counters = x.counters /\ y.receipts = x.receipts
      /\ y.ledger = x.ledger /\ y.repairs = x.repairs /\ y.claims = x.claims
  BY DEF Changes
<1>3. s # None
  BY ProperIsSeries
<1> QED
  BY <1>1, <1>2, <1>3 DEF With

LEMMA WithClaim ==
    ASSUME NEW d, NEW x \in Changes, NEW claim \in Claim,
           NEW y, y = Claiming(x, claim),
           NEW m, m = With(d, x), NEW n, n = With(d, y)
    PROVE  /\ y \in Changes
           /\ n.series = m.series /\ n.counters = m.counters /\ n.receipts = m.receipts
           /\ n.ledger = m.ledger /\ n.repairs = m.repairs /\ n.claims = m.claims \cup {claim}
<1>1. y \in Changes
  BY DEF Changes, Claiming
<1>2. y.series = x.series /\ y.counters = x.counters /\ y.receipts = x.receipts
      /\ y.ledger = x.ledger /\ y.repairs = x.repairs /\ y.claims = x.claims \cup {claim}
  BY DEF Changes, Claiming
<1> QED
  BY <1>1, <1>2 DEF With

LEMMA WithRecord ==
    ASSUME NEW d \in Tables, NEW x \in Changes, NEW k \in Keys, NEW r \in Receipt,
           NEW y, y = [x EXCEPT !.ledger[k] = r],
           NEW m, m = With(d, x), NEW n, n = With(d, y)
    PROVE  /\ y \in Changes
           /\ n.series = m.series /\ n.counters = m.counters /\ n.receipts = m.receipts
           /\ n.ledger = [m.ledger EXCEPT ![k] = r] /\ n.repairs = m.repairs
           /\ n.claims = m.claims
<1>1. y \in Changes
  BY DEF Changes
<1>2. y.series = x.series /\ y.counters = x.counters /\ y.receipts = x.receipts
      /\ y.ledger = [x.ledger EXCEPT ![k] = r] /\ y.repairs = x.repairs /\ y.claims = x.claims
  BY DEF Changes
<1>3. n.series = m.series /\ n.counters = m.counters /\ n.receipts = m.receipts
      /\ n.repairs = m.repairs /\ n.claims = m.claims
  BY <1>2 DEF With
<1>4. n.ledger = [m.ledger EXCEPT ![k] = r]
  <2>1. r # None
    BY NumberingAssumption
  <2>2. x.ledger \in [Keys -> Receipt \cup {None}]
    BY ChangeFields
  <2>3. n.ledger = [j \in Keys |-> IF y.ledger[j] # None THEN y.ledger[j] ELSE d.ledger[j]]
        /\ m.ledger = [j \in Keys |-> IF x.ledger[j] # None THEN x.ledger[j] ELSE d.ledger[j]]
    BY DEF With
  <2> QED
    BY <1>2, <2>1, <2>2, <2>3
<1> QED
  BY <1>1, <1>3, <1>4

LEMMA WithCounter ==
    ASSUME NEW d \in Tables, NEW x \in Changes, NEW p \in Period, NEW k \in Counter,
           k # NoCounter, NEW y \in Changes, y.counters = [x.counters EXCEPT ![p] = k]
    PROVE  With(d, y).counters = [With(d, x).counters EXCEPT ![p] = k]
<1>1. x.counters \in [Period -> Counter]
  BY ChangeFields
<1>2. With(d, y).counters = [q \in Period |->
          IF y.counters[q] # NoCounter THEN y.counters[q] ELSE d.counters[q]]
      /\ With(d, x).counters = [q \in Period |->
          IF x.counters[q] # NoCounter THEN x.counters[q] ELSE d.counters[q]]
  BY DEF With
<1> QED
  BY <1>1, <1>2

LEMMA WithAdvance ==
    ASSUME NEW d \in Tables, NEW x \in Changes, NEW p \in Period, NEW k \in Counter,
           k # NoCounter, NEW R \in SUBSET Repair,
           NEW y, y = Repairing(x, p, k, R),
           NEW m, m = With(d, x), NEW n, n = With(d, y)
    PROVE  /\ y \in Changes
           /\ n.series = m.series /\ n.counters = [m.counters EXCEPT ![p] = k]
           /\ n.receipts = m.receipts /\ n.ledger = m.ledger
           /\ n.repairs = m.repairs \cup R /\ n.claims = m.claims
<1>1. y.series = x.series /\ y.counters = [x.counters EXCEPT ![p] = k]
      /\ y.receipts = x.receipts /\ y.ledger = x.ledger /\ y.repairs = x.repairs \cup R
      /\ y.claims = x.claims
  BY DEF Changes, Repairing
<1>2. y \in Changes
  <2>1. y = [x EXCEPT !.counters = [x.counters EXCEPT ![p] = k], !.repairs = x.repairs \cup R]
    BY DEF Changes, Repairing
  <2>2. [x.counters EXCEPT ![p] = k] \in [Period -> Counter]
        /\ x.repairs \cup R \in SUBSET Repair
    BY ChangeFields
  <2> QED
    BY <2>1, <2>2 DEF Changes
<1>3. n.series = m.series /\ n.receipts = m.receipts /\ n.ledger = m.ledger
      /\ n.repairs = m.repairs \cup R /\ n.claims = m.claims
  BY <1>1 DEF With
<1>4. n.counters = [m.counters EXCEPT ![p] = k]
  <2>1. y.counters = [x.counters EXCEPT ![p] = k]
    BY <1>1
  <2>2. With(d, y).counters = [With(d, x).counters EXCEPT ![p] = k]
    BY ONLY d \in Tables, x \in Changes, p \in Period, k \in Counter, k # NoCounter, <1>2, <2>1,
       WithCounter
  <2> QED
    BY <2>2, Zenon
<1> QED
  BY <1>1, <1>2, <1>3, <1>4, Zenon

LEMMA WithNumber ==
    ASSUME NEW d \in Tables, NEW x \in Changes, NEW p \in Period, NEW k \in Counter,
           k # NoCounter, NEW r \in Receipt, NEW K \in SUBSET Claim,
           NEW y, y = Issuing(x, p, k, r, K),
           NEW m, m = With(d, x), NEW n, n = With(d, y)
    PROVE  /\ y \in Changes
           /\ n.series = m.series /\ n.counters = [m.counters EXCEPT ![p] = k]
           /\ n.receipts = m.receipts \cup {r} /\ n.ledger = m.ledger
           /\ n.repairs = m.repairs /\ n.claims = m.claims \cup K
<1>1. y.series = x.series /\ y.counters = [x.counters EXCEPT ![p] = k]
      /\ y.receipts = x.receipts \cup {r} /\ y.ledger = x.ledger /\ y.repairs = x.repairs
      /\ y.claims = x.claims \cup K
  BY DEF Changes, Issuing
<1>2. y \in Changes
  <2>1. y = [x EXCEPT !.counters = [x.counters EXCEPT ![p] = k], !.receipts = x.receipts \cup {r},
                     !.claims = x.claims \cup K]
    BY DEF Changes, Issuing
  <2>2. [x.counters EXCEPT ![p] = k] \in [Period -> Counter]
        /\ x.receipts \cup {r} \in SUBSET Receipt /\ x.claims \cup K \in SUBSET Claim
    BY ChangeFields
  <2> QED
    BY <2>1, <2>2 DEF Changes
<1>3. n.series = m.series /\ n.receipts = m.receipts \cup {r} /\ n.ledger = m.ledger
      /\ n.repairs = m.repairs /\ n.claims = m.claims \cup K
  BY <1>1 DEF With
<1>4. n.counters = [m.counters EXCEPT ![p] = k]
  <2>1. y.counters = [x.counters EXCEPT ![p] = k]
    BY <1>1
  <2>2. With(d, y).counters = [With(d, x).counters EXCEPT ![p] = k]
    BY ONLY d \in Tables, x \in Changes, p \in Period, k \in Counter, k # NoCounter, <1>2, <2>1,
       WithCounter
  <2> QED
    BY <2>2, Zenon
<1> QED
  BY <1>1, <1>2, <1>3, <1>4, Zenon

-----------------------------------------------------------------------------
(* Steps: the caller that takes one, and the others *)

LEMMA InvCommitted ==
    ASSUME Inv
    PROVE  Committed \in Tables
BY DEF Inv, Sound

LEMMA InvMine ==
    ASSUME Inv, NEW c \in Callers
    PROVE  /\ tx[c] \in Changes /\ (tx[c] # Untouched => series_lock = c)
           /\ Seen(c) \in Tables /\ Sound(Seen(c)) /\ Replayed(Seen(c), PendingOf(c))
           /\ SavedOK(c) /\ CallOK(c)
BY DEF Inv, Mine, TxOK, Sound

LEMMA NothingPending ==
    ASSUME NEW c, call[c] = Idle
    PROVE  PendingOf(c) = {}
BY DEF PendingOf, Idle

LEMMA SeriesTyped ==
    ASSUME Inv, NEW c \in Callers
    PROVE  /\ SeriesOf(c) \in Proper \cup {Unset}
           /\ SeriesOf(c) # Unset => SeriesOf(c) \in Proper
<1>1. Seen(c) \in Tables
  BY InvMine
<1>2. Seen(c).series = SeriesOf(c)
  BY SeenFields
<1> QED
  BY <1>1, <1>2 DEF Tables

\* A caller keeps what it relies on while another works.
LEMMA Bystander ==
    ASSUME Inv, UNCHANGED tables, NEW u \in Callers, tx'[u] = tx[u], call'[u] = call[u],
           series_lock = u => series_lock' = u
    PROVE  Mine(u)'
<1>1. Mine(u)
  BY DEF Inv
<1>2. Committed' = Committed
  BY CommittedStays
<1>3. Seen(u)' = Seen(u)
  BY <1>2 DEF Seen
<1>4. Kept(u)' = Kept(u)
  BY <1>2 DEF Kept
<1>5. SeriesOf(u)' = SeriesOf(u)
  BY DEF SeriesOf, tables
<1>6. PendingOf(u)' = PendingOf(u)
  BY DEF PendingOf
<1>7. TxOK(u)'
  BY <1>1, <1>3, <1>6 DEF Mine, TxOK
<1>8. SavedOK(u)'
  BY <1>1, <1>4 DEF Mine, SavedOK, Allocating
<1>9. CallOK(u)'
  BY <1>1, <1>5 DEF Mine, CallOK
<1> QED
  BY <1>7, <1>8, <1>9 DEF Mine

LEMMA OneMoves ==
    ASSUME Inv, NEW c \in Callers, UNCHANGED tables,
           tx' \in [Callers -> Changes], DOMAIN call' = Callers,
           \A u \in Callers \ {c} : tx'[u] = tx[u] /\ call'[u] = call[u],
           \A u \in Callers \ {c} : series_lock = u => series_lock' = u,
           series_lock' \in Callers \cup {None},
           counter_lock' \in [Period -> Callers \cup {None}],
           Mine(c)'
    PROVE  Inv'
<1>1. Committed' = Committed
  BY CommittedStays
<1>2. \A u \in Callers : Mine(u)'
  BY Bystander
<1>3. Sound(Committed)' /\ Replayed(Committed, {})'
  BY <1>1 DEF Inv
<1> QED
  BY <1>2, <1>3 DEF Inv

LEMMA MayLockFrees ==
    ASSUME NEW c \in Callers, MayLock(c, series_lock)
    PROVE  \A u \in Callers \ {c} : series_lock # u
BY NumberingAssumption DEF MayLock

\* A caller that is idle after its step.
LEMMA IdleAfter ==
    ASSUME NEW c, call'[c] = Idle, tx'[c] \in Changes,
           tx'[c] # Untouched => series_lock' = c,
           Sound(Seen(c)'), Replayed(Seen(c)', {})
    PROVE  Mine(c)'
<1>1. call'[c].step = "idle"
  BY DEF Idle
<1>2. PendingOf(c)' = {}
  BY <1>1 DEF PendingOf
<1>3. TxOK(c)'
  BY <1>2 DEF TxOK
<1>4. SavedOK(c)'
  BY <1>1 DEF SavedOK, Allocating
<1>5. CallOK(c)'
  BY <1>1 DEF CallOK
<1> QED
  BY <1>3, <1>4, <1>5 DEF Mine

\* A call that ends, or is one step long, with the change x under the lock.
LEMMA ChangeUnderLock ==
    ASSUME Inv, NEW c \in Callers, UNCHANGED tables,
           counter_lock' \in [Period -> Callers \cup {None}],
           NEW x \in Changes, tx' = [tx EXCEPT ![c] = x],
           DOMAIN call' = Callers, call'[c] = Idle,
           \A u \in Callers \ {c} : call'[u] = call[u],
           \A u \in Callers \ {c} : series_lock # u, series_lock' = c,
           Sound(With(Committed, x)), Replayed(With(Committed, x), {})
    PROVE  Inv'
<1>1. tx \in [Callers -> Changes]
  BY DEF Inv
<1>2. tx' \in [Callers -> Changes] /\ tx'[c] = x /\ \A u \in Callers \ {c} : tx'[u] = tx[u]
  BY <1>1
<1>3. Committed' = Committed
  BY CommittedStays
<1>4. Seen(c)' = With(Committed, x)
  BY <1>2, <1>3 DEF Seen
<1>5. Mine(c)'
  BY <1>2, <1>4, IdleAfter
<1> QED
  BY <1>1, <1>2, <1>5, OneMoves

LEMMA SeriesWritten ==
    ASSUME Inv, NEW c \in Callers, UNCHANGED <<tables, counter_lock>>,
           NEW s \in Proper, tx' = [tx EXCEPT ![c] = [@ EXCEPT !.series = s]],
           (SeriesOf(c) # Unset /\ s.shape = SeriesOf(c).shape)
               \/ receipts \cup tx[c].receipts = {} \/ SeriesOf(c) = Unset,
           PendingOf(c) = {},
           DOMAIN call' = Callers, call'[c] = Idle,
           \A u \in Callers \ {c} : call'[u] = call[u],
           \A u \in Callers \ {c} : series_lock # u, series_lock' = c
    PROVE  Inv'
<1> DEFINE x == [tx[c] EXCEPT !.series = s]
<1>1. tx[c] \in Changes /\ Sound(Seen(c)) /\ Replayed(Seen(c), {})
  BY InvMine
<1>2. tx' = [tx EXCEPT ![c] = x]
  BY DEF Inv
<1>3. /\ x \in Changes
      /\ With(Committed, x).series = s /\ With(Committed, x).counters = Seen(c).counters
      /\ With(Committed, x).receipts = Seen(c).receipts
      /\ With(Committed, x).ledger = Seen(c).ledger
      /\ With(Committed, x).repairs = Seen(c).repairs
      /\ With(Committed, x).claims = Seen(c).claims
  BY <1>1, WithSeries DEF Seen
<1> HIDE DEF x
<1>4. With(Committed, x) \in Tables
  BY <1>3, InvCommitted, WithTyped
<1>5. Seen(c).series = SeriesOf(c) /\ Seen(c).receipts = receipts \cup tx[c].receipts
  BY SeenFields
<1>6. SeriesOf(c) = Unset => Seen(c).receipts = {}
  BY <1>1, <1>5 DEF Sound, Configured
<1>7. (Seen(c).series # Unset /\ With(Committed, x).series.shape = Seen(c).series.shape)
          \/ Seen(c).receipts = {}
  BY <1>3, <1>5, <1>6
<1>8. With(Committed, x).series # Unset
  BY <1>3, UnsetIsNoSeries
<1>9. Sound(With(Committed, x)) /\ Replayed(With(Committed, x), {})
  BY <1>1, <1>3, <1>4, <1>7, <1>8, SeriesChange
<1> QED
  BY <1>2, <1>3, <1>9, ChangeUnderLock DEF Inv

LEMMA NewSeriesIsProper ==
    ASSUME NEW new \in Configurations, NEW strict \in BOOLEAN
    PROVE  [shape |-> new.shape, start_value |-> new.start_value, strict |-> strict] \in Proper
<1>1. new \in [shape : Shape, start_value : Nat \ {0}]
      /\ (new.shape.reset_policy = "yearly" => new.shape.include_year)
  BY NumberingAssumption
<1> DEFINE s == [shape |-> new.shape, start_value |-> new.start_value, strict |-> strict]
<1>2. s \in Series /\ s.shape = new.shape /\ s.start_value = new.start_value
  BY <1>1 DEF Series
<1> HIDE DEF s
<1>3. s \in Proper
  BY <1>1, <1>2 DEF Proper
<1> QED
  BY <1>3 DEF s

LEMMA CreateKeeps ==
    ASSUME Inv, NEW c \in Callers, NEW new \in Configurations, create_series(c, new)
    PROVE  Inv'
<1> DEFINE s == [shape |-> new.shape, start_value |-> new.start_value, strict |-> TRUE]
<1>1. s \in Proper
  BY NewSeriesIsProper
<1>2. tx' = [tx EXCEPT ![c] = [@ EXCEPT !.series = s]] /\ UNCHANGED <<tables, counter_lock>>
      /\ SeriesOf(c) = Unset /\ series_lock' = c /\ call' = call /\ call[c] = Idle
  BY DEF create_series
<1>3. \A u \in Callers \ {c} : series_lock # u
  BY MayLockFrees DEF create_series
<1>4. DOMAIN call' = Callers
  BY <1>2 DEF Inv
<1> HIDE DEF s
<1> QED
  BY <1>1, <1>2, <1>3, <1>4, NothingPending, SeriesWritten

LEMMA EnrollKeeps ==
    ASSUME Inv, NEW c \in Callers, enroll_series(c)
    PROVE  Inv'
<1> DEFINE s == [SeriesOf(c) EXCEPT !.strict = TRUE]
<1>1. SeriesOf(c) \in Proper
  BY SeriesTyped DEF enroll_series
<1>2. s \in Proper /\ s.shape = SeriesOf(c).shape
  BY <1>1 DEF Proper, Series
<1>3. tx' = [tx EXCEPT ![c] = [@ EXCEPT !.series = s]] /\ UNCHANGED <<tables, counter_lock>>
      /\ SeriesOf(c) # Unset /\ series_lock' = c /\ call' = call /\ call[c] = Idle
  BY DEF enroll_series
<1>4. \A u \in Callers \ {c} : series_lock # u
  BY MayLockFrees DEF enroll_series
<1>5. DOMAIN call' = Callers
  BY <1>3 DEF Inv
<1> HIDE DEF s
<1> QED
  BY <1>2, <1>3, <1>4, <1>5, NothingPending, SeriesWritten

LEMMA ConfigureWriteKeeps ==
    ASSUME Inv, NEW c \in Callers, ConfigureWrite(c)
    PROVE  Inv'
<1> DEFINE s == call[c].series
<1>1. call[c].step = "configure" /\ CallOK(c) /\ DOMAIN call = Callers
  BY InvMine DEF ConfigureWrite, Inv
<1>2. s \in Proper /\ (call[c].found => series_lock = c /\ SeriesOf(c) # Unset)
  BY <1>1 DEF CallOK
<1>3. tx' = [tx EXCEPT ![c] = [@ EXCEPT !.series = s]] /\ UNCHANGED <<tables, counter_lock>>
      /\ series_lock' = c /\ call' = [call EXCEPT ![c] = Idle]
  BY DEF ConfigureWrite
<1>4. \A u \in Callers \ {c} : series_lock # u
  BY <1>2, MayLockFrees DEF ConfigureWrite
<1>5. (SeriesOf(c) # Unset /\ s.shape = SeriesOf(c).shape)
          \/ receipts \cup tx[c].receipts = {} \/ SeriesOf(c) = Unset
  BY <1>2 DEF ConfigureWrite, SafeTransition, series_has_history
<1>6. PendingOf(c) = {}
  BY <1>1 DEF PendingOf
<1>7. DOMAIN call' = Callers /\ call'[c] = Idle
      /\ \A u \in Callers \ {c} : call'[u] = call[u]
  BY <1>1, <1>3
<1> HIDE DEF s
<1> QED
  BY <1>2, <1>3, <1>4, <1>5, <1>6, <1>7, SeriesWritten

LEMMA ReserveKeeps ==
    ASSUME Inv, NEW c \in Callers, NEW number \in Reserved, NEW document \in Docs,
           reserve_number(c, number, document)
    PROVE  Inv'
<1> DEFINE claim == [number |-> number, document |-> document, provenance |-> Elsewhere]
           x == Claiming(tx[c], claim)
<1>1. tx[c] \in Changes /\ Sound(Seen(c)) /\ Replayed(Seen(c), {})
  BY InvMine, NothingPending DEF reserve_number
<1>2. tx' = [tx EXCEPT ![c] = x] /\ UNCHANGED <<tables, counter_lock>>
      /\ series_lock' = c /\ call' = call /\ call[c] = Idle
  BY DEF reserve_number, Claiming
<1>3. \A u \in Callers \ {c} : series_lock # u
  BY MayLockFrees DEF reserve_number
<1>4. DOMAIN call' = Callers
  BY <1>2 DEF Inv
<1>5. claim \in Claim /\ claim.provenance = Elsewhere
      /\ claim.number = number /\ claim.document = document
  BY NumberingAssumption DEF Claim
<1> HIDE DEF claim
<1>6. /\ x \in Changes
      /\ With(Committed, x).series = Seen(c).series
      /\ With(Committed, x).counters = Seen(c).counters
      /\ With(Committed, x).receipts = Seen(c).receipts
      /\ With(Committed, x).ledger = Seen(c).ledger
      /\ With(Committed, x).repairs = Seen(c).repairs
      /\ With(Committed, x).claims = Seen(c).claims \cup {claim}
  BY <1>1, <1>5, WithClaim DEF Seen
<1> HIDE DEF x
<1>7. With(Committed, x) \in Tables
  BY <1>6, InvCommitted, WithTyped
<1>8. \A y \in Seen(c).claims : y.number # claim.number /\ y.document # claim.document
  BY <1>5, SeenFields DEF reserve_number, Collides
<1>9. Sound(With(Committed, x)) /\ Replayed(With(Committed, x), {})
  BY <1>1, <1>5, <1>6, <1>7, <1>8, Reservation
<1> QED
  BY <1>2, <1>3, <1>4, <1>6, <1>9, ChangeUnderLock DEF Inv

LEMMA LockedIsBegun ==
    ASSUME NEW c, NEW p \in Period, NEW start
    PROVE  Locked(c, p, start) = Begun(Seen(c).counters[p], start)
BY SeenFields DEF Locked, Begun

LEMMA AdvanceKeeps ==
    ASSUME Inv, NEW c \in Callers, NEW p \in Period, NEW minimum \in Minima,
           advance_to_at_least(c, p, minimum)
    PROVE  Inv'
<1> DEFINE start == SeriesOf(c).start_value
           k == Locked(c, p, start)
           after == AdvanceOnly(minimum + 1, k.next_value)
           R == {r \in {[period |-> p, previous |-> k.next_value, new |-> after]} :
                   r.previous # r.new}
           j == [k EXCEPT !.next_value = after]
           x == Repairing(tx[c], p, j, R)
<1>1. tx[c] \in Changes /\ Sound(Seen(c)) /\ Replayed(Seen(c), {})
  BY InvMine, NothingPending DEF advance_to_at_least
<1>2. tx' = [tx EXCEPT ![c] = x] /\ UNCHANGED tables
      /\ series_lock' = c /\ call' = call /\ call[c] = Idle
      /\ counter_lock' = [counter_lock EXCEPT ![p] = c]
  BY DEF advance_to_at_least, Repairing
<1>3. \A u \in Callers \ {c} : series_lock # u
  BY MayLockFrees DEF advance_to_at_least
<1>4. DOMAIN call' = Callers /\ counter_lock' \in [Period -> Callers \cup {None}]
  BY <1>2 DEF Inv
<1>5. start \in Nat \ {0}
  BY SeriesTyped DEF advance_to_at_least, Proper, Series
<1> HIDE DEF start
<1>6. k = Begun(Seen(c).counters[p], start)
  BY LockedIsBegun
<1> HIDE DEF k
<1>7. k \in Counter /\ k # NoCounter /\ Ahead(k)
  BY <1>1, <1>5, <1>6, BegunFacts
<1>8. k.first \in Nat /\ k.next_value \in Nat /\ minimum \in Nat /\ MAX_VALUE \in Nat
      /\ minimum < MAX_VALUE
  BY <1>7, NumberingAssumption DEF Counter, advance_to_at_least
<1>9. after \in Nat /\ k.next_value <= after /\ (k.next_value # after => after <= MAX_VALUE)
  BY <1>8 DEF AdvanceOnly
<1> HIDE DEF after
<1>10. j \in Counter /\ j # NoCounter
  <2>1. j \in Counter /\ j.first = k.first
    BY <1>7, <1>9 DEF Counter
  <2>2. NoCounter.first = 0
    BY DEF NoCounter
  <2> HIDE DEF j
  <2> QED
    BY <1>7, <1>8, <2>1, <2>2 DEF Ahead
<1>11. R \in SUBSET Repair
  BY <1>8, <1>9 DEF Repair
<1> HIDE DEF R
<1>12. /\ x \in Changes
       /\ With(Committed, x).series = Seen(c).series
       /\ With(Committed, x).counters = [Seen(c).counters EXCEPT ![p] = j]
       /\ With(Committed, x).receipts = Seen(c).receipts
       /\ With(Committed, x).ledger = Seen(c).ledger
       /\ With(Committed, x).repairs = Seen(c).repairs \cup R
       /\ With(Committed, x).claims = Seen(c).claims
  <2> HIDE DEF j
  <2>1. Committed \in Tables /\ tx[c] \in Changes
    BY <1>1, InvCommitted
  <2> QED
    BY <2>1, <1>10, <1>11, WithAdvance DEF Seen
<1> HIDE DEF x
<1>13. With(Committed, x) \in Tables
  BY <1>12, InvCommitted, WithTyped
<1>14. Sound(With(Committed, x)) /\ Replayed(With(Committed, x), {})
  BY <1>1, <1>5, <1>6, <1>9, <1>12, <1>13, Advance DEF R
<1> HIDE DEF j
<1> QED
  BY <1>2, <1>3, <1>4, <1>12, <1>14, ChangeUnderLock

LEMMA LedgerWonKeeps ==
    ASSUME Inv, NEW c \in Callers, LedgerWon(c)
    PROVE  Inv'
<1> DEFINE k == call[c].key
           r == call[c].receipt
           x == [tx[c] EXCEPT !.ledger[k] = r]
<1>1. call[c].step = "insert" /\ SavedOK(c) /\ CallOK(c) /\ DOMAIN call = Callers
  BY InvMine DEF LedgerWon, InsertMayProceed, Inv
<1>2. k \in Keys /\ r \in Receipt /\ series_lock = c /\ tx[c].ledger[k] = None
  BY <1>1 DEF SavedOK, CallOK, Allocating
<1>3. tx[c] \in Changes /\ Sound(Seen(c)) /\ Replayed(Seen(c), {r})
  BY <1>1, InvMine DEF PendingOf
<1>4. tx' = [tx EXCEPT ![c] = x] /\ UNCHANGED <<tables, locks>>
      /\ call' = [call EXCEPT ![c] = Idle] /\ ledger[k] = None
  BY DEF LedgerWon, Inv
<1>5. series_lock' = c /\ counter_lock' \in [Period -> Callers \cup {None}]
      /\ \A u \in Callers \ {c} : series_lock # u
  BY <1>2, <1>4 DEF locks, Inv
<1>6. DOMAIN call' = Callers /\ call'[c] = Idle
      /\ \A u \in Callers \ {c} : call'[u] = call[u]
  BY <1>1, <1>4
<1> HIDE DEF k, r
<1>7. /\ x \in Changes
      /\ With(Committed, x).series = Seen(c).series
      /\ With(Committed, x).counters = Seen(c).counters
      /\ With(Committed, x).receipts = Seen(c).receipts
      /\ With(Committed, x).ledger = [Seen(c).ledger EXCEPT ![k] = r]
      /\ With(Committed, x).repairs = Seen(c).repairs
      /\ With(Committed, x).claims = Seen(c).claims
  BY <1>2, <1>3, InvCommitted, WithRecord DEF Seen
<1> HIDE DEF x
<1>8. With(Committed, x) \in Tables
  BY <1>7, InvCommitted, WithTyped
<1>9. Seen(c).ledger[k] = None
  BY <1>2, <1>4, SeenFields DEF Recorded
<1>10. Sound(With(Committed, x)) /\ Replayed(With(Committed, x), {})
  BY <1>2, <1>3, <1>7, <1>8, <1>9, Recording
<1> QED
  BY <1>4, <1>5, <1>6, <1>7, <1>10, ChangeUnderLock

\* Steps that change neither the tables nor what the caller has changed.
LEMMA OnlyTheCall ==
    ASSUME Inv, NEW c \in Callers, UNCHANGED <<tables, tx>>,
           NEW now, call' = [call EXCEPT ![c] = now],
           now.step # "insert", PendingOf(c) = {},
           series_lock' = series_lock \/ (MayLock(c, series_lock) /\ series_lock' = c),
           counter_lock' \in [Period -> Callers \cup {None}],
           SavedOK(c)', CallOK(c)'
    PROVE  Inv'
<1>1. tx \in [Callers -> Changes] /\ series_lock \in Callers \cup {None} /\ DOMAIN call = Callers
  BY DEF Inv
<1>2. tx' \in [Callers -> Changes] /\ \A u \in Callers : tx'[u] = tx[u]
  BY <1>1
<1>3. DOMAIN call' = Callers /\ call'[c] = now /\ \A u \in Callers \ {c} : call'[u] = call[u]
  BY <1>1
<1>4. Seen(c)' = Seen(c)
  BY <1>2, CommittedStays DEF Seen
<1>5. PendingOf(c)' = {}
  BY <1>3 DEF PendingOf
<1>6. TxOK(c)'
  BY <1>2, <1>4, <1>5, InvMine DEF TxOK
<1>7. \A u \in Callers \ {c} : series_lock = u => series_lock' = u
  BY MayLockFrees
<1>8. series_lock' \in Callers \cup {None}
  BY <1>1
<1> QED
  BY <1>2, <1>3, <1>6, <1>7, <1>8, OneMoves DEF Mine

LEMMA AllocateKeeps ==
    ASSUME Inv, NEW c \in Callers, NEW k \in Keys, NEW year \in Years,
           NEW document \in Docs \cup {None}, allocate(c, k, year, document)
    PROVE  Inv'
<1> DEFINE now == [step |-> "series", key |-> k, year |-> year, document |-> document,
                   saved |-> tx[c], had_series |-> series_lock = c,
                   had_counters |-> {p \in Period : counter_lock[p] = c}]
<1>1. call[c] = Idle /\ Recorded(c, k) = None /\ call' = [call EXCEPT ![c] = now]
      /\ UNCHANGED <<tables, tx, locks>>
  BY DEF allocate
<1>2. now.step = "series" /\ now.key = k /\ now.year = year /\ now.document = document
      /\ now.saved = tx[c] /\ now.had_series = (series_lock = c)
  OBVIOUS
<1> HIDE DEF now
<1>3. call'[c] = now
  BY <1>1 DEF Inv
<1>4. Committed' = Committed
  BY <1>1, CommittedStays
<1>5. Kept(c)' = Seen(c)
  BY <1>2, <1>3, <1>4 DEF Kept, Seen
<1>6. tx[c] \in Changes /\ (tx[c] # Untouched => series_lock = c)
      /\ Sound(Seen(c)) /\ Replayed(Seen(c), {})
  BY <1>1, InvMine, NothingPending
<1>7. tx[c].ledger[k] = None
  BY <1>1 DEF Recorded
<1>8. SavedOK(c)'
  BY <1>1, <1>2, <1>3, <1>5, <1>6, <1>7 DEF SavedOK, locks
<1>9. CallOK(c)'
  BY <1>2, <1>3 DEF CallOK
<1> QED
  BY <1>1, <1>2, <1>8, <1>9, NothingPending, OnlyTheCall DEF Inv, locks

LEMMA TakeSeriesKeeps ==
    ASSUME Inv, NEW c \in Callers, TakeSeries(c)
    PROVE  Inv'
<1> DEFINE now == [step |-> "counter", key |-> call[c].key, year |-> call[c].year,
                   document |-> call[c].document, saved |-> call[c].saved,
                   had_series |-> call[c].had_series, had_counters |-> call[c].had_counters,
                   series |-> SeriesOf(c)]
<1>1. call[c].step = "series" /\ MayLock(c, series_lock) /\ SeriesOf(c) # Unset
      /\ series_lock' = c /\ call' = [call EXCEPT ![c] = now]
      /\ UNCHANGED <<tables, tx, counter_lock>>
  BY DEF TakeSeries
<1>2. now.step = "counter" /\ now.key = call[c].key /\ now.year = call[c].year
      /\ now.document = call[c].document /\ now.saved = call[c].saved
      /\ now.had_series = call[c].had_series /\ now.series = SeriesOf(c)
  OBVIOUS
<1> HIDE DEF now
<1>3. call'[c] = now
  BY <1>1 DEF Inv
<1>4. Kept(c)' = Kept(c)
  BY <1>1, <1>2, <1>3, CommittedStays DEF Kept
<1>5. SeriesOf(c)' = SeriesOf(c)
  BY <1>1 DEF SeriesOf, tables
<1>6. SavedOK(c)'
  BY <1>1, <1>2, <1>3, <1>4, InvMine DEF SavedOK, Allocating
<1>7. CallOK(c)'
  BY <1>1, <1>2, <1>3, <1>5, InvMine DEF CallOK
<1>8. PendingOf(c) = {}
  BY <1>1 DEF PendingOf
<1> QED
  BY <1>1, <1>2, <1>6, <1>7, <1>8, OnlyTheCall DEF Inv

LEMMA ConfigureReadKeeps ==
    ASSUME Inv, NEW c \in Callers, NEW new \in Configurations, ConfigureRead(c, new)
    PROVE  Inv'
<1> DEFINE s == [shape |-> new.shape, start_value |-> new.start_value,
                 strict |-> SeriesOf(c) # Unset /\ SeriesOf(c).strict]
           now == [step |-> "configure", found |-> SeriesOf(c) # Unset, series |-> s]
<1>1. s \in Proper
  <2>1. (SeriesOf(c) # Unset /\ SeriesOf(c).strict) \in BOOLEAN
    OBVIOUS
  <2> QED
    BY <2>1, NewSeriesIsProper
<1> HIDE DEF s
<1>2. call[c] = Idle /\ call' = [call EXCEPT ![c] = now] /\ UNCHANGED <<tables, tx, counter_lock>>
      /\ IF SeriesOf(c) = Unset THEN UNCHANGED series_lock
         ELSE MayLock(c, series_lock) /\ series_lock' = c
  BY DEF ConfigureRead, s
<1>3. now.step = "configure" /\ now.found = (SeriesOf(c) # Unset) /\ now.series = s
  OBVIOUS
<1> HIDE DEF now
<1>4. call'[c] = now
  BY <1>2 DEF Inv
<1>5. SeriesOf(c)' = SeriesOf(c)
  BY <1>2 DEF SeriesOf, tables
<1>6. SavedOK(c)'
  BY <1>3, <1>4 DEF SavedOK, Allocating
<1>7. CallOK(c)'
  BY <1>1, <1>2, <1>3, <1>4, <1>5 DEF CallOK
<1> QED
  BY <1>2, <1>3, <1>6, <1>7, NothingPending, OnlyTheCall DEF Inv

LEMMA ConfigureRefusedKeeps ==
    ASSUME Inv, NEW c \in Callers, ConfigureRefused(c)
    PROVE  Inv'
<1>1. call[c].step = "configure" /\ call' = [call EXCEPT ![c] = Idle]
      /\ UNCHANGED <<tables, tx, locks>>
  BY DEF ConfigureRefused
<1>2. Idle.step = "idle"
  BY DEF Idle
<1>3. call'[c] = Idle
  BY <1>1 DEF Inv
<1>4. SavedOK(c)' /\ CallOK(c)'
  BY <1>2, <1>3 DEF SavedOK, CallOK, Allocating
<1>5. PendingOf(c) = {}
  BY <1>1 DEF PendingOf
<1> QED
  BY <1>1, <1>2, <1>4, <1>5, OnlyTheCall DEF Inv, locks

LEMMA UndoKeeps ==
    ASSUME Inv, NEW c \in Callers, Allocating(c), UndoCall(c)
    PROVE  Inv'
<1> DEFINE x == call[c].saved
<1>1. /\ x \in Changes /\ (x # Untouched => series_lock = c /\ call[c].had_series)
      /\ Sound(Kept(c)) /\ Replayed(Kept(c), {})
  BY InvMine DEF SavedOK
<1>2. tx' = [tx EXCEPT ![c] = x] /\ call' = [call EXCEPT ![c] = Idle] /\ UNCHANGED tables
      /\ series_lock' = IF series_lock = c /\ ~ call[c].had_series THEN None ELSE series_lock
  BY DEF UndoCall
<1>3. counter_lock' \in [Period -> Callers \cup {None}]
  BY DEF UndoCall, Inv
<1> HIDE DEF x
<1>4. tx' \in [Callers -> Changes] /\ tx'[c] = x /\ \A u \in Callers \ {c} : tx'[u] = tx[u]
  BY <1>1, <1>2 DEF Inv
<1>5. DOMAIN call' = Callers /\ call'[c] = Idle /\ \A u \in Callers \ {c} : call'[u] = call[u]
  BY <1>2 DEF Inv
<1>6. Seen(c)' = Kept(c)
  BY <1>2, <1>4, CommittedStays DEF Seen, Kept, x
<1>7. Mine(c)'
  BY <1>1, <1>2, <1>4, <1>5, <1>6, IdleAfter
<1>8. series_lock' \in Callers \cup {None}
      /\ \A u \in Callers \ {c} : series_lock = u => series_lock' = u
  BY <1>2 DEF Inv
<1> QED
  BY <1>2, <1>3, <1>4, <1>5, <1>7, <1>8, OneMoves

LEMMA ValuesAreNumbers == \A v \in Value : v \in Nat
BY NumberingAssumption DEF Value

LEMMA YearsAreNumbers == \A y \in Years : y \in Nat /\ y % 100 \in Nat
<1>1. Years \subseteq 1 .. 9999
  BY NumberingAssumption
<1>2. \A y \in 1 .. 9999 : y \in Nat
  OBVIOUS
<1>3. \A y \in Nat : y % 100 \in Nat
  OBVIOUS
<1> QED
  BY <1>1, <1>2, <1>3

\* Whether or not it is refused, what is offered is next to what the counter has passed.
LEMMA OfferedIsNext ==
    ASSUME Inv, NEW c \in Callers, call[c].step = "counter",
           NEW r, r = Offered(c), NEW k, k = Locked(c, r.period, call[c].series.start_value)
    PROVE  /\ r = [period |-> r.period, value |-> r.value, year |-> r.year, key |-> r.key,
                   shape |-> r.shape, strict |-> r.strict]
           /\ r.period \in Period /\ r.year \in Years /\ r.key \in Keys /\ r.shape \in Shape
           /\ r.strict \in BOOLEAN
           /\ r.value = k.next_value /\ r.shape = Seen(c).series.shape
           /\ r.key = call[c].key /\ r.year = call[c].year
           /\ Seen(c).series # Unset /\ Seen(c).series \in Proper
           /\ r.period = period_for(r.year, r.shape.reset_policy)
           /\ k \in Counter /\ Ahead(k) /\ Passed(Seen(c), r.period) = Window(k)
<1> DEFINE s == call[c].series
           p == period_for(call[c].year, s.shape.reset_policy)
<1>1. s = SeriesOf(c) /\ SeriesOf(c) # Unset /\ call[c].key \in Keys /\ call[c].year \in Years
  BY InvMine DEF CallOK, SavedOK, Allocating
<1>2. s \in Proper /\ Seen(c).series = s
  BY <1>1, SeriesTyped, SeenFields
<1>3. s.shape \in Shape /\ s.strict \in BOOLEAN /\ s.start_value \in Nat \ {0}
  BY <1>2 DEF Proper, Series
<1>4. p \in Period
  BY <1>1 DEF period_for, Period
<1>5. r.period = p /\ r.value = Locked(c, p, s.start_value).next_value /\ r.year = call[c].year
      /\ r.key = call[c].key /\ r.shape = s.shape /\ r.strict = s.strict
  BY DEF Offered
<1>6. r = [period |-> r.period, value |-> r.value, year |-> r.year, key |-> r.key,
           shape |-> r.shape, strict |-> r.strict]
  BY DEF Offered
<1>7. p = period_for(r.year, r.shape.reset_policy)
  BY <1>5
<1> HIDE DEF p, s
<1>8. k = Begun(Seen(c).counters[p], s.start_value)
  BY <1>4, <1>5, LockedIsBegun DEF s
<1>9. k \in Counter /\ Ahead(k) /\ Passed(Seen(c), p) = Window(k)
  BY <1>3, <1>4, <1>8, InvMine, BegunFacts
<1>10. r.value = k.next_value
  BY <1>5 DEF s
<1> QED
  BY <1>1, <1>2, <1>3, <1>4, <1>5, <1>6, <1>7, <1>9, <1>10

LEMMA OfferedIsReceipt ==
    ASSUME Inv, NEW c \in Callers, call[c].step = "counter", ~ Refused(c, Offered(c)),
           NEW r, r = Offered(c), NEW k, k = Locked(c, r.period, call[c].series.start_value)
    PROVE  /\ r \in Receipt /\ r.value = k.next_value /\ r.shape = Seen(c).series.shape
           /\ r.key = call[c].key /\ Seen(c).series # Unset
           /\ r.period = period_for(r.year, r.shape.reset_policy)
           /\ k \in Counter /\ Ahead(k) /\ Passed(Seen(c), r.period) = Window(k)
           /\ Rendered(r) \in Number
<1>1. /\ r = [period |-> r.period, value |-> r.value, year |-> r.year, key |-> r.key,
              shape |-> r.shape, strict |-> r.strict]
      /\ r.period \in Period /\ r.year \in Years /\ r.key \in Keys /\ r.shape \in Shape
      /\ r.strict \in BOOLEAN
      /\ r.value = k.next_value /\ r.shape = Seen(c).series.shape
      /\ r.key = call[c].key /\ Seen(c).series # Unset
      /\ r.period = period_for(r.year, r.shape.reset_policy)
      /\ k \in Counter /\ Ahead(k) /\ Passed(Seen(c), r.period) = Window(k)
  BY OfferedIsNext
<1>2. r.value \in Value
  <2>1. k.first \in Nat /\ k.next_value \in Nat /\ MAX_VALUE \in Nat
    BY <1>1, NumberingAssumption DEF Counter
  <2>2. ~ (r.value >= MAX_VALUE)
    BY DEF Refused
  <2> QED
    BY <1>1, <2>1, <2>2 DEF Value, Ahead
<1>3. r \in Receipt
  BY ONLY <1>1, <1>2 DEF Receipt
<1>4. Rendered(r) \in Number
  <2>1. r.shape.year_digits \in {2, 4}
    BY <1>1 DEF Shape
  <2>2. r.year \in Nat /\ r.year % 100 \in Nat
    BY <1>1, YearsAreNumbers
  <2> QED
    BY <1>2, <2>1, <2>2 DEF Rendered, format_number, Number
<1> QED
  BY <1>1, <1>3, <1>4

LEMMA TakeNumberKeeps ==
    ASSUME Inv, NEW c \in Callers, TakeNumber(c)
    PROVE  Inv'
<1> DEFINE r == Offered(c)
           p == r.period
           k == Locked(c, p, call[c].series.start_value)
           j == [k EXCEPT !.next_value = k.next_value + 1]
           claim == [number |-> Rendered(r), document |-> call[c].document,
                     provenance |-> r.key]
           K == AllocationClaim(c, r)
           x == Issuing(tx[c], p, j, r, K)
           now == [step |-> "insert", key |-> call[c].key, saved |-> call[c].saved,
                   had_series |-> call[c].had_series, had_counters |-> call[c].had_counters,
                   receipt |-> r]
<1>1. call[c].step = "counter" /\ ~ Refused(c, r) /\ UNCHANGED <<tables, series_lock>>
      /\ counter_lock' = [counter_lock EXCEPT ![p] = c]
      /\ call' = [call EXCEPT ![c] = now]
  BY DEF TakeNumber
<1>2. tx' = [tx EXCEPT ![c] = x]
  BY DEF TakeNumber, Issuing
<1>3. now.step = "insert" /\ now.key = call[c].key /\ now.saved = call[c].saved
      /\ now.had_series = call[c].had_series /\ now.receipt = r
  OBVIOUS
<1> HIDE DEF r, now, x
<1>4. /\ r \in Receipt /\ r.value = k.next_value /\ r.shape = Seen(c).series.shape
      /\ r.key = call[c].key /\ Seen(c).series # Unset
      /\ p = period_for(r.year, r.shape.reset_policy)
      /\ k \in Counter /\ Ahead(k) /\ Passed(Seen(c), p) = Window(k)
      /\ Rendered(r) \in Number
  BY <1>1, OfferedIsReceipt DEF r
<1>5. p \in Period /\ r.value \in Value /\ r.key \in Keys
  BY <1>4 DEF Receipt
<1> HIDE DEF p, k
<1>6. /\ j \in Counter /\ Ahead(j)
      /\ Window(j) = Window(k) \cup {r.value} /\ r.value \notin Window(k)
  BY <1>4, <1>5, WindowGrows
<1>7. j # NoCounter
  <2>1. 1 <= j.first /\ j.first \in Nat
    BY <1>6 DEF Ahead, Counter
  <2>2. NoCounter.first = 0
    BY DEF NoCounter
  <2> HIDE DEF j
  <2>3. j.first # NoCounter.first
    BY <2>1, <2>2
  <2> QED
    BY <2>3
<1> HIDE DEF j
<1>8. call[c].key \in Keys /\ call[c].document \in Docs \cup {None} /\ series_lock = c
      /\ PendingOf(c) = {} /\ SavedOK(c)
  BY <1>1, InvMine DEF CallOK, SavedOK, Allocating, PendingOf
<1>9. r.strict => call[c].document \in Docs /\ Free(Seen(c), claim)
  <2> SUFFICES ASSUME r.strict
               PROVE  call[c].document \in Docs /\ Free(Seen(c), claim)
    OBVIOUS
  <2>1. call[c].document # None /\ ~ Collides(c, Rendered(r), call[c].document)
    BY <1>1 DEF Refused
  <2>2. Seen(c).claims = ClaimsOf(c)
    BY SeenFields
  <2> QED
    BY <1>8, <2>1, <2>2 DEF Collides, Free
<1>10. claim.number = Rendered(r) /\ claim.provenance = r.key
  OBVIOUS
<1>11. r.strict => K = {claim} /\ claim \in Claim
  BY <1>4, <1>5, <1>9 DEF AllocationClaim, Claim
<1>12. ~ r.strict => K = {}
  BY DEF AllocationClaim
<1> HIDE DEF claim, K
<1>13. K \in SUBSET Claim
  BY <1>11, <1>12
<1>14. tx[c] \in Changes /\ Committed \in Tables /\ Sound(Seen(c)) /\ Replayed(Seen(c), {})
  BY <1>8, InvMine, InvCommitted
<1>15. /\ x \in Changes
       /\ With(Committed, x).series = Seen(c).series
       /\ With(Committed, x).counters = [Seen(c).counters EXCEPT ![p] = j]
       /\ With(Committed, x).receipts = Seen(c).receipts \cup {r}
       /\ With(Committed, x).ledger = Seen(c).ledger
       /\ With(Committed, x).repairs = Seen(c).repairs
       /\ With(Committed, x).claims = Seen(c).claims \cup K
  BY <1>4, <1>5, <1>6, <1>7, <1>13, <1>14, WithNumber DEF Seen, x
<1>16. With(Committed, x) \in Tables
  BY <1>14, <1>15, WithTyped
<1>17. (r.strict => With(Committed, x).claims = Seen(c).claims \cup {claim})
       /\ (~ r.strict => With(Committed, x).claims = Seen(c).claims)
  BY <1>11, <1>12, <1>15
<1>18. Sound(With(Committed, x)) /\ Replayed(With(Committed, x), {r})
  <2>1. r.period = p
    BY DEF p
  <2>2. Issued(Seen(c), With(Committed, x), p, k, j, r, claim)
    BY <2>1, <1>4, <1>5, <1>6, <1>9, <1>10, <1>15, <1>17 DEF Issued
  <2> QED
    BY <2>2, <1>14, <1>16, Allocation
<1>19. x.ledger = tx[c].ledger
  BY <1>14 DEF x, Issuing, Changes
<1>20. tx' \in [Callers -> Changes] /\ tx'[c] = x /\ \A u \in Callers \ {c} : tx'[u] = tx[u]
  BY <1>2, <1>15 DEF Inv
<1>21. DOMAIN call' = Callers /\ call'[c] = now /\ \A u \in Callers \ {c} : call'[u] = call[u]
  BY <1>1 DEF Inv
<1>22. Committed' = Committed
  BY <1>1, CommittedStays
<1>23. Seen(c)' = With(Committed, x) /\ Kept(c)' = Kept(c) /\ PendingOf(c)' = {r}
  BY <1>3, <1>20, <1>21, <1>22 DEF Seen, Kept, PendingOf
<1>24. TxOK(c)'
  BY <1>1, <1>8, <1>15, <1>18, <1>20, <1>23 DEF TxOK
<1>25. SavedOK(c)'
  BY <1>1, <1>3, <1>8, <1>19, <1>20, <1>21, <1>23 DEF SavedOK, Allocating
<1>26. CallOK(c)'
  BY <1>1, <1>3, <1>4, <1>8, <1>21 DEF CallOK
<1>27. series_lock' \in Callers \cup {None}
       /\ counter_lock' \in [Period -> Callers \cup {None}]
       /\ \A u \in Callers \ {c} : series_lock = u => series_lock' = u
  BY <1>1, <1>5 DEF Inv
<1> QED
  BY <1>1, <1>20, <1>21, <1>24, <1>25, <1>26, <1>27, OneMoves DEF Mine

LEMMA RollbackKeeps ==
    ASSUME Inv, NEW c \in Callers, Rollback(c)
    PROVE  Inv'
<1>1. tx' = [tx EXCEPT ![c] = Untouched] /\ call' = [call EXCEPT ![c] = Idle] /\ UNCHANGED tables
      /\ series_lock' = IF series_lock = c THEN None ELSE series_lock
  BY DEF Rollback, Release
<1>2. counter_lock' \in [Period -> Callers \cup {None}]
  BY DEF Rollback, Release, Inv
<1>3. tx' \in [Callers -> Changes] /\ tx'[c] = Untouched
      /\ \A u \in Callers \ {c} : tx'[u] = tx[u]
  BY <1>1, UntouchedIsNoChange DEF Inv
<1>4. DOMAIN call' = Callers /\ call'[c] = Idle /\ \A u \in Callers \ {c} : call'[u] = call[u]
  BY <1>1 DEF Inv
<1>5. Seen(c)' = Committed
  BY <1>1, <1>3, CommittedStays, InvCommitted, NothingChanged DEF Seen
<1>6. Mine(c)'
  BY <1>3, <1>4, <1>5, UntouchedIsNoChange, IdleAfter DEF Inv
<1>7. series_lock' \in Callers \cup {None}
      /\ \A u \in Callers \ {c} : series_lock = u => series_lock' = u
  BY <1>1 DEF Inv
<1> QED
  BY <1>1, <1>2, <1>3, <1>4, <1>6, <1>7, OneMoves

\* Whoever commits changes holds the row: nobody else has any, or relies on the old tables.
LEMMA OnlyTheHolderChanges ==
    ASSUME Inv, NEW c \in Callers, tx[c] # Untouched, NEW u \in Callers, u # c
    PROVE  /\ tx[u] = Untouched /\ PendingOf(u) = {}
           /\ call[u].step \notin {"counter", "insert"}
           /\ Allocating(u) => call[u].saved = Untouched /\ ~ call[u].had_series
           /\ call[u].step = "configure" => ~ call[u].found
<1>1. series_lock = c
  BY InvMine
<1>2. tx[u] = Untouched /\ SavedOK(u) /\ CallOK(u)
  BY <1>1, InvMine
<1> QED
  BY <1>1, <1>2 DEF SavedOK, CallOK, PendingOf

LEMMA CommitKeeps ==
    ASSUME Inv, NEW c \in Callers, Commit(c)
    PROVE  Inv'
<1>1. /\ tx' = [tx EXCEPT ![c] = Untouched] /\ call' = call /\ call[c] = Idle
      /\ series_lock' = IF series_lock = c THEN None ELSE series_lock
  BY DEF Commit, Release
<1>2. counter_lock' \in [Period -> Callers \cup {None}]
  BY DEF Commit, Release, Inv
<1>3. tx' \in [Callers -> Changes] /\ tx'[c] = Untouched
      /\ \A u \in Callers \ {c} : tx'[u] = tx[u]
  BY <1>1, UntouchedIsNoChange DEF Inv
<1>4. DOMAIN call' = Callers /\ call'[c] = Idle /\ \A u \in Callers : call'[u] = call[u]
  BY <1>1 DEF Inv
<1>5. series_lock' \in Callers \cup {None}
      /\ \A u \in Callers \ {c} : series_lock = u => series_lock' = u
  BY <1>1 DEF Inv
<1>6. Committed' = Seen(c)
  BY DEF Commit, Committed, Seen, With, SeriesOf, CounterOf, Recorded, ClaimsOf
<1>7. Seen(c) \in Tables /\ Sound(Seen(c)) /\ Replayed(Seen(c), {})
  BY <1>1, InvMine, NothingPending
<1>8. Sound(Committed)' /\ Replayed(Committed, {})'
  BY <1>6, <1>7
<1>9. With(Committed', Untouched) = Committed'
  BY <1>6, <1>7, NothingChanged
<1>10. Mine(c)'
  <2>1. Seen(c)' = Committed'
    BY <1>3, <1>9 DEF Seen
  <2> QED
    BY <1>3, <1>4, <1>6, <1>7, <2>1, UntouchedIsNoChange, IdleAfter
<1>11. ASSUME NEW u \in Callers, u # c
       PROVE  Mine(u)'
  <2>1. CASE tx[c] = Untouched
    <3>1. Committed' = Committed
      BY <1>6, <2>1, InvCommitted, NothingChanged DEF Seen
    <3>2. series' = series /\ counters' = counters /\ receipts' = receipts /\ ledger' = ledger
          /\ repairs' = repairs /\ claims' = claims
      BY <3>1 DEF Committed
    <3>3. UNCHANGED tables
      BY <3>2 DEF tables
    <3> QED
      BY <1>3, <1>4, <1>5, <1>11, <3>3, Bystander
  <2>2. CASE tx[c] # Untouched
    <3>1. /\ tx[u] = Untouched /\ PendingOf(u) = {}
          /\ call[u].step \notin {"counter", "insert"}
          /\ Allocating(u) => call[u].saved = Untouched /\ ~ call[u].had_series
          /\ call[u].step = "configure" => ~ call[u].found
      BY <1>11, <2>2, OnlyTheHolderChanges
    <3>2. tx'[u] = Untouched /\ call'[u] = call[u] /\ PendingOf(u)' = {}
      BY <1>3, <1>4, <1>11, <3>1 DEF PendingOf
    <3>3. Seen(u)' = Committed'
      BY <1>9, <3>2 DEF Seen
    <3>4. TxOK(u)'
      BY <1>6, <1>7, <3>2, <3>3, UntouchedIsNoChange DEF TxOK
    <3>5. SavedOK(u)'
      <4> SUFFICES ASSUME Allocating(u)
                   PROVE  SavedOK(u)'
        BY <3>2 DEF SavedOK, Allocating
      <4>1. call[u].saved = Untouched /\ ~ call[u].had_series
        BY <3>1
      <4>2. Kept(u)' = Committed'
        BY <1>9, <3>2, <4>1 DEF Kept
      <4> QED
        BY <1>6, <1>7, <3>1, <3>2, <4>1, <4>2, InvMine, UntouchedIsNoChange DEF SavedOK, Allocating
    <3>6. CallOK(u)'
      BY <3>1, <3>2, InvMine DEF CallOK
    <3> QED
      BY <3>4, <3>5, <3>6 DEF Mine
  <2> QED
    BY <2>1, <2>2
<1> QED
  BY <1>2, <1>3, <1>4, <1>5, <1>8, <1>10, <1>11 DEF Inv

-----------------------------------------------------------------------------
(* The invariant *)

LEMMA InitEstablishes == Init => Inv
<1> SUFFICES ASSUME Init
             PROVE  Inv
  OBVIOUS
<1>1. Committed \in Tables
  BY DEF Init, Committed, Tables, NoCounter, Counter
<1>2. Forward(Committed)
  BY CommittedFields DEF Init, Forward
<1>3. Configured(Committed) /\ Single(Committed)
  BY CommittedFields DEF Init, Configured, Single
<1>4. Explained(Committed)
  <2>1. \A p \in Period : Passed(Committed, p) = {}
    <3>1. \A p \in Period : Committed.counters[p] = NoCounter
      BY CommittedFields DEF Init
    <3>2. NoCounter.first = 0 /\ NoCounter.next_value = 0
      BY DEF NoCounter
    <3>3. \A v \in Value : v \in Nat
      BY NumberingAssumption DEF Value
    <3> QED
      BY <3>1, <3>2, <3>3 DEF Passed, Window
  <2>2. Committed.receipts = {} /\ Committed.repairs = {}
    BY CommittedFields DEF Init
  <2> QED
    BY <2>1, <2>2 DEF Explained, Skipped
<1>5. Claimed(Committed)
  <2>1. Committed.receipts = {} /\ Committed.claims = {}
    BY CommittedFields DEF Init
  <2> QED
    BY <2>1 DEF Claimed
<1>6. Replayed(Committed, {})
  BY CommittedFields DEF Init, Replayed
<1>7. Sound(Committed)
  BY <1>1, <1>2, <1>3, <1>4, <1>5 DEF Sound
<1>8. ASSUME NEW c \in Callers
      PROVE  Mine(c)
  <2>1. tx[c] = Untouched /\ call[c].step = "idle"
    BY DEF Init, Idle
  <2>2. Seen(c) = Committed /\ PendingOf(c) = {}
    BY <1>1, <2>1, NothingChanged DEF Seen, PendingOf
  <2> QED
    BY <1>6, <1>7, <2>1, <2>2, UntouchedIsNoChange
       DEF Mine, TxOK, SavedOK, CallOK, Allocating
<1> QED
  BY <1>6, <1>7, <1>8, UntouchedIsNoChange DEF Init, Inv

LEMMA NextKeeps == Inv /\ [Next]_vars => Inv'
<1> SUFFICES ASSUME Inv, [Next]_vars
             PROVE  Inv'
  OBVIOUS
<1>1. CASE UNCHANGED vars
  <2>1. UNCHANGED <<tables, tx, call, series_lock, counter_lock>>
    BY <1>1 DEF vars, locks
  <2>2. \A u \in Callers : Mine(u)'
    BY <2>1, Bystander
  <2>3. Committed' = Committed
    BY <2>1, CommittedStays
  <2> QED
    BY <2>1, <2>2, <2>3 DEF Inv
<1>2. ASSUME NEW c \in Callers, NEW k \in Keys, NEW y \in Years, NEW d \in Docs \cup {None},
             allocate(c, k, y, d)
      PROVE  Inv'
  BY <1>2, AllocateKeeps
<1>3. ASSUME NEW c \in Callers, TakeSeries(c) \/ TakeNumber(c) \/ LedgerWon(c)
      PROVE  Inv'
  BY <1>3, TakeSeriesKeeps, TakeNumberKeeps, LedgerWonKeeps
<1>4. ASSUME NEW c \in Callers, AllocationFails(c) \/ LedgerLost(c)
      PROVE  Inv'
  <2>1. Allocating(c) /\ UndoCall(c)
    BY <1>4 DEF AllocationFails, LedgerLost, InsertMayProceed, Allocating
  <2> QED
    BY <2>1, UndoKeeps
<1>5. ASSUME NEW c \in Callers, NEW new \in Configurations,
             ConfigureRead(c, new) \/ create_series(c, new)
      PROVE  Inv'
  BY <1>5, ConfigureReadKeeps, CreateKeeps
<1>6. ASSUME NEW c \in Callers, ConfigureWrite(c) \/ ConfigureRefused(c) \/ enroll_series(c)
      PROVE  Inv'
  BY <1>6, ConfigureWriteKeeps, ConfigureRefusedKeeps, EnrollKeeps
<1>7. ASSUME NEW c \in Callers, NEW n \in Reserved, NEW d \in Docs, reserve_number(c, n, d)
      PROVE  Inv'
  BY <1>7, ReserveKeeps
<1>8. ASSUME NEW c \in Callers, NEW p \in Period, NEW m \in Minima, advance_to_at_least(c, p, m)
      PROVE  Inv'
  BY <1>8, AdvanceKeeps
<1>9. ASSUME NEW c \in Callers, Commit(c) \/ Rollback(c)
      PROVE  Inv'
  BY <1>9, CommitKeeps, RollbackKeeps
<1> QED
  BY <1>1, <1>2, <1>3, <1>4, <1>5, <1>6, <1>7, <1>8, <1>9 DEF Next

\* The tables, what every open transaction would make of them, and what every
\* call would leave if it were undone, are sound at all times; changes are made
\* by the holder of the series' row only.
THEOREM NumberingInvariant == Spec => []Inv
<1> QED
  BY InitEstablishes, NextKeeps, PTL DEF Spec

\* Types of the tables and of what holds their locks.
THEOREM NumberingTypes == Spec => []TypeOK
<1>1. Inv => TypeOK
  <2> SUFFICES ASSUME Inv
               PROVE  TypeOK
    OBVIOUS
  <2>1. Committed \in Tables /\ Forward(Committed)
    BY DEF Inv, Sound
  <2>2. series \in Proper \cup {Unset} /\ counters \in [Period -> Counter]
        /\ receipts \in SUBSET Receipt /\ ledger \in [Keys -> Receipt \cup {None}]
        /\ repairs \in SUBSET Repair /\ claims \in SUBSET Claim
    BY <2>1, CommittedFields DEF Tables
  <2>3. \A r \in repairs : r.period \in Period /\ r.previous <= r.new /\ r.new <= MAX_VALUE
    BY <2>1, <2>2, CommittedFields DEF Forward, Repair
  <2> QED
    BY <2>2, <2>3, ProperIsSeries DEF TypeOK, Inv
<1> QED
  BY <1>1, NumberingInvariant, PTL

\* An allocation is about to issue a number that a receipt carries only when the
\* series resets yearly, prints two digits of the year, and the receipt is of
\* another year that ends in the same two, whatever the sequence of resets,
\* reconfigurations, enrolments, repairs and lost races.
THEOREM NumbersRepeatOnlyAcrossCenturies == Spec => []RepeatsOnlyAcrossCenturies
<1>1. Inv => RepeatsOnlyAcrossCenturies
  <2> SUFFICES ASSUME Inv, NEW c \in Callers, call[c].step = "counter",
                      NEW r \in receipts \cup tx[c].receipts, Rendered(r) = Rendered(Offered(c))
               PROVE  /\ r.shape.reset_policy = "yearly" /\ r.shape.year_digits = 2
                      /\ r.year # call[c].year /\ r.year % 100 = call[c].year % 100
    BY DEF RepeatsOnlyAcrossCenturies
  <2> DEFINE o == Offered(c)
             k == Locked(c, o.period, call[c].series.start_value)
             shape == Seen(c).series.shape
  <2>1. /\ o.period \in Period /\ o.value = k.next_value /\ o.shape = shape
        /\ o.year = call[c].year /\ Seen(c).series \in Proper
        /\ o.period = period_for(o.year, o.shape.reset_policy)
        /\ k \in Counter /\ Passed(Seen(c), o.period) = Window(k)
    BY OfferedIsNext
  <2>2. Rendered(r) = Rendered(o)
    OBVIOUS
  <2> HIDE DEF o, k
  <2>3. Seen(c) \in Tables /\ Configured(Seen(c)) /\ Explained(Seen(c)) /\ r \in Seen(c).receipts
    BY InvMine, SeenFields DEF Sound
  <2>4. r \in Receipt /\ r.shape = shape /\ r.period = period_for(r.year, r.shape.reset_policy)
    BY <2>3 DEF Tables, Configured
  <2>5. r.value = o.value
    BY <2>2 DEF Rendered, format_number
  <2>6. r.period # o.period
    <3> SUFFICES ASSUME r.period = o.period
                 PROVE  FALSE
      OBVIOUS
    <3>1. r.value \in Window(k)
      BY <2>1, <2>3 DEF Explained
    <3>2. k.next_value \in Nat
      BY <2>1 DEF Counter
    <3> QED
      BY <2>1, <2>5, <3>1, <3>2, ValuesAreNumbers DEF Window
  <2>7. shape.reset_policy \in {"never", "yearly"} /\ shape.year_digits \in {2, 4}
        /\ (shape.reset_policy = "yearly" => shape.include_year)
    BY <2>1 DEF Proper, Series, Shape
  <2> HIDE DEF shape
  <2>8. shape.reset_policy = "yearly" /\ r.year # o.year
    BY <2>1, <2>4, <2>6, <2>7 DEF period_for
  <2>9. shape.include_year
    BY <2>7, <2>8
  <2>10. <<shape.year_digits, IF shape.year_digits = 2 THEN r.year % 100 ELSE r.year>>
         = <<shape.year_digits, IF shape.year_digits = 2 THEN o.year % 100 ELSE o.year>>
    BY <2>1, <2>2, <2>4, <2>9 DEF Rendered, format_number
  <2>11. shape.year_digits = 2 /\ r.year % 100 = o.year % 100
    BY <2>7, <2>8, <2>10
  <2> QED
    BY <2>1, <2>4, <2>8, <2>11
<1> QED
  BY <1>1, NumberingInvariant, PTL

\* Every value a counter has passed is on a receipt or was skipped by a
\* recorded repair.
THEOREM NoUnexplainedGaps == Spec => []EveryValueIsExplained
<1>1. Inv => EveryValueIsExplained
  <2> SUFFICES ASSUME Inv
               PROVE  EveryValueIsExplained
    OBVIOUS
  <2>1. Explained(Committed)
    BY DEF Inv, Sound
  <2> QED
    BY <2>1, CommittedFields DEF Explained, EveryValueIsExplained, Passed, Window, Skipped, Value
<1> QED
  BY <1>1, NumberingInvariant, PTL

\* The shape of a series with receipts is frozen: every number was formatted
\* from the configuration the series still has.
THEOREM IssuedFormatsStand == Spec => []ReceiptsMatchConfiguration
<1>1. Inv => ReceiptsMatchConfiguration
  BY CommittedFields DEF Inv, Sound, Configured, ReceiptsMatchConfiguration
<1> QED
  BY <1>1, NumberingInvariant, PTL

\* The receipts are exactly what the ledger answers.
THEOREM ReplaysAnswerReceipts == Spec => []ReplaysMatchReceipts
<1>1. Inv => ReplaysMatchReceipts
  BY CommittedFields DEF Inv, Replayed, ReplaysMatchReceipts
<1> QED
  BY <1>1, NumberingInvariant, PTL

\* In a collision domain a number has one document, a document one number, and
\* the claims of allocations are exactly those of the strict receipts.
THEOREM ClaimsAreOfTheIssued == Spec => []ClaimsMatchReceipts
<1>1. Inv => ClaimsMatchReceipts
  BY CommittedFields DEF Inv, Sound, Claimed, ClaimsMatchReceipts
<1> QED
  BY <1>1, NumberingInvariant, PTL

=============================================================================
