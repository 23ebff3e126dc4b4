----------------------------- MODULE Numbering -----------------------------
(***************************************************************************)
(* dotmac_numbering: one series of numbers, allocated by concurrent        *)
(* transactions under execute_once, reconfigured and repaired, and created *)
(* strict or enrolled in a collision domain, where numbers and documents   *)
(* are claimed and numbers issued elsewhere are reserved.                  *)
(*                                                                         *)
(* PostgreSQL at READ COMMITTED: a caller sees the committed tables and    *)
(* its own changes; FOR UPDATE waits for the holder and then reads the     *)
(* current row; locks go with the transaction, or with the savepoint they  *)
(* were taken in.  Of the unique constraints on receipts, the one on values *)
(* of a period is not modelled, because no step could break it; the one on *)
(* rendered numbers is.  The domain has one series and is not partitioned. *)
(***************************************************************************)
EXTENDS Naturals, FiniteSets

CONSTANTS
    Callers,        \* sessions
    Keys,           \* idempotency keys of allocations
    Docs,           \* document references
    Reserved,       \* rendered numbers that reservations name
    Years,          \* of the reference dates
    Configurations, \* shape (the identity-shaping fields) and start_value
    Minima,         \* what repairs prove
    MAX_VALUE,
    None

Shape == [reset_policy : {"never", "yearly"}, include_year : BOOLEAN, year_digits : {2, 4}]

Forever == 0        \* NO_PERIOD: no year
Period == {Forever} \cup Years
Value == 1 .. MAX_VALUE

Unset == [reset_policy |-> None]
\* strict: strict_identity, which comes with the domain.
Series == [shape : Shape, start_value : Nat, strict : BOOLEAN]
\* first: history, where the counter began.
Counter == [first : Nat, next_value : Nat]
NoCounter == [first |-> 0, next_value |-> 0]
\* shape and strict: history, what the series was.
Receipt == [period : Period, value : Value, year : Years, key : Keys, shape : Shape,
            strict : BOOLEAN]
\* The year as printed, with its width, and the value.
Number == ({None} \cup ({2, 4} \X Nat)) \X Value
Elsewhere == "elsewhere"    \* the provenance of what a reservation claims
Claim == [number : Number, document : Docs, provenance : Keys \cup {Elsewhere}]

ASSUME NumberingAssumption ==
    /\ Years \subseteq 1 .. 9999      \* of a date
    /\ None \notin Callers \cup Keys \cup Docs
    /\ None \notin Series /\ None \notin Receipt /\ Elsewhere \notin Keys
    /\ Reserved \subseteq Number
    /\ Configurations \subseteq [shape : Shape, start_value : Nat \ {0}]
    /\ \A x \in Configurations :
        x.shape.reset_policy = "yearly" => x.shape.include_year     \* validate
    /\ Minima \subseteq Nat \ {0}
    /\ MAX_VALUE \in Nat

VARIABLES
    series,         \* number_series: its row, or Unset
    counters,       \* series_counters, by period
    receipts,       \* allocation receipts
    ledger,         \* the idempotency ledger: the receipt a key answers, or None
    repairs,        \* series_repairs: the period and the values it skipped
    claims,         \* number_claims
    tx,             \* per caller: what its transaction has changed
    call,           \* per caller: the call under way
    series_lock,    \* who holds the row of the series
    counter_lock    \* who holds the row of each counter

tables == <<series, counters, receipts, ledger, repairs, claims>>
locks == <<series_lock, counter_lock>>
vars == <<tables, tx, call, locks>>

Untouched == [series |-> None, counters |-> [p \in Period |-> NoCounter],
              receipts |-> {}, ledger |-> [k \in Keys |-> None], repairs |-> {},
              claims |-> {}]
Idle == [step |-> "idle"]

Init ==
    /\ series = Unset
    /\ counters = [p \in Period |-> NoCounter]
    /\ receipts = {} /\ repairs = {} /\ claims = {}
    /\ ledger = [k \in Keys |-> None]
    /\ tx = [c \in Callers |-> Untouched]
    /\ call = [c \in Callers |-> Idle]
    /\ series_lock = None
    /\ counter_lock = [p \in Period |-> None]

\* What a caller sees.
SeriesOf(c) == IF tx[c].series # None THEN tx[c].series ELSE series
CounterOf(c, p) == IF tx[c].counters[p] # NoCounter THEN tx[c].counters[p] ELSE counters[p]
ClaimsOf(c) == claims \cup tx[c].claims
Recorded(c, k) == IF tx[c].ledger[k] # None THEN tx[c].ledger[k] ELSE ledger[k]

MayLock(c, holder) == holder \in {None, c}

-----------------------------------------------------------------------------
(* Periods and formatting.                                                 *)

period_for(year, reset_policy) == IF reset_policy = "never" THEN Forever ELSE year

\* What can differ between two numbers of the series.
format_number(shape, value, year) ==
    <<IF shape.include_year
      THEN <<shape.year_digits, IF shape.year_digits = 2 THEN year % 100 ELSE year>>
      ELSE None,
      value>>

-----------------------------------------------------------------------------
(* Allocation.                                                             *)

\* execute_once finds no row for the key and opens its savepoint.  A replay, a
\* fingerprint that differs, or a document for a series that is not enrolled,
\* changes nothing.
allocate(c, k, year, document) ==
    /\ call[c] = Idle
    /\ document # None => SeriesOf(c) # Unset /\ SeriesOf(c).strict
    /\ Recorded(c, k) = None
    /\ call' = [call EXCEPT ![c] =
            [step |-> "series", key |-> k, year |-> year, document |-> document,
             saved |-> tx[c], had_series |-> series_lock = c,
             had_counters |-> {p \in Period : counter_lock[p] = c}]]
    /\ UNCHANGED <<tables, tx, locks>>

\* Mutant: the series is read without its lock.
TakeSeriesUnlocked(c) ==
    /\ call[c].step = "series"
    /\ SeriesOf(c) # Unset
    /\ call' = [call EXCEPT ![c] =
            [step |-> "counter", key |-> @.key, year |-> @.year, document |-> @.document,
             saved |-> @.saved, had_series |-> @.had_series, had_counters |-> @.had_counters,
             series |-> SeriesOf(c)]]
    /\ UNCHANGED <<tables, tx, locks>>

\* _require_series with its lock.
TakeSeries(c) ==
    /\ call[c].step = "series"
    /\ MayLock(c, series_lock)
    /\ SeriesOf(c) # Unset
    /\ series_lock' = c
    /\ call' = [call EXCEPT ![c] =
            [step |-> "counter", key |-> @.key, year |-> @.year, document |-> @.document,
             saved |-> @.saved, had_series |-> @.had_series, had_counters |-> @.had_counters,
             series |-> SeriesOf(c)]]
    /\ UNCHANGED <<tables, tx, counter_lock>>

\* _locked_counter: the counter of a period, begun at the start value if absent.
Locked(c, p, start) ==
    IF CounterOf(c, p) = NoCounter THEN [first |-> start, next_value |-> start] ELSE CounterOf(c, p)

\* What the allocation under way would issue.
Offered(c) ==
    LET now == call[c]
        p == period_for(now.year, now.series.shape.reset_policy)
    IN [period |-> p, value |-> Locked(c, p, now.series.start_value).next_value,
        year |-> now.year, key |-> now.key, shape |-> now.series.shape,
        strict |-> now.series.strict]

Rendered(r) == format_number(r.shape, r.value, r.year)

\* uq_number_claims_rendered, uq_number_claims_document.
Collides(c, number, document) ==
    \E claim \in ClaimsOf(c) : claim.number = number \/ claim.document = document

\* _allocation_claim: the claim of an enrolled series.
AllocationClaim(c, receipt) ==
    IF receipt.strict
    THEN {[number |-> Rendered(receipt), document |-> call[c].document,
           provenance |-> receipt.key]}
    ELSE {}

\* uq_allocation_receipts_rendered.
AlreadyIssued(c, number) == \E r \in receipts \cup tx[c].receipts : Rendered(r) = number

\* Why _do_allocate refuses: exhausted, no document, the claim collides, or the
\* insert of the receipt does.
Refused(c, receipt) ==
    \/ receipt.value >= MAX_VALUE
    \/ AlreadyIssued(c, Rendered(receipt))
    \/ receipt.strict /\ (call[c].document = None \/ Collides(c, Rendered(receipt), call[c].document))

\* The rest of _do_allocate.
TakeNumber(c) ==
    /\ call[c].step = "counter"
    /\ LET now == call[c]
           receipt == Offered(c)
           counter == Locked(c, receipt.period, now.series.start_value)
       IN /\ MayLock(c, counter_lock[receipt.period])
          /\ ~ Refused(c, receipt)
          /\ counter_lock' = [counter_lock EXCEPT ![receipt.period] = c]
          /\ tx' = [tx EXCEPT ![c] = [@ EXCEPT
                !.counters[receipt.period] = [counter EXCEPT !.next_value = counter.next_value + 1],
                !.receipts = tx[c].receipts \cup {receipt},
                !.claims = tx[c].claims \cup AllocationClaim(c, receipt)]]
          /\ call' = [call EXCEPT ![c] =
                [step |-> "insert", key |-> now.key, saved |-> now.saved,
                 had_series |-> now.had_series, had_counters |-> now.had_counters,
                 receipt |-> receipt]]
    /\ UNCHANGED <<tables, series_lock>>

\* Mutant: the claim is not given back.
UndoKeepsClaims(c) ==
    /\ tx' = [tx EXCEPT ![c] = [call[c].saved EXCEPT !.claims = tx[c].claims]]
    /\ call' = [call EXCEPT ![c] = Idle]
    /\ UNCHANGED <<tables, locks>>

\* Mutant: the counter is not given back.
UndoReceipts(c) ==
    /\ tx' = [tx EXCEPT ![c] = [call[c].saved EXCEPT !.counters = tx[c].counters]]
    /\ call' = [call EXCEPT ![c] = Idle]
    /\ UNCHANGED <<tables, locks>>

\* ROLLBACK TO SAVEPOINT: the changes of the call and the locks it took.
UndoCall(c) ==
    /\ tx' = [tx EXCEPT ![c] = call[c].saved]
    /\ series_lock' = IF series_lock = c /\ ~ call[c].had_series THEN None ELSE series_lock
    /\ counter_lock' = [p \in Period |->
            IF counter_lock[p] = c /\ p \notin call[c].had_counters THEN None ELSE counter_lock[p]]
    /\ call' = [call EXCEPT ![c] = Idle]
    /\ UNCHANGED tables

\* The operation raises: there is no series, or _do_allocate refuses.
AllocationFails(c) ==
    /\ \/ call[c].step = "series" /\ SeriesOf(c) = Unset
       \/ /\ call[c].step = "counter"
          /\ MayLock(c, counter_lock[Offered(c).period])
          /\ Refused(c, Offered(c))
    /\ UndoCall(c)

\* The insert of the ledger row waits for another transaction's row of the key.
InsertMayProceed(c) ==
    /\ call[c].step = "insert"
    /\ \A other \in Callers \ {c} : tx[other].ledger[call[c].key] = None

\* Mutant: the loser of the race keeps what its operation did.
LedgerLostKeeps(c) ==
    /\ InsertMayProceed(c)
    /\ ledger[call[c].key] # None
    /\ call' = [call EXCEPT ![c] = Idle]
    /\ UNCHANGED <<tables, tx, locks>>

\* The key was committed meanwhile: the operation is undone, the row replayed.
LedgerLost(c) ==
    /\ InsertMayProceed(c)
    /\ ledger[call[c].key] # None
    /\ UndoCall(c)

LedgerWon(c) ==
    /\ InsertMayProceed(c)
    /\ ledger[call[c].key] = None
    /\ tx' = [tx EXCEPT ![c] = [@ EXCEPT !.ledger[call[c].key] = call[c].receipt]]
    /\ call' = [call EXCEPT ![c] = Idle]
    /\ UNCHANGED <<tables, locks>>

-----------------------------------------------------------------------------
(* Configuration and repair.                                               *)

\* configure_series takes the row, if there is one.
ConfigureRead(c, new) ==
    /\ call[c] = Idle
    /\ IF SeriesOf(c) = Unset THEN UNCHANGED series_lock
       ELSE MayLock(c, series_lock) /\ series_lock' = c
    /\ call' = [call EXCEPT ![c] =
            [step |-> "configure", found |-> SeriesOf(c) # Unset,
             series |-> [shape |-> new.shape, start_value |-> new.start_value,
                         strict |-> SeriesOf(c) # Unset /\ SeriesOf(c).strict]]]
    /\ UNCHANGED <<tables, tx, counter_lock>>

\* _series_has_history: a counter or a receipt.
series_has_history(c) ==
    \/ \E p \in Period : CounterOf(c, p) # NoCounter
    \/ receipts \cup tx[c].receipts # {}

\* Mutant: nothing is frozen.
AnyTransition(c, new) == TRUE

\* _assert_safe_transition.
SafeTransition(c, new) ==
    \/ new = SeriesOf(c)
    \/ /\ ~ SeriesOf(c).strict
       /\ new.shape = SeriesOf(c).shape \/ ~ series_has_history(c)

\* The write; a second first configuration would break the unique constraint.
ConfigureWrite(c) ==
    /\ call[c].step = "configure"
    /\ IF call[c].found THEN SafeTransition(c, call[c].series)
       ELSE MayLock(c, series_lock) /\ SeriesOf(c) = Unset
    /\ series_lock' = c
    /\ tx' = [tx EXCEPT ![c] = [@ EXCEPT !.series = call[c].series]]
    /\ call' = [call EXCEPT ![c] = Idle]
    /\ UNCHANGED <<tables, counter_lock>>

\* unsafe_configuration_change, or the constraint: the caller is left with its
\* transaction in the first case only; see Rollback.
ConfigureRefused(c) ==
    /\ call[c].step = "configure"
    /\ call[c].found /\ ~ SafeTransition(c, call[c].series)
    /\ call' = [call EXCEPT ![c] = Idle]
    /\ UNCHANGED <<tables, tx, locks>>

\* create_series, when there is none; otherwise it compares and changes nothing.
create_series(c, new) ==
    /\ call[c] = Idle
    /\ MayLock(c, series_lock) /\ SeriesOf(c) = Unset
    /\ series_lock' = c
    /\ tx' = [tx EXCEPT ![c] = [@ EXCEPT
            !.series = [shape |-> new.shape, start_value |-> new.start_value, strict |-> TRUE]]]
    /\ UNCHANGED <<tables, call, counter_lock>>

\* enroll_series by a caller that expects the configuration the row has.
enroll_series(c) ==
    /\ call[c] = Idle
    /\ MayLock(c, series_lock) /\ SeriesOf(c) # Unset
    /\ ~ SeriesOf(c).strict
    /\ series_lock' = c
    /\ tx' = [tx EXCEPT ![c] = [@ EXCEPT !.series = [SeriesOf(c) EXCEPT !.strict = TRUE]]]
    /\ UNCHANGED <<tables, call, counter_lock>>

\* reserve_number; each reservation has a key of its own.  The claim there is, or
\* a collision, leaves the claims alone.
reserve_number(c, number, document) ==
    /\ call[c] = Idle
    /\ MayLock(c, series_lock) /\ SeriesOf(c) # Unset
    /\ SeriesOf(c).strict
    /\ ~ Collides(c, number, document)
    /\ series_lock' = c
    /\ tx' = [tx EXCEPT ![c] = [@ EXCEPT
            !.claims = tx[c].claims \cup {[number |-> number, document |-> document,
                                           provenance |-> Elsewhere]}]]
    /\ UNCHANGED <<tables, call, counter_lock>>

\* Mutant: a repair may move a counter back.
AdvanceTo(target, next_value) == target

\* A repair only moves a counter forward.
AdvanceOnly(target, next_value) == IF target > next_value THEN target ELSE next_value

\* advance_to_at_least; both locks are taken in its first statements.  Of its
\* evidence, the row of a repair that moves nothing is left out.
advance_to_at_least(c, p, proven_minimum) ==
    /\ call[c] = Idle
    /\ proven_minimum < MAX_VALUE
    /\ SeriesOf(c) # Unset
    /\ (p = Forever) = (SeriesOf(c).shape.reset_policy = "never")
    /\ MayLock(c, series_lock) /\ MayLock(c, counter_lock[p])
    /\ series_lock' = c
    /\ counter_lock' = [counter_lock EXCEPT ![p] = c]
    /\ LET counter == Locked(c, p, SeriesOf(c).start_value)
           after == AdvanceOnly(proven_minimum + 1, counter.next_value)
       IN tx' = [tx EXCEPT ![c] = [@ EXCEPT
                !.counters[p] = [counter EXCEPT !.next_value = after],
                !.repairs = tx[c].repairs
                    \cup {r \in {[period |-> p, previous |-> counter.next_value,
                                  new |-> after]} : r.previous # r.new}]]
    /\ UNCHANGED <<tables, call>>

-----------------------------------------------------------------------------
(* The end of a transaction.                                               *)

Release(c) ==
    /\ tx' = [tx EXCEPT ![c] = Untouched]
    /\ series_lock' = IF series_lock = c THEN None ELSE series_lock
    /\ counter_lock' = [p \in Period |-> IF counter_lock[p] = c THEN None ELSE counter_lock[p]]

Commit(c) ==
    /\ call[c] = Idle
    /\ series' = SeriesOf(c)
    /\ counters' = [p \in Period |-> CounterOf(c, p)]
    /\ receipts' = receipts \cup tx[c].receipts
    /\ ledger' = [k \in Keys |-> Recorded(c, k)]
    /\ repairs' = repairs \cup tx[c].repairs
    /\ claims' = ClaimsOf(c)
    /\ Release(c)
    /\ UNCHANGED call

\* The caller gives up, at any point, or its process dies.
Rollback(c) ==
    /\ Release(c)
    /\ call' = [call EXCEPT ![c] = Idle]
    /\ UNCHANGED tables

Next ==
    \E c \in Callers :
        \/ \E k \in Keys, y \in Years, d \in Docs \cup {None} : allocate(c, k, y, d)
        \/ TakeSeries(c) \/ TakeNumber(c) \/ AllocationFails(c) \/ LedgerLost(c) \/ LedgerWon(c)
        \/ \E new \in Configurations : ConfigureRead(c, new) \/ create_series(c, new)
        \/ ConfigureWrite(c) \/ ConfigureRefused(c)
        \/ enroll_series(c)
        \/ \E n \in Reserved, d \in Docs : reserve_number(c, n, d)
        \/ \E p \in Period, m \in Minima : advance_to_at_least(c, p, m)
        \/ Commit(c) \/ Rollback(c)

Spec == Init /\ [][Next]_vars

-----------------------------------------------------------------------------
(* Properties *)

\* Types of the tables and of what holds their locks.
TypeOK ==
    /\ series \in Series \cup {Unset}
    /\ counters \in [Period -> Counter]
    /\ receipts \subseteq Receipt
    /\ ledger \in [Keys -> Receipt \cup {None}]
    /\ \A r \in repairs : r.period \in Period /\ r.previous <= r.new /\ r.new <= MAX_VALUE
    /\ claims \subseteq Claim
    /\ series_lock \in Callers \cup {None}
    /\ counter_lock \in [Period -> Callers \cup {None}]

\* The number an allocation is about to issue is on a receipt already only when
\* the series resets yearly but prints two digits of the year, and the receipt is
\* of another year that ends in the same two.  Across resets, reconfigurations,
\* repairs and lost races uq_allocation_receipts_rendered is needed for nothing else.
RepeatsOnlyAcrossCenturies ==
    \A c \in Callers : call[c].step = "counter" =>
        \A r \in receipts \cup tx[c].receipts :
            Rendered(r) = Rendered(Offered(c)) =>
                /\ r.shape.reset_policy = "yearly" /\ r.shape.year_digits = 2
                /\ r.year # call[c].year /\ r.year % 100 = call[c].year % 100

\* Every value a counter has passed is on a receipt or was skipped by a recorded
\* repair: a rollback, a lost race or a replay leaves no gap and no number is
\* taken twice.
EveryValueIsExplained ==
    \A p \in Period :
        {v \in 1 .. MAX_VALUE : counters[p].first <= v /\ v < counters[p].next_value}
            = {r.value : r \in {r \in receipts : r.period = p}}
                \cup {v \in Value : \E r \in repairs :
                        r.period = p /\ r.previous <= v /\ v < r.new}

\* Every number was formatted from the configuration the series still has: an
\* allocation and a reconfiguration never pass each other.
ReceiptsMatchConfiguration == \A r \in receipts : r.shape = series.shape

\* A key has one receipt, and it is the one a replay answers.
ReplaysMatchReceipts ==
    receipts = {ledger[k] : k \in {k \in Keys : ledger[k] # None}}

\* In a collision domain a number has one document and a document one number,
\* and the numbers issued are exactly the claims of allocations: an allocation
\* that lost a race or collided leaves no claim, and none goes without.
ClaimsMatchReceipts ==
    /\ \A x, y \in claims : x.number = y.number \/ x.document = y.document => x = y
    /\ {<<x.provenance, x.number>> : x \in {x \in claims : x.provenance # Elsewhere}}
        = {<<r.key, Rendered(r)>> : r \in {r \in receipts : r.strict}}

=============================================================================
