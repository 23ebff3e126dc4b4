---------------------------- MODULE OutboxRelay ----------------------------
(***************************************************************************)
(* The transactional outbox and its relay (dotmac_kernel.messaging): rows  *)
(* of outbox_events, the SECURITY DEFINER functions claim_outbox_batch and *)
(* settle_outbox_event, and the relay worker processes that lease, deliver *)
(* and settle the rows.  The platform relay runs the same protocol on      *)
(* platform_outbox_events.                                                 *)
(*                                                                         *)
(* Time is relative: availableIn[e] is available_at - now, leaseAge[e] and *)
(* claimAge[w] are now - leased_at.  Each saturates where no guard of the  *)
(* code can tell the values apart any more (ages) or where only the order  *)
(* of long overdue rows is lost (due times).                               *)
(***************************************************************************)
EXTENDS Integers, FiniteSets

CONSTANTS
    Events,         \* outbox rows
    Workers,        \* relay processes, by worker_id (hostname:pid)
    NoWorker,       \* leased_by IS NULL
    NoEvent,        \* the worker is between two events
    BatchSize,      \* RelayPolicy.batch_size
    MaxAttempts,    \* RelayPolicy.max_attempts
    BaseBackoff,    \* RelayPolicy.base_backoff_seconds
    MaxBackoff,     \* RelayPolicy.max_backoff_seconds
    Stale,          \* RelayPolicy.stale_lease_seconds
    Skew,           \* bound: worker clock minus database clock, either way
    Overdue,        \* bound: due times are not told apart beyond this lateness
    MaxFaults       \* bound: process crashes plus leases overrun by a live worker

ASSUME ConstantsAssumption ==
    /\ NoWorker \notin Workers
    /\ NoEvent \notin Events
    /\ BatchSize \in Nat \ {0}
    /\ MaxAttempts \in Nat \ {0}
    /\ BaseBackoff \in Nat
    /\ MaxBackoff \in Nat
    /\ Stale \in Nat
    /\ Skew \in Nat
    /\ Overdue \in Nat
    /\ MaxFaults \in Nat

VARIABLES
    status,         \* [Events -> Status]
    attempts,       \* the attempts column
    availableIn,    \* available_at - now
    leasedBy,       \* the leased_by column
    leaseAge,       \* now - leased_at
    pc,             \* what each worker process is doing
    batch,          \* the ClaimedEvents it has yet to finish
    current,        \* the event it is about to settle
    snapshot,       \* ClaimedEvent.attempts, as read by its claim
    claimAge,       \* now - the instant of its claim
    failed,         \* history: failed deliveries of an event, up to MaxAttempts
    tries,          \* history: deliveries begun, up to TryCap
    applied,        \* history: the delivery took effect at least once
    reportedDead,   \* history: some record_failure returned dead_lettered=True
    faults          \* crashes and overruns so far

rows    == <<status, attempts, availableIn, leasedBy, leaseAge>>
workers == <<pc, batch, current, snapshot, claimAge>>
history == <<failed, tries, applied, reportedDead, faults>>
vars    == <<rows, workers, history>>

\* OutboxStatus; "absent" is a row whose enqueuing transaction has not committed.
Status == {"absent", "pending", "claimed", "sent", "dead"}
Terminal == {"sent", "dead"}

\* The worker's place in run_forever / run_once / _deliver_one.
Stage == {"idle", "working", "delivered", "failed"}

Least(a, b) == IF a <= b THEN a ELSE b

\* Bound: deliveries of an event are counted up to here, one more than is explained.
TryCap == MaxAttempts + MaxFaults + 1

Init ==
    /\ status = [e \in Events |-> "absent"]
    /\ attempts = [e \in Events |-> 0]
    /\ availableIn = [e \in Events |-> 0]
    /\ leasedBy = [e \in Events |-> NoWorker]
    /\ leaseAge = [e \in Events |-> 0]
    /\ pc = [w \in Workers |-> "idle"]
    /\ batch = [w \in Workers |-> {}]
    /\ current = [w \in Workers |-> NoEvent]
    /\ snapshot = [w \in Workers |-> [e \in Events |-> 0]]
    /\ claimAge = [w \in Workers |-> 0]
    /\ failed = [e \in Events |-> 0]
    /\ tries = [e \in Events |-> 0]
    /\ applied = [e \in Events |-> FALSE]
    /\ reportedDead = [e \in Events |-> FALSE]
    /\ faults = 0

-----------------------------------------------------------------------------
(* The producer *)

\* enqueue_event, seen when the caller's transaction commits: available_at is
\* the start of that transaction, so the row may be overdue when it appears.  A
\* timer's trigger, which schedule_timer sets to become available later, is unseen
\* by the claim until then: here it is enqueued at that moment.
Enqueue(e) ==
    /\ status[e] = "absent"
    /\ status' = [status EXCEPT ![e] = "pending"]
    /\ \E late \in 0 .. Overdue :
           availableIn' = [availableIn EXCEPT ![e] = - late]
    /\ UNCHANGED <<attempts, leasedBy, leaseAge, workers, history>>

-----------------------------------------------------------------------------
(* claim_outbox_batch *)

\* Mutant: a lease is reclaimable one unit early.
ReadyEarly(e) ==
    \/ status[e] = "pending" /\ availableIn[e] <= 0
    \/ status[e] = "claimed" /\ leaseAge[e] >= Stale

\* Mutant: no reclaim of stale leases.
ReadyPendingOnly(e) == status[e] = "pending" /\ availableIn[e] <= 0

\* The WHERE clause of the claim.
Ready(e) ==
    \/ status[e] = "pending" /\ availableIn[e] <= 0
    \/ status[e] = "claimed" /\ leaseAge[e] > Stale

\* Rows another worker's uncommitted settle may hold locked: SKIP LOCKED
\* passes over them.
Lockable(w) == {current[v] : v \in {u \in Workers \ {w} : current[u] # NoEvent}}

\* ORDER BY available_at LIMIT batch_size over the ready rows that are not locked.
IsBatch(b, ready) ==
    /\ b # {}
    /\ Cardinality(b) <= BatchSize
    /\ b = ready \/ Cardinality(b) = BatchSize
    /\ \A e \in b, f \in ready \ b : availableIn[e] <= availableIn[f]

\* claim_batch and the commit that makes the lease durable.  An idle poll that
\* finds nothing changes no state.
Claim(w) ==
    /\ pc[w] = "idle"
    /\ \E locked \in SUBSET Lockable(w) :
       \E b \in SUBSET {e \in Events \ locked : Ready(e)} :
          /\ IsBatch(b, {e \in Events \ locked : Ready(e)})
          /\ status' = [e \in Events |-> IF e \in b THEN "claimed" ELSE status[e]]
          /\ leasedBy' = [e \in Events |-> IF e \in b THEN w ELSE leasedBy[e]]
          /\ leaseAge' = [e \in Events |-> IF e \in b THEN 0 ELSE leaseAge[e]]
          /\ batch' = [batch EXCEPT ![w] = b]
          /\ snapshot' = [snapshot EXCEPT ![w] =
                             [e \in Events |-> IF e \in b THEN attempts[e] ELSE 0]]
    /\ pc' = [pc EXCEPT ![w] = "working"]
    /\ claimAge' = [claimAge EXCEPT ![w] = 0]
    /\ UNCHANGED <<attempts, availableIn, current, history>>

-----------------------------------------------------------------------------
(* _deliver_one: the delivery, on its own tenant session *)

Begin(w, e, stage) ==
    /\ pc[w] = "working"
    /\ e \in batch[w]
    /\ pc' = [pc EXCEPT ![w] = stage]
    /\ current' = [current EXCEPT ![w] = e]
    /\ tries' = [tries EXCEPT ![e] = Least(@ + 1, TryCap)]

\* transport.deliver and tenant_db.commit return: delivered = True.
DeliverOk(w, e) ==
    /\ Begin(w, e, "delivered")
    /\ applied' = [applied EXCEPT ![e] = TRUE]
    /\ UNCHANGED <<rows, batch, snapshot, claimAge, failed, reportedDead, faults>>

\* The transport or the commit raises.  The effect may have happened all the
\* same (a timeout after the remote accepted, a commit whose answer was lost).
DeliverFail(w, e) ==
    /\ Begin(w, e, "failed")
    /\ failed' = [failed EXCEPT ![e] = Least(@ + 1, MaxAttempts)]
    /\ applied' \in {applied, [applied EXCEPT ![e] = TRUE]}
    /\ UNCHANGED <<rows, batch, snapshot, claimAge, reportedDead, faults>>

-----------------------------------------------------------------------------
(* settle_outbox_event, called by record_success and record_failure *)

\* Mutant: the settle finds the row by its id alone.
HoldsById(w, e) == status[e] # "absent"

\* The WHERE clause of the settle: it is a no-op when this fails.
Holds(w, e) == leasedBy[e] = w /\ status[e] = "claimed"

\* The UPDATE.  A pending row keeps leased_by and leased_at.
Settle(w, e, newStatus, newAvailableIn, newAttempts) ==
    IF Holds(w, e)
    THEN /\ status' = [status EXCEPT ![e] = newStatus]
         /\ attempts' = [attempts EXCEPT ![e] = newAttempts]
         /\ availableIn' = [availableIn EXCEPT ![e] = newAvailableIn]
         /\ leasedBy' = [leasedBy EXCEPT ![e] = IF newStatus \in Terminal
                                                THEN NoWorker ELSE @]
         /\ leaseAge' = [leaseAge EXCEPT ![e] = IF newStatus \in Terminal
                                                THEN 0 ELSE @]
    ELSE UNCHANGED rows

\* _deliver_one returns to the loop of run_once, or run_once returns.
Finish(w) ==
    /\ batch' = [batch EXCEPT ![w] = @ \ {current[w]}]
    /\ current' = [current EXCEPT ![w] = NoEvent]
    /\ pc' = [pc EXCEPT ![w] = IF batch[w] = {current[w]} THEN "idle" ELSE "working"]
    /\ UNCHANGED <<snapshot, claimAge>>

\* The "if delivered" after the finally clause of _deliver_one.
Delivered(w) == pc[w] = "delivered"

RecordSuccess(w) ==
    /\ Delivered(w)
    /\ Settle(w, current[w], "sent", availableIn[current[w]], 0)
    /\ Finish(w)
    /\ UNCHANGED history

\* _backoff_seconds: base * 2^attempts, capped.
BackoffSeconds(n) ==
    LET backoff == BaseBackoff * 2 ^ n
    IN  IF backoff \in 0 .. MaxBackoff THEN backoff ELSE MaxBackoff

\* Mutants: off by one either way.
GivesUpLate(n) == n > MaxAttempts
GivesUpEarly(n) == n + 1 >= MaxAttempts

\* next_attempts >= policy.max_attempts
GivesUp(n) == n >= MaxAttempts

\* record_failure: retry_at is computed on the worker's clock; whether the
\* settle found the lease is not looked at.
RecordFailure(w) ==
    LET e == current[w]
        nextAttempts == snapshot[w][e] + 1
    IN  /\ pc[w] = "failed"
        /\ \/ /\ GivesUp(nextAttempts)
              /\ Settle(w, e, "dead", availableIn[e], nextAttempts)
              /\ reportedDead' = [reportedDead EXCEPT ![e] = TRUE]
           \/ /\ ~ GivesUp(nextAttempts)
              /\ \E skew \in - Skew .. Skew :
                    Settle(w, e, "pending", BackoffSeconds(snapshot[w][e]) + skew,
                           nextAttempts)
              /\ UNCHANGED reportedDead
        /\ Finish(w)
        /\ UNCHANGED <<failed, tries, applied, faults>>

-----------------------------------------------------------------------------
(* The environment *)

\* The process dies at any point (an exception of the dispatcher session ends
\* run_forever too) and its supervisor starts it again under the same worker_id:
\* the batch is forgotten, the rows keep their lease.
Crash(w) ==
    /\ pc[w] # "idle"
    /\ faults < MaxFaults
    /\ faults' = faults + 1
    /\ pc' = [pc EXCEPT ![w] = "idle"]
    /\ batch' = [batch EXCEPT ![w] = {}]
    /\ current' = [current EXCEPT ![w] = NoEvent]
    /\ UNCHANGED <<rows, snapshot, claimAge, failed, tries, applied, reportedDead>>

\* A worker is about to exceed the lease it took while it still has work.
Overrun == \E w \in Workers : pc[w] # "idle" /\ claimAge[w] = Stale

\* One unit of time passes on every clock.
Tick ==
    /\ IF Overrun THEN faults < MaxFaults /\ faults' = faults + 1
                  ELSE UNCHANGED faults
    /\ availableIn' = [e \in Events |-> IF availableIn[e] > - Overdue
                                        THEN availableIn[e] - 1 ELSE availableIn[e]]
    /\ leaseAge' = [e \in Events |-> Least(leaseAge[e] + 1, Stale + 1)]
    /\ claimAge' = [w \in Workers |-> Least(claimAge[w] + 1, Stale + 1)]
    /\ UNCHANGED <<status, attempts, leasedBy, pc, batch, current, snapshot,
                   failed, tries, applied, reportedDead>>

-----------------------------------------------------------------------------
WorkerStep(w) ==
    \/ Claim(w)
    \/ \E e \in Events : DeliverOk(w, e) \/ DeliverFail(w, e)
    \/ RecordSuccess(w)
    \/ RecordFailure(w)

Next ==
    \/ \E e \in Events : Enqueue(e)
    \/ \E w \in Workers : WorkerStep(w) \/ Crash(w)
    \/ Tick

Spec == Init /\ [][Next]_vars

\* Workers poll for ever and transports return or raise (run_forever's loop);
\* time passes.  Crashes and overruns stay within MaxFaults.
FairSpec == Spec /\ WF_vars(Tick) /\ \A w \in Workers : WF_vars(WorkerStep(w))

-----------------------------------------------------------------------------
(* Properties *)

\* Types: no row and no snapshot of a claim ever has more than max_attempts.
TypeOK ==
    /\ status \in [Events -> Status]
    /\ attempts \in [Events -> 0 .. MaxAttempts]
    /\ availableIn \in [Events -> Int]
    /\ leasedBy \in [Events -> Workers \cup {NoWorker}]
    /\ leaseAge \in [Events -> 0 .. Stale + 1]
    /\ pc \in [Workers -> Stage]
    /\ batch \in [Workers -> SUBSET Events]
    /\ current \in [Workers -> Events \cup {NoEvent}]
    /\ snapshot \in [Workers -> [Events -> 0 .. MaxAttempts]]
    /\ claimAge \in [Workers -> 0 .. Stale + 1]
    /\ failed \in [Events -> 0 .. MaxAttempts]
    /\ tries \in [Events -> 0 .. TryCap]
    /\ applied \in [Events -> BOOLEAN]
    /\ reportedDead \in [Events -> BOOLEAN]
    /\ faults \in 0 .. MaxFaults

\* Two workers hold the same event in their batches only when at least one of
\* them has outlived its lease: within the lease, claim_outbox_batch gives an
\* event to one process, whatever crashes, retries and reclaims came before.
ExclusiveLease ==
    \A w, v \in Workers : \A e \in batch[w] \cap batch[v] :
        w = v \/ claimAge[w] > Stale \/ claimAge[v] > Stale

\* A dead letter has really failed max_attempts deliveries: no crash, reclaim
\* or late answer of a former holder (record_failure with an old snapshot of
\* attempts) makes the relay give up early.
DeadMeansExhausted == \A e \in Events : status[e] = "dead" => failed[e] = MaxAttempts

\* An event marked sent has taken effect: the relay never loses a message by
\* settling on somebody else's delivery.
SentMeansDelivered == \A e \in Events : status[e] = "sent" => applied[e]

\* The settle of a former lease holder changes nothing: attempts never goes
\* back (except that success resets it), a terminal row never changes again.
FormerHolderIsFenced ==
    [][\A e \in Events :
          /\ attempts'[e] >= attempts[e] \/ status'[e] = "sent"
          /\ status[e] \in Terminal => status'[e] = status[e]]_vars

\* Every enqueued event is in the end sent or retained as dead, through any
\* pattern of failures, with finitely many crashes and overrun leases.
EventuallySettled ==
    \A e \in Events : status[e] = "pending" ~> status[e] \in Terminal

\* max_attempts bounds the deliveries of an event but for those lost with a
\* crashed worker or an overrun lease, one for each: the attempts column and the
\* snapshots of it never forget a failure that a living holder recorded.
RetriesAccounted == \A e \in Events : tries[e] <= MaxAttempts + faults

\* record_failure reports a dead letter only of an event that failed
\* max_attempts times, and in a run without faults the row is then dead.  After a
\* fault it may not be: a reporter that had lost its lease does not look at what
\* its settle returned.
ReportedDeadAccounted ==
    \A e \in Events : reportedDead[e] =>
        /\ failed[e] = MaxAttempts
        /\ status[e] = "dead" \/ faults > 0

=============================================================================
