------------------------ MODULE IntegrationDispatch ------------------------
(***************************************************************************)
(* dotmac_integration: the outbound queue of one enabled installation.     *)
(* Workers dispatch in three phases (prepare, invoke, settle) with no      *)
(* transaction across the provider call; a sweeper returns expired leases, *)
(* operators replay, reconcilers settle ambiguous outcomes from provider   *)
(* evidence.  Guarded UPDATEs (claim, settle, reconcile) are one step.     *)
(* The ORM paths (replay_delivery, release_expired_leases) read a row      *)
(* without a lock and write it at flush: two steps.                        *)
(*                                                                         *)
(* Time is abstract: a lease is none, live or expired; a row is due or not *)
(* (next_attempt_at is null or past).  Refusals that write nothing (kill   *)
(* switch, quarantine, bindings, manifests, redacted requests) do not      *)
(* appear: a refused call is one that is not made.                         *)
(***************************************************************************)
EXTENDS Integers, FiniteSets

CONSTANTS
    Deliveries,     \* by (installation, idempotency_key)
    Workers,        \* dispatcher processes
    Operators,      \* admins who replay
    Reconcilers,    \* who reconcile with evidence
    Codes,          \* what provider_status_code can say, of StatusCodes
    MaxAttempts,    \* ExecutionPolicy.max_attempts
    Limit,          \* ExecutionPolicy.max_in_flight_per_installation
    MaxClaims       \* bound: [Deliveries -> Nat], claims per delivery

\* No code or an ordinary one; retryable but not throttling; throttling.
StatusCodes == {"none", "retryable", "throttling"}

ASSUME ConstantsAssumption ==
    /\ IsFiniteSet(Deliveries)
    /\ IsFiniteSet(Workers) /\ Workers # {}
    /\ Codes \subseteq StatusCodes
    /\ MaxAttempts \in Nat \ {0}
    /\ Limit \in Nat \ {0}
    /\ MaxClaims \in [Deliveries -> Nat]

VARIABLES
    state,      \* delivery_attempts.state; "absent" before enqueue_delivery
    attempts,   \* attempt_count
    lease,      \* leased_until: null, not yet past, past
    due,        \* next_attempt_at is null or past
    worker,     \* each dispatcher's place in prepare, invoke, settle
    operator,   \* what an operator's session has read, until it flushes
    sweep,      \* the rows release_expired_leases has selected
    subject,    \* each reconciler's ReconciliationSubject, then its evidence
    landed,     \* at the provider: how often the effect of a delivery landed
    claims,     \* history: claims granted on a delivery
    excused     \* history: events that justify one more send of a delivery

rows == <<state, attempts, lease, due>>
vars == <<rows, worker, operator, sweep, subject, landed, claims, excused>>

State == {"absent", "pending", "in_flight", "delivered", "retryable",
          "reconciliation_required", "dead_letter"}
\* The states claim_delivery does not touch.
Settled == {"delivered", "dead_letter", "reconciliation_required"}
OutcomeStatus == {"succeeded", "retryable", "reconciliation_required", "terminal"}
Outcome == [status : OutcomeStatus, code : Codes]

Lease == {"none", "live", "expired"}
Idle == [pc |-> "idle"]
WorkerState ==
    {Idle} \cup [pc : {"admitted"}, d : Deliveries]
           \cup [pc : {"calling"}, d : Deliveries, attempt : Nat, claim : Nat]
           \cup [pc : {"returned"}, d : Deliveries, attempt : Nat, claim : Nat, outcome : Outcome]
OperatorState ==
    {Idle} \cup [pc : {"read"}, d : Deliveries, state : State, attempts : Nat,
                 claim : Nat]
SubjectState ==
    {Idle} \cup [pc : {"probing"}, d : Deliveries, attempts : Nat, claim : Nat]
           \cup [pc : {"evidence"}, d : Deliveries, attempts : Nat, claim : Nat,
                  verdict : {"landed", "not_landed", "unknown"}]

Init ==
    /\ state = [d \in Deliveries |-> "absent"]
    /\ attempts = [d \in Deliveries |-> 0]
    /\ lease = [d \in Deliveries |-> "none"]
    /\ due = [d \in Deliveries |-> FALSE]
    /\ worker = [w \in Workers |-> Idle]
    /\ operator = [o \in Operators |-> Idle]
    /\ sweep = {}
    /\ subject = [r \in Reconcilers |-> Idle]
    /\ landed = [d \in Deliveries |-> 0]
    /\ claims = [d \in Deliveries |-> 0]
    /\ excused = [d \in Deliveries |-> 0]

Excuse(S) == excused' = [d \in Deliveries |-> IF d \in S THEN excused[d] + 1 ELSE excused[d]]

-----------------------------------------------------------------------------
(* The queue.                                                              *)

\* A second enqueue of the key finds the row, or loses the unique constraint
\* and finds it then; it changes nothing.
Enqueue(d) ==
    /\ state[d] = "absent"
    /\ state' = [state EXCEPT ![d] = "pending"]
    /\ due' = [due EXCEPT ![d] = TRUE]
    /\ UNCHANGED <<attempts, lease, worker, operator, sweep, subject, landed, claims, excused>>

\* Attempts that hold a live lease: what the ceiling counts.
InFlight == {d \in Deliveries : state[d] = "in_flight" /\ lease[d] = "live"}

\* Mutant: an expired lease still bars the row.
ClaimableUnleased(d) ==
    /\ claims[d] < MaxClaims[d]
    /\ state[d] \notin Settled \cup {"absent"}
    /\ lease[d] = "none"
    /\ due[d]

\* The WHERE clause of claim_delivery; the dispatcher picks rows by it too.
Claimable(d) ==
    /\ claims[d] < MaxClaims[d]
    /\ state[d] \notin Settled \cup {"absent"}
    /\ lease[d] # "live"
    /\ due[d]

\* Mutant: no ceiling.
AdmitUnlimited(w, d) ==
    /\ worker[w] = Idle
    /\ Claimable(d)
    /\ worker' = [worker EXCEPT ![w] = [pc |-> "admitted", d |-> d]]
    /\ UNCHANGED <<rows, operator, sweep, subject, landed, claims, excused>>

\* prepare up to the claim: the ceiling is counted by a SELECT of its own.
Admit(w, d) ==
    /\ worker[w] = Idle
    /\ Claimable(d)
    /\ Cardinality(InFlight) < Limit
    /\ worker' = [worker EXCEPT ![w] = [pc |-> "admitted", d |-> d]]
    /\ UNCHANGED <<rows, operator, sweep, subject, landed, claims, excused>>

\* claim_delivery, the last statement of prepare, and its commit.
Claim(w) ==
    /\ worker[w].pc = "admitted"
    /\ LET d == worker[w].d IN
        /\ Claimable(d)
        /\ state' = [state EXCEPT ![d] = "in_flight"]
        /\ attempts' = [attempts EXCEPT ![d] = @ + 1]
        /\ lease' = [lease EXCEPT ![d] = "live"]
        /\ claims' = [claims EXCEPT ![d] = @ + 1]
        /\ worker' = [worker EXCEPT ![w] =
                        [pc |-> "calling", d |-> d, attempt |-> attempts[d] + 1,
                         claim |-> claims[d] + 1]]
    /\ UNCHANGED <<due, operator, sweep, subject, landed, excused>>

\* prepare returns None: the row was not granted.
ClaimLost(w) ==
    /\ worker[w].pc = "admitted"
    /\ ~ Claimable(worker[w].d)
    /\ worker' = [worker EXCEPT ![w] = Idle]
    /\ UNCHANGED <<rows, operator, sweep, subject, landed, claims, excused>>

\* The handler returns or raises.  Only its own report tells the effect did
\* not happen; a raise or a wrong result type (reconciliation_required) tells nothing.
MayLand(outcome) ==
    CASE outcome.status = "succeeded" -> {TRUE}
      [] outcome.status = "reconciliation_required" -> BOOLEAN
      [] OTHER -> {FALSE}

Invoke(w) ==
    /\ worker[w].pc = "calling"
    /\ \E outcome \in Outcome : \E lands \in MayLand(outcome) :
        LET job == worker[w] IN
        /\ landed' = IF lands THEN [landed EXCEPT ![job.d] = @ + 1] ELSE landed
        /\ worker' = [worker EXCEPT ![w] =
                        [pc |-> "returned", d |-> job.d, attempt |-> job.attempt,
                         claim |-> job.claim, outcome |-> outcome]]
    /\ UNCHANGED <<rows, operator, sweep, subject, claims, excused>>

-----------------------------------------------------------------------------
(* Settlement.                                                             *)

\* A terminal outcome with a retryable status code is a retryable one.
classify(outcome) ==
    IF outcome.status = "terminal" /\ outcome.code # "none" THEN "retryable" ELSE outcome.status

\* Mutant: an ambiguous outcome is retried.
next_state_retries_ambiguous(outcome, attempt_count) ==
    CASE classify(outcome) = "succeeded" -> "delivered"
      [] classify(outcome) = "terminal" -> "dead_letter"
      [] OTHER -> IF attempt_count >= MaxAttempts THEN "dead_letter" ELSE "retryable"

\* Mutant: whatever is not refused is delivered.
next_state_optimistic(outcome, attempt_count) ==
    CASE classify(outcome) = "terminal" -> "dead_letter"
      [] classify(outcome) = "retryable" ->
            IF attempt_count >= MaxAttempts THEN "dead_letter" ELSE "retryable"
      [] OTHER -> "delivered"

next_state(outcome, attempt_count) ==
    CASE classify(outcome) = "succeeded" -> "delivered"
      [] classify(outcome) = "reconciliation_required" -> "reconciliation_required"
      [] classify(outcome) = "terminal" -> "dead_letter"
      [] OTHER -> IF attempt_count >= MaxAttempts THEN "dead_letter" ELSE "retryable"

\* Mutant: any live claim will do.
HoldsSomeClaim(w) ==
    state[worker[w].d] = "in_flight" /\ lease[worker[w].d] = "live"

\* The WHERE clause of settle.
HoldsClaim(w) ==
    LET d == worker[w].d IN
    state[d] = "in_flight" /\ attempts[d] = worker[w].attempt /\ lease[d] = "live"

\* The other rows apply_provider_cooldown delays: queued ones, not those in
\* flight or settled.
Cooled(w) ==
    IF worker[w].outcome.code = "throttling"
    THEN {d \in Deliveries : state'[d] \in {"pending", "retryable"}} ELSE {}

Settle(w) ==
    /\ worker[w].pc = "returned"
    /\ HoldsClaim(w)
    /\ LET d == worker[w].d
           next == next_state(worker[w].outcome, worker[w].attempt)
       IN /\ state' = [state EXCEPT ![d] = next]
          /\ lease' = [lease EXCEPT ![d] = "none"]
          /\ due' = [x \in Deliveries |->
                        IF x \in Cooled(w) THEN FALSE
                        ELSE IF x = d THEN next # "retryable" ELSE due[x]]
    /\ worker' = [worker EXCEPT ![w] = Idle]
    /\ UNCHANGED <<attempts, operator, sweep, subject, landed, claims, excused>>

\* LostClaim, or the result of a success breaks its contract: nothing is
\* written.
SettleRefused(w) ==
    /\ worker[w].pc = "returned"
    /\ HoldsClaim(w) => worker[w].outcome.status = "succeeded"
    /\ worker' = [worker EXCEPT ![w] = Idle]
    /\ UNCHANGED <<rows, operator, sweep, subject, landed, claims, excused>>

Crash(w) ==
    /\ worker[w].pc \in {"admitted", "calling", "returned"}
    /\ worker' = [worker EXCEPT ![w] = Idle]
    /\ UNCHANGED <<rows, operator, sweep, subject, landed, claims, excused>>

\* Time passes.
LeaseExpires(d) ==
    /\ lease[d] = "live"
    /\ lease' = [lease EXCEPT ![d] = "expired"]
    /\ Excuse({d} \cap InFlight)
    /\ UNCHANGED <<state, attempts, due, worker, operator, sweep, subject, landed, claims>>

ComesDue(d) ==
    /\ state[d] \in {"pending", "retryable"}
    /\ ~ due[d]
    /\ due' = [due EXCEPT ![d] = TRUE]
    /\ UNCHANGED <<state, attempts, lease, worker, operator, sweep, subject, landed, claims, excused>>

-----------------------------------------------------------------------------
(* Repair.                                                                 *)

\* The SELECT of release_expired_leases; it locks nothing.
ReleaseSelect ==
    /\ sweep = {}
    /\ sweep' = {d \in Deliveries : state[d] = "in_flight" /\ lease[d] = "expired"}
    /\ sweep' # {}
    /\ UNCHANGED <<rows, worker, operator, subject, landed, claims, excused>>

\* Its flush, by primary key.
ReleaseWrite ==
    /\ sweep # {}
    /\ state' = [d \in Deliveries |-> IF d \in sweep THEN "retryable" ELSE state[d]]
    /\ lease' = [d \in Deliveries |-> IF d \in sweep THEN "none" ELSE lease[d]]
    /\ due' = [d \in Deliveries |-> d \in sweep \/ due[d]]
    /\ Excuse({d \in sweep : lease[d] # "expired"})
    /\ sweep' = {}
    /\ UNCHANGED <<attempts, worker, operator, subject, landed, claims>>

\* The states replay_delivery accepts; repair_dead_letter takes the first,
\* replay_by_idempotency_key the first two.
Replayable == {"dead_letter", "retryable", "reconciliation_required"}

ReplayRead(o, d) ==
    /\ operator[o] = Idle
    /\ state[d] \in Replayable
    /\ operator' = [operator EXCEPT ![o] =
                        [pc |-> "read", d |-> d, state |-> state[d], attempts |-> attempts[d],
                         claim |-> claims[d]]]
    /\ UNCHANGED <<rows, worker, sweep, subject, landed, claims, excused>>

\* The flush of replay_delivery: the columns that differ from what was read.
\* The lease was null then, so a lease taken since stays.
ReplayWrite(o) ==
    /\ operator[o].pc = "read"
    /\ LET seen == operator[o] IN
        /\ state' = [state EXCEPT ![seen.d] = "pending"]
        /\ attempts' = [attempts EXCEPT ![seen.d] = IF seen.attempts = 0 THEN @ ELSE 0]
        /\ due' = [due EXCEPT ![seen.d] = @ \/ seen.state = "retryable"]
        /\ IF seen.state = "reconciliation_required" \/ seen.claim # claims[seen.d]
           THEN Excuse({seen.d}) ELSE UNCHANGED excused
    /\ operator' = [operator EXCEPT ![o] = Idle]
    /\ UNCHANGED <<lease, worker, sweep, subject, landed, claims>>

PrepareReconciliation(r, d) ==
    /\ subject[r] = Idle
    /\ state[d] = "reconciliation_required"
    /\ subject' = [subject EXCEPT ![r] = [pc |-> "probing", d |-> d,
                                          attempts |-> attempts[d], claim |-> claims[d]]]
    /\ UNCHANGED <<rows, worker, operator, sweep, landed, claims, excused>>

\* The provider answers truthfully, or cannot say.
Probe(r) ==
    /\ subject[r].pc = "probing"
    /\ \E verdict \in {"unknown", IF landed[subject[r].d] > 0 THEN "landed" ELSE "not_landed"} :
        LET s == subject[r] IN
        subject' = [subject EXCEPT ![r] =
                        [pc |-> "evidence", d |-> s.d, attempts |-> s.attempts,
                         claim |-> s.claim, verdict |-> verdict]]
    /\ UNCHANGED <<rows, worker, operator, sweep, landed, claims, excused>>

\* The WHERE clause of reconcile_with_evidence.
StillAmbiguous(r) ==
    /\ state[subject[r].d] = "reconciliation_required"
    /\ attempts[subject[r].d] = subject[r].attempts

\* reconcile_with_evidence on an answer: landed closes the row, not_landed
\* queues it with a fresh budget.
Reconcile(r) ==
    /\ subject[r].pc = "evidence"
    /\ StillAmbiguous(r)
    /\ subject[r].verdict # "unknown"
    /\ LET s == subject[r]
           requeued == s.verdict = "not_landed"
       IN /\ state' = [state EXCEPT ![s.d] = IF requeued THEN "pending" ELSE "delivered"]
          /\ attempts' = [attempts EXCEPT ![s.d] = IF requeued THEN 0 ELSE @]
          /\ lease' = [lease EXCEPT ![s.d] = "none"]
          /\ due' = [due EXCEPT ![s.d] = TRUE]
          /\ IF s.claim # claims[s.d] THEN Excuse({s.d}) ELSE UNCHANGED excused
    /\ subject' = [subject EXCEPT ![r] = Idle]
    /\ UNCHANGED <<worker, operator, sweep, landed, claims>>

\* The row is no longer the one that was read ("raced"), or the provider cannot
\* say: the row keeps its state (and gets the inconclusive mark).
ReconcileNothing(r) ==
    /\ subject[r].pc = "evidence"
    /\ ~ StillAmbiguous(r) \/ subject[r].verdict = "unknown"
    /\ subject' = [subject EXCEPT ![r] = Idle]
    /\ UNCHANGED <<rows, worker, operator, sweep, landed, claims, excused>>

-----------------------------------------------------------------------------
WorkerStep(w) ==
    \/ \E d \in Deliveries : Admit(w, d)
    \/ Claim(w) \/ ClaimLost(w) \/ Invoke(w) \/ Settle(w) \/ SettleRefused(w) \/ Crash(w)

Repair ==
    \/ ReleaseSelect \/ ReleaseWrite
    \/ \E o \in Operators : ReplayWrite(o) \/ \E d \in Deliveries : ReplayRead(o, d)
    \/ \E r \in Reconcilers :
        Probe(r) \/ Reconcile(r) \/ ReconcileNothing(r)
        \/ \E d \in Deliveries : PrepareReconciliation(r, d)

Next ==
    \/ \E d \in Deliveries : Enqueue(d) \/ LeaseExpires(d) \/ ComesDue(d)
    \/ \E w \in Workers : WorkerStep(w)
    \/ Repair

Spec == Init /\ [][Next]_vars

\* Every process runs on unless it crashes; the dispatcher serves every due row
\* again and again, and not every attempt of it crashes between admission and
\* claim; time passes.  Nothing is assumed of the sweeper, operators, reconcilers.
FairSpec ==
    /\ Spec
    /\ \A d \in Deliveries :
        /\ WF_vars(LeaseExpires(d))
        /\ WF_vars(ComesDue(d))
        /\ SF_vars(\E w \in Workers : Admit(w, d))
        /\ SF_vars(\E w \in Workers : worker[w] = [pc |-> "admitted", d |-> d] /\ Claim(w))
    /\ \A w \in Workers :
        WF_vars(ClaimLost(w) \/ Invoke(w) \/ Settle(w) \/ SettleRefused(w))

-----------------------------------------------------------------------------
(* Properties *)

\* Types: the states are those ck_delivery_attempts_state admits, and every
\* process is in a phase of its call.
TypeOK ==
    /\ state \in [Deliveries -> State]
    /\ attempts \in [Deliveries -> Nat]
    /\ lease \in [Deliveries -> Lease]
    /\ due \in [Deliveries -> BOOLEAN]
    /\ worker \in [Workers -> WorkerState]
    /\ operator \in [Operators -> OperatorState]
    /\ sweep \subseteq Deliveries
    /\ subject \in [Reconcilers -> SubjectState]
    /\ landed \in [Deliveries -> Nat]
    /\ claims \in [Deliveries -> Nat]
    /\ excused \in [Deliveries -> Nat]

\* The effect of a delivery lands once, and once more only for a reason the
\* three phases cannot exclude: a lease that ran out on a call, a replay of an
\* ambiguous row, or a write from a stale read.  In particular next_state never
\* makes a second send out of an outcome that may have landed.
DuplicatesAreAccounted == \A d \in Deliveries : landed[d] <= 1 + excused[d]

\* A row says delivered only when the provider has the effect, whoever settled
\* it: a worker, a stale worker after a reset, a reconciler with old evidence.
DeliveredReallyLanded == \A d \in Deliveries : state[d] = "delivered" => landed[d] > 0

\* max_in_flight_per_installation is counted before the claim, so workers that
\* were admitted together overshoot it; never by more than the other workers.
Admitted == {w \in Workers : worker[w].pc = "admitted"}
OvershootIsBounded ==
    Cardinality(InFlight) + Cardinality(Admitted) <= Limit + Cardinality(Workers) - 1

\* As long as no replay or reconciliation has reset attempt_count, settle
\* accepts only the latest claim, and reconcile_with_evidence only evidence on
\* the latest attempt: a takeover fences whoever came before.
FencedUntilReset ==
    /\ \A w \in Workers :
        /\ worker[w].pc = "returned"
        /\ HoldsClaim(w)
        /\ attempts[worker[w].d] = claims[worker[w].d]
        => worker[w].claim = claims[worker[w].d]
    /\ \A r \in Reconcilers :
        /\ subject[r].pc = "evidence"
        /\ StillAmbiguous(r)
        /\ attempts[subject[r].d] = claims[subject[r].d]
        => subject[r].claim = claims[subject[r].d]

\* Every queued delivery is in the end delivered, dead-lettered or handed to
\* reconciliation, through crashes in every phase: no lease strands a row.
EventuallySettled ==
    \A d \in Deliveries :
        state[d] # "absent" ~> state[d] \in Settled \/ claims[d] = MaxClaims[d]

=============================================================================
