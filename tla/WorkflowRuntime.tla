-------------------------- MODULE WorkflowRuntime --------------------------
(***************************************************************************)
(* dotmac_workflow_runtime: one workflow execution, its ordered checkpoints *)
(* and the workers that claim them under finite leases, settle them, and   *)
(* repair them.  Each call is a transaction of the session boundary: an    *)
(* exception that leaves the call rolls it back.  claim_checkpoint and     *)
(* record_repair lock the execution, then the checkpoint; settle_checkpoint *)
(* locks the checkpoint, then the execution.                               *)
(*                                                                         *)
(* Time is relative: left[c] is lease_expires_at - now, lag[w] is now minus *)
(* the claimed_at or settled_at that the caller stamped before its call    *)
(* began to wait for locks, on a clock that may be off by Skew.            *)
(***************************************************************************)
EXTENDS Integers, FiniteSets

CONSTANTS
    Workers,        \* by worker_ref; operators repair under the same names
    NoWorker,       \* no lock, no lease
    Last,           \* the number of checkpoint codes
    MaxAttempts,    \* StartExecution.max_attempts
    Lease,          \* lease_until - claimed_at
    Skew,           \* bound: a caller's clock minus the true time, either way
    MaxLag,         \* bound: no timestamp is older than this when it is used
    MaxRepairs,     \* bound: repairs per checkpoint
    MaxFaults       \* bound: worker crashes and failed transactions

ASSUME ConstantsAssumption ==
    /\ NoWorker \notin Workers
    /\ Last \in Nat \ {0}
    /\ MaxAttempts \in Nat \ {0}
    /\ Lease \in Nat \ {0}
    /\ Skew \in Nat
    /\ MaxLag \in Nat /\ Skew <= MaxLag
    /\ MaxRepairs \in Nat
    /\ MaxFaults \in Nat

\* Checkpoints, by position.
Checkpoints == 1 .. Last

VARIABLES
    execution,      \* workflow_executions.status; "absent" before the first start
    status,         \* workflow_checkpoints.status
    attempts,       \* attempt_count
    owner,          \* lease_owner_ref
    left,           \* lease_expires_at - now; expired for good below - MaxLag
    executionLock,  \* the worker whose transaction holds the execution row
    checkpointLock, \* the worker whose transaction holds each checkpoint row
    pc,             \* the worker's place in its call
    target,         \* the checkpoint the call names, 0 outside a call
    lag,            \* now - the caller's timestamp
    holding,        \* the checkpoint a worker is executing, 0 for none
    mine,           \* history: what is left of the lease it was granted
    claims,         \* history: claims granted per checkpoint
    repairs,        \* workflow_repairs rows per checkpoint
    faults          \* crashes and failed transactions so far

tables == <<execution, status, attempts, owner, left>>
locks  == <<executionLock, checkpointLock>>
calls  == <<pc, target, lag>>
work   == <<holding, mine>>
ghosts == <<claims, repairs, faults>>
vars   == <<tables, locks, calls, work, ghosts>>

Stage == {"idle", "start", "claim", "claim_locked", "settle", "settle_locked",
          "repair", "repair_locked"}

Init ==
    /\ execution = "absent"
    /\ status = [c \in Checkpoints |-> "pending"]
    /\ attempts = [c \in Checkpoints |-> 0]
    /\ owner = [c \in Checkpoints |-> NoWorker]
    /\ left = [c \in Checkpoints |-> - MaxLag]
    /\ executionLock = NoWorker
    /\ checkpointLock = [c \in Checkpoints |-> NoWorker]
    /\ pc = [w \in Workers |-> "idle"]
    /\ target = [w \in Workers |-> 0]
    /\ lag = [w \in Workers |-> 0]
    /\ holding = [w \in Workers |-> 0]
    /\ mine = [w \in Workers |-> 0]
    /\ claims = [c \in Checkpoints |-> 0]
    /\ repairs = [c \in Checkpoints |-> 0]
    /\ faults = 0

-----------------------------------------------------------------------------
(* Calls and their transactions *)

Call(w, stage, c) ==
    /\ pc[w] = "idle"
    /\ pc' = [pc EXCEPT ![w] = stage]
    /\ target' = [target EXCEPT ![w] = c]
    /\ \E skew \in - Skew .. Skew : lag' = [lag EXCEPT ![w] = skew]
    /\ UNCHANGED <<tables, locks, work, ghosts>>

\* The transaction ends, by commit or by rollback.
End(w) ==
    /\ pc' = [pc EXCEPT ![w] = "idle"]
    /\ target' = [target EXCEPT ![w] = 0]
    /\ lag' = [lag EXCEPT ![w] = 0]
    /\ executionLock' = IF executionLock = w THEN NoWorker ELSE executionLock
    /\ checkpointLock' = [c \in Checkpoints |-> IF checkpointLock[c] = w THEN NoWorker
                                                ELSE checkpointLock[c]]

\* The call raises; nothing it wrote remains.
Refuse(w) == End(w) /\ UNCHANGED <<tables, work, ghosts>>

LockExecution(w, stage) ==
    /\ executionLock = NoWorker
    /\ executionLock' = w
    /\ pc' = [pc EXCEPT ![w] = stage]
    /\ UNCHANGED <<tables, checkpointLock, target, lag, work, ghosts>>

LockCheckpoint(w, stage) ==
    /\ checkpointLock[target[w]] = NoWorker
    /\ checkpointLock' = [checkpointLock EXCEPT ![target[w]] = w]
    /\ pc' = [pc EXCEPT ![w] = stage]
    /\ UNCHANGED <<tables, executionLock, target, lag, work, ghosts>>

-----------------------------------------------------------------------------
(* start_execution *)

\* The lookup by source event: a known execution is replayed or refused.
CallStart(w) == execution = "absent" /\ Call(w, "start", 0)

\* The insert under the savepoint, with its checkpoints and the commit: the
\* unique source event gives the execution to one caller, the others replay it.
StartExecution(w) ==
    /\ pc[w] = "start"
    /\ execution' = IF execution = "absent" THEN "pending" ELSE execution
    /\ End(w)
    /\ UNCHANGED <<status, attempts, owner, left, work, ghosts>>

-----------------------------------------------------------------------------
(* claim_checkpoint *)

\* Any worker, for any checkpoint, at any time.
CallClaim(w, c) == execution # "absent" /\ holding[w] = 0 /\ Call(w, "claim", c)

\* _execution: lock the execution, unless it is terminal.
ClaimExecution(w) ==
    /\ pc[w] = "claim"
    /\ \/ execution # "succeeded" /\ LockExecution(w, "claim_locked")
       \/ execution = "succeeded" /\ executionLock = NoWorker /\ Refuse(w)

\* Mutant: any checkpoint may run.
EarlierIgnored(c) == TRUE
\* No earlier checkpoint is incomplete.
EarlierDone(c) == \A d \in 1 .. c - 1 : status[d] = "succeeded"

\* Mutant: the lease of another worker is not looked at.
LeaseIgnored(w, c) == FALSE
\* lease_expires_at > claimed_at
ActiveLease(w, c) == status[c] = "leased" /\ left[c] + lag[w] > 0

\* attempt_count >= max_attempts
Exhausted(c) == attempts[c] >= MaxAttempts

\* Mutant: a succeeded checkpoint may be claimed again.
ClaimsSettled(w, c) ==
    /\ EarlierDone(c)
    /\ status[c] # "failed"
    /\ ~ ActiveLease(w, c)
    /\ ~ Exhausted(c)
\* The checks of claim_checkpoint.  The branch that marks an exhausted
\* checkpoint and its execution failed raises after its flush: the rollback
\* takes the marks with it.
Claimable(w, c) ==
    /\ EarlierDone(c)
    /\ status[c] \notin {"succeeded", "failed"}
    /\ ~ ActiveLease(w, c)
    /\ ~ Exhausted(c)

\* Mutant: taking over an expired lease is not counted.
NextAttemptOfOwn(c) == IF status[c] = "leased" THEN attempts[c] ELSE attempts[c] + 1
\* attempt_count += 1
NextAttempt(c) == attempts[c] + 1

\* Mutant: the call waits, in its transaction, for the checkpoint to be free.
RefuseClaimWaits(w) == FALSE
\* CheckpointUnavailable
RefuseClaim(w) == Refuse(w)

\* The checkpoint is locked, checked, and leased.
ClaimCheckpoint(w) ==
    LET c == target[w]
    IN  /\ pc[w] = "claim_locked"
        /\ checkpointLock[c] = NoWorker
        /\ \/ /\ Claimable(w, c)
              /\ status' = [status EXCEPT ![c] = "leased"]
              /\ attempts' = [attempts EXCEPT ![c] = NextAttempt(c)]
              /\ owner' = [owner EXCEPT ![c] = w]
              /\ left' = [left EXCEPT ![c] = Lease - lag[w]]
              /\ execution' = "running"
              /\ holding' = [holding EXCEPT ![w] = c]
              /\ mine' = [mine EXCEPT ![w] = Lease - lag[w]]
              /\ claims' = [claims EXCEPT ![c] = @ + 1]
              /\ End(w)
              /\ UNCHANGED <<repairs, faults>>
           \/ ~ Claimable(w, c) /\ RefuseClaim(w)

-----------------------------------------------------------------------------
(* settle_checkpoint *)

\* A worker settles what it executes; after an aborted call it may settle again.
CallSettle(w) == holding[w] # 0 /\ Call(w, "settle", holding[w])

\* Leased, to this worker, and lease_expires_at > settled_at.
HoldsLease(w, c) == status[c] = "leased" /\ owner[c] = w /\ left[c] + lag[w] > 0

\* Lock the checkpoint and check the lease; a worker refused gives up.
SettleCheckpoint(w) ==
    LET c == target[w]
    IN  /\ pc[w] = "settle"
        /\ checkpointLock[c] = NoWorker
        /\ \/ HoldsLease(w, c) /\ LockCheckpoint(w, "settle_locked")
           \/ /\ ~ HoldsLease(w, c)
              /\ holding' = [holding EXCEPT ![w] = 0]
              /\ mine' = [mine EXCEPT ![w] = 0]
              /\ End(w)
              /\ UNCHANGED <<tables, ghosts>>

\* Mutant: only the later checkpoints count as remaining.
RemainingLater(c) == {d \in Checkpoints : d > c + 1 /\ status[d] # "succeeded"}
\* The checkpoints other than c that are not succeeded.
Remaining(c) == {d \in Checkpoints \ {c} : status[d] # "succeeded"}

\* Then lock the execution and write both rows.
SettleExecution(w) ==
    LET c == target[w]
    IN  /\ pc[w] = "settle_locked"
        /\ executionLock = NoWorker
        /\ owner' = [owner EXCEPT ![c] = NoWorker]
        /\ left' = [left EXCEPT ![c] = - MaxLag]
        /\ \/ /\ status' = [status EXCEPT ![c] = "succeeded"]
              /\ execution' = IF Remaining(c) = {} THEN "succeeded" ELSE "running"
           \/ /\ attempts[c] < MaxAttempts
              /\ status' = [status EXCEPT ![c] = "retryable"]
              /\ execution' = "running"
           \/ /\ attempts[c] >= MaxAttempts
              /\ status' = [status EXCEPT ![c] = "failed"]
              /\ execution' = "failed"
        /\ holding' = [holding EXCEPT ![w] = 0]
        /\ mine' = [mine EXCEPT ![w] = 0]
        /\ End(w)
        /\ UNCHANGED <<attempts, ghosts>>

-----------------------------------------------------------------------------
(* record_repair *)

CallRepair(w, c) ==
    /\ execution # "absent"
    /\ holding[w] = 0
    /\ repairs[c] < MaxRepairs
    /\ Call(w, "repair", c)

\* _execution: lock the execution.
RepairExecution(w) == pc[w] = "repair" /\ LockExecution(w, "repair_locked")

\* Only a terminal failed checkpoint may be repaired.
Repairable(c) == execution = "failed" /\ status[c] = "failed"

\* The repair row, and a fresh round of attempts.
RecordRepair(w) ==
    LET c == target[w]
    IN  /\ pc[w] = "repair_locked"
        /\ checkpointLock[c] = NoWorker
        /\ \/ /\ Repairable(c)
              /\ repairs[c] < MaxRepairs
              /\ repairs' = [repairs EXCEPT ![c] = @ + 1]
              /\ status' = [status EXCEPT ![c] = "pending"]
              /\ attempts' = [attempts EXCEPT ![c] = 0]
              /\ execution' = "running"
              /\ End(w)
              /\ UNCHANGED <<owner, left, work, claims, faults>>
           \/ ~ (Repairable(c) /\ repairs[c] < MaxRepairs) /\ Refuse(w)

-----------------------------------------------------------------------------
(* The environment *)

\* The workers w waits for.
WaitsFor(w) ==
    (CASE pc[w] \in {"claim", "repair", "settle_locked"} -> {executionLock}
       [] pc[w] \in {"claim_locked", "repair_locked", "settle"} -> {checkpointLock[target[w]]}
       [] OTHER -> {}) \ {NoWorker}
Deadlocked(w) ==
    \E cycle \in SUBSET Workers : w \in cycle /\ \A v \in cycle : WaitsFor(v) \cap cycle # {}

\* PostgreSQL fails a transaction of every deadlock.
BreakDeadlock(w) == Deadlocked(w) /\ Refuse(w)

\* The database fails the call's transaction for another reason.
Abort(w) ==
    /\ pc[w] # "idle"
    /\ faults < MaxFaults
    /\ faults' = faults + 1
    /\ End(w)
    /\ UNCHANGED <<tables, work, claims, repairs>>

\* The worker dies with its call and its work.
Crash(w) ==
    /\ faults < MaxFaults
    /\ pc[w] # "idle" \/ holding[w] # 0
    /\ faults' = faults + 1
    /\ holding' = [holding EXCEPT ![w] = 0]
    /\ mine' = [mine EXCEPT ![w] = 0]
    /\ End(w)
    /\ UNCHANGED <<tables, claims, repairs>>

\* One unit of time; a call is over before its timestamp is MaxLag old.
Tick ==
    /\ \A w \in Workers : pc[w] # "idle" => lag[w] < MaxLag
    /\ left' = [c \in Checkpoints |-> IF left[c] > - MaxLag THEN left[c] - 1 ELSE left[c]]
    /\ lag' = [w \in Workers |-> IF pc[w] = "idle" THEN 0 ELSE lag[w] + 1]
    /\ mine' = [w \in Workers |-> IF mine[w] > 0 THEN mine[w] - 1 ELSE mine[w]]
    /\ UNCHANGED <<execution, status, attempts, owner, locks, pc, target, holding, ghosts>>

-----------------------------------------------------------------------------
\* The steps of a call that has begun.
CallStep(w) ==
    \/ StartExecution(w)
    \/ ClaimExecution(w) \/ ClaimCheckpoint(w)
    \/ SettleCheckpoint(w) \/ SettleExecution(w)
    \/ RepairExecution(w) \/ RecordRepair(w)

Next ==
    \/ \E w \in Workers :
          \/ CallStart(w) \/ CallSettle(w)
          \/ \E c \in Checkpoints : CallClaim(w, c) \/ CallRepair(w, c)
          \/ CallStep(w) \/ BreakDeadlock(w) \/ Abort(w) \/ Crash(w)
    \/ Tick

Spec == Init /\ [][Next]_vars

\* Calls proceed, lock queues are served, deadlocks are broken.
CallFairness ==
    \A w \in Workers : SF_vars(CallStep(w)) /\ WF_vars(BreakDeadlock(w))

CallFairSpec == Spec /\ CallFairness

\* Also, time passes; some worker keeps claiming every checkpoint and settles
\* what it executes.
FairSpec ==
    /\ CallFairSpec
    /\ WF_vars(Tick)
    /\ \A w \in Workers :
          /\ SF_vars(CallSettle(w))
          /\ \A c \in Checkpoints : SF_vars(EarlierDone(c) /\ CallClaim(w, c))
    /\ SF_vars(\E w \in Workers : CallStart(w))

-----------------------------------------------------------------------------
(* Properties *)

\* Types: attempt_count stays within max_attempts, as the CHECK constraint of
\* workflow_checkpoints demands of every claim.
TypeOK ==
    /\ execution \in {"absent", "pending", "running", "succeeded", "failed"}
    /\ status \in [Checkpoints -> {"pending", "leased", "retryable", "succeeded", "failed"}]
    /\ attempts \in [Checkpoints -> 0 .. MaxAttempts]
    /\ owner \in [Checkpoints -> Workers \cup {NoWorker}]
    /\ left \in [Checkpoints -> - MaxLag .. Lease + Skew]
    /\ executionLock \in Workers \cup {NoWorker}
    /\ checkpointLock \in [Checkpoints -> Workers \cup {NoWorker}]
    /\ pc \in [Workers -> Stage]
    /\ target \in [Workers -> Checkpoints \cup {0}]
    /\ lag \in [Workers -> - Skew .. MaxLag]
    /\ holding \in [Workers -> Checkpoints \cup {0}]
    /\ mine \in [Workers -> Int]
    /\ claims \in [Checkpoints -> Nat]
    /\ repairs \in [Checkpoints -> 0 .. MaxRepairs]
    /\ faults \in 0 .. MaxFaults

\* Checkpoints advance strictly in order: one that was ever touched has only
\* succeeded ones before it, whatever claims, settles and repairs interleave.
StrictOrder ==
    \A c \in Checkpoints : status[c] # "pending" =>
        \A d \in Checkpoints : d < c => status[d] = "succeeded"

\* The execution's status, written by three calls under opposite lock orders,
\* is always the one its checkpoints imply.
ExecutionAgrees ==
    /\ execution = "succeeded" <=> \A c \in Checkpoints : status[c] = "succeeded"
    /\ execution = "failed" <=> \E c \in Checkpoints : status[c] = "failed"
    /\ execution \in {"absent", "pending"} => \A c \in Checkpoints : claims[c] = 0

\* Until the last Skew units of a worker's lease nobody else has the checkpoint:
\* it has not been reclaimed, settled or repaired behind its back, although the
\* instants compared were stamped by callers on clocks of their own.
LeaseIsExclusive ==
    \A w \in Workers : holding[w] # 0 /\ mine[w] > Skew =>
        status[holding[w]] = "leased" /\ owner[holding[w]] = w

\* Every max_attempts claims after the first round cost an explicit repair:
\* crashes, expired leases and aborted calls grant no further attempt.
AttemptsNeedRepairs ==
    \A c \in Checkpoints : claims[c] <= MaxAttempts * (repairs[c] + 1)

\* A succeeded checkpoint, and a succeeded execution, stay so.
SuccessIsFinal ==
    [][/\ execution = "succeeded" => execution' = "succeeded"
       /\ \A c \in Checkpoints : status[c] = "succeeded" => status'[c] = "succeeded"]_vars

\* Every call ends, although claims and settles lock in opposite orders.
CallsEnd == \A w \in Workers : pc[w] # "idle" ~> pc[w] = "idle"

\* What the module catalogue promises, "resume deterministically after
\* failure": a started execution is in the end succeeded or failed, and failed
\* is what a repair can resume from.
ResumesOrFails == execution = "pending" ~> execution \in {"succeeded", "failed"}

=============================================================================
