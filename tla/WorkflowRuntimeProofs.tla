----------------------- MODULE WorkflowRuntimeProofs -----------------------
(***************************************************************************)
(* Theorems about WorkflowRuntime, for any number of workers, checkpoints, *)
(* attempts, repairs and faults.                                           *)
(***************************************************************************)
EXTENDS WorkflowRuntime, TLAPS

\* A call that waits for or holds a row lock names a checkpoint; a settlement
\* that has passed its checks still holds the checkpoint it found leased.
CallsAreSound ==
    \A w \in Workers :
        /\ pc[w] \notin {"idle", "start"} => target[w] \in Checkpoints
        /\ pc[w] = "settle_locked" =>
              checkpointLock[target[w]] = w /\ status[target[w]] = "leased"

\* The claims granted are those of the repaired rounds and of this one.
Budget ==
    \A c \in Checkpoints : claims[c] <= MaxAttempts * repairs[c] + attempts[c]

IInv == TypeOK /\ CallsAreSound /\ StrictOrder /\ Budget

\* One more repair allows one more round of attempts.
LEMMA Rounds ==
    ASSUME NEW m \in Nat, NEW r \in Nat
    PROVE  m * r \in Nat /\ m * (r + 1) = m * r + m
  OBVIOUS

\* What the end of a transaction leaves.
LEMMA EndFacts ==
    ASSUME TypeOK, NEW w \in Workers, End(w)
    PROVE  /\ pc' \in [Workers -> Stage]
           /\ target' \in [Workers -> Checkpoints \cup {0}]
           /\ lag' \in [Workers -> - Skew .. MaxLag]
           /\ executionLock' \in Workers \cup {NoWorker}
           /\ checkpointLock' \in [Checkpoints -> Workers \cup {NoWorker}]
           /\ pc'[w] = "idle"
           /\ \A v \in Workers \ {w} : pc'[v] = pc[v] /\ target'[v] = target[v]
           /\ \A c \in Checkpoints : checkpointLock[c] # w =>
                  checkpointLock'[c] = checkpointLock[c]
  BY ConstantsAssumption DEF TypeOK, End, Stage

\* The calls that change no table preserve every part of the invariant.
LEMMA QuietSteps ==
    ASSUME IInv, NEW w \in Workers,
           \/ CallStart(w) \/ CallSettle(w)
           \/ \E c \in Checkpoints : CallClaim(w, c) \/ CallRepair(w, c)
           \/ ClaimExecution(w) \/ RepairExecution(w)
    PROVE  IInv'
  <1> USE ConstantsAssumption
  <1>1. ASSUME NEW stage \in {"start", "claim", "settle", "repair"},
               NEW c \in Checkpoints \cup {0}, c = 0 => stage = "start",
               Call(w, stage, c)
        PROVE  IInv'
    <2>1. TypeOK'
      BY <1>1 DEF IInv, TypeOK, Call, tables, locks, work, ghosts, Stage
    <2>2. CallsAreSound'
      BY <1>1 DEF IInv, TypeOK, CallsAreSound, Call, tables, locks
    <2>3. StrictOrder' /\ Budget'
      BY <1>1 DEF IInv, StrictOrder, Budget, Call, tables, ghosts
    <2> QED BY <2>1, <2>2, <2>3 DEF IInv
  <1>2. ASSUME NEW stage \in {"claim_locked", "repair_locked"},
               pc[w] \in {"claim", "repair"}, LockExecution(w, stage)
        PROVE  IInv'
    <2>1. TypeOK'
      BY <1>2 DEF IInv, TypeOK, LockExecution, tables, work, ghosts, Stage
    <2>2. CallsAreSound'
      BY <1>2 DEF IInv, TypeOK, CallsAreSound, LockExecution, tables
    <2>3. StrictOrder' /\ Budget'
      BY <1>2 DEF IInv, StrictOrder, Budget, LockExecution, tables, ghosts
    <2> QED BY <2>1, <2>2, <2>3 DEF IInv
  <1>3. ASSUME Refuse(w)
        PROVE  IInv'
    <2>1. End(w) /\ UNCHANGED <<tables, work, ghosts>>
      BY <1>3 DEF Refuse
    <2>2. TypeOK'
      BY <2>1, EndFacts DEF IInv, TypeOK, tables, work, ghosts
    <2>3. CallsAreSound'
      BY <2>1, EndFacts DEF IInv, TypeOK, CallsAreSound, tables
    <2>4. StrictOrder' /\ Budget'
      BY <2>1 DEF IInv, StrictOrder, Budget, tables, ghosts
    <2> QED BY <2>2, <2>3, <2>4 DEF IInv
  <1>4. CASE CallStart(w)
    BY <1>4, <1>1 DEF CallStart
  <1>5. CASE CallSettle(w)
    <2>1. PICK c \in Checkpoints : c = holding[w]
      BY <1>5 DEF CallSettle, IInv, TypeOK
    <2>2. Call(w, "settle", c)
      BY <1>5, <2>1 DEF CallSettle
    <2>3. c # 0
      BY <2>1 DEF Checkpoints
    <2> QED BY <1>1, <2>2, <2>3
  <1>6. CASE \E c \in Checkpoints : CallClaim(w, c) \/ CallRepair(w, c)
    <2>1. PICK c \in Checkpoints : CallClaim(w, c) \/ CallRepair(w, c)
      BY <1>6
    <2>2. c # 0
      BY DEF Checkpoints
    <2> QED BY <1>1, <2>1, <2>2 DEF CallClaim, CallRepair
  <1>7. CASE ClaimExecution(w)
    BY <1>7, <1>2, <1>3 DEF ClaimExecution
  <1>8. CASE RepairExecution(w)
    BY <1>8, <1>2 DEF RepairExecution
  <1> QED BY <1>4, <1>5, <1>6, <1>7, <1>8

\* So do the ends of transactions that write nothing, and time.
LEMMA Rollbacks ==
    ASSUME IInv, NEW w \in Workers,
           Refuse(w) \/ Abort(w) \/ Crash(w) \/ StartExecution(w)
    PROVE  IInv'
  <1> USE ConstantsAssumption
  <1>1. End(w) /\ UNCHANGED <<status, attempts, owner, left, claims, repairs>>
    BY DEF Refuse, Abort, Crash, StartExecution, tables, ghosts
  <1>2. /\ execution' \in {"absent", "pending", "running", "succeeded", "failed"}
        /\ holding' \in [Workers -> Checkpoints \cup {0}]
        /\ mine' \in [Workers -> Int]
        /\ faults' \in 0 .. MaxFaults
    <2>1. CASE Refuse(w)
      BY <2>1 DEF Refuse, tables, work, ghosts, IInv, TypeOK
    <2>2. CASE Abort(w)
      BY <2>2 DEF Abort, tables, work, IInv, TypeOK
    <2>3. CASE Crash(w)
      BY <2>3 DEF Crash, tables, IInv, TypeOK
    <2>4. CASE StartExecution(w)
      BY <2>4 DEF StartExecution, work, ghosts, IInv, TypeOK
    <2> QED BY <2>1, <2>2, <2>3, <2>4
  <1>3. TypeOK'
    BY <1>1, <1>2, EndFacts DEF IInv, TypeOK
  <1>4. CallsAreSound'
    BY <1>1, EndFacts DEF IInv, TypeOK, CallsAreSound
  <1>5. StrictOrder' /\ Budget'
    BY <1>1 DEF IInv, StrictOrder, Budget
  <1> QED BY <1>3, <1>4, <1>5 DEF IInv

\* A claim is granted in order, within the budget, and off a locked row.
LEMMA ClaimStep ==
    ASSUME IInv, NEW w \in Workers, ClaimCheckpoint(w)
    PROVE  IInv'
  <1> USE ConstantsAssumption
  <1>1. PICK c \in Checkpoints : c = target[w]
    BY DEF ClaimCheckpoint, IInv, CallsAreSound
  <1>2. CASE ~ Claimable(w, c)
    BY <1>1, <1>2, Rollbacks DEF ClaimCheckpoint, RefuseClaim
  <1>3. CASE Claimable(w, c)
    <2>1. /\ checkpointLock[c] = NoWorker
          /\ status' = [status EXCEPT ![c] = "leased"]
          /\ attempts' = [attempts EXCEPT ![c] = NextAttempt(c)]
          /\ owner' = [owner EXCEPT ![c] = w]
          /\ left' = [left EXCEPT ![c] = Lease - lag[w]]
          /\ execution' = "running"
          /\ holding' = [holding EXCEPT ![w] = c]
          /\ mine' = [mine EXCEPT ![w] = Lease - lag[w]]
          /\ claims' = [claims EXCEPT ![c] = @ + 1]
          /\ End(w)
          /\ repairs' = repairs /\ faults' = faults
      BY <1>1, <1>3 DEF ClaimCheckpoint
    <2>2. /\ EarlierDone(c)
          /\ status[c] \notin {"succeeded", "failed"}
          /\ attempts[c] < MaxAttempts
      BY <1>3 DEF Claimable, Exhausted, IInv, TypeOK
    <2>3. TypeOK'
      <3>1. attempts' \in [Checkpoints -> 0 .. MaxAttempts] /\ claims' \in [Checkpoints -> Nat]
        BY <2>1, <2>2 DEF IInv, TypeOK, NextAttempt
      <3>2. left' \in [Checkpoints -> - MaxLag .. Lease + Skew] /\ mine' \in [Workers -> Int]
        BY <2>1 DEF IInv, TypeOK
      <3> QED BY <2>1, <3>1, <3>2, EndFacts DEF IInv, TypeOK
    <2>4. CallsAreSound'
      BY <2>1, EndFacts DEF IInv, TypeOK, CallsAreSound
    <2>5. StrictOrder'
      <3>1. \A d \in Checkpoints : d < c => status[d] = "succeeded"
        BY <2>2 DEF EarlierDone, Checkpoints
      <3>2. \A d \in Checkpoints : d \in Int
        BY DEF Checkpoints
      <3> QED BY <2>1, <2>2, <3>1, <3>2 DEF IInv, TypeOK, StrictOrder
    <2>6. Budget'
      <3> SUFFICES ASSUME NEW d \in Checkpoints
                   PROVE  claims'[d] <= MaxAttempts * repairs'[d] + attempts'[d]
        BY DEF Budget
      <3>1. MaxAttempts * repairs[d] \in Nat
        BY Rounds DEF IInv, TypeOK
      <3> QED BY <2>1, <3>1 DEF IInv, TypeOK, Budget, NextAttempt
    <2> QED BY <2>3, <2>4, <2>5, <2>6 DEF IInv
  <1> QED BY <1>2, <1>3

\* A settlement writes the row it holds, which is leased and thus the first
\* that has not succeeded.
LEMMA SettleSteps ==
    ASSUME IInv, NEW w \in Workers, SettleCheckpoint(w) \/ SettleExecution(w)
    PROVE  IInv'
  <1> USE ConstantsAssumption
  <1>1. PICK c \in Checkpoints : c = target[w]
    BY DEF SettleCheckpoint, SettleExecution, IInv, CallsAreSound
  <1>2. CASE SettleCheckpoint(w) /\ HoldsLease(w, c)
    <2>1. /\ checkpointLock[c] = NoWorker
          /\ checkpointLock' = [checkpointLock EXCEPT ![c] = w]
          /\ pc' = [pc EXCEPT ![w] = "settle_locked"]
          /\ status[c] = "leased"
          /\ UNCHANGED <<tables, executionLock, target, lag, work, ghosts>>
      BY <1>1, <1>2 DEF SettleCheckpoint, LockCheckpoint, HoldsLease
    <2>2. TypeOK'
      BY <2>1 DEF IInv, TypeOK, Stage, tables, work, ghosts
    <2>3. CallsAreSound'
      BY <1>1, <2>1 DEF IInv, TypeOK, CallsAreSound, tables
    <2>4. StrictOrder' /\ Budget'
      BY <2>1 DEF IInv, StrictOrder, Budget, tables, ghosts
    <2> QED BY <2>2, <2>3, <2>4 DEF IInv
  <1>3. CASE SettleCheckpoint(w) /\ ~ HoldsLease(w, c)
    <2>1. /\ holding' = [holding EXCEPT ![w] = 0]
          /\ mine' = [mine EXCEPT ![w] = 0]
          /\ End(w)
          /\ UNCHANGED <<tables, ghosts>>
      BY <1>1, <1>3 DEF SettleCheckpoint
    <2>2. TypeOK'
      BY <2>1, EndFacts DEF IInv, TypeOK, tables, ghosts
    <2>3. CallsAreSound'
      BY <2>1, EndFacts DEF IInv, TypeOK, CallsAreSound, tables
    <2>4. StrictOrder' /\ Budget'
      BY <2>1 DEF IInv, StrictOrder, Budget, tables, ghosts
    <2> QED BY <2>2, <2>3, <2>4 DEF IInv
  <1>4. CASE SettleExecution(w)
    <2>1. PICK s \in {"succeeded", "retryable", "failed"} :
                status' = [status EXCEPT ![c] = s]
      BY <1>1, <1>4 DEF SettleExecution
    <2>2. /\ pc[w] = "settle_locked"
          /\ owner' = [owner EXCEPT ![c] = NoWorker]
          /\ left' = [left EXCEPT ![c] = - MaxLag]
          /\ execution' \in {"succeeded", "running", "failed"}
          /\ holding' = [holding EXCEPT ![w] = 0]
          /\ mine' = [mine EXCEPT ![w] = 0]
          /\ End(w)
          /\ UNCHANGED <<attempts, ghosts>>
      BY <1>1, <1>4 DEF SettleExecution
    <2>3. checkpointLock[c] = w /\ status[c] = "leased"
      BY <1>1, <2>2 DEF IInv, CallsAreSound
    <2>4. TypeOK'
      BY <2>1, <2>2, EndFacts DEF IInv, TypeOK, ghosts
    <2>5. CallsAreSound'
      BY <1>1, <2>1, <2>2, <2>3, EndFacts DEF IInv, TypeOK, CallsAreSound
    <2>6. StrictOrder'
      BY <2>1, <2>3 DEF IInv, TypeOK, StrictOrder
    <2>7. Budget'
      BY <2>2 DEF IInv, Budget, ghosts
    <2> QED BY <2>4, <2>5, <2>6, <2>7 DEF IInv
  <1> QED BY <1>2, <1>3, <1>4

\* A repair opens one more round for a failed checkpoint, behind which nothing
\* has begun.
LEMMA RepairStep ==
    ASSUME IInv, NEW w \in Workers, RecordRepair(w)
    PROVE  IInv'
  <1> USE ConstantsAssumption
  <1>1. PICK c \in Checkpoints : c = target[w]
    BY DEF RecordRepair, IInv, CallsAreSound
  <1>2. CASE ~ (Repairable(c) /\ repairs[c] < MaxRepairs)
    BY <1>1, <1>2, Rollbacks DEF RecordRepair
  <1>3. CASE Repairable(c) /\ repairs[c] < MaxRepairs
    <2>1. /\ checkpointLock[c] = NoWorker
          /\ repairs' = [repairs EXCEPT ![c] = @ + 1]
          /\ status' = [status EXCEPT ![c] = "pending"]
          /\ attempts' = [attempts EXCEPT ![c] = 0]
          /\ execution' = "running"
          /\ End(w)
          /\ UNCHANGED <<owner, left, work, claims, faults>>
      BY <1>1, <1>3 DEF RecordRepair
    <2>2. status[c] = "failed" /\ repairs[c] < MaxRepairs
      BY <1>3 DEF Repairable
    <2>3. TypeOK'
      BY <2>1, <2>2, EndFacts DEF IInv, TypeOK, work
    <2>4. CallsAreSound'
      BY <2>1, EndFacts DEF IInv, TypeOK, CallsAreSound
    <2>5. StrictOrder'
      BY <2>1, <2>2 DEF IInv, TypeOK, StrictOrder
    <2>6. Budget'
      <3> SUFFICES ASSUME NEW d \in Checkpoints
                   PROVE  claims'[d] <= MaxAttempts * repairs'[d] + attempts'[d]
        BY DEF Budget
      <3>1. CASE d # c
        BY <2>1, <3>1 DEF IInv, TypeOK, Budget
      <3>2. CASE d = c
        <4>1. MaxAttempts * (repairs[c] + 1) = MaxAttempts * repairs[c] + MaxAttempts
          BY Rounds DEF IInv, TypeOK
        <4>2. MaxAttempts * repairs[c] \in Nat
          BY Rounds DEF IInv, TypeOK
        <4>3. claims'[c] = claims[c] /\ repairs'[c] = repairs[c] + 1 /\ attempts'[c] = 0
          BY <2>1 DEF IInv, TypeOK
        <4>4. claims[c] <= MaxAttempts * repairs[c] + attempts[c] /\ attempts[c] <= MaxAttempts
          BY DEF IInv, TypeOK, Budget
        <4> QED BY <3>2, <4>1, <4>2, <4>3, <4>4 DEF IInv, TypeOK
      <3> QED BY <3>1, <3>2
    <2> QED BY <2>3, <2>4, <2>5, <2>6 DEF IInv
  <1> QED BY <1>2, <1>3

\* Time only moves leases and timestamps.
LEMMA TickStep ==
    ASSUME IInv, Tick
    PROVE  IInv'
  <1> USE ConstantsAssumption
  <1>1. TypeOK'
    BY DEF IInv, TypeOK, Tick, locks, ghosts
  <1>2. CallsAreSound' /\ StrictOrder' /\ Budget'
    BY DEF IInv, CallsAreSound, StrictOrder, Budget, Tick, locks, ghosts
  <1> QED BY <1>1, <1>2 DEF IInv

\* The inductive invariant of the workflow runtime.
THEOREM RuntimeInvariant == Spec => []IInv
  <1>1. Init => IInv
    BY ConstantsAssumption, Rounds
    DEF Init, IInv, TypeOK, CallsAreSound, StrictOrder, Budget, Stage, Checkpoints
  <1>2. ASSUME IInv, [Next]_vars
        PROVE  IInv'
    <2>1. CASE UNCHANGED vars
      BY <1>2, <2>1 DEF IInv, TypeOK, CallsAreSound, StrictOrder, Budget,
                        vars, tables, locks, calls, work, ghosts
    <2>2. CASE Tick
      BY <1>2, <2>2, TickStep
    <2>3. ASSUME NEW w \in Workers,
                 \/ CallStart(w) \/ CallSettle(w)
                 \/ \E c \in Checkpoints : CallClaim(w, c) \/ CallRepair(w, c)
                 \/ CallStep(w) \/ BreakDeadlock(w) \/ Abort(w) \/ Crash(w)
          PROVE  IInv'
      BY <1>2, <2>3, QuietSteps, Rollbacks, ClaimStep, SettleSteps, RepairStep
      DEF CallStep, BreakDeadlock
    <2> QED BY <1>2, <2>1, <2>2, <2>3 DEF Next
  <1> QED BY <1>1, <1>2, PTL DEF Spec

\* Type correctness; with it, attempt_count never passes max_attempts.
THEOREM RuntimeTypes == Spec => []TypeOK
  BY RuntimeInvariant, PTL DEF IInv

\* Checkpoints advance strictly in order.
THEOREM CheckpointsAdvanceInOrder == Spec => []StrictOrder
  BY RuntimeInvariant, PTL DEF IInv

\* Further rounds of attempts are paid for with repairs.
THEOREM RoundsCostRepairs == Spec => []AttemptsNeedRepairs
  <1>1. IInv => AttemptsNeedRepairs
    <2> SUFFICES ASSUME IInv, NEW c \in Checkpoints
                 PROVE  claims[c] <= MaxAttempts * (repairs[c] + 1)
      BY DEF AttemptsNeedRepairs
    <2>1. /\ MaxAttempts * repairs[c] \in Nat
          /\ MaxAttempts * (repairs[c] + 1) = MaxAttempts * repairs[c] + MaxAttempts
      BY ConstantsAssumption, Rounds DEF IInv, TypeOK
    <2> QED BY <2>1, ConstantsAssumption DEF IInv, TypeOK, Budget
  <1> QED BY <1>1, RuntimeInvariant, PTL

-----------------------------------------------------------------------------
(* Leases *)

\* A settlement that has passed its checks is the owner's.
SettlerOwns ==
    \A w \in Workers : pc[w] = "settle_locked" => owner[target[w]] = w

\* A worker whose lease has more than Skew left has the row's lease: what the
\* row says is left of it is what the worker was granted.
GrantedIsRecorded ==
    \A w \in Workers : holding[w] # 0 /\ mine[w] > Skew =>
        /\ status[holding[w]] = "leased"
        /\ owner[holding[w]] = w
        /\ left[holding[w]] = mine[w]

LeaseInv == SettlerOwns /\ GrantedIsRecorded

\* No caller's clock is so far ahead that it takes such a lease for expired.
LEMMA LeasedIsNotClaimable ==
    ASSUME IInv, GrantedIsRecorded, NEW v \in Workers, NEW w \in Workers,
           holding[w] # 0, mine[w] > Skew
    PROVE  ~ Claimable(v, holding[w])
  <1>1. holding[w] \in Checkpoints /\ lag[v] >= - Skew /\ mine[w] \in Int /\ lag[v] \in Int
    BY ConstantsAssumption DEF IInv, TypeOK
  <1>2. status[holding[w]] = "leased" /\ left[holding[w]] = mine[w]
    BY DEF GrantedIsRecorded
  <1>3. ActiveLease(v, holding[w])
    BY <1>1, <1>2, ConstantsAssumption DEF ActiveLease
  <1> QED BY <1>3 DEF Claimable

\* Every step preserves the two facts.
LEMMA LeaseStep ==
    ASSUME IInv, LeaseInv, Next
    PROVE  LeaseInv'
  <1> USE ConstantsAssumption
  <1>1. CASE Tick
    <2>1. SettlerOwns'
      BY <1>1 DEF LeaseInv, SettlerOwns, Tick
    <2>2. GrantedIsRecorded'
      <3> SUFFICES ASSUME NEW w \in Workers, holding'[w] # 0, mine'[w] > Skew
                   PROVE  /\ status'[holding'[w]] = "leased"
                          /\ owner'[holding'[w]] = w
                          /\ left'[holding'[w]] = mine'[w]
        BY DEF GrantedIsRecorded
      <3>1. holding'[w] = holding[w] /\ holding[w] \in Checkpoints /\ mine[w] \in Int
        BY <1>1 DEF Tick, IInv, TypeOK
      <3>2. mine'[w] = mine[w] - 1 /\ mine[w] > Skew /\ mine[w] > 0
        BY <1>1, <3>1 DEF Tick, IInv, TypeOK
      <3>3. /\ status[holding[w]] = "leased"
            /\ owner[holding[w]] = w
            /\ left[holding[w]] = mine[w]
        BY <3>1, <3>2 DEF LeaseInv, GrantedIsRecorded
      <3> QED BY <1>1, <3>1, <3>2, <3>3 DEF Tick
    <2> QED BY <2>1, <2>2 DEF LeaseInv
  <1>2. ASSUME NEW v \in Workers, ClaimCheckpoint(v), Claimable(v, target[v])
        PROVE  LeaseInv'
    <2>1. PICK c \in Checkpoints : c = target[v]
      BY <1>2 DEF ClaimCheckpoint, IInv, CallsAreSound
    <2>2. /\ checkpointLock[c] = NoWorker
          /\ status' = [status EXCEPT ![c] = "leased"]
          /\ owner' = [owner EXCEPT ![c] = v]
          /\ left' = [left EXCEPT ![c] = Lease - lag[v]]
          /\ holding' = [holding EXCEPT ![v] = c]
          /\ mine' = [mine EXCEPT ![v] = Lease - lag[v]]
          /\ End(v)
      BY <1>2, <2>1 DEF ClaimCheckpoint
    <2>3. SettlerOwns'
      BY <2>1, <2>2, EndFacts DEF IInv, TypeOK, CallsAreSound, LeaseInv, SettlerOwns
    <2>4. \A w \in Workers : holding[w] # 0 /\ mine[w] > Skew => holding[w] # c
      BY <1>2, <2>1, LeasedIsNotClaimable DEF LeaseInv
    <2>5. GrantedIsRecorded'
      BY <2>2, <2>4 DEF IInv, TypeOK, LeaseInv, GrantedIsRecorded
    <2> QED BY <2>3, <2>5 DEF LeaseInv
  <1>3. ASSUME NEW v \in Workers, SettleExecution(v)
        PROVE  LeaseInv'
    <2>1. PICK c \in Checkpoints : c = target[v]
      BY <1>3 DEF SettleExecution, IInv, CallsAreSound
    <2>2. PICK s : status' = [status EXCEPT ![c] = s]
      BY <1>3, <2>1 DEF SettleExecution
    <2>3. /\ pc[v] = "settle_locked"
          /\ owner' = [owner EXCEPT ![c] = NoWorker]
          /\ left' = [left EXCEPT ![c] = - MaxLag]
          /\ holding' = [holding EXCEPT ![v] = 0]
          /\ mine' = [mine EXCEPT ![v] = 0]
          /\ End(v)
      BY <1>3, <2>1 DEF SettleExecution
    <2>4. owner[c] = v /\ checkpointLock[c] = v
      BY <2>1, <2>3 DEF IInv, CallsAreSound, LeaseInv, SettlerOwns
    <2>5. SettlerOwns'
      BY <2>1, <2>3, <2>4, EndFacts DEF IInv, TypeOK, CallsAreSound, LeaseInv, SettlerOwns
    <2>6. \A w \in Workers \ {v} : holding[w] # 0 /\ mine[w] > Skew => holding[w] # c
      BY <2>4 DEF LeaseInv, GrantedIsRecorded
    <2>7. GrantedIsRecorded'
      BY <2>2, <2>3, <2>6 DEF IInv, TypeOK, LeaseInv, GrantedIsRecorded
    <2> QED BY <2>5, <2>7 DEF LeaseInv
  <1>4. ASSUME NEW v \in Workers, SettleCheckpoint(v)
        PROVE  LeaseInv'
    <2>1. PICK c \in Checkpoints : c = target[v]
      BY <1>4 DEF SettleCheckpoint, IInv, CallsAreSound
    <2>2. CASE HoldsLease(v, c)
      <3>1. /\ pc' = [pc EXCEPT ![v] = "settle_locked"]
            /\ owner[c] = v
            /\ UNCHANGED <<tables, target, work>>
        BY <1>4, <2>1, <2>2 DEF SettleCheckpoint, LockCheckpoint, HoldsLease
      <3> QED BY <2>1, <3>1 DEF IInv, TypeOK, LeaseInv, SettlerOwns, GrantedIsRecorded, tables, work
    <2>3. CASE ~ HoldsLease(v, c)
      <3>1. /\ holding' = [holding EXCEPT ![v] = 0]
            /\ End(v)
            /\ mine' = [mine EXCEPT ![v] = 0]
            /\ UNCHANGED tables
        BY <1>4, <2>1, <2>3 DEF SettleCheckpoint
      <3>2. SettlerOwns'
        BY <3>1, EndFacts DEF IInv, LeaseInv, SettlerOwns, tables
      <3>3. GrantedIsRecorded'
        BY <3>1 DEF IInv, TypeOK, LeaseInv, GrantedIsRecorded, tables
      <3> QED BY <3>2, <3>3 DEF LeaseInv
    <2> QED BY <2>2, <2>3
  <1>5. ASSUME NEW v \in Workers, RecordRepair(v), Repairable(target[v])
        PROVE  LeaseInv'
    <2>1. PICK c \in Checkpoints : c = target[v]
      BY <1>5 DEF RecordRepair, IInv, CallsAreSound
    <2>2. CASE repairs[c] < MaxRepairs
      <3>1. /\ status' = [status EXCEPT ![c] = "pending"]
            /\ End(v)
            /\ status[c] = "failed"
            /\ UNCHANGED <<owner, left, work>>
        BY <1>5, <2>1, <2>2 DEF RecordRepair, Repairable
      <3>2. SettlerOwns'
        BY <3>1, EndFacts DEF IInv, LeaseInv, SettlerOwns
      <3>3. GrantedIsRecorded'
        BY <3>1 DEF IInv, TypeOK, LeaseInv, GrantedIsRecorded, work
      <3> QED BY <3>2, <3>3 DEF LeaseInv
    <2>3. CASE ~ (repairs[c] < MaxRepairs)
      <3>1. End(v) /\ UNCHANGED <<tables, work>>
        BY <1>5, <2>1, <2>3 DEF RecordRepair, Refuse
      <3> QED BY <3>1, EndFacts DEF IInv, LeaseInv, SettlerOwns, GrantedIsRecorded, tables, work
    <2> QED BY <2>2, <2>3
  <1>6. ASSUME NEW v \in Workers,
               Refuse(v) \/ Abort(v) \/ Crash(v) \/ StartExecution(v)
        PROVE  LeaseInv'
    <2>1. /\ End(v)
          /\ UNCHANGED <<status, owner, left>>
          /\ \/ UNCHANGED work
             \/ /\ holding' = [holding EXCEPT ![v] = 0]
                /\ mine' = [mine EXCEPT ![v] = 0]
      BY <1>6 DEF Refuse, Abort, Crash, StartExecution, tables
    <2>2. SettlerOwns'
      BY <2>1, EndFacts DEF IInv, LeaseInv, SettlerOwns
    <2>3. GrantedIsRecorded'
      BY <2>1 DEF IInv, TypeOK, LeaseInv, GrantedIsRecorded, work
    <2> QED BY <2>2, <2>3 DEF LeaseInv
  <1>7. ASSUME NEW v \in Workers, NEW stage \in Stage \ {"settle_locked"},
               NEW c, Call(v, stage, c)
        PROVE  LeaseInv'
    <2>1. pc' = [pc EXCEPT ![v] = stage] /\ target' = [target EXCEPT ![v] = c]
      BY <1>7 DEF Call
    <2>2. UNCHANGED <<status, owner, left, holding, mine>>
      BY <1>7 DEF Call, tables, work
    <2> QED BY <2>1, <2>2 DEF IInv, TypeOK, LeaseInv, SettlerOwns, GrantedIsRecorded
  <1>8. ASSUME NEW v \in Workers, NEW stage \in Stage \ {"settle_locked"},
               LockExecution(v, stage)
        PROVE  LeaseInv'
    BY <1>8 DEF LockExecution, IInv, TypeOK, LeaseInv, SettlerOwns, GrantedIsRecorded, tables, work
  <1>9. ASSUME NEW v \in Workers,
               \/ CallStart(v) \/ CallSettle(v)
               \/ \E c \in Checkpoints : CallClaim(v, c) \/ CallRepair(v, c)
               \/ CallStep(v) \/ BreakDeadlock(v) \/ Abort(v) \/ Crash(v)
        PROVE  LeaseInv'
    <2>1. CASE CallStart(v) \/ CallSettle(v)
      BY <2>1, <1>7 DEF CallStart, CallSettle, Stage
    <2>2. CASE \E c \in Checkpoints : CallClaim(v, c) \/ CallRepair(v, c)
      BY <2>2, <1>7 DEF CallClaim, CallRepair, Stage
    <2>3. CASE BreakDeadlock(v) \/ Abort(v) \/ Crash(v) \/ StartExecution(v)
      BY <2>3, <1>6 DEF BreakDeadlock
    <2>4. CASE ClaimExecution(v) \/ RepairExecution(v)
      BY <2>4, <1>6, <1>8 DEF ClaimExecution, RepairExecution, Stage
    <2>5. CASE ClaimCheckpoint(v)
      BY <2>5, <1>2, <1>6 DEF ClaimCheckpoint, RefuseClaim
    <2>6. CASE SettleCheckpoint(v) \/ SettleExecution(v)
      BY <2>6, <1>3, <1>4
    <2>7. CASE RecordRepair(v)
      BY <2>7, <1>5, <1>6 DEF RecordRepair
    <2> QED BY <1>9, <2>1, <2>2, <2>3, <2>4, <2>5, <2>6, <2>7 DEF CallStep
  <1> QED BY <1>1, <1>9 DEF Next

\* Until the last Skew units of its lease a worker has its checkpoint alone, for
\* any skew of the callers' clocks.
THEOREM LeasesAreExclusive == Spec => []LeaseIsExclusive
  <1>1. Init => LeaseInv
    BY DEF Init, LeaseInv, SettlerOwns, GrantedIsRecorded
  <1>2. ASSUME IInv, LeaseInv, [Next]_vars
        PROVE  LeaseInv'
    <2>1. CASE UNCHANGED vars
      BY <1>2, <2>1 DEF LeaseInv, SettlerOwns, GrantedIsRecorded, vars, tables, calls, work
    <2> QED BY <1>2, <2>1, LeaseStep
  <1>3. LeaseInv => LeaseIsExclusive
    BY DEF LeaseInv, GrantedIsRecorded, LeaseIsExclusive
  <1> QED BY <1>1, <1>2, <1>3, RuntimeInvariant, PTL DEF Spec

-----------------------------------------------------------------------------
(* The agreement of the two tables *)

\* What a step may do to the two tables, apart from leases.
Started == execution = "absent" /\ execution' = "pending" /\ UNCHANGED <<status, claims>>
Granted(c) ==
    /\ EarlierDone(c)
    /\ status[c] \notin {"succeeded", "failed"}
    /\ status' = [status EXCEPT ![c] = "leased"]
    /\ execution' = "running"
Settled(c) ==
    /\ status[c] = "leased"
    /\ \/ /\ status' = [status EXCEPT ![c] = "succeeded"]
          /\ execution' = IF Remaining(c) = {} THEN "succeeded" ELSE "running"
       \/ status' = [status EXCEPT ![c] = "retryable"] /\ execution' = "running"
       \/ status' = [status EXCEPT ![c] = "failed"] /\ execution' = "failed"
Repaired(c) ==
    /\ status[c] = "failed"
    /\ status' = [status EXCEPT ![c] = "pending"]
    /\ execution' = "running"

\* Every step of the runtime is one of these, or leaves the tables alone.
LEMMA TableSteps ==
    ASSUME IInv, [Next]_vars
    PROVE  \/ UNCHANGED <<execution, status, claims>>
           \/ Started
           \/ \E c \in Checkpoints : Granted(c) \/ Settled(c) \/ Repaired(c)
  <1> DEFINE Idle == UNCHANGED <<execution, status, claims>>
  <1> USE DEF tables, ghosts
  <1>1. ASSUME NEW w \in Workers, Refuse(w) \/ Abort(w) \/ Crash(w) PROVE Idle
    BY <1>1 DEF Refuse, Abort, Crash
  <1>2. ASSUME NEW w \in Workers,
               \/ CallStart(w) \/ CallSettle(w)
               \/ \E c \in Checkpoints : CallClaim(w, c) \/ CallRepair(w, c)
        PROVE  Idle
    BY <1>2 DEF CallStart, CallSettle, CallClaim, CallRepair, Call
  <1>3. ASSUME NEW w \in Workers, StartExecution(w) PROVE Idle \/ Started
    BY <1>3 DEF StartExecution, Started
  <1>4. ASSUME NEW w \in Workers, ClaimExecution(w) \/ RepairExecution(w) \/ SettleCheckpoint(w)
        PROVE  Idle
    BY <1>1, <1>4
    DEF ClaimExecution, RepairExecution, SettleCheckpoint, LockExecution, LockCheckpoint
  <1>5. ASSUME NEW w \in Workers, ClaimCheckpoint(w)
        PROVE  Idle \/ \E c \in Checkpoints : Granted(c)
    <2>1. target[w] \in Checkpoints
      BY <1>5 DEF ClaimCheckpoint, IInv, CallsAreSound
    <2>2. CASE Claimable(w, target[w])
      BY <1>5, <2>1, <2>2 DEF ClaimCheckpoint, Claimable, Granted
    <2>3. CASE ~ Claimable(w, target[w])
      BY <1>1, <1>5, <2>3 DEF ClaimCheckpoint, RefuseClaim
    <2> QED BY <2>2, <2>3
  <1>6. ASSUME NEW w \in Workers, SettleExecution(w)
        PROVE  \E c \in Checkpoints : Settled(c)
    <2>1. target[w] \in Checkpoints /\ status[target[w]] = "leased"
      BY <1>6 DEF SettleExecution, IInv, CallsAreSound
    <2> QED BY <1>6, <2>1 DEF SettleExecution, Settled
  <1>7. ASSUME NEW w \in Workers, RecordRepair(w)
        PROVE  Idle \/ \E c \in Checkpoints : Repaired(c)
    <2>1. target[w] \in Checkpoints
      BY <1>7 DEF RecordRepair, IInv, CallsAreSound
    <2> QED BY <1>1, <1>7, <2>1 DEF RecordRepair, Repairable, Repaired
  <1>8. CASE Tick \/ UNCHANGED vars
    BY <1>8 DEF Tick, vars
  <1> QED BY <1>1, <1>2, <1>3, <1>4, <1>5, <1>6, <1>7, <1>8 DEF Next, CallStep, BreakDeadlock

\* Strict order leaves at most one checkpoint that is neither pending nor succeeded.
LEMMA OneInProgress ==
    ASSUME StrictOrder, NEW c \in Checkpoints, NEW d \in Checkpoints, c # d,
           status[c] \notin {"pending", "succeeded"}
    PROVE  status[d] \in {"pending", "succeeded"}
  <1>1. c \in Int /\ d \in Int
    BY ConstantsAssumption DEF Checkpoints
  <1> QED BY <1>1 DEF StrictOrder

LEMMA AgreementStep ==
    ASSUME IInv, ExecutionAgrees, [Next]_vars PROVE ExecutionAgrees'
  <1> USE ConstantsAssumption
  <1>1. 1 \in Checkpoints
    BY DEF Checkpoints
  <1>2. CASE UNCHANGED <<execution, status, claims>> \/ Started
    BY <1>2 DEF ExecutionAgrees, Started
  <1>3. ASSUME NEW c \in Checkpoints, Granted(c) PROVE ExecutionAgrees'
    <2>1. \A d \in Checkpoints : status[d] # "failed"
      <3> SUFFICES ASSUME NEW d \in Checkpoints, status[d] = "failed" PROVE FALSE
        OBVIOUS
      <3>1. c # d
        BY <1>3 DEF Granted
      <3>2. c \in Int /\ d \in Int
        BY DEF Checkpoints
      <3>3. CASE d < c
        BY <1>3, <3>2, <3>3 DEF Granted, EarlierDone, Checkpoints
      <3>4. CASE c < d
        BY <1>3, <3>4 DEF Granted, IInv, StrictOrder
      <3> QED BY <3>1, <3>2, <3>3, <3>4
    <2> QED BY <1>3, <2>1 DEF Granted, ExecutionAgrees, IInv, TypeOK
  <1>4. ASSUME NEW c \in Checkpoints, Settled(c) PROVE ExecutionAgrees'
    <2>1. \A d \in Checkpoints : status[d] # "failed"
      <3>1. \A d \in Checkpoints : d # c => status[d] \in {"pending", "succeeded"}
        BY <1>4, OneInProgress DEF Settled, IInv
      <3> QED BY <1>4, <3>1 DEF Settled
    <2>2. \A d \in Checkpoints : d # c => status'[d] = status[d]
      BY <1>4 DEF Settled, IInv, TypeOK
    <2>3. CASE status' = [status EXCEPT ![c] = "succeeded"]
               /\ execution' = IF Remaining(c) = {} THEN "succeeded" ELSE "running"
      BY <2>1, <2>2, <2>3 DEF Remaining, ExecutionAgrees, IInv, TypeOK
    <2>4. CASE status' = [status EXCEPT ![c] = "retryable"] /\ execution' = "running"
      BY <2>1, <2>2, <2>4 DEF ExecutionAgrees, IInv, TypeOK
    <2>5. CASE status' = [status EXCEPT ![c] = "failed"] /\ execution' = "failed"
      BY <2>5 DEF ExecutionAgrees, IInv, TypeOK
    <2> QED BY <1>4, <2>3, <2>4, <2>5 DEF Settled
  <1>5. ASSUME NEW c \in Checkpoints, Repaired(c) PROVE ExecutionAgrees'
    <2>1. \A d \in Checkpoints : d # c => status[d] # "failed"
      BY <1>5, OneInProgress DEF Repaired, IInv
    <2> QED BY <1>5, <2>1 DEF Repaired, ExecutionAgrees, IInv, TypeOK
  <1> QED BY <1>2, <1>3, <1>4, <1>5, TableSteps

\* The execution's status is always the one its checkpoints imply.
THEOREM TablesAgree == Spec => []ExecutionAgrees
  <1>1. Init => ExecutionAgrees
    BY ConstantsAssumption DEF Init, ExecutionAgrees, Checkpoints
  <1> QED BY <1>1, AgreementStep, RuntimeInvariant, PTL DEF Spec

\* A succeeded checkpoint, and a succeeded execution, stay so: nothing is leased,
\* failed or claimable in a succeeded execution.
THEOREM SuccessStays == Spec => SuccessIsFinal
  <1> DEFINE Final ==
                 /\ execution = "succeeded" => execution' = "succeeded"
                 /\ \A c \in Checkpoints : status[c] = "succeeded" => status'[c] = "succeeded"
  <1>1. ASSUME IInv, ExecutionAgrees, [Next]_vars PROVE Final
    <2>1. CASE UNCHANGED <<execution, status, claims>> \/ Started
      BY <2>1 DEF Started
    <2>2. ASSUME NEW c \in Checkpoints, Granted(c) \/ Settled(c) \/ Repaired(c) PROVE Final
      <3>1. status[c] # "succeeded" /\ execution # "succeeded"
        BY <1>1, <2>2 DEF Granted, Settled, Repaired, ExecutionAgrees
      <3>2. \A d \in Checkpoints : d # c => status'[d] = status[d]
        BY <1>1, <2>2 DEF Granted, Settled, Repaired, IInv, TypeOK
      <3> QED BY <3>1, <3>2
    <2> QED BY <1>1, <2>1, <2>2, TableSteps
  <1>2. IInv /\ ExecutionAgrees /\ [Next]_vars => [Final]_vars
    BY <1>1
  <1> QED BY <1>2, RuntimeInvariant, TablesAgree, PTL DEF Spec, SuccessIsFinal

=============================================================================
