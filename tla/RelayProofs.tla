---------------------------- MODULE RelayProofs ----------------------------
(***************************************************************************)
(* Theorems about OutboxRelay and PlatformDelivery, for any number of      *)
(* events and workers and any policy.  The safety properties of the relay  *)
(* are not inductive on their own: they rest on what a worker knows of the *)
(* rows in its batch, which Inv states.  The composition with a            *)
(* deduplicating consumer implements ExactlyOnce; the relay's invariant is *)
(* not proved again for it: every step of the composition is a step of the *)
(* relay or leaves the relay alone.                                        *)
(***************************************************************************)
EXTENDS PlatformDelivery, FiniteSetTheorems, TLAPS

\* What pc, batch and current say of each other.
WorkerShape ==
    \A w \in Workers :
        /\ pc[w] = "idle" => batch[w] = {}
        /\ pc[w] \in {"idle", "working"} => current[w] = NoEvent
        /\ pc[w] \in {"delivered", "failed"} => current[w] \in batch[w]

\* What a worker knows of the rows in its batch: within the lease it holds
\* them, and as long as it holds a row its snapshot of the row is current.
LeaseKnowledge ==
    \A w \in Workers : \A e \in batch[w] :
        /\ claimAge[w] > Stale \/ Holds(w, e)
        /\ Holds(w, e) => leaseAge[e] = claimAge[w] /\ snapshot[w][e] = attempts[e]
        /\ snapshot[w][e] < MaxAttempts

\* The attempts column never runs ahead of the failures that happened.
AttemptsEarned ==
    /\ \A e \in Events :
          /\ status[e] \in {"absent", "pending", "claimed"} => attempts[e] < MaxAttempts
          /\ attempts[e] <= failed[e]
    /\ \A w \in Workers :
          pc[w] = "failed" /\ Holds(w, current[w])
              => attempts[current[w]] + 1 <= failed[current[w]]

\* A worker about to record success has delivered.
SuccessEarned == \A w \in Workers : pc[w] = "delivered" => applied[current[w]]

Inv ==
    /\ TypeOK
    /\ WorkerShape
    /\ LeaseKnowledge
    /\ AttemptsEarned
    /\ SuccessEarned
    /\ DeadMeansExhausted
    /\ SentMeansDelivered

-----------------------------------------------------------------------------
\* The relay starts with an empty outbox and idle workers.
LEMMA InitInv == Init => Inv
  BY ConstantsAssumption
     DEF Init, TryCap, Inv, TypeOK, WorkerShape, LeaseKnowledge, AttemptsEarned, SuccessEarned,
         DeadMeansExhausted, SentMeansDelivered, Status, Stage, Holds

\* Committing an enqueue touches a row no worker can have in its batch.
LEMMA EnqueueInv == ASSUME Inv, NEW e \in Events, Enqueue(e) PROVE Inv'
  BY ConstantsAssumption
     DEF Enqueue, Inv, TypeOK, WorkerShape, LeaseKnowledge, AttemptsEarned, SuccessEarned,
         DeadMeansExhausted, SentMeansDelivered, Status, Stage, Holds, workers, history

\* A claim takes the lease only from a worker whose lease is over.
LEMMA ClaimInv == ASSUME Inv, NEW w \in Workers, Claim(w) PROVE Inv'
  <1> USE ConstantsAssumption
  <1>1. PICK b \in SUBSET Events :
           /\ \A e \in b : Ready(e)
           /\ status' = [e \in Events |-> IF e \in b THEN "claimed" ELSE status[e]]
           /\ leasedBy' = [e \in Events |-> IF e \in b THEN w ELSE leasedBy[e]]
           /\ leaseAge' = [e \in Events |-> IF e \in b THEN 0 ELSE leaseAge[e]]
           /\ batch' = [batch EXCEPT ![w] = b]
           /\ snapshot' = [snapshot EXCEPT ![w] =
                              [e \in Events |-> IF e \in b THEN attempts[e] ELSE 0]]
    BY DEF Claim
  <1>2. TypeOK'
    BY <1>1 DEF Claim, Inv, TypeOK, Status, Stage, history
  <1>3. WorkerShape'
    BY <1>1 DEF Claim, Inv, TypeOK, WorkerShape
  <1>4. LeaseKnowledge'
    BY <1>1 DEF Claim, Ready, Inv, TypeOK, LeaseKnowledge, AttemptsEarned, Holds
  <1>5. AttemptsEarned'
    BY <1>1 DEF Claim, Ready, Inv, TypeOK, WorkerShape, AttemptsEarned, Holds, history
  <1>6. SuccessEarned' /\ DeadMeansExhausted' /\ SentMeansDelivered'
    BY <1>1 DEF Claim, Ready, Inv, TypeOK, SuccessEarned, DeadMeansExhausted,
                SentMeansDelivered, history
  <1> QED  BY <1>2, <1>3, <1>4, <1>5, <1>6 DEF Inv

\* A successful delivery changes no row.
LEMMA DeliverOkInv ==
    ASSUME Inv, NEW w \in Workers, NEW e \in Events, DeliverOk(w, e) PROVE Inv'
  <1> USE ConstantsAssumption DEF DeliverOk, Begin, rows
  <1>1. TypeOK'
    BY DEF Inv, TypeOK, Stage, Least, TryCap
  <1>2. WorkerShape' /\ LeaseKnowledge'
    BY DEF Inv, TypeOK, WorkerShape, LeaseKnowledge, Holds
  <1>3. AttemptsEarned'
    BY DEF Inv, TypeOK, AttemptsEarned, Holds
  <1>4. SuccessEarned' /\ DeadMeansExhausted' /\ SentMeansDelivered'
    BY DEF Inv, TypeOK, SuccessEarned, DeadMeansExhausted, SentMeansDelivered
  <1> QED  BY <1>1, <1>2, <1>3, <1>4 DEF Inv

\* A failed delivery changes no row, and is counted before it can be recorded.
LEMMA DeliverFailInv ==
    ASSUME Inv, NEW w \in Workers, NEW e \in Events, DeliverFail(w, e) PROVE Inv'
  <1> USE ConstantsAssumption DEF DeliverFail, Begin, rows
  <1>1. /\ applied' \in [Events -> BOOLEAN]
        /\ \A f \in Events : applied[f] => applied'[f]
    <2>1. CASE applied' = applied
      BY <2>1 DEF Inv, TypeOK
    <2>2. CASE applied' = [applied EXCEPT ![e] = TRUE]
      BY <2>2 DEF Inv, TypeOK
    <2> QED  BY <2>1, <2>2
  <1>2. failed' = [failed EXCEPT ![e] = Least(failed[e] + 1, MaxAttempts)]
    OBVIOUS
  <1>3. /\ failed' \in [Events -> 0 .. MaxAttempts]
        /\ failed'[e] = Least(failed[e] + 1, MaxAttempts)
        /\ \A f \in Events : failed[f] <= failed'[f]
    BY <1>2 DEF Inv, TypeOK, Least
  <1>4. tries' \in [Events -> 0 .. TryCap]
    BY DEF Inv, TypeOK, Least, TryCap
  <1>5. TypeOK'
    BY <1>1, <1>3, <1>4 DEF Inv, TypeOK, Stage
  <1>6. WorkerShape' /\ LeaseKnowledge'
    BY DEF Inv, TypeOK, WorkerShape, LeaseKnowledge, Holds
  <1>7. \A f \in Events : attempts'[f] <= failed'[f]
    BY <1>3 DEF Inv, TypeOK, AttemptsEarned
  <1>8. ASSUME NEW v \in Workers, pc'[v] = "failed", Holds(v, current[v])'
        PROVE  attempts'[current'[v]] + 1 <= failed'[current'[v]]
    <2>1. CASE v = w
      BY <1>3, <1>8, <2>1 DEF Inv, TypeOK, AttemptsEarned, Holds, Least
    <2>2. CASE v # w
      BY <1>3, <1>8, <2>2 DEF Inv, TypeOK, WorkerShape, AttemptsEarned, Holds
    <2> QED  BY <2>1, <2>2
  <1>9. AttemptsEarned'
    BY <1>7, <1>8 DEF Inv, TypeOK, AttemptsEarned
  <1>10. SuccessEarned'
    BY <1>1 DEF Inv, TypeOK, WorkerShape, SuccessEarned
  <1>11. DeadMeansExhausted' /\ SentMeansDelivered'
    BY <1>1, <1>3 DEF Inv, TypeOK, DeadMeansExhausted, SentMeansDelivered
  <1> QED  BY <1>5, <1>6, <1>9, <1>10, <1>11 DEF Inv

\* A settle of a worker that does not hold the row is a no-op; a settle of the
\* holder writes an earned outcome, and the row leaves the batch of the only
\* worker that held it.
LEMMA SettleInv ==
    ASSUME Inv, NEW w \in Workers, pc[w] \in {"delivered", "failed"},
           NEW st \in {"pending", "sent", "dead"}, NEW av \in Int,
           NEW n \in 0 .. MaxAttempts,
           Settle(w, current[w], st, av, n),
           Finish(w),
           Holds(w, current[w]) => /\ n <= failed[current[w]]
                                   /\ st = "pending" => n < MaxAttempts
                                   /\ st = "sent" => applied[current[w]]
                                   /\ st = "dead" => failed[current[w]] = MaxAttempts,
           UNCHANGED <<failed, tries, applied, faults>>,
           reportedDead' \in [Events -> BOOLEAN]
    PROVE  Inv'
  <1> DEFINE e == current[w]
  <1> USE ConstantsAssumption
  <1>1. e \in Events /\ e \in batch[w]
    BY DEF Inv, TypeOK, WorkerShape
  <1>2. /\ batch' = [batch EXCEPT ![w] = @ \ {e}]
        /\ current' = [current EXCEPT ![w] = NoEvent]
        /\ pc' \in [Workers -> Stage]
        /\ \A v \in Workers : v # w => pc'[v] = pc[v]
        /\ pc'[w] \in {"idle", "working"} /\ (pc'[w] = "idle" => batch'[w] = {})
        /\ UNCHANGED <<snapshot, claimAge>>
    BY <1>1 DEF Finish, Inv, TypeOK, Stage
  <1>3. WorkerShape'
    BY <1>1, <1>2 DEF Inv, TypeOK, WorkerShape
  <1>4. CASE ~ Holds(w, e)
    <2>1. UNCHANGED rows
      BY <1>4 DEF Settle
    <2>2. TypeOK' /\ LeaseKnowledge'
      BY <1>2, <2>1 DEF Inv, TypeOK, LeaseKnowledge, Holds, rows
    <2>3. AttemptsEarned' /\ SuccessEarned'
      BY <1>2, <2>1 DEF Inv, TypeOK, AttemptsEarned, SuccessEarned, Holds, rows
    <2>4. DeadMeansExhausted' /\ SentMeansDelivered'
      BY <2>1 DEF Inv, DeadMeansExhausted, SentMeansDelivered, rows
    <2> QED  BY <1>3, <2>2, <2>3, <2>4 DEF Inv
  <1>5. CASE Holds(w, e)
    <2>1. /\ status' = [status EXCEPT ![e] = st]
          /\ attempts' = [attempts EXCEPT ![e] = n]
          /\ availableIn' = [availableIn EXCEPT ![e] = av]
          /\ leasedBy' \in [Events -> Workers \cup {NoWorker}]
          /\ leaseAge' \in [Events -> 0 .. Stale + 1]
          /\ \A f \in Events : f # e => leasedBy'[f] = leasedBy[f] /\ leaseAge'[f] = leaseAge[f]
      <3>1. /\ leasedBy' = [leasedBy EXCEPT ![e] = IF st \in Terminal THEN NoWorker
                                                                   ELSE leasedBy[e]]
            /\ leaseAge' = [leaseAge EXCEPT ![e] = IF st \in Terminal THEN 0
                                                                   ELSE leaseAge[e]]
            /\ status' = [status EXCEPT ![e] = st]
            /\ attempts' = [attempts EXCEPT ![e] = n]
            /\ availableIn' = [availableIn EXCEPT ![e] = av]
        BY <1>5 DEF Settle
      <3>2. 0 \in 0 .. Stale + 1
        OBVIOUS
      <3> QED  BY <1>1, <3>1, <3>2 DEF Inv, TypeOK, Terminal
    <2>2. TypeOK'
      BY <1>2, <2>1 DEF Inv, TypeOK, Status
    <2>3. ASSUME NEW v \in Workers, e \in batch'[v] PROVE claimAge[v] > Stale
      BY <1>1, <1>2, <1>5, <2>3 DEF Inv, TypeOK, LeaseKnowledge, Holds
    <2>4. LeaseKnowledge'
      BY <1>1, <1>2, <2>1, <2>3 DEF Inv, TypeOK, LeaseKnowledge, Holds
    <2>5. \A f \in Events :
             /\ status'[f] \in {"absent", "pending", "claimed"} => attempts'[f] < MaxAttempts
             /\ attempts'[f] <= failed'[f]
      BY <1>1, <1>5, <2>1 DEF Inv, TypeOK, AttemptsEarned
    <2>6. ASSUME NEW v \in Workers, pc'[v] = "failed", Holds(v, current[v])'
          PROVE  attempts'[current'[v]] + 1 <= failed'[current'[v]]
      <3>1. v # w /\ current'[v] = current[v] /\ current[v] \in Events
        BY <1>2, <2>6 DEF Inv, TypeOK, WorkerShape
      <3>2. current[v] # e
        BY <1>1, <2>1, <2>6, <3>1 DEF Inv, TypeOK, Holds
      <3> QED  BY <1>2, <2>1, <2>6, <3>1, <3>2 DEF Inv, TypeOK, AttemptsEarned, Holds
    <2>7. AttemptsEarned'
      BY <2>5, <2>6 DEF AttemptsEarned
    <2>8. SuccessEarned'
      BY <1>2 DEF Inv, TypeOK, SuccessEarned
    <2>9. DeadMeansExhausted' /\ SentMeansDelivered'
      BY <1>1, <1>5, <2>1 DEF Inv, TypeOK, DeadMeansExhausted, SentMeansDelivered
    <2> QED  BY <1>3, <2>2, <2>4, <2>7, <2>8, <2>9 DEF Inv
  <1> QED  BY <1>4, <1>5

\* record_success settles what was delivered.
LEMMA RecordSuccessInv == ASSUME Inv, NEW w \in Workers, RecordSuccess(w) PROVE Inv'
  <1>1. current[w] \in Events /\ availableIn[current[w]] \in Int /\ applied[current[w]]
    BY DEF RecordSuccess, Delivered, Inv, TypeOK, WorkerShape, SuccessEarned
  <1>2. 0 \in 0 .. MaxAttempts /\ 0 <= failed[current[w]]
    BY <1>1, ConstantsAssumption DEF Inv, TypeOK
  <1>3. reportedDead' \in [Events -> BOOLEAN]
    BY DEF RecordSuccess, history, Inv, TypeOK
  <1> QED  BY <1>1, <1>2, <1>3, SettleInv DEF RecordSuccess, Delivered, history

\* record_failure writes snapshot + 1 only when the snapshot is the row's own
\* count, and gives up only when that many failures were counted.
LEMMA RecordFailureInv == ASSUME Inv, NEW w \in Workers, RecordFailure(w) PROVE Inv'
  <1> DEFINE e == current[w]
             n == snapshot[w][e] + 1
  <1> USE ConstantsAssumption
  <1>1. /\ pc[w] = "failed" /\ Finish(w) /\ UNCHANGED <<failed, tries, applied, faults>>
        /\ e \in Events /\ e \in batch[w] /\ availableIn[e] \in Int
    BY DEF RecordFailure, Inv, TypeOK, WorkerShape
  <1>2. n \in 0 .. MaxAttempts /\ failed[e] \in 0 .. MaxAttempts
    BY <1>1 DEF Inv, TypeOK, LeaseKnowledge
  <1>3. Holds(w, e) => n <= failed[e]
    BY <1>1 DEF Inv, TypeOK, LeaseKnowledge, AttemptsEarned
  <1>4. reportedDead' \in [Events -> BOOLEAN]
    BY <1>1 DEF RecordFailure, Inv, TypeOK
  <1>5. CASE n >= MaxAttempts
    <2>1. Settle(w, e, "dead", availableIn[e], n)
      BY <1>2, <1>5 DEF RecordFailure, GivesUp
    <2>2. Holds(w, e) => failed[e] = MaxAttempts
      BY <1>2, <1>3, <1>5
    <2> QED  BY <1>1, <1>2, <1>3, <1>4, <2>1, <2>2, SettleInv
  <1>6. CASE n < MaxAttempts
    <2>1. PICK skew \in - Skew .. Skew :
              Settle(w, e, "pending", BackoffSeconds(snapshot[w][e]) + skew, n)
      BY <1>2, <1>6 DEF RecordFailure, GivesUp
    <2>2. BackoffSeconds(snapshot[w][e]) + skew \in Int
      BY DEF BackoffSeconds
    <2> QED  BY <1>1, <1>2, <1>3, <1>4, <1>6, <2>1, <2>2, SettleInv
  <1> QED  BY <1>2, <1>5, <1>6

\* A crashed worker forgets its batch and leaves the rows alone.
LEMMA CrashInv == ASSUME Inv, NEW w \in Workers, Crash(w) PROVE Inv'
  BY ConstantsAssumption
     DEF Crash, Inv, TypeOK, WorkerShape, LeaseKnowledge, AttemptsEarned, SuccessEarned,
         DeadMeansExhausted, SentMeansDelivered, Stage, Holds, rows

\* Time passes on the lease and on the claim alike.
LEMMA TickInv == ASSUME Inv, Tick PROVE Inv'
  <1> USE ConstantsAssumption DEF Tick, Least
  <1>1. TypeOK'
    BY DEF Inv, TypeOK
  <1>2. LeaseKnowledge'
    BY DEF Inv, TypeOK, LeaseKnowledge, Holds
  <1>3. WorkerShape' /\ AttemptsEarned' /\ SuccessEarned'
    BY DEF Inv, TypeOK, WorkerShape, AttemptsEarned, SuccessEarned, Holds
  <1>4. DeadMeansExhausted' /\ SentMeansDelivered'
    BY DEF Inv, TypeOK, DeadMeansExhausted, SentMeansDelivered
  <1> QED  BY <1>1, <1>2, <1>3, <1>4 DEF Inv

LEMMA NextInv == ASSUME Inv, [Next]_vars PROVE Inv'
  <1>1. CASE Next
    BY <1>1, EnqueueInv, ClaimInv, DeliverOkInv, DeliverFailInv, RecordSuccessInv,
       RecordFailureInv, CrashInv, TickInv DEF Next, WorkerStep
  <1>2. CASE UNCHANGED vars
    BY <1>2 DEF vars, rows, workers, history, Inv, TypeOK, WorkerShape, LeaseKnowledge,
       AttemptsEarned, SuccessEarned, DeadMeansExhausted, SentMeansDelivered, Holds
  <1> QED  BY <1>1, <1>2

\* Inv is an invariant of the relay.
THEOREM RelayInvariant == Spec => []Inv
  BY InitInv, NextInv, PTL DEF Spec

\* The relay's types hold: in particular attempts never passes max_attempts.
THEOREM RelayTypes == Spec => []TypeOK
  <1>1. Inv => TypeOK
    BY DEF Inv
  <1> QED  BY <1>1, RelayInvariant, PTL

\* claim_outbox_batch gives an event to one live lease at a time.
THEOREM LeasesAreExclusive == Spec => []ExclusiveLease
  <1>1. Inv => ExclusiveLease
    BY DEF Inv, TypeOK, LeaseKnowledge, ExclusiveLease, Holds
  <1> QED  BY <1>1, RelayInvariant, PTL

\* The relay dead-letters an event only after max_attempts failed deliveries.
THEOREM DeadLettersAreExhausted == Spec => []DeadMeansExhausted
  <1>1. Inv => DeadMeansExhausted
    BY DEF Inv
  <1> QED  BY <1>1, RelayInvariant, PTL

\* The relay marks an event sent only when it was delivered.
THEOREM SentEventsAreDelivered == Spec => []SentMeansDelivered
  <1>1. Inv => SentMeansDelivered
    BY DEF Inv
  <1> QED  BY <1>1, RelayInvariant, PTL

\* The settle of a former lease holder changes nothing.
THEOREM FormerHoldersAreFenced == Spec => FormerHolderIsFenced
  <1> DEFINE Fenced == \A e \in Events :
                          /\ attempts'[e] >= attempts[e] \/ status'[e] = "sent"
                          /\ status[e] \in Terminal => status'[e] = status[e]
  <1> USE ConstantsAssumption
  <1>1. ASSUME Inv, NEW e \in Events, Enqueue(e) PROVE Fenced
    BY <1>1 DEF Enqueue, Inv, TypeOK, Terminal
  <1>2. ASSUME Inv, NEW w \in Workers, Claim(w) PROVE Fenced
    BY <1>2 DEF Claim, Ready, Inv, TypeOK, Terminal
  <1>3. ASSUME Inv, NEW w \in Workers, NEW e \in Events, DeliverOk(w, e) \/ DeliverFail(w, e)
        PROVE  Fenced
    BY <1>3 DEF DeliverOk, DeliverFail, rows, Inv, TypeOK
  <1>4. ASSUME Inv, NEW w \in Workers, RecordSuccess(w) PROVE Fenced
    BY <1>4 DEF RecordSuccess, Delivered, Settle, Holds, rows, Inv, TypeOK, Terminal, WorkerShape
  <1>5. ASSUME Inv, NEW w \in Workers, RecordFailure(w) PROVE Fenced
    BY <1>5 DEF RecordFailure, GivesUp, Settle, Holds, rows, Inv, TypeOK, Terminal, WorkerShape,
                LeaseKnowledge
  <1>6. ASSUME Inv, NEW w \in Workers, Crash(w) PROVE Fenced
    BY <1>6 DEF Crash, rows, Inv, TypeOK
  <1>7. ASSUME Inv, Tick PROVE Fenced
    BY <1>7 DEF Tick, Inv, TypeOK
  <1>8. Inv /\ [Next]_vars => [Fenced]_vars
    BY <1>1, <1>2, <1>3, <1>4, <1>5, <1>6, <1>7 DEF Next, WorkerStep
  <1> QED  BY <1>8, RelayInvariant, PTL DEF Spec, FormerHolderIsFenced

-----------------------------------------------------------------------------
(* What record_failure reports *)

\* Every snapshot is covered by failures that happened, a lost lease by a fault.
ReportInv ==
    /\ \A w \in Workers : \A e \in batch[w] : snapshot[w][e] <= failed[e]
    /\ \A w \in Workers :
          pc[w] = "failed" => snapshot[w][current[w]] + 1 <= failed[current[w]]
    /\ \A w \in Workers : pc[w] # "idle" /\ claimAge[w] > Stale => faults > 0
    /\ ReportedDeadAccounted

\* No step but a failed delivery moves failed; snapshots are taken by claims.
LEMMA ReportStep == ASSUME Inv, ReportInv, [Next]_vars PROVE ReportInv'
  <1> USE ConstantsAssumption DEF ReportInv
  <1>1. ASSUME NEW e \in Events, Enqueue(e) PROVE ReportInv'
    BY <1>1 DEF Enqueue, Inv, TypeOK, ReportedDeadAccounted, workers, history
  <1>2. ASSUME NEW w \in Workers, Claim(w) PROVE ReportInv'
    <2>1. PICK b \in SUBSET Events :
             /\ \A e \in b : Ready(e)
             /\ status' = [e \in Events |-> IF e \in b THEN "claimed" ELSE status[e]]
             /\ batch' = [batch EXCEPT ![w] = b]
             /\ snapshot' = [snapshot EXCEPT ![w] =
                                [e \in Events |-> IF e \in b THEN attempts[e] ELSE 0]]
      BY <1>2 DEF Claim
    <2>2. /\ pc[w] = "idle" /\ pc' = [pc EXCEPT ![w] = "working"]
          /\ claimAge' = [claimAge EXCEPT ![w] = 0]
          /\ UNCHANGED <<current, failed, reportedDead, faults>>
      BY <1>2 DEF Claim, history
    <2>3. \A v \in Workers : \A e \in batch'[v] : snapshot'[v][e] <= failed'[e]
      BY <2>1, <2>2 DEF Inv, TypeOK, AttemptsEarned
    <2>4. \A v \in Workers :
             pc'[v] = "failed" => snapshot'[v][current'[v]] + 1 <= failed'[current'[v]]
      BY <2>1, <2>2 DEF Inv, TypeOK
    <2>5. \A v \in Workers : pc'[v] # "idle" /\ claimAge'[v] > Stale => faults' > 0
      BY <2>2 DEF Inv, TypeOK
    <2>6. ReportedDeadAccounted'
      BY <2>1, <2>2 DEF Ready, Inv, TypeOK, ReportedDeadAccounted
    <2> QED  BY <2>3, <2>4, <2>5, <2>6
  <1>3. ASSUME NEW w \in Workers, NEW e \in Events, DeliverOk(w, e) PROVE ReportInv'
    BY <1>3 DEF DeliverOk, Begin, rows, Inv, TypeOK, ReportedDeadAccounted
  <1>4. ASSUME NEW w \in Workers, NEW e \in Events, DeliverFail(w, e) PROVE ReportInv'
    <2> USE <1>4 DEF DeliverFail, Begin, rows
    <2>1. /\ failed'[e] = Least(failed[e] + 1, MaxAttempts)
          /\ \A f \in Events : f # e => failed'[f] = failed[f]
          /\ failed' \in [Events -> 0 .. MaxAttempts]
          /\ \A f \in Events : failed[f] <= failed'[f]
      BY DEF Inv, TypeOK, Least
    <2>2. \A v \in Workers : \A f \in batch'[v] : snapshot'[v][f] <= failed'[f]
      BY <2>1 DEF Inv, TypeOK
    <2>3. snapshot[w][e] + 1 <= failed'[e]
      BY <2>1 DEF Inv, TypeOK, LeaseKnowledge, Least
    <2>4. \A v \in Workers :
             pc'[v] = "failed" => snapshot'[v][current'[v]] + 1 <= failed'[current'[v]]
      BY <2>1, <2>3 DEF Inv, TypeOK, WorkerShape
    <2>5. \A v \in Workers : pc'[v] # "idle" /\ claimAge'[v] > Stale => faults' > 0
      BY DEF Inv, TypeOK
    <2>6. ReportedDeadAccounted'
      BY <2>1 DEF Inv, TypeOK, ReportedDeadAccounted
    <2> QED  BY <2>2, <2>4, <2>5, <2>6
  <1>5. ASSUME NEW w \in Workers, pc[w] \in {"delivered", "failed"}, Finish(w),
               UNCHANGED <<failed, faults>>
        PROVE  /\ \A v \in Workers : \A e \in batch'[v] : snapshot'[v][e] <= failed'[e]
               /\ \A v \in Workers :
                     pc'[v] = "failed" => snapshot'[v][current'[v]] + 1 <= failed'[current'[v]]
               /\ \A v \in Workers : pc'[v] # "idle" /\ claimAge'[v] > Stale => faults' > 0
    BY <1>5 DEF Finish, Inv, TypeOK
  <1>6. ASSUME NEW w \in Workers, RecordSuccess(w) PROVE ReportInv'
    <2>1. \A e \in Events : status[e] = "dead" => status'[e] = "dead"
      BY <1>6 DEF RecordSuccess, Settle, Holds, rows, Inv, TypeOK
    <2>2. ReportedDeadAccounted'
      BY <1>6, <2>1 DEF RecordSuccess, history, ReportedDeadAccounted
    <2> QED  BY <1>5, <1>6, <2>2 DEF RecordSuccess, Delivered, history
  <1>7. ASSUME NEW w \in Workers, RecordFailure(w) PROVE ReportInv'
    <2> DEFINE e == current[w]
    <2>1. /\ pc[w] = "failed" /\ Finish(w) /\ UNCHANGED <<failed, faults>>
          /\ e \in Events /\ e \in batch[w]
          /\ snapshot[w][e] \in 0 .. MaxAttempts /\ failed[e] \in 0 .. MaxAttempts
      BY <1>7 DEF RecordFailure, Inv, TypeOK, WorkerShape
    <2>2. \A f \in Events : status[f] = "dead" => status'[f] = "dead"
      BY <1>7 DEF RecordFailure, Settle, Holds, rows, Inv, TypeOK
    <2>3. CASE snapshot[w][e] + 1 >= MaxAttempts
      <3>1. /\ Settle(w, e, "dead", availableIn[e], snapshot[w][e] + 1)
            /\ reportedDead' = [reportedDead EXCEPT ![e] = TRUE]
        BY <1>7, <2>1, <2>3 DEF RecordFailure, GivesUp
      <3>2. failed[e] = MaxAttempts
        BY <2>1, <2>3
      <3>3. Holds(w, e) => status'[e] = "dead"
        BY <2>1, <3>1 DEF Settle, Inv, TypeOK
      <3>4. ~ Holds(w, e) => faults > 0
        BY <2>1 DEF Inv, LeaseKnowledge
      <3>5. ReportedDeadAccounted'
        BY <2>1, <2>2, <3>1, <3>2, <3>3, <3>4 DEF Inv, TypeOK, ReportedDeadAccounted
      <3> QED  BY <1>5, <2>1, <3>5
    <2>4. CASE snapshot[w][e] + 1 < MaxAttempts
      <3>1. UNCHANGED reportedDead
        BY <1>7, <2>1, <2>4 DEF RecordFailure, GivesUp
      <3>2. ReportedDeadAccounted'
        BY <2>1, <2>2, <3>1 DEF ReportedDeadAccounted
      <3> QED  BY <1>5, <2>1, <3>2
    <2> QED  BY <2>1, <2>3, <2>4
  <1>8. ASSUME NEW w \in Workers, Crash(w) PROVE ReportInv'
    BY <1>8 DEF Crash, rows, Inv, TypeOK, ReportedDeadAccounted
  <1>9. ASSUME Tick PROVE ReportInv'
    <2> USE <1>9 DEF Tick
    <2>1. faults' \in Nat /\ faults' >= faults
      BY DEF Inv, TypeOK
    <2>2. \A v \in Workers : pc'[v] # "idle" /\ claimAge'[v] > Stale => faults' > 0
      <3> SUFFICES ASSUME NEW v \in Workers, pc[v] # "idle", claimAge'[v] > Stale
                   PROVE  faults' > 0
        OBVIOUS
      <3>1. claimAge[v] \in 0 .. Stale + 1 /\ claimAge'[v] = Least(claimAge[v] + 1, Stale + 1)
        BY DEF Inv, TypeOK
      <3>2. CASE claimAge[v] > Stale
        BY <2>1, <3>2 DEF Inv, TypeOK
      <3>3. CASE claimAge[v] = Stale
        BY <3>3 DEF Overrun, Inv, TypeOK
      <3> QED  BY <3>1, <3>2, <3>3 DEF Least
    <2>3. ReportedDeadAccounted'
      BY <2>1 DEF Inv, TypeOK, ReportedDeadAccounted
    <2> QED  BY <2>2, <2>3
  <1>10. CASE UNCHANGED vars
    BY <1>10 DEF vars, rows, workers, history, ReportedDeadAccounted
  <1>11. CASE Next
    BY <1>1, <1>2, <1>3, <1>4, <1>6, <1>7, <1>8, <1>9, <1>11 DEF Next, WorkerStep
  <1> QED  BY <1>10, <1>11

\* record_failure reports a dead letter only of an exhausted event, and the row
\* is then dead unless some worker died or overran its lease.
THEOREM ReportsAreAccounted == Spec => []ReportedDeadAccounted
  <1>1. Init => ReportInv
    BY ConstantsAssumption DEF Init, ReportInv, ReportedDeadAccounted
  <1>2. ReportInv => ReportedDeadAccounted
    BY DEF ReportInv
  <1> QED  BY <1>1, <1>2, ReportStep, RelayInvariant, PTL DEF Spec

-----------------------------------------------------------------------------
(* How often an event is delivered *)

\* The workers that have lost their lease on e and may still begin a delivery.
LateHolders(e) ==
    {w \in Workers : e \in batch[w] /\ claimAge[w] > Stale /\ current[w] # e}

\* A worker within its lease has begun a delivery of e that is not yet settled.
InFlight(e) == \E w \in Workers : current[w] = e /\ claimAge[w] <= Stale

\* The deliveries of e that the attempts column stands for.
Recorded(e) ==
    IF status[e] \in Terminal THEN MaxAttempts
    ELSE IF InFlight(e) THEN attempts[e] + 1 ELSE attempts[e]

\* Every delivery that was begun, or that a late holder may still begin, is
\* recorded or paid for by a fault.
Counted(e) ==
    /\ IsFiniteSet(LateHolders(e))
    /\ tries[e] + Cardinality(LateHolders(e)) <= Recorded(e) + faults

TriesCounted == \A e \in Events : Counted(e)

\* The attempts column stands for at most max_attempts deliveries.
LEMMA RecordedBound ==
    ASSUME Inv, NEW e \in Events PROVE Recorded(e) \in Nat /\ Recorded(e) <= MaxAttempts
  <1>1. /\ attempts[e] \in Nat /\ attempts[e] <= MaxAttempts
        /\ status[e] \notin Terminal => attempts[e] < MaxAttempts
    BY ConstantsAssumption DEF Inv, TypeOK, AttemptsEarned, Terminal, Status
  <1> QED  BY <1>1, ConstantsAssumption DEF Recorded

\* At most one worker within its lease has an event, and its row is claimed.
LEMMA SoleHolder ==
    ASSUME Inv, NEW v \in Workers, NEW w \in Workers, NEW e \in Events,
           e \in batch[v], e \in batch[w], claimAge[v] <= Stale, claimAge[w] <= Stale
    PROVE  v = w /\ status[e] = "claimed"
  BY ConstantsAssumption DEF Inv, TypeOK, LeaseKnowledge, Holds

\* A step that adds no late holder, begins no delivery and forgets no more than
\* it pays for keeps the count.
LEMMA CountKept ==
    ASSUME Inv, Inv', NEW e \in Events, Counted(e),
           LateHolders(e)' \subseteq LateHolders(e),
           tries'[e] = tries[e],
           Recorded(e) + faults <= Recorded(e)' + faults'
    PROVE  Counted(e)'
  <1>1. /\ IsFiniteSet(LateHolders(e)')
        /\ Cardinality(LateHolders(e)') <= Cardinality(LateHolders(e))
    BY FS_Subset DEF Counted
  <1>2. Cardinality(LateHolders(e)') \in Nat /\ Cardinality(LateHolders(e)) \in Nat
    BY <1>1, FS_CardinalityType DEF Counted
  <1>3. Recorded(e) \in Nat /\ Recorded(e)' \in Nat
    <2>1. ASSUME Inv PROVE Recorded(e) \in Nat
      BY RecordedBound
    <2>2. ASSUME Inv' PROVE Recorded(e)' \in Nat
      BY <2>2, ConstantsAssumption
         DEF Inv, TypeOK, AttemptsEarned, Recorded, Terminal, Status
    <2> QED  BY <2>1, <2>2
  <1>4. tries[e] \in Int /\ faults \in Int /\ faults' \in Int
    BY DEF Inv, TypeOK
  <1>5. /\ IsFiniteSet(LateHolders(e)')
        /\ tries'[e] + Cardinality(LateHolders(e)') <= Recorded(e)' + faults'
    BY <1>1, <1>2, <1>3, <1>4 DEF Counted
  <1> QED  BY <1>5 DEF Counted

\* A claim and an enqueue change no count: the attempts column is kept.
LEMMA QuietCounted ==
    ASSUME Inv, Inv', TriesCounted,
           \/ \E e \in Events : Enqueue(e)
           \/ \E w \in Workers : Claim(w)
    PROVE  TriesCounted'
  <1> SUFFICES ASSUME NEW e \in Events PROVE Counted(e)'
    BY DEF TriesCounted
  <1> USE ConstantsAssumption
  <1>1. ASSUME NEW f \in Events, Enqueue(f) PROVE Counted(e)'
    <2>1. LateHolders(e)' \subseteq LateHolders(e)
      BY <1>1 DEF Enqueue, LateHolders, workers
    <2>2. Recorded(e)' = Recorded(e) /\ tries'[e] = tries[e] /\ faults' = faults
      BY <1>1 DEF Enqueue, Recorded, InFlight, Terminal, workers, history, Inv, TypeOK
    <2>3. Recorded(e) + faults <= Recorded(e)' + faults'
      BY <2>2, RecordedBound DEF Inv, TypeOK
    <2> QED  BY <2>1, <2>2, <2>3, CountKept DEF TriesCounted
  <1>2. ASSUME NEW w \in Workers, Claim(w) PROVE Counted(e)'
    <2>1. PICK b \in SUBSET Events :
             /\ \A f \in b : Ready(f)
             /\ status' = [f \in Events |-> IF f \in b THEN "claimed" ELSE status[f]]
             /\ batch' = [batch EXCEPT ![w] = b]
      BY <1>2 DEF Claim
    <2>2. /\ claimAge' = [claimAge EXCEPT ![w] = 0]
          /\ current[w] = NoEvent
          /\ UNCHANGED <<current, attempts, tries, faults>>
      BY <1>2 DEF Claim, history, Inv, WorkerShape
    <2>3. LateHolders(e)' \subseteq LateHolders(e)
      BY <2>1, <2>2 DEF LateHolders, Inv, TypeOK
    <2>4. InFlight(e)' <=> InFlight(e)
      BY <2>1, <2>2 DEF InFlight, Inv, TypeOK
    <2>5. Recorded(e)' = Recorded(e)
      BY <2>1, <2>2, <2>4 DEF Recorded, Terminal, Ready, Inv, TypeOK
    <2>6. Recorded(e) + faults <= Recorded(e)' + faults'
      BY <2>2, <2>5, RecordedBound DEF Inv, TypeOK
    <2> QED  BY <2>2, <2>3, <2>6, CountKept DEF TriesCounted
  <1> QED  BY <1>1, <1>2

\* A delivery begun within the lease is recorded as in flight; one begun after
\* it was counted when the lease was overrun.
LEMMA BeginCounted ==
    ASSUME Inv, Inv', TriesCounted, NEW w \in Workers, NEW f \in Events,
           NEW stage \in {"delivered", "failed"}, Begin(w, f, stage),
           UNCHANGED <<rows, batch, claimAge, faults>>
    PROVE  TriesCounted'
  <1> SUFFICES ASSUME NEW e \in Events PROVE Counted(e)'
    BY DEF TriesCounted
  <1> USE ConstantsAssumption
  <1>1. /\ pc[w] = "working" /\ f \in batch[w] /\ current[w] = NoEvent
        /\ current' = [current EXCEPT ![w] = f]
        /\ tries' = [tries EXCEPT ![f] = Least(tries[f] + 1, TryCap)]
        /\ UNCHANGED <<status, attempts>>
    BY DEF Begin, Inv, WorkerShape, rows
  <1>2. CASE e # f
    <2>1. LateHolders(e)' \subseteq LateHolders(e) /\ tries'[e] = tries[e]
      BY <1>1, <1>2 DEF LateHolders, Inv, TypeOK
    <2>2. InFlight(e)' <=> InFlight(e)
      BY <1>1, <1>2 DEF InFlight, Inv, TypeOK
    <2>3. Recorded(e)' = Recorded(e)
      BY <1>1, <2>2 DEF Recorded
    <2>4. Recorded(e) + faults <= Recorded(e)' + faults'
      BY <2>3, RecordedBound DEF Inv, TypeOK
    <2> QED  BY <2>1, <2>4, CountKept DEF TriesCounted
  <1>3. CASE e = f
    <2>1. tries'[e] <= tries[e] + 1 /\ tries'[e] \in Int /\ tries[e] \in Int /\ faults \in Int
      BY <1>1, <1>3 DEF Least, Inv, TypeOK, TryCap
    <2>2. IsFiniteSet(LateHolders(e)) /\ Cardinality(LateHolders(e)) \in Nat
      BY FS_CardinalityType DEF TriesCounted, Counted
    <2>3. tries[e] + Cardinality(LateHolders(e)) <= Recorded(e) + faults
      BY DEF TriesCounted, Counted
    <2>4. Recorded(e) \in Nat
      BY RecordedBound
    <2>5. CASE claimAge[w] <= Stale
      <3>1. ~ InFlight(e) /\ status[e] \notin Terminal
        <4>1. status[e] = "claimed"
          BY <1>1, <1>3, <2>5, SoleHolder
        <4>2. ASSUME NEW v \in Workers, current[v] = e, claimAge[v] <= Stale PROVE FALSE
          <5>1. e \in batch[v]
            BY <4>2 DEF Inv, TypeOK, WorkerShape, Stage
          <5>2. v = w
            BY <1>1, <1>3, <2>5, <4>2, <5>1, SoleHolder
          <5> QED  BY <1>1, <4>2, <5>2
        <4> QED  BY <4>1, <4>2 DEF InFlight, Terminal
      <3>2. InFlight(e)'
        BY <1>1, <1>3, <2>5 DEF InFlight, Inv, TypeOK
      <3>3. Recorded(e)' = Recorded(e) + 1
        BY <1>1, <3>1, <3>2 DEF Recorded
      <3>4. LateHolders(e)' = LateHolders(e)
        BY <1>1, <1>3, <2>5 DEF LateHolders, Inv, TypeOK
      <3> QED  BY <2>1, <2>2, <2>3, <2>4, <3>3, <3>4 DEF Counted
    <2>6. CASE claimAge[w] > Stale
      <3>1. w \in LateHolders(e)
        BY <1>1, <1>3, <2>6 DEF LateHolders
      <3>2. LateHolders(e)' = LateHolders(e) \ {w}
        BY <1>1, <1>3 DEF LateHolders, Inv, TypeOK
      <3>3. /\ IsFiniteSet(LateHolders(e)')
            /\ Cardinality(LateHolders(e)') = Cardinality(LateHolders(e)) - 1
        BY <2>2, <3>1, <3>2, FS_RemoveElement
      <3>4. InFlight(e)' <=> InFlight(e)
        BY <1>1, <1>3, <2>6 DEF InFlight, Inv, TypeOK
      <3>5. Recorded(e)' = Recorded(e)
        BY <1>1, <3>4 DEF Recorded
      <3> QED  BY <2>1, <2>2, <2>3, <2>4, <3>3, <3>5 DEF Counted
    <2> QED  BY <2>5, <2>6 DEF Inv, TypeOK
  <1> QED  BY <1>2, <1>3

\* A settle takes the event from the worker that began the delivery; the holder
\* records it, and anybody else's delivery was paid for.
LEMMA SettleCounted ==
    ASSUME Inv, Inv', TriesCounted, NEW w \in Workers, pc[w] \in {"delivered", "failed"},
           NEW st \in {"pending", "sent", "dead"}, NEW av, NEW n,
           Settle(w, current[w], st, av, n),
           st = "pending" => n = snapshot[w][current[w]] + 1,
           Finish(w),
           UNCHANGED <<tries, faults>>
    PROVE  TriesCounted'
  <1> SUFFICES ASSUME NEW e \in Events PROVE Counted(e)'
    BY DEF TriesCounted
  <1> DEFINE f == current[w]
  <1> USE ConstantsAssumption
  <1>1. /\ f \in Events /\ f \in batch[w]
        /\ batch' = [batch EXCEPT ![w] = @ \ {f}]
        /\ current' = [current EXCEPT ![w] = NoEvent]
        /\ claimAge' = claimAge
    BY DEF Finish, Inv, TypeOK, WorkerShape
  <1>2. LateHolders(e)' \subseteq LateHolders(e)
    BY <1>1 DEF LateHolders, Inv, TypeOK
  <1>3. e # f => (InFlight(e)' <=> InFlight(e))
    BY <1>1 DEF InFlight, Inv, TypeOK
  <1>4. claimAge[w] > Stale => (InFlight(e)' <=> InFlight(e))
    BY <1>1 DEF InFlight, Inv, TypeOK
  <1>5. Recorded(e) \in Nat /\ Recorded(e) <= MaxAttempts /\ faults \in Nat
    BY RecordedBound DEF Inv, TypeOK
  <1>6. Recorded(e) <= Recorded(e)'
    <2>1. CASE ~ Holds(w, f)
      <3>1. claimAge[w] > Stale /\ UNCHANGED <<status, attempts>>
        BY <1>1, <2>1 DEF Settle, rows, Inv, LeaseKnowledge
      <3>2. Recorded(e)' = Recorded(e)
        BY <1>4, <3>1 DEF Recorded
      <3> QED  BY <1>5, <3>2
    <2>2. CASE Holds(w, f) /\ e # f
      <3>1. status'[e] = status[e] /\ attempts'[e] = attempts[e]
        BY <1>1, <2>2 DEF Settle, Inv, TypeOK
      <3>2. Recorded(e)' = Recorded(e)
        BY <1>3, <2>2, <3>1 DEF Recorded
      <3> QED  BY <1>5, <3>2
    <2>3. CASE Holds(w, f) /\ e = f /\ st \in Terminal
      <3>1. status'[e] = st
        BY <1>1, <2>3 DEF Settle, Inv, TypeOK
      <3>2. Recorded(e)' = MaxAttempts
        BY <2>3, <3>1 DEF Recorded
      <3> QED  BY <1>5, <3>2
    <2>4. CASE Holds(w, f) /\ e = f /\ st = "pending"
      <3>1. status'[e] = "pending" /\ attempts'[e] = n /\ n = attempts[e] + 1
        BY <1>1, <2>4 DEF Settle, Inv, TypeOK, LeaseKnowledge
      <3>2. Recorded(e)' \in {n, n + 1} /\ Recorded(e) <= attempts[e] + 1 /\ attempts[e] \in Nat
        BY <2>4, <3>1 DEF Recorded, Terminal, Holds, Inv, TypeOK
      <3> QED  BY <1>5, <3>1, <3>2
    <2> QED  BY <2>1, <2>2, <2>3, <2>4 DEF Terminal
  <1>7. Recorded(e)' \in Nat
    BY <1>1 DEF Inv, TypeOK, Recorded
  <1>8. Recorded(e) + faults <= Recorded(e)' + faults'
    BY <1>5, <1>6, <1>7
  <1> QED  BY <1>2, <1>8, CountKept DEF TriesCounted

\* A crash forgets at most the delivery in flight of each event: one fault pays
\* for it.
LEMMA CrashCounted ==
    ASSUME Inv, Inv', TriesCounted, NEW w \in Workers, Crash(w) PROVE TriesCounted'
  <1> SUFFICES ASSUME NEW e \in Events PROVE Counted(e)'
    BY DEF TriesCounted
  <1> USE ConstantsAssumption
  <1>1. /\ batch' = [batch EXCEPT ![w] = {}]
        /\ current' = [current EXCEPT ![w] = NoEvent]
        /\ faults' = faults + 1
        /\ UNCHANGED <<status, attempts, claimAge, tries>>
    BY DEF Crash, rows
  <1>2. LateHolders(e)' \subseteq LateHolders(e)
    BY <1>1 DEF LateHolders, Inv, TypeOK
  <1>3. attempts[e] \in Nat /\ faults \in Nat
    BY DEF Inv, TypeOK
  <1>4. Recorded(e) <= Recorded(e)' + 1 /\ Recorded(e) \in Nat /\ Recorded(e)' \in Nat
    BY <1>1, <1>3 DEF Recorded
  <1>5. Recorded(e) + faults <= Recorded(e)' + faults'
    BY <1>1, <1>3, <1>4
  <1> QED  BY <1>1, <1>2, <1>5, CountKept DEF TriesCounted

\* Only the overrun of a lease makes a holder late: one fault pays for the one
\* delivery of each event that this leaves without a record.
LEMMA TickCounted == ASSUME Inv, Inv', TriesCounted, Tick PROVE TriesCounted'
  <1> SUFFICES ASSUME NEW e \in Events PROVE Counted(e)'
    BY DEF TriesCounted
  <1> USE ConstantsAssumption
  <1>1. /\ UNCHANGED <<status, attempts, pc, batch, current, tries>>
        /\ \A w \in Workers : /\ claimAge[w] \in 0 .. Stale + 1
                              /\ claimAge[w] > Stale => claimAge'[w] > Stale
                              /\ claimAge[w] < Stale => claimAge'[w] <= Stale
    BY DEF Tick, Least, Inv, TypeOK
  <1>2. attempts[e] \in Nat /\ faults \in Nat /\ tries[e] \in Nat
    BY DEF Inv, TypeOK, TryCap
  <1>3. \A w \in Workers : e \in batch[w] => pc[w] # "idle"
    BY DEF Inv, WorkerShape
  <1>4. \A w \in Workers : current[w] = e => e \in batch[w]
    <2>1. \A w \in Workers : pc[w] \in {"idle", "working", "delivered", "failed"}
      BY DEF Inv, TypeOK, Stage
    <2> QED  BY <2>1 DEF Inv, WorkerShape
  <1>5. CASE ~ Overrun
    <2>1. \A w \in Workers : e \in batch[w] => (claimAge'[w] > Stale <=> claimAge[w] > Stale)
      <3> SUFFICES ASSUME NEW w \in Workers, e \in batch[w]
                   PROVE  claimAge'[w] > Stale <=> claimAge[w] > Stale
        OBVIOUS
      <3>1. claimAge[w] # Stale
        BY <1>3, <1>5 DEF Overrun
      <3>2. claimAge[w] \in Int /\ claimAge'[w] \in Int
        BY DEF Inv, TypeOK
      <3> QED  BY <1>1, <3>1, <3>2
    <2>2. \A w \in Workers : claimAge'[w] \in Int /\ claimAge[w] \in Int
      BY DEF Inv, TypeOK
    <2>3. LateHolders(e)' \subseteq LateHolders(e)
      BY <1>1, <2>1 DEF LateHolders
    <2>4. InFlight(e)' <=> InFlight(e)
      BY <1>1, <1>4, <2>1, <2>2 DEF InFlight
    <2>5. Recorded(e)' = Recorded(e) /\ faults' = faults
      BY <1>1, <1>5, <2>4 DEF Recorded, Tick
    <2>6. Recorded(e) + faults <= Recorded(e)' + faults'
      BY <2>5, RecordedBound, <1>2
    <2> QED  BY <1>1, <2>3, <2>6, CountKept DEF TriesCounted
  <1>6. CASE Overrun
    <2>1. faults' = faults + 1
      BY <1>6 DEF Tick
    <2>2. CASE \E w \in Workers : e \in batch[w] /\ claimAge[w] <= Stale /\ current[w] # e
      <3>1. PICK w \in Workers : e \in batch[w] /\ claimAge[w] <= Stale /\ current[w] # e
        BY <2>2
      <3>2. ~ InFlight(e)
        BY <1>4, <3>1, SoleHolder DEF InFlight
      <3>3. LateHolders(e)' \subseteq LateHolders(e) \cup {w}
        <4> SUFFICES ASSUME NEW v \in Workers, e \in batch[v], current[v] # e, v # w
                     PROVE  claimAge[v] > Stale
          BY <1>1 DEF LateHolders
        <4> QED  BY <1>1, <3>1, SoleHolder
      <3>4. Recorded(e) <= Recorded(e)' /\ Recorded(e) \in Nat /\ Recorded(e)' \in Nat
        BY <1>1, <1>2, <3>2 DEF Recorded
      <3>5. IsFiniteSet(LateHolders(e)) /\ Cardinality(LateHolders(e)) \in Nat
        BY FS_CardinalityType DEF TriesCounted, Counted
      <3>6. w \notin LateHolders(e)
        BY <1>1, <3>1 DEF LateHolders
      <3>7. /\ IsFiniteSet(LateHolders(e) \cup {w})
            /\ Cardinality(LateHolders(e) \cup {w}) = Cardinality(LateHolders(e)) + 1
        BY <3>5, <3>6, FS_AddElement
      <3>8. /\ IsFiniteSet(LateHolders(e)')
            /\ Cardinality(LateHolders(e)') <= Cardinality(LateHolders(e)) + 1
        BY <3>3, <3>7, FS_Subset
      <3>9. Cardinality(LateHolders(e)') \in Nat
        BY <3>8, FS_CardinalityType
      <3>10. tries[e] + Cardinality(LateHolders(e)) <= Recorded(e) + faults
        BY DEF TriesCounted, Counted
      <3> QED  BY <1>1, <1>2, <2>1, <3>4, <3>5, <3>8, <3>9, <3>10 DEF Counted
    <2>3. CASE ~ \E w \in Workers : e \in batch[w] /\ claimAge[w] <= Stale /\ current[w] # e
      <3>1. LateHolders(e)' \subseteq LateHolders(e)
        BY <1>1, <2>3 DEF LateHolders
      <3>2. Recorded(e) <= Recorded(e)' + 1 /\ Recorded(e) \in Nat /\ Recorded(e)' \in Nat
        BY <1>1, <1>2 DEF Recorded
      <3>3. Recorded(e) + faults <= Recorded(e)' + faults'
        BY <1>2, <2>1, <3>2
      <3> QED  BY <1>1, <3>1, <3>3, CountKept DEF TriesCounted
    <2> QED  BY <2>2, <2>3
  <1> QED  BY <1>5, <1>6

\* Every step keeps the count.
LEMMA CountStep == ASSUME Inv, Inv', TriesCounted, [Next]_vars PROVE TriesCounted'
  <1>1. ASSUME NEW w \in Workers, NEW e \in Events, DeliverOk(w, e) \/ DeliverFail(w, e)
        PROVE  TriesCounted'
    BY <1>1, BeginCounted DEF DeliverOk, DeliverFail
  <1>2. ASSUME NEW w \in Workers, RecordSuccess(w) PROVE TriesCounted'
    BY <1>2, SettleCounted DEF RecordSuccess, Delivered, history
  <1>3. ASSUME NEW w \in Workers, RecordFailure(w) PROVE TriesCounted'
    <2> DEFINE n == snapshot[w][current[w]] + 1
    <2>1. pc[w] = "failed" /\ Finish(w) /\ UNCHANGED <<tries, faults>>
      BY <1>3 DEF RecordFailure
    <2>2. \/ Settle(w, current[w], "dead", availableIn[current[w]], n)
          \/ \E skew \in - Skew .. Skew :
                Settle(w, current[w], "pending",
                       BackoffSeconds(snapshot[w][current[w]]) + skew, n)
      BY <1>3 DEF RecordFailure
    <2> QED  BY <2>1, <2>2, SettleCounted
  <1>4. CASE UNCHANGED vars
    BY <1>4 DEF vars, rows, workers, history, TriesCounted, Counted, LateHolders, Recorded,
                InFlight
  <1>5. CASE Next
    BY <1>1, <1>2, <1>3, <1>5, QuietCounted, CrashCounted, TickCounted DEF Next, WorkerStep
  <1> QED  BY <1>4, <1>5

\* The deliveries of an event are bounded by max_attempts and the faults: what a
\* crash or an overrun leaves unrecorded is one delivery of each event.
THEOREM RetriesAreAccounted == Spec => []RetriesAccounted
  <1> USE ConstantsAssumption
  <1>1. ASSUME Init PROVE TriesCounted
    <2> SUFFICES ASSUME NEW e \in Events PROVE Counted(e)
      BY DEF TriesCounted
    <2>1. LateHolders(e) = {}
      BY <1>1 DEF Init, LateHolders
    <2>2. Recorded(e) = 0 /\ tries[e] = 0 /\ faults = 0
      BY <1>1 DEF Init, Recorded, InFlight, Terminal
    <2> QED  BY <2>1, <2>2, FS_EmptySet DEF Counted
  <1>2. ASSUME Inv, TriesCounted PROVE RetriesAccounted
    <2> SUFFICES ASSUME NEW e \in Events PROVE tries[e] <= MaxAttempts + faults
      BY DEF RetriesAccounted
    <2>1. Recorded(e) \in Nat /\ Recorded(e) <= MaxAttempts
      BY <1>2, RecordedBound
    <2>2. /\ IsFiniteSet(LateHolders(e))
          /\ tries[e] + Cardinality(LateHolders(e)) <= Recorded(e) + faults
      BY <1>2 DEF TriesCounted, Counted
    <2>3. Cardinality(LateHolders(e)) \in Nat
      BY <2>2, FS_CardinalityType
    <2>4. tries[e] \in Nat /\ faults \in Nat
      BY <1>2 DEF Inv, TypeOK, TryCap
    <2> QED  BY <2>1, <2>2, <2>3, <2>4
  <1> QED  BY <1>1, <1>2, CountStep, RelayInvariant, PTL DEF Spec

-----------------------------------------------------------------------------
(* The composition with the consumer *)

\* What the consumer transactions and the ledger say of each other.
ConsumerInv ==
    /\ txn \in [Workers -> TxnStage]
    /\ txnEvent \in [Workers -> Events \cup {NoEvent}]
    /\ ledger \subseteq Events
    /\ runs \in [Events -> 0 .. 2]
    /\ \A w \in Workers :
          txn[w] # "none" => pc[w] = "working" /\ txnEvent[w] \in batch[w]
    /\ \A w \in Workers :
          /\ txn[w] = "inserted" => txnEvent[w] \notin ledger
          /\ txn[w] = "replayed" => txnEvent[w] \in ledger
    /\ \A w, v \in Workers :
          txn[w] = "inserted" /\ txn[v] = "inserted" /\ txnEvent[w] = txnEvent[v] => w = v
    /\ \A e \in Events : runs[e] = IF e \in ledger THEN 1 ELSE 0

\* Only events that were enqueued are delivered, and an applied event is in
\* the ledger.
DeliveredWasEnqueued ==
    /\ \A w \in Workers : \A e \in batch[w] : status[e] # "absent"
    /\ \A e \in Events : applied[e] => e \in ledger

DInv == Inv /\ ConsumerInv /\ DeliveredWasEnqueued

-----------------------------------------------------------------------------
\* Every step of the composition is a step of the relay, or none.
LEMMA StepIsRelayStep == ASSUME TypeOK, [DeliveryNext]_deliveryVars PROVE [Next]_vars
  <1>1. ASSUME NEW w \in Workers, CommitOk(w) \/ CommitAnswerLost(w) \/ ConsumerFails(w)
        PROVE  Next
    <2>1. txnEvent[w] \in Events
      BY <1>1 DEF CommitOk, CommitAnswerLost, ConsumerFails, DeliverOk, DeliverFail, Begin, TypeOK
    <2> QED  BY <1>1, <2>1 DEF CommitOk, CommitAnswerLost, ConsumerFails, Next, WorkerStep
  <1>2. ASSUME NEW w \in Workers, PlatformStep(w) PROVE [Next]_vars
    BY <1>1, <1>2 DEF PlatformStep, ClaimPlatformBatch, Consume, Insert, PlatformRecordSuccess,
                      PlatformRecordFailure, Next, WorkerStep
  <1>3. ASSUME NEW w \in Workers, PlatformCrash(w) PROVE Next
    BY <1>3 DEF PlatformCrash, Next
  <1>4. ASSUME NEW e \in Events, PlatformEnqueue(e) PROVE Next
    BY <1>4 DEF PlatformEnqueue, Next
  <1>5. CASE PlatformTick
    BY <1>5 DEF PlatformTick, Next
  <1>6. CASE UNCHANGED deliveryVars
    BY <1>6 DEF deliveryVars
  <1> QED  BY <1>2, <1>3, <1>4, <1>5, <1>6 DEF DeliveryNext

LEMMA InitDInv == DeliveryInit => DInv
  <1>1. DeliveryInit => Inv
    BY InitInv DEF DeliveryInit
  <1>2. DeliveryInit => ConsumerInv /\ DeliveredWasEnqueued
    BY ConstantsAssumption DEF DeliveryInit, Init, ConsumerInv, DeliveredWasEnqueued, TxnStage
  <1> QED  BY <1>1, <1>2 DEF DInv

\* The relay's own steps leave the consumer alone, and never take an event
\* from a worker in the middle of its delivery.
LEMMA RelayStepConsumer ==
    ASSUME DInv, UNCHANGED consumer,
           \/ \E e \in Events : Enqueue(e)
           \/ \E w \in Workers : Claim(w) \/ RecordSuccess(w) \/ RecordFailure(w)
           \/ Tick
    PROVE  ConsumerInv' /\ DeliveredWasEnqueued'
  <1> USE DEF DInv, consumer
  <1>1. ASSUME NEW e \in Events, Enqueue(e) PROVE ConsumerInv' /\ DeliveredWasEnqueued'
    BY <1>1 DEF Enqueue, workers, history, ConsumerInv, DeliveredWasEnqueued, Inv, TypeOK
  <1>2. ASSUME NEW w \in Workers, Claim(w) PROVE ConsumerInv' /\ DeliveredWasEnqueued'
    BY <1>2 DEF Claim, history, ConsumerInv, DeliveredWasEnqueued, Inv, TypeOK
  <1>3. ASSUME NEW w \in Workers, RecordSuccess(w) PROVE ConsumerInv' /\ DeliveredWasEnqueued'
    BY <1>3 DEF RecordSuccess, Delivered, Settle, Finish, history, rows, ConsumerInv,
                DeliveredWasEnqueued, Inv, TypeOK
  <1>4. ASSUME NEW w \in Workers, RecordFailure(w) PROVE ConsumerInv' /\ DeliveredWasEnqueued'
    BY <1>4 DEF RecordFailure, Settle, Finish, rows, ConsumerInv, DeliveredWasEnqueued, Inv,
                TypeOK
  <1>5. CASE Tick
    BY <1>5 DEF Tick, ConsumerInv, DeliveredWasEnqueued
  <1> QED  BY <1>1, <1>2, <1>3, <1>4, <1>5

LEMMA ConsumeConsumer ==
    ASSUME DInv, NEW w \in Workers, NEW e \in Events, Consume(w, e)
    PROVE  ConsumerInv' /\ DeliveredWasEnqueued'
  BY ConstantsAssumption
     DEF DInv, Consume, vars, rows, workers, history, ConsumerInv, DeliveredWasEnqueued, TxnStage

\* The unique constraint: an insert succeeds only when nobody has the key.
LEMMA InsertConsumer ==
    ASSUME DInv, NEW w \in Workers, Insert(w)
    PROVE  ConsumerInv' /\ DeliveredWasEnqueued'
  BY DEF DInv, Insert, Blocked, vars, rows, workers, history, ConsumerInv,
         DeliveredWasEnqueued, TxnStage

\* A durable commit adds the row and the run together.
LEMMA CommitConsumer ==
    ASSUME DInv, NEW w \in Workers, CommitOk(w) \/ CommitAnswerLost(w)
    PROVE  ConsumerInv' /\ DeliveredWasEnqueued'
  <1> DEFINE e == txnEvent[w]
  <1>1. /\ txn[w] \in {"inserted", "replayed"} /\ Publishes(w) /\ EndTxn(w)
        /\ e \in batch[w] /\ e \in Events
        /\ applied' = [applied EXCEPT ![e] = TRUE]
        /\ UNCHANGED <<rows, batch>>
        /\ \E st \in Stage : pc' = [pc EXCEPT ![w] = st]
    BY DEF CommitOk, CommitAnswerLost, DeliverOk, DeliverFail, Begin, Stage, DInv, Inv, TypeOK
  <1>2. e \in ledger' /\ ledger' = ledger \cup {e}
    BY <1>1 DEF Publishes, DInv, ConsumerInv
  <1>3. /\ runs' \in [Events -> 0 .. 2]
        /\ \A f \in Events : runs'[f] = IF f \in ledger' THEN 1 ELSE 0
    BY <1>1, <1>2 DEF Publishes, DInv, ConsumerInv
  <1>4. /\ txn' = [txn EXCEPT ![w] = "none"]
        /\ txnEvent' = [txnEvent EXCEPT ![w] = NoEvent]
    BY <1>1 DEF EndTxn
  <1>5. \A v \in Workers : v # w /\ txn[v] = "inserted" => txnEvent[v] # e \/ txn[w] # "inserted"
    BY DEF DInv, ConsumerInv
  <1>6. \A v \in Workers : txn[v] = "inserted" => txnEvent[v] \notin ledger
    BY DEF DInv, ConsumerInv
  <1>7. \A v \in Workers : txn'[v] = "inserted" => txnEvent'[v] \notin ledger'
    <2>1. CASE txn[w] = "inserted"
      BY <1>2, <1>4, <1>5, <1>6, <2>1 DEF DInv, ConsumerInv
    <2>2. CASE txn[w] = "replayed"
      BY <1>2, <1>4, <1>6, <2>2 DEF DInv, ConsumerInv
    <2> QED  BY <1>1, <2>1, <2>2
  <1>8. \A v \in Workers : txn'[v] # "none" => pc'[v] = "working" /\ txnEvent'[v] \in batch'[v]
    BY <1>1, <1>4 DEF DInv, ConsumerInv, Inv, TypeOK
  <1>9. ConsumerInv'
    BY <1>1, <1>2, <1>3, <1>4, <1>7, <1>8 DEF DInv, ConsumerInv, TxnStage
  <1>10. DeliveredWasEnqueued'
    BY <1>1, <1>2 DEF DInv, DeliveredWasEnqueued, Inv, TypeOK, rows
  <1> QED  BY <1>9, <1>10

\* A rolled back delivery leaves the ledger and the effects alone.
LEMMA RollbackConsumer ==
    ASSUME DInv, NEW w \in Workers, ConsumerFails(w) \/ PlatformCrash(w)
    PROVE  ConsumerInv' /\ DeliveredWasEnqueued'
  <1>1. /\ UNCHANGED <<ledger, runs, applied, rows>> /\ EndTxn(w)
        /\ \E st \in Stage : pc' = [pc EXCEPT ![w] = st]
        /\ \A v \in Workers : v # w => batch'[v] = batch[v]
        /\ batch'[w] \subseteq batch[w]
    BY DEF ConsumerFails, PlatformCrash, Crash, DeliverFail, Begin, Stage, DInv, Inv, TypeOK
  <1>2. ConsumerInv'
    BY <1>1 DEF EndTxn, DInv, ConsumerInv, TxnStage, Inv, TypeOK
  <1>3. DeliveredWasEnqueued'
    BY <1>1 DEF DInv, DeliveredWasEnqueued, rows
  <1> QED  BY <1>2, <1>3

LEMMA NextDInv == ASSUME DInv, [DeliveryNext]_deliveryVars PROVE DInv'
  <1>1. Inv'
    BY StepIsRelayStep, NextInv DEF DInv, Inv
  <1>2. ConsumerInv' /\ DeliveredWasEnqueued'
    <2>1. CASE UNCHANGED deliveryVars
      BY <2>1 DEF deliveryVars, vars, rows, workers, history, consumer, DInv, ConsumerInv,
                  DeliveredWasEnqueued
    <2>2. CASE DeliveryNext
      BY <2>2, RelayStepConsumer, ConsumeConsumer, InsertConsumer, CommitConsumer,
         RollbackConsumer
         DEF DeliveryNext, PlatformStep, PlatformEnqueue, ClaimPlatformBatch,
             PlatformRecordSuccess, PlatformRecordFailure, PlatformTick
    <2> QED  BY <2>1, <2>2
  <1> QED  BY <1>1, <1>2 DEF DInv

\* DInv is an invariant of the composition.
THEOREM DeliveryInvariant == DeliverySpec => []DInv
  BY InitDInv, NextDInv, PTL DEF DeliverySpec

\* Type correctness of the composition: the relay's rows and workers, and the
\* ledger and the transactions of the consumer.
THEOREM DeliveryTypes == DeliverySpec => []DeliveryTypeOK
  <1>1. DInv => DeliveryTypeOK
    BY DEF DInv, Inv, ConsumerInv, DeliveryTypeOK
  <1> QED  BY <1>1, DeliveryInvariant, PTL

-----------------------------------------------------------------------------
(* The refinement *)

LEMMA InitRefines == DeliveryInit => Promise!AbstractInit
  BY DEF DeliveryInit, Init, Promise!AbstractInit, AbstractState

\* A settle is an acknowledgement, a dead letter or (a retry, or no lease) nothing.
LEMMA SettleRefines ==
    ASSUME DInv, NEW w \in Workers, RecordSuccess(w) \/ RecordFailure(w), UNCHANGED consumer
    PROVE  [Promise!AbstractNext]_(Promise!abstractVars)
  <1> USE DEF AbstractState, Promise!abstractVars
  <1>0. current[w] \in Events
    BY DEF RecordSuccess, Delivered, RecordFailure, DInv, Inv, TypeOK, WorkerShape
  <1>1. PICK e \in Events : e = current[w] /\ UNCHANGED runs
    BY <1>0 DEF consumer
  <1>2. CASE ~ Holds(w, e)
    <2>1. UNCHANGED status
      BY <1>1, <1>2 DEF RecordSuccess, RecordFailure, Settle, rows
    <2> QED  BY <1>1, <2>1
  <1>3. CASE Holds(w, e) /\ RecordSuccess(w)
    <2>1. status[e] = "claimed" /\ status' = [status EXCEPT ![e] = "sent"] /\ runs[e] = 1
      BY <1>1, <1>3 DEF RecordSuccess, Delivered, Settle, Holds, DInv, Inv, TypeOK,
                        SuccessEarned, ConsumerInv, DeliveredWasEnqueued
    <2>2. Promise!Acknowledge(e)
      BY <1>1, <2>1 DEF Promise!Acknowledge, DInv, Inv, TypeOK
    <2> QED  BY <1>1, <2>2 DEF Promise!AbstractNext
  <1>4. CASE Holds(w, e) /\ RecordFailure(w)
    <2>1. status[e] = "claimed" /\ \E st \in {"pending", "dead"} : status' = [status EXCEPT ![e] = st]
      BY <1>1, <1>4 DEF RecordFailure, Settle, Holds
    <2>2. CASE status' = [status EXCEPT ![e] = "pending"]
      BY <1>1, <2>1, <2>2 DEF DInv, Inv, TypeOK
    <2>3. CASE status' = [status EXCEPT ![e] = "dead"]
      <3>1. Promise!GiveUp(e)
        BY <1>1, <2>1, <2>3 DEF Promise!GiveUp, DInv, Inv, TypeOK
      <3> QED  BY <1>1, <3>1 DEF Promise!AbstractNext
    <2> QED  BY <2>1, <2>2, <2>3
  <1> QED  BY <1>2, <1>3, <1>4

\* A durable commit applies the event, once.
LEMMA CommitRefines ==
    ASSUME DInv, NEW w \in Workers, CommitOk(w) \/ CommitAnswerLost(w)
    PROVE  [Promise!AbstractNext]_(Promise!abstractVars)
  <1> DEFINE e == txnEvent[w]
  <1> USE DEF AbstractState, Promise!abstractVars
  <1>1. /\ UNCHANGED rows /\ Publishes(w) /\ e \in batch[w] /\ e \in Events
        /\ txn[w] \in {"inserted", "replayed"}
    BY DEF CommitOk, CommitAnswerLost, DeliverOk, DeliverFail, Begin, DInv, Inv, TypeOK
  <1>2. CASE txn[w] = "replayed"
    BY <1>1, <1>2 DEF Publishes, rows
  <1>3. CASE txn[w] = "inserted"
    <2>1. runs[e] = 0 /\ status[e] # "absent"
      BY <1>1, <1>3 DEF DInv, ConsumerInv, DeliveredWasEnqueued
    <2>2. runs' = [runs EXCEPT ![e] = 1] /\ UNCHANGED status
      BY <1>1, <1>3, <2>1 DEF Publishes, rows
    <2>3. Promise!Apply(e)
      BY <1>1, <2>1, <2>2 DEF Promise!Apply, DInv, Inv, TypeOK
    <2> QED  BY <1>1, <2>3 DEF Promise!AbstractNext
  <1> QED  BY <1>1, <1>2, <1>3

LEMMA StepRefines ==
    ASSUME DInv, [DeliveryNext]_deliveryVars
    PROVE  [Promise!AbstractNext]_(Promise!abstractVars)
  <1> USE DEF AbstractState, Promise!abstractVars
  <1>1. ASSUME NEW e \in Events, PlatformEnqueue(e)
        PROVE  [Promise!AbstractNext]_(Promise!abstractVars)
    <2>1. Promise!Publish(e)
      BY <1>1 DEF PlatformEnqueue, Enqueue, consumer, Promise!Publish, DInv, Inv, TypeOK
    <2> QED  BY <2>1 DEF Promise!AbstractNext
  <1>2. ASSUME NEW w \in Workers, ClaimPlatformBatch(w)
        PROVE  [Promise!AbstractNext]_(Promise!abstractVars)
    <2>1. \A e \in Events :
             \/ status'[e] = status[e]
             \/ status[e] \in {"pending", "claimed"} /\ status'[e] = "claimed"
      BY <1>2 DEF ClaimPlatformBatch, Claim, Ready, DInv, Inv, TypeOK
    <2>2. UNCHANGED runs
      BY <1>2 DEF ClaimPlatformBatch, consumer
    <2>3. AbstractState' = AbstractState
      BY <2>1
    <2> QED  BY <2>2, <2>3
  <1>3. ASSUME NEW w \in Workers,
               \/ \E e \in Events : Consume(w, e)
               \/ Insert(w) \/ ConsumerFails(w) \/ PlatformCrash(w)
        PROVE  UNCHANGED <<status, runs>>
    BY <1>3 DEF Consume, Insert, ConsumerFails, DeliverFail, PlatformCrash, Crash, vars, rows
  <1>4. ASSUME PlatformTick PROVE UNCHANGED <<status, runs>>
    BY <1>4 DEF PlatformTick, Tick, consumer
  <1>5. ASSUME UNCHANGED deliveryVars PROVE UNCHANGED <<status, runs>>
    BY <1>5 DEF deliveryVars, vars, rows, consumer
  <1>6. ASSUME UNCHANGED <<status, runs>>
        PROVE  [Promise!AbstractNext]_(Promise!abstractVars)
    BY <1>6
  <1> QED
    BY <1>1, <1>2, <1>3, <1>4, <1>5, <1>6, SettleRefines, CommitRefines
       DEF DeliveryNext, PlatformStep, PlatformRecordSuccess, PlatformRecordFailure

\* The platform relay with a process_once_platform consumer delivers every
\* event's effect at most once, and acknowledges it only after its effect.
THEOREM DeliveryIsExactlyOnce == DeliverySpec => ImplementsExactlyOnce
  BY InitRefines, StepRefines, DeliveryInvariant, PTL
     DEF DeliverySpec, ImplementsExactlyOnce, Promise!AbstractSpec

=============================================================================
