--------------------- MODULE IntegrationDispatchProofs ---------------------
(***************************************************************************)
(* What holds of IntegrationDispatch for every number of deliveries,       *)
(* workers, operators and reconcilers, every budget and every ceiling.     *)
(***************************************************************************)
EXTENDS IntegrationDispatch, FiniteSetTheorems, TLAPS

\* What the phase of a process says about its record.
LEMMA PhaseOfWorker ==
    ASSUME TypeOK, NEW w \in Workers
    PROVE  /\ worker[w].pc = "admitted" =>
                worker[w] \in [pc : {"admitted"}, d : Deliveries]
           /\ worker[w].pc = "calling" =>
                worker[w] \in [pc : {"calling"}, d : Deliveries, attempt : Nat, claim : Nat]
           /\ worker[w].pc = "returned" =>
                worker[w] \in [pc : {"returned"}, d : Deliveries, attempt : Nat, claim : Nat,
                               outcome : Outcome]
  BY DEF TypeOK, WorkerState, Idle

LEMMA PhaseOfOperator ==
    ASSUME TypeOK, NEW o \in Operators, operator[o].pc = "read"
    PROVE  operator[o] \in [pc : {"read"}, d : Deliveries, state : State, attempts : Nat,
                           claim : Nat]
  BY DEF TypeOK, OperatorState, Idle

LEMMA PhaseOfSubject ==
    ASSUME TypeOK, NEW r \in Reconcilers
    PROVE  /\ subject[r].pc = "probing" =>
                subject[r] \in [pc : {"probing"}, d : Deliveries, attempts : Nat, claim : Nat]
           /\ subject[r].pc = "evidence" =>
                subject[r] \in [pc : {"evidence"}, d : Deliveries, attempts : Nat, claim : Nat,
                                verdict : {"landed", "not_landed", "unknown"}]
  BY DEF TypeOK, SubjectState, Idle

\* next_state answers with a state of the row, and takes it out of flight.
LEMMA NextStateType ==
    ASSUME NEW outcome \in Outcome, NEW n \in Nat
    PROVE  next_state(outcome, n) \in State \ {"in_flight"}
  <1>1. classify(outcome) \in OutcomeStatus
    BY DEF classify, Outcome, OutcomeStatus
  <1> HIDE DEF classify
  <1>2. CASE classify(outcome) = "succeeded"
    BY <1>2, Zenon DEF next_state, State
  <1>3. CASE classify(outcome) = "reconciliation_required"
    BY <1>3, Zenon DEF next_state, State
  <1>4. CASE classify(outcome) = "terminal"
    BY <1>4, Zenon DEF next_state, State
  <1>5. CASE classify(outcome) = "retryable"
    BY <1>5, Zenon DEF next_state, State
  <1> QED BY <1>1, <1>2, <1>3, <1>4, <1>5 DEF OutcomeStatus

\* An excuse keeps the counters natural numbers.
LEMMA ExcuseType ==
    ASSUME TypeOK, NEW S, Excuse(S)
    PROVE  excused' \in [Deliveries -> Nat]
  BY DEF TypeOK, Excuse

-----------------------------------------------------------------------------
(* Types *)

LEMMA InitType == Init => TypeOK
  BY DEF Init, TypeOK, State, Lease, WorkerState, OperatorState, SubjectState, Idle

LEMMA AdmitType ==
    ASSUME TypeOK, NEW w \in Workers, NEW d \in Deliveries, Admit(w, d) PROVE TypeOK'
  <1>1. [pc |-> "admitted", d |-> d] \in WorkerState
    BY DEF WorkerState
  <1> QED BY <1>1 DEF TypeOK, Admit, rows

LEMMA ClaimType == ASSUME TypeOK, NEW w \in Workers, Claim(w) PROVE TypeOK'
  <1> DEFINE d == worker[w].d
  <1>1. d \in Deliveries
    BY PhaseOfWorker DEF Claim
  <1>2. claims[d] \in Nat /\ attempts[d] \in Nat
    BY <1>1 DEF TypeOK
  <1>3. [pc |-> "calling", d |-> d, attempt |-> attempts[d] + 1, claim |-> claims[d] + 1]
            \in WorkerState
    BY <1>1, <1>2 DEF WorkerState
  <1>4. worker' \in [Workers -> WorkerState]
    BY <1>3 DEF Claim, TypeOK
  <1>5. /\ claims' \in [Deliveries -> Nat]
        /\ attempts' \in [Deliveries -> Nat]
        /\ state' \in [Deliveries -> State]
        /\ lease' \in [Deliveries -> Lease]
    BY <1>1, <1>2 DEF Claim, TypeOK, State, Lease
  <1> QED BY <1>4, <1>5 DEF Claim, TypeOK

\* A worker that becomes idle leaves the types alone.
LEMMA IdleType ==
    ASSUME TypeOK, NEW w \in Workers, worker' = [worker EXCEPT ![w] = Idle]
    PROVE  worker' \in [Workers -> WorkerState]
  BY DEF TypeOK, WorkerState

LEMMA InvokeType == ASSUME TypeOK, NEW w \in Workers, Invoke(w) PROVE TypeOK'
  <1>1. worker[w] \in [pc : {"calling"}, d : Deliveries, attempt : Nat, claim : Nat]
    BY PhaseOfWorker DEF Invoke
  <1>2. PICK outcome \in Outcome : \E lands \in MayLand(outcome) :
            /\ landed' = IF lands THEN [landed EXCEPT ![worker[w].d] = @ + 1] ELSE landed
            /\ worker' = [worker EXCEPT ![w] =
                    [pc |-> "returned", d |-> worker[w].d, attempt |-> worker[w].attempt,
                     claim |-> worker[w].claim, outcome |-> outcome]]
    BY Zenon DEF Invoke
  <1>3. [pc |-> "returned", d |-> worker[w].d, attempt |-> worker[w].attempt,
         claim |-> worker[w].claim, outcome |-> outcome] \in WorkerState
    BY <1>1 DEF WorkerState
  <1>4. worker' \in [Workers -> WorkerState]
    BY <1>2, <1>3 DEF TypeOK
  <1>5. landed' = landed \/ landed' = [landed EXCEPT ![worker[w].d] = @ + 1]
    BY <1>2
  <1>6. landed' \in [Deliveries -> Nat]
    BY <1>1, <1>5 DEF TypeOK
  <1> QED BY <1>4, <1>6 DEF Invoke, TypeOK, rows

LEMMA SettleType == ASSUME TypeOK, NEW w \in Workers, Settle(w) PROVE TypeOK'
  <1> DEFINE next == next_state(worker[w].outcome, worker[w].attempt)
  <1>1. worker[w] \in [pc : {"returned"}, d : Deliveries, attempt : Nat, claim : Nat,
                       outcome : Outcome]
    BY PhaseOfWorker DEF Settle
  <1>2. next \in State
    BY <1>1, NextStateType
  <1>3. /\ state' = [state EXCEPT ![worker[w].d] = next]
        /\ lease' = [lease EXCEPT ![worker[w].d] = "none"]
        /\ due' = [x \in Deliveries |->
                        IF x \in Cooled(w) THEN FALSE
                        ELSE IF x = worker[w].d THEN next # "retryable" ELSE due[x]]
    BY DEF Settle
  <1> HIDE DEF next
  <1>4. due' \in [Deliveries -> BOOLEAN]
    BY <1>3 DEF TypeOK
  <1>5. state' \in [Deliveries -> State] /\ lease' \in [Deliveries -> Lease]
    BY <1>1, <1>2, <1>3 DEF TypeOK, Lease
  <1> QED BY <1>4, <1>5, IdleType DEF Settle, TypeOK

LEMMA ReplayWriteType == ASSUME TypeOK, NEW o \in Operators, ReplayWrite(o) PROVE TypeOK'
  <1>1. operator[o] \in [pc : {"read"}, d : Deliveries, state : State, attempts : Nat,
                           claim : Nat]
    BY PhaseOfOperator DEF ReplayWrite
  <1>2. /\ state' \in [Deliveries -> State]
        /\ attempts' \in [Deliveries -> Nat]
        /\ due' \in [Deliveries -> BOOLEAN]
    BY <1>1 DEF ReplayWrite, TypeOK, State
  <1>3. excused' \in [Deliveries -> Nat]
    BY ExcuseType DEF ReplayWrite, TypeOK
  <1> QED BY <1>2, <1>3 DEF ReplayWrite, TypeOK, OperatorState

LEMMA ReconcileType == ASSUME TypeOK, NEW r \in Reconcilers, Reconcile(r) PROVE TypeOK'
  <1>1. subject[r].d \in Deliveries
    BY PhaseOfSubject DEF Reconcile
  <1>2. /\ state' \in [Deliveries -> State]
        /\ attempts' \in [Deliveries -> Nat]
        /\ lease' \in [Deliveries -> Lease]
        /\ due' \in [Deliveries -> BOOLEAN]
    BY <1>1 DEF Reconcile, TypeOK, State, Lease
  <1>3. excused' \in [Deliveries -> Nat]
    BY ExcuseType DEF Reconcile, TypeOK
  <1> QED BY <1>2, <1>3 DEF Reconcile, TypeOK, SubjectState

LEMMA ProbeType == ASSUME TypeOK, NEW r \in Reconcilers, Probe(r) PROVE TypeOK'
  <1>1. subject[r] \in [pc : {"probing"}, d : Deliveries, attempts : Nat, claim : Nat]
    BY PhaseOfSubject DEF Probe
  <1>2. PICK verdict \in {"landed", "not_landed", "unknown"} :
            subject' = [subject EXCEPT ![r] =
                [pc |-> "evidence", d |-> subject[r].d, attempts |-> subject[r].attempts,
                 claim |-> subject[r].claim, verdict |-> verdict]]
    BY DEF Probe
  <1>3. [pc |-> "evidence", d |-> subject[r].d, attempts |-> subject[r].attempts,
         claim |-> subject[r].claim, verdict |-> verdict] \in SubjectState
    BY <1>1 DEF SubjectState
  <1> QED BY <1>2, <1>3 DEF Probe, TypeOK, rows

\* Every step keeps the types.
LEMMA NextType == TypeOK /\ [Next]_vars => TypeOK'
  <1> SUFFICES ASSUME TypeOK, [Next]_vars PROVE TypeOK'
    OBVIOUS
  <1>1. ASSUME NEW d \in Deliveries, Enqueue(d) PROVE TypeOK'
    BY <1>1 DEF TypeOK, Enqueue, State
  <1>2. ASSUME NEW d \in Deliveries, LeaseExpires(d) PROVE TypeOK'
    BY <1>2, ExcuseType DEF LeaseExpires, TypeOK, Lease
  <1>3. ASSUME NEW d \in Deliveries, ComesDue(d) PROVE TypeOK'
    BY <1>3 DEF ComesDue, TypeOK
  <1>4. ASSUME NEW w \in Workers, WorkerStep(w) PROVE TypeOK'
    <2>1. CASE \E d \in Deliveries : Admit(w, d)
      BY <2>1, AdmitType
    <2>2. CASE ClaimLost(w)
      BY <2>2, IdleType DEF ClaimLost, TypeOK, rows
    <2>3. CASE SettleRefused(w)
      BY <2>3, IdleType DEF SettleRefused, TypeOK, rows
    <2>4. CASE Crash(w)
      BY <2>4, IdleType DEF Crash, TypeOK, rows
    <2> QED BY <1>4, <2>1, <2>2, <2>3, <2>4, ClaimType, InvokeType, SettleType DEF WorkerStep
  <1>5. CASE ReleaseSelect
    BY <1>5 DEF ReleaseSelect, TypeOK, rows
  <1>6. CASE ReleaseWrite
    BY <1>6, ExcuseType DEF ReleaseWrite, TypeOK, State, Lease
  <1>7. ASSUME NEW o \in Operators, NEW d \in Deliveries, ReplayRead(o, d) PROVE TypeOK'
    <2>1. [pc |-> "read", d |-> d, state |-> state[d], attempts |-> attempts[d],
           claim |-> claims[d]] \in OperatorState
      BY DEF TypeOK, OperatorState
    <2> QED BY <1>7, <2>1 DEF ReplayRead, TypeOK, rows
  <1>8. ASSUME NEW r \in Reconcilers, NEW d \in Deliveries, PrepareReconciliation(r, d)
        PROVE  TypeOK'
    <2>1. [pc |-> "probing", d |-> d, attempts |-> attempts[d], claim |-> claims[d]]
              \in SubjectState
      BY DEF TypeOK, SubjectState
    <2> QED BY <1>8, <2>1 DEF PrepareReconciliation, TypeOK, rows
  <1>9. ASSUME NEW r \in Reconcilers, ReconcileNothing(r) PROVE TypeOK'
    BY <1>9 DEF ReconcileNothing, TypeOK, SubjectState, rows
  <1>10. CASE UNCHANGED vars
    BY <1>10 DEF vars, TypeOK, rows
  <1> QED BY <1>1, <1>2, <1>3, <1>4, <1>5, <1>6, <1>7, <1>8, <1>9, <1>10,
             ReplayWriteType, ReconcileType, ProbeType DEF Next, Repair

\* The types, for every instance: among them, that settle and the repairs
\* write no state that ck_delivery_attempts_state refuses.
THEOREM TypesHold == Spec => []TypeOK
  BY InitType, NextType, PTL DEF Spec

-----------------------------------------------------------------------------
(* Fencing *)

\* Counted attempts never outrun granted claims, in the row or in a copy of it.
Ordered ==
    /\ \A d \in Deliveries : attempts[d] <= claims[d]
    /\ \A w \in Workers : worker[w].pc \in {"calling", "returned"} =>
          worker[w].attempt <= worker[w].claim /\ worker[w].claim <= claims[worker[w].d]
    /\ \A r \in Reconcilers : subject[r].pc \in {"probing", "evidence"} =>
          subject[r].attempts <= subject[r].claim /\ subject[r].claim <= claims[subject[r].d]

\* A step that touches neither counter and puts every copy aside or keeps it.
LEMMA OrderedFrame ==
    ASSUME TypeOK, Ordered, attempts' \in [Deliveries -> Nat], UNCHANGED claims,
           \A d \in Deliveries : attempts'[d] <= attempts[d],
           \A w \in Workers : worker'[w] = worker[w] \/ worker'[w].pc \in {"idle", "admitted"},
           \A r \in Reconcilers : subject'[r] = subject[r] \/ subject'[r].pc = "idle"
    PROVE  Ordered'
  BY DEF Ordered, TypeOK

LEMMA OrderedStep ==
    ASSUME TypeOK, TypeOK', Ordered, Next
    PROVE  Ordered'
  <1>1. ASSUME NEW w \in Workers, Claim(w) PROVE Ordered'
    <2> DEFINE d == worker[w].d
    <2>1. d \in Deliveries
      BY <1>1, PhaseOfWorker DEF Claim
    <2>2. /\ attempts' = [attempts EXCEPT ![d] = @ + 1]
          /\ claims' = [claims EXCEPT ![d] = @ + 1]
          /\ worker' = [worker EXCEPT ![w] =
                [pc |-> "calling", d |-> d, attempt |-> attempts[d] + 1,
                 claim |-> claims[d] + 1]]
          /\ UNCHANGED subject
      BY <1>1 DEF Claim
    <2>3. \A x \in Deliveries : claims'[x] >= claims[x] /\ attempts'[x] <= claims'[x]
      BY <2>1, <2>2 DEF TypeOK, Ordered
    <2>4. ASSUME NEW v \in Workers, worker'[v].pc \in {"calling", "returned"}
          PROVE  /\ worker'[v].attempt <= worker'[v].claim
                 /\ worker'[v].claim <= claims'[worker'[v].d]
      <3>1. CASE v = w
        BY <2>1, <2>2, <3>1 DEF TypeOK, Ordered
      <3>2. CASE v # w
        <4>1. worker'[v] = worker[v]
          BY <2>2, <3>2 DEF TypeOK
        <4>2. worker[v].d \in Deliveries /\ worker[v].claim \in Nat
          BY <2>4, <4>1, PhaseOfWorker
        <4> QED BY <2>3, <2>4, <4>1, <4>2 DEF TypeOK, Ordered
      <3> QED BY <3>1, <3>2
    <2>5. ASSUME NEW r \in Reconcilers, subject'[r].pc \in {"probing", "evidence"}
          PROVE  /\ subject'[r].attempts <= subject'[r].claim
                 /\ subject'[r].claim <= claims'[subject'[r].d]
      <3>1. subject'[r] = subject[r]
        BY <2>2
      <3>2. subject[r].d \in Deliveries /\ subject[r].claim \in Nat
        BY <2>5, <3>1, PhaseOfSubject
      <3> QED BY <2>3, <2>5, <3>1, <3>2 DEF TypeOK, Ordered
    <2> QED BY <2>3, <2>4, <2>5 DEF Ordered
  <1>2. ASSUME NEW w \in Workers, Invoke(w) PROVE Ordered'
    <2>1. worker[w] \in [pc : {"calling"}, d : Deliveries, attempt : Nat, claim : Nat]
      BY <1>2, PhaseOfWorker DEF Invoke
    <2>2. PICK outcome \in Outcome : worker' = [worker EXCEPT ![w] =
              [pc |-> "returned", d |-> worker[w].d, attempt |-> worker[w].attempt,
               claim |-> worker[w].claim, outcome |-> outcome]]
      BY <1>2 DEF Invoke
    <2>3. UNCHANGED <<attempts, claims, subject>>
      BY <1>2 DEF Invoke, rows
    <2> QED BY <1>2, <2>1, <2>2, <2>3 DEF Invoke, TypeOK, Ordered
  <1>3. ASSUME NEW r \in Reconcilers, NEW d \in Deliveries, PrepareReconciliation(r, d)
        PROVE  Ordered'
    <2>1. /\ subject' = [subject EXCEPT ![r] = [pc |-> "probing", d |-> d,
                            attempts |-> attempts[d], claim |-> claims[d]]]
          /\ UNCHANGED <<attempts, claims, worker>>
      BY <1>3 DEF PrepareReconciliation, rows
    <2> QED BY <2>1 DEF TypeOK, Ordered
  <1>4. ASSUME NEW r \in Reconcilers, Probe(r) PROVE Ordered'
    <2>1. subject[r].pc = "probing"
      BY <1>4 DEF Probe
    <2>2. PICK verdict : subject' = [subject EXCEPT ![r] =
              [pc |-> "evidence", d |-> subject[r].d, attempts |-> subject[r].attempts,
               claim |-> subject[r].claim, verdict |-> verdict]]
      BY <1>4 DEF Probe
    <2>3. UNCHANGED <<attempts, claims, worker>>
      BY <1>4 DEF Probe, rows
    <2> QED BY <2>1, <2>2, <2>3 DEF TypeOK, Ordered
  <1>5. ASSUME NEW w \in Workers, NEW d \in Deliveries, Admit(w, d) PROVE Ordered'
    <2>1. UNCHANGED <<attempts, claims, subject>>
      BY <1>5 DEF Admit, rows
    <2>2. \A v \in Workers : worker'[v] = worker[v] \/ worker'[v].pc = "admitted"
      BY <1>5 DEF Admit, TypeOK
    <2> QED BY <2>1, <2>2, OrderedFrame DEF TypeOK
  <1>6. ASSUME NEW w \in Workers,
               ClaimLost(w) \/ Settle(w) \/ SettleRefused(w) \/ Crash(w)
        PROVE  Ordered'
    <2>1. UNCHANGED <<attempts, claims, subject>>
      BY <1>6 DEF ClaimLost, Settle, SettleRefused, Crash, rows
    <2>2. worker' = [worker EXCEPT ![w] = Idle]
      BY <1>6 DEF ClaimLost, Settle, SettleRefused, Crash
    <2>3. \A v \in Workers : worker'[v] = worker[v] \/ worker'[v].pc = "idle"
      BY <2>2 DEF TypeOK, Idle
    <2> QED BY <2>1, <2>3, OrderedFrame DEF TypeOK
  <1>7. ASSUME NEW d \in Deliveries, Enqueue(d) \/ LeaseExpires(d) \/ ComesDue(d)
        PROVE  Ordered'
    BY <1>7, OrderedFrame DEF Enqueue, LeaseExpires, ComesDue, TypeOK
  <1>8. CASE ReleaseSelect \/ ReleaseWrite
    BY <1>8, OrderedFrame DEF ReleaseSelect, ReleaseWrite, rows, TypeOK
  <1>9. ASSUME NEW o \in Operators, NEW d \in Deliveries, ReplayRead(o, d) PROVE Ordered'
    BY <1>9, OrderedFrame DEF ReplayRead, rows, TypeOK
  <1>10. ASSUME NEW o \in Operators, ReplayWrite(o) PROVE Ordered'
    <2>1. operator[o].d \in Deliveries
      BY <1>10, PhaseOfOperator DEF ReplayWrite
    <2>2. \A d \in Deliveries : attempts'[d] <= attempts[d]
      BY <1>10, <2>1 DEF ReplayWrite, TypeOK
    <2> QED BY <1>10, <2>2, OrderedFrame DEF ReplayWrite, TypeOK
  <1>11. ASSUME NEW r \in Reconcilers, Reconcile(r) \/ ReconcileNothing(r) PROVE Ordered'
    <2>1. subject[r].d \in Deliveries
      BY <1>11, PhaseOfSubject DEF Reconcile, ReconcileNothing
    <2>2. \A d \in Deliveries : attempts'[d] <= attempts[d]
      BY <1>11, <2>1 DEF Reconcile, ReconcileNothing, rows, TypeOK
    <2>3. subject' = [subject EXCEPT ![r] = Idle] /\ UNCHANGED <<worker, claims>>
      BY <1>11 DEF Reconcile, ReconcileNothing
    <2>4. \A q \in Reconcilers : subject'[q] = subject[q] \/ subject'[q].pc = "idle"
      BY <2>3 DEF TypeOK, Idle
    <2> QED BY <2>2, <2>3, <2>4, OrderedFrame DEF TypeOK
  <1> QED BY <1>1, <1>2, <1>3, <1>4, <1>5, <1>6, <1>7, <1>8, <1>9, <1>10, <1>11
          DEF Next, WorkerStep, Repair

LEMMA OrderedHolds == Spec => []Ordered
  <1>1. Init => Ordered
    BY DEF Init, Ordered, Idle
  <1>2. TypeOK /\ TypeOK' /\ Ordered /\ [Next]_vars => Ordered'
    <2>1. CASE UNCHANGED vars
      BY <2>1 DEF vars, rows, Ordered
    <2> QED BY <2>1, OrderedStep
  <1> QED BY <1>1, <1>2, TypesHold, PTL DEF Spec

\* Until a reset, settle accepts only the latest claim and reconcile_with_evidence
\* only evidence on the latest attempt.
THEOREM TakeoversFence == Spec => []FencedUntilReset
  <1>1. TypeOK /\ Ordered => FencedUntilReset
    <2> SUFFICES ASSUME TypeOK, Ordered PROVE FencedUntilReset
      OBVIOUS
    <2>1. ASSUME NEW w \in Workers, worker[w].pc = "returned", HoldsClaim(w),
                 attempts[worker[w].d] = claims[worker[w].d]
          PROVE  worker[w].claim = claims[worker[w].d]
      <3>1. worker[w].d \in Deliveries /\ worker[w].claim \in Nat /\ worker[w].attempt \in Nat
        BY <2>1, PhaseOfWorker
      <3>2. worker[w].attempt <= worker[w].claim /\ worker[w].claim <= claims[worker[w].d]
        BY <2>1 DEF Ordered
      <3>3. attempts[worker[w].d] = worker[w].attempt
        BY <2>1 DEF HoldsClaim
      <3> QED BY <2>1, <3>1, <3>2, <3>3 DEF TypeOK
    <2>2. ASSUME NEW r \in Reconcilers, subject[r].pc = "evidence", StillAmbiguous(r),
                 attempts[subject[r].d] = claims[subject[r].d]
          PROVE  subject[r].claim = claims[subject[r].d]
      <3>1. subject[r].d \in Deliveries /\ subject[r].claim \in Nat
        BY <2>2, PhaseOfSubject
      <3>2. subject[r].attempts <= subject[r].claim /\ subject[r].claim <= claims[subject[r].d]
        BY <2>2 DEF Ordered
      <3> QED BY <2>2, <3>1, <3>2 DEF StillAmbiguous, TypeOK
    <2> QED BY <2>1, <2>2 DEF FencedUntilReset
  <1> QED BY <1>1, OrderedHolds, TypesHold, PTL

-----------------------------------------------------------------------------
(* Delivered means landed *)

\* A success reported, and evidence of an effect, are about an effect that landed.
ReportsAreTrue ==
    /\ \A w \in Workers : worker[w].pc = "returned" /\ worker[w].outcome.status = "succeeded" =>
          landed[worker[w].d] > 0
    /\ \A r \in Reconcilers : subject[r].pc = "evidence" /\ subject[r].verdict = "landed" =>
          landed[subject[r].d] > 0

Truth == DeliveredReallyLanded /\ ReportsAreTrue

\* Only a success is settled as delivered.
LEMMA DeliveredIsSucceeded ==
    ASSUME NEW outcome \in Outcome, NEW n \in Nat, next_state(outcome, n) = "delivered"
    PROVE  outcome.status = "succeeded"
  <1>1. classify(outcome) \in OutcomeStatus
    BY DEF classify, Outcome, OutcomeStatus
  <1>2. classify(outcome) = "succeeded" => outcome.status = "succeeded"
    BY DEF classify
  <1> HIDE DEF classify
  <1>3. CASE classify(outcome) = "reconciliation_required"
    BY <1>3, Zenon DEF next_state
  <1>4. CASE classify(outcome) = "terminal"
    BY <1>4, Zenon DEF next_state
  <1>5. CASE classify(outcome) = "retryable"
    BY <1>5, Zenon DEF next_state
  <1> QED BY <1>1, <1>2, <1>3, <1>4, <1>5 DEF OutcomeStatus

\* A step that delivers nothing, reports nothing and takes back no effect.
LEMMA TruthFrame ==
    ASSUME TypeOK, TypeOK', Truth,
           \A d \in Deliveries : landed'[d] >= landed[d],
           \A d \in Deliveries : state'[d] = "delivered" => state[d] = "delivered",
           \A w \in Workers : worker'[w] = worker[w] \/ worker'[w].pc # "returned",
           \A r \in Reconcilers : subject'[r] = subject[r] \/ subject'[r].pc # "evidence"
    PROVE  Truth'
  <1>1. \A d \in Deliveries : landed[d] > 0 => landed'[d] > 0
    BY DEF TypeOK
  <1>2. DeliveredReallyLanded'
    BY <1>1 DEF Truth, DeliveredReallyLanded
  <1>3. ASSUME NEW w \in Workers, worker'[w].pc = "returned",
               worker'[w].outcome.status = "succeeded"
        PROVE  landed'[worker'[w].d] > 0
    <2>1. worker'[w] = worker[w]
      BY <1>3
    <2>2. worker[w].d \in Deliveries
      BY <1>3, <2>1, PhaseOfWorker
    <2> QED BY <1>1, <1>3, <2>1, <2>2 DEF Truth, ReportsAreTrue
  <1>4. ASSUME NEW r \in Reconcilers, subject'[r].pc = "evidence",
               subject'[r].verdict = "landed"
        PROVE  landed'[subject'[r].d] > 0
    <2>1. subject'[r] = subject[r]
      BY <1>4
    <2>2. subject[r].d \in Deliveries
      BY <1>4, <2>1, PhaseOfSubject
    <2> QED BY <1>1, <1>4, <2>1, <2>2 DEF Truth, ReportsAreTrue
  <1> QED BY <1>2, <1>3, <1>4 DEF Truth, ReportsAreTrue

LEMMA TruthStep ==
    ASSUME TypeOK, TypeOK', Truth, Next
    PROVE  Truth'
  <1>1. ASSUME NEW w \in Workers, Settle(w) PROVE Truth'
    <2> DEFINE d == worker[w].d
               next == next_state(worker[w].outcome, worker[w].attempt)
    <2>1. worker[w] \in [pc : {"returned"}, d : Deliveries, attempt : Nat, claim : Nat,
                         outcome : Outcome]
      BY <1>1, PhaseOfWorker DEF Settle
    <2>2. /\ state' = [state EXCEPT ![d] = next]
          /\ worker' = [worker EXCEPT ![w] = Idle]
          /\ UNCHANGED <<subject, landed>>
          /\ worker[w].pc = "returned"
      BY <1>1 DEF Settle
    <2>3. next = "delivered" => landed[d] > 0
      BY <2>1, <2>2, DeliveredIsSucceeded DEF Truth, ReportsAreTrue
    <2> HIDE DEF next
    <2>4. DeliveredReallyLanded'
      BY <2>1, <2>2, <2>3 DEF Truth, DeliveredReallyLanded, TypeOK
    <2>5. ReportsAreTrue'
      BY <2>2 DEF Truth, ReportsAreTrue, TypeOK, Idle
    <2> QED BY <2>4, <2>5 DEF Truth
  <1>2. ASSUME NEW w \in Workers, Invoke(w) PROVE Truth'
    <2> DEFINE d == worker[w].d
    <2>1. worker[w] \in [pc : {"calling"}, d : Deliveries, attempt : Nat, claim : Nat]
      BY <1>2, PhaseOfWorker DEF Invoke
    <2>2. PICK outcome \in Outcome : \E lands \in MayLand(outcome) :
            /\ landed' = IF lands THEN [landed EXCEPT ![d] = @ + 1] ELSE landed
            /\ worker' = [worker EXCEPT ![w] =
                  [pc |-> "returned", d |-> d, attempt |-> worker[w].attempt,
                   claim |-> worker[w].claim, outcome |-> outcome]]
      BY <1>2 DEF Invoke
    <2>3. PICK lands \in MayLand(outcome) :
            landed' = IF lands THEN [landed EXCEPT ![d] = @ + 1] ELSE landed
      BY <2>2
    <2>4. UNCHANGED <<state, subject>>
      BY <1>2 DEF Invoke, rows
    <2>5. \A x \in Deliveries : landed'[x] >= landed[x] /\ landed[x] \in Nat
      BY <2>1, <2>2 DEF TypeOK
    <2>6. ASSUME outcome.status = "succeeded" PROVE landed'[d] > 0
      <3>1. MayLand(outcome) = {TRUE}
        BY <2>6, Zenon DEF MayLand
      <3>2. lands = TRUE
        BY <2>3, <3>1, Zenon
      <3>3. landed' = [landed EXCEPT ![d] = @ + 1]
        BY <2>3, <3>2, Zenon
      <3> QED BY <2>1, <3>3 DEF TypeOK
    <2>7. DeliveredReallyLanded'
      BY <2>4, <2>5 DEF Truth, DeliveredReallyLanded, TypeOK
    <2>8. ASSUME NEW v \in Workers, worker'[v].pc = "returned",
                 worker'[v].outcome.status = "succeeded"
          PROVE  landed'[worker'[v].d] > 0
      <3>1. CASE v = w
        BY <2>1, <2>2, <2>6, <2>8, <3>1 DEF TypeOK
      <3>2. CASE v # w
        <4>1. worker'[v] = worker[v]
          BY <2>2, <3>2 DEF TypeOK
        <4>2. worker[v].d \in Deliveries
          BY <2>8, <4>1, PhaseOfWorker
        <4>3. landed[worker[v].d] > 0
          BY <2>8, <4>1 DEF Truth, ReportsAreTrue
        <4> QED BY <2>5, <4>1, <4>2, <4>3 DEF TypeOK
      <3> QED BY <3>1, <3>2
    <2>9. ASSUME NEW r \in Reconcilers, subject'[r].pc = "evidence",
                 subject'[r].verdict = "landed"
          PROVE  landed'[subject'[r].d] > 0
      <3>1. subject[r].d \in Deliveries /\ landed[subject[r].d] > 0
        BY <2>4, <2>9, PhaseOfSubject DEF Truth, ReportsAreTrue
      <3> QED BY <2>4, <2>5, <3>1 DEF TypeOK
    <2> QED BY <2>7, <2>8, <2>9 DEF Truth, ReportsAreTrue
  <1>3. ASSUME NEW r \in Reconcilers, Probe(r) PROVE Truth'
    <2>1. subject[r].pc = "probing" /\ subject[r].d \in Deliveries
      BY <1>3, PhaseOfSubject DEF Probe
    <2>2. PICK verdict \in {"unknown", IF landed[subject[r].d] > 0 THEN "landed"
                                       ELSE "not_landed"} :
              subject' = [subject EXCEPT ![r] =
                 [pc |-> "evidence", d |-> subject[r].d, attempts |-> subject[r].attempts,
                  claim |-> subject[r].claim, verdict |-> verdict]]
      BY <1>3 DEF Probe
    <2>3. UNCHANGED <<state, worker, landed>>
      BY <1>3 DEF Probe, rows
    <2>4. DeliveredReallyLanded'
      BY <2>3 DEF Truth, DeliveredReallyLanded
    <2>5. ReportsAreTrue'
      BY <2>1, <2>2, <2>3 DEF Truth, ReportsAreTrue, TypeOK
    <2> QED BY <2>4, <2>5 DEF Truth
  <1>4. ASSUME NEW r \in Reconcilers, Reconcile(r) PROVE Truth'
    <2>1. subject[r] \in [pc : {"evidence"}, d : Deliveries, attempts : Nat, claim : Nat,
                          verdict : {"landed", "not_landed", "unknown"}]
      BY <1>4, PhaseOfSubject DEF Reconcile
    <2>2. /\ state' = [state EXCEPT ![subject[r].d] =
                          IF subject[r].verdict = "not_landed" THEN "pending" ELSE "delivered"]
          /\ subject' = [subject EXCEPT ![r] = Idle]
          /\ subject[r].pc = "evidence"
          /\ subject[r].verdict # "unknown"
          /\ UNCHANGED <<worker, landed>>
      BY <1>4 DEF Reconcile
    <2>3. subject[r].verdict # "not_landed" => landed[subject[r].d] > 0
      BY <2>1, <2>2 DEF Truth, ReportsAreTrue
    <2>4. DeliveredReallyLanded'
      BY <2>1, <2>2, <2>3 DEF Truth, DeliveredReallyLanded, TypeOK
    <2>5. ReportsAreTrue'
      BY <2>2 DEF Truth, ReportsAreTrue, TypeOK, Idle
    <2> QED BY <2>4, <2>5 DEF Truth
  <1>5. ASSUME NEW w \in Workers, Claim(w) PROVE Truth'
    <2>1. worker[w].d \in Deliveries
      BY <1>5, PhaseOfWorker DEF Claim
    <2>2. \A v \in Workers : worker'[v] = worker[v] \/ worker'[v].pc # "returned"
      BY <1>5 DEF Claim, TypeOK
    <2>3. \A d \in Deliveries : state'[d] = "delivered" => state[d] = "delivered"
      BY <1>5, <2>1 DEF Claim, TypeOK
    <2> QED BY <1>5, <2>2, <2>3, TruthFrame DEF Claim, TypeOK
  <1>6. ASSUME NEW w \in Workers, NEW d \in Deliveries, Admit(w, d) PROVE Truth'
    <2>1. \A v \in Workers : worker'[v] = worker[v] \/ worker'[v].pc # "returned"
      BY <1>6 DEF Admit, TypeOK
    <2> QED BY <1>6, <2>1, TruthFrame DEF Admit, rows, TypeOK
  <1>7. ASSUME NEW w \in Workers, ClaimLost(w) \/ SettleRefused(w) \/ Crash(w) PROVE Truth'
    <2>1. worker' = [worker EXCEPT ![w] = Idle] /\ UNCHANGED <<state, subject, landed>>
      BY <1>7 DEF ClaimLost, SettleRefused, Crash, rows
    <2>2. \A v \in Workers : worker'[v] = worker[v] \/ worker'[v].pc # "returned"
      BY <2>1 DEF TypeOK, Idle
    <2> QED BY <2>1, <2>2, TruthFrame DEF TypeOK
  <1>8. ASSUME NEW d \in Deliveries, Enqueue(d) \/ LeaseExpires(d) \/ ComesDue(d) PROVE Truth'
    BY <1>8, TruthFrame DEF Enqueue, LeaseExpires, ComesDue, TypeOK
  <1>9. CASE ReleaseSelect \/ ReleaseWrite
    BY <1>9, TruthFrame DEF ReleaseSelect, ReleaseWrite, rows, TypeOK
  <1>10. ASSUME NEW o \in Operators, NEW d \in Deliveries, ReplayRead(o, d) PROVE Truth'
    BY <1>10, TruthFrame DEF ReplayRead, rows, TypeOK
  <1>11. ASSUME NEW o \in Operators, ReplayWrite(o) PROVE Truth'
    <2>1. operator[o].d \in Deliveries
      BY <1>11, PhaseOfOperator DEF ReplayWrite
    <2>2. \A d \in Deliveries : state'[d] = "delivered" => state[d] = "delivered"
      BY <1>11, <2>1 DEF ReplayWrite, TypeOK
    <2> QED BY <1>11, <2>2, TruthFrame DEF ReplayWrite, TypeOK
  <1>12. ASSUME NEW r \in Reconcilers, NEW d \in Deliveries, PrepareReconciliation(r, d)
         PROVE  Truth'
    <2>1. \A q \in Reconcilers : subject'[q] = subject[q] \/ subject'[q].pc # "evidence"
      BY <1>12 DEF PrepareReconciliation, TypeOK
    <2> QED BY <1>12, <2>1, TruthFrame DEF PrepareReconciliation, rows, TypeOK
  <1>13. ASSUME NEW r \in Reconcilers, ReconcileNothing(r) PROVE Truth'
    <2>1. \A q \in Reconcilers : subject'[q] = subject[q] \/ subject'[q].pc # "evidence"
      BY <1>13 DEF ReconcileNothing, TypeOK, Idle
    <2> QED BY <1>13, <2>1, TruthFrame DEF ReconcileNothing, rows, TypeOK
  <1> QED BY <1>1, <1>2, <1>3, <1>4, <1>5, <1>6, <1>7, <1>8, <1>9, <1>10, <1>11, <1>12, <1>13
          DEF Next, WorkerStep, Repair

\* No row says delivered without its effect, whoever settled it.
THEOREM DeliveredHasLanded == Spec => []DeliveredReallyLanded
  <1>1. Init => Truth
    BY DEF Init, Truth, DeliveredReallyLanded, ReportsAreTrue, Idle
  <1>2. TypeOK /\ TypeOK' /\ Truth /\ [Next]_vars => Truth'
    <2>1. CASE UNCHANGED vars
      BY <2>1 DEF vars, rows, Truth, DeliveredReallyLanded, ReportsAreTrue
    <2> QED BY <2>1, TruthStep
  <1>3. Truth => DeliveredReallyLanded
    BY DEF Truth
  <1> QED BY <1>1, <1>2, <1>3, TypesHold, PTL DEF Spec

-----------------------------------------------------------------------------
(* The ceiling *)

\* The sizes that the ceiling compares are numbers; a smaller set counts less.
LEMMA Sizes ==
    /\ Cardinality(Workers) \in Nat /\ Cardinality(Workers) >= 1
    /\ \A S \in SUBSET Deliveries : IsFiniteSet(S) /\ Cardinality(S) \in Nat
    /\ \A S \in SUBSET Workers : IsFiniteSet(S) /\ Cardinality(S) \in Nat
    /\ \A S, T \in SUBSET Deliveries : S \subseteq T => Cardinality(S) <= Cardinality(T)
    /\ \A S, T \in SUBSET Workers : S \subseteq T => Cardinality(S) <= Cardinality(T)
  <1>1. \A S \in SUBSET Deliveries : IsFiniteSet(S) /\ Cardinality(S) \in Nat
    BY ConstantsAssumption, FS_Subset, FS_CardinalityType
  <1>2. \A S \in SUBSET Workers : IsFiniteSet(S) /\ Cardinality(S) \in Nat
    BY ConstantsAssumption, FS_Subset, FS_CardinalityType
  <1>3. Cardinality(Workers) \in Nat /\ Cardinality(Workers) >= 1
    <2>1. Cardinality(Workers) \in Nat
      BY <1>2
    <2>2. Cardinality(Workers) # 0
      BY ConstantsAssumption, FS_EmptySet
    <2> QED BY <2>1, <2>2
  <1>4. \A S, T \in SUBSET Deliveries : S \subseteq T => Cardinality(S) <= Cardinality(T)
    BY <1>1, FS_Subset
  <1>5. \A S, T \in SUBSET Workers : S \subseteq T => Cardinality(S) <= Cardinality(T)
    BY <1>2, FS_Subset
  <1> QED BY <1>1, <1>2, <1>3, <1>4, <1>5

\* A step that takes no claim and admits nobody.
LEMMA OvershootFrame ==
    ASSUME OvershootIsBounded, InFlight' \subseteq InFlight, Admitted' \subseteq Admitted
    PROVE  OvershootIsBounded'
  <1>1. InFlight \in SUBSET Deliveries /\ Admitted \in SUBSET Workers
    BY DEF InFlight, Admitted
  <1>2. InFlight' \in SUBSET Deliveries /\ Admitted' \in SUBSET Workers
    BY <1>1
  <1>3. /\ Cardinality(InFlight') <= Cardinality(InFlight)
        /\ Cardinality(Admitted') <= Cardinality(Admitted)
        /\ Cardinality(InFlight') \in Nat /\ Cardinality(InFlight) \in Nat
        /\ Cardinality(Admitted') \in Nat /\ Cardinality(Admitted) \in Nat
    BY <1>1, <1>2, Sizes
  <1>4. Cardinality(InFlight) + Cardinality(Admitted) <= Limit + Cardinality(Workers) - 1
    BY DEF OvershootIsBounded
  <1>5. Cardinality(InFlight') + Cardinality(Admitted') <= Limit + Cardinality(Workers) - 1
    BY <1>3, <1>4, Sizes, ConstantsAssumption
  <1> QED BY <1>5 DEF OvershootIsBounded

LEMMA OvershootStep ==
    ASSUME TypeOK, OvershootIsBounded, Next
    PROVE  OvershootIsBounded'
  <1>1. InFlight \in SUBSET Deliveries /\ Admitted \in SUBSET Workers
    BY DEF InFlight, Admitted
  <1>2. ASSUME NEW w \in Workers, NEW d \in Deliveries, Admit(w, d)
        PROVE  OvershootIsBounded'
    <2>1. InFlight' = InFlight
      BY <1>2 DEF Admit, rows, InFlight
    <2>2. Admitted' = Admitted \cup {w} /\ w \notin Admitted
      BY <1>2 DEF Admit, Admitted, TypeOK, Idle
    <2>3. Cardinality(Admitted') <= Cardinality(Workers) /\ Cardinality(Admitted') \in Nat
      BY <1>1, <2>2, Sizes
    <2>4. Cardinality(InFlight) < Limit /\ Cardinality(InFlight) \in Nat
      BY <1>1, <1>2, Sizes DEF Admit
    <2>5. Cardinality(InFlight') + Cardinality(Admitted') <= Limit + Cardinality(Workers) - 1
      BY <2>1, <2>3, <2>4, Sizes, ConstantsAssumption
    <2> QED BY <2>5 DEF OvershootIsBounded
  <1>3. ASSUME NEW w \in Workers, Claim(w) PROVE OvershootIsBounded'
    <2>1. worker[w].pc = "admitted" /\ worker[w].d \in Deliveries
      BY <1>3, PhaseOfWorker DEF Claim
    <2>2. InFlight' \subseteq InFlight \cup {worker[w].d}
      BY <1>3, <2>1 DEF Claim, InFlight, TypeOK
    <2>3. Admitted' = Admitted \ {w} /\ w \in Admitted
      BY <1>3, <2>1 DEF Claim, Admitted, TypeOK
    <2>4. InFlight \cup {worker[w].d} \in SUBSET Deliveries
      BY <1>1, <2>1
    <2>5. Cardinality(InFlight \cup {worker[w].d}) <= Cardinality(InFlight) + 1
      <3>1. IsFiniteSet(InFlight) /\ Cardinality(InFlight) \in Nat
        BY <1>1, Sizes
      <3> QED BY <3>1, FS_AddElement
    <2>6. Cardinality(InFlight') <= Cardinality(InFlight) + 1 /\ Cardinality(InFlight') \in Nat
      <3>1. InFlight' \in SUBSET Deliveries
        BY <2>2, <2>4
      <3>2. Cardinality(InFlight') <= Cardinality(InFlight \cup {worker[w].d})
        BY <2>2, <2>4, <3>1, Sizes
      <3>3. /\ Cardinality(InFlight') \in Nat /\ Cardinality(InFlight) \in Nat
            /\ Cardinality(InFlight \cup {worker[w].d}) \in Nat
        BY <1>1, <2>4, <3>1, Sizes
      <3> QED BY <2>5, <3>2, <3>3
    <2>7. Cardinality(Admitted') = Cardinality(Admitted) - 1 /\ Cardinality(Admitted) \in Nat
      <3>1. IsFiniteSet(Admitted) /\ Cardinality(Admitted) \in Nat
        BY <1>1, Sizes
      <3> QED BY <2>3, <3>1, FS_RemoveElement
    <2>8. Cardinality(InFlight) + Cardinality(Admitted) <= Limit + Cardinality(Workers) - 1
      BY DEF OvershootIsBounded
    <2>9. Cardinality(InFlight') + Cardinality(Admitted') <= Limit + Cardinality(Workers) - 1
      <3>1. Cardinality(InFlight) \in Nat
        BY <1>1, Sizes
      <3> QED BY <2>6, <2>7, <2>8, <3>1, Sizes, ConstantsAssumption
    <2> QED BY <2>9 DEF OvershootIsBounded
  <1>4. ASSUME NEW w \in Workers, Settle(w) PROVE OvershootIsBounded'
    <2>1. worker[w] \in [pc : {"returned"}, d : Deliveries, attempt : Nat, claim : Nat,
                         outcome : Outcome]
      BY <1>4, PhaseOfWorker DEF Settle
    <2>2. PICK next \in State \ {"in_flight"} : state' = [state EXCEPT ![worker[w].d] = next]
      BY <1>4, <2>1, NextStateType DEF Settle
    <2>3. lease' = [lease EXCEPT ![worker[w].d] = "none"]
          /\ worker' = [worker EXCEPT ![w] = Idle]
      BY <1>4 DEF Settle
    <2>4. InFlight' \subseteq InFlight
      BY <2>1, <2>2, <2>3 DEF InFlight, TypeOK
    <2>5. Admitted' \subseteq Admitted
      BY <2>3 DEF Admitted, TypeOK, Idle
    <2> QED BY <2>4, <2>5, OvershootFrame
  <1>5. ASSUME NEW w \in Workers, Invoke(w) PROVE OvershootIsBounded'
    <2>1. Admitted' \subseteq Admitted
      BY <1>5 DEF Invoke, Admitted, TypeOK
    <2>2. InFlight' = InFlight
      BY <1>5 DEF Invoke, rows, InFlight
    <2> QED BY <2>1, <2>2, OvershootFrame
  <1>6. ASSUME NEW w \in Workers, ClaimLost(w) \/ SettleRefused(w) \/ Crash(w)
        PROVE  OvershootIsBounded'
    <2>1. worker' = [worker EXCEPT ![w] = Idle] /\ UNCHANGED rows
      BY <1>6 DEF ClaimLost, SettleRefused, Crash
    <2>2. Admitted' \subseteq Admitted
      BY <2>1 DEF Admitted, TypeOK, Idle
    <2>3. InFlight' = InFlight
      BY <2>1 DEF rows, InFlight
    <2> QED BY <2>2, <2>3, OvershootFrame
  <1>7. ASSUME NEW d \in Deliveries, Enqueue(d) \/ LeaseExpires(d) \/ ComesDue(d)
        PROVE  OvershootIsBounded'
    <2>1. InFlight' \subseteq InFlight
      BY <1>7 DEF Enqueue, LeaseExpires, ComesDue, InFlight, TypeOK
    <2>2. Admitted' = Admitted
      BY <1>7 DEF Enqueue, LeaseExpires, ComesDue, Admitted
    <2> QED BY <2>1, <2>2, OvershootFrame
  <1>8. CASE Repair
    <2>1. Admitted' = Admitted
      BY <1>8 DEF Repair, ReleaseSelect, ReleaseWrite, ReplayRead, ReplayWrite,
                  PrepareReconciliation, Probe, Reconcile, ReconcileNothing, Admitted
    <2>2. CASE ReleaseWrite
      BY <2>1, <2>2, OvershootFrame DEF ReleaseWrite, InFlight
    <2>3. ASSUME NEW o \in Operators, ReplayWrite(o) PROVE OvershootIsBounded'
      <3>1. operator[o].d \in Deliveries
        BY <2>3, PhaseOfOperator DEF ReplayWrite
      <3>2. InFlight' \subseteq InFlight
        BY <2>3, <3>1 DEF ReplayWrite, InFlight, TypeOK
      <3> QED BY <2>1, <3>2, OvershootFrame
    <2>4. ASSUME NEW r \in Reconcilers, Reconcile(r) PROVE OvershootIsBounded'
      <3>1. subject[r].d \in Deliveries
        BY <2>4, PhaseOfSubject DEF Reconcile
      <3>2. InFlight' \subseteq InFlight
        BY <2>4, <3>1 DEF Reconcile, InFlight, TypeOK
      <3> QED BY <2>1, <3>2, OvershootFrame
    <2>5. CASE UNCHANGED rows
      BY <2>1, <2>5, OvershootFrame DEF rows, InFlight
    <2> QED BY <1>8, <2>2, <2>3, <2>4, <2>5
            DEF Repair, ReleaseSelect, ReplayRead, PrepareReconciliation, Probe, ReconcileNothing
  <1> QED BY <1>2, <1>3, <1>4, <1>5, <1>6, <1>7, <1>8 DEF Next, WorkerStep

\* Workers admitted together overshoot max_in_flight_per_installation by no more
\* than the other workers, however many there are.
THEOREM OvershootHolds == Spec => []OvershootIsBounded
  <1>1. Init => OvershootIsBounded
    <2> SUFFICES ASSUME Init PROVE OvershootIsBounded
      OBVIOUS
    <2>1. InFlight = {} /\ Admitted = {}
      BY DEF Init, InFlight, Admitted, Idle
    <2>2. Cardinality(InFlight) = 0 /\ Cardinality(Admitted) = 0
      BY <2>1, FS_EmptySet
    <2> QED BY <2>2, Sizes, ConstantsAssumption DEF OvershootIsBounded
  <1>2. TypeOK /\ OvershootIsBounded /\ [Next]_vars => OvershootIsBounded'
    <2>1. ASSUME TypeOK, OvershootIsBounded, UNCHANGED vars PROVE OvershootIsBounded'
      BY <2>1, OvershootFrame DEF vars, rows, InFlight, Admitted
    <2> QED BY <2>1, OvershootStep
  <1> QED BY <1>1, <1>2, TypesHold, PTL DEF Spec

-----------------------------------------------------------------------------
(* Duplicates *)

\* What a copy of a row still says when no claim was granted since it was read,
\* and which rows carry a lease.
CopiesHold ==
    /\ \A o \in Operators : operator[o].pc = "read" =>
          /\ operator[o].claim <= claims[operator[o].d]
          /\ operator[o].claim = claims[operator[o].d]
             /\ operator[o].state # "reconciliation_required" =>
                   state[operator[o].d] \in {"pending", "retryable", "dead_letter"}
    /\ \A r \in Reconcilers :
          /\ subject[r].pc \in {"probing", "evidence"}
          /\ subject[r].claim = claims[subject[r].d]
          => state[subject[r].d] # "in_flight"
    /\ \A d \in Deliveries : lease[d] # "none" => state[d] \in {"pending", "in_flight"}

\* The evidence that d has not landed, when no claim was granted since.
Acquitted(d) ==
    \E r \in Reconcilers :
        /\ subject[r].pc = "evidence"
        /\ subject[r].d = d
        /\ subject[r].verdict = "not_landed"
        /\ subject[r].claim = claims[d]

\* The row may be sent again without an excuse.
Sendable(d) ==
    \/ state[d] \in {"absent", "pending", "retryable", "dead_letter"}
    \/ state[d] = "in_flight" /\ lease[d] # "live"
    \/ state[d] = "reconciliation_required" /\ (landed[d] = 0 \/ Acquitted(d))

\* The worker may still land d, or settle a call that has not landed it.
Owes(w, d) ==
    /\ worker[w].pc \in {"calling", "returned"}
    /\ worker[w].d = d
    /\ worker[w].pc = "returned" =>
          \/ worker[w].outcome.status \in {"retryable", "terminal"}
          \/ worker[w].outcome.status = "reconciliation_required" /\ landed[d] = 0
Owing(d) == {w \in Workers : Owes(w, d)}

One(condition) == IF condition THEN 1 ELSE 0

\* Effects that landed, calls that may land and sends that may follow are one,
\* and one more for every excuse.
Accounted(d) == landed[d] + Cardinality(Owing(d)) + One(Sendable(d)) <= 1 + excused[d]

SendsAccounted == \A d \in Deliveries : Accounted(d)

\* A step that grants no claim, takes no copy, and moves rows out of a settled
\* state, or among those that wait to be sent.
LEMMA CopiesFrame ==
    ASSUME TypeOK, CopiesHold, UNCHANGED claims,
           \A o \in Operators : operator'[o] = operator[o] \/ operator'[o].pc = "idle",
           \A r \in Reconcilers : subject'[r] = subject[r] \/ subject'[r].pc = "idle",
           \A d \in Deliveries : state[d] \in {"pending", "retryable", "dead_letter"} =>
                                     state'[d] \in {"pending", "retryable", "dead_letter"},
           \A d \in Deliveries : state'[d] = "in_flight" => state[d] = "in_flight",
           \A d \in Deliveries : lease'[d] # "none" => state'[d] \in {"pending", "in_flight"}
    PROVE  CopiesHold'
  <1>1. ASSUME NEW o \in Operators, operator'[o].pc = "read"
        PROVE  /\ operator'[o].claim <= claims'[operator'[o].d]
               /\ operator'[o].claim = claims'[operator'[o].d]
                  /\ operator'[o].state # "reconciliation_required" =>
                        state'[operator'[o].d] \in {"pending", "retryable", "dead_letter"}
    <2>1. operator'[o] = operator[o]
      BY <1>1
    <2>2. operator[o].d \in Deliveries
      BY <1>1, <2>1, PhaseOfOperator
    <2> QED BY <1>1, <2>1, <2>2 DEF CopiesHold
  <1>2. ASSUME NEW r \in Reconcilers, subject'[r].pc \in {"probing", "evidence"},
               subject'[r].claim = claims'[subject'[r].d]
        PROVE  state'[subject'[r].d] # "in_flight"
    <2>1. subject'[r] = subject[r]
      BY <1>2
    <2>2. subject[r].d \in Deliveries
      BY <1>2, <2>1, PhaseOfSubject
    <2> QED BY <1>2, <2>1, <2>2 DEF CopiesHold
  <1> QED BY <1>1, <1>2 DEF CopiesHold

\* A claim outdates every copy of its row.
LEMMA ClaimCopies ==
    ASSUME TypeOK, Ordered, CopiesHold, NEW w \in Workers, Claim(w) PROVE CopiesHold'
  <1> DEFINE x == worker[w].d
  <1>1. /\ x \in Deliveries
        /\ state' = [state EXCEPT ![x] = "in_flight"]
        /\ lease' = [lease EXCEPT ![x] = "live"]
        /\ claims' = [claims EXCEPT ![x] = @ + 1]
        /\ UNCHANGED <<operator, subject>>
    BY PhaseOfWorker DEF Claim
  <1>2. ASSUME NEW o \in Operators, operator[o].pc = "read"
        PROVE  /\ operator[o].claim <= claims'[operator[o].d]
               /\ operator[o].claim = claims'[operator[o].d]
                  /\ operator[o].state # "reconciliation_required" =>
                        state'[operator[o].d] \in {"pending", "retryable", "dead_letter"}
    <2>1. operator[o].d \in Deliveries /\ operator[o].claim \in Nat
      BY <1>2, PhaseOfOperator
    <2>2. operator[o].claim <= claims[operator[o].d]
      BY <1>2 DEF CopiesHold
    <2>3. CASE operator[o].d = x
      BY <1>1, <2>1, <2>2, <2>3 DEF TypeOK
    <2>4. CASE operator[o].d # x
      BY <1>1, <1>2, <2>1, <2>4 DEF TypeOK, CopiesHold
    <2> QED BY <2>3, <2>4
  <1>3. ASSUME NEW r \in Reconcilers, subject[r].pc \in {"probing", "evidence"},
               subject[r].claim = claims'[subject[r].d]
        PROVE  state'[subject[r].d] # "in_flight"
    <2>1. subject[r].d \in Deliveries /\ subject[r].claim \in Nat
      BY <1>3, PhaseOfSubject
    <2>2. subject[r].claim <= claims[subject[r].d]
      BY <1>3 DEF Ordered
    <2>3. CASE subject[r].d = x
      BY <1>1, <1>3, <2>1, <2>2, <2>3 DEF TypeOK
    <2>4. CASE subject[r].d # x
      BY <1>1, <1>3, <2>1, <2>4 DEF TypeOK, CopiesHold
    <2> QED BY <2>3, <2>4
  <1>4. \A d \in Deliveries : lease'[d] # "none" => state'[d] \in {"pending", "in_flight"}
    BY <1>1 DEF TypeOK, CopiesHold
  <1> QED BY <1>1, <1>2, <1>3, <1>4 DEF CopiesHold

LEMMA CopiesStep ==
    ASSUME TypeOK, Ordered, CopiesHold, Next PROVE CopiesHold'
  <1>1. ASSUME NEW d \in Deliveries, Enqueue(d) \/ LeaseExpires(d) \/ ComesDue(d)
        PROVE  CopiesHold'
    <2>1. /\ UNCHANGED <<claims, operator, subject>>
          /\ \/ state[d] = "absent" /\ state' = [state EXCEPT ![d] = "pending"] /\ lease' = lease
             \/ state' = state /\ lease[d] = "live" /\ lease' = [lease EXCEPT ![d] = "expired"]
             \/ state' = state /\ lease' = lease
      BY <1>1 DEF Enqueue, LeaseExpires, ComesDue
    <2>2. \A x \in Deliveries : lease'[x] # "none" => state'[x] \in {"pending", "in_flight"}
      BY <2>1 DEF TypeOK, CopiesHold
    <2> QED BY <2>1, <2>2, CopiesFrame DEF TypeOK
  <1>2. ASSUME UNCHANGED <<claims, operator, subject, state, lease>> PROVE CopiesHold'
    BY <1>2 DEF CopiesHold
  <1>3. ASSUME NEW w \in Workers,
               \/ \E d \in Deliveries : Admit(w, d)
               \/ ClaimLost(w) \/ Invoke(w) \/ SettleRefused(w) \/ Crash(w)
        PROVE  CopiesHold'
    BY <1>2, <1>3 DEF Admit, ClaimLost, Invoke, SettleRefused, Crash, rows
  <1>4. ASSUME NEW w \in Workers, Settle(w) PROVE CopiesHold'
    <2>1. worker[w] \in [pc : {"returned"}, d : Deliveries, attempt : Nat, claim : Nat,
                         outcome : Outcome]
      BY <1>4, PhaseOfWorker DEF Settle
    <2>2. PICK next \in State \ {"in_flight"} : state' = [state EXCEPT ![worker[w].d] = next]
      BY <1>4, <2>1, NextStateType DEF Settle
    <2>3. /\ state[worker[w].d] = "in_flight"
          /\ lease' = [lease EXCEPT ![worker[w].d] = "none"]
          /\ UNCHANGED <<claims, operator, subject>>
      BY <1>4 DEF Settle, HoldsClaim
    <2>4. \A d \in Deliveries : lease'[d] # "none" => state'[d] \in {"pending", "in_flight"}
      BY <2>1, <2>2, <2>3 DEF TypeOK, CopiesHold
    <2> QED BY <2>1, <2>2, <2>3, <2>4, CopiesFrame DEF TypeOK
  <1>5. CASE ReleaseSelect
    BY <1>2, <1>5 DEF ReleaseSelect, rows
  <1>6. CASE ReleaseWrite
    <2>1. \A d \in Deliveries :
             \/ state'[d] = "retryable" /\ lease'[d] = "none"
             \/ state'[d] = state[d] /\ lease'[d] = lease[d]
      BY <1>6 DEF ReleaseWrite
    <2>2. UNCHANGED <<claims, operator, subject>>
      BY <1>6 DEF ReleaseWrite
    <2> QED BY <2>1, <2>2, CopiesFrame DEF CopiesHold
  <1>7. ASSUME NEW o \in Operators, NEW d \in Deliveries, ReplayRead(o, d) PROVE CopiesHold'
    <2>1. /\ state[d] \in {"dead_letter", "retryable", "reconciliation_required"}
          /\ operator' = [operator EXCEPT ![o] =
                  [pc |-> "read", d |-> d, state |-> state[d], attempts |-> attempts[d],
                   claim |-> claims[d]]]
          /\ UNCHANGED <<state, lease, claims, subject>>
      BY <1>7 DEF ReplayRead, rows, Replayable
    <2>2. claims[d] <= claims[d]
      BY DEF TypeOK
    <2> QED BY <2>1, <2>2 DEF CopiesHold, TypeOK
  <1>8. ASSUME NEW o \in Operators, ReplayWrite(o) PROVE CopiesHold'
    <2>1. operator[o].d \in Deliveries
      BY <1>8, PhaseOfOperator DEF ReplayWrite
    <2>2. /\ state' = [state EXCEPT ![operator[o].d] = "pending"]
          /\ operator' = [operator EXCEPT ![o] = Idle]
          /\ UNCHANGED <<lease, claims, subject>>
      BY <1>8 DEF ReplayWrite
    <2>3. \A p \in Operators : operator'[p] = operator[p] \/ operator'[p].pc = "idle"
      BY <2>2 DEF TypeOK, Idle
    <2>4. \A d \in Deliveries : state'[d] = "pending" \/ state'[d] = state[d]
      BY <2>1, <2>2 DEF TypeOK
    <2> QED BY <2>2, <2>3, <2>4, CopiesFrame DEF CopiesHold
  <1>9. ASSUME NEW r \in Reconcilers, NEW d \in Deliveries, PrepareReconciliation(r, d)
        PROVE  CopiesHold'
    <2>1. /\ state[d] = "reconciliation_required"
          /\ subject' = [subject EXCEPT ![r] = [pc |-> "probing", d |-> d,
                            attempts |-> attempts[d], claim |-> claims[d]]]
          /\ UNCHANGED <<state, lease, claims, operator>>
      BY <1>9 DEF PrepareReconciliation, rows
    <2> QED BY <2>1 DEF CopiesHold, TypeOK
  <1>10. ASSUME NEW r \in Reconcilers, Probe(r) PROVE CopiesHold'
    <2>1. subject[r].pc = "probing"
      BY <1>10 DEF Probe
    <2>2. PICK verdict : subject' = [subject EXCEPT ![r] =
              [pc |-> "evidence", d |-> subject[r].d, attempts |-> subject[r].attempts,
               claim |-> subject[r].claim, verdict |-> verdict]]
      BY <1>10 DEF Probe
    <2>3. UNCHANGED <<state, lease, claims, operator>>
      BY <1>10 DEF Probe, rows
    <2> QED BY <2>1, <2>2, <2>3 DEF CopiesHold, TypeOK
  <1>11. ASSUME NEW r \in Reconcilers, Reconcile(r) \/ ReconcileNothing(r) PROVE CopiesHold'
    <2>1. /\ subject[r].d \in Deliveries
          /\ subject' = [subject EXCEPT ![r] = Idle]
          /\ UNCHANGED <<claims, operator>>
      BY <1>11, PhaseOfSubject DEF Reconcile, ReconcileNothing
    <2>2. \A q \in Reconcilers : subject'[q] = subject[q] \/ subject'[q].pc = "idle"
      BY <2>1 DEF TypeOK, Idle
    <2>3. \A d \in Deliveries :
             \/ state'[d] = state[d] /\ lease'[d] = lease[d]
             \/ /\ state[d] = "reconciliation_required"
                /\ state'[d] \in {"pending", "delivered"} /\ lease'[d] = "none"
      BY <1>11, <2>1 DEF Reconcile, ReconcileNothing, StillAmbiguous, rows, TypeOK
    <2> QED BY <2>1, <2>2, <2>3, CopiesFrame DEF CopiesHold
  <1> QED BY <1>1, <1>3, <1>4, <1>5, <1>6, <1>7, <1>8, <1>9, <1>10, <1>11, ClaimCopies
          DEF Next, WorkerStep, Repair

LEMMA CopiesAreKept == Spec => []CopiesHold
  <1>1. Init => CopiesHold
    BY DEF Init, CopiesHold, Idle
  <1>2. ASSUME TypeOK, Ordered, CopiesHold, [Next]_vars PROVE CopiesHold'
    <2>1. CASE UNCHANGED vars
      BY <1>2, <2>1 DEF vars, rows, CopiesHold
    <2> QED BY <1>2, <2>1, CopiesStep
  <1> QED BY <1>1, <1>2, OrderedHolds, TypesHold, PTL DEF Spec

\* A step that lands nothing: no worker owes more, and the row becomes sendable
\* only with an excuse.
LEMMA AccountKept ==
    ASSUME TypeOK, TypeOK', NEW d \in Deliveries, Accounted(d),
           landed'[d] = landed[d], Owing(d)' \subseteq Owing(d), excused'[d] >= excused[d],
           Sendable(d)' /\ ~ Sendable(d) => excused'[d] >= excused[d] + 1
    PROVE  Accounted(d)'
  <1>1. Owing(d) \in SUBSET Workers /\ Owing(d)' \in SUBSET Workers
    BY DEF Owing
  <1>2. /\ Cardinality(Owing(d)) \in Nat /\ Cardinality(Owing(d)') \in Nat
        /\ Cardinality(Owing(d)') <= Cardinality(Owing(d))
    BY <1>1, Sizes
  <1>3. landed[d] \in Nat /\ excused[d] \in Nat /\ excused'[d] \in Nat
    BY DEF TypeOK
  <1>4. One(Sendable(d)') <= One(Sendable(d)) + (excused'[d] - excused[d])
    BY <1>3 DEF One
  <1>5. One(Sendable(d)) \in {0, 1} /\ One(Sendable(d)') \in {0, 1}
    BY DEF One
  <1>6. landed[d] + Cardinality(Owing(d)) + One(Sendable(d)) <= 1 + excused[d]
    BY DEF Accounted
  <1>7. landed'[d] + Cardinality(Owing(d)') + One(Sendable(d)') <= 1 + excused'[d]
    BY <1>2, <1>3, <1>4, <1>5, <1>6
  <1> QED BY <1>7 DEF Accounted, One

\* A step in which a worker stops owing, for one effect or one further send.
LEMMA AccountPaid ==
    ASSUME TypeOK, TypeOK', NEW d \in Deliveries, Accounted(d), NEW w \in Owing(d),
           Owing(d)' \subseteq Owing(d) \ {w}, excused'[d] = excused[d],
           \/ landed'[d] = landed[d] + 1 /\ (Sendable(d)' => Sendable(d))
           \/ landed'[d] = landed[d] /\ ~ Sendable(d)
    PROVE  Accounted(d)'
  <1>1. /\ Owing(d) \in SUBSET Workers
        /\ Owing(d)' \in SUBSET Workers
        /\ Owing(d) \ {w} \in SUBSET Workers
    BY DEF Owing
  <1>2. Cardinality(Owing(d) \ {w}) = Cardinality(Owing(d)) - 1
    BY <1>1, Sizes, FS_RemoveElement
  <1>3. /\ Cardinality(Owing(d)) \in Nat /\ Cardinality(Owing(d)') \in Nat
        /\ Cardinality(Owing(d)') <= Cardinality(Owing(d) \ {w})
    BY <1>1, Sizes
  <1>4. landed[d] \in Nat /\ excused[d] \in Nat
    BY DEF TypeOK
  <1>5. One(Sendable(d)) \in {0, 1} /\ One(Sendable(d)') \in {0, 1}
    BY DEF One
  <1>6. landed'[d] + One(Sendable(d)') <= landed[d] + One(Sendable(d)) + 1
    BY <1>4 DEF One
  <1>7. landed[d] + Cardinality(Owing(d)) + One(Sendable(d)) <= 1 + excused[d]
    BY DEF Accounted
  <1>8. landed'[d] + Cardinality(Owing(d)') + One(Sendable(d)') <= 1 + excused'[d]
    BY <1>2, <1>3, <1>4, <1>5, <1>6, <1>7
  <1> QED BY <1>8 DEF Accounted, One

\* Workers that become idle, or are admitted, owe nothing.
LEMMA OwingFrame ==
    ASSUME NEW d \in Deliveries, landed'[d] = landed[d],
           \A w \in Workers : worker'[w] = worker[w] \/ worker'[w].pc \in {"idle", "admitted"}
    PROVE  Owing(d)' \subseteq Owing(d)
  BY DEF Owing, Owes

\* A row that keeps its state and lease becomes sendable only by new evidence.
LEMMA SendableFrame ==
    ASSUME NEW d \in Deliveries, Sendable(d)', state'[d] = state[d], lease'[d] = lease[d],
           landed'[d] = landed[d] \/ landed'[d] # 0, claims'[d] = claims[d],
           \A r \in Reconcilers :
              subject'[r] = subject[r] \/ subject'[r].pc \in {"idle", "probing"}
    PROVE  Sendable(d)
  <1>1. Acquitted(d)' => Acquitted(d)
    BY DEF Acquitted
  <1> QED BY <1>1 DEF Sendable

\* An excuse counts the deliveries it names, and no other.
LEMMA ExcuseCounts ==
    ASSUME TypeOK, NEW S, Excuse(S), NEW d \in Deliveries
    PROVE  /\ excused'[d] >= excused[d]
           /\ d \in S => excused'[d] >= excused[d] + 1
  BY DEF Excuse, TypeOK

\* A step that leaves the rows, the claims and the effects alone, and at most
\* drops copies or takes one that is no evidence.
LEMMA QuietSends ==
    ASSUME TypeOK, TypeOK', SendsAccounted,
           UNCHANGED <<state, lease, claims, landed, excused>>,
           \A w \in Workers : worker'[w] = worker[w] \/ worker'[w].pc \in {"idle", "admitted"},
           \A r \in Reconcilers :
              subject'[r] = subject[r] \/ subject'[r].pc \in {"idle", "probing"}
    PROVE  SendsAccounted'
  <1> SUFFICES ASSUME NEW d \in Deliveries PROVE Accounted(d)'
    BY DEF SendsAccounted
  <1>1. Sendable(d)' => Sendable(d)
    BY SendableFrame
  <1>2. excused'[d] >= excused[d]
    BY DEF TypeOK
  <1> QED BY <1>1, <1>2, OwingFrame, AccountKept DEF SendsAccounted

\* What settle makes of an outcome: only a report that nothing happened may be
\* sent again, and only an unclear one awaits reconciliation.
LEMMA NextStateFrom ==
    ASSUME NEW outcome \in Outcome, NEW n \in Nat
    PROVE  \/ next_state(outcome, n) = "delivered"
           \/ /\ next_state(outcome, n) = "reconciliation_required"
              /\ outcome.status = "reconciliation_required"
           \/ outcome.status \in {"retryable", "terminal"}
  <1>1. classify(outcome) \in OutcomeStatus
    BY DEF classify, Outcome, OutcomeStatus
  <1>2. classify(outcome) # outcome.status => outcome.status = "terminal"
    BY DEF classify
  <1> HIDE DEF classify
  <1>3. CASE classify(outcome) = "succeeded"
    BY <1>3, Zenon DEF next_state
  <1>4. CASE classify(outcome) = "reconciliation_required"
    <2>1. next_state(outcome, n) = "reconciliation_required"
      BY <1>4, Zenon DEF next_state
    <2> QED BY <1>2, <1>4, <2>1
  <1>5. CASE classify(outcome) \in {"retryable", "terminal"}
    BY <1>2, <1>5
  <1> QED BY <1>1, <1>3, <1>4, <1>5 DEF OutcomeStatus

\* A claim trades the right to send for a call that may land.
LEMMA ClaimSends ==
    ASSUME TypeOK, TypeOK', SendsAccounted, NEW w \in Workers, Claim(w)
    PROVE  SendsAccounted'
  <1> DEFINE x == worker[w].d
  <1>1. /\ x \in Deliveries
        /\ state[x] \in {"pending", "retryable", "in_flight"}
        /\ lease[x] # "live"
    BY PhaseOfWorker DEF Claim, Claimable, TypeOK, State, Settled
  <1>2. /\ state' = [state EXCEPT ![x] = "in_flight"]
        /\ lease' = [lease EXCEPT ![x] = "live"]
        /\ claims' = [claims EXCEPT ![x] = @ + 1]
        /\ UNCHANGED <<subject, landed, excused>>
    BY DEF Claim
  <1>3. /\ \A v \in Workers \ {w} : worker'[v] = worker[v]
        /\ worker'[w].pc = "calling" /\ worker'[w].d = x
    BY DEF Claim, TypeOK
  <1> SUFFICES ASSUME NEW d \in Deliveries PROVE Accounted(d)'
    BY DEF SendsAccounted
  <1>4. CASE d = x
    <2>1. Sendable(d)
      BY <1>1, <1>4 DEF Sendable
    <2>2. ~ Sendable(d)'
      BY <1>1, <1>2, <1>4 DEF Sendable, TypeOK
    <2>3. Owing(d)' \subseteq Owing(d) \cup {w}
      BY <1>2, <1>3 DEF Owing, Owes
    <2>4. /\ Owing(d) \in SUBSET Workers /\ Owing(d)' \in SUBSET Workers
          /\ Owing(d) \cup {w} \in SUBSET Workers
      BY DEF Owing
    <2>5. Cardinality(Owing(d) \cup {w}) <= Cardinality(Owing(d)) + 1
      BY <2>4, Sizes, FS_AddElement
    <2>6. /\ Cardinality(Owing(d)) \in Nat /\ Cardinality(Owing(d)') \in Nat
          /\ Cardinality(Owing(d) \cup {w}) \in Nat
          /\ Cardinality(Owing(d)') <= Cardinality(Owing(d) \cup {w})
      BY <2>3, <2>4, Sizes
    <2>7. landed[d] \in Nat /\ excused[d] \in Nat
      BY DEF TypeOK
    <2>8. landed[d] + Cardinality(Owing(d)) + 1 <= 1 + excused[d]
      BY <2>1 DEF SendsAccounted, Accounted, One
    <2>9. landed'[d] + Cardinality(Owing(d)') + 0 <= 1 + excused'[d]
      BY <1>2, <2>5, <2>6, <2>7, <2>8
    <2> QED BY <2>2, <2>9 DEF Accounted, One
  <1>5. CASE d # x
    <2>1. state'[d] = state[d] /\ lease'[d] = lease[d] /\ claims'[d] = claims[d]
      BY <1>1, <1>2, <1>5 DEF TypeOK
    <2>2. Sendable(d)' => Sendable(d)
      BY <1>2, <2>1, SendableFrame
    <2>3. Owing(d)' \subseteq Owing(d)
      BY <1>2, <1>3, <1>5 DEF Owing, Owes
    <2>4. excused'[d] >= excused[d]
      BY <1>2 DEF TypeOK
    <2> QED BY <1>2, <2>2, <2>3, <2>4, AccountKept DEF SendsAccounted
  <1> QED BY <1>4, <1>5

\* A call that lands stops owing.
LEMMA InvokeSends ==
    ASSUME TypeOK, TypeOK', SendsAccounted, NEW w \in Workers, Invoke(w)
    PROVE  SendsAccounted'
  <1> DEFINE x == worker[w].d
  <1>1. worker[w] \in [pc : {"calling"}, d : Deliveries, attempt : Nat, claim : Nat]
    BY PhaseOfWorker DEF Invoke
  <1>2. PICK outcome \in Outcome : \E lands \in MayLand(outcome) :
            /\ landed' = IF lands THEN [landed EXCEPT ![x] = @ + 1] ELSE landed
            /\ worker' = [worker EXCEPT ![w] =
                    [pc |-> "returned", d |-> x, attempt |-> worker[w].attempt,
                     claim |-> worker[w].claim, outcome |-> outcome]]
    BY Zenon DEF Invoke
  <1>landing. PICK lands \in MayLand(outcome) :
            landed' = IF lands THEN [landed EXCEPT ![x] = @ + 1] ELSE landed
    BY <1>2
  <1>3. UNCHANGED <<state, lease, claims, subject, excused>>
    BY DEF Invoke, rows
  <1>4. /\ worker'[w].pc = "returned" /\ worker'[w].d = x
        /\ \A v \in Workers \ {w} : worker'[v] = worker[v]
        /\ worker'[w].outcome = outcome
    BY <1>2 DEF TypeOK
  <1>5. lands => outcome.status \in {"succeeded", "reconciliation_required"}
    <2>1. outcome.status \in OutcomeStatus
      BY DEF Outcome
    <2>2. CASE outcome.status \in {"retryable", "terminal"}
      BY <1>landing, <2>2, Zenon DEF MayLand
    <2> QED BY <2>1, <2>2 DEF OutcomeStatus
  <1> SUFFICES ASSUME NEW d \in Deliveries PROVE Accounted(d)'
    BY DEF SendsAccounted
  <1>6. excused'[d] = excused[d] /\ excused[d] \in Nat /\ landed[d] \in Nat
    BY <1>3 DEF TypeOK
  <1>7. CASE d = x /\ lands
    <2>1. landed'[d] = landed[d] + 1
      BY <1>landing, <1>1, <1>7 DEF TypeOK
    <2>2. w \in Owing(d)
      BY <1>1, <1>7 DEF Owing, Owes
    <2>3. Owing(d)' \subseteq Owing(d) \ {w}
      BY <1>4, <1>5, <1>6, <1>7, <2>1 DEF Owing, Owes
    <2>4. Sendable(d)' => Sendable(d)
      BY <1>3, <1>6, <2>1, SendableFrame
    <2> QED BY <1>6, <2>1, <2>2, <2>3, <2>4, AccountPaid DEF SendsAccounted
  <1>8. CASE d # x \/ ~ lands
    <2>1. landed'[d] = landed[d]
      BY <1>landing, <1>1, <1>8 DEF TypeOK
    <2>2. Owing(d)' \subseteq Owing(d)
      <3>1. x = d => w \in Owing(d)
        BY <1>1 DEF Owing, Owes
      <3> QED BY <1>4, <2>1, <3>1 DEF Owing, Owes
    <2>3. Sendable(d)' => Sendable(d)
      BY <1>3, <2>1, SendableFrame
    <2> QED BY <1>6, <2>1, <2>2, <2>3, AccountKept DEF SendsAccounted
  <1> QED BY <1>7, <1>8

\* A settled call owes no more; what it owed is what the row may send again.
LEMMA SettleSends ==
    ASSUME TypeOK, TypeOK', CopiesHold, SendsAccounted, NEW w \in Workers, Settle(w)
    PROVE  SendsAccounted'
  <1> DEFINE x == worker[w].d
             next == next_state(worker[w].outcome, worker[w].attempt)
  <1>1. worker[w] \in [pc : {"returned"}, d : Deliveries, attempt : Nat, claim : Nat,
                       outcome : Outcome]
    BY PhaseOfWorker DEF Settle
  <1>2. \/ next = "delivered"
        \/ /\ next = "reconciliation_required"
           /\ worker[w].outcome.status = "reconciliation_required"
        \/ worker[w].outcome.status \in {"retryable", "terminal"}
    BY <1>1, NextStateFrom
  <1>3. /\ state' = [state EXCEPT ![x] = next]
        /\ lease' = [lease EXCEPT ![x] = "none"]
        /\ state[x] = "in_flight" /\ lease[x] = "live"
        /\ UNCHANGED <<subject, landed, claims, excused>>
    BY DEF Settle, HoldsClaim
  <1> HIDE DEF next
  <1>4. /\ worker'[w].pc = "idle"
        /\ \A v \in Workers \ {w} : worker'[v] = worker[v]
    BY DEF Settle, TypeOK, Idle
  <1> SUFFICES ASSUME NEW d \in Deliveries PROVE Accounted(d)'
    BY DEF SendsAccounted
  <1>5. excused'[d] = excused[d] /\ excused[d] \in Nat /\ landed'[d] = landed[d]
    BY <1>3 DEF TypeOK
  <1>6. Owing(d)' \subseteq Owing(d) \ {w}
    BY <1>4, <1>5 DEF Owing, Owes
  <1>7. CASE d = x /\ w \in Owing(d)
    <2>1. ~ Sendable(d)
      BY <1>3, <1>7 DEF Sendable
    <2> QED BY <1>5, <1>6, <1>7, <2>1, AccountPaid DEF SendsAccounted
  <1>8. CASE d = x /\ w \notin Owing(d)
    <2>1. /\ worker[w].outcome.status \notin {"retryable", "terminal"}
          /\ worker[w].outcome.status = "reconciliation_required" => landed[d] # 0
      BY <1>1, <1>8 DEF Owing, Owes
    <2>2. ~ Acquitted(d)
      BY <1>3, <1>8 DEF Acquitted, CopiesHold
    <2>3. ~ Acquitted(d)'
      BY <1>3, <2>2 DEF Acquitted
    <2>4. \/ state'[d] = "delivered"
          \/ state'[d] = "reconciliation_required" /\ landed'[d] # 0
      BY <1>1, <1>2, <1>3, <1>5, <1>8, <2>1 DEF TypeOK
    <2>5. ~ Sendable(d)'
      BY <2>3, <2>4 DEF Sendable
    <2> QED BY <1>5, <1>6, <2>5, AccountKept DEF SendsAccounted
  <1>9. CASE d # x
    <2>1. state'[d] = state[d] /\ lease'[d] = lease[d]
      BY <1>1, <1>3, <1>9 DEF TypeOK
    <2>2. Sendable(d)' => Sendable(d)
      BY <1>3, <2>1, SendableFrame
    <2> QED BY <1>5, <1>6, <2>2, AccountKept DEF SendsAccounted
  <1> QED BY <1>7, <1>8, <1>9

\* A lease that runs out on a call is an excuse; on a row that is no longer in
\* flight it changes nothing.
LEMMA ExpirySends ==
    ASSUME TypeOK, TypeOK', SendsAccounted, NEW x \in Deliveries, LeaseExpires(x)
    PROVE  SendsAccounted'
  <1>1. /\ lease[x] = "live" /\ lease' = [lease EXCEPT ![x] = "expired"]
        /\ Excuse({x} \cap InFlight)
        /\ UNCHANGED <<state, worker, subject, landed, claims>>
    BY DEF LeaseExpires
  <1> SUFFICES ASSUME NEW d \in Deliveries PROVE Accounted(d)'
    BY DEF SendsAccounted
  <1>2. excused'[d] >= excused[d] /\ (d \in {x} \cap InFlight => excused'[d] >= excused[d] + 1)
    BY <1>1, ExcuseCounts
  <1>3. Owing(d)' \subseteq Owing(d)
    BY <1>1, OwingFrame
  <1>4. Acquitted(d)' => Acquitted(d)
    BY <1>1 DEF Acquitted
  <1>5. Sendable(d)' /\ ~ Sendable(d) => d \in {x} \cap InFlight
    BY <1>1, <1>4 DEF Sendable, InFlight, TypeOK
  <1> QED BY <1>1, <1>2, <1>3, <1>5, AccountKept DEF SendsAccounted

\* The flush of the sweeper makes a row sendable that was not only when it
\* overwrites a later claim, which is an excuse.
LEMMA ReleaseSends ==
    ASSUME TypeOK, TypeOK', CopiesHold, SendsAccounted, ReleaseWrite
    PROVE  SendsAccounted'
  <1>1. /\ Excuse({d \in sweep : lease[d] # "expired"})
        /\ UNCHANGED <<worker, subject, landed, claims>>
    BY DEF ReleaseWrite
  <1> SUFFICES ASSUME NEW d \in Deliveries PROVE Accounted(d)'
    BY DEF SendsAccounted
  <1>2. /\ excused'[d] >= excused[d]
        /\ d \in sweep /\ lease[d] # "expired" => excused'[d] >= excused[d] + 1
    BY <1>1, ExcuseCounts
  <1>3. Owing(d)' \subseteq Owing(d)
    BY <1>1, OwingFrame
  <1>4. CASE d \in sweep /\ lease[d] = "expired"
    <2>1. Sendable(d)
      BY <1>4 DEF Sendable, CopiesHold
    <2> QED BY <1>1, <1>2, <1>3, <2>1, AccountKept DEF SendsAccounted
  <1>5. CASE d \in sweep /\ lease[d] # "expired"
    BY <1>1, <1>2, <1>3, <1>5, AccountKept DEF SendsAccounted
  <1>6. CASE d \notin sweep
    <2>1. state'[d] = state[d] /\ lease'[d] = lease[d]
      BY <1>6 DEF ReleaseWrite
    <2>2. Sendable(d)' => Sendable(d)
      BY <1>1, <2>1, SendableFrame
    <2> QED BY <1>1, <1>2, <1>3, <2>2, AccountKept DEF SendsAccounted
  <1> QED BY <1>4, <1>5, <1>6

\* A replay of a row that was reported unsent, and not claimed since, adds no
\* send; any other replay is an excuse.
LEMMA ReplaySends ==
    ASSUME TypeOK, TypeOK', CopiesHold, SendsAccounted, NEW o \in Operators, ReplayWrite(o)
    PROVE  SendsAccounted'
  <1> DEFINE seen == operator[o]
  <1>1. seen.pc = "read" /\ seen.d \in Deliveries
    BY PhaseOfOperator DEF ReplayWrite
  <1>2. /\ state' = [state EXCEPT ![seen.d] = "pending"]
        /\ UNCHANGED <<lease, worker, subject, landed, claims>>
        /\ \/ Excuse({seen.d})
           \/ /\ UNCHANGED excused
              /\ seen.state # "reconciliation_required" /\ seen.claim = claims[seen.d]
    BY DEF ReplayWrite
  <1> SUFFICES ASSUME NEW d \in Deliveries PROVE Accounted(d)'
    BY DEF SendsAccounted
  <1>3. Owing(d)' \subseteq Owing(d)
    BY <1>2, OwingFrame
  <1>4. excused'[d] >= excused[d]
    BY <1>2, ExcuseCounts DEF TypeOK
  <1>5. CASE d # seen.d
    <2>1. state'[d] = state[d]
      BY <1>1, <1>2, <1>5 DEF TypeOK
    <2>2. Sendable(d)' => Sendable(d)
      BY <1>2, <2>1, SendableFrame
    <2> QED BY <1>2, <1>3, <1>4, <2>2, AccountKept DEF SendsAccounted
  <1>6. CASE d = seen.d /\ Excuse({seen.d})
    <2>1. excused'[d] >= excused[d] + 1
      BY <1>6, ExcuseCounts
    <2> QED BY <1>2, <1>3, <1>4, <2>1, AccountKept DEF SendsAccounted
  <1>7. CASE d = seen.d /\ seen.state # "reconciliation_required" /\ seen.claim = claims[d]
    <2>1. state[d] \in {"pending", "retryable", "dead_letter"}
      BY <1>1, <1>7 DEF CopiesHold
    <2>2. Sendable(d)
      BY <2>1 DEF Sendable
    <2> QED BY <1>2, <1>3, <1>4, <2>2, AccountKept DEF SendsAccounted
  <1> QED BY <1>2, <1>5, <1>6, <1>7

\* The provider attests that nothing landed only when nothing has.
LEMMA ProbeSends ==
    ASSUME TypeOK, TypeOK', SendsAccounted, NEW q \in Reconcilers, Probe(q)
    PROVE  SendsAccounted'
  <1>1. subject[q].pc = "probing" /\ subject[q].d \in Deliveries
    BY PhaseOfSubject DEF Probe
  <1>2. PICK verdict \in {"unknown", IF landed[subject[q].d] > 0 THEN "landed" ELSE "not_landed"} :
            subject' = [subject EXCEPT ![q] =
                [pc |-> "evidence", d |-> subject[q].d, attempts |-> subject[q].attempts,
                 claim |-> subject[q].claim, verdict |-> verdict]]
    BY DEF Probe
  <1>3. UNCHANGED <<state, lease, worker, landed, claims, excused>>
    BY DEF Probe, rows
  <1>4. /\ subject'[q].d = subject[q].d
        /\ subject'[q].verdict = verdict
        /\ \A r \in Reconcilers \ {q} : subject'[r] = subject[r]
    BY <1>2 DEF TypeOK
  <1>5. verdict = "not_landed" => landed[subject[q].d] = 0
    BY <1>1, <1>2 DEF TypeOK
  <1> SUFFICES ASSUME NEW d \in Deliveries PROVE Accounted(d)'
    BY DEF SendsAccounted
  <1>6. Acquitted(d)' => landed[d] = 0 \/ Acquitted(d)
    BY <1>3, <1>4, <1>5 DEF Acquitted
  <1>7. Sendable(d)' => Sendable(d)
    BY <1>3, <1>6 DEF Sendable
  <1>8. excused'[d] >= excused[d] /\ Owing(d)' \subseteq Owing(d)
    BY <1>3, OwingFrame DEF TypeOK
  <1> QED BY <1>3, <1>7, <1>8, AccountKept DEF SendsAccounted

\* Evidence that nothing landed requeues a row that may be sent, or one that
\* was claimed since the question was asked, which is an excuse.
LEMMA ReconcileSends ==
    ASSUME TypeOK, TypeOK', SendsAccounted, NEW q \in Reconcilers, Reconcile(q)
    PROVE  SendsAccounted'
  <1> DEFINE s == subject[q]
  <1>1. s \in [pc : {"evidence"}, d : Deliveries, attempts : Nat, claim : Nat,
               verdict : {"landed", "not_landed", "unknown"}]
    BY PhaseOfSubject DEF Reconcile
  <1>2. /\ state[s.d] = "reconciliation_required"
        /\ state' = [state EXCEPT ![s.d] = IF s.verdict = "not_landed" THEN "pending"
                                           ELSE "delivered"]
        /\ lease' = [lease EXCEPT ![s.d] = "none"]
        /\ subject' = [subject EXCEPT ![q] = Idle]
        /\ UNCHANGED <<worker, landed, claims>>
        /\ \/ Excuse({s.d})
           \/ UNCHANGED excused /\ s.claim = claims[s.d]
    BY DEF Reconcile, StillAmbiguous
  <1> SUFFICES ASSUME NEW d \in Deliveries PROVE Accounted(d)'
    BY DEF SendsAccounted
  <1>3. Owing(d)' \subseteq Owing(d)
    BY <1>2, OwingFrame
  <1>4. excused'[d] >= excused[d]
    BY <1>2, ExcuseCounts DEF TypeOK
  <1>5. CASE d # s.d
    <2>1. state'[d] = state[d] /\ lease'[d] = lease[d]
      BY <1>1, <1>2, <1>5 DEF TypeOK
    <2>2. \A r \in Reconcilers : subject'[r] = subject[r] \/ subject'[r].pc = "idle"
      BY <1>2 DEF TypeOK, Idle
    <2>3. Sendable(d)' => Sendable(d)
      BY <1>2, <2>1, <2>2, SendableFrame
    <2> QED BY <1>2, <1>3, <1>4, <2>3, AccountKept DEF SendsAccounted
  <1>6. CASE d = s.d /\ Excuse({s.d})
    <2>1. excused'[d] >= excused[d] + 1
      BY <1>6, ExcuseCounts
    <2> QED BY <1>2, <1>3, <1>4, <2>1, AccountKept DEF SendsAccounted
  <1>7. CASE d = s.d /\ s.claim = claims[d] /\ s.verdict = "not_landed"
    <2>1. Sendable(d)
      BY <1>1, <1>2, <1>7 DEF Sendable, Acquitted
    <2> QED BY <1>2, <1>3, <1>4, <2>1, AccountKept DEF SendsAccounted
  <1>8. CASE d = s.d /\ s.verdict # "not_landed"
    <2>1. state'[d] = "delivered"
      BY <1>1, <1>2, <1>8 DEF TypeOK
    <2>2. ~ Sendable(d)'
      BY <2>1 DEF Sendable
    <2> QED BY <1>2, <1>3, <1>4, <2>2, AccountKept DEF SendsAccounted
  <1> QED BY <1>2, <1>5, <1>6, <1>7, <1>8

LEMMA SendsStep ==
    ASSUME TypeOK, TypeOK', CopiesHold, SendsAccounted, Next PROVE SendsAccounted'
  <1>1. ASSUME NEW x \in Deliveries, Enqueue(x) PROVE SendsAccounted'
    <2> SUFFICES ASSUME NEW d \in Deliveries PROVE Accounted(d)'
      BY DEF SendsAccounted
    <2>1. /\ state[x] = "absent"
          /\ state' = [state EXCEPT ![x] = "pending"]
          /\ UNCHANGED <<lease, worker, subject, landed, claims, excused>>
      BY <1>1 DEF Enqueue
    <2>2. Sendable(d)' => Sendable(d)
      <3>1. CASE d = x
        BY <2>1, <3>1 DEF Sendable
      <3>2. CASE d # x
        BY <2>1, <3>2, SendableFrame DEF TypeOK
      <3> QED BY <3>1, <3>2
    <2>3. excused'[d] >= excused[d] /\ Owing(d)' \subseteq Owing(d)
      BY <2>1, OwingFrame DEF TypeOK
    <2> QED BY <2>1, <2>2, <2>3, AccountKept DEF SendsAccounted
  <1>2. ASSUME NEW d \in Deliveries, ComesDue(d) PROVE SendsAccounted'
    BY <1>2, QuietSends DEF ComesDue
  <1>3. ASSUME NEW w \in Workers, NEW d \in Deliveries, Admit(w, d) PROVE SendsAccounted'
    <2>1. \A v \in Workers : worker'[v] = worker[v] \/ worker'[v].pc = "admitted"
      BY <1>3 DEF Admit, TypeOK
    <2>2. UNCHANGED <<state, lease, claims, landed, excused, subject>>
      BY <1>3 DEF Admit, rows
    <2> QED BY <2>1, <2>2, QuietSends
  <1>4. ASSUME NEW w \in Workers, ClaimLost(w) \/ SettleRefused(w) \/ Crash(w)
        PROVE  SendsAccounted'
    <2>1. worker' = [worker EXCEPT ![w] = Idle]
      BY <1>4 DEF ClaimLost, SettleRefused, Crash
    <2>2. UNCHANGED <<state, lease, claims, landed, excused, subject>>
      BY <1>4 DEF ClaimLost, SettleRefused, Crash, rows
    <2>3. \A v \in Workers : worker'[v] = worker[v] \/ worker'[v].pc = "idle"
      BY <2>1 DEF TypeOK, Idle
    <2> QED BY <2>2, <2>3, QuietSends
  <1>5. CASE ReleaseSelect
    BY <1>5, QuietSends DEF ReleaseSelect, rows
  <1>6. ASSUME NEW o \in Operators, NEW d \in Deliveries, ReplayRead(o, d) PROVE SendsAccounted'
    BY <1>6, QuietSends DEF ReplayRead, rows
  <1>7. ASSUME NEW r \in Reconcilers,
               ReconcileNothing(r) \/ \E d \in Deliveries : PrepareReconciliation(r, d)
        PROVE  SendsAccounted'
    <2>1. UNCHANGED <<state, lease, claims, landed, excused, worker>>
      BY <1>7 DEF ReconcileNothing, PrepareReconciliation, rows
    <2>2. \A q \in Reconcilers :
             subject'[q] = subject[q] \/ subject'[q].pc \in {"idle", "probing"}
      BY <1>7 DEF ReconcileNothing, PrepareReconciliation, TypeOK, Idle
    <2> QED BY <2>1, <2>2, QuietSends
  <1> QED BY <1>1, <1>2, <1>3, <1>4, <1>5, <1>6, <1>7, ClaimSends, InvokeSends, SettleSends,
             ExpirySends, ReleaseSends, ReplaySends, ProbeSends, ReconcileSends
          DEF Next, WorkerStep, Repair

\* For any number of workers, operators and reconcilers: a delivery lands at
\* most once more than events excuse, which are a lease that ran out on a call,
\* a replay of an ambiguous row, and a write from a stale read.
THEOREM DuplicatesAreExcused == Spec => []DuplicatesAreAccounted
  <1>1. Init => SendsAccounted
    <2> SUFFICES ASSUME Init, NEW d \in Deliveries PROVE Accounted(d)
      BY DEF SendsAccounted
    <2>1. Owing(d) = {}
      BY DEF Init, Owing, Owes, Idle
    <2>2. Cardinality(Owing(d)) = 0
      BY <2>1, FS_EmptySet
    <2> QED BY <2>2 DEF Init, Accounted, One
  <1>2. ASSUME TypeOK, TypeOK', CopiesHold, SendsAccounted, [Next]_vars PROVE SendsAccounted'
    <2>1. CASE UNCHANGED vars
      BY <1>2, <2>1, QuietSends DEF vars, rows
    <2> QED BY <1>2, <2>1, SendsStep
  <1>3. TypeOK /\ SendsAccounted => DuplicatesAreAccounted
    <2> SUFFICES ASSUME TypeOK, SendsAccounted, NEW d \in Deliveries
                 PROVE  landed[d] <= 1 + excused[d]
      BY DEF DuplicatesAreAccounted
    <2>1. Cardinality(Owing(d)) \in Nat
      BY Sizes DEF Owing
    <2>2. landed[d] + Cardinality(Owing(d)) + One(Sendable(d)) <= 1 + excused[d]
      BY DEF SendsAccounted, Accounted
    <2>3. One(Sendable(d)) \in {0, 1}
      BY DEF One
    <2>4. landed[d] \in Nat /\ excused[d] \in Nat
      BY DEF TypeOK
    <2> QED BY <2>1, <2>2, <2>3, <2>4
  <1> QED BY <1>1, <1>2, <1>3, TypesHold, CopiesAreKept, PTL DEF Spec

=============================================================================
