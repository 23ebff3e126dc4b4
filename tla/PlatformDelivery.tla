-------------------------- MODULE PlatformDelivery --------------------------
(***************************************************************************)
(* The platform relay composed with a consumer that runs                   *)
(* process_once_platform on the delivery session, keyed on the event id.   *)
(* The relay's protocol is OutboxRelay's (platform_relay and               *)
(* platform_worker are its platform peer); here the delivery is opened up  *)
(* into the consumer's transaction: lookup, handler and ledger insert under *)
(* the unique constraint, commit.                                          *)
(***************************************************************************)
EXTENDS OutboxRelay

VARIABLES
    txn,        \* the consumer transaction each worker has open
    txnEvent,   \* the event it consumes
    ledger,     \* committed platform_idempotency_records, by event id
    runs        \* history: committed runs of the handler, up to 2

consumer     == <<txn, txnEvent, ledger, runs>>
deliveryVars == <<vars, consumer>>

\* No transaction; looked up and about to run the handler; handler run and row
\* inserted; answered from the ledger.
TxnStage == {"none", "handling", "inserted", "replayed"}

DeliveryInit ==
    /\ Init
    /\ txn = [w \in Workers |-> "none"]
    /\ txnEvent = [w \in Workers |-> NoEvent]
    /\ ledger = {}
    /\ runs = [e \in Events |-> 0]

-----------------------------------------------------------------------------
(* transport.deliver: process_once_platform on a fresh platform_api session *)

\* The first lookup of execute_once_platform.
Consume(w, e) ==
    /\ pc[w] = "working"
    /\ txn[w] = "none"
    /\ e \in batch[w]
    /\ txn' = [txn EXCEPT ![w] = IF e \in ledger THEN "replayed" ELSE "handling"]
    /\ txnEvent' = [txnEvent EXCEPT ![w] = e]
    /\ UNCHANGED <<vars, ledger, runs>>

\* An open transaction of another worker has inserted the row of e.
Blocked(w, e) == \E v \in Workers \ {w} : txn[v] = "inserted" /\ txnEvent[v] = e

\* Mutant: a lost race on the ledger's unique constraint goes unnoticed.
InsertAnyway(w) ==
    /\ txn[w] = "handling"
    /\ txn' = [txn EXCEPT ![w] = "inserted"]
    /\ UNCHANGED <<vars, txnEvent, ledger, runs>>

\* The handler runs and its row is inserted, when no open transaction holds the
\* key; a lost race undoes the handler's effect and replays the winner.
Insert(w) ==
    /\ txn[w] = "handling"
    /\ ~ Blocked(w, txnEvent[w])
    /\ txn' = [txn EXCEPT ![w] = IF txnEvent[w] \in ledger THEN "replayed" ELSE "inserted"]
    /\ UNCHANGED <<vars, txnEvent, ledger, runs>>

\* The consumer's transaction is made durable.
Publishes(w) ==
    IF txn[w] = "inserted"
    THEN /\ ledger' = ledger \cup {txnEvent[w]}
         /\ runs' = [runs EXCEPT ![txnEvent[w]] = IF @ < 2 THEN @ + 1 ELSE @]
    ELSE UNCHANGED <<ledger, runs>>

EndTxn(w) ==
    /\ txn' = [txn EXCEPT ![w] = "none"]
    /\ txnEvent' = [txnEvent EXCEPT ![w] = NoEvent]

\* platform_db.commit() returns.
CommitOk(w) ==
    /\ txn[w] \in {"inserted", "replayed"}
    /\ DeliverOk(w, txnEvent[w])
    /\ Publishes(w)
    /\ EndTxn(w)

\* The commit is durable but its answer is lost: the worker sees a failure.
CommitAnswerLost(w) ==
    /\ txn[w] \in {"inserted", "replayed"}
    /\ DeliverFail(w, txnEvent[w])
    /\ applied' = [applied EXCEPT ![txnEvent[w]] = TRUE]
    /\ Publishes(w)
    /\ EndTxn(w)

\* The handler, the database or the transport raises: platform_db.rollback().
ConsumerFails(w) ==
    /\ txn[w] # "none"
    /\ DeliverFail(w, txnEvent[w])
    /\ UNCHANGED <<applied, ledger, runs>>
    /\ EndTxn(w)

-----------------------------------------------------------------------------
(* The platform relay's own steps *)

PlatformEnqueue(e) == Enqueue(e) /\ UNCHANGED consumer

ClaimPlatformBatch(w) == Claim(w) /\ UNCHANGED consumer

PlatformRecordSuccess(w) == RecordSuccess(w) /\ UNCHANGED consumer

PlatformRecordFailure(w) == RecordFailure(w) /\ UNCHANGED consumer

\* A crash closes the delivery session, which aborts its transaction.
PlatformCrash(w) == Crash(w) /\ EndTxn(w) /\ UNCHANGED <<ledger, runs>>

PlatformTick == Tick /\ UNCHANGED consumer

PlatformStep(w) ==
    \/ ClaimPlatformBatch(w)
    \/ \E e \in Events : Consume(w, e)
    \/ Insert(w)
    \/ CommitOk(w)
    \/ CommitAnswerLost(w)
    \/ ConsumerFails(w)
    \/ PlatformRecordSuccess(w)
    \/ PlatformRecordFailure(w)

DeliveryNext ==
    \/ \E e \in Events : PlatformEnqueue(e)
    \/ \E w \in Workers : PlatformStep(w) \/ PlatformCrash(w)
    \/ PlatformTick

DeliverySpec == DeliveryInit /\ [][DeliveryNext]_deliveryVars

\* As for the relay; a blocked insert ends when the transaction it waits for does.
FairDeliverySpec ==
    /\ DeliverySpec
    /\ WF_deliveryVars(PlatformTick)
    /\ \A w \in Workers : WF_deliveryVars(PlatformStep(w))

-----------------------------------------------------------------------------
(* Properties *)

\* Types of the relay's rows and of the consumer's ledger and transactions.
DeliveryTypeOK ==
    /\ TypeOK
    /\ txn \in [Workers -> TxnStage]
    /\ txnEvent \in [Workers -> Events \cup {NoEvent}]
    /\ ledger \subseteq Events
    /\ runs \in [Events -> 0 .. 2]

\* The refinement mapping: an outbox row is queued until it is settled.
AbstractState ==
    [e \in Events |-> IF status[e] = "absent" THEN "none"
                      ELSE IF status[e] = "sent" THEN "done"
                      ELSE IF status[e] = "dead" THEN "dead"
                      ELSE "queued"]

Promise == INSTANCE ExactlyOnce WITH state <- AbstractState, effects <- runs

\* At-least-once delivery and the consumer's ledger make each effect happen
\* exactly once: the composition implements ExactlyOnce, with crashes, lost
\* commit answers, stale leases and concurrent deliveries of the same event.
ImplementsExactlyOnce == Promise!AbstractSpec

\* Every platform event is in the end sent, its effect made once, or dead.
EffectOrDeadLetter ==
    \A e \in Events :
        status[e] = "pending" ~> (status[e] = "sent" /\ runs[e] = 1) \/ status[e] = "dead"

=============================================================================
