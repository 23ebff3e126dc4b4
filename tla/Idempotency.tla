---------------------------- MODULE Idempotency ----------------------------
(***************************************************************************)
(* dotmac_kernel.idempotency: execute_once runs an operation at most once  *)
(* per key by inserting a ledger row in the SAME transaction, under a      *)
(* SAVEPOINT, and lets the unique constraint decide between concurrent     *)
(* calls.  A transaction (one request, owned by the session boundary) makes *)
(* a sequence of calls.  PostgreSQL runs it READ COMMITTED: a lookup sees  *)
(* committed rows and the transaction's own; an insert of a key that        *)
(* another open transaction has inserted or deleted waits for its end.     *)
(* A key stands for (tenant_id, scope, key), or (scope, key) for the       *)
(* platform ledger; expiry is the product's choice per key.                *)
(***************************************************************************)
EXTENDS Integers, Sequences, FiniteSets

CONSTANTS
    Txns,           \* caller transactions
    Keys,           \* ledger keys
    Fingerprints,   \* request fingerprints
    NoFingerprint,  \* fingerprint=None: the key alone identifies the request
    Programs,       \* the call sequences a transaction may make
    ExpiringKeys    \* keys whose calls pass an expires_at

Requests == [key : Keys, fp : Fingerprints \cup {NoFingerprint}]

ASSUME ConstantsAssumption ==
    /\ NoFingerprint \notin Fingerprints
    /\ Programs \subseteq Seq(Requests) \ {<<>>}
    /\ ExpiringKeys \subseteq Keys

VARIABLES
    program,    \* [Txns -> Programs]: the calls each transaction makes
    pc,         \* where each transaction is in its current call
    step,       \* the index of its current call
    written,    \* the ledger rows it has inserted and not yet committed
    effects,    \* the executions whose effects it has made and not committed
    replies,    \* the outcomes of its calls so far
    cause,      \* what raised the IntegrityError it recovers from
    ledger,     \* the committed ledger rows
    applied,    \* the executions whose effects are committed
    expired,    \* the committed rows whose expires_at has passed
    purging,    \* the rows deleted by the open purge transaction
    purged      \* history: the rows purged so far

txnVars    == <<program, pc, step, written, effects, replies, cause>>
ledgerVars == <<ledger, applied, expired, purging, purged>>
vars       == <<txnVars, ledgerVars>>

Stage == {"call", "body", "flush", "recover", "ready", "committed", "aborted"}
Ended == {"committed", "aborted"}

Request(t) == program[t][step[t]]
\* An execution of an operation, and its result: the call that ran it.
Execution(t) == <<t, step[t]>>
Executions == Txns \X (Nat \ {0})
Rows == [key : Keys, fp : Fingerprints \cup {NoFingerprint}, result : Executions]

Init ==
    /\ program \in [Txns -> Programs]
    /\ pc = [t \in Txns |-> "call"]
    /\ step = [t \in Txns |-> 1]
    /\ written = [t \in Txns |-> {}]
    /\ effects = [t \in Txns |-> {}]
    /\ replies = [t \in Txns |-> <<>>]
    /\ cause = [t \in Txns |-> "none"]
    /\ ledger = {}
    /\ applied = {}
    /\ expired = {}
    /\ purging = {}
    /\ purged = {}

-----------------------------------------------------------------------------
(* execute_once *)

\* Mutant: rows of open transactions are visible.
LookupDirty(t) ==
    {r \in ledger \cup UNION {written[u] : u \in Txns} : r.key = Request(t).key}

\* Mutant: the lookup finds the transaction's own rows only.
LookupOwn(t) == {r \in written[t] : r.key = Request(t).key}

\* _lookup: the row of the key, if the transaction sees one.
Lookup(t) == {r \in ledger \cup written[t] : r.key = Request(t).key}

\* The condition of _replay_or_conflict: both sides have a fingerprint and
\* they differ.
Conflicts(row, request) ==
    /\ request.fp # NoFingerprint
    /\ row.fp # NoFingerprint
    /\ request.fp # row.fp

\* The call returns: the transaction goes on with its next call.
Return(t, reply) ==
    /\ replies' = [replies EXCEPT ![t] = Append(@, reply)]
    /\ IF step[t] = Len(program[t])
       THEN pc' = [pc EXCEPT ![t] = "ready"] /\ UNCHANGED step
       ELSE pc' = [pc EXCEPT ![t] = "call"] /\ step' = [step EXCEPT ![t] = @ + 1]

\* An exception leaves the request: the session boundary rolls back.
Abort(t) ==
    /\ pc' = [pc EXCEPT ![t] = "aborted"]
    /\ written' = [written EXCEPT ![t] = {}]
    /\ effects' = [effects EXCEPT ![t] = {}]
    /\ UNCHANGED step

\* _replay_or_conflict
ReplayOrConflict(t, row) ==
    IF Conflicts(row, Request(t))
    THEN /\ Abort(t)
         /\ replies' = [replies EXCEPT ![t] = Append(@, [kind |-> "conflict",
                                                        result |-> row.result])]
    ELSE /\ Return(t, [kind |-> "replayed", result |-> row.result])
         /\ UNCHANGED <<written, effects>>

\* The first lookup: replay, refuse, or enter the savepoint.
Begin(t) ==
    /\ pc[t] = "call"
    /\ IF Lookup(t) = {}
       THEN pc' = [pc EXCEPT ![t] = "body"] /\ UNCHANGED <<step, written, effects, replies>>
       ELSE \E row \in Lookup(t) : ReplayOrConflict(t, row)
    /\ UNCHANGED <<program, cause, ledgerVars>>

\* operation(db) makes its effects and returns its result.
RunOperation(t) ==
    /\ pc[t] = "body"
    /\ effects' = [effects EXCEPT ![t] = @ \cup {Execution(t)}]
    /\ pc' = [pc EXCEPT ![t] = "flush"]
    /\ UNCHANGED <<program, step, written, replies, cause, ledgerVars>>

\* operation(db) raises an IntegrityError of its own: its effects go with the
\* savepoint.
OperationConflicts(t) ==
    /\ pc[t] = "body"
    /\ pc' = [pc EXCEPT ![t] = "recover"]
    /\ cause' = [cause EXCEPT ![t] = "operation"]
    /\ UNCHANGED <<program, step, written, effects, replies, ledgerVars>>

\* Open transactions whose end the insert of a key awaits.
Holders(t, k) ==
    {u \in Txns \ {t} : \E r \in written[u] : r.key = k}
BeingPurged(k) == \E r \in purging : r.key = k

\* Mutant: the effects of the body survive the savepoint.
KeepSavepoint(t) == UNCHANGED effects

\* conflict_savepoint on an exception: the effects of the body are undone.
RollbackSavepoint(t) == effects' = [effects EXCEPT ![t] = @ \ {Execution(t)}]

\* Mutant: no unique constraint on the ledger.
NeverTaken(k) == FALSE

\* The unique constraint over committed rows.
Taken(k) == \E r \in ledger : r.key = k

\* db.flush inserts the ledger row when no open transaction holds the key.
Flush(t) ==
    LET k == Request(t).key
    IN  /\ pc[t] = "flush"
        /\ Holders(t, k) = {}
        /\ ~ BeingPurged(k)
        /\ \/ /\ Taken(k)
              /\ RollbackSavepoint(t)
              /\ pc' = [pc EXCEPT ![t] = "recover"]
              /\ cause' = [cause EXCEPT ![t] = "ledger"]
              /\ UNCHANGED <<written, replies, step>>
           \/ /\ ~ Taken(k)
              /\ written' = [written EXCEPT ![t] = @ \cup
                    {[key |-> k, fp |-> Request(t).fp, result |-> Execution(t)]}]
              /\ Return(t, [kind |-> "executed", result |-> Execution(t)])
              /\ UNCHANGED <<effects, cause>>
        /\ UNCHANGED <<program, ledgerVars>>

\* Mutant: without a winner the operation is tried again.
RecoverByRetry(t) ==
    /\ pc[t] = "recover"
    /\ IF Lookup(t) = {}
       THEN pc' = [pc EXCEPT ![t] = "body"] /\ UNCHANGED <<step, written, effects, replies>>
       ELSE \E row \in Lookup(t) : ReplayOrConflict(t, row)
    /\ UNCHANGED <<program, cause, ledgerVars>>

\* except IntegrityError: look the winner up again; raise if there is none.
Recover(t) ==
    /\ pc[t] = "recover"
    /\ IF Lookup(t) = {}
       THEN /\ Abort(t)
            /\ replies' = [replies EXCEPT ![t] =
                              Append(@, [kind |-> "raised", result |-> Execution(t)])]
       ELSE \E row \in Lookup(t) : ReplayOrConflict(t, row)
    /\ UNCHANGED <<program, cause, ledgerVars>>

-----------------------------------------------------------------------------
(* The session boundary *)

\* request_session: the request succeeded, db.commit().
Commit(t) ==
    /\ pc[t] = "ready"
    /\ pc' = [pc EXCEPT ![t] = "committed"]
    /\ ledger' = ledger \cup written[t]
    /\ applied' = applied \cup effects[t]
    /\ written' = [written EXCEPT ![t] = {}]
    /\ effects' = [effects EXCEPT ![t] = {}]
    /\ UNCHANGED <<program, step, replies, cause, expired, purging, purged>>

\* The request fails at any point, or its process dies: db.rollback().
Rollback(t) ==
    /\ pc[t] \notin Ended
    /\ Abort(t)
    /\ UNCHANGED <<program, replies, cause, ledgerVars>>

\* t waits in an insert for the end of another transaction.
Waits(t) == IF pc[t] = "flush" THEN Holders(t, Request(t).key) ELSE {}
Deadlocked(t) ==
    \E cycle \in SUBSET Txns : t \in cycle /\ \A u \in cycle : Waits(u) \cap cycle # {}

\* PostgreSQL breaks a deadlock by failing one of its transactions; the error
\* is no IntegrityError, so it leaves execute_once and the request.
BreakDeadlock(t) == Deadlocked(t) /\ Rollback(t)

-----------------------------------------------------------------------------
(* purge_expired *)

\* The expires_at of a committed row passes.
Expire(r) ==
    /\ r \in ledger \ expired
    /\ r.key \in ExpiringKeys
    /\ expired' = expired \cup {r}
    /\ UNCHANGED <<txnVars, ledger, applied, purging, purged>>

\* expires_at IS NOT NULL AND expires_at < now
Purgeable == ledger \cap expired

\* The DELETE, in a transaction of its own; a scope restricts it to some keys.
Purge ==
    /\ purging = {}
    /\ \E scope \in {Keys} \cup {{k} : k \in Keys} :
          purging' = {r \in Purgeable : r.key \in scope}
    /\ purging' # {}
    /\ UNCHANGED <<txnVars, ledger, applied, expired, purged>>

PurgeCommit ==
    /\ purging # {}
    /\ ledger' = ledger \ purging
    /\ expired' = expired \ purging
    /\ purged' = purged \cup purging
    /\ purging' = {}
    /\ UNCHANGED <<txnVars, applied>>

PurgeRollback ==
    /\ purging # {}
    /\ purging' = {}
    /\ UNCHANGED <<txnVars, ledger, applied, expired, purged>>

-----------------------------------------------------------------------------
CallStep(t) ==
    Begin(t) \/ RunOperation(t) \/ OperationConflicts(t) \/ Flush(t) \/ Recover(t)

Next ==
    \/ \E t \in Txns : CallStep(t) \/ Commit(t) \/ Rollback(t)
    \/ \E r \in ledger : Expire(r)
    \/ Purge
    \/ PurgeCommit
    \/ PurgeRollback

Spec == Init /\ [][Next]_vars

\* A request runs on until it ends; a waiting insert is woken by the end of the
\* transaction it waits for, before another one can take the key (strong
\* fairness); the database breaks deadlocks; a purge transaction ends.
FairSpec ==
    /\ Spec
    /\ \A t \in Txns : SF_vars(CallStep(t) \/ Commit(t)) /\ WF_vars(BreakDeadlock(t))
    /\ WF_vars(PurgeCommit \/ PurgeRollback)

-----------------------------------------------------------------------------
(* Properties *)

Replies == [kind : {"executed", "replayed", "conflict", "raised"}, result : Executions]

\* Types: a call stays within its program, and what is expired or being purged
\* is a committed row (purge_expired deletes committed rows only).
TypeOK ==
    /\ program \in [Txns -> Programs]
    /\ pc \in [Txns -> Stage]
    /\ \A t \in Txns : step[t] \in 1 .. Len(program[t])
    /\ written \in [Txns -> SUBSET Rows]
    /\ effects \in [Txns -> SUBSET Executions]
    /\ replies \in [Txns -> Seq(Replies)]
    /\ cause \in [Txns -> {"none", "operation", "ledger"}]
    /\ ledger \subseteq Rows
    /\ applied \subseteq Executions
    /\ expired \subseteq ledger
    /\ purging \subseteq ledger
    /\ purged \subseteq Rows

\* The effects that are committed are exactly those some ledger row recorded:
\* no effect without its row (it would run again), no row without its effect
\* (it would never run), through crashes, lost races and failed operations.
EffectsMatchLedger == applied = {r.result : r \in ledger \cup purged}

\* At most once: a key has one committed row, and a second committed effect
\* only if the caller gave the key an expiry and the row of the first was purged.
AtMostOncePerKey ==
    \A r, s \in ledger \cup purged :
        r.key = s.key => r = s \/ (r.key \in ExpiringKeys /\ {r, s} \cap purged # {})

\* A replayed result is that of a committed execution of the same key (or of
\* the caller's own transaction), for a request the caller's fingerprint allows:
\* nobody is answered from an effect that may still roll back.
ReplaysAreReal ==
    \A t \in Txns : \A i \in 1 .. Len(replies[t]) :
        replies[t][i].kind = "replayed" =>
            \/ \E r \in ledger \cup purged :
                  /\ r.key = program[t][i].key
                  /\ r.result = replies[t][i].result
                  /\ r.result \in applied
                  /\ r.fp = program[t][i].fp \/ NoFingerprint \in {r.fp, program[t][i].fp}
            \/ replies[t][i].result \in {t} \X (1 .. i - 1)

\* A call answered "executed" in a committed transaction has its effect.
ExecutedIsDurable ==
    \A t \in Txns : pc[t] = "committed" =>
        \A i \in 1 .. Len(replies[t]) : replies[t][i].kind = "executed" => <<t, i>> \in applied

\* Every request ends: the insert that waits for another transaction, or for a
\* purge, is released, and crossing key orders do not wait for ever.
RequestsEnd == \A t \in Txns : <>(pc[t] \in Ended)

\* execute_once re-raises the IntegrityError of its own unique constraint only
\* when the winner's row expired and was purged between the conflict and the
\* second lookup; every other error it raises came from the operation.
RaisedIsExplained ==
    \A t \in Txns : \A i \in 1 .. Len(replies[t]) :
        replies[t][i].kind = "raised" /\ cause[t] = "ledger" =>
            \E r \in purged : r.key = program[t][i].key /\ r.key \in ExpiringKeys

=============================================================================
