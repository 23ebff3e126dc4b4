------------------------- MODULE IdempotencyProofs -------------------------
(***************************************************************************)
(* Theorems about Idempotency, for any transactions, keys and programs.    *)
(* EffectsMatchLedger and AtMostOncePerKey speak of committed state; the   *)
(* inductive invariant says what the open transactions carry.              *)
(***************************************************************************)
EXTENDS Idempotency, TLAPS

\* The part of TypeOK the argument needs.
Types ==
    /\ program \in [Txns -> Programs]
    /\ pc \in [Txns -> Stage]
    /\ step \in [Txns -> Nat \ {0}]
    /\ \A t \in Txns : step[t] \in 1 .. Len(program[t])
    /\ written \in [Txns -> SUBSET Rows]
    /\ effects \in [Txns -> SUBSET Executions]
    /\ ledger \subseteq Rows
    /\ purged \subseteq Rows
    /\ expired \subseteq ledger
    /\ purging \subseteq ledger

\* The rows of an open transaction come from its earlier calls.
RowsAreOwn ==
    \A t \in Txns : \A r \in written[t] :
        /\ r.result[1] = t
        /\ pc[t] \in {"call", "body", "flush", "recover"} => r.result[2] < step[t]

\* An open transaction carries the effects of its rows and, between the
\* operation and the flush, the effect of the call in progress.
EffectsMatchRows ==
    \A t \in Txns :
        effects[t] = {r.result : r \in written[t]}
                         \cup (IF pc[t] = "flush" THEN {Execution(t)} ELSE {})

\* A transaction runs an operation only for a key it has no row for.
OwnKeyIsFresh ==
    \A t \in Txns : pc[t] \in {"body", "flush"} =>
        \A r \in written[t] : r.key # Request(t).key

\* An ended transaction carries nothing.
EndedIsEmpty == \A t \in Txns : pc[t] \in Ended => written[t] = {}

\* The unique constraint: one live row per key, committed or not.
KeysAreUnique ==
    /\ \A t, u \in Txns : \A r \in written[t], s \in written[u] :
          r.key = s.key => r = s /\ t = u
    /\ \A t \in Txns : \A r \in written[t], s \in ledger : r.key # s.key
    /\ \A r, s \in ledger : r.key = s.key => r = s

\* Only rows with an expiry are purged.
ExpiryIsOptIn == \A r \in expired \cup purging \cup purged : r.key \in ExpiringKeys

Inv ==
    /\ Types
    /\ RowsAreOwn
    /\ EffectsMatchRows
    /\ OwnKeyIsFresh
    /\ EndedIsEmpty
    /\ KeysAreUnique
    /\ ExpiryIsOptIn
    /\ EffectsMatchLedger

-----------------------------------------------------------------------------
\* The current call of a transaction is a request.
LEMMA RequestType == ASSUME Types, NEW t \in Txns PROVE Request(t) \in Requests
  <1>1. program[t] \in Seq(Requests) /\ step[t] \in 1 .. Len(program[t])
    BY ConstantsAssumption DEF Types
  <1> QED  BY <1>1 DEF Request

LEMMA InitInv == Init => Inv
  <1> SUFFICES ASSUME Init PROVE Inv
    OBVIOUS
  <1>1. Types
    <2>1. \A t \in Txns : program[t] \in Seq(Requests) /\ program[t] # <<>>
      BY ConstantsAssumption DEF Init
    <2>2. \A t \in Txns : 1 \in 1 .. Len(program[t])
      BY <2>1
    <2> QED  BY <2>2 DEF Init, Types, Stage
  <1>2. RowsAreOwn /\ EffectsMatchRows /\ OwnKeyIsFresh /\ EndedIsEmpty
    BY DEF Init, RowsAreOwn, EffectsMatchRows, OwnKeyIsFresh, EndedIsEmpty, Ended
  <1>3. KeysAreUnique /\ ExpiryIsOptIn /\ EffectsMatchLedger
    BY DEF Init, KeysAreUnique, ExpiryIsOptIn, EffectsMatchLedger
  <1> QED  BY <1>1, <1>2, <1>3 DEF Inv

\* A step that moves a transaction along its calls without touching rows or
\* effects, and does not enter or leave the flush.
LEMMA MoveInv ==
    ASSUME Inv, NEW t \in Txns, pc[t] \in {"call", "body", "recover"},
           UNCHANGED <<program, written, effects, ledgerVars>>,
           pc' \in [Txns -> Stage],
           \A u \in Txns : u # t => pc'[u] = pc[u],
           pc'[t] \in {"call", "body", "recover", "ready"},
           pc'[t] = "body" => step'[t] = step[t] /\ Lookup(t) = {},
           step' \in [Txns -> Nat \ {0}],
           \A u \in Txns : u # t => step'[u] = step[u],
           step'[t] \in 1 .. Len(program[t]),
           step'[t] >= step[t]
    PROVE  Inv'
  <1>1. Types'
    BY DEF Inv, Types, Stage, ledgerVars
  <1>2. RowsAreOwn'
    BY DEF Inv, Types, RowsAreOwn, Rows, Executions
  <1>3. EffectsMatchRows'
    BY DEF Inv, Types, EffectsMatchRows, Execution
  <1>4. OwnKeyIsFresh'
    BY DEF Inv, Types, OwnKeyIsFresh, Request, Lookup
  <1>5. EndedIsEmpty'
    BY DEF Inv, Types, Ended, EndedIsEmpty
  <1>6. KeysAreUnique' /\ ExpiryIsOptIn' /\ EffectsMatchLedger'
    BY DEF Inv, KeysAreUnique, ExpiryIsOptIn, EffectsMatchLedger, ledgerVars
  <1> QED  BY <1>1, <1>2, <1>3, <1>4, <1>5, <1>6 DEF Inv

\* A transaction that aborts gives up its rows and its effects together.
LEMMA AbortInv ==
    ASSUME Inv, NEW t \in Txns, Abort(t), UNCHANGED <<program, ledgerVars>> PROVE Inv'
  <1>1. Types'
    BY DEF Abort, Inv, Types, Stage, ledgerVars
  <1>2. RowsAreOwn' /\ EffectsMatchRows' /\ OwnKeyIsFresh'
    BY DEF Abort, Inv, Types, RowsAreOwn, EffectsMatchRows, OwnKeyIsFresh, Execution, Request
  <1>3. EndedIsEmpty' /\ KeysAreUnique' /\ ExpiryIsOptIn' /\ EffectsMatchLedger'
    BY DEF Abort, Inv, Types, Ended, EndedIsEmpty, KeysAreUnique, ExpiryIsOptIn,
           EffectsMatchLedger, ledgerVars
  <1> QED  BY <1>1, <1>2, <1>3 DEF Inv
\* Returning from a call that wrote nothing.
LEMMA ReplayInv ==
    ASSUME Inv, NEW t \in Txns, pc[t] \in {"call", "recover"}, NEW row,
           ReplayOrConflict(t, row), UNCHANGED <<program, ledgerVars>>
    PROVE  Inv'
  <1>1. CASE Conflicts(row, Request(t))
    BY <1>1, AbortInv DEF ReplayOrConflict
  <1>2. CASE ~ Conflicts(row, Request(t))
    <2>1. UNCHANGED <<written, effects>> /\ Return(t, [kind |-> "replayed", result |-> row.result])
      BY <1>2 DEF ReplayOrConflict
    <2>2. step[t] \in 1 .. Len(program[t]) /\ Len(program[t]) \in Nat
      <3>1. program[t] \in Seq(Requests)
        BY ConstantsAssumption DEF Inv, Types
      <3> QED  BY <3>1 DEF Inv, Types
    <2>3. CASE step[t] = Len(program[t])
      <3>1. pc' = [pc EXCEPT ![t] = "ready"] /\ step' = step
        BY <2>1, <2>3 DEF Return
      <3>2. /\ pc' \in [Txns -> Stage] /\ pc'[t] = "ready"
            /\ \A u \in Txns : u # t => pc'[u] = pc[u]
            /\ step' \in [Txns -> Nat \ {0}] /\ step'[t] \in 1 .. Len(program[t])
            /\ step'[t] >= step[t] /\ \A u \in Txns : u # t => step'[u] = step[u]
        BY <2>2, <3>1 DEF Inv, Types, Stage
      <3> QED  BY <2>1, <3>2, MoveInv
    <2>4. CASE step[t] # Len(program[t])
      <3>1. pc' = [pc EXCEPT ![t] = "call"] /\ step' = [step EXCEPT ![t] = step[t] + 1]
        BY <2>1, <2>4 DEF Return
      <3>2. /\ step' \in [Txns -> Nat \ {0}]
            /\ \A u \in Txns : u # t => step'[u] = step[u]
            /\ step'[t] \in 1 .. Len(program[t]) /\ step'[t] >= step[t]
            /\ pc' \in [Txns -> Stage] /\ pc'[t] = "call"
            /\ \A u \in Txns : u # t => pc'[u] = pc[u]
        BY <2>2, <2>4, <3>1 DEF Inv, Types, Stage
      <3> QED  BY <2>1, <3>2, MoveInv
    <2> QED  BY <2>3, <2>4
  <1> QED  BY <1>1, <1>2

LEMMA BeginInv == ASSUME Inv, NEW t \in Txns, Begin(t) PROVE Inv'
  <1>1. CASE Lookup(t) = {}
    <2>1. /\ pc[t] = "call" /\ pc' = [pc EXCEPT ![t] = "body"]
          /\ UNCHANGED <<program, step, written, effects, ledgerVars>>
      BY <1>1 DEF Begin
    <2>2. /\ step' \in [Txns -> Nat \ {0}] /\ step'[t] \in 1 .. Len(program[t])
          /\ step'[t] = step[t] /\ step'[t] >= step[t]
          /\ \A u \in Txns : u # t => step'[u] = step[u]
          /\ pc' \in [Txns -> Stage] /\ pc'[t] = "body"
          /\ \A u \in Txns : u # t => pc'[u] = pc[u]
      BY <2>1 DEF Inv, Types, Stage
    <2> QED  BY <1>1, <2>1, <2>2, MoveInv
  <1>2. CASE Lookup(t) # {}
    <2>1. PICK row \in Lookup(t) : ReplayOrConflict(t, row)
      BY <1>2 DEF Begin
    <2> QED  BY <2>1, ReplayInv DEF Begin
  <1> QED  BY <1>1, <1>2

LEMMA RecoverInv == ASSUME Inv, NEW t \in Txns, Recover(t) PROVE Inv'
  <1>1. CASE Lookup(t) = {}
    BY <1>1, AbortInv DEF Recover
  <1>2. CASE Lookup(t) # {}
    <2>1. PICK row \in Lookup(t) : ReplayOrConflict(t, row)
      BY <1>2 DEF Recover
    <2> QED  BY <2>1, ReplayInv DEF Recover
  <1> QED  BY <1>1, <1>2

\* The operation raised: the transaction carries what it carried before the call.
LEMMA OperationConflictsInv == ASSUME Inv, NEW t \in Txns, OperationConflicts(t) PROVE Inv'
  <1>1. /\ step' \in [Txns -> Nat \ {0}] /\ step'[t] \in 1 .. Len(program[t])
        /\ step'[t] >= step[t] /\ \A u \in Txns : u # t => step'[u] = step[u]
        /\ pc' \in [Txns -> Stage] /\ pc'[t] = "recover"
        /\ \A u \in Txns : u # t => pc'[u] = pc[u]
    BY DEF OperationConflicts, Inv, Types, Stage
  <1> QED  BY <1>1, MoveInv DEF OperationConflicts

\* The effect of the call in progress joins those of the rows.
LEMMA RunOperationInv == ASSUME Inv, NEW t \in Txns, RunOperation(t) PROVE Inv'
  <1> USE DEF RunOperation
  <1>1. Execution(t) \in Executions
    BY DEF Inv, Types, Execution, Executions
  <1>2. Types'
    BY <1>1 DEF Inv, Types, Stage, ledgerVars
  <1>3. RowsAreOwn' /\ OwnKeyIsFresh' /\ EndedIsEmpty'
    BY DEF Inv, Types, RowsAreOwn, OwnKeyIsFresh, Request, Ended, EndedIsEmpty
  <1>4. EffectsMatchRows'
    BY DEF Inv, Types, EffectsMatchRows, Execution
  <1>5. KeysAreUnique' /\ ExpiryIsOptIn' /\ EffectsMatchLedger'
    BY DEF Inv, KeysAreUnique, ExpiryIsOptIn, EffectsMatchLedger, ledgerVars
  <1> QED  BY <1>2, <1>3, <1>4, <1>5 DEF Inv

\* A lost race undoes exactly the effect of the call in progress; a won race
\* gives that effect its row.
LEMMA FlushInv == ASSUME Inv, NEW t \in Txns, Flush(t) PROVE Inv'
  <1> DEFINE k == Request(t).key
             x == Execution(t)
             row == [key |-> k, fp |-> Request(t).fp, result |-> x]
  <1>1. /\ pc[t] = "flush" /\ UNCHANGED <<program, ledgerVars>>
        /\ \A u \in Txns \ {t} : \A r \in written[u] : r.key # k
        /\ x \in Executions /\ x = <<t, step[t]>>
    BY DEF Flush, Holders, Inv, Types, Execution, Executions
  <1>2. Request(t) \in Requests
    BY RequestType DEF Inv
  <1>3. CASE Taken(k)
    <2>1. /\ effects' = [effects EXCEPT ![t] = @ \ {x}]
          /\ pc' = [pc EXCEPT ![t] = "recover"]
          /\ UNCHANGED <<written, step>>
      BY <1>3 DEF Flush, RollbackSavepoint
    <2>2. Types'
      BY <1>1, <2>1 DEF Inv, Types, Stage, ledgerVars
    <2>3. RowsAreOwn' /\ OwnKeyIsFresh' /\ EndedIsEmpty'
      BY <1>1, <2>1 DEF Inv, Types, RowsAreOwn, OwnKeyIsFresh, Request, Ended, EndedIsEmpty
    <2>4. \A r \in written[t] : r.result # x
      BY <1>1 DEF Inv, Types, RowsAreOwn
    <2>5. EffectsMatchRows'
      BY <1>1, <2>1, <2>4 DEF Inv, Types, EffectsMatchRows, Execution
    <2>6. KeysAreUnique' /\ ExpiryIsOptIn' /\ EffectsMatchLedger'
      BY <1>1, <2>1 DEF Inv, KeysAreUnique, ExpiryIsOptIn, EffectsMatchLedger, ledgerVars
    <2> QED  BY <2>2, <2>3, <2>5, <2>6 DEF Inv
  <1>4. CASE ~ Taken(k)
    <2>1. /\ written' = [written EXCEPT ![t] = @ \cup {row}]
          /\ Return(t, [kind |-> "executed", result |-> x])
          /\ UNCHANGED effects
      BY <1>4 DEF Flush
    <2>2. row \in Rows /\ row.key = k /\ row.result = x
      BY <1>1, <1>2 DEF Rows, Requests
    <2>3. step[t] \in 1 .. Len(program[t]) /\ Len(program[t]) \in Nat
      <3>1. program[t] \in Seq(Requests)
        BY ConstantsAssumption DEF Inv, Types
      <3> QED  BY <3>1 DEF Inv, Types
    <2>4. /\ step' \in [Txns -> Nat \ {0}]
          /\ \A u \in Txns : u # t => step'[u] = step[u]
          /\ step'[t] \in 1 .. Len(program[t])
          /\ \/ pc' = [pc EXCEPT ![t] = "ready"]
             \/ pc' = [pc EXCEPT ![t] = "call"] /\ step'[t] = step[t] + 1
      <3>1. CASE step[t] = Len(program[t])
        BY <2>1, <2>3, <3>1 DEF Return, Inv, Types
      <3>2. CASE step[t] # Len(program[t])
        <4>1. pc' = [pc EXCEPT ![t] = "call"] /\ step' = [step EXCEPT ![t] = step[t] + 1]
          BY <2>1, <3>2 DEF Return
        <4> QED  BY <2>3, <3>2, <4>1 DEF Inv, Types
      <3> QED  BY <3>1, <3>2
    <2>5. Types'
      <3>1. written' \in [Txns -> SUBSET Rows]
        BY <2>1, <2>2 DEF Inv, Types
      <3>2. pc' \in [Txns -> Stage]
        BY <2>4 DEF Inv, Types, Stage
      <3> QED  BY <1>1, <2>1, <2>4, <3>1, <3>2 DEF Inv, Types, ledgerVars
    <2>6. RowsAreOwn'
      <3>1. x[1] = t /\ x[2] = step[t] /\ step[t] \in Nat
        BY <1>1, <2>3
      <3>2. ASSUME NEW r \in written'[t]
            PROVE  r.result[1] = t /\ (pc'[t] = "call" => r.result[2] < step'[t])
        <4>1. CASE r = row
          BY <2>2, <2>4, <3>1, <4>1 DEF Inv, Types
        <4>2. CASE r \in written[t]
          <5>1. r.result[1] = t /\ r.result[2] < step[t] /\ r.result[2] \in Nat
            BY <1>1, <4>2 DEF Inv, Types, RowsAreOwn, Rows, Executions
          <5> QED  BY <2>4, <3>1, <5>1 DEF Inv, Types
        <4> QED  BY <2>1, <3>2, <4>1, <4>2 DEF Inv, Types
      <3>3. pc'[t] \in {"call", "ready"}
        BY <2>4 DEF Inv, Types
      <3>4. ASSUME NEW u \in Txns, u # t
            PROVE  written'[u] = written[u] /\ pc'[u] = pc[u] /\ step'[u] = step[u]
        BY <2>1, <2>4, <3>4 DEF Inv, Types
      <3> QED  BY <3>2, <3>3, <3>4 DEF Inv, RowsAreOwn
    <2>7. EffectsMatchRows'
      <3>1. effects[t] = {r.result : r \in written[t]} \cup {x}
        BY <1>1 DEF Inv, EffectsMatchRows
      <3>2. {r.result : r \in written'[t]} = {r.result : r \in written[t]} \cup {x}
        BY <2>1, <2>2 DEF Inv, Types
      <3>3. pc'[t] # "flush" /\ effects' = effects
        BY <2>1, <2>4 DEF Inv, Types
      <3>4. ASSUME NEW u \in Txns, u # t
            PROVE  written'[u] = written[u] /\ pc'[u] = pc[u] /\ step'[u] = step[u]
        BY <2>1, <2>4, <3>4 DEF Inv, Types
      <3> QED  BY <3>1, <3>2, <3>3, <3>4 DEF Inv, EffectsMatchRows, Execution
    <2>8. OwnKeyIsFresh' /\ EndedIsEmpty'
      BY <1>1, <2>1, <2>4 DEF Inv, Types, OwnKeyIsFresh, Request, Ended, EndedIsEmpty
    <2>9. KeysAreUnique'
      <3>1. \A r \in ledger : r.key # k
        BY <1>4 DEF Taken
      <3>2. \A r \in written[t] : r.key # k
        BY <1>1 DEF Inv, OwnKeyIsFresh
      <3>3. \A u \in Txns : \A r \in written'[u] : r \in written[u] \/ (u = t /\ r = row)
        BY <2>1 DEF Inv, Types
      <3>4. ledger' = ledger
        BY <1>1 DEF ledgerVars
      <3>5. \A u \in Txns : \A r \in written[u] : r.key # row.key
        BY <1>1, <2>2, <3>2
      <3>6. \A r \in ledger : r.key # row.key
        BY <2>2, <3>1
      <3> HIDE DEF row
      <3>7. \A u, v \in Txns : \A r \in written'[u], s \in written'[v] :
               r.key = s.key => r = s /\ u = v
        BY <3>3, <3>5 DEF Inv, KeysAreUnique
      <3>8. \A u \in Txns : \A r \in written'[u], s \in ledger' : r.key # s.key
        BY <3>3, <3>4, <3>6 DEF Inv, KeysAreUnique
      <3> QED  BY <3>4, <3>7, <3>8 DEF Inv, KeysAreUnique
    <2>10. ExpiryIsOptIn' /\ EffectsMatchLedger'
      BY <1>1 DEF Inv, ExpiryIsOptIn, EffectsMatchLedger, ledgerVars
    <2> QED  BY <2>5, <2>6, <2>7, <2>8, <2>9, <2>10 DEF Inv
  <1> QED  BY <1>3, <1>4

\* A commit publishes rows and effects together; nobody else's row has a key
\* of the committed ones.
LEMMA CommitInv == ASSUME Inv, NEW t \in Txns, Commit(t) PROVE Inv'
  <1> USE DEF Commit
  <1>1. Types'
    BY DEF Inv, Types, Stage
  <1>2. RowsAreOwn' /\ OwnKeyIsFresh' /\ EndedIsEmpty'
    BY DEF Inv, Types, RowsAreOwn, OwnKeyIsFresh, Request, Ended, EndedIsEmpty
  <1>3. EffectsMatchRows'
    BY DEF Inv, Types, EffectsMatchRows, Execution
  <1>4. KeysAreUnique'
    <2>1. written'[t] = {} /\ \A u \in Txns : u # t => written'[u] = written[u]
      BY DEF Inv, Types
    <2>2. \A u \in Txns : \A r \in written'[u] : u # t /\ r \in written[u]
      BY <2>1
    <2>3. \A u \in Txns : \A r \in written'[u], s \in ledger' : r.key # s.key
      BY <2>2 DEF Inv, KeysAreUnique
    <2>4. \A r, s \in ledger' : r.key = s.key => r = s
      BY DEF Inv, KeysAreUnique
    <2> QED  BY <2>2, <2>3, <2>4 DEF Inv, KeysAreUnique
  <1>5. ExpiryIsOptIn'
    BY DEF Inv, ExpiryIsOptIn
  <1>6. EffectsMatchLedger'
    <2>1. effects[t] = {r.result : r \in written[t]}
      BY DEF Inv, EffectsMatchRows
    <2> QED  BY <2>1 DEF Inv, EffectsMatchLedger
  <1> QED  BY <1>1, <1>2, <1>3, <1>4, <1>5, <1>6 DEF Inv

\* Expiry and purge touch no open transaction and only move rows out of the
\* ledger into the history.
LEMMA PurgeInv ==
    ASSUME Inv, (\E r \in ledger : Expire(r)) \/ Purge \/ PurgeCommit \/ PurgeRollback
    PROVE  Inv'
  <1> USE DEF txnVars
  <1>1. UNCHANGED <<program, pc, step, written, effects, applied>> /\ ledger' \subseteq ledger
    BY DEF Expire, Purge, PurgeCommit, PurgeRollback
  <1>2. Types'
    BY DEF Inv, Types, Expire, Purge, Purgeable, PurgeCommit, PurgeRollback
  <1>3. RowsAreOwn' /\ EffectsMatchRows' /\ OwnKeyIsFresh' /\ EndedIsEmpty'
    BY <1>1 DEF Inv, RowsAreOwn, EffectsMatchRows, Execution, OwnKeyIsFresh, Request, EndedIsEmpty
  <1>4. KeysAreUnique'
    BY <1>1 DEF Inv, KeysAreUnique
  <1>5. ExpiryIsOptIn'
    BY DEF Inv, ExpiryIsOptIn, Expire, Purge, Purgeable, PurgeCommit, PurgeRollback
  <1>6. ledger' \cup purged' = ledger \cup purged
    BY DEF Inv, Types, Expire, Purge, PurgeCommit, PurgeRollback
  <1>7. EffectsMatchLedger'
    BY <1>1, <1>6 DEF Inv, EffectsMatchLedger
  <1> QED  BY <1>2, <1>3, <1>4, <1>5, <1>7 DEF Inv

LEMMA NextInv == ASSUME Inv, [Next]_vars PROVE Inv'
  <1>1. ASSUME NEW t \in Txns, Rollback(t) PROVE Inv'
    BY <1>1, AbortInv DEF Rollback
  <1>2. CASE Next
    BY <1>1, <1>2, BeginInv, RunOperationInv, OperationConflictsInv, FlushInv, RecoverInv,
       CommitInv, PurgeInv DEF Next, CallStep
  <1>3. CASE UNCHANGED vars
    BY <1>3 DEF vars, txnVars, ledgerVars, Inv, Types, RowsAreOwn, EffectsMatchRows,
       Execution, OwnKeyIsFresh, Request, EndedIsEmpty, KeysAreUnique, ExpiryIsOptIn,
       EffectsMatchLedger
  <1> QED  BY <1>2, <1>3

\* Inv is an invariant of execute_once under any interleaving of transactions.
THEOREM LedgerInvariant == Spec => []Inv
  BY InitInv, NextInv, PTL DEF Spec

\* Committed effects are exactly those a ledger row recorded.
THEOREM EffectsHaveRows == Spec => []EffectsMatchLedger
  <1>1. Inv => EffectsMatchLedger
    BY DEF Inv
  <1> QED  BY <1>1, LedgerInvariant, PTL

\* A key has at most one committed effect until its row, if it expires, is purged.
THEOREM AtMostOnce == Spec => []AtMostOncePerKey
  <1>1. Inv => AtMostOncePerKey
    BY DEF Inv, KeysAreUnique, ExpiryIsOptIn, AtMostOncePerKey
  <1> QED  BY <1>1, LedgerInvariant, PTL

-----------------------------------------------------------------------------
(* Answers *)

\* The open calls of a transaction come after those it has been answered.
Open == {"call", "body", "flush", "recover"}

\* Answers and causes are well formed; an answer "executed" keeps its effect with
\* it: in the open transaction, then in the committed state.
Answers ==
    /\ replies \in [Txns -> Seq(Replies)]
    /\ cause \in [Txns -> {"none", "operation", "ledger"}]
    /\ \A t \in Txns : pc[t] \in Open => Len(replies[t]) = step[t] - 1
    /\ \A t \in Txns : \A i \in 1 .. Len(replies[t]) :
          replies[t][i].kind = "executed" =>
              /\ pc[t] \notin Ended => <<t, i>> \in effects[t]
              /\ pc[t] = "committed" => <<t, i>> \in applied

\* The rows a lookup finds carry executions.
LEMMA LookupType == ASSUME Inv, NEW t \in Txns, NEW row \in Lookup(t) PROVE row.result \in Executions
  BY DEF Inv, Types, Lookup, Rows

\* A transaction is answered something other than "executed" and goes on or ends.
LEMMA OtherAnswer ==
    ASSUME Inv, Answers, NEW t \in Txns, pc[t] \in Open \ {"flush"},
           NEW reply \in Replies, reply.kind # "executed",
           replies' = [replies EXCEPT ![t] = Append(@, reply)],
           UNCHANGED <<cause, applied>>,
           \A u \in Txns : u # t => pc'[u] = pc[u] /\ step'[u] = step[u] /\ effects'[u] = effects[u],
           \/ pc'[t] = "aborted"
           \/ pc'[t] = "ready" /\ effects'[t] = effects[t]
           \/ pc'[t] = "call" /\ step'[t] = step[t] + 1 /\ effects'[t] = effects[t]
    PROVE  Answers'
  <1>1. replies[t] \in Seq(Replies) /\ step[t] \in Nat /\ Len(replies[t]) = step[t] - 1
    BY DEF Inv, Types, Answers
  <1>2. replies' \in [Txns -> Seq(Replies)] /\ replies'[t] = Append(replies[t], reply)
    BY <1>1 DEF Answers
  <1>3. Len(replies'[t]) = step[t] /\ replies'[t][step[t]] = reply
        /\ \A i \in 1 .. Len(replies[t]) : replies'[t][i] = replies[t][i]
    BY <1>1, <1>2
  <1>4. ASSUME NEW u \in Txns, pc'[u] \in Open PROVE Len(replies'[u]) = step'[u] - 1
    <2>1. CASE u = t
      <3>1. pc'[t] = "call" /\ step'[t] = step[t] + 1
        BY <1>4, <2>1 DEF Open
      <3> QED  BY <1>1, <1>3, <2>1, <3>1
    <2>2. CASE u # t
      BY <1>4, <2>2 DEF Answers
    <2> QED  BY <2>1, <2>2
  <1>5. ASSUME NEW i \in 1 .. Len(replies'[t]), replies'[t][i].kind = "executed"
        PROVE  (pc'[t] \notin Ended => <<t, i>> \in effects'[t])
               /\ (pc'[t] = "committed" => <<t, i>> \in applied')
    <2>1. i \in 1 .. Len(replies[t]) /\ replies[t][i].kind = "executed"
      BY <1>1, <1>3, <1>5
    <2>2. <<t, i>> \in effects[t]
      BY <2>1 DEF Answers, Open, Ended
    <2> QED  BY <2>2 DEF Ended
  <1>6. ASSUME NEW u \in Txns, u # t, NEW i \in 1 .. Len(replies'[u]), replies'[u][i].kind = "executed"
        PROVE  (pc'[u] \notin Ended => <<u, i>> \in effects'[u])
               /\ (pc'[u] = "committed" => <<u, i>> \in applied')
    BY <1>6 DEF Answers
  <1> QED  BY <1>2, <1>4, <1>5, <1>6 DEF Answers

LEMMA AbortWithAnswer ==
    ASSUME Inv, Answers, NEW t \in Txns, pc[t] \in Open \ {"flush"}, Abort(t),
           NEW reply \in Replies, reply.kind # "executed",
           replies' = [replies EXCEPT ![t] = Append(@, reply)],
           UNCHANGED <<cause, applied>>
    PROVE  Answers'
  <1>1. /\ pc'[t] = "aborted"
        /\ \A u \in Txns : u # t => pc'[u] = pc[u] /\ step'[u] = step[u] /\ effects'[u] = effects[u]
    BY DEF Abort, Inv, Types
  <1> QED  BY <1>1, OtherAnswer

\* Return moves the transaction to its next call or to its end.
LEMMA ReturnMoves ==
    ASSUME Inv, NEW t \in Txns, NEW reply, Return(t, reply)
    PROVE  /\ replies' = [replies EXCEPT ![t] = Append(@, reply)]
           /\ \A u \in Txns : u # t => pc'[u] = pc[u] /\ step'[u] = step[u]
           /\ pc'[t] = "ready" \/ (pc'[t] = "call" /\ step'[t] = step[t] + 1)
  <1>1. CASE step[t] = Len(program[t])
    BY <1>1 DEF Return, Inv, Types
  <1>2. CASE step[t] # Len(program[t])
    BY <1>2 DEF Return, Inv, Types
  <1> QED  BY <1>1, <1>2

LEMMA ReplayAnswer ==
    ASSUME Inv, Answers, NEW t \in Txns, pc[t] \in Open \ {"flush"}, NEW row \in Lookup(t),
           ReplayOrConflict(t, row), UNCHANGED <<cause, applied>>
    PROVE  Answers'
  <1>1. row.result \in Executions
    BY LookupType
  <1>2. CASE Conflicts(row, Request(t))
    <2> DEFINE reply == [kind |-> "conflict", result |-> row.result]
    <2>1. reply \in Replies /\ reply.kind # "executed"
      BY <1>1 DEF Replies
    <2>2. Abort(t) /\ replies' = [replies EXCEPT ![t] = Append(@, reply)]
      BY <1>2 DEF ReplayOrConflict
    <2> QED  BY <2>1, <2>2, AbortWithAnswer
  <1>3. CASE ~ Conflicts(row, Request(t))
    <2> DEFINE reply == [kind |-> "replayed", result |-> row.result]
    <2>1. reply \in Replies /\ reply.kind # "executed"
      BY <1>1 DEF Replies
    <2>2. Return(t, reply) /\ effects' = effects
      BY <1>3 DEF ReplayOrConflict
    <2> HIDE DEF reply
    <2> QED  BY <2>1, <2>2, ReturnMoves, OtherAnswer
  <1> QED  BY <1>2, <1>3

\* A step of a call that answers nothing and undoes at most the effect of that call.
LEMMA NoAnswer ==
    ASSUME Inv, Answers, NEW t \in Txns, pc[t] \in Open,
           UNCHANGED <<step, replies, applied>>,
           cause' \in [Txns -> {"none", "operation", "ledger"}],
           pc'[t] \in Open,
           \A u \in Txns : u # t => pc'[u] = pc[u] /\ effects'[u] = effects[u],
           \A x \in effects[t] : x # Execution(t) => x \in effects'[t]
    PROVE  Answers'
  <1>1. \A u \in Txns : pc'[u] \in Open => Len(replies'[u]) = step'[u] - 1
    BY DEF Answers
  <1>2. ASSUME NEW u \in Txns, NEW i \in 1 .. Len(replies'[u]), replies'[u][i].kind = "executed"
        PROVE  (pc'[u] \notin Ended => <<u, i>> \in effects'[u])
               /\ (pc'[u] = "committed" => <<u, i>> \in applied')
    <2>1. CASE u = t
      <3>1. Len(replies[t]) = step[t] - 1 /\ step[t] \in Nat
        BY DEF Answers, Inv, Types
      <3>2. <<t, i>> # Execution(t)
        BY <1>2, <2>1, <3>1 DEF Execution
      <3>3. <<t, i>> \in effects[t]
        BY <1>2, <2>1 DEF Answers, Open, Ended
      <3>4. pc'[t] # "committed"
        BY DEF Open
      <3> QED  BY <2>1, <3>2, <3>3, <3>4
    <2>2. CASE u # t
      BY <1>2, <2>2 DEF Answers
    <2> QED  BY <2>1, <2>2
  <1> QED  BY <1>1, <1>2 DEF Answers

LEMMA CallAnswers ==
    ASSUME Inv, Answers, NEW t \in Txns, Begin(t) \/ RunOperation(t) \/ OperationConflicts(t)
                                         \/ Recover(t)
    PROVE  Answers'
  <1>1. CASE Begin(t)
    <2>1. CASE Lookup(t) = {}
      <3>1. pc[t] = "call" /\ pc' = [pc EXCEPT ![t] = "body"]
            /\ UNCHANGED <<step, effects, replies, cause, applied>>
        BY <1>1, <2>1 DEF Begin, ledgerVars
      <3>2. pc[t] \in Open /\ pc'[t] \in Open
            /\ \A u \in Txns : u # t => pc'[u] = pc[u] /\ effects'[u] = effects[u]
        BY <3>1 DEF Inv, Types, Open
      <3>3. cause' \in [Txns -> {"none", "operation", "ledger"}]
        BY <3>1 DEF Answers
      <3> QED  BY <3>1, <3>2, <3>3, NoAnswer
    <2>2. CASE Lookup(t) # {}
      <3>1. PICK row \in Lookup(t) : ReplayOrConflict(t, row)
        BY <1>1, <2>2 DEF Begin
      <3>2. pc[t] \in Open \ {"flush"} /\ UNCHANGED <<cause, applied>>
        BY <1>1 DEF Begin, ledgerVars, Open
      <3> QED  BY <3>1, <3>2, ReplayAnswer
    <2> QED  BY <2>1, <2>2
  <1>2. CASE RunOperation(t)
    <2>1. pc[t] = "body" /\ pc' = [pc EXCEPT ![t] = "flush"]
          /\ effects' = [effects EXCEPT ![t] = @ \cup {Execution(t)}]
          /\ UNCHANGED <<step, replies, cause, applied>>
      BY <1>2 DEF RunOperation, ledgerVars
    <2>2. pc[t] \in Open /\ pc'[t] \in Open
          /\ \A u \in Txns : u # t => pc'[u] = pc[u] /\ effects'[u] = effects[u]
          /\ \A x \in effects[t] : x \in effects'[t]
      BY <2>1 DEF Inv, Types, Open
    <2>3. cause' \in [Txns -> {"none", "operation", "ledger"}]
      BY <2>1 DEF Answers
    <2> QED  BY <2>1, <2>2, <2>3, NoAnswer
  <1>3. CASE OperationConflicts(t)
    <2>1. pc[t] = "body" /\ pc' = [pc EXCEPT ![t] = "recover"]
          /\ cause' = [cause EXCEPT ![t] = "operation"]
          /\ UNCHANGED <<step, effects, replies, applied>>
      BY <1>3 DEF OperationConflicts, ledgerVars
    <2>2. pc[t] \in Open /\ pc'[t] \in Open
          /\ \A u \in Txns : u # t => pc'[u] = pc[u] /\ effects'[u] = effects[u]
      BY <2>1 DEF Inv, Types, Open
    <2>3. cause' \in [Txns -> {"none", "operation", "ledger"}]
      BY <2>1 DEF Answers
    <2> QED  BY <2>1, <2>2, <2>3, NoAnswer
  <1>4. CASE Recover(t)
    <2>1. pc[t] \in Open \ {"flush"} /\ UNCHANGED <<cause, applied>>
      BY <1>4 DEF Recover, ledgerVars, Open
    <2>2. CASE Lookup(t) = {}
      <3> DEFINE reply == [kind |-> "raised", result |-> Execution(t)]
      <3>1. reply \in Replies /\ reply.kind # "executed"
        BY DEF Replies, Execution, Executions, Inv, Types
      <3>2. Abort(t) /\ replies' = [replies EXCEPT ![t] = Append(@, reply)]
        BY <1>4, <2>2 DEF Recover
      <3> QED  BY <2>1, <3>1, <3>2, AbortWithAnswer
    <2>3. CASE Lookup(t) # {}
      <3>1. PICK row \in Lookup(t) : ReplayOrConflict(t, row)
        BY <1>4, <2>3 DEF Recover
      <3> QED  BY <2>1, <3>1, ReplayAnswer
    <2> QED  BY <2>2, <2>3
  <1> QED  BY <1>1, <1>2, <1>3, <1>4

\* The flush answers "executed" with the effect the operation has just made.
LEMMA FlushAnswers == ASSUME Inv, Answers, NEW t \in Txns, Flush(t) PROVE Answers'
  <1> DEFINE k == Request(t).key
             reply == [kind |-> "executed", result |-> Execution(t)]
  <1>1. pc[t] = "flush" /\ applied' = applied
    BY DEF Flush, ledgerVars
  <1>2. CASE Taken(k)
    <2>1. effects' = [effects EXCEPT ![t] = @ \ {Execution(t)}]
          /\ pc' = [pc EXCEPT ![t] = "recover"]
          /\ cause' = [cause EXCEPT ![t] = "ledger"]
          /\ UNCHANGED <<replies, step>>
      BY <1>2 DEF Flush, RollbackSavepoint
    <2>2. pc[t] \in Open /\ pc'[t] \in Open
          /\ \A u \in Txns : u # t => pc'[u] = pc[u] /\ effects'[u] = effects[u]
          /\ \A x \in effects[t] : x # Execution(t) => x \in effects'[t]
      BY <1>1, <2>1 DEF Inv, Types, Open
    <2>3. cause' \in [Txns -> {"none", "operation", "ledger"}]
      BY <2>1 DEF Answers
    <2> QED  BY <1>1, <2>1, <2>2, <2>3, NoAnswer
  <1>3. CASE ~ Taken(k)
    <2>1. Return(t, reply) /\ UNCHANGED <<effects, cause>>
      BY <1>3 DEF Flush
    <2>2. reply \in Replies /\ Execution(t) = <<t, step[t]>>
      BY DEF Replies, Execution, Executions, Inv, Types
    <2>3. Execution(t) \in effects[t]
      BY <1>1 DEF Inv, EffectsMatchRows
    <2> HIDE DEF reply
    <2>4. /\ replies' = [replies EXCEPT ![t] = Append(@, reply)]
          /\ \A u \in Txns : u # t => pc'[u] = pc[u] /\ step'[u] = step[u]
          /\ pc'[t] = "ready" \/ (pc'[t] = "call" /\ step'[t] = step[t] + 1)
      BY <2>1, ReturnMoves
    <2>5. replies[t] \in Seq(Replies) /\ step[t] \in Nat /\ Len(replies[t]) = step[t] - 1
      BY <1>1 DEF Inv, Types, Answers, Open
    <2>6. replies' \in [Txns -> Seq(Replies)] /\ replies'[t] = Append(replies[t], reply)
      BY <2>2, <2>4, <2>5 DEF Answers
    <2>7. Len(replies'[t]) = step[t]
          /\ \A i \in 1 .. Len(replies[t]) : replies'[t][i] = replies[t][i]
      BY <2>5, <2>6
    <2>8. \A u \in Txns : pc'[u] \in Open => Len(replies'[u]) = step'[u] - 1
      BY <2>4, <2>5, <2>6, <2>7 DEF Answers, Open
    <2>9. ASSUME NEW i \in 1 .. Len(replies'[t]), replies'[t][i].kind = "executed"
          PROVE  <<t, i>> \in effects[t]
      <3>1. CASE i = step[t]
        BY <2>2, <2>3, <3>1
      <3>2. CASE i # step[t]
        <4>1. i \in 1 .. Len(replies[t]) /\ replies[t][i].kind = "executed"
          BY <2>5, <2>7, <2>9, <3>2
        <4> QED  BY <1>1, <4>1 DEF Answers, Ended
      <3> QED  BY <3>1, <3>2
    <2>10. ASSUME NEW u \in Txns, u # t, NEW i \in 1 .. Len(replies'[u]),
                  replies'[u][i].kind = "executed"
           PROVE  (pc'[u] \notin Ended => <<u, i>> \in effects'[u])
                  /\ (pc'[u] = "committed" => <<u, i>> \in applied')
      BY <1>1, <2>1, <2>4, <2>10 DEF Answers
    <2>11. pc'[t] # "committed" /\ effects' = effects /\ cause' = cause
      BY <2>1, <2>4
    <2> QED  BY <2>6, <2>8, <2>9, <2>10, <2>11 DEF Answers
  <1> QED  BY <1>2, <1>3

LEMMA EndAnswers == ASSUME Inv, Answers, NEW t \in Txns, Commit(t) \/ Rollback(t) PROVE Answers'
  <1>1. CASE Commit(t)
    BY <1>1 DEF Commit, Inv, Types, Answers, Open, Ended
  <1>2. CASE Rollback(t)
    BY <1>2 DEF Rollback, Abort, Inv, Types, Answers, Open, Ended, ledgerVars
  <1> QED  BY <1>1, <1>2

LEMMA NextAnswers == ASSUME Inv, Answers, [Next]_vars PROVE Answers'
  <1>1. CASE (\E r \in ledger : Expire(r)) \/ Purge \/ PurgeCommit \/ PurgeRollback
    BY <1>1 DEF Expire, Purge, PurgeCommit, PurgeRollback, txnVars, Answers
  <1>2. CASE UNCHANGED vars
    BY <1>2 DEF vars, txnVars, ledgerVars, Answers
  <1> QED  BY <1>1, <1>2, CallAnswers, FlushAnswers, EndAnswers DEF Next, CallStep

LEMMA AnswersHold == Spec => []Answers
  <1>1. Init => Answers
    BY DEF Init, Answers, Open
  <1> QED  BY <1>1, NextAnswers, LedgerInvariant, PTL DEF Spec

\* Type correctness of the ledger, of every request and of every answer.
THEOREM LedgerTypes == Spec => []TypeOK
  <1>1. Inv /\ Answers => TypeOK
    <2>1. Inv => applied \subseteq Executions
      BY DEF Inv, Types, EffectsMatchLedger, Rows
    <2> QED  BY <2>1 DEF Inv, Types, Answers, TypeOK
  <1> QED  BY <1>1, LedgerInvariant, AnswersHold, PTL

\* A caller told "executed" by a request that committed has its effect, whatever
\* other calls of the request lost their races.
THEOREM AnswersAreDurable == Spec => []ExecutedIsDurable
  <1>1. Answers => ExecutedIsDurable
    BY DEF Answers, ExecutedIsDurable, Ended
  <1> QED  BY <1>1, AnswersHold, PTL

-----------------------------------------------------------------------------
(* What replays and re-raised errors rest on *)

\* A call is answered: a replay from a row it saw and may be answered from, a
\* raised error from a second lookup that found no winner.
Answered(t, reply) ==
    /\ pc[t] \in Open
    /\ replies' = [replies EXCEPT ![t] = Append(@, reply)]
    /\ reply.kind = "replayed" =>
          \E row \in Lookup(t) : ~ Conflicts(row, Request(t)) /\ reply.result = row.result
    /\ reply.kind = "raised" => pc[t] = "recover" /\ Lookup(t) = {} /\ pc'[t] = "aborted"

\* An IntegrityError of the unique constraint has met a row of the key, and an
\* error that is raised ends the request.
RaiseInv ==
    /\ \A t \in Txns : pc[t] = "recover" /\ cause[t] = "ledger" =>
          \E r \in ledger \cup purged : r.key = Request(t).key
    /\ \A t \in Txns : \A i \in 1 .. Len(replies[t]) :
          replies[t][i].kind = "raised" => pc[t] = "aborted"
    /\ RaisedIsExplained

LEMMA ReplayAnswered ==
    ASSUME NEW t \in Txns, pc[t] \in Open, NEW row \in Lookup(t), ReplayOrConflict(t, row)
    PROVE  \E reply : Answered(t, reply)
  <1>1. CASE Conflicts(row, Request(t))
    <2> DEFINE reply == [kind |-> "conflict", result |-> row.result]
    <2>1. replies' = [replies EXCEPT ![t] = Append(@, reply)]
      BY <1>1 DEF ReplayOrConflict
    <2>2. reply.kind = "conflict"
      OBVIOUS
    <2>3. Answered(t, reply)
      BY <2>1, <2>2 DEF Answered
    <2> QED  BY <2>3
  <1>2. CASE ~ Conflicts(row, Request(t))
    <2> DEFINE reply == [kind |-> "replayed", result |-> row.result]
    <2>1. replies' = [replies EXCEPT ![t] = Append(@, reply)]
      BY <1>2 DEF ReplayOrConflict, Return
    <2>2. reply.kind = "replayed" /\ reply.result = row.result
      OBVIOUS
    <2>3. Answered(t, reply)
      BY <1>2, <2>1, <2>2 DEF Answered
    <2> QED  BY <2>3
  <1> QED  BY <1>1, <1>2

\* Every step answers at most one call.
LEMMA StepAnswers ==
    ASSUME Inv, [Next]_vars
    PROVE  replies' = replies \/ \E t \in Txns : \E reply : Answered(t, reply)
  <1>1. ASSUME NEW t \in Txns, Begin(t) \/ Recover(t), Lookup(t) # {}
        PROVE  \E reply : Answered(t, reply)
    <2>1. PICK row \in Lookup(t) : ReplayOrConflict(t, row)
      BY <1>1 DEF Begin, Recover
    <2>2. pc[t] \in Open
      BY <1>1 DEF Begin, Recover, Open
    <2> QED  BY <2>1, <2>2, ReplayAnswered
  <1>2. ASSUME NEW t \in Txns, Begin(t), Lookup(t) = {} PROVE replies' = replies
    BY <1>2 DEF Begin
  <1>3. ASSUME NEW t \in Txns, Recover(t), Lookup(t) = {} PROVE \E reply : Answered(t, reply)
    <2> DEFINE reply == [kind |-> "raised", result |-> Execution(t)]
    <2>1. replies' = [replies EXCEPT ![t] = Append(@, reply)] /\ Abort(t) /\ pc[t] = "recover"
      BY <1>3 DEF Recover
    <2>2. reply.kind = "raised"
      OBVIOUS
    <2>3. pc'[t] = "aborted"
      BY <2>1 DEF Abort, Inv, Types
    <2>4. Answered(t, reply)
      BY <1>3, <2>1, <2>2, <2>3 DEF Answered, Open
    <2> QED  BY <2>4
  <1>4. ASSUME NEW t \in Txns, Flush(t)
        PROVE  replies' = replies \/ \E reply : Answered(t, reply)
    <2>1. CASE Taken(Request(t).key)
      BY <1>4, <2>1 DEF Flush
    <2>2. CASE ~ Taken(Request(t).key)
      <3> DEFINE reply == [kind |-> "executed", result |-> Execution(t)]
      <3>1. replies' = [replies EXCEPT ![t] = Append(@, reply)] /\ pc[t] = "flush"
        BY <1>4, <2>2 DEF Flush, Return
      <3>2. reply.kind = "executed"
        OBVIOUS
      <3>3. Answered(t, reply)
        BY <3>1, <3>2 DEF Answered, Open
      <3> QED  BY <3>3
    <2> QED  BY <2>1, <2>2
  <1>5. ASSUME NEW t \in Txns,
               RunOperation(t) \/ OperationConflicts(t) \/ Commit(t) \/ Rollback(t)
        PROVE  replies' = replies
    BY <1>5 DEF RunOperation, OperationConflicts, Commit, Rollback
  <1>6. CASE (\E r \in ledger : Expire(r)) \/ Purge \/ PurgeCommit \/ PurgeRollback
    BY <1>6 DEF Expire, Purge, PurgeCommit, PurgeRollback, txnVars
  <1>7. CASE UNCHANGED vars
    BY <1>7 DEF vars, txnVars
  <1> QED  BY <1>1, <1>2, <1>3, <1>4, <1>5, <1>6, <1>7 DEF Next, CallStep

\* An answer is appended at the index of the call that is answered.
LEMMA AnswerPlace ==
    ASSUME Inv, Answers, NEW t \in Txns, NEW reply, Answered(t, reply)
    PROVE  /\ step[t] \in 1 .. Len(replies'[t]) /\ Len(replies'[t]) = step[t]
           /\ replies'[t][step[t]] = reply
           /\ \A i \in 1 .. Len(replies'[t]) : i # step[t] =>
                 i \in 1 .. Len(replies[t]) /\ replies'[t][i] = replies[t][i]
           /\ \A u \in Txns : u # t => replies'[u] = replies[u]
  <1>1. replies[t] \in Seq(Replies) /\ step[t] \in Nat \ {0} /\ Len(replies[t]) = step[t] - 1
    BY DEF Answered, Inv, Types, Answers
  <1>2. replies'[t] = Append(replies[t], reply)
    BY DEF Answered, Answers
  <1>3. Len(replies'[t]) = step[t] /\ replies'[t][step[t]] = reply
        /\ \A i \in 1 .. Len(replies[t]) : replies'[t][i] = replies[t][i]
    BY <1>1, <1>2
  <1>4. \A u \in Txns : u # t => replies'[u] = replies[u]
    BY DEF Answered, Answers
  <1> QED  BY <1>1, <1>3, <1>4

\* No step forgets a row, an effect or a program.
LEMMA HistoryGrows ==
    ASSUME Inv, [Next]_vars
    PROVE  /\ program' = program
           /\ ledger \cup purged \subseteq ledger' \cup purged'
           /\ purged \subseteq purged'
           /\ applied \subseteq applied'
  <1> USE DEF txnVars, ledgerVars
  <1>1. ASSUME NEW t \in Txns, CallStep(t) \/ Rollback(t)
        PROVE  UNCHANGED <<program, ledger, purged, applied>>
    BY <1>1 DEF CallStep, Begin, RunOperation, OperationConflicts, Flush, Recover, Rollback
  <1>2. ASSUME NEW t \in Txns, Commit(t)
        PROVE  /\ UNCHANGED <<program, purged>>
               /\ ledger \subseteq ledger' /\ applied \subseteq applied'
    BY <1>2 DEF Commit
  <1>3. CASE (\E r \in ledger : Expire(r)) \/ Purge \/ PurgeCommit \/ PurgeRollback
    BY <1>3 DEF Expire, Purge, PurgeCommit, PurgeRollback
  <1>4. CASE UNCHANGED vars
    BY <1>4 DEF vars
  <1> QED  BY <1>1, <1>2, <1>3, <1>4 DEF Next

\* A replay answers from a committed row of the key, whose effect is committed,
\* or from a row an earlier call of the same transaction wrote.
LEMMA ReplayStep ==
    ASSUME Inv, Answers, ReplaysAreReal, [Next]_vars PROVE ReplaysAreReal'
  <1> DEFINE Real(t, i, result) ==
                 \/ \E r \in ledger \cup purged :
                       /\ r.key = program[t][i].key
                       /\ r.result = result
                       /\ r.result \in applied
                       /\ r.fp = program[t][i].fp \/ NoFingerprint \in {r.fp, program[t][i].fp}
                 \/ result \in {t} \X (1 .. i - 1)
  <1>1. \A t \in Txns : \A i \in 1 .. Len(replies[t]) :
           replies[t][i].kind = "replayed" => Real(t, i, replies[t][i].result)
    BY DEF ReplaysAreReal
  <1>2. ASSUME NEW t \in Txns, NEW i, NEW x, Real(t, i, x) PROVE Real(t, i, x)'
    BY <1>2, HistoryGrows
  <1>3. ASSUME NEW t \in Txns, NEW reply, Answered(t, reply), reply.kind = "replayed"
        PROVE  Real(t, step[t], reply.result)
    <2>1. PICK row \in Lookup(t) : ~ Conflicts(row, Request(t)) /\ reply.result = row.result
      BY <1>3 DEF Answered
    <2>2. /\ row.key = program[t][step[t]].key
          /\ row.fp = program[t][step[t]].fp
             \/ NoFingerprint \in {row.fp, program[t][step[t]].fp}
      BY <2>1 DEF Lookup, Conflicts, Request
    <2>3. CASE row \in ledger
      <3>1. row.result \in applied
        BY <2>3 DEF Inv, EffectsMatchLedger
      <3> QED  BY <2>1, <2>2, <2>3, <3>1
    <2>4. CASE row \in written[t]
      <3>1. row.result \in Executions /\ row.result[1] = t /\ row.result[2] < step[t]
        BY <1>3, <2>4 DEF Answered, Open, Inv, Types, RowsAreOwn, Rows
      <3>2. step[t] \in Nat
        BY DEF Inv, Types
      <3>3. row.result \in {t} \X (1 .. step[t] - 1)
        BY <3>1, <3>2 DEF Executions
      <3> QED  BY <2>1, <3>3
    <2> QED  BY <2>3, <2>4 DEF Lookup
  <1>4. ASSUME NEW t \in Txns, NEW i \in 1 .. Len(replies'[t]), replies'[t][i].kind = "replayed"
        PROVE  Real(t, i, replies'[t][i].result)
    <2>1. CASE replies'[t] = replies[t]
      BY <1>1, <1>4, <2>1
    <2>2. CASE replies'[t] # replies[t]
      <3>1. PICK u \in Txns : \E reply : Answered(u, reply)
        BY <2>2, StepAnswers
      <3>2. PICK reply : Answered(u, reply)
        BY <3>1
      <3> HIDE DEF Real
      <3>3. u = t
        BY <2>2, <3>2, AnswerPlace
      <3>4. CASE i = step[t]
        BY <1>3, <1>4, <3>2, <3>3, <3>4, AnswerPlace
      <3>5. CASE i # step[t]
        BY <1>1, <1>4, <3>2, <3>3, <3>5, AnswerPlace
      <3> QED  BY <3>4, <3>5
    <2> QED  BY <2>1, <2>2
  <1>5. \A t \in Txns : \A i \in 1 .. Len(replies'[t]) :
           replies'[t][i].kind = "replayed" => Real(t, i, replies[t][i].result)'
    BY <1>2, <1>4
  <1> QED  BY <1>5 DEF ReplaysAreReal

\* Nobody is answered from an effect that may still roll back.
THEOREM ReplaysRestOnCommits == Spec => []ReplaysAreReal
  <1>1. Init => ReplaysAreReal
    BY DEF Init, ReplaysAreReal
  <1> QED  BY <1>1, ReplayStep, AnswersHold, LedgerInvariant, PTL DEF Spec

\* An aborted request stays aborted with the cause it had, and a transaction
\* recovers from its unique constraint only where a row of the key is committed.
LEMMA RecoveringStep ==
    ASSUME Inv, Answers, [Next]_vars, NEW t \in Txns
    PROVE  /\ pc[t] = "aborted" => pc'[t] = "aborted" /\ cause'[t] = cause[t]
           /\ pc'[t] = "recover" /\ cause'[t] = "ledger" =>
                 /\ step'[t] = step[t]
                 /\ (pc[t] = "recover" /\ cause[t] = "ledger") \/ Taken(Request(t).key)
           /\ pc[t] = "recover" /\ pc'[t] = "aborted" => cause'[t] = cause[t]
  <1> USE DEF txnVars, ledgerVars
  <1>1. ASSUME NEW u \in Txns, Begin(u) \/ Recover(u)
        PROVE  /\ cause' = cause /\ pc'[u] # "recover" /\ pc[u] \in {"call", "recover"}
               /\ \A v \in Txns : v # u => pc'[v] = pc[v] /\ step'[v] = step[v]
    <2>1. CASE Lookup(u) = {}
      BY <1>1, <2>1 DEF Begin, Recover, Abort, Inv, Types
    <2>2. CASE Lookup(u) # {}
      <3>1. PICK row \in Lookup(u) : ReplayOrConflict(u, row)
        BY <1>1, <2>2 DEF Begin, Recover
      <3>2. CASE Conflicts(row, Request(u))
        BY <1>1, <3>1, <3>2 DEF ReplayOrConflict, Abort, Begin, Recover, Inv, Types
      <3>3. CASE ~ Conflicts(row, Request(u))
        <4> DEFINE reply == [kind |-> "replayed", result |-> row.result]
        <4>1. Return(u, reply)
          BY <3>1, <3>3 DEF ReplayOrConflict
        <4> HIDE DEF reply
        <4> QED  BY <1>1, <4>1, ReturnMoves DEF Begin, Recover
      <3> QED  BY <3>2, <3>3
    <2> QED  BY <2>1, <2>2
  <1>2. ASSUME NEW u \in Txns, Flush(u)
        PROVE  /\ pc[u] = "flush"
               /\ \A v \in Txns : v # u =>
                     pc'[v] = pc[v] /\ step'[v] = step[v] /\ cause'[v] = cause[v]
               /\ pc'[u] = "recover" => Taken(Request(u).key) /\ step'[u] = step[u]
               /\ pc'[u] # "aborted"
    <2>1. CASE Taken(Request(u).key)
      BY <1>2, <2>1 DEF Flush, Inv, Types, Answers
    <2>2. CASE ~ Taken(Request(u).key)
      <3> DEFINE reply == [kind |-> "executed", result |-> Execution(u)]
      <3>1. Return(u, reply) /\ cause' = cause /\ pc[u] = "flush"
        BY <1>2, <2>2 DEF Flush
      <3> HIDE DEF reply
      <3> QED  BY <3>1, ReturnMoves
    <2> QED  BY <2>1, <2>2
  <1>3. ASSUME NEW u \in Txns, RunOperation(u) \/ OperationConflicts(u)
        PROVE  /\ pc[u] = "body" /\ step' = step
               /\ \A v \in Txns : v # u => pc'[v] = pc[v] /\ cause'[v] = cause[v]
               /\ pc'[u] = "flush" \/ (pc'[u] = "recover" /\ cause'[u] = "operation")
    BY <1>3 DEF RunOperation, OperationConflicts, Inv, Types, Answers
  <1>4. ASSUME NEW u \in Txns, Commit(u) \/ Rollback(u)
        PROVE  /\ pc[u] # "aborted" /\ pc'[u] \in Ended /\ step' = step /\ cause' = cause
               /\ \A v \in Txns : v # u => pc'[v] = pc[v]
    BY <1>4 DEF Commit, Rollback, Abort, Ended, Inv, Types
  <1>5. CASE \E u \in Txns : Begin(u) \/ Recover(u)
    BY <1>1, <1>5
  <1>6. CASE \E u \in Txns : Flush(u)
    BY <1>2, <1>6
  <1>7. CASE \E u \in Txns : RunOperation(u) \/ OperationConflicts(u)
    BY <1>3, <1>7
  <1>8. CASE \E u \in Txns : Commit(u) \/ Rollback(u)
    BY <1>4, <1>8 DEF Ended
  <1>9. CASE (\E r \in ledger : Expire(r)) \/ Purge \/ PurgeCommit \/ PurgeRollback
    BY <1>9 DEF Expire, Purge, PurgeCommit, PurgeRollback
  <1>10. CASE UNCHANGED vars
    BY <1>10 DEF vars
  <1> QED  BY <1>5, <1>6, <1>7, <1>8, <1>9, <1>10 DEF Next, CallStep

\* The winner's row can only have gone by a purge, and only keys with an expiry
\* are purged.
LEMMA RaiseStep ==
    ASSUME Inv, Answers, RaiseInv, [Next]_vars PROVE RaiseInv'
  <1>1. \A t \in Txns : pc'[t] = "recover" /\ cause'[t] = "ledger" =>
           \E r \in ledger' \cup purged' : r.key = Request(t)'.key
    <2> SUFFICES ASSUME NEW t \in Txns, pc'[t] = "recover", cause'[t] = "ledger"
                 PROVE  \E r \in ledger' \cup purged' : r.key = Request(t)'.key
      OBVIOUS
    <2>1. step'[t] = step[t] /\ Request(t)' = Request(t)
      BY RecoveringStep, HistoryGrows DEF Request
    <2>2. \E r \in ledger \cup purged : r.key = Request(t).key
      BY RecoveringStep DEF RaiseInv, Taken
    <2> QED  BY <2>1, <2>2, HistoryGrows
  <1>2. ASSUME NEW t \in Txns, NEW i \in 1 .. Len(replies'[t]), replies'[t][i].kind = "raised"
        PROVE  /\ pc'[t] = "aborted"
               /\ cause'[t] = "ledger" =>
                     \E r \in purged' : r.key = program'[t][i].key /\ r.key \in ExpiringKeys
    <2>1. CASE i \in 1 .. Len(replies[t]) /\ replies'[t][i] = replies[t][i]
      <3>1. pc[t] = "aborted"
        BY <1>2, <2>1 DEF RaiseInv
      <3>2. pc'[t] = "aborted" /\ cause'[t] = cause[t]
        BY <3>1, RecoveringStep
      <3>3. cause[t] = "ledger" =>
               \E r \in purged : r.key = program[t][i].key /\ r.key \in ExpiringKeys
        BY <1>2, <2>1 DEF RaiseInv, RaisedIsExplained
      <3> QED  BY <3>2, <3>3, HistoryGrows
    <2>2. CASE ~ (i \in 1 .. Len(replies[t]) /\ replies'[t][i] = replies[t][i])
      <3>1. replies' # replies
        BY <1>2, <2>2
      <3>2. PICK u \in Txns : \E reply : Answered(u, reply)
        BY <3>1, StepAnswers
      <3>3. PICK reply : Answered(u, reply)
        BY <3>2
      <3>4. u = t
        BY <1>2, <2>2, <3>3, AnswerPlace
      <3>5. i = step[t] /\ reply.kind = "raised"
        BY <1>2, <2>2, <3>3, <3>4, AnswerPlace
      <3>6. pc[t] = "recover" /\ Lookup(t) = {} /\ pc'[t] = "aborted" /\ cause'[t] = cause[t]
        BY <3>3, <3>4, <3>5, RecoveringStep DEF Answered
      <3>7. ASSUME cause[t] = "ledger"
            PROVE  \E r \in purged : r.key = program[t][i].key /\ r.key \in ExpiringKeys
        <4>1. PICK r \in ledger \cup purged : r.key = Request(t).key
          BY <3>6, <3>7 DEF RaiseInv
        <4>2. r \notin ledger
          BY <3>6, <4>1 DEF Lookup
        <4> QED  BY <3>5, <4>1, <4>2 DEF Request, Inv, ExpiryIsOptIn
      <3> QED  BY <3>6, <3>7, HistoryGrows
    <2> QED  BY <2>1, <2>2
  <1> QED  BY <1>1, <1>2 DEF RaiseInv, RaisedIsExplained

\* execute_once re-raises its own constraint's error only when the winner's row
\* expired and was purged in between.
THEOREM RaisedErrorsAreExplained == Spec => []RaisedIsExplained
  <1>1. Init => RaiseInv
    BY DEF Init, RaiseInv, RaisedIsExplained
  <1>2. RaiseInv => RaisedIsExplained
    BY DEF RaiseInv
  <1> QED  BY <1>1, <1>2, RaiseStep, AnswersHold, LedgerInvariant, PTL DEF Spec

=============================================================================
