--------------------------- MODULE DurableTimers ---------------------------
(***************************************************************************)
(* dotmac_durable_timers: the generations of ONE timer identity, as rows   *)
(* of mod_timers.timers (or platform_timers).  schedule_timer, cancel_timer *)
(* and accept_trigger run in the caller's transaction, which may make      *)
(* several calls; purge_history is one of them.  Each call locks the       *)
(* latest generation with the loop of lock_timer_identity, reads it, and   *)
(* writes through the conditional UPDATE of transition_timer.  PostgreSQL  *)
(* is READ COMMITTED: every statement has its own snapshot, row locks last *)
(* until the transaction ends.  A row's id is also its trigger's: the      *)
(* outbox keeps the trigger and may deliver it any number of times.        *)
(***************************************************************************)
EXTENDS Integers, FiniteSets

CONSTANTS
    Txns,        \* concurrent transactions
    NoTxn,       \* an unlocked row
    Calls,       \* the calls the product makes
    MaxTimers,   \* bound: rows ever inserted
    MaxCalls     \* bound: calls one transaction makes

ASSUME ConstantsAssumption ==
    /\ NoTxn \notin Txns
    /\ Calls \subseteq {"schedule", "cancel", "accept", "purge"}
    /\ MaxTimers \in Nat
    /\ MaxCalls \in Nat

Ids == 1 .. MaxTimers
NoRow == 0

VARIABLES
    status,      \* committed status of each row
    gen,         \* generation: immutable once inserted, also in the trigger
    accepted,    \* committed acceptance rows, by timer_id
    rejected,    \* committed rejection rows: <<timer_id, current generation>>
    lock,        \* the transaction that holds each row lock
    advisory,    \* the transaction that holds the identity's advisory lock
    pc, op,      \* the transaction's place, the call it makes
    arg,         \* the row whose trigger or generation the call was given
    snap,        \* the rows its current statement still has to look at
    held,        \* locked_id of the lock loop; the row the purge is about to lock
    read, seen,  \* the row and the status that _latest returned
    calls,       \* calls made by the transaction
    own,         \* its uncommitted writes
    fires,       \* history: committed effects of each trigger, up to 2
    reports      \* history: <<observed, canceled>> rows of committed CANCELED answers

table   == <<status, gen, accepted, rejected>>
locks   == <<lock, advisory>>
locals  == <<arg, snap, held, read, seen>>
session == <<pc, op, locals, calls, own>>
history == <<fires, reports>>
vars    == <<table, locks, session, history>>

Terminal == {"superseded", "canceled", "fired"}
Status == {"absent", "scheduled", "deleted"} \cup Terminal
Stage == {"idle", "advisory", "snapshot", "lock", "check", "read", "act",
          "insert", "reject", "purge", "open"}

Clean == [status |-> [i \in Ids |-> "absent"], accepted |-> {}, rejected |-> {},
          fires |-> {}, reports |-> {}]

Init ==
    /\ status = [i \in Ids |-> "absent"]
    /\ gen = [i \in Ids |-> 0]
    /\ accepted = {}
    /\ rejected = {}
    /\ lock = [i \in Ids |-> NoTxn]
    /\ advisory = NoTxn
    /\ pc = [t \in Txns |-> "idle"]
    /\ op = [t \in Txns |-> "none"]
    /\ arg = [t \in Txns |-> NoRow]
    /\ snap = [t \in Txns |-> {}]
    /\ held = [t \in Txns |-> NoRow]
    /\ read = [t \in Txns |-> NoRow]
    /\ seen = [t \in Txns |-> "absent"]
    /\ calls = [t \in Txns |-> 0]
    /\ own = [t \in Txns |-> Clean]
    /\ fires = [i \in Ids |-> 0]
    /\ reports = {}

-----------------------------------------------------------------------------
(* What a statement of t sees *)

Wrote(t, i) == own[t].status[i] # "absent"
View(t, i) == IF Wrote(t, i) THEN own[t].status[i] ELSE status[i]
Visible(t) == {i \in Ids : View(t, i) \notin {"absent", "deleted"}}
Newest(S) == IF S = {} THEN NoRow ELSE CHOOSE i \in S : \A j \in S : gen[j] <= gen[i]
\* Mutant: the first generation is 2.
GenerationFromOne(i) == IF i = NoRow THEN 1 ELSE gen[i]
\* 1 if previous is None else previous.generation + 1, less one.
GenerationOf(i) == IF i = NoRow THEN 0 ELSE gen[i]

Free(t, i) == lock[i] \in {NoTxn, t}
Goto(t, stage) == pc' = [pc EXCEPT ![t] = stage]
Write(t, i, s) == own' = [own EXCEPT ![t].status[i] = s]

\* The call returns to its caller, in the open transaction.
Return(t) ==
    /\ pc' = [pc EXCEPT ![t] = "open"]
    /\ op' = [op EXCEPT ![t] = "none"]
    /\ arg' = [arg EXCEPT ![t] = NoRow]
    /\ snap' = [snap EXCEPT ![t] = {}]
    /\ held' = [held EXCEPT ![t] = NoRow]
    /\ read' = [read EXCEPT ![t] = NoRow]
    /\ seen' = [seen EXCEPT ![t] = "absent"]
    /\ UNCHANGED calls

\* The transaction is over: its locks are released.
End(t) ==
    /\ pc' = [pc EXCEPT ![t] = "idle"]
    /\ op' = [op EXCEPT ![t] = "none"]
    /\ arg' = [arg EXCEPT ![t] = NoRow]
    /\ snap' = [snap EXCEPT ![t] = {}]
    /\ held' = [held EXCEPT ![t] = NoRow]
    /\ read' = [read EXCEPT ![t] = NoRow]
    /\ seen' = [seen EXCEPT ![t] = "absent"]
    /\ calls' = [calls EXCEPT ![t] = 0]
    /\ own' = [own EXCEPT ![t] = Clean]
    /\ lock' = [i \in Ids |-> IF lock[i] = t THEN NoTxn ELSE lock[i]]
    /\ advisory' = IF advisory = t THEN NoTxn ELSE advisory

\* The session boundary rolls back: a row it inserted was never there.
Fail(t) ==
    /\ End(t)
    /\ gen' = [i \in Ids |-> IF status[i] = "absent" /\ Wrote(t, i) THEN 0 ELSE gen[i]]
    /\ UNCHANGED <<status, accepted, rejected, history>>

\* The boundary commits: effects and answers become real with the rows.
Commit(t) ==
    /\ pc[t] = "open"
    /\ status' = [i \in Ids |-> View(t, i)]
    /\ accepted' = {i \in accepted \cup own[t].accepted : View(t, i) # "deleted"}
    /\ rejected' = rejected \cup own[t].rejected
    /\ fires' = [i \in Ids |-> IF i \in own[t].fires /\ fires[i] < 2
                               THEN fires[i] + 1 ELSE fires[i]]
    /\ reports' = reports \cup own[t].reports
    /\ End(t)
    /\ UNCHANGED gen

\* The request fails, or the process dies, at any point.
Rollback(t) == pc[t] # "idle" /\ Fail(t)

-----------------------------------------------------------------------------
(* The calls *)

Start(t, call, row, stage) ==
    /\ pc[t] \in {"idle", "open"}
    /\ call \in Calls
    /\ calls[t] < MaxCalls
    /\ calls' = [calls EXCEPT ![t] = @ + 1]
    /\ pc' = [pc EXCEPT ![t] = stage]
    /\ op' = [op EXCEPT ![t] = call]
    /\ arg' = [arg EXCEPT ![t] = row]
    /\ UNCHANGED <<table, locks, read, seen, own, history>>

Fresh == {i \in Ids : status[i] = "absent" /\ \A t \in Txns : ~ Wrote(t, i)}
Schedulers == {t \in Txns : op[t] = "schedule"}
\* Rows, or deleted rows, of committed schedules: their triggers are in the
\* outbox, their generations have been shown to callers.
Known == {i \in Ids : status[i] # "absent"}

\* schedule_timer; the bound on rows is kept here.
StartSchedule(t) ==
    /\ Cardinality(Schedulers) < Cardinality(Fresh)
    /\ Start(t, "schedule", NoRow, "advisory")
    /\ UNCHANGED <<snap, held>>

\* cancel_timer with the generation of a row the caller once observed.
StartCancel(t, i) ==
    /\ i \in Known
    /\ Start(t, "cancel", i, "snapshot")
    /\ UNCHANGED <<snap, held>>

\* accept_trigger, on any delivery of the trigger.
StartAccept(t, i) ==
    /\ i \in Known
    /\ Start(t, "accept", i, "snapshot")
    /\ UNCHANGED <<snap, held>>

\* purge_history: before, limit and the rows' expires_at, all chosen by the
\* product, let it doom any set of terminal rows, in any order.
StartPurge(t) ==
    \E doomed \in SUBSET {i \in Visible(t) : View(t, i) \in Terminal} : \E i \in doomed :
        /\ Start(t, "purge", NoRow, "purge")
        /\ snap' = [snap EXCEPT ![t] = doomed]
        /\ held' = [held EXCEPT ![t] = i]

-----------------------------------------------------------------------------
(* _lock_identity, lock_timer_identity and _latest *)

\* Mutant: no advisory lock.
NoAdvisory(t) ==
    /\ pc[t] = "advisory"
    /\ Goto(t, "snapshot")
    /\ UNCHANGED <<table, locks, op, locals, calls, own, history>>

\* pg_advisory_xact_lock
LockIdentity(t) ==
    /\ pc[t] = "advisory"
    /\ advisory \in {NoTxn, t}
    /\ advisory' = t
    /\ Goto(t, "snapshot")
    /\ UNCHANGED <<table, lock, op, locals, calls, own, history>>

\* The SELECT ... FOR UPDATE of the loop takes its snapshot.
Snapshot(t) ==
    /\ pc[t] = "snapshot"
    /\ snap' = [snap EXCEPT ![t] = Visible(t)]
    /\ Goto(t, "lock")
    /\ UNCHANGED <<table, locks, op, arg, held, read, seen, calls, own, history>>

\* Mutant: the loop does not return on NULL.
NothingToLockLoops(t) == "snapshot"
\* locked_id IS NULL: return without a lock.
NothingToLock(t) == "read"

\* It locks the highest generation of the snapshot, passing over rows deleted
\* while it waited.
LockLatest(t) ==
    LET top == Newest(snap[t])
    IN  /\ pc[t] = "lock"
        /\ \/ /\ top = NoRow
              /\ held' = [held EXCEPT ![t] = NoRow]
              /\ Goto(t, NothingToLock(t))
              /\ UNCHANGED <<snap, lock>>
           \/ /\ top # NoRow /\ Free(t, top) /\ View(t, top) = "deleted"
              /\ snap' = [snap EXCEPT ![t] = @ \ {top}]
              /\ UNCHANGED <<pc, held, lock>>
           \/ /\ top # NoRow /\ Free(t, top) /\ View(t, top) # "deleted"
              /\ lock' = [lock EXCEPT ![top] = t]
              /\ held' = [held EXCEPT ![t] = top]
              /\ snap' = [snap EXCEPT ![t] = {}]
              /\ Goto(t, "check")
        /\ UNCHANGED <<table, advisory, op, arg, read, seen, calls, own, history>>

\* Mutant: the locked row is taken to be the current one.
StillLatestAlways(t) == TRUE
\* current_id = locked_id, on a new snapshot.
StillLatest(t) == Newest(Visible(t)) = held[t]

\* EXIT, or loop: the lock on a row that is no longer the latest is kept.
Check(t) ==
    /\ pc[t] = "check"
    /\ Goto(t, IF StillLatest(t) THEN "read" ELSE "snapshot")
    /\ UNCHANGED <<table, locks, op, locals, calls, own, history>>

\* The SELECT of _latest, a statement of its own.
Read(t) ==
    LET latest == Newest(Visible(t))
    IN  /\ pc[t] = "read"
        /\ read' = [read EXCEPT ![t] = latest]
        /\ seen' = [seen EXCEPT ![t] = IF latest = NoRow THEN "absent" ELSE View(t, latest)]
        /\ Goto(t, "act")
        /\ UNCHANGED <<table, locks, op, arg, snap, held, calls, own, history>>

-----------------------------------------------------------------------------
(* What each call does with the row it read *)

\* Mutant: the latest generation is canceled whatever was observed.
CancelNeverStale(t) == FALSE
\* _cancel_is_stale: generations are compared, not ids.
CancelIsStale(t) == gen[arg[t]] # GenerationOf(read[t])

\* Mutant: only the generations are compared.
TriggerMatchesGeneration(t) == read[t] # NoRow /\ gen[read[t]] = gen[arg[t]]
\* _trigger_matches_current: the ids, and with them the generations, agree.
TriggerMatches(t) == read[t] = arg[t]

\* WHERE id = ... AND status = 'scheduled': a row changes once.
Transitions(t, i) == View(t, i) = "scheduled"

\* transition_timer found no row: TimerError("transition_conflict").
Conflict(t) ==
    /\ pc[t] = "act"
    /\ seen[t] = "scheduled"
    /\ op[t] = "accept" => TriggerMatches(t)
    /\ op[t] = "cancel" => ~ CancelIsStale(t)
    /\ ~ Transitions(t, read[t])
    /\ Fail(t)

\* transition_timer updates the row, waiting for the lock another may hold.
Transition(t) ==
    /\ Free(t, read[t])
    /\ Transitions(t, read[t])
    /\ lock' = [lock EXCEPT ![read[t]] = t]
    /\ UNCHANGED <<table, advisory, history>>

\* schedule_timer: supersede the scheduled predecessor.
Supersede(t) ==
    /\ pc[t] = "act"
    /\ op[t] = "schedule"
    /\ \/ /\ seen[t] = "scheduled"
          /\ Transition(t)
          /\ Write(t, read[t], "superseded")
       \/ /\ seen[t] # "scheduled"
          /\ UNCHANGED <<table, locks, own, history>>
    /\ Goto(t, "insert")
    /\ UNCHANGED <<op, locals, calls>>

\* The unique constraints: one row per generation, one scheduled row.
Clashes(t, j, g) == gen[j] = g \/ View(t, j) = "scheduled"
\* Uncommitted writes of others that the insert waits for.
Pending(t, g) ==
    {u \in Txns \ {t} : \E j \in Ids : Wrote(u, j) /\ (gen[j] = g \/ status[j] = "scheduled")}

\* schedule_timer: the row of the next generation, with its outbox event.
Insert(t) ==
    LET g == GenerationOf(read[t]) + 1
        i == CHOOSE k \in Fresh : \A j \in Fresh : k <= j
    IN  /\ pc[t] = "insert"
        /\ Pending(t, g) = {}
        /\ \/ /\ \E j \in Visible(t) : Clashes(t, j, g)
              /\ Fail(t)
           \/ /\ \A j \in Visible(t) : ~ Clashes(t, j, g)
              /\ Write(t, i, "scheduled")
              /\ gen' = [gen EXCEPT ![i] = g]
              /\ lock' = [lock EXCEPT ![i] = t]
              /\ Return(t)
              /\ UNCHANGED <<status, accepted, rejected, advisory, history>>

\* Mutant: every settled generation is reported canceled.
AlreadySettled(t) == seen[t] # "scheduled"
\* current.status == CANCELED
AlreadyCanceled(t) == seen[t] = "canceled"

\* cancel_timer: only the observed generation is canceled, once; CANCELED is
\* also the answer for a generation canceled before.
Cancel(t) ==
    /\ pc[t] = "act"
    /\ op[t] = "cancel"
    /\ \/ /\ read[t] = NoRow \/ CancelIsStale(t) \/ seen[t] \in {"fired", "superseded"}
          /\ UNCHANGED <<table, locks, own, history>>
       \/ /\ read[t] # NoRow /\ ~ CancelIsStale(t) /\ AlreadyCanceled(t)
          /\ own' = [own EXCEPT ![t].reports = @ \cup {<<arg[t], read[t]>>}]
          /\ UNCHANGED <<table, locks, history>>
       \/ /\ read[t] # NoRow /\ ~ CancelIsStale(t) /\ seen[t] = "scheduled"
          /\ Transition(t)
          /\ own' = [own EXCEPT ![t].status[read[t]] = "canceled",
                                ![t].reports = @ \cup {<<arg[t], read[t]>>}]
    /\ Return(t)

\* accept_trigger for the current generation: the first delivery fires, a
\* later one is answered from the acceptance row, a canceled one refused.  The
\* caller makes the effect of its trigger in the same transaction.
Accept(t) ==
    /\ pc[t] = "act"
    /\ op[t] = "accept"
    /\ TriggerMatches(t)
    /\ \/ /\ seen[t] \in {"canceled", "fired"}
          /\ UNCHANGED <<table, locks, own, history>>
       \/ /\ seen[t] = "scheduled"
          /\ Transition(t)
          /\ own' = [own EXCEPT ![t].status[read[t]] = "fired",
                                ![t].accepted = @ \cup {read[t]},
                                ![t].fires = @ \cup {arg[t]}]
    /\ Return(t)

\* accept_trigger for a stale trigger: _existing_rejection, then an insert.
Rejection(t) == <<arg[t], GenerationOf(read[t])>>
Reject(t) ==
    /\ pc[t] = "act"
    /\ op[t] = "accept"
    /\ ~ TriggerMatches(t) \/ seen[t] = "superseded"
    /\ \/ /\ Rejection(t) \in rejected \cup own[t].rejected
          /\ Return(t)
       \/ /\ Rejection(t) \notin rejected \cup own[t].rejected
          /\ Goto(t, "reject")
          /\ UNCHANGED <<op, locals, calls>>
    /\ UNCHANGED <<table, locks, own, history>>

\* The insert waits for one of the same rejection, and fails if that committed.
InsertRejection(t) ==
    /\ pc[t] = "reject"
    /\ \A u \in Txns \ {t} : Rejection(t) \notin own[u].rejected
    /\ \/ Rejection(t) \in rejected /\ Fail(t)
       \/ /\ Rejection(t) \notin rejected
          /\ own' = [own EXCEPT ![t].rejected = @ \cup {Rejection(t)}]
          /\ Return(t)
          /\ UNCHANGED <<table, locks, history>>

\* purge_history locks and deletes its rows one by one.
PurgeRow(t) ==
    LET i == held[t]
        rest == snap[t] \ {i}
    IN  /\ pc[t] = "purge"
        /\ Free(t, i)
        /\ \/ View(t, i) = "deleted" /\ UNCHANGED <<lock, own>>
           \/ /\ View(t, i) # "deleted"
              /\ lock' = [lock EXCEPT ![i] = t]
              /\ Write(t, i, "deleted")
        /\ \/ rest = {} /\ Return(t)
           \/ \E j \in rest : /\ held' = [held EXCEPT ![t] = j]
                              /\ snap' = [snap EXCEPT ![t] = rest]
                              /\ UNCHANGED <<pc, op, arg, read, seen, calls>>
        /\ UNCHANGED <<table, advisory, history>>

-----------------------------------------------------------------------------
CallStep(t) ==
    \/ LockIdentity(t) \/ Snapshot(t) \/ LockLatest(t) \/ Check(t) \/ Read(t)
    \/ Conflict(t) \/ Supersede(t) \/ Insert(t) \/ Cancel(t)
    \/ Accept(t) \/ Reject(t) \/ InsertRejection(t) \/ PurgeRow(t)

Begin(t) ==
    \/ StartSchedule(t)
    \/ \E i \in Ids : StartCancel(t, i) \/ StartAccept(t, i)
    \/ StartPurge(t)

Next == \E t \in Txns : Begin(t) \/ CallStep(t) \/ Commit(t) \/ Rollback(t)

Spec == Init /\ [][Next]_vars

\* The transactions t waits for.
WaitsFor(t) ==
    CASE pc[t] = "advisory" -> {advisory} \ {NoTxn, t}
      [] pc[t] = "lock" -> {lock[i] : i \in {Newest(snap[t])} \ {NoRow}} \ {NoTxn, t}
      [] pc[t] = "purge" -> {lock[held[t]]} \ {NoTxn, t}
      [] pc[t] = "act" /\ seen[t] = "scheduled" -> {lock[read[t]]} \ {NoTxn, t}
      [] pc[t] = "insert" -> Pending(t, GenerationOf(read[t]) + 1)
      [] pc[t] = "reject" -> {u \in Txns \ {t} : Rejection(t) \in own[u].rejected}
      [] OTHER -> {}
Deadlocked(t) ==
    \E cycle \in SUBSET Txns : t \in cycle /\ \A u \in cycle : WaitsFor(u) \cap cycle # {}

\* PostgreSQL fails a transaction of every deadlock.
BreakDeadlock(t) == Deadlocked(t) /\ Fail(t)

\* Callers go on with their calls and end their transactions; a lock queue is
\* served in turn (strong fairness); deadlocks are broken.
FairSpec ==
    /\ Spec
    /\ \A t \in Txns : SF_vars(CallStep(t)) /\ SF_vars(Commit(t)) /\ WF_vars(BreakDeadlock(t))

-----------------------------------------------------------------------------
(* Properties *)

\* Types: generations start at 1 and never exceed the number of rows inserted.
TypeOK ==
    /\ status \in [Ids -> Status]
    /\ gen \in [Ids -> 0 .. MaxTimers]
    /\ accepted \subseteq Ids
    /\ rejected \subseteq Ids \X (0 .. MaxTimers)
    /\ lock \in [Ids -> Txns \cup {NoTxn}]
    /\ advisory \in Txns \cup {NoTxn}
    /\ pc \in [Txns -> Stage]
    /\ op \in [Txns -> {"none", "schedule", "cancel", "accept", "purge"}]
    /\ arg \in [Txns -> Ids \cup {NoRow}]
    /\ snap \in [Txns -> SUBSET Ids]
    /\ held \in [Txns -> Ids \cup {NoRow}]
    /\ read \in [Txns -> Ids \cup {NoRow}]
    /\ seen \in [Txns -> Status]
    /\ calls \in [Txns -> 0 .. MaxCalls]
    /\ own \in [Txns -> [status : [Ids -> Status], accepted : SUBSET Ids,
                         rejected : SUBSET (Ids \X (0 .. MaxTimers)),
                         fires : SUBSET Ids, reports : SUBSET (Ids \X Ids)]]
    /\ fires \in [Ids -> 0 .. 2]
    /\ reports \subseteq Ids \X Ids

\* A generation's effect is committed once if the row says fired, at most once
\* if it was purged, and never if it is scheduled, superseded or canceled; a
\* fired row has its acceptance, so that a redelivered trigger is a replay.
FiresMatchStatus ==
    \A i \in Ids :
        /\ fires[i] = 1 \/ status[i] # "fired"
        /\ fires[i] = 0 \/ status[i] \in {"fired", "deleted"}
        /\ fires[i] <= 1
        /\ i \in accepted <=> status[i] = "fired"

\* A row whose cancellation a caller was told of never fires, however late its
\* trigger arrives, purged or not.
CanceledNeverFires == \A r \in reports : fires[r[2]] = 0

\* The advisory and row locks suffice: the next generation never meets the
\* unique constraints, so that no schedule_timer fails on a race.
InsertsNeverClash ==
    \A t \in Txns : pc[t] = "insert" =>
        /\ Pending(t, GenerationOf(read[t]) + 1) = {}
        /\ \A j \in Visible(t) : ~ Clashes(t, j, GenerationOf(read[t]) + 1)

\* The row that the loop of lock_timer_identity locked is the one _latest then
\* reads, and stays what was read until the call writes: transition_conflict is
\* left to callers that found no row to lock.
LockedRowIsCurrent ==
    \A t \in Txns : pc[t] = "act" /\ held[t] # NoRow =>
        /\ read[t] = held[t]
        /\ lock[read[t]] = t
        /\ View(t, read[t]) = seen[t]

\* Every transaction ends: the lock loop terminates and deadlocks between it,
\* the advisory lock and the purge are broken.
TransactionsEnd == \A t \in Txns : pc[t] # "idle" ~> pc[t] = "idle"

\* A CANCELED answer is about the timer whose generation the caller observed,
\* unless that row was purged since: only then can _cancel_is_stale, which
\* compares numbers, take a reused generation for the observed one.
CancelsObservedUnlessPurged ==
    \A r \in reports : r[1] = r[2] \/ status[r[1]] = "deleted"

=============================================================================
