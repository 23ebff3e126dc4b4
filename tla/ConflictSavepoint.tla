------------------------- MODULE ConflictSavepoint -------------------------
(***************************************************************************)
(* dotmac_kernel._transactions: conflict_savepoint on one Session, the     *)
(* claim a completion guard may consume, and the latch that keeps a root   *)
(* from committing when the recovery of a savepoint is not proved.         *)
(*                                                                         *)
(* One thread runs everything; what interleaves is the code of several     *)
(* owners: the helper, the participant inside the with block (which may    *)
(* complete any handle, open savepoints of its own, swallow a failed       *)
(* flush), the event hooks of others (which may fail at each event) and    *)
(* the owner of the root.  A completion guard of the product, which would  *)
(* refuse a participant's completion, is not installed: this is what the   *)
(* kernel gives without one.  Helpers exit innermost first, and a hook     *)
(* that completes a handle while the helper does is refused by SQLAlchemy. *)
(*                                                                         *)
(* The Session's chain of transactions is external.  A handle is active,   *)
(* inactive (a failed flush rolled it back and left it attached) or        *)
(* committed (released, but its hooks failed before it was detached).      *)
(***************************************************************************)
EXTENDS Naturals, Sequences

CONSTANT MaxHandles     \* bound: transactions begun in the session's life

ASSUME HandlesAssumption == MaxHandles \in Nat

VARIABLES
    chain,      \* the session's transactions, root first
    frames,     \* db.info[_STACK_KEY]
    latch,      \* db.info[_FAILED_ROOT_KEY]; 0 when absent
    begun,      \* handles begun so far; a handle is its number
    committed,  \* durable: the bodies (by their savepoint) with a committed write
    failed,     \* history: bodies whose helper raised
    escaped,    \* history: bodies during which the root was completed
    disturbed,  \* history: roots with a failed hook or a tampered handle
    granted     \* history: claims granted on each savepoint

history == <<committed, failed, escaped, disturbed, granted>>
vars == <<chain, frames, latch, begun, history>>

Handle == 1 .. MaxHandles
Phase == {"body", "release", "rollback"}

\* work: the bodies with a write staged under this handle.
Transaction ==
    [id : Handle, is : {"active", "inactive", "committed"}, work : SUBSET Handle]
Frame == [root : Handle, savepoint : Handle, enclosing : Handle \cup {0},
          phase : Phase, release_unclaimed : BOOLEAN]

Init ==
    /\ chain = <<>> /\ frames = <<>> /\ latch = 0 /\ begun = 0
    /\ committed = {} /\ failed = {} /\ escaped = {} /\ disturbed = {}
    /\ granted = [h \in Handle |-> 0]

-----------------------------------------------------------------------------
(* The Session.                                                            *)

Top == chain[Len(chain)]
Below == SubSeq(chain, 1, Len(chain) - 1)
Root == IF chain = <<>> THEN 0 ELSE chain[1].id                 \* get_transaction
Nested(c) == IF Len(c) > 1 THEN c[Len(c)].id ELSE 0             \* get_nested_transaction
RootIsActive(c) == c # <<>> /\ c[1].is = "active"

\* RELEASE: what was staged under the innermost handle passes to the next.
Merged ==
    [i \in 1 .. Len(chain) - 1 |->
        IF i = Len(chain) - 1 THEN [chain[i] EXCEPT !.work = @ \cup Top.work] ELSE chain[i]]

Innermost == frames[Len(frames)]
OpenBodies == {frames[i].savepoint : i \in DOMAIN frames}

\* The participant or the owner runs, not the helper or a hook.
Running == frames # <<>> => Innermost.phase = "body"

-----------------------------------------------------------------------------
(* The latch.                                                              *)

conflict_savepoint_requires_rollback(root) == latch = root /\ Root = root

\* _reject_failed_root_commit lets a commit begin.
MayCommit == ~ conflict_savepoint_requires_rollback(Root)

\* Mutant: nothing is latched.
LatchNothing(root) == latch

\* _require_owner_rollback: the latch after it.
LatchFor(root) == IF Root = root THEN root ELSE latch

\* _clear_ended_root_failure, when the current root ends.
ClearEndedRoot == IF latch = Root THEN 0 ELSE latch

-----------------------------------------------------------------------------
(* Participants and the owner of the root.                                 *)

Fresh == [id |-> begun + 1, is |-> "active", work |-> {}]

Begin ==
    /\ Running
    /\ chain = <<>> /\ begun < MaxHandles
    /\ chain' = <<Fresh>>
    /\ begun' = begun + 1
    /\ UNCHANGED <<frames, latch, history>>

BeginNested ==
    /\ Running
    /\ chain # <<>> /\ Top.is = "active" /\ begun < MaxHandles
    /\ chain' = Append(chain, Fresh)
    /\ begun' = begun + 1
    /\ UNCHANGED <<frames, latch, history>>

\* A flushed write belongs to every body that is running.
Write ==
    /\ Running /\ frames # <<>>
    /\ chain # <<>> /\ Top.is = "active"
    /\ chain' = [chain EXCEPT ![Len(chain)].work = @ \cup OpenBodies]
    /\ UNCHANGED <<frames, latch, begun, history>>

\* The handle is rolled back in the database and stays attached; the participant
\* may swallow the error.
FlushFails ==
    /\ Running
    /\ chain # <<>> /\ Top.is = "active"
    /\ chain' = [chain EXCEPT ![Len(chain)] = [@ EXCEPT !.is = "inactive", !.work = {}]]
    /\ UNCHANGED <<frames, latch, begun, history>>

\* A nested handle is committed: by the participant that opened it, or by one
\* that completes the helper's.
CommitNested ==
    /\ Running
    /\ Len(chain) > 1 /\ Top.is = "active" /\ MayCommit
    /\ chain' = Merged
    /\ UNCHANGED <<frames, latch, begun, history>>

RollbackNested ==
    /\ Running
    /\ Len(chain) > 1 /\ Top.is # "committed"
    /\ chain' = Below
    /\ UNCHANGED <<frames, latch, begun, history>>

\* Session.commit and root.commit complete every handle down to the root.
CommitRoot ==
    /\ Running
    /\ chain # <<>> /\ \A i \in DOMAIN chain : chain[i].is = "active"
    /\ MayCommit
    /\ committed' = committed \cup UNION {chain[i].work : i \in DOMAIN chain}
    /\ escaped' = escaped \cup OpenBodies
    /\ latch' = ClearEndedRoot
    /\ chain' = <<>>
    /\ UNCHANGED <<frames, begun, failed, disturbed, granted>>

RollbackRoot ==
    /\ Running
    /\ chain # <<>>
    /\ escaped' = escaped \cup OpenBodies
    /\ latch' = ClearEndedRoot
    /\ chain' = <<>>
    /\ UNCHANGED <<frames, begun, committed, failed, disturbed, granted>>

-----------------------------------------------------------------------------
(* conflict_savepoint.                                                     *)

Enter ==
    /\ Running
    /\ chain # <<>> /\ Top.is = "active" /\ begun < MaxHandles
    /\ chain' = Append(chain, Fresh)
    /\ begun' = begun + 1
    /\ frames' = Append(frames, [root |-> Root, savepoint |-> begun + 1,
                                 enclosing |-> Nested(chain), phase |-> "body",
                                 release_unclaimed |-> FALSE])
    /\ UNCHANGED <<latch, history>>

SetInnermost(phase, unclaimed) ==
    frames' = [frames EXCEPT ![Len(frames)] =
                [@ EXCEPT !.phase = phase, !.release_unclaimed = unclaimed]]

\* The helper's root and savepoint are where the helper left them.
Untouched(f) == Root = f.root /\ RootIsActive(chain) /\ Nested(chain) = f.savepoint

\* The body returns: to the release, or to a ConflictSavepointProtocolError.
Return ==
    /\ Running /\ frames # <<>>
    /\ IF Untouched(Innermost) /\ Top.is = "active"
       THEN SetInnermost("release", TRUE)
       ELSE SetInnermost("rollback", FALSE)
    /\ disturbed' = IF Untouched(Innermost) THEN disturbed ELSE disturbed \cup {Innermost.root}
    /\ UNCHANGED <<chain, latch, begun, committed, failed, escaped, granted>>

Raise ==
    /\ Running /\ frames # <<>>
    /\ SetInnermost("rollback", FALSE)
    /\ disturbed' = IF Untouched(Innermost) THEN disturbed ELSE disturbed \cup {Innermost.root}
    /\ UNCHANGED <<chain, latch, begun, committed, failed, escaped, granted>>

\* What claim_conflict_savepoint_commit tests, for the current root.
MayClaim ==
    /\ frames # <<>>
    /\ Innermost.release_unclaimed
    /\ ~ conflict_savepoint_requires_rollback(Innermost.root)
    /\ Innermost.phase = "release"
    /\ Untouched(Innermost) /\ Top.is = "active"

\* A guard's before_commit hook takes the permission.
Claim ==
    /\ MayClaim
    /\ SetInnermost("release", FALSE)
    /\ granted' = [granted EXCEPT ![Innermost.savepoint] = @ + 1]
    /\ UNCHANGED <<chain, latch, begun, committed, failed, escaped, disturbed>>

Releasing == frames # <<>> /\ Innermost.phase = "release"
Leave == frames' = SubSeq(frames, 1, Len(frames) - 1)

\* savepoint.commit() succeeds: the helper exits.
Release ==
    /\ Releasing /\ MayCommit
    /\ chain' = Merged
    /\ Leave
    /\ UNCHANGED <<latch, begun, history>>

\* It fails before the RELEASE: the latch refuses it, or its flush fails, which
\* deactivates the handle.
ReleaseRefused ==
    /\ Releasing
    /\ \/ ~ MayCommit /\ UNCHANGED chain
       \/ /\ MayCommit
          /\ chain' = [chain EXCEPT ![Len(chain)] = [@ EXCEPT !.is = "inactive", !.work = {}]]
    /\ SetInnermost("rollback", FALSE)
    /\ UNCHANGED <<latch, begun, history>>

\* A before_commit hook fails: nothing has happened yet.
ReleaseHookFails ==
    /\ Releasing /\ MayCommit
    /\ SetInnermost("rollback", FALSE)
    /\ UNCHANGED <<chain, latch, begun, history>>

\* The RELEASE is done when a hook fails: after_commit leaves the handle
\* attached, after_transaction_end finds it detached.
ReleasedHookFails ==
    /\ Releasing /\ MayCommit
    /\ \/ chain' = Append(Merged, [Top EXCEPT !.is = "committed", !.work = {}])
       \/ chain' = Merged
    /\ SetInnermost("rollback", FALSE)
    /\ disturbed' = disturbed \cup {Innermost.root}
    /\ UNCHANGED <<latch, begun, committed, failed, escaped, granted>>

RollingBack == frames # <<>> /\ Innermost.phase = "rollback"
RaiseOn == Leave /\ failed' = failed \cup {Innermost.savepoint}

\* Mutant: the enclosing savepoint is taken to be none.
RecoveredAtRoot(c) == c # <<>> /\ c[1].id = Innermost.root /\ RootIsActive(c) /\ Nested(c) = 0

\* The test after savepoint.rollback(), on the chain c it leaves.
Recovered(c) ==
    /\ c # <<>> /\ c[1].id = Innermost.root /\ RootIsActive(c)
    /\ Nested(c) = Innermost.enclosing

\* savepoint.rollback() succeeds.
Recover ==
    /\ RollingBack
    /\ Untouched(Innermost) /\ Top.is # "committed"
    /\ chain' = Below
    /\ latch' = IF Recovered(Below) THEN latch ELSE LatchFor(Innermost.root)
    /\ RaiseOn
    /\ UNCHANGED <<begun, committed, escaped, disturbed, granted>>

\* savepoint.rollback() fails; what it was to discard is gone or stays, and the
\* handle is detached by it, by close(), or not at all.
RecoverFails ==
    /\ RollingBack
    /\ Untouched(Innermost)
    /\ latch' = LatchFor(Innermost.root)
    /\ chain' \in {Below, Merged, chain}
    /\ disturbed' = disturbed \cup {Innermost.root}
    /\ RaiseOn
    /\ UNCHANGED <<begun, committed, escaped, granted>>

\* The savepoint is not the innermost handle any more: no rollback is tried.
NothingToRecover ==
    /\ RollingBack
    /\ ~ Untouched(Innermost)
    /\ latch' = LatchFor(Innermost.root)
    /\ RaiseOn
    /\ UNCHANGED <<chain, begun, committed, escaped, disturbed, granted>>

-----------------------------------------------------------------------------
Participant ==
    \/ Begin \/ BeginNested \/ Write \/ FlushFails \/ CommitNested \/ RollbackNested
    \/ CommitRoot \/ RollbackRoot

Helper ==
    \/ Enter \/ Return \/ Raise \/ Claim
    \/ Release \/ ReleaseRefused \/ ReleaseHookFails \/ ReleasedHookFails
    \/ Recover \/ RecoverFails \/ NothingToRecover

Next == Participant \/ Helper

Spec == Init /\ [][Next]_vars

-----------------------------------------------------------------------------
(* Properties *)

\* Types of the session, the stack of frames and the histories.
TypeOK ==
    /\ chain \in Seq(Transaction)
    /\ frames \in Seq(Frame)
    /\ latch \in Handle \cup {0}
    /\ begun \in 0 .. MaxHandles
    /\ committed \subseteq Handle /\ failed \subseteq Handle /\ escaped \subseteq Handle
    /\ disturbed \subseteq Handle
    /\ granted \in [Handle -> Nat]

\* What a body did never becomes durable when its helper raised, even if the
\* error is caught, a hook failed halfway, or a participant completed the
\* savepoint: the latch refuses the root.  Only a participant that completes the
\* root itself, inside the body, escapes.
NoHalfBody == committed \cap failed \subseteq escaped

\* An ordinary conflict, at any depth, does not doom the caller's transaction:
\* a root is latched only after a hook failed or a participant left the
\* savepoint other than it found it.
LatchIsEarned == latch # 0 => latch \in disturbed

\* The latch never outlives its root, so a new transaction starts clean.
LatchIsCurrent == latch # 0 => latch = Root

\* A guard gets at most one permission per savepoint, whatever hooks run while
\* the helper releases it, fails and recovers.
OnePermission == \A h \in Handle : granted[h] <= 1

=============================================================================
