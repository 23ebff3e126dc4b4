---------------------- MODULE ConflictSavepointProofs ----------------------
(***************************************************************************)
(* Theorems about ConflictSavepoint for any number of handles: the latch,  *)
(* the permission, and that no half of a body is ever committed.           *)
(***************************************************************************)
EXTENDS ConflictSavepoint, SequenceTheorems, TLAPS

\* Handles are numbered upwards along the chain, and no work is older than its body.
Stack ==
    /\ \A i \in 1 .. Len(chain) :
          chain[i].id <= begun /\ \A h \in chain[i].work : h <= begun
    /\ \A i, j \in 1 .. Len(chain) : i < j => chain[i].id < chain[j].id

\* While a handle is attached and not released, the work of its body is at it or above.
WorkAbove ==
    \A i, j \in 1 .. Len(chain) :
        chain[i].is # "committed" /\ chain[i].id \in chain[j].work => i <= j

\* Frames are numbered upwards too, have not failed, and only the innermost exits.
Helpers ==
    /\ \A i \in 1 .. Len(frames) :
          /\ frames[i].savepoint <= begun /\ frames[i].savepoint \notin failed
          /\ i < Len(frames) => frames[i].phase = "body"
          /\ frames[i].release_unclaimed => frames[i].phase = "release"
    /\ \A i, j \in 1 .. Len(frames) : i < j => frames[i].savepoint < frames[j].savepoint
    /\ committed \cup failed \subseteq 0 .. begun

\* Where the savepoint of a frame is in the chain.
Enclosed ==
    \A i \in 1 .. Len(frames), p \in 1 .. Len(chain) :
        chain[p].id = frames[i].savepoint =>
            p > 1 /\ frames[i].enclosing = IF p > 2 THEN chain[p - 1].id ELSE 0

\* A frame whose root is gone was there when the root was completed.
Escapes == \A i \in 1 .. Len(frames) : frames[i].root # Root => frames[i].savepoint \in escaped

\* What a helper that is exiting has found.
Exits ==
    frames # <<>> =>
        /\ Innermost.phase = "release" => Untouched(Innermost) /\ Top.is = "active"
        /\ Innermost.phase = "rollback" => Untouched(Innermost) \/ Innermost.root \in disturbed

\* Work of a failed body that could still be committed is under a latched root.
Doomed ==
    \A h \in failed \ escaped, i \in 1 .. Len(chain) : h \in chain[i].work => latch = Root

\* Work of a body that is still open is committed only with the whole root.
OpenEscape == \A i \in 1 .. Len(frames) : frames[i].savepoint \in committed =>
                  frames[i].savepoint \in escaped

\* The permission of a savepoint is not used before its release.
Unused ==
    /\ \A h \in Handle : h > begun => granted[h] = 0
    /\ \A i \in 1 .. Len(frames) :
          frames[i].phase = "body" \/ frames[i].release_unclaimed => granted[frames[i].savepoint] = 0

Inv ==
    /\ TypeOK
    /\ Stack /\ WorkAbove /\ Helpers /\ Enclosed /\ Escapes /\ Exits
    /\ Doomed /\ OpenEscape /\ NoHalfBody
    /\ LatchIsCurrent /\ LatchIsEarned
    /\ Unused /\ OnePermission

-----------------------------------------------------------------------------
(* The session's chain and the stack of frames *)

LEMMA Numbers == MaxHandles \in Nat /\ Handle = 1 .. MaxHandles
  BY HandlesAssumption DEF Handle

LEMMA ChainElements ==
    ASSUME NEW c \in Seq(Transaction)
    PROVE  /\ Len(c) \in Nat
           /\ c = <<>> <=> Len(c) = 0
           /\ \A i \in 1 .. Len(c) :
                 /\ c[i] \in Transaction
                 /\ c[i].id \in Handle /\ c[i].work \subseteq Handle
                 /\ c[i].is \in {"active", "inactive", "committed"}
  <1>1. Len(c) \in Nat /\ (c = <<>> <=> Len(c) = 0)
    BY EmptySeq, LenProperties
  <1>2. \A i \in 1 .. Len(c) : c[i] \in Transaction
    BY ElementOfSeq
  <1> QED  BY <1>1, <1>2 DEF Transaction

LEMMA FrameElements ==
    ASSUME NEW f \in Seq(Frame)
    PROVE  /\ Len(f) \in Nat
           /\ f = <<>> <=> Len(f) = 0
           /\ \A i \in 1 .. Len(f) :
                 /\ f[i] \in Frame
                 /\ f[i].root \in Handle /\ f[i].savepoint \in Handle
                 /\ f[i].enclosing \in Handle \cup {0}
                 /\ f[i].phase \in Phase /\ f[i].release_unclaimed \in BOOLEAN
  <1>1. Len(f) \in Nat /\ (f = <<>> <=> Len(f) = 0)
    BY EmptySeq, LenProperties
  <1>2. \A i \in 1 .. Len(f) : f[i] \in Frame
    BY ElementOfSeq
  <1> QED  BY <1>1, <1>2 DEF Frame

\* All but the last element of a sequence.
LEMMA Front ==
    ASSUME NEW S, NEW s \in Seq(S), s # <<>>
    PROVE  /\ SubSeq(s, 1, Len(s) - 1) \in Seq(S)
           /\ Len(SubSeq(s, 1, Len(s) - 1)) = Len(s) - 1
           /\ \A i \in 1 .. Len(s) - 1 : i \in 1 .. Len(s) /\ SubSeq(s, 1, Len(s) - 1)[i] = s[i]
  <1> DEFINE n == Len(s) - 1
  <1>1. Len(s) \in Nat /\ Len(s) > 0 /\ n \in Int /\ n >= 0
    BY EmptySeq
  <1>2. \A i \in 1 .. n : i \in 1 .. Len(s) /\ s[i] \in S
    BY <1>1, ElementOfSeq
  <1>3. n = Len(s) - 1
    OBVIOUS
  <1> HIDE DEF n
  <1>4. /\ SubSeq(s, 1, n) \in Seq(S)
        /\ Len(SubSeq(s, 1, n)) = IF 1 <= n THEN n - 1 + 1 ELSE 0
        /\ \A i \in 1 .. n - 1 + 1 : SubSeq(s, 1, n)[i] = s[1 + i - 1]
    BY <1>1, <1>2, SubSeqProperties
  <1>5. \A i \in 1 .. n : i \in 1 .. n - 1 + 1 /\ 1 + i - 1 = i
    BY <1>1
  <1>6. Len(SubSeq(s, 1, n)) = n /\ \A i \in 1 .. n : SubSeq(s, 1, n)[i] = s[i]
    BY <1>1, <1>4, <1>5
  <1> QED  BY <1>2, <1>3, <1>4, <1>6

\* A new handle is pushed.
LEMMA Push ==
    ASSUME Inv, begun < MaxHandles, begun' = begun + 1, chain' = Append(chain, Fresh)
    PROVE  /\ chain' \in Seq(Transaction) /\ begun' \in 0 .. MaxHandles
           /\ Len(chain') = Len(chain) + 1
           /\ \A i \in 1 .. Len(chain) : chain'[i] = chain[i]
           /\ chain'[Len(chain')].id = begun + 1
           /\ chain'[Len(chain')].work = {} /\ chain'[Len(chain')].is = "active"
           /\ Stack' /\ WorkAbove'
  <1>1. chain \in Seq(Transaction) /\ begun \in 0 .. MaxHandles
    BY DEF Inv, TypeOK
  <1>2. Fresh \in Transaction /\ Fresh.id = begun + 1 /\ Fresh.work = {} /\ Fresh.is = "active"
    BY <1>1, Numbers DEF Fresh, Transaction
  <1> HIDE DEF Fresh
  <1>3. /\ chain' \in Seq(Transaction) /\ Len(chain') = Len(chain) + 1
        /\ \A i \in 1 .. Len(chain) : chain'[i] = chain[i]
        /\ chain'[Len(chain')] = Fresh
    BY <1>1, <1>2
  <1>4. /\ \A i \in 1 .. Len(chain) : chain[i].id \in Nat /\ chain[i].work \subseteq Nat
        /\ Len(chain) \in Nat
    BY <1>1, ChainElements, Numbers
  <1>5. \A i \in 1 .. Len(chain') : i \in 1 .. Len(chain) \/ i = Len(chain')
    BY <1>3, <1>4
  <1>6. Stack'
    <2>1. ASSUME NEW i \in 1 .. Len(chain')
          PROVE  chain'[i].id <= begun' /\ \A h \in chain'[i].work : h <= begun'
      BY <1>1, <1>2, <1>3, <1>4, <1>5 DEF Inv, Stack
    <2>2. ASSUME NEW i \in 1 .. Len(chain'), NEW j \in 1 .. Len(chain'), i < j
          PROVE  chain'[i].id < chain'[j].id
      <3>1. i \in 1 .. Len(chain) /\ chain[i].id <= begun
        BY <1>3, <1>4, <1>5, <2>2 DEF Inv, Stack
      <3>2. CASE j = Len(chain')
        BY <1>1, <1>2, <1>3, <1>4, <3>1, <3>2
      <3>3. CASE j \in 1 .. Len(chain)
        BY <1>3, <2>2, <3>1, <3>3 DEF Inv, Stack
      <3> QED  BY <1>5, <3>2, <3>3
    <2> QED  BY <2>1, <2>2 DEF Stack
  <1>7. WorkAbove'
    <2> SUFFICES ASSUME NEW i \in 1 .. Len(chain'), NEW j \in 1 .. Len(chain'),
                        chain'[i].is # "committed", chain'[i].id \in chain'[j].work
                 PROVE  i <= j
      BY DEF WorkAbove
    <2>1. j \in 1 .. Len(chain)
      BY <1>2, <1>3, <1>5
    <2>2. CASE i = Len(chain')
      <3>1. begun + 1 \in chain[j].work
        BY <1>2, <1>3, <2>1, <2>2
      <3> QED  BY <1>1, <1>4, <2>1, <3>1 DEF Inv, Stack
    <2>3. CASE i \in 1 .. Len(chain)
      BY <1>3, <2>1, <2>3 DEF Inv, WorkAbove
    <2> QED  BY <1>5, <2>2, <2>3
  <1>8. begun' \in 0 .. MaxHandles
    BY <1>1, Numbers
  <1> QED  BY <1>2, <1>3, <1>6, <1>7, <1>8

\* The innermost handle is taken off, with its work.
LEMMA Pop ==
    ASSUME Inv, chain # <<>>, chain' = Below, begun' = begun
    PROVE  /\ chain' \in Seq(Transaction)
           /\ Len(chain') = Len(chain) - 1
           /\ \A i \in 1 .. Len(chain') : i \in 1 .. Len(chain) /\ chain'[i] = chain[i]
           /\ Stack' /\ WorkAbove'
  <1>1. chain \in Seq(Transaction) /\ Len(chain) \in Nat /\ Len(chain) > 0
    BY ChainElements DEF Inv, TypeOK
  <1>2. /\ chain' \in Seq(Transaction) /\ Len(chain') = Len(chain) - 1
        /\ \A i \in 1 .. Len(chain') : i \in 1 .. Len(chain) /\ chain'[i] = chain[i]
    BY <1>1, Front DEF Below
  <1>3. Stack' /\ WorkAbove'
    BY <1>2 DEF Inv, Stack, WorkAbove
  <1> QED  BY <1>2, <1>3

\* What RELEASE makes of the chain.
LEMMA MergedElements ==
    ASSUME Inv, Len(chain) > 1
    PROVE  /\ Merged \in Seq(Transaction)
           /\ Len(Merged) = Len(chain) - 1
           /\ \A i \in 1 .. Len(chain) - 1 :
                 /\ i \in 1 .. Len(chain)
                 /\ Merged[i].id = chain[i].id /\ Merged[i].is = chain[i].is
                 /\ \A h \in Merged[i].work :
                       h \in chain[i].work \/ (i = Len(chain) - 1 /\ h \in chain[Len(chain)].work)
  <1> DEFINE n == Len(chain)
  <1>1. chain \in Seq(Transaction) /\ n \in Nat /\ n > 1
    BY ChainElements DEF Inv, TypeOK
  <1>2. \A i \in 1 .. n : chain[i] \in Transaction /\ chain[i].work \subseteq Handle
    BY <1>1, ChainElements
  <1>3. \A i \in 1 .. n - 1 : i \in 1 .. n /\ n \in 1 .. n
    BY <1>1
  <1> DEFINE M(i) == IF i = n - 1 THEN [chain[i] EXCEPT !.work = @ \cup Top.work] ELSE chain[i]
  <1>4. ASSUME NEW i \in 1 .. n - 1
        PROVE  /\ M(i) \in Transaction /\ M(i).id = chain[i].id /\ M(i).is = chain[i].is
               /\ \A h \in M(i).work :
                     h \in chain[i].work \/ (i = n - 1 /\ h \in chain[n].work)
    BY <1>2, <1>3 DEF Transaction, Top
  <1>5. Merged = [i \in 1 .. n - 1 |-> M(i)]
    BY DEF Merged
  <1> HIDE DEF M
  <1>6. Merged \in Seq(Transaction) /\ Len(Merged) = n - 1
        /\ \A i \in 1 .. n - 1 : Merged[i] = M(i)
    BY <1>1, <1>4, <1>5
  <1> QED  BY <1>3, <1>4, <1>6

\* The innermost handle is released: its work passes to the one below.
LEMMA Merge ==
    ASSUME Inv, Len(chain) > 1, chain' = Merged, begun' = begun
    PROVE  /\ chain' \in Seq(Transaction)
           /\ Len(chain') = Len(chain) - 1
           /\ \A i \in 1 .. Len(chain') :
                 /\ i \in 1 .. Len(chain)
                 /\ chain'[i].id = chain[i].id /\ chain'[i].is = chain[i].is
                 /\ \A h \in chain'[i].work :
                       h \in chain[i].work \/ (i = Len(chain) - 1 /\ h \in chain[Len(chain)].work)
           /\ Stack' /\ WorkAbove'
  <1> DEFINE n == Len(chain)
  <1>1. chain \in Seq(Transaction) /\ n \in Nat /\ n > 1 /\ begun \in Nat
    BY ChainElements, Numbers DEF Inv, TypeOK
  <1>2. chain' \in Seq(Transaction) /\ Len(chain') = n - 1
    BY MergedElements
  <1>3. \A i \in 1 .. Len(chain') :
            /\ i \in 1 .. n
            /\ chain'[i].id = chain[i].id /\ chain'[i].is = chain[i].is
            /\ \A h \in chain'[i].work : h \in chain[i].work \/ (i = n - 1 /\ h \in chain[n].work)
    BY MergedElements
  <1>4. Stack'
    <2>1. ASSUME NEW i \in 1 .. Len(chain')
          PROVE  chain'[i].id <= begun' /\ \A h \in chain'[i].work : h <= begun'
      <3>1. i \in 1 .. n /\ n \in 1 .. n
        BY <1>1, <1>3
      <3>2. \A h \in chain'[i].work : h \in chain[i].work \/ h \in chain[n].work
        BY <1>3
      <3> QED  BY <1>3, <3>1, <3>2 DEF Inv, Stack
    <2>2. \A i, j \in 1 .. Len(chain') : i < j => chain'[i].id < chain'[j].id
      BY <1>3 DEF Inv, Stack
    <2> QED  BY <2>1, <2>2 DEF Stack
  <1>5. WorkAbove'
    <2> SUFFICES ASSUME NEW i \in 1 .. Len(chain'), NEW j \in 1 .. Len(chain'),
                        chain'[i].is # "committed", chain'[i].id \in chain'[j].work
                 PROVE  i <= j
      BY DEF WorkAbove
    <2>1. chain[i].is # "committed" /\ i \in 1 .. n /\ j \in 1 .. n /\ i <= n - 1
      BY <1>1, <1>2, <1>3
    <2>2. chain[i].id \in chain[j].work \/ j = n - 1
      BY <1>3
    <2> QED  BY <1>1, <2>1, <2>2 DEF Inv, WorkAbove
  <1> QED  BY <1>2, <1>3, <1>4, <1>5

\* The innermost handle, if it is not released, is replaced by one of its number.
LEMMA Touch ==
    ASSUME Inv, chain # <<>>, begun' = begun,
           chain[Len(chain)].is # "committed",
           NEW top \in Transaction, top.id = chain[Len(chain)].id,
           \A h \in top.work : h <= begun,
           chain' = [chain EXCEPT ![Len(chain)] = top]
    PROVE  /\ chain' \in Seq(Transaction)
           /\ Len(chain') = Len(chain)
           /\ \A i \in 1 .. Len(chain) :
                 /\ chain'[i].id = chain[i].id
                 /\ i < Len(chain) => chain'[i] = chain[i]
           /\ chain'[Len(chain)] = top
           /\ Stack' /\ WorkAbove'
  <1> DEFINE n == Len(chain)
  <1>1. chain \in Seq(Transaction) /\ n \in Nat /\ n > 0 /\ begun \in Nat
    BY ChainElements, Numbers DEF Inv, TypeOK
  <1>2. /\ chain' \in Seq(Transaction) /\ Len(chain') = n
        /\ \A i \in 1 .. n : chain'[i] = IF i = n THEN top ELSE chain[i]
    BY <1>1
  <1>3. /\ \A i \in 1 .. n : chain'[i].id = chain[i].id /\ (i < n => chain'[i] = chain[i])
        /\ chain'[n] = top
    <2>1. n \in 1 .. n /\ chain'[n] = top
      BY <1>1, <1>2
    <2>2. ASSUME NEW i \in 1 .. n
          PROVE  chain'[i].id = chain[i].id /\ (i < n => chain'[i] = chain[i])
      <3>1. CASE i = n
        BY <2>1, <3>1
      <3>2. CASE i # n
        BY <1>2, <3>2
      <3> QED  BY <3>1, <3>2
    <2> QED  BY <2>1, <2>2
  <1>4. \A i \in 1 .. n : chain[i].id \in Nat /\ chain'[i].id = chain[i].id
    BY <1>1, <1>3, ChainElements, Numbers
  <1>5. Stack'
    <2>1. ASSUME NEW i \in 1 .. n
          PROVE  chain'[i].id <= begun /\ \A h \in chain'[i].work : h <= begun
      <3>1. CASE i = n
        BY <1>1, <1>3, <3>1 DEF Inv, Stack
      <3>2. CASE i # n
        BY <1>2, <3>2 DEF Inv, Stack
      <3> QED  BY <3>1, <3>2
    <2>2. \A i, j \in 1 .. n : i < j => chain'[i].id < chain'[j].id
      BY <1>4 DEF Inv, Stack
    <2> QED  BY <1>2, <2>1, <2>2 DEF Stack
  <1>6. WorkAbove'
    <2> SUFFICES ASSUME NEW i \in 1 .. n, NEW j \in 1 .. n,
                        chain'[i].is # "committed", chain'[i].id \in chain'[j].work
                 PROVE  i <= j
      BY <1>2 DEF WorkAbove
    <2>1. CASE j = n
      BY <1>1, <2>1
    <2>2. CASE j # n
      <3>1. chain'[j] = chain[j] /\ chain[i].id \in chain[j].work
        BY <1>2, <1>4, <2>2
      <3>2. chain[i].is # "committed"
        BY <1>2
      <3> QED  BY <3>1, <3>2 DEF Inv, WorkAbove
    <2> QED  BY <2>1, <2>2
  <1> QED  BY <1>2, <1>3, <1>5, <1>6

\* A helper is left.
LEMMA Left ==
    ASSUME Inv, frames # <<>>, Leave
    PROVE  /\ frames' \in Seq(Frame)
           /\ Len(frames') = Len(frames) - 1
           /\ \A i \in 1 .. Len(frames') : i \in 1 .. Len(frames) - 1 /\ i \in 1 .. Len(frames)
                                          /\ frames'[i] = frames[i]
  <1>1. frames \in Seq(Frame) /\ Len(frames) \in Nat
    BY FrameElements DEF Inv, TypeOK
  <1> QED  BY <1>1, Front DEF Leave

\* The innermost helper moves on.
LEMMA Moved ==
    ASSUME Inv, frames # <<>>, NEW phase \in Phase, NEW unclaimed \in BOOLEAN,
           SetInnermost(phase, unclaimed)
    PROVE  /\ frames' \in Seq(Frame)
           /\ Len(frames') = Len(frames)
           /\ \A i \in 1 .. Len(frames) :
                 /\ frames'[i].root = frames[i].root
                 /\ frames'[i].savepoint = frames[i].savepoint
                 /\ frames'[i].enclosing = frames[i].enclosing
                 /\ i < Len(frames) => frames'[i] = frames[i]
           /\ frames'[Len(frames)].phase = phase
           /\ frames'[Len(frames)].release_unclaimed = unclaimed
           /\ Len(frames) \in 1 .. Len(frames)
  <1> DEFINE n == Len(frames)
             f == [frames[n] EXCEPT !.phase = phase, !.release_unclaimed = unclaimed]
  <1>1. frames \in Seq(Frame) /\ n \in Nat /\ n > 0 /\ n \in 1 .. n
    BY FrameElements DEF Inv, TypeOK
  <1>2. frames[n] \in Frame
    BY <1>1, ElementOfSeq
  <1>3. /\ f \in Frame /\ f.root = frames[n].root /\ f.savepoint = frames[n].savepoint
        /\ f.enclosing = frames[n].enclosing /\ f.phase = phase
        /\ f.release_unclaimed = unclaimed
    BY <1>2 DEF Frame
  <1>4. frames' = [frames EXCEPT ![n] = f]
    BY DEF SetInnermost
  <1> HIDE DEF f
  <1>5. /\ frames' \in Seq(Frame) /\ Len(frames') = n
        /\ \A i \in 1 .. n : frames'[i] = IF i = n THEN f ELSE frames[i]
    BY <1>1, <1>3, <1>4
  <1> QED  BY <1>1, <1>3, <1>5

-----------------------------------------------------------------------------
(* Participants *)

\* What a participant that completes no root and enters no helper cannot disturb.
LEMMA Outside ==
    ASSUME Inv, Running, UNCHANGED <<frames, latch, history>>,
           chain' \in Seq(Transaction), begun' \in 0 .. MaxHandles, begun' >= begun,
           Root' = Root \/ Root = 0
    PROVE  /\ TypeOK' /\ Helpers' /\ Escapes' /\ Exits' /\ OpenEscape' /\ NoHalfBody'
           /\ LatchIsCurrent' /\ LatchIsEarned' /\ Unused' /\ OnePermission'
  <1> USE DEF history
  <1>1. begun \in Nat /\ begun' \in Nat /\ MaxHandles \in Nat
    BY Numbers DEF Inv, TypeOK
  <1>2. /\ frames \in Seq(Frame)
        /\ \A i \in 1 .. Len(frames) : frames[i].root \in Nat \ {0} /\ frames[i].savepoint \in Nat
    BY FrameElements, Numbers DEF Inv, TypeOK
  <1>3. TypeOK'
    BY DEF Inv, TypeOK
  <1>4. Helpers'
    BY <1>1, <1>2 DEF Inv, Helpers
  <1>5. Escapes'
    BY <1>2 DEF Inv, Escapes
  <1>6. Exits'
    BY DEF Exits, Running, Innermost
  <1>7. OpenEscape' /\ NoHalfBody' /\ LatchIsEarned' /\ OnePermission'
    BY DEF Inv, OpenEscape, NoHalfBody, LatchIsEarned, OnePermission
  <1>8. LatchIsCurrent'
    BY DEF Inv, LatchIsCurrent
  <1>9. Unused'
    BY <1>1, Numbers DEF Inv, Unused
  <1> QED  BY <1>3, <1>4, <1>5, <1>6, <1>7, <1>8, <1>9

\* A handle of a participant is begun.
LEMMA PushOutside ==
    ASSUME Inv, Running, UNCHANGED <<frames, latch, history>>,
           begun < MaxHandles, begun' = begun + 1, chain' = Append(chain, Fresh)
    PROVE  Inv'
  <1>1. /\ chain' \in Seq(Transaction) /\ begun' \in 0 .. MaxHandles
        /\ Len(chain') = Len(chain) + 1
        /\ \A i \in 1 .. Len(chain) : chain'[i] = chain[i]
        /\ chain'[Len(chain')].id = begun + 1 /\ chain'[Len(chain')].work = {}
        /\ Stack' /\ WorkAbove'
    BY Push
  <1>2. /\ Len(chain) \in Nat /\ begun \in Nat /\ chain \in Seq(Transaction)
        /\ chain = <<>> <=> Len(chain) = 0
        /\ chain' = <<>> <=> Len(chain') = 0
    BY <1>1, ChainElements, Numbers DEF Inv, TypeOK
  <1>3. Root' = Root \/ Root = 0
    BY <1>1, <1>2 DEF Root
  <1>4. \A p \in 1 .. Len(chain') : p \in 1 .. Len(chain) \/ p = Len(chain')
    BY <1>1, <1>2
  <1>5. Enclosed'
    <2>1. \A i \in 1 .. Len(frames) : frames[i].savepoint <= begun /\ frames[i].savepoint \in Nat
      BY FrameElements, Numbers DEF Inv, TypeOK, Helpers
    <2> SUFFICES ASSUME NEW i \in 1 .. Len(frames), NEW p \in 1 .. Len(chain'),
                        chain'[p].id = frames[i].savepoint
                 PROVE  p > 1 /\ frames[i].enclosing = IF p > 2 THEN chain'[p - 1].id ELSE 0
      BY DEF Enclosed
    <2>2. p \in 1 .. Len(chain)
      BY <1>1, <1>2, <1>4, <2>1
    <2>3. p > 1 /\ frames[i].enclosing = IF p > 2 THEN chain[p - 1].id ELSE 0
      BY <1>1, <2>2 DEF Inv, Enclosed
    <2>4. p - 1 \in 1 .. Len(chain)
      BY <1>2, <2>2, <2>3
    <2> QED  BY <1>1, <2>3, <2>4
  <1>6. Doomed'
    <2> SUFFICES ASSUME NEW h \in failed \ escaped, NEW i \in 1 .. Len(chain'),
                        h \in chain'[i].work
                 PROVE  latch = Root'
      BY DEF Doomed, history
    <2>1. i \in 1 .. Len(chain) /\ h \in chain[i].work
      BY <1>1, <1>4
    <2>2. latch = Root /\ Root' = Root
      BY <1>1, <1>2, <2>1 DEF Inv, Doomed, Root
    <2> QED  BY <2>2
  <1>7. begun' >= begun
    BY <1>2
  <1> QED  BY <1>1, <1>3, <1>5, <1>6, <1>7, Outside DEF Inv

\* The chain keeps its numbers and the root, and gets no work of a failed body.
LEMMA ShrinkOutside ==
    ASSUME Inv, Running, UNCHANGED <<frames, latch, history, begun>>,
           chain' \in Seq(Transaction), Stack', WorkAbove',
           Len(chain') \in 1 .. Len(chain),
           \A i \in 1 .. Len(chain') : chain'[i].id = chain[i].id,
           \A i \in 1 .. Len(chain') : \A h \in chain'[i].work :
               h \in OpenBodies \/ \E j \in 1 .. Len(chain) : h \in chain[j].work
    PROVE  Inv'
  <1>1. /\ Len(chain) \in Nat /\ begun \in Nat /\ begun \in 0 .. MaxHandles
        /\ chain = <<>> <=> Len(chain) = 0
        /\ chain' = <<>> <=> Len(chain') = 0
    BY ChainElements, Numbers DEF Inv, TypeOK
  <1>2. Root' = Root
    BY <1>1 DEF Root
  <1>3. Enclosed'
    BY <1>1 DEF Inv, Enclosed
  <1>4. Doomed'
    <2> SUFFICES ASSUME NEW h \in failed \ escaped, NEW i \in 1 .. Len(chain'),
                        h \in chain'[i].work
                 PROVE  latch = Root
      BY <1>2 DEF Doomed, history
    <2>1. h \notin OpenBodies
      <3>1. \A k \in 1 .. Len(frames) : frames[k].savepoint \notin failed
        BY DEF Inv, Helpers
      <3>2. DOMAIN frames = 1 .. Len(frames)
        BY LenProperties DEF Inv, TypeOK
      <3> QED  BY <3>1, <3>2 DEF OpenBodies
    <2>2. PICK j \in 1 .. Len(chain) : h \in chain[j].work
      BY <2>1
    <2> QED  BY <2>2 DEF Inv, Doomed
  <1>5. begun' \in 0 .. MaxHandles /\ begun' >= begun
    BY <1>1
  <1> QED  BY <1>2, <1>3, <1>4, <1>5, Outside DEF Inv

-----------------------------------------------------------------------------
LEMMA BeginInv == Inv /\ Begin => Inv'
  <1> SUFFICES ASSUME Inv, Begin PROVE Inv'
    OBVIOUS
  <1>1. chain' = Append(chain, Fresh)
    BY DEF Begin, Fresh
  <1> QED  BY <1>1, PushOutside DEF Begin

LEMMA BeginNestedInv == Inv /\ BeginNested => Inv'
  BY PushOutside DEF BeginNested

LEMMA WriteInv == Inv /\ Write => Inv'
  <1> SUFFICES ASSUME Inv, Write PROVE Inv'
    OBVIOUS
  <1> DEFINE n == Len(chain)
             top == [chain[n] EXCEPT !.work = @ \cup OpenBodies]
  <1>1. n \in Nat /\ n \in 1 .. n /\ chain # <<>> /\ chain[n].is = "active" /\ begun' = begun
    BY ChainElements DEF Write, Top, Inv, TypeOK
  <1>2. chain[n] \in Transaction /\ chain[n].work \subseteq Handle
    BY <1>1, ChainElements DEF Inv, TypeOK
  <1>3. OpenBodies \subseteq Handle /\ \A h \in OpenBodies : h <= begun
    <2>1. DOMAIN frames = 1 .. Len(frames)
      BY LenProperties DEF Inv, TypeOK
    <2>2. \A i \in 1 .. Len(frames) : frames[i].savepoint \in Handle /\ frames[i].savepoint <= begun
      BY FrameElements DEF Inv, TypeOK, Helpers
    <2> QED  BY <2>1, <2>2 DEF OpenBodies
  <1>4. top \in Transaction /\ top.id = chain[n].id /\ top.work = chain[n].work \cup OpenBodies
    BY <1>2, <1>3 DEF Transaction
  <1>5. chain' = [chain EXCEPT ![n] = top]
    BY DEF Write
  <1>6. \A h \in top.work : h <= begun
    BY <1>1, <1>3, <1>4 DEF Inv, Stack
  <1> HIDE DEF top
  <1>7. /\ chain' \in Seq(Transaction) /\ Len(chain') = n
        /\ \A i \in 1 .. n : chain'[i].id = chain[i].id /\ (i < n => chain'[i] = chain[i])
        /\ chain'[n] = top
        /\ Stack' /\ WorkAbove'
    BY <1>1, <1>4, <1>5, <1>6, Touch
  <1>8. \A i \in 1 .. Len(chain') : \A h \in chain'[i].work :
            h \in OpenBodies \/ \E j \in 1 .. n : h \in chain[j].work
    <2> SUFFICES ASSUME NEW i \in 1 .. n, NEW h \in chain'[i].work, h \notin OpenBodies
                 PROVE  h \in chain[i].work
      BY <1>7
    <2>1. CASE i = n
      BY <1>4, <1>7, <2>1
    <2>2. CASE i # n
      BY <1>1, <1>7, <2>2
    <2> QED  BY <2>1, <2>2
  <1> QED  BY <1>1, <1>7, <1>8, ShrinkOutside DEF Write

\* A failed flush leaves the handle without work.
LEMMA Deactivated ==
    ASSUME Inv, chain # <<>>, begun' = begun, Top.is = "active",
           chain' = [chain EXCEPT ![Len(chain)] = [@ EXCEPT !.is = "inactive", !.work = {}]]
    PROVE  /\ chain' \in Seq(Transaction) /\ Len(chain') = Len(chain)
           /\ \A i \in 1 .. Len(chain') : chain'[i].id = chain[i].id
           /\ \A i \in 1 .. Len(chain') : chain'[i].work \subseteq chain[i].work
           /\ \A i \in 1 .. Len(chain') : i < Len(chain) => chain'[i] = chain[i]
           /\ Stack' /\ WorkAbove'
  <1> DEFINE n == Len(chain)
             top == [chain[n] EXCEPT !.is = "inactive", !.work = {}]
  <1>1. n \in Nat /\ n \in 1 .. n /\ chain[n].is = "active" /\ chain[n] \in Transaction
    BY ChainElements DEF Top, Inv, TypeOK
  <1>2. top \in Transaction /\ top.id = chain[n].id /\ top.work = {}
    BY <1>1 DEF Transaction
  <1>3. chain' = [chain EXCEPT ![n] = top]
    OBVIOUS
  <1> HIDE DEF top
  <1>4. /\ chain' \in Seq(Transaction) /\ Len(chain') = n
        /\ \A i \in 1 .. n : chain'[i].id = chain[i].id /\ (i < n => chain'[i] = chain[i])
        /\ chain'[n] = top
        /\ Stack' /\ WorkAbove'
    BY <1>1, <1>2, <1>3, Touch
  <1>5. ASSUME NEW i \in 1 .. n PROVE chain'[i].work \subseteq chain[i].work
    <2>1. CASE i = n
      BY <1>2, <1>4, <2>1
    <2>2. CASE i # n
      BY <1>1, <1>4, <2>2
    <2> QED  BY <2>1, <2>2
  <1> QED  BY <1>4, <1>5

LEMMA FlushFailsInv == Inv /\ FlushFails => Inv'
  <1> SUFFICES ASSUME Inv, FlushFails PROVE Inv'
    OBVIOUS
  <1>1. Len(chain) \in Nat /\ Len(chain) \in 1 .. Len(chain)
    BY ChainElements DEF FlushFails, Inv, TypeOK
  <1>2. /\ chain' \in Seq(Transaction) /\ Len(chain') = Len(chain)
        /\ \A i \in 1 .. Len(chain') : chain'[i].id = chain[i].id
        /\ \A i \in 1 .. Len(chain') : chain'[i].work \subseteq chain[i].work
        /\ Stack' /\ WorkAbove'
    BY Deactivated DEF FlushFails
  <1>3. \A i \in 1 .. Len(chain') : \A h \in chain'[i].work :
            h \in OpenBodies \/ \E j \in 1 .. Len(chain) : h \in chain[j].work
    BY <1>2
  <1> QED  BY <1>1, <1>2, <1>3, ShrinkOutside DEF FlushFails

LEMMA CommitNestedInv == Inv /\ CommitNested => Inv'
  <1> SUFFICES ASSUME Inv, CommitNested PROVE Inv'
    OBVIOUS
  <1>1. Len(chain) \in Nat /\ Len(chain) > 1 /\ Len(chain) \in 1 .. Len(chain)
    BY ChainElements DEF CommitNested, Inv, TypeOK
  <1>2. /\ chain' \in Seq(Transaction) /\ Len(chain') = Len(chain) - 1
        /\ \A i \in 1 .. Len(chain') :
              /\ i \in 1 .. Len(chain) /\ chain'[i].id = chain[i].id
              /\ \A h \in chain'[i].work : h \in chain[i].work \/ h \in chain[Len(chain)].work
        /\ Stack' /\ WorkAbove'
    BY Merge DEF CommitNested
  <1>3. \A i \in 1 .. Len(chain') : \A h \in chain'[i].work :
            h \in OpenBodies \/ \E j \in 1 .. Len(chain) : h \in chain[j].work
    BY <1>1, <1>2
  <1>4. Len(chain') \in 1 .. Len(chain)
    BY <1>1, <1>2
  <1> QED  BY <1>2, <1>3, <1>4, ShrinkOutside DEF CommitNested

LEMMA RollbackNestedInv == Inv /\ RollbackNested => Inv'
  <1> SUFFICES ASSUME Inv, RollbackNested PROVE Inv'
    OBVIOUS
  <1>1. Len(chain) \in Nat /\ Len(chain) > 1 /\ chain # <<>>
    BY ChainElements DEF RollbackNested, Inv, TypeOK
  <1>2. /\ chain' \in Seq(Transaction) /\ Len(chain') = Len(chain) - 1
        /\ \A i \in 1 .. Len(chain') : i \in 1 .. Len(chain) /\ chain'[i] = chain[i]
        /\ Stack' /\ WorkAbove'
    BY <1>1, Pop DEF RollbackNested
  <1>3. \A i \in 1 .. Len(chain') : \A h \in chain'[i].work :
            h \in OpenBodies \/ \E j \in 1 .. Len(chain) : h \in chain[j].work
    BY <1>2
  <1>4. Len(chain') \in 1 .. Len(chain)
    BY <1>1, <1>2
  <1> QED  BY <1>2, <1>3, <1>4, ShrinkOutside DEF RollbackNested

\* The owner, or a participant, completes the root: every open body escapes.
LEMMA RootEnds ==
    ASSUME Inv, Running, chain' = <<>>, latch' = ClearEndedRoot,
           escaped' = escaped \cup OpenBodies,
           UNCHANGED <<frames, begun, failed, disturbed, granted>>,
           committed' \subseteq Handle, committed' \subseteq 0 .. begun, NoHalfBody'
    PROVE  Inv'
  <1>1. /\ frames \in Seq(Frame) /\ DOMAIN frames = 1 .. Len(frames)
        /\ \A i \in 1 .. Len(frames) : frames[i].savepoint \in Handle
    BY FrameElements, LenProperties DEF Inv, TypeOK
  <1>2. \A i \in 1 .. Len(frames) : frames[i].savepoint \in OpenBodies
    BY <1>1 DEF OpenBodies
  <1>3. OpenBodies \subseteq Handle
    BY <1>1 DEF OpenBodies
  <1>4. latch' = 0
    BY DEF Inv, LatchIsCurrent, ClearEndedRoot
  <1>5. Len(chain') = 0 /\ chain' \in Seq(Transaction)
    OBVIOUS
  <1>6. TypeOK'
    BY <1>3, <1>4, <1>5 DEF Inv, TypeOK
  <1>7. Stack' /\ WorkAbove' /\ Enclosed' /\ Doomed'
    BY <1>5 DEF Stack, WorkAbove, Enclosed, Doomed
  <1>8. Helpers'
    BY DEF Inv, Helpers
  <1>9. Escapes' /\ OpenEscape'
    BY <1>2 DEF Escapes, OpenEscape
  <1>10. Exits'
    BY DEF Exits, Running, Innermost
  <1>11. LatchIsCurrent' /\ LatchIsEarned' /\ OnePermission' /\ Unused'
    BY <1>4 DEF Inv, LatchIsCurrent, LatchIsEarned, OnePermission, Unused
  <1> QED  BY <1>6, <1>7, <1>8, <1>9, <1>10, <1>11 DEF Inv

LEMMA CommitRootInv == Inv /\ CommitRoot => Inv'
  <1> SUFFICES ASSUME Inv, CommitRoot PROVE Inv'
    OBVIOUS
  <1> DEFINE all == UNION {chain[i].work : i \in DOMAIN chain}
  <1>1. DOMAIN chain = 1 .. Len(chain) /\ chain \in Seq(Transaction)
    BY LenProperties DEF Inv, TypeOK
  <1>2. ASSUME NEW h \in all
        PROVE  h \in Handle /\ h \in 0 .. begun /\ (h \in failed => h \in escaped)
    <2>1. PICK i \in 1 .. Len(chain) : h \in chain[i].work
      BY <1>1
    <2>2. h \in Handle /\ h <= begun /\ begun \in Nat
      BY <1>1, <2>1, ChainElements, Numbers DEF Inv, TypeOK, Stack
    <2>3. latch # Root
      BY DEF CommitRoot, MayCommit, conflict_savepoint_requires_rollback
    <2>4. h \in failed => h \in escaped
      BY <2>1, <2>3 DEF Inv, Doomed
    <2>5. h \in 0 .. begun
      BY <2>2, Numbers
    <2> QED  BY <2>2, <2>4, <2>5
  <1>3. committed' = committed \cup all /\ escaped' = escaped \cup OpenBodies
    BY DEF CommitRoot
  <1> HIDE DEF all
  <1>4. committed' \subseteq Handle /\ committed' \subseteq 0 .. begun
    BY <1>2, <1>3 DEF Inv, TypeOK, Helpers
  <1>5. NoHalfBody'
    BY <1>2, <1>3 DEF Inv, NoHalfBody, CommitRoot
  <1> QED  BY <1>4, <1>5, RootEnds DEF CommitRoot

LEMMA RollbackRootInv == Inv /\ RollbackRoot => Inv'
  <1> SUFFICES ASSUME Inv, RollbackRoot PROVE Inv'
    OBVIOUS
  <1>1. committed' = committed /\ committed \subseteq Handle /\ committed \subseteq 0 .. begun
    BY DEF RollbackRoot, Inv, TypeOK, Helpers
  <1>2. NoHalfBody'
    BY DEF RollbackRoot, Inv, NoHalfBody
  <1> QED  BY <1>1, <1>2, RootEnds DEF RollbackRoot

-----------------------------------------------------------------------------
(* conflict_savepoint *)

LEMMA EnterInv == Inv /\ Enter => Inv'
  <1> SUFFICES ASSUME Inv, Enter PROVE Inv'
    OBVIOUS
  <1> DEFINE new == [root |-> Root, savepoint |-> begun + 1, enclosing |-> Nested(chain),
                     phase |-> "body", release_unclaimed |-> FALSE]
             n == Len(chain)
             k == Len(frames)
  <1>1. /\ chain' \in Seq(Transaction) /\ begun' \in 0 .. MaxHandles
        /\ Len(chain') = n + 1
        /\ \A i \in 1 .. n : chain'[i] = chain[i]
        /\ chain'[Len(chain')].id = begun + 1 /\ chain'[Len(chain')].work = {}
        /\ Stack' /\ WorkAbove'
    BY Push DEF Enter
  <1>2. /\ chain \in Seq(Transaction) /\ n \in Nat /\ n > 0 /\ n \in 1 .. n /\ 1 \in 1 .. n
        /\ begun \in Nat /\ begun + 1 \in Handle /\ begun' = begun + 1
        /\ chain' # <<>>
        /\ \A i \in 1 .. n : chain[i].id \in Handle /\ chain[i].id \in Nat /\ chain[i].id <= begun
    BY <1>1, ChainElements, Numbers DEF Enter, Inv, TypeOK, Stack
  <1>3. Root' = Root /\ Root \in Handle /\ Nested(chain) \in Handle \cup {0}
    BY <1>1, <1>2 DEF Root, Nested
  <1>4. /\ new \in Frame /\ new.root = Root /\ new.savepoint = begun + 1
        /\ new.enclosing = Nested(chain) /\ new.phase = "body" /\ new.release_unclaimed = FALSE
    BY <1>2, <1>3 DEF Frame, Phase
  <1>5. frames' = Append(frames, new)
    BY DEF Enter
  <1> HIDE DEF new
  <1>6. /\ frames \in Seq(Frame) /\ k \in Nat /\ (frames = <<>> <=> k = 0)
        /\ \A i \in 1 .. k : frames[i].savepoint \in Handle /\ frames[i].savepoint \in Nat
    BY FrameElements, Numbers DEF Inv, TypeOK
  <1>7. /\ frames' \in Seq(Frame) /\ Len(frames') = k + 1
        /\ \A i \in 1 .. k : frames'[i] = frames[i]
        /\ frames'[k + 1] = new
    BY <1>4, <1>5, <1>6
  <1>8. \A i \in 1 .. k + 1 : i \in 1 .. k \/ i = k + 1
    BY <1>6
  <1>9. UNCHANGED <<latch, committed, failed, escaped, disturbed, granted>>
    BY DEF Enter, history
  <1>10. TypeOK'
    BY <1>1, <1>7, <1>9 DEF Inv, TypeOK
  <1>11. \A i \in 1 .. k : frames[i].phase = "body"
    BY <1>6 DEF Enter, Running, Innermost, Inv, Helpers
  <1>12. committed \cup failed \subseteq 0 .. begun
    BY DEF Inv, Helpers
  <1>13. Helpers'
    <2>1. ASSUME NEW i \in 1 .. k + 1
          PROVE  /\ frames'[i].savepoint <= begun + 1 /\ frames'[i].savepoint \notin failed
                 /\ frames'[i].phase = "body" /\ (frames'[i].release_unclaimed => frames'[i].phase = "release")
      <3>1. CASE i = k + 1
        BY <1>2, <1>4, <1>7, <1>12, <3>1
      <3>2. CASE i \in 1 .. k
        BY <1>2, <1>6, <1>7, <1>11, <3>2 DEF Inv, Helpers
      <3> QED  BY <1>8, <3>1, <3>2
    <2>2. ASSUME NEW i \in 1 .. k + 1, NEW j \in 1 .. k + 1, i < j
          PROVE  frames'[i].savepoint < frames'[j].savepoint
      <3>1. i \in 1 .. k /\ frames'[i] = frames[i] /\ frames[i].savepoint <= begun
        BY <1>6, <1>7, <2>2 DEF Inv, Helpers
      <3>2. CASE j = k + 1
        BY <1>2, <1>4, <1>6, <1>7, <3>1, <3>2
      <3>3. CASE j \in 1 .. k
        BY <1>7, <2>2, <3>1, <3>3 DEF Inv, Helpers
      <3> QED  BY <1>8, <3>2, <3>3
    <2>3. (committed \cup failed)' \subseteq 0 .. begun'
      BY <1>2, <1>9, <1>12
    <2> QED  BY <1>2, <1>7, <1>9, <2>1, <2>2, <2>3 DEF Helpers
  <1>14. Enclosed'
    <2> SUFFICES ASSUME NEW i \in 1 .. k + 1, NEW p \in 1 .. n + 1,
                        chain'[p].id = frames'[i].savepoint
                 PROVE  p > 1 /\ frames'[i].enclosing = IF p > 2 THEN chain'[p - 1].id ELSE 0
      BY <1>1, <1>7 DEF Enclosed
    <2>1. CASE i = k + 1
      <3>1. frames'[i] = new /\ chain'[p].id = begun + 1
        BY <1>4, <1>7, <2>1
      <3>2. p = n + 1
        BY <1>1, <1>2, <3>1
      <3>3. p - 1 = n /\ chain'[p - 1] = chain[n]
        BY <1>1, <1>2, <3>2
      <3> QED  BY <1>2, <1>4, <3>1, <3>2, <3>3 DEF Nested
    <2>2. CASE i \in 1 .. k
      <3>1. frames'[i] = frames[i] /\ frames[i].savepoint <= begun
        BY <1>7, <2>2 DEF Inv, Helpers
      <3>2. p \in 1 .. n
        BY <1>1, <1>2, <3>1
      <3>3. p > 1 /\ frames[i].enclosing = IF p > 2 THEN chain[p - 1].id ELSE 0
        BY <1>1, <2>2, <3>1, <3>2 DEF Inv, Enclosed
      <3>4. p - 1 \in 1 .. n
        BY <1>2, <3>2, <3>3
      <3> QED  BY <1>1, <3>1, <3>3, <3>4
    <2> QED  BY <1>8, <2>1, <2>2
  <1>15. Escapes'
    BY <1>3, <1>4, <1>7, <1>8, <1>9 DEF Inv, Escapes
  <1>16. Exits'
    BY <1>4, <1>7 DEF Exits, Innermost
  <1>17. Doomed'
    <2> SUFFICES ASSUME NEW h \in failed \ escaped, NEW i \in 1 .. n + 1, h \in chain'[i].work
                 PROVE  latch = Root
      BY <1>1, <1>3, <1>9 DEF Doomed
    <2>1. i \in 1 .. n /\ h \in chain[i].work
      BY <1>1, <1>2
    <2> QED  BY <2>1 DEF Inv, Doomed
  <1>18. OpenEscape'
    <2> SUFFICES ASSUME NEW i \in 1 .. k + 1, frames'[i].savepoint \in committed
                 PROVE  frames'[i].savepoint \in escaped
      BY <1>7, <1>9 DEF OpenEscape
    <2>1. i # k + 1
      BY <1>2, <1>4, <1>7, <1>12
    <2> QED  BY <1>7, <1>8, <2>1 DEF Inv, OpenEscape
  <1>19. NoHalfBody' /\ LatchIsCurrent' /\ LatchIsEarned' /\ OnePermission'
    BY <1>3, <1>9 DEF Inv, NoHalfBody, LatchIsCurrent, LatchIsEarned, OnePermission
  <1>20. Unused'
    <2>1. \A h \in Handle : h > begun' => granted'[h] = 0
      BY <1>2, <1>9, Numbers DEF Inv, Unused
    <2>2. ASSUME NEW i \in 1 .. k + 1
          PROVE  granted[frames'[i].savepoint] = 0
      <3>1. CASE i = k + 1
        BY <1>2, <1>4, <1>7, <3>1 DEF Inv, Unused
      <3>2. CASE i \in 1 .. k
        BY <1>7, <1>11, <3>2 DEF Inv, Unused
      <3> QED  BY <1>8, <3>1, <3>2
    <2> QED  BY <1>7, <1>9, <2>1, <2>2 DEF Unused
  <1> QED  BY <1>1, <1>10, <1>13, <1>14, <1>15, <1>16, <1>17, <1>18, <1>19, <1>20 DEF Inv

\* The innermost helper moves on, and the chain keeps its numbers and the root.
LEMMA Stays ==
    ASSUME Inv, frames # <<>>, NEW phase \in {"release", "rollback"}, NEW unclaimed \in BOOLEAN,
           SetInnermost(phase, unclaimed), unclaimed => phase = "release",
           UNCHANGED <<latch, begun, committed, failed, escaped>>,
           chain' \in Seq(Transaction), Stack', WorkAbove', Root' = Root,
           Len(chain') \in 0 .. Len(chain),
           \A i \in 1 .. Len(chain') : chain'[i].id = chain[i].id,
           \A i \in 1 .. Len(chain') : \A h \in chain'[i].work :
               \E j \in 1 .. Len(chain) : h \in chain[j].work,
           disturbed \subseteq disturbed', disturbed' \subseteq Handle,
           granted' \in [Handle -> Nat], Exits', Unused', OnePermission'
    PROVE  Inv'
  <1> DEFINE k == Len(frames)
  <1>1. /\ frames' \in Seq(Frame) /\ Len(frames') = k /\ k \in 1 .. k /\ k \in Nat
        /\ \A i \in 1 .. k :
              /\ frames'[i].root = frames[i].root
              /\ frames'[i].savepoint = frames[i].savepoint
              /\ frames'[i].enclosing = frames[i].enclosing
              /\ i < k => frames'[i] = frames[i]
        /\ frames'[k].phase = phase /\ frames'[k].release_unclaimed = unclaimed
    BY Moved, FrameElements DEF Phase, Inv, TypeOK
  <1>2. TypeOK'
    BY <1>1 DEF Inv, TypeOK
  <1>3. Helpers'
    <2>1. ASSUME NEW i \in 1 .. k
          PROVE  /\ frames'[i].savepoint <= begun /\ frames'[i].savepoint \notin failed
                 /\ i < k => frames'[i].phase = "body"
                 /\ frames'[i].release_unclaimed => frames'[i].phase = "release"
      <3>1. CASE i = k
        BY <1>1, <3>1 DEF Inv, Helpers
      <3>2. CASE i # k
        BY <1>1, <3>2 DEF Inv, Helpers
      <3> QED  BY <3>1, <3>2
    <2>2. \A i, j \in 1 .. k : i < j => frames'[i].savepoint < frames'[j].savepoint
      BY <1>1 DEF Inv, Helpers
    <2> QED  BY <1>1, <2>1, <2>2 DEF Inv, Helpers
  <1>4. Enclosed'
    <2>1. Len(chain) \in Nat
      BY ChainElements DEF Inv, TypeOK
    <2> SUFFICES ASSUME NEW i \in 1 .. k, NEW p \in 1 .. Len(chain'),
                        chain'[p].id = frames'[i].savepoint
                 PROVE  p > 1 /\ frames'[i].enclosing = IF p > 2 THEN chain'[p - 1].id ELSE 0
      BY <1>1 DEF Enclosed
    <2>2. p \in 1 .. Len(chain) /\ chain[p].id = frames[i].savepoint
      BY <1>1, <2>1
    <2>3. p > 1 /\ frames[i].enclosing = IF p > 2 THEN chain[p - 1].id ELSE 0
      BY <2>2 DEF Inv, Enclosed
    <2>4. p > 2 => p - 1 \in 1 .. Len(chain')
      BY <2>1
    <2> QED  BY <1>1, <2>3, <2>4
  <1>5. Escapes'
    BY <1>1 DEF Inv, Escapes
  <1>6. Doomed'
    BY DEF Inv, Doomed
  <1>7. OpenEscape'
    BY <1>1 DEF Inv, OpenEscape
  <1>8. NoHalfBody' /\ LatchIsCurrent' /\ LatchIsEarned'
    BY DEF Inv, NoHalfBody, LatchIsCurrent, LatchIsEarned
  <1> QED  BY <1>2, <1>3, <1>4, <1>5, <1>6, <1>7, <1>8 DEF Inv

\* The helper is left, with or without an error.
LEMMA Leaves ==
    ASSUME Inv, frames # <<>>, Leave,
           UNCHANGED <<begun, committed, escaped, granted>>,
           failed' \in {failed, failed \cup {Innermost.savepoint}},
           chain' \in Seq(Transaction), Stack', WorkAbove', Root' = Root,
           Len(chain') \in 0 .. Len(chain),
           \A i \in 1 .. Len(chain') : chain'[i].id = chain[i].id,
           disturbed \subseteq disturbed', disturbed' \subseteq Handle,
           latch' \in {latch, Root}, LatchIsEarned', Doomed'
    PROVE  Inv'
  <1> DEFINE k == Len(frames)
  <1>1. /\ frames' \in Seq(Frame) /\ Len(frames') = k - 1 /\ k \in Nat /\ k > 0
        /\ \A i \in 1 .. Len(frames') :
              i \in 1 .. k - 1 /\ i \in 1 .. k /\ frames'[i] = frames[i]
    BY Left, FrameElements DEF Inv, TypeOK
  <1>2. Innermost = frames[k] /\ k \in 1 .. k
    BY <1>1 DEF Innermost
  <1>3. /\ \A i \in 1 .. k : frames[i].savepoint \in Handle /\ frames[i].savepoint \in Nat
        /\ chain \in Seq(Transaction) /\ Len(chain) \in Nat
    BY FrameElements, ChainElements, Numbers DEF Inv, TypeOK
  <1>4. failed \subseteq failed' /\ failed' \subseteq failed \cup {frames[k].savepoint}
    BY <1>2
  <1>5. TypeOK'
    <2>1. Root \in Handle \cup {0}
      BY <1>3, ChainElements DEF Root
    <2>2. failed' \subseteq Handle
      BY <1>2, <1>3, <1>4 DEF Inv, TypeOK
    <2> QED  BY <1>1, <2>1, <2>2 DEF Inv, TypeOK
  <1>6. Helpers'
    <2>1. ASSUME NEW i \in 1 .. Len(frames')
          PROVE  /\ frames[i].savepoint <= begun /\ frames[i].savepoint \notin failed'
                 /\ frames[i].phase = "body"
                 /\ frames[i].release_unclaimed => frames[i].phase = "release"
      <3>1. i \in 1 .. k /\ i < k
        BY <1>1
      <3>2. frames[i].savepoint < frames[k].savepoint
        BY <1>2, <3>1 DEF Inv, Helpers
      <3>3. frames[i].savepoint # frames[k].savepoint
        BY <1>2, <1>3, <3>1, <3>2
      <3> QED  BY <1>4, <3>1, <3>3 DEF Inv, Helpers
    <2>2. \A i, j \in 1 .. Len(frames') : i < j => frames'[i].savepoint < frames'[j].savepoint
      BY <1>1 DEF Inv, Helpers
    <2>3. committed \cup failed' \subseteq 0 .. begun
      <3>1. frames[k].savepoint <= begun /\ begun \in Nat
        BY <1>2, Numbers DEF Inv, TypeOK, Helpers
      <3>2. frames[k].savepoint \in 0 .. begun
        BY <1>2, <1>3, <3>1
      <3> QED  BY <1>4, <3>2 DEF Inv, Helpers
    <2> QED  BY <1>1, <2>1, <2>2, <2>3 DEF Helpers
  <1>7. Enclosed'
    <2> SUFFICES ASSUME NEW i \in 1 .. Len(frames'), NEW p \in 1 .. Len(chain'),
                        chain'[p].id = frames'[i].savepoint
                 PROVE  p > 1 /\ frames'[i].enclosing = IF p > 2 THEN chain'[p - 1].id ELSE 0
      BY DEF Enclosed
    <2>1. i \in 1 .. k /\ frames'[i] = frames[i]
      BY <1>1
    <2>2. p \in 1 .. Len(chain) /\ chain[p].id = frames[i].savepoint
      BY <1>3, <2>1
    <2>3. p > 1 /\ frames[i].enclosing = IF p > 2 THEN chain[p - 1].id ELSE 0
      BY <2>1, <2>2 DEF Inv, Enclosed
    <2>4. p > 2 => p - 1 \in 1 .. Len(chain')
      BY <1>3
    <2> QED  BY <2>1, <2>3, <2>4
  <1>8. Escapes' /\ OpenEscape'
    BY <1>1 DEF Inv, Escapes, OpenEscape
  <1>9. Exits'
    <2> SUFFICES ASSUME frames' # <<>> PROVE frames'[Len(frames')].phase = "body"
      BY DEF Exits, Innermost
    <2>1. Len(frames') \in 1 .. Len(frames')
      BY <1>1, FrameElements
    <2>2. Len(frames') \in 1 .. k /\ Len(frames') < k
      BY <1>1, <2>1
    <2> QED  BY <1>1, <2>1, <2>2 DEF Inv, Helpers
  <1>10. NoHalfBody'
    BY <1>2, <1>4 DEF Inv, NoHalfBody, OpenEscape
  <1>11. LatchIsCurrent'
    BY DEF Inv, LatchIsCurrent
  <1>12. Unused' /\ OnePermission'
    BY <1>1 DEF Inv, Unused, OnePermission
  <1> QED  BY <1>5, <1>6, <1>7, <1>8, <1>9, <1>10, <1>11, <1>12 DEF Inv

\* The innermost frame after the helper moves on.
LEMMA InnermostMoved ==
    ASSUME Inv, frames # <<>>, NEW phase \in {"release", "rollback"}, NEW unclaimed \in BOOLEAN,
           SetInnermost(phase, unclaimed)
    PROVE  /\ frames' # <<>>
           /\ Innermost'.root = Innermost.root /\ Innermost'.savepoint = Innermost.savepoint
           /\ Innermost'.phase = phase /\ Innermost'.release_unclaimed = unclaimed
  <1>1. /\ frames' \in Seq(Frame) /\ Len(frames') = Len(frames)
        /\ Len(frames) \in 1 .. Len(frames)
        /\ \A i \in 1 .. Len(frames) :
              frames'[i].root = frames[i].root /\ frames'[i].savepoint = frames[i].savepoint
        /\ frames'[Len(frames)].phase = phase
        /\ frames'[Len(frames)].release_unclaimed = unclaimed
    BY Moved DEF Phase
  <1>2. frames' # <<>>
    BY <1>1, FrameElements DEF Inv, TypeOK
  <1> QED  BY <1>1, <1>2 DEF Innermost

\* The permissions of a helper that moves on.
LEMMA PermissionsKept ==
    ASSUME Inv, frames # <<>>, NEW phase \in {"release", "rollback"}, NEW unclaimed \in BOOLEAN,
           SetInnermost(phase, unclaimed), UNCHANGED <<begun, granted>>,
           unclaimed => Innermost.phase = "body"
    PROVE  Unused' /\ OnePermission'
  <1> DEFINE k == Len(frames)
  <1>1. /\ Len(frames') = k /\ k \in 1 .. k
        /\ \A i \in 1 .. k :
              /\ frames'[i].savepoint = frames[i].savepoint
              /\ i < k => frames'[i] = frames[i]
        /\ frames'[k].phase = phase /\ frames'[k].release_unclaimed = unclaimed
    BY Moved DEF Phase
  <1>2. ASSUME NEW i \in 1 .. k, frames'[i].phase = "body" \/ frames'[i].release_unclaimed
        PROVE  granted[frames'[i].savepoint] = 0
    <2>1. CASE i = k
      BY <1>1, <1>2, <2>1 DEF Inv, Unused, Innermost
    <2>2. CASE i # k
      BY <1>1, <1>2, <2>2 DEF Inv, Unused
    <2> QED  BY <2>1, <2>2
  <1>3. Unused'
    BY <1>1, <1>2 DEF Inv, Unused
  <1>4. OnePermission'
    BY DEF Inv, OnePermission
  <1> QED  BY <1>3, <1>4

\* The body ends, and nothing is done to the chain yet.
LEMMA BodyEnds ==
    ASSUME Inv, Running, frames # <<>>, NEW unclaimed \in BOOLEAN,
           NEW phase \in {"release", "rollback"},
           SetInnermost(phase, unclaimed), unclaimed => phase = "release",
           phase = "release" => Untouched(Innermost) /\ Top.is = "active",
           disturbed' = IF Untouched(Innermost) THEN disturbed ELSE disturbed \cup {Innermost.root},
           UNCHANGED <<chain, latch, begun, committed, failed, escaped, granted>>
    PROVE  Inv'
  <1>1. /\ frames' # <<>>
        /\ Innermost'.root = Innermost.root /\ Innermost'.savepoint = Innermost.savepoint
        /\ Innermost'.phase = phase
    BY InnermostMoved
  <1>2. Unused' /\ OnePermission'
    BY PermissionsKept DEF Running
  <1>3. Exits'
    BY <1>1 DEF Exits, Untouched, Root, RootIsActive, Nested, Top
  <1>4. /\ Root' = Root /\ Stack' /\ WorkAbove' /\ granted' \in [Handle -> Nat]
        /\ chain' \in Seq(Transaction)
    BY DEF Inv, TypeOK, Root, Stack, WorkAbove
  <1>5. Innermost.root \in Handle
    BY FrameElements DEF Inv, TypeOK, Innermost
  <1>6. disturbed \subseteq disturbed' /\ disturbed' \subseteq Handle
    BY <1>5 DEF Inv, TypeOK
  <1>7. Len(chain') \in 0 .. Len(chain)
    BY ChainElements DEF Inv, TypeOK
  <1> QED  BY <1>2, <1>3, <1>4, <1>6, <1>7, Stays

LEMMA ReturnInv == Inv /\ Return => Inv'
  <1> SUFFICES ASSUME Inv, Return PROVE Inv'
    OBVIOUS
  <1>1. CASE Untouched(Innermost) /\ Top.is = "active"
    BY <1>1, BodyEnds DEF Return
  <1>2. CASE ~ (Untouched(Innermost) /\ Top.is = "active")
    BY <1>2, BodyEnds DEF Return
  <1> QED  BY <1>1, <1>2

LEMMA RaiseInv == Inv /\ Raise => Inv'
  BY BodyEnds DEF Raise

LEMMA ClaimInv == Inv /\ Claim => Inv'
  <1> SUFFICES ASSUME Inv, Claim PROVE Inv'
    OBVIOUS
  <1> DEFINE k == Len(frames)
             sp == Innermost.savepoint
  <1>1. /\ frames # <<>> /\ Innermost.release_unclaimed /\ Innermost.phase = "release"
        /\ Untouched(Innermost) /\ Top.is = "active"
        /\ SetInnermost("release", FALSE)
        /\ granted' = [granted EXCEPT ![sp] = @ + 1]
        /\ UNCHANGED <<chain, latch, begun, committed, failed, escaped, disturbed>>
    BY DEF Claim, MayClaim
  <1>2. /\ frames' # <<>>
        /\ Innermost'.root = Innermost.root /\ Innermost'.savepoint = sp
        /\ Innermost'.phase = "release"
    BY <1>1, InnermostMoved
  <1>3. Exits'
    BY <1>1, <1>2 DEF Exits, Untouched, Root, RootIsActive, Nested, Top
  <1>4. /\ Len(frames') = k /\ k \in 1 .. k
        /\ \A i \in 1 .. k :
              /\ frames'[i].savepoint = frames[i].savepoint
              /\ i < k => frames'[i] = frames[i]
        /\ frames'[k].phase = "release" /\ frames'[k].release_unclaimed = FALSE
    BY <1>1, Moved DEF Phase
  <1>5. /\ \A i \in 1 .. k : frames[i].savepoint \in Handle /\ frames[i].savepoint \in Nat
        /\ sp = frames[k].savepoint /\ sp \in Handle /\ granted \in [Handle -> Nat]
        /\ sp \in Nat /\ sp <= begun /\ begun \in Nat
    BY <1>4, FrameElements, Numbers DEF Inv, TypeOK, Innermost, Helpers
  <1>6. granted[sp] = 0
    BY <1>1, <1>4, <1>5 DEF Inv, Unused, Innermost
  <1> HIDE DEF sp
  <1>7. granted' \in [Handle -> Nat] /\ OnePermission'
    BY <1>1, <1>5, <1>6 DEF Inv, OnePermission
  <1>8. Unused'
    <2>1. \A h \in Handle : h > begun => granted'[h] = 0
      BY <1>1, <1>5, Numbers DEF Inv, Unused
    <2>2. ASSUME NEW i \in 1 .. k, frames'[i].phase = "body" \/ frames'[i].release_unclaimed
          PROVE  granted'[frames'[i].savepoint] = 0
      <3>1. i # k
        BY <1>4, <2>2
      <3>2. frames[i].savepoint < sp /\ frames'[i] = frames[i]
        BY <1>4, <1>5, <3>1 DEF Inv, Helpers
      <3>3. frames[i].savepoint # sp
        BY <1>5, <3>2
      <3>4. granted[frames[i].savepoint] = 0
        BY <2>2, <3>2 DEF Inv, Unused
      <3> QED  BY <1>1, <1>5, <3>2, <3>3, <3>4
    <2> QED  BY <1>1, <1>4, <2>1, <2>2 DEF Unused
  <1>9. /\ Root' = Root /\ Stack' /\ WorkAbove' /\ chain' \in Seq(Transaction)
        /\ disturbed' \subseteq Handle
    BY <1>1 DEF Inv, TypeOK, Root, Stack, WorkAbove
  <1>10. Len(chain') \in 0 .. Len(chain)
    BY <1>1, ChainElements DEF Inv, TypeOK
  <1> QED  BY <1>1, <1>3, <1>7, <1>8, <1>9, <1>10, Stays

\* While the helper's savepoint is untouched it is the innermost handle.
LEMMA Deep ==
    ASSUME Inv, frames # <<>>, Untouched(Innermost)
    PROVE  /\ chain \in Seq(Transaction) /\ chain # <<>>
           /\ Len(chain) \in Nat /\ Len(chain) > 1 /\ 1 \in 1 .. Len(chain)
           /\ Len(chain) \in 1 .. Len(chain)
           /\ chain[Len(chain)].id = Innermost.savepoint
           /\ Root = Innermost.root /\ Root = chain[1].id /\ chain[1].is = "active"
           /\ Innermost = frames[Len(frames)] /\ Len(frames) \in 1 .. Len(frames)
           /\ Innermost.root \in Handle /\ Innermost.savepoint \in Handle
  <1>1. /\ Len(frames) \in 1 .. Len(frames) /\ Innermost = frames[Len(frames)]
        /\ Innermost.root \in Handle /\ Innermost.savepoint \in Handle
    BY FrameElements DEF Inv, TypeOK, Innermost
  <1>2. chain \in Seq(Transaction) /\ Len(chain) \in Nat
    BY ChainElements DEF Inv, TypeOK
  <1>3. Len(chain) > 1 /\ chain[Len(chain)].id = Innermost.savepoint
    BY <1>1, <1>2, Numbers DEF Untouched, Nested
  <1>4. chain # <<>> /\ Root = Innermost.root /\ Root = chain[1].id /\ chain[1].is = "active"
    BY DEF Untouched, RootIsActive, Root
  <1> QED  BY <1>1, <1>2, <1>3, <1>4

LEMMA SameRoot ==
    ASSUME chain # <<>>, chain' \in Seq(Transaction), Len(chain') > 0, chain'[1].id = chain[1].id
    PROVE  Root' = Root
  BY ChainElements DEF Root

LEMMA ReleaseInv == Inv /\ Release => Inv'
  <1> SUFFICES ASSUME Inv, Release PROVE Inv'
    OBVIOUS
  <1>1. frames # <<>> /\ Untouched(Innermost)
    BY DEF Release, Releasing, Inv, Exits
  <1>2. /\ Len(chain) \in Nat /\ Len(chain) > 1 /\ chain # <<>>
        /\ Len(chain) \in 1 .. Len(chain)
    BY <1>1, Deep
  <1>3. /\ chain' \in Seq(Transaction) /\ Len(chain') = Len(chain) - 1
        /\ \A i \in 1 .. Len(chain') :
              /\ i \in 1 .. Len(chain) /\ chain'[i].id = chain[i].id
              /\ \A h \in chain'[i].work : h \in chain[i].work \/ h \in chain[Len(chain)].work
        /\ Stack' /\ WorkAbove'
    BY <1>2, Merge DEF Release
  <1>4. Len(chain') \in 0 .. Len(chain) /\ Len(chain') > 0 /\ 1 \in 1 .. Len(chain')
    BY <1>2, <1>3
  <1>5. Root' = Root
    BY <1>2, <1>3, <1>4, SameRoot
  <1>6. UNCHANGED <<latch, begun, committed, failed, escaped, disturbed, granted>> /\ Leave
    BY DEF Release, history
  <1>7. Doomed'
    BY <1>2, <1>3, <1>5, <1>6 DEF Inv, Doomed
  <1>8. LatchIsEarned' /\ disturbed' \subseteq Handle
    BY <1>6 DEF Inv, TypeOK, LatchIsEarned
  <1> QED  BY <1>1, <1>3, <1>4, <1>5, <1>6, <1>7, <1>8, Leaves

\* The release fails before it reached the database.
LEMMA NotReleased ==
    ASSUME Inv, Releasing, SetInnermost("rollback", FALSE), UNCHANGED <<latch, begun, history>>,
           UNCHANGED chain
           \/ chain' = [chain EXCEPT ![Len(chain)] = [@ EXCEPT !.is = "inactive", !.work = {}]]
    PROVE  Inv'
  <1> DEFINE n == Len(chain)
  <1>1. frames # <<>> /\ Untouched(Innermost) /\ Top.is = "active"
    BY DEF Releasing, Inv, Exits
  <1>2. /\ chain \in Seq(Transaction) /\ n \in Nat /\ n > 1 /\ chain # <<>>
        /\ 1 \in 1 .. n /\ n \in 1 .. n /\ chain[1].is = "active"
        /\ chain[n].id = Innermost.savepoint /\ Root = Innermost.root
    BY <1>1, Deep
  <1>3. UNCHANGED <<latch, begun, committed, failed, escaped, disturbed, granted>>
    BY DEF history
  <1>4. /\ chain' \in Seq(Transaction) /\ Len(chain') = n
        /\ \A i \in 1 .. n : chain'[i].id = chain[i].id /\ chain'[i].work \subseteq chain[i].work
        /\ chain'[1].is = "active"
        /\ Stack' /\ WorkAbove'
    <2>1. CASE UNCHANGED chain
      BY <1>2, <1>3, <2>1 DEF Inv, Stack, WorkAbove
    <2>2. CASE chain' = [chain EXCEPT ![n] = [@ EXCEPT !.is = "inactive", !.work = {}]]
      BY <1>1, <1>2, <1>3, <2>2, Deactivated
    <2> QED  BY <2>1, <2>2
  <1>5. Root' = Root /\ chain' # <<>>
    BY <1>2, <1>4, SameRoot, ChainElements
  <1>6. /\ frames' # <<>>
        /\ Innermost'.root = Innermost.root /\ Innermost'.savepoint = Innermost.savepoint
        /\ Innermost'.phase = "rollback"
    BY <1>1, InnermostMoved
  <1>7. Exits'
    <2>1. Untouched(Innermost)'
      BY <1>2, <1>4, <1>5, <1>6 DEF Untouched, RootIsActive, Nested
    <2> QED  BY <1>6, <2>1 DEF Exits
  <1>8. Unused' /\ OnePermission'
    BY <1>1, <1>3, PermissionsKept
  <1>9. granted' \in [Handle -> Nat] /\ disturbed' \subseteq Handle
    BY <1>3 DEF Inv, TypeOK
  <1>10. Len(chain') \in 0 .. n
    BY <1>2, <1>4
  <1>11. \A i \in 1 .. Len(chain') : \A h \in chain'[i].work :
             \E j \in 1 .. n : h \in chain[j].work
    BY <1>4
  <1> QED  BY <1>1, <1>3, <1>4, <1>5, <1>7, <1>8, <1>9, <1>10, <1>11, Stays

LEMMA ReleaseRefusedInv == Inv /\ ReleaseRefused => Inv'
  BY NotReleased DEF ReleaseRefused

LEMMA ReleaseHookFailsInv == Inv /\ ReleaseHookFails => Inv'
  BY NotReleased DEF ReleaseHookFails

LEMMA ReleasedHookFailsInv == Inv /\ ReleasedHookFails => Inv'
  <1> SUFFICES ASSUME Inv, ReleasedHookFails PROVE Inv'
    OBVIOUS
  <1> DEFINE n == Len(chain)
             top == [Top EXCEPT !.is = "committed", !.work = {}]
  <1>1. frames # <<>> /\ Untouched(Innermost) /\ Top.is = "active"
    BY DEF ReleasedHookFails, Releasing, Inv, Exits
  <1>2. /\ chain \in Seq(Transaction) /\ n \in Nat /\ n > 1 /\ chain # <<>>
        /\ 1 \in 1 .. n /\ n \in 1 .. n /\ Innermost.root \in Handle
        /\ \A i \in 1 .. n : chain[i].id \in Nat /\ chain[i] \in Transaction
        /\ begun \in Nat
    BY <1>1, Deep, ChainElements, Numbers DEF Inv, TypeOK
  <1>3. /\ UNCHANGED <<latch, begun, committed, failed, escaped, granted>>
        /\ disturbed' = disturbed \cup {Innermost.root} /\ SetInnermost("rollback", FALSE)
    BY DEF ReleasedHookFails
  <1>4. /\ Merged \in Seq(Transaction) /\ Len(Merged) = n - 1
        /\ \A i \in 1 .. n - 1 :
              /\ i \in 1 .. n
              /\ Merged[i].id = chain[i].id /\ Merged[i].is = chain[i].is
              /\ \A h \in Merged[i].work :
                    h \in chain[i].work \/ (i = n - 1 /\ h \in chain[n].work)
    BY <1>2, MergedElements
  <1>5. /\ top \in Transaction /\ top.id = chain[n].id /\ top.work = {} /\ top.is = "committed"
    BY <1>2 DEF Top, Transaction
  <1> HIDE DEF top
  <1>6. /\ chain' \in Seq(Transaction) /\ Len(chain') \in {n - 1, n}
        /\ \A i \in 1 .. Len(chain') : i \in 1 .. n /\ chain'[i].id = chain[i].id
        /\ \A i \in 1 .. Len(chain') : \A h \in chain'[i].work :
              h \in chain[i].work \/ h \in chain[n].work
        /\ Stack' /\ WorkAbove'
    <2>1. CASE chain' = Merged
      BY <1>2, <1>3, <2>1, Merge
    <2>2. CASE chain' = Append(Merged, top)
      <3>1. /\ chain' \in Seq(Transaction) /\ Len(chain') = n
            /\ \A i \in 1 .. n - 1 : chain'[i] = Merged[i]
            /\ chain'[n] = top
        BY <1>2, <1>4, <1>5, <2>2
      <3>2. \A i \in 1 .. n : i \in 1 .. n - 1 \/ i = n
        BY <1>2
      <3>3. \A i \in 1 .. n : chain'[i].id = chain[i].id
        BY <1>4, <1>5, <3>1, <3>2
      <3>4. \A i \in 1 .. n : \A h \in chain'[i].work : h \in chain[i].work \/ h \in chain[n].work
        BY <1>4, <1>5, <3>1, <3>2
      <3>5. Stack'
        <4>1. ASSUME NEW i \in 1 .. n
              PROVE  chain'[i].id <= begun /\ \A h \in chain'[i].work : h <= begun
          BY <1>2, <3>3, <3>4 DEF Inv, Stack
        <4>2. \A i, j \in 1 .. n : i < j => chain'[i].id < chain'[j].id
          BY <3>3 DEF Inv, Stack
        <4> QED  BY <1>3, <3>1, <4>1, <4>2 DEF Stack
      <3>6. WorkAbove'
        <4> SUFFICES ASSUME NEW i \in 1 .. n, NEW j \in 1 .. n,
                            chain'[i].is # "committed", chain'[i].id \in chain'[j].work
                     PROVE  i <= j
          BY <3>1 DEF WorkAbove
        <4>1. i \in 1 .. n - 1 /\ j \in 1 .. n - 1
          BY <1>5, <3>1, <3>2
        <4>2. chain[i].is # "committed" /\ (chain[i].id \in chain[j].work \/ j = n - 1)
          BY <1>4, <3>1, <4>1
        <4> QED  BY <1>2, <4>1, <4>2 DEF Inv, WorkAbove
      <3> QED  BY <3>1, <3>3, <3>4, <3>5, <3>6
    <2> QED  BY <2>1, <2>2 DEF ReleasedHookFails, top
  <1>7. Len(chain') \in 0 .. n /\ Len(chain') > 0 /\ 1 \in 1 .. Len(chain')
    BY <1>2, <1>6
  <1>8. Root' = Root
    BY <1>2, <1>6, <1>7, SameRoot
  <1>9. frames' # <<>> /\ Innermost'.root = Innermost.root /\ Innermost'.phase = "rollback"
    BY <1>1, <1>3, InnermostMoved
  <1>10. Exits'
    BY <1>3, <1>9 DEF Exits
  <1>11. Unused' /\ OnePermission'
    BY <1>1, <1>3, PermissionsKept
  <1>12. granted' \in [Handle -> Nat] /\ disturbed' \subseteq Handle /\ disturbed \subseteq disturbed'
    BY <1>2, <1>3 DEF Inv, TypeOK
  <1>13. \A i \in 1 .. Len(chain') : \A h \in chain'[i].work :
             \E j \in 1 .. n : h \in chain[j].work
    BY <1>2, <1>6
  <1> QED  BY <1>1, <1>3, <1>6, <1>7, <1>8, <1>10, <1>11, <1>12, <1>13, Stays

\* An untouched savepoint, rolled back, leaves the chain as the helper found it, and
\* nothing of its body below it.
LEMMA RecoverInv == Inv /\ Recover => Inv'
  <1> SUFFICES ASSUME Inv, Recover PROVE Inv'
    OBVIOUS
  <1> DEFINE n == Len(chain)
             k == Len(frames)
  <1>1. frames # <<>> /\ Untouched(Innermost) /\ Top.is # "committed"
    BY DEF Recover, RollingBack
  <1>2. /\ chain \in Seq(Transaction) /\ n \in Nat /\ n > 1 /\ chain # <<>>
        /\ 1 \in 1 .. n /\ n \in 1 .. n
        /\ chain[n].id = Innermost.savepoint /\ chain[n].is # "committed"
        /\ Root = Innermost.root /\ Root = chain[1].id /\ chain[1].is = "active"
        /\ Innermost = frames[k] /\ k \in 1 .. k
    BY <1>1, Deep DEF Top
  <1>3. /\ UNCHANGED <<begun, committed, escaped, disturbed, granted>>
        /\ Leave /\ failed' = failed \cup {Innermost.savepoint} /\ chain' = Below
    BY DEF Recover, RaiseOn
  <1>4. /\ chain' \in Seq(Transaction) /\ Len(chain') = n - 1
        /\ \A i \in 1 .. Len(chain') : i \in 1 .. n /\ chain'[i] = chain[i]
        /\ Stack' /\ WorkAbove'
    BY <1>2, <1>3, Pop
  <1>5. Len(chain') \in 0 .. n /\ Len(chain') > 0 /\ 1 \in 1 .. Len(chain') /\ chain' # <<>>
    BY <1>2, <1>4, ChainElements
  <1>6. Root' = Root
    BY <1>2, <1>4, <1>5, SameRoot
  <1>7. Innermost.enclosing = IF n > 2 THEN chain[n - 1].id ELSE 0
    BY <1>2 DEF Inv, Enclosed
  <1>8. Recovered(chain')
    <2>1. n > 2 => Len(chain') \in 1 .. Len(chain')
      BY <1>2, <1>4
    <2>2. Nested(chain') = Innermost.enclosing
      BY <1>2, <1>4, <1>7, <2>1 DEF Nested
    <2> QED  BY <1>2, <1>4, <1>5, <2>2 DEF Recovered, RootIsActive
  <1>9. latch' = latch
    BY <1>3, <1>8 DEF Recover
  <1>10. Doomed'
    <2> SUFFICES ASSUME NEW h \in failed' \ escaped, NEW i \in 1 .. Len(chain'), h \in chain'[i].work
                 PROVE  latch = Root
      BY <1>3, <1>6, <1>9 DEF Doomed
    <2>1. i \in 1 .. n /\ i < n /\ h \in chain[i].work
      BY <1>2, <1>4
    <2>2. h # Innermost.savepoint
      BY <1>2, <2>1 DEF Inv, WorkAbove
    <2> QED  BY <1>3, <2>1, <2>2 DEF Inv, Doomed
  <1>11. LatchIsEarned' /\ disturbed' \subseteq Handle
    BY <1>3, <1>9 DEF Inv, TypeOK, LatchIsEarned
  <1>12. \A i \in 1 .. Len(chain') : chain'[i].id = chain[i].id
    BY <1>4
  <1> QED  BY <1>1, <1>3, <1>4, <1>5, <1>6, <1>9, <1>10, <1>11, <1>12, Leaves

LEMMA RecoverFailsInv == Inv /\ RecoverFails => Inv'
  <1> SUFFICES ASSUME Inv, RecoverFails PROVE Inv'
    OBVIOUS
  <1> DEFINE n == Len(chain)
  <1>1. frames # <<>> /\ Untouched(Innermost)
    BY DEF RecoverFails, RollingBack
  <1>2. /\ chain \in Seq(Transaction) /\ n \in Nat /\ n > 1 /\ chain # <<>>
        /\ Root = Innermost.root /\ Innermost.root \in Handle
    BY <1>1, Deep
  <1>3. /\ UNCHANGED <<begun, committed, escaped, granted>>
        /\ Leave /\ failed' = failed \cup {Innermost.savepoint}
        /\ disturbed' = disturbed \cup {Innermost.root} /\ latch' = Root
    BY <1>2 DEF RecoverFails, RaiseOn, LatchFor
  <1>4. /\ chain' \in Seq(Transaction) /\ Len(chain') \in {n - 1, n}
        /\ \A i \in 1 .. Len(chain') : chain'[i].id = chain[i].id
        /\ Stack' /\ WorkAbove'
    <2>1. CASE chain' = Below
      BY <1>2, <1>3, <2>1, Pop
    <2>2. CASE chain' = Merged
      BY <1>2, <1>3, <2>2, Merge
    <2>3. CASE chain' = chain
      BY <1>2, <1>3, <2>3 DEF Inv, Stack, WorkAbove
    <2> QED  BY <2>1, <2>2, <2>3 DEF RecoverFails
  <1>5. Len(chain') \in 0 .. n /\ Len(chain') > 0 /\ 1 \in 1 .. Len(chain')
    BY <1>2, <1>4
  <1>6. Root' = Root
    BY <1>2, <1>4, <1>5, SameRoot
  <1>7. Doomed' /\ LatchIsEarned'
    BY <1>2, <1>3, <1>6 DEF Doomed, LatchIsEarned
  <1>8. disturbed' \subseteq Handle /\ disturbed \subseteq disturbed'
    BY <1>2, <1>3 DEF Inv, TypeOK
  <1> QED  BY <1>1, <1>3, <1>4, <1>5, <1>6, <1>7, <1>8, Leaves

LEMMA NothingToRecoverInv == Inv /\ NothingToRecover => Inv'
  <1> SUFFICES ASSUME Inv, NothingToRecover PROVE Inv'
    OBVIOUS
  <1>1. /\ frames # <<>> /\ Innermost.phase = "rollback" /\ ~ Untouched(Innermost)
        /\ UNCHANGED <<chain, begun, committed, escaped, disturbed, granted>>
        /\ Leave /\ failed' = failed \cup {Innermost.savepoint}
        /\ latch' = LatchFor(Innermost.root)
    BY DEF NothingToRecover, RollingBack, RaiseOn
  <1>2. Innermost.root \in disturbed
    BY <1>1 DEF Inv, Exits
  <1>3. /\ Innermost = frames[Len(frames)] /\ Len(frames) \in 1 .. Len(frames)
    BY <1>1, FrameElements DEF Inv, TypeOK, Innermost
  <1>4. /\ Root' = Root /\ chain' \in Seq(Transaction) /\ Len(chain') \in 0 .. Len(chain)
        /\ Stack' /\ WorkAbove' /\ disturbed' \subseteq Handle
    BY <1>1, ChainElements DEF Inv, TypeOK, Root, Stack, WorkAbove
  <1>5. latch' \in {latch, Root} /\ LatchIsEarned'
    BY <1>1, <1>2 DEF LatchFor, Inv, LatchIsEarned
  <1>6. Doomed'
    <2>1. CASE Root = Innermost.root
      BY <1>1, <1>4, <2>1 DEF Doomed, LatchFor
    <2>2. CASE Root # Innermost.root
      <3>1. Innermost.savepoint \in escaped /\ latch' = latch
        BY <1>1, <1>3, <2>2 DEF Inv, Escapes, LatchFor
      <3> QED  BY <1>1, <1>4, <3>1 DEF Inv, Doomed
    <2> QED  BY <2>1, <2>2
  <1> QED  BY <1>1, <1>4, <1>5, <1>6, Leaves

-----------------------------------------------------------------------------
(* Theorems *)

LEMMA InvInit == Init => Inv
  <1> SUFFICES ASSUME Init PROVE Inv
    OBVIOUS
  <1>1. Len(chain) = 0 /\ Len(frames) = 0 /\ chain \in Seq(Transaction) /\ frames \in Seq(Frame)
    BY DEF Init
  <1>2. TypeOK
    BY <1>1, Numbers DEF Init, TypeOK
  <1>3. Stack /\ WorkAbove /\ Helpers /\ Enclosed /\ Escapes /\ Exits /\ Doomed /\ OpenEscape
    BY <1>1 DEF Init, Stack, WorkAbove, Helpers, Enclosed, Escapes, Exits, Doomed, OpenEscape
  <1>4. NoHalfBody /\ LatchIsCurrent /\ LatchIsEarned /\ Unused /\ OnePermission
    BY <1>1 DEF Init, NoHalfBody, LatchIsCurrent, LatchIsEarned, Unused, OnePermission
  <1> QED  BY <1>2, <1>3, <1>4 DEF Inv

LEMMA InvStutter == Inv /\ UNCHANGED vars => Inv'
  BY DEF vars, history, Inv, TypeOK, Stack, WorkAbove, Helpers, Enclosed, Escapes, Exits,
         Doomed, OpenEscape, NoHalfBody, LatchIsCurrent, LatchIsEarned, Unused, OnePermission,
         Innermost, Untouched, Top, Root, RootIsActive, Nested

LEMMA InvNext == Inv /\ [Next]_vars => Inv'
  <1>1. Inv /\ Participant => Inv'
    BY BeginInv, BeginNestedInv, WriteInv, FlushFailsInv, CommitNestedInv, RollbackNestedInv,
       CommitRootInv, RollbackRootInv DEF Participant
  <1>2. Inv /\ Helper => Inv'
    BY EnterInv, ReturnInv, RaiseInv, ClaimInv, ReleaseInv, ReleaseRefusedInv,
       ReleaseHookFailsInv, ReleasedHookFailsInv, RecoverInv, RecoverFailsInv,
       NothingToRecoverInv DEF Helper
  <1> QED  BY <1>1, <1>2, InvStutter DEF Next

\* The invariant the theorems below follow from, for any number of handles: where
\* the savepoints and their work are in the session's chain while helpers exit.
THEOREM SessionInvariant == Spec => []Inv
  BY InvInit, InvNext, PTL DEF Spec

\* Type correctness of the session, the helper's stack of frames and the latch.
THEOREM SavepointTypes == Spec => []TypeOK
  <1>1. Inv => TypeOK
    BY DEF Inv
  <1> QED  BY <1>1, SessionInvariant, PTL

\* Nothing a body did is durable once its conflict_savepoint raised, unless the root
\* itself was completed inside the body.
THEOREM HalfBodiesAreNotCommitted == Spec => []NoHalfBody
  <1>1. Inv => NoHalfBody
    BY DEF Inv
  <1> QED  BY <1>1, SessionInvariant, PTL

\* _require_owner_rollback latches a root only after a failed hook or a tampered
\* handle: an ordinary conflict, at any depth, never does.
THEOREM OrdinaryConflictsDoNotLatch == Spec => []LatchIsEarned
  <1>1. Inv => LatchIsEarned
    BY DEF Inv
  <1> QED  BY <1>1, SessionInvariant, PTL

\* The latch is cleared with the root it was set on: a new transaction starts clean.
THEOREM LatchEndsWithItsRoot == Spec => []LatchIsCurrent
  <1>1. Inv => LatchIsCurrent
    BY DEF Inv
  <1> QED  BY <1>1, SessionInvariant, PTL

\* claim_conflict_savepoint_commit grants one permission per savepoint at most.
THEOREM PermissionsAreSingleUse == Spec => []OnePermission
  <1>1. Inv => OnePermission
    BY DEF Inv
  <1> QED  BY <1>1, SessionInvariant, PTL

=============================================================================
