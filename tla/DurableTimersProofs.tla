------------------------ MODULE DurableTimersProofs ------------------------
(***************************************************************************)
(* Theorems about DurableTimers, for any transactions, calls and bounds.   *)
(* The inductive invariant has four parts: what the rows and their locks   *)
(* say in every transaction's view, that ids suffice, what each stage of a *)
(* call knows, and what the evidence of committed and open transactions is.*)
(***************************************************************************)
EXTENDS DurableTimers, FiniteSetTheorems, WellFoundedInduction, TLAPS

\* A row that a statement can find.
Alive(s) == s \notin {"absent", "deleted"}
ViewOf(t) == [i \in Ids |-> View(t, i)]

\* Of the rows alive in f, every generation is one row's, and a scheduled row is
\* the newest.
InOrder(f) ==
    \A j, k \in Ids : j # k /\ Alive(f[j]) /\ Alive(f[k]) =>
        gen[j] # gen[k] /\ (f[j] = "scheduled" => gen[k] < gen[j])
Ordered == InOrder(status) /\ \A t \in Txns : InOrder(ViewOf(t))

\* Who writes a row holds its lock, inserts under the advisory lock, and changes
\* a settled row only by deleting it.
Owned ==
    \A t \in Txns, i \in Ids : Wrote(t, i) =>
        /\ lock[i] = t
        /\ status[i] # "deleted"
        /\ status[i] = "absent" => advisory = t
        /\ status[i] \in Terminal => own[t].status[i] = "deleted"
        /\ own[t].status[i] = "scheduled" => status[i] = "absent"

\* Rows are inserted in the order of their ids, and no generation exceeds its id.
Numbered ==
    /\ \A i \in Ids : gen[i] <= i
    /\ \A j, k \in Ids : j < k /\ status[k] # "absent" => status[j] # "absent"
    /\ \A t \in Txns, j, k \in Ids : j < k /\ Wrote(t, k) => status[j] # "absent" \/ Wrote(t, j)

\* A transaction with a row that only it can see holds the newest committed row.
Inserting(t) == \E i \in Ids : Wrote(t, i) /\ status[i] = "absent"
InsertersLock ==
    \A t \in Txns, h \in Ids :
        Inserting(t) /\ Alive(status[h]) /\ (\A k \in Ids : Alive(status[k]) => gen[k] <= gen[h])
        => lock[h] = t

\* There is an id left for every schedule_timer under way.
Budget == IsFiniteSet(Schedulers) /\ Cardinality(Schedulers) <= Cardinality(Fresh)

RowsInv == Owned /\ Ordered /\ Numbered /\ InsertersLock

Calling(t) ==
    /\ pc[t] \in {"advisory", "insert"} => op[t] = "schedule"
    /\ pc[t] = "reject" => op[t] = "accept"
    /\ pc[t] \in {"snapshot", "lock", "check", "read", "act"} =>
          op[t] \in {"schedule", "cancel", "accept"}
    /\ op[t] = "schedule" /\ pc[t] # "advisory" => advisory = t
    /\ op[t] \in {"cancel", "accept"} => arg[t] \in Ids /\ status[arg[t]] # "absent"

Locking(t) ==
    /\ pc[t] = "lock" => \A i \in snap[t] : View(t, i) # "absent"
    /\ pc[t] = "lock" /\ op[t] = "schedule" => Visible(t) \subseteq snap[t]
    /\ pc[t] = "purge" =>
          held[t] \in snap[t] /\ \A i \in snap[t] : View(t, i) \in Terminal \cup {"deleted"}
    /\ pc[t] \in {"check", "read", "act", "insert"} /\ held[t] # NoRow =>
          lock[held[t]] = t /\ Alive(View(t, held[t]))
    /\ pc[t] = "check" => held[t] # NoRow
    /\ pc[t] = "read" /\ held[t] # NoRow => \A j \in Visible(t) : gen[j] <= gen[held[t]]
    /\ pc[t] = "read" /\ held[t] = NoRow /\ op[t] = "schedule" => Visible(t) = {}

Dead(t, i) == View(t, i) \in {"canceled", "deleted"} /\ fires[i] = 0 /\ i \notin own[t].fires

Reading(t) ==
    /\ pc[t] = "act" =>
          /\ held[t] # NoRow => read[t] = held[t] /\ View(t, read[t]) = seen[t]
          /\ IF read[t] = NoRow THEN seen[t] = "absent" ELSE View(t, read[t]) # "absent"
          /\ seen[t] = "canceled" => Dead(t, read[t])
          /\ op[t] = "cancel" /\ read[t] # NoRow /\ arg[t] # read[t] /\ View(t, arg[t]) # "deleted"
             => gen[arg[t]] # gen[read[t]]
    /\ pc[t] \in {"act", "insert"} /\ op[t] = "schedule" =>
          /\ read[t] = held[t]
          /\ read[t] = NoRow => Visible(t) = {}
          /\ \A j \in Visible(t) : gen[j] <= GenerationOf(read[t])
    /\ pc[t] = "insert" => \A j \in Visible(t) : View(t, j) # "scheduled"

\* What an open transaction has written about triggers and answers.
Claims(t) ==
    /\ own[t].accepted = own[t].fires
    /\ \A i \in own[t].fires :
          own[t].status[i] \in {"fired", "deleted"} /\ status[i] \in {"absent", "scheduled"}
    /\ \A i \in Ids : own[t].status[i] = "fired" => i \in own[t].fires
    /\ \A r \in own[t].reports :
          Dead(t, r[2]) /\ (r[1] = r[2] \/ View(t, r[1]) = "deleted")

Mine(t) == Calling(t) /\ Locking(t) /\ Reading(t) /\ Claims(t)
SessionsInv == \A t \in Txns : Mine(t)

\* The committed answers.
Answers ==
    \A r \in reports :
        /\ status[r[2]] \in {"canceled", "deleted"} /\ fires[r[2]] = 0
        /\ r[1] = r[2] \/ status[r[1]] = "deleted"

Inv == TypeOK /\ RowsInv /\ Budget /\ SessionsInv /\ Answers /\ FiresMatchStatus

-----------------------------------------------------------------------------
(* Numbers and the newest row *)

LEMMA Numbers ==
    /\ MaxTimers \in Nat /\ MaxCalls \in Nat /\ NoTxn \notin Txns
    /\ Ids = 1 .. MaxTimers /\ NoRow = 0 /\ NoRow \notin Ids
    /\ \A i \in Ids : i \in Nat /\ i # 0 /\ i <= MaxTimers
  BY ConstantsAssumption DEF Ids, NoRow

LEMMA Least ==
    ASSUME NEW S \in SUBSET Nat, S # {}
    PROVE  \E x \in S : \A y \in S : x <= y
  <1> DEFINE R == {ss \in Nat \X Nat : ss[1] < ss[2]}
  <1>1. IsWellFoundedOn(R, Nat)
    BY NatLessThanWellFounded DEF OpToRel
  <1> HIDE DEF R
  <1>2. PICK x \in S : \A y \in S : ~ (<<y, x>> \in R)
    BY <1>1, WFMin
  <1>3. \A y \in S : ~ (y < x)
    BY <1>2 DEF R
  <1> QED BY <1>3

\* Newest finds a row of the highest generation.
LEMMA NewestIs ==
    ASSUME TypeOK, NEW S \in SUBSET Ids, S # {}
    PROVE  Newest(S) \in S /\ \A j \in S : gen[j] <= gen[Newest(S)]
  <1> DEFINE D == {MaxTimers - gen[i] : i \in S}
  <1>1. \A i \in S : gen[i] \in 0 .. MaxTimers /\ MaxTimers - gen[i] \in Nat
    BY Numbers DEF TypeOK
  <1>2. PICK x \in D : \A y \in D : x <= y
    <2>1. D \in SUBSET Nat /\ D # {}
      BY <1>1
    <2> QED BY <2>1, Least
  <1>3. PICK i \in S : x = MaxTimers - gen[i]
    BY <1>2
  <1>4. \A j \in S : gen[j] <= gen[i]
    <2> SUFFICES ASSUME NEW j \in S PROVE gen[j] <= gen[i]
      OBVIOUS
    <2>1. x <= MaxTimers - gen[j]
      BY <1>2
    <2> QED BY <1>1, <1>3, <2>1, Numbers
  <1> QED BY <1>3, <1>4 DEF Newest

\* In an order, the newest row of a view is one.
LEMMA NewestOne ==
    ASSUME TypeOK, NEW t \in Txns, InOrder(ViewOf(t)), NEW h \in Visible(t),
           \A j \in Visible(t) : gen[j] <= gen[h]
    PROVE  Newest(Visible(t)) = h
  <1>1. Visible(t) \in SUBSET Ids
    BY DEF Visible
  <1>2. Newest(Visible(t)) \in Visible(t) /\ gen[h] <= gen[Newest(Visible(t))]
    BY <1>1, NewestIs
  <1>3. \A i \in Visible(t) : i \in Ids /\ Alive(ViewOf(t)[i])
    BY DEF Visible, ViewOf, Alive
  <1>4. \A i \in Ids : gen[i] \in Nat
    BY Numbers DEF TypeOK
  <1>5. gen[h] = gen[Newest(Visible(t))]
    BY <1>2, <1>3, <1>4
  <1> QED BY <1>2, <1>3, <1>5 DEF InOrder

-----------------------------------------------------------------------------
(* Steps as the rows see them.  Holds: a lock is taken and nothing written. *)
(* Marks: t changes a row it sees.                                         *)

Holds(t) ==
    /\ UNCHANGED <<status, gen>>
    /\ \A u \in Txns, i \in Ids : own'[u].status[i] = own[u].status[i]
    /\ \A i \in Ids : lock'[i] = lock[i] \/ (lock[i] = NoTxn /\ lock'[i] = t)
    /\ advisory' = advisory \/ (advisory = NoTxn /\ advisory' = t)

Marks(t, i, s) ==
    /\ UNCHANGED <<status, gen, advisory>>
    /\ lock[i] \in {NoTxn, t} /\ lock'[i] = t
    /\ \A j \in Ids \ {i} : lock'[j] = lock[j]
    /\ \A u \in Txns, j \in Ids :
          own'[u].status[j] = IF u = t /\ j = i THEN s ELSE own[u].status[j]
    /\ \/ View(t, i) = "scheduled" /\ s \in Terminal
       \/ View(t, i) \in Terminal /\ s = "deleted"

LEMMA HoldsRows ==
    ASSUME TypeOK, RowsInv, NEW t \in Txns, Holds(t)
    PROVE  RowsInv'
  <1>1. \A u \in Txns, i \in Ids : (Wrote(u, i)' <=> Wrote(u, i)) /\ View(u, i)' = View(u, i)
    BY DEF Holds, Wrote, View
  <1>2. \A u \in Txns, i \in Ids : lock[i] = u => lock'[i] = u
    BY Numbers DEF Holds
  <1>3. \A u \in Txns : advisory = u => advisory' = u
    BY Numbers DEF Holds
  <1>4. Owned'
    BY <1>1, <1>2, <1>3 DEF RowsInv, Owned, Holds
  <1>5. Ordered'
    BY <1>1 DEF RowsInv, Ordered, InOrder, ViewOf, Holds
  <1>6. Numbered'
    BY <1>1 DEF RowsInv, Numbered, Holds
  <1>7. InsertersLock'
    BY <1>1, <1>2 DEF RowsInv, InsertersLock, Inserting, Holds
  <1> QED BY <1>4, <1>5, <1>6, <1>7 DEF RowsInv

LEMMA MarksRows ==
    ASSUME TypeOK, RowsInv, NEW t \in Txns, NEW i \in Ids, NEW s \in Status, Marks(t, i, s)
    PROVE  RowsInv'
  <1>1. s \notin {"absent", "scheduled"}
    BY DEF Marks, Terminal
  <1>2. \A u \in Txns, j \in Ids : ~ (u = t /\ j = i) =>
            (Wrote(u, j)' <=> Wrote(u, j)) /\ View(u, j)' = View(u, j)
    BY DEF Marks, Wrote, View
  <1>3. Wrote(t, i)' /\ View(t, i)' = s
    BY <1>1 DEF Marks, Wrote, View
  <1>4. \A u \in Txns, j \in Ids : lock[j] = u => lock'[j] = u
    BY Numbers DEF Marks
  <1>5. Alive(View(t, i)) /\ (Wrote(t, i) => own[t].status[i] = View(t, i))
    BY DEF Marks, Alive, Terminal, View
  <1>6. Owned'
    <2> SUFFICES ASSUME NEW u \in Txns, NEW j \in Ids, Wrote(u, j)'
                 PROVE  /\ lock'[j] = u
                        /\ status[j] # "deleted"
                        /\ status[j] = "absent" => advisory' = u
                        /\ status[j] \in Terminal => own'[u].status[j] = "deleted"
                        /\ own'[u].status[j] = "scheduled" => status[j] = "absent"
      BY DEF Owned, Marks
    <2>1. CASE ~ (u = t /\ j = i)
      BY <1>2, <1>4, <2>1 DEF RowsInv, Owned, Marks
    <2>2. CASE u = t /\ j = i /\ Wrote(t, i)
      BY <1>1, <1>4, <1>5, <2>2 DEF RowsInv, Owned, Marks, Terminal
    <2>3. CASE u = t /\ j = i /\ ~ Wrote(t, i)
      <3>1. View(t, i) = status[i]
        BY <2>3 DEF View
      <3> QED BY <1>1, <1>5, <2>3, <3>1 DEF Marks, Terminal, Alive
    <2> QED BY <2>1, <2>2, <2>3
  <1>7. Ordered'
    <2>1. ASSUME NEW u \in Txns PROVE InOrder(ViewOf(u))'
      <3>1. \A j \in Ids : /\ Alive(View(u, j)') => Alive(View(u, j))
                           /\ View(u, j)' = "scheduled" => View(u, j) = "scheduled"
        BY <1>1, <1>2, <1>3, <1>5
      <3> QED BY <3>1 DEF RowsInv, Ordered, InOrder, ViewOf, Marks, Alive
    <2>2. InOrder(status)'
      BY DEF RowsInv, Ordered, InOrder, Marks
    <2> QED BY <2>1, <2>2 DEF Ordered
  <1>8. status[i] = "absent" => Wrote(t, i)
    BY <1>5 DEF View, Alive
  <1>9. Numbered'
    <2>1. \A j, k \in Ids : j < k /\ Wrote(t, k)' => status[j] # "absent" \/ Wrote(t, j)'
      BY <1>2, <1>3, <1>8 DEF RowsInv, Numbered
    <2>2. \A u \in Txns, j, k \in Ids : j < k /\ Wrote(u, k)' => status[j] # "absent" \/ Wrote(u, j)'
      BY <1>2, <2>1 DEF RowsInv, Numbered
    <2> QED BY <2>2 DEF RowsInv, Numbered, Marks
  <1>10. InsertersLock'
    <2>1. \A u \in Txns : Inserting(u)' => Inserting(u)
      BY <1>2, <1>8 DEF Inserting, Marks
    <2> QED BY <1>4, <2>1 DEF RowsInv, InsertersLock, Marks
  <1> QED BY <1>6, <1>7, <1>9, <1>10 DEF RowsInv

\* The locks and the writes of t go; the others' stay.
Leaves(t) ==
    /\ \A i \in Ids : own'[t].status[i] = "absent"
    /\ \A u \in Txns \ {t} : own'[u] = own[u]
    /\ \A i \in Ids : lock'[i] = IF lock[i] = t THEN NoTxn ELSE lock[i]
    /\ advisory' = IF advisory = t THEN NoTxn ELSE advisory

\* As the rows see a commit and a rollback.
Publishes(t) ==
    /\ \A i \in Ids : status'[i] = View(t, i)
    /\ UNCHANGED gen
    /\ Leaves(t)
Undoes(t) ==
    /\ UNCHANGED status
    /\ \A i \in Ids : gen'[i] = IF status[i] = "absent" /\ Wrote(t, i) THEN 0 ELSE gen[i]
    /\ Leaves(t)

\* What the end of t leaves of the others' writes and locks.
LEMMA LeavesOthers ==
    ASSUME TypeOK, RowsInv, NEW t \in Txns, Leaves(t)
    PROVE  /\ \A i \in Ids : ~ Wrote(t, i)'
           /\ \A u \in Txns \ {t}, i \in Ids :
                 /\ Wrote(u, i)' <=> Wrote(u, i)
                 /\ own'[u].status[i] = own[u].status[i]
                 /\ Wrote(u, i) => ~ Wrote(t, i)
                 /\ lock[i] = u => lock'[i] = u
           /\ \A u \in Txns \ {t} : advisory = u => advisory' = u
  <1>1. \A u \in Txns \ {t}, i \in Ids :
            (Wrote(u, i)' <=> Wrote(u, i)) /\ own'[u].status[i] = own[u].status[i]
    BY DEF Leaves, Wrote
  <1>2. \A u \in Txns \ {t}, i \in Ids : Wrote(u, i) => ~ Wrote(t, i)
    BY DEF RowsInv, Owned
  <1>3. \A u \in Txns \ {t}, i \in Ids : lock[i] = u => lock'[i] = u
    BY DEF Leaves
  <1> QED BY <1>1, <1>2, <1>3 DEF Leaves, Wrote

LEMMA PublishesRows ==
    ASSUME TypeOK, RowsInv, NEW t \in Txns, Publishes(t)
    PROVE  RowsInv'
  <1>1. /\ \A i \in Ids : ~ Wrote(t, i)'
        /\ \A u \in Txns \ {t}, i \in Ids :
              /\ Wrote(u, i)' <=> Wrote(u, i)
              /\ own'[u].status[i] = own[u].status[i]
              /\ Wrote(u, i) => ~ Wrote(t, i)
              /\ lock[i] = u => lock'[i] = u
        /\ \A u \in Txns \ {t} : advisory = u => advisory' = u
    BY LeavesOthers DEF Publishes
  <1>2. \A i \in Ids : ~ Wrote(t, i) => status'[i] = status[i]
    BY DEF Publishes, View
  <1>3. \A i \in Ids : Wrote(t, i) => status'[i] = own[t].status[i] /\ status'[i] # "absent"
    BY DEF Publishes, View, Wrote
  <1>4. \A i \in Ids : status[i] # "absent" => status'[i] # "absent"
    BY <1>2, <1>3
  <1>5. Owned'
    <2> SUFFICES ASSUME NEW u \in Txns, NEW j \in Ids, Wrote(u, j)'
                 PROVE  /\ lock'[j] = u
                        /\ status'[j] # "deleted"
                        /\ status'[j] = "absent" => advisory' = u
                        /\ status'[j] \in Terminal => own'[u].status[j] = "deleted"
                        /\ own'[u].status[j] = "scheduled" => status'[j] = "absent"
      BY DEF Owned
    <2>1. u # t /\ Wrote(u, j) /\ status'[j] = status[j]
      BY <1>1, <1>2
    <2> QED BY <1>1, <2>1 DEF RowsInv, Owned
  <1>6. InOrder(status)'
    BY DEF RowsInv, Ordered, InOrder, ViewOf, Publishes
  <1>7. ASSUME NEW u \in Txns PROVE InOrder(ViewOf(u))'
    <2>1. CASE u = t
      <3>1. \A i \in Ids : View(u, i)' = status'[i]
        BY <1>1, <2>1 DEF View
      <3> QED BY <1>6, <3>1 DEF InOrder, ViewOf
    <2>2. CASE u # t /\ ~ Inserting(t)
      <3>1. ASSUME NEW k \in Ids
            PROVE  /\ Alive(View(u, k)') => Alive(View(u, k))
                   /\ View(u, k)' = "scheduled" => View(u, k) = "scheduled"
        <4>1. CASE Wrote(u, k)
          BY <1>1, <2>2, <4>1 DEF View
        <4>2. CASE ~ Wrote(u, k) /\ ~ Wrote(t, k)
          BY <1>1, <1>2, <2>2, <4>2 DEF View
        <4>3. CASE ~ Wrote(u, k) /\ Wrote(t, k)
          <5>1. status[k] \notin {"absent", "deleted"} /\ own[t].status[k] # "scheduled"
            BY <2>2, <4>3 DEF Inserting, RowsInv, Owned
          <5>2. View(u, k) = status[k] /\ View(u, k)' = own[t].status[k]
            BY <1>1, <1>3, <2>2, <4>3 DEF View
          <5> QED BY <5>1, <5>2 DEF Alive
        <4> QED BY <4>1, <4>2, <4>3
      <3> QED BY <3>1 DEF RowsInv, Ordered, InOrder, ViewOf, Publishes, Alive
    <2>3. CASE u # t /\ Inserting(t)
      <3>1. advisory = t
        BY <2>3 DEF Inserting, RowsInv, Owned
      <3>2. ASSUME NEW k \in Ids
            PROVE  /\ Alive(View(u, k)') => Alive(View(t, k))
                   /\ View(u, k)' = "scheduled" => View(t, k) = "scheduled"
        <4>1. CASE Wrote(u, k)
          <5>1. status[k] \notin {"absent", "deleted"} /\ own[u].status[k] # "scheduled"
            BY <2>3, <3>1, <4>1 DEF RowsInv, Owned
          <5>2. View(u, k)' = own[u].status[k] /\ View(t, k) = status[k]
            BY <1>1, <2>3, <4>1 DEF View
          <5> QED BY <5>1, <5>2 DEF Alive
        <4>2. CASE ~ Wrote(u, k)
          <5>1. View(u, k)' = status'[k]
            BY <1>1, <2>3, <4>2 DEF View
          <5> QED BY <5>1 DEF Publishes
        <4> QED BY <4>1, <4>2
      <3> QED BY <3>2 DEF RowsInv, Ordered, InOrder, ViewOf, Publishes, Alive
    <2> QED BY <2>1, <2>2, <2>3
  <1>8. Numbered'
    <2>1. \A j, k \in Ids : j < k /\ status'[k] # "absent" => status'[j] # "absent"
      BY <1>2, <1>3, <1>4 DEF RowsInv, Numbered
    <2>2. \A u \in Txns, j, k \in Ids : j < k /\ Wrote(u, k)' => status'[j] # "absent" \/ Wrote(u, j)'
      BY <1>1, <1>4 DEF RowsInv, Numbered
    <2> QED BY <2>1, <2>2 DEF RowsInv, Numbered, Publishes
  <1>9. InsertersLock'
    <2> SUFFICES ASSUME NEW u \in Txns, NEW h \in Ids, Inserting(u)', Alive(status'[h]),
                        \A k \in Ids : Alive(status'[k]) => gen[k] <= gen[h]
                 PROVE  lock'[h] = u
      BY DEF InsertersLock, Publishes
    <2>1. u # t /\ Inserting(u)
      BY <1>1, <1>4 DEF Inserting
    <2>2. ~ Inserting(t)
      BY <2>1 DEF Inserting, RowsInv, Owned
    <2>3. Alive(status[h])
      BY <1>2, <2>2 DEF Inserting, RowsInv, Owned, Alive
    <2> DEFINE L == {k \in Ids : Alive(status[k])}
    <2>4. PICK m \in L : \A k \in L : gen[k] <= gen[m]
      <3>1. L \in SUBSET Ids /\ L # {}
        BY <2>3
      <3> QED BY <3>1, NewestIs
    <2>5. lock[m] = u
      BY <2>1, <2>4 DEF RowsInv, InsertersLock
    <2>6. ~ Wrote(t, m)
      BY <2>1, <2>5 DEF RowsInv, Owned
    <2>7. gen[m] <= gen[h] /\ gen[h] <= gen[m]
      BY <1>2, <2>3, <2>4, <2>6
    <2>8. gen[m] \in Nat /\ gen[h] \in Nat
      BY <2>4, Numbers DEF TypeOK
    <2>9. m = h
      BY <2>3, <2>4, <2>7, <2>8 DEF RowsInv, Ordered, InOrder
    <2> QED BY <1>1, <2>1, <2>5, <2>9
  <1> QED BY <1>5, <1>6, <1>7, <1>8, <1>9 DEF RowsInv, Ordered

LEMMA UndoesRows ==
    ASSUME TypeOK, RowsInv, NEW t \in Txns, Undoes(t)
    PROVE  RowsInv'
  <1>1. /\ \A i \in Ids : ~ Wrote(t, i)'
        /\ \A u \in Txns \ {t}, i \in Ids :
              /\ Wrote(u, i)' <=> Wrote(u, i)
              /\ own'[u].status[i] = own[u].status[i]
              /\ Wrote(u, i) => ~ Wrote(t, i)
              /\ lock[i] = u => lock'[i] = u
        /\ \A u \in Txns \ {t} : advisory = u => advisory' = u
    BY LeavesOthers DEF Undoes
  <1>2. \A u \in Txns \ {t}, i \in Ids : View(u, i)' = View(u, i)
    BY <1>1 DEF Undoes, View
  <1>3. \A i \in Ids : View(t, i)' = status[i]
    BY <1>1 DEF Undoes, View
  <1>4. \A i \in Ids : status[i] # "absent" => gen'[i] = gen[i]
    BY DEF Undoes
  <1>5. \A u \in Txns \ {t}, i \in Ids : Alive(View(u, i)) => gen'[i] = gen[i]
    BY <1>1 DEF Undoes, View, Alive
  <1>6. Owned'
    <2> SUFFICES ASSUME NEW u \in Txns, NEW j \in Ids, Wrote(u, j)'
                 PROVE  /\ lock'[j] = u
                        /\ status[j] # "deleted"
                        /\ status[j] = "absent" => advisory' = u
                        /\ status[j] \in Terminal => own'[u].status[j] = "deleted"
                        /\ own'[u].status[j] = "scheduled" => status[j] = "absent"
      BY DEF Owned, Undoes
    <2>1. u # t /\ Wrote(u, j)
      BY <1>1
    <2> QED BY <1>1, <2>1 DEF RowsInv, Owned
  <1>7. InOrder(status)'
    BY <1>4 DEF RowsInv, Ordered, InOrder, Undoes, Alive
  <1>8. ASSUME NEW u \in Txns PROVE InOrder(ViewOf(u))'
    <2>1. CASE u = t
      BY <1>3, <1>4, <2>1 DEF RowsInv, Ordered, InOrder, ViewOf, Alive
    <2>2. CASE u # t
      BY <1>2, <1>5, <2>2 DEF RowsInv, Ordered, InOrder, ViewOf, Alive
    <2> QED BY <2>1, <2>2
  <1>9. Numbered'
    <2>1. \A i \in Ids : gen'[i] <= i
      BY Numbers DEF Undoes, RowsInv, Numbered
    <2>2. \A u \in Txns, j, k \in Ids : j < k /\ Wrote(u, k)' => status[j] # "absent" \/ Wrote(u, j)'
      BY <1>1 DEF RowsInv, Numbered
    <2> QED BY <2>1, <2>2 DEF RowsInv, Numbered, Undoes
  <1>10. InsertersLock'
    <2>1. \A u \in Txns : Inserting(u)' => u # t /\ Inserting(u)
      BY <1>1 DEF Inserting, Undoes
    <2>2. \A k \in Ids : Alive(status[k]) => gen'[k] = gen[k]
      BY <1>4 DEF Alive
    <2> QED BY <1>1, <2>1, <2>2 DEF RowsInv, InsertersLock, Undoes
  <1> QED BY <1>6, <1>7, <1>8, <1>9, <1>10 DEF RowsInv, Ordered

\* As the rows see the insert of row i with generation g.
Inserts(t, i, g) ==
    /\ UNCHANGED <<status, advisory>>
    /\ gen' = [gen EXCEPT ![i] = g]
    /\ lock' = [lock EXCEPT ![i] = t]
    /\ \A u \in Txns, j \in Ids :
          own'[u].status[j] = IF u = t /\ j = i THEN "scheduled" ELSE own[u].status[j]

LEMMA InsertsRows ==
    ASSUME TypeOK, RowsInv, NEW t \in Txns, NEW i \in Fresh, NEW g \in Nat, Inserts(t, i, g),
           \A j \in Fresh : i <= j, g <= i, advisory = t,
           \A j \in Visible(t) : gen[j] < g /\ View(t, j) # "scheduled",
           \A h \in Ids : Alive(status[h]) /\ (\A k \in Ids : Alive(status[k]) => gen[k] <= gen[h])
                          => lock[h] = t
    PROVE  RowsInv'
  <1>1. i \in Ids /\ status[i] = "absent" /\ \A u \in Txns : ~ Wrote(u, i)
    BY DEF Fresh
  <1>2. \A u \in Txns, j \in Ids : ~ (u = t /\ j = i) =>
            (Wrote(u, j)' <=> Wrote(u, j)) /\ View(u, j)' = View(u, j)
    BY DEF Inserts, Wrote, View
  <1>3. Wrote(t, i)' /\ View(t, i)' = "scheduled" /\ own'[t].status[i] = "scheduled"
    BY <1>1 DEF Inserts, Wrote, View
  <1>4. /\ \A j \in Ids \ {i} : gen'[j] = gen[j] /\ lock'[j] = lock[j]
        /\ gen'[i] = g /\ lock'[i] = t
    BY <1>1 DEF Inserts, TypeOK
  <1>5. Owned'
    <2> SUFFICES ASSUME NEW u \in Txns, NEW j \in Ids, Wrote(u, j)'
                 PROVE  /\ lock'[j] = u
                        /\ status[j] # "deleted"
                        /\ status[j] = "absent" => advisory = u
                        /\ status[j] \in Terminal => own'[u].status[j] = "deleted"
                        /\ own'[u].status[j] = "scheduled" => status[j] = "absent"
      BY DEF Owned, Inserts
    <2>1. CASE u = t /\ j = i
      BY <1>1, <1>4, <2>1 DEF Terminal
    <2>2. CASE ~ (u = t /\ j = i)
      <3>1. Wrote(u, j) /\ j # i
        BY <1>1, <1>2, <2>2
      <3> QED BY <1>4, <2>2, <3>1 DEF RowsInv, Owned, Inserts
    <2> QED BY <2>1, <2>2
  <1>6. InOrder(status)'
    <2>1. \A j \in Ids : Alive(status[j]) => gen'[j] = gen[j]
      BY <1>1, <1>4 DEF Alive
    <2> QED BY <2>1 DEF RowsInv, Ordered, InOrder, Inserts, Alive
  <1>7. ASSUME NEW u \in Txns PROVE InOrder(ViewOf(u))'
    <2>1. CASE u # t
      <3>1. \A j \in Ids : /\ View(u, j)' = View(u, j)
                           /\ Alive(View(u, j)) => gen'[j] = gen[j]
        BY <1>1, <1>2, <1>4, <2>1 DEF View, Alive
      <3> QED BY <3>1 DEF RowsInv, Ordered, InOrder, ViewOf, Alive
    <2>2. CASE u = t
      <3>1. \A j \in Ids \ {i} :
                /\ View(t, j)' = View(t, j) /\ gen'[j] = gen[j]
                /\ Alive(View(t, j)) => gen[j] < g /\ View(t, j) # "scheduled"
        BY <1>2, <1>4 DEF Visible, Alive
      <3>2. \A j \in Ids : gen[j] \in Nat
        BY Numbers DEF TypeOK
      <3> SUFFICES ASSUME NEW j \in Ids, NEW k \in Ids, j # k,
                          Alive(View(t, j)'), Alive(View(t, k)')
                   PROVE  gen'[j] # gen'[k] /\ (View(t, j)' = "scheduled" => gen'[k] < gen'[j])
        BY <2>2 DEF InOrder, ViewOf, Alive
      <3>3. CASE j = i
        BY <1>4, <3>1, <3>2, <3>3
      <3>4. CASE k = i
        BY <1>4, <3>1, <3>2, <3>4
      <3>5. CASE j # i /\ k # i
        <4>1. gen[j] # gen[k] /\ (View(t, j) = "scheduled" => gen[k] < gen[j])
          BY <3>1, <3>5 DEF RowsInv, Ordered, InOrder, ViewOf
        <4> QED BY <3>1, <3>5, <4>1
      <3> QED BY <3>3, <3>4, <3>5
    <2> QED BY <2>1, <2>2
  <1>8. Numbered'
    <2>1. \A j \in Ids : gen'[j] <= j
      BY <1>4 DEF RowsInv, Numbered
    <2>2. ASSUME NEW u \in Txns, NEW j \in Ids, NEW k \in Ids, j < k, Wrote(u, k)'
          PROVE  status[j] # "absent" \/ Wrote(u, j)'
      <3>1. CASE u = t /\ k = i
        <4>1. j \notin Fresh
          BY <2>2, <3>1, Numbers
        <4>2. status[j] # "absent" \/ \E v \in Txns : Wrote(v, j)
          BY <4>1 DEF Fresh
        <4>3. status[j] # "absent" \/ Wrote(t, j)
          BY <4>2 DEF RowsInv, Owned
        <4> QED BY <1>2, <1>3, <3>1, <4>3
      <3>2. CASE ~ (u = t /\ k = i)
        BY <1>2, <1>3, <2>2, <3>2 DEF RowsInv, Numbered
      <3> QED BY <3>1, <3>2
    <2> QED BY <2>1, <2>2 DEF RowsInv, Numbered, Inserts
  <1>9. InsertersLock'
    <2> SUFFICES ASSUME NEW u \in Txns, NEW h \in Ids, Inserting(u)', Alive(status[h]),
                        \A k \in Ids : Alive(status[k]) => gen'[k] <= gen'[h]
                 PROVE  lock'[h] = u
      BY DEF InsertersLock, Inserts
    <2>1. u = t
      BY <1>2 DEF Inserting, Inserts, RowsInv, Owned
    <2>2. \A j \in Ids : Alive(status[j]) => gen'[j] = gen[j] /\ lock'[j] = lock[j]
      BY <1>1, <1>4 DEF Alive
    <2> QED BY <2>1, <2>2
  <1> QED BY <1>5, <1>6, <1>7, <1>8, <1>9 DEF RowsInv, Ordered

-----------------------------------------------------------------------------
(* What a transaction may rely on while others take steps *)

Stable(u) ==
    /\ \A i \in Ids : lock[i] = u /\ View(u, i) # "absent" =>
          lock'[i] = u /\ View(u, i)' = View(u, i) /\ status'[i] = status[i]
    /\ \A i \in Ids : View(u, i) # "absent" => View(u, i)' # "absent" /\ gen'[i] = gen[i]
    /\ \A i \in Ids : View(u, i) = "deleted" => View(u, i)' = "deleted"
    /\ \A i \in Ids : View(u, i) \in Terminal => View(u, i)' \in {View(u, i), "deleted"}
    /\ \A i \in Ids : status[i] # "absent" => status'[i] # "absent"
    /\ advisory = u =>
          /\ advisory' = u
          /\ \A i \in Ids : /\ Alive(View(u, i)') => Alive(View(u, i))
                            /\ View(u, i)' = "scheduled" => View(u, i) = "scheduled"
    /\ \A h \in Ids :
          /\ lock[h] = u /\ Alive(View(u, h))
          /\ \A j \in Visible(u) : gen[j] <= gen[h]
          => \A j \in Ids : Alive(View(u, j)') => gen'[j] <= gen'[h]

LEMMA HoldsStable ==
    ASSUME TypeOK, RowsInv, NEW t \in Txns, NEW u \in Txns, Holds(t)
    PROVE  Stable(u)
  <1>1. \A i \in Ids : View(u, i)' = View(u, i)
    BY DEF Holds, Wrote, View
  <1>2. \A i \in Ids : lock[i] = u => lock'[i] = u
    BY Numbers DEF Holds
  <1>3. advisory = u => advisory' = u
    BY Numbers DEF Holds
  <1> QED BY <1>1, <1>2, <1>3 DEF Stable, Holds, Visible, Alive

LEMMA MarksStable ==
    ASSUME TypeOK, RowsInv, NEW t \in Txns, NEW u \in Txns \ {t}, NEW i \in Ids, NEW s,
           Marks(t, i, s)
    PROVE  Stable(u)
  <1>1. \A j \in Ids : View(u, j)' = View(u, j)
    BY DEF Marks, Wrote, View
  <1>2. \A j \in Ids : lock[j] = u => lock'[j] = u
    BY Numbers DEF Marks
  <1> QED BY <1>1, <1>2 DEF Stable, Marks, Visible, Alive

LEMMA InsertsStable ==
    ASSUME TypeOK, RowsInv, NEW t \in Txns, NEW u \in Txns \ {t}, NEW i \in Fresh, NEW g,
           Inserts(t, i, g)
    PROVE  Stable(u)
  <1>1. \A j \in Ids : View(u, j)' = View(u, j)
    BY DEF Inserts, Wrote, View
  <1>2. i \in Ids /\ View(u, i) = "absent"
    BY DEF Fresh, View
  <1>3. \A j \in Ids \ {i} : lock'[j] = lock[j] /\ gen'[j] = gen[j]
    BY <1>2 DEF Inserts, TypeOK
  <1>4. UNCHANGED <<status, advisory>>
    BY DEF Inserts
  <1> QED BY <1>1, <1>2, <1>3, <1>4 DEF Stable, Visible, Alive

LEMMA UndoesStable ==
    ASSUME TypeOK, RowsInv, NEW t \in Txns, NEW u \in Txns \ {t}, Undoes(t)
    PROVE  Stable(u)
  <1>1. /\ \A i \in Ids : /\ Wrote(u, i)' <=> Wrote(u, i)
                          /\ own'[u].status[i] = own[u].status[i]
                          /\ Wrote(u, i) => ~ Wrote(t, i)
                          /\ lock[i] = u => lock'[i] = u
        /\ advisory = u => advisory' = u
    BY LeavesOthers DEF Undoes
  <1>2. \A j \in Ids : View(u, j)' = View(u, j)
    BY <1>1 DEF Undoes, View
  <1>3. \A j \in Ids : View(u, j) # "absent" => gen'[j] = gen[j]
    BY <1>1 DEF Undoes, View
  <1>4. UNCHANGED status
    BY DEF Undoes
  <1> QED BY <1>1, <1>2, <1>3, <1>4 DEF Stable, Visible, Alive

LEMMA PublishesStable ==
    ASSUME TypeOK, RowsInv, NEW t \in Txns, NEW u \in Txns \ {t}, Publishes(t)
    PROVE  Stable(u)
  <1>1. /\ \A i \in Ids : /\ Wrote(u, i)' <=> Wrote(u, i)
                          /\ own'[u].status[i] = own[u].status[i]
                          /\ Wrote(u, i) => ~ Wrote(t, i)
                          /\ lock[i] = u => lock'[i] = u
        /\ advisory = u => advisory' = u
    BY LeavesOthers DEF Publishes
  <1>2. \A i \in Ids : ~ Wrote(t, i) => status'[i] = status[i] /\ View(u, i)' = View(u, i)
    BY <1>1 DEF Publishes, View
  <1>3. \A i \in Ids : Wrote(t, i) =>
            /\ status'[i] = own[t].status[i] /\ status'[i] # "absent"
            /\ View(u, i)' = own[t].status[i] /\ View(u, i) = status[i]
            /\ lock[i] = t /\ status[i] # "deleted"
            /\ status[i] \in Terminal => own[t].status[i] = "deleted"
            /\ own[t].status[i] = "scheduled" => status[i] = "absent"
            /\ status[i] = "absent" => advisory = t
    BY <1>1 DEF Publishes, View, Wrote, RowsInv, Owned
  <1>4. UNCHANGED gen
    BY DEF Publishes
  <1>5. \A i \in Ids : lock[i] = u => ~ Wrote(t, i)
    BY <1>3
  <1>6. ~ Inserting(t) => \A i \in Ids : /\ Alive(View(u, i)') => Alive(View(u, i))
                                         /\ View(u, i)' = "scheduled" => View(u, i) = "scheduled"
    BY <1>2, <1>3 DEF Inserting, Alive
  <1>7. ASSUME NEW h \in Ids, lock[h] = u, Alive(View(u, h)),
               \A j \in Visible(u) : gen[j] <= gen[h], Inserting(t)
        PROVE  FALSE
    <2>1. advisory = t
      BY <1>7 DEF Inserting, RowsInv, Owned
    <2>2. Alive(status[h])
      BY <1>7, <2>1 DEF RowsInv, Owned, View, Alive
    <2> DEFINE L == {k \in Ids : Alive(status[k])}
    <2>3. PICK m \in L : \A k \in L : gen[k] <= gen[m]
      <3>1. L \in SUBSET Ids /\ L # {}
        BY <2>2
      <3> QED BY <3>1, NewestIs
    <2>4. lock[m] = t
      BY <1>7, <2>3 DEF RowsInv, InsertersLock
    <2>5. m \in Visible(u)
      BY <2>3, <2>4 DEF RowsInv, Owned, Visible, View, Alive
    <2>6. gen[m] <= gen[h] /\ gen[h] <= gen[m] /\ gen[m] \in Nat /\ gen[h] \in Nat
      BY <1>7, <2>2, <2>3, <2>5, Numbers DEF TypeOK
    <2>7. m = h
      BY <2>2, <2>3, <2>6 DEF RowsInv, Ordered, InOrder
    <2> QED BY <1>7, <2>4, <2>7
  <1>8. advisory = u => ~ Inserting(t)
    BY DEF Inserting, RowsInv, Owned
  <1>9. \A h \in Ids :
          /\ lock[h] = u /\ Alive(View(u, h))
          /\ \A j \in Visible(u) : gen[j] <= gen[h]
          => \A j \in Ids : Alive(View(u, j)') => gen'[j] <= gen'[h]
    BY <1>4, <1>6, <1>7 DEF Visible, Alive
  <1> QED BY <1>1, <1>2, <1>3, <1>4, <1>5, <1>6, <1>8, <1>9 DEF Stable

\* Nothing of u itself changes, and no dead trigger fires.
Asleep(u) ==
    /\ pc'[u] = pc[u] /\ op'[u] = op[u] /\ arg'[u] = arg[u] /\ snap'[u] = snap[u]
    /\ held'[u] = held[u] /\ read'[u] = read[u] /\ seen'[u] = seen[u] /\ own'[u] = own[u]
    /\ \A i \in Ids : View(u, i) \in {"canceled", "deleted"} /\ fires[i] = 0 => fires'[i] = 0

LEMMA DeadStays ==
    ASSUME TypeOK, NEW u \in Txns, Stable(u), Asleep(u), NEW i \in Ids, Dead(u, i)
    PROVE  Dead(u, i)'
  <1>1. View(u, i)' \in {"canceled", "deleted"}
    BY DEF Dead, Stable, Terminal
  <1> QED BY <1>1 DEF Dead, Asleep

LEMMA SessionFrame ==
    ASSUME TypeOK, RowsInv, NEW u \in Txns, Mine(u), Stable(u), Asleep(u)
    PROVE  Mine(u)'
  <1> USE DEF Mine
  <1>1. /\ pc[u] \in Stage /\ arg[u] \in Ids \cup {NoRow} /\ snap[u] \subseteq Ids
        /\ held[u] \in Ids \cup {NoRow} /\ read[u] \in Ids \cup {NoRow} /\ NoRow \notin Ids
    BY Numbers DEF TypeOK
  <1>2. /\ pc'[u] = pc[u] /\ op'[u] = op[u] /\ arg'[u] = arg[u] /\ snap'[u] = snap[u]
        /\ held'[u] = held[u] /\ read'[u] = read[u] /\ seen'[u] = seen[u] /\ own'[u] = own[u]
    BY DEF Asleep
  <1>3. /\ \A i \in Ids : lock[i] = u /\ View(u, i) # "absent" =>
              lock'[i] = u /\ View(u, i)' = View(u, i) /\ status'[i] = status[i]
        /\ \A i \in Ids : View(u, i) # "absent" => View(u, i)' # "absent" /\ gen'[i] = gen[i]
        /\ \A i \in Ids : View(u, i) = "deleted" => View(u, i)' = "deleted"
        /\ \A i \in Ids : View(u, i) \in Terminal => View(u, i)' \in {View(u, i), "deleted"}
        /\ \A i \in Ids : status[i] # "absent" => status'[i] # "absent"
    BY DEF Stable
  <1>4. advisory = u =>
          /\ advisory' = u
          /\ Visible(u)' \subseteq Visible(u)
          /\ \A i \in Visible(u)' : View(u, i)' = "scheduled" => View(u, i) = "scheduled"
    BY DEF Stable, Visible, Alive
  <1>5. \A i \in Visible(u) : i \in Ids /\ View(u, i) # "absent" /\ gen'[i] = gen[i]
    BY <1>3 DEF Visible
  <1>6. Calling(u)'
    BY <1>2, <1>3, <1>4 DEF Calling
  <1>7. Locking(u)'
    <2>1. pc[u] = "lock" => \A i \in snap[u] : View(u, i)' # "absent"
      BY <1>1, <1>3 DEF Locking
    <2>2. pc[u] = "lock" /\ op[u] = "schedule" => Visible(u)' \subseteq snap[u]
      BY <1>4 DEF Locking, Calling
    <2>3. pc[u] = "purge" =>
            held[u] \in snap[u] /\ \A i \in snap[u] : View(u, i)' \in Terminal \cup {"deleted"}
      BY <1>1, <1>3 DEF Locking
    <2>4. pc[u] \in {"check", "read", "act", "insert"} /\ held[u] # NoRow =>
            lock'[held[u]] = u /\ Alive(View(u, held[u])')
      BY <1>1, <1>2, <1>3 DEF Locking, Alive, View, Wrote
    <2>5. pc[u] = "read" /\ held[u] # NoRow => \A j \in Visible(u)' : gen'[j] <= gen'[held[u]]
      BY <1>1 DEF Locking, Stable, Visible, Alive
    <2>6. pc[u] = "read" /\ held[u] = NoRow /\ op[u] = "schedule" => Visible(u)' = {}
      BY <1>4 DEF Locking, Calling
    <2> QED BY <1>2, <2>1, <2>2, <2>3, <2>4, <2>5, <2>6 DEF Locking, Alive
  <1>8. Reading(u)'
    <2>1. pc[u] = "act" /\ held[u] # NoRow => read[u] = held[u] /\ View(u, read[u])' = seen[u]
      BY <1>1, <1>2, <1>3 DEF Locking, Reading, Alive, View, Wrote
    <2>2. pc[u] = "act" =>
            IF read[u] = NoRow THEN seen[u] = "absent" ELSE View(u, read[u])' # "absent"
      BY <1>1, <1>2, <1>3 DEF Reading, View, Wrote
    <2>3. pc[u] = "act" /\ seen[u] = "canceled" => Dead(u, read[u])'
      BY <1>1, <1>2, DeadStays DEF Reading, Dead, View, Wrote
    <2>4. pc[u] = "act" /\ op[u] = "cancel" /\ read[u] # NoRow /\ arg[u] # read[u]
            /\ View(u, arg[u])' # "deleted" => gen'[arg[u]] # gen'[read[u]]
      <3>1. op[u] = "cancel" => arg[u] \in Ids /\ View(u, arg[u]) # "absent"
        BY DEF Calling, View, Wrote
      <3> QED BY <1>1, <1>2, <1>3, <3>1 DEF Reading, View, Wrote
    <2>5. pc[u] \in {"act", "insert"} /\ op[u] = "schedule" =>
            /\ read[u] = held[u]
            /\ read[u] = NoRow => Visible(u)' = {}
            /\ \A j \in Visible(u)' : gen'[j] <= GenerationOf(read[u])'
      <3> SUFFICES ASSUME pc[u] \in {"act", "insert"}, op[u] = "schedule"
                   PROVE  /\ read[u] = held[u]
                          /\ read[u] = NoRow => Visible(u)' = {}
                          /\ \A j \in Visible(u)' : gen'[j] <= GenerationOf(read[u])'
        OBVIOUS
      <3>1. /\ advisory = u /\ read[u] = held[u] /\ (read[u] = NoRow => Visible(u) = {})
            /\ \A j \in Visible(u) : gen[j] <= GenerationOf(read[u])
        BY DEF Calling, Reading
      <3>2. read[u] # NoRow => gen'[read[u]] = gen[read[u]]
        BY <1>1, <1>3, <3>1 DEF Locking, Alive
      <3>3. GenerationOf(read[u])' = GenerationOf(read[u])
        BY <1>2, <3>2 DEF GenerationOf
      <3> QED BY <1>4, <1>5, <3>1, <3>3
    <2>6. pc[u] = "insert" => \A j \in Visible(u)' : View(u, j)' # "scheduled"
      BY <1>4 DEF Calling, Reading
    <2> QED BY <1>2, <2>1, <2>2, <2>3, <2>4, <2>5, <2>6 DEF Reading, Dead, GenerationOf
  <1>9. Claims(u)'
    <2>1. \A i \in own[u].fires : i \in Ids /\ status'[i] = status[i]
      <3>1. \A i \in own[u].fires : i \in Ids /\ Wrote(u, i)
        BY DEF Claims, TypeOK, Wrote
      <3>2. \A i \in Ids : Wrote(u, i) => lock[i] = u /\ View(u, i) # "absent"
        BY DEF RowsInv, Owned, View, Wrote
      <3> QED BY <1>3, <3>1, <3>2
    <2>2. \A r \in own[u].reports : r[1] \in Ids /\ r[2] \in Ids
      BY DEF TypeOK
    <2>3. \A r \in own[u].reports : Dead(u, r[2])' /\ (r[1] = r[2] \/ View(u, r[1])' = "deleted")
      BY <1>3, <2>2, DeadStays DEF Claims
    <2> QED BY <1>2, <2>1, <2>3 DEF Claims
  <1> QED BY <1>6, <1>7, <1>8, <1>9

-----------------------------------------------------------------------------
(* What is common to the steps of t that commit nothing *)

\* The sessions of the others, and what is committed besides the rows, stay.
Others(t) ==
    /\ \A u \in Txns \ {t} :
          /\ pc'[u] = pc[u] /\ op'[u] = op[u] /\ arg'[u] = arg[u] /\ snap'[u] = snap[u]
          /\ held'[u] = held[u] /\ read'[u] = read[u] /\ seen'[u] = seen[u] /\ own'[u] = own[u]
    /\ UNCHANGED <<status, accepted, fires, reports>>

LEMMA Kept ==
    ASSUME Inv, NEW t \in Txns, Others(t), \A u \in Txns \ {t} : Stable(u),
           TypeOK', RowsInv', Budget', Mine(t)'
    PROVE  Inv'
  <1>1. ASSUME NEW u \in Txns \ {t} PROVE Mine(u)'
    <2>1. Asleep(u)
      BY DEF Others, Asleep
    <2> QED BY <2>1, SessionFrame DEF Inv, SessionsInv
  <1>2. SessionsInv'
    BY <1>1 DEF SessionsInv
  <1>3. Answers' /\ FiresMatchStatus'
    BY DEF Inv, Others, Answers, FiresMatchStatus
  <1> QED BY <1>2, <1>3 DEF Inv

LEMMA FreshFinite ==
    IsFiniteSet(Fresh) /\ IsFiniteSet(Fresh)'
  <1>1. IsFiniteSet(Ids)
    BY Numbers, FS_Interval
  <1>2. Fresh \subseteq Ids /\ Fresh' \subseteq Ids
    BY DEF Fresh
  <1>3. \A S \in SUBSET Ids : IsFiniteSet(S)
    BY <1>1, FS_Subset
  <1> QED BY <1>2, <1>3

LEMMA BudgetKept ==
    ASSUME Budget, Schedulers' \subseteq Schedulers, Fresh \subseteq Fresh'
    PROVE  Budget'
  <1>1. IsFiniteSet(Schedulers)' /\ Cardinality(Schedulers)' <= Cardinality(Schedulers)
    BY FS_Subset DEF Budget
  <1>2. Cardinality(Fresh) <= Cardinality(Fresh)'
    BY FreshFinite, FS_Subset
  <1>3. /\ Cardinality(Fresh) \in Nat /\ Cardinality(Fresh)' \in Nat
        /\ Cardinality(Schedulers) \in Nat /\ Cardinality(Schedulers)' \in Nat
    BY <1>1, FreshFinite, FS_CardinalityType DEF Budget
  <1> QED BY <1>1, <1>2, <1>3 DEF Budget

LEMMA HoldsKeeps ==
    ASSUME Inv, NEW t \in Txns, Others(t), Holds(t), op'[t] = "schedule" => op[t] = "schedule",
           TypeOK', Mine(t)'
    PROVE  Inv'
  <1>1. RowsInv' /\ \A u \in Txns : Stable(u)
    BY HoldsRows, HoldsStable DEF Inv
  <1>2. Schedulers' \subseteq Schedulers
    BY DEF Schedulers, Others
  <1>3. Fresh' = Fresh
    BY DEF Fresh, Holds, Wrote
  <1>4. Budget'
    BY <1>2, <1>3, BudgetKept DEF Inv
  <1> QED BY <1>1, <1>4, Kept

LEMMA MarksKeeps ==
    ASSUME Inv, NEW t \in Txns, Others(t), NEW i \in Ids, NEW s \in Status, Marks(t, i, s),
           op'[t] = "schedule" => op[t] = "schedule", TypeOK', Mine(t)'
    PROVE  Inv'
  <1>1. RowsInv' /\ \A u \in Txns \ {t} : Stable(u)
    BY MarksRows, MarksStable DEF Inv
  <1>2. Schedulers' \subseteq Schedulers
    BY DEF Schedulers, Others
  <1>3. Fresh \subseteq Fresh'
    <2>1. i \notin Fresh
      BY DEF Marks, Fresh, View, Terminal
    <2> QED BY <2>1 DEF Fresh, Marks, Wrote
  <1>4. Budget'
    BY <1>2, <1>3, BudgetKept DEF Inv
  <1> QED BY <1>1, <1>4, Kept

-----------------------------------------------------------------------------
(* The end of a transaction *)

Row == [status : [Ids -> Status], accepted : SUBSET Ids,
        rejected : SUBSET (Ids \X (0 .. MaxTimers)),
        fires : SUBSET Ids, reports : SUBSET (Ids \X Ids)]

LEMMA CleanRow == Clean \in Row
  <1>1. [i \in Ids |-> "absent"] \in [Ids -> Status]
    BY DEF Status
  <1> QED BY <1>1 DEF Clean, Row

\* The session of t after the end.
LEMMA EndOf ==
    ASSUME TypeOK, NEW t \in Txns, End(t)
    PROVE  /\ pc'[t] = "idle" /\ op'[t] = "none" /\ own'[t] = Clean
           /\ Leaves(t)
           /\ \A u \in Txns \ {t} :
                /\ pc'[u] = pc[u] /\ op'[u] = op[u] /\ arg'[u] = arg[u] /\ snap'[u] = snap[u]
                /\ held'[u] = held[u] /\ read'[u] = read[u] /\ seen'[u] = seen[u]
                /\ own'[u] = own[u]
  <1>1. pc'[t] = "idle" /\ op'[t] = "none" /\ own'[t] = Clean
    BY DEF End, TypeOK
  <1>2. \A u \in Txns \ {t} :
          /\ pc'[u] = pc[u] /\ op'[u] = op[u] /\ arg'[u] = arg[u] /\ snap'[u] = snap[u]
          /\ held'[u] = held[u] /\ read'[u] = read[u] /\ seen'[u] = seen[u]
          /\ own'[u] = own[u]
    BY DEF End, TypeOK
  <1>3. \A i \in Ids : own'[t].status[i] = "absent"
    BY <1>1 DEF Clean
  <1>4. Leaves(t)
    BY <1>2, <1>3 DEF End, Leaves
  <1> QED BY <1>1, <1>2, <1>4

LEMMA EndTypes ==
    ASSUME TypeOK, NEW t \in Txns, End(t)
    PROVE  /\ lock' \in [Ids -> Txns \cup {NoTxn}] /\ advisory' \in Txns \cup {NoTxn}
           /\ pc' \in [Txns -> Stage]
           /\ op' \in [Txns -> {"none", "schedule", "cancel", "accept", "purge"}]
           /\ arg' \in [Txns -> Ids \cup {NoRow}] /\ snap' \in [Txns -> SUBSET Ids]
           /\ held' \in [Txns -> Ids \cup {NoRow}] /\ read' \in [Txns -> Ids \cup {NoRow}]
           /\ seen' \in [Txns -> Status] /\ calls' \in [Txns -> 0 .. MaxCalls]
           /\ own' \in [Txns -> Row]
  <1>1. own \in [Txns -> Row]
    BY DEF TypeOK, Row
  <1>2. own' \in [Txns -> Row]
    BY <1>1, CleanRow DEF End
  <1>3. lock' \in [Ids -> Txns \cup {NoTxn}] /\ advisory' \in Txns \cup {NoTxn}
    BY DEF End, TypeOK
  <1>4. /\ pc' \in [Txns -> Stage]
        /\ op' \in [Txns -> {"none", "schedule", "cancel", "accept", "purge"}]
        /\ seen' \in [Txns -> Status] /\ calls' \in [Txns -> 0 .. MaxCalls]
    BY Numbers DEF End, TypeOK, Stage, Status
  <1>5. /\ arg' \in [Txns -> Ids \cup {NoRow}] /\ snap' \in [Txns -> SUBSET Ids]
        /\ held' \in [Txns -> Ids \cup {NoRow}] /\ read' \in [Txns -> Ids \cup {NoRow}]
    BY DEF End, TypeOK
  <1> QED BY <1>2, <1>3, <1>4, <1>5

\* A transaction that is idle, or open and clean, knows nothing.
LEMMA EndMine ==
    ASSUME TypeOK, NEW t \in Txns, End(t)
    PROVE  Mine(t)'
  <1>1. pc'[t] = "idle" /\ op'[t] = "none" /\ own'[t] = Clean
    BY EndOf
  <1>2. Calling(t)' /\ Locking(t)' /\ Reading(t)'
    BY <1>1 DEF Calling, Locking, Reading
  <1>3. Claims(t)'
    BY <1>1 DEF Claims, Clean
  <1> QED BY <1>2, <1>3 DEF Mine

LEMMA FailKeeps ==
    ASSUME Inv, NEW t \in Txns, Fail(t)
    PROVE  Inv'
  <1>1. TypeOK /\ RowsInv /\ End(t)
    BY DEF Inv, Fail
  <1>2. Undoes(t)
    BY <1>1, EndOf DEF Fail, Undoes
  <1>3. Others(t)
    BY <1>1, EndOf DEF Fail, Others, history
  <1>4. TypeOK'
    <2>1. gen' \in [Ids -> 0 .. MaxTimers]
      BY <1>1, Numbers DEF Fail, TypeOK
    <2> QED BY <1>1, <2>1, EndTypes DEF Fail, TypeOK, Row, history
  <1>5. RowsInv' /\ \A u \in Txns \ {t} : Stable(u)
    BY <1>1, <1>2, UndoesRows, UndoesStable
  <1>6. Budget'
    <2>1. Schedulers' \subseteq Schedulers
      BY <1>1, EndOf DEF Schedulers
    <2>2. Fresh \subseteq Fresh'
      BY <1>2 DEF Fresh, Undoes, Leaves, Wrote
    <2> QED BY <2>1, <2>2, BudgetKept DEF Inv
  <1> QED BY <1>1, <1>3, <1>4, <1>5, <1>6, EndMine, Kept

LEMMA RollbackKeeps ==
    ASSUME Inv, NEW t \in Txns, Rollback(t) \/ Conflict(t)
    PROVE  Inv'
  BY FailKeeps DEF Rollback, Conflict

\* A commit makes the claims of t true of the table.
LEMMA CommitKeeps ==
    ASSUME Inv, NEW t \in Txns, Commit(t)
    PROVE  Inv'
  <1>1. TypeOK /\ RowsInv /\ End(t) /\ Claims(t) /\ FiresMatchStatus
    BY DEF Inv, Commit, SessionsInv, Mine
  <1>2. /\ \A i \in Ids : status'[i] = View(t, i)
        /\ accepted' = {i \in accepted \cup own[t].accepted : View(t, i) # "deleted"}
        /\ reports' = reports \cup own[t].reports
        /\ \A i \in Ids : fires'[i] = IF i \in own[t].fires /\ fires[i] < 2
                                      THEN fires[i] + 1 ELSE fires[i]
        /\ UNCHANGED gen
    BY DEF Commit
  <1>3. Publishes(t)
    BY <1>1, <1>2, EndOf DEF Publishes
  <1>4. \A i \in Ids : View(t, i) \in Status /\ fires[i] \in 0 .. 2
    BY <1>1 DEF View, Wrote, TypeOK
  <1>5. TypeOK'
    <2>1. status' \in [Ids -> Status]
      BY <1>4 DEF Commit
    <2>2. fires' \in [Ids -> 0 .. 2]
      BY <1>4 DEF Commit
    <2>3. own[t] \in Row
      BY <1>1 DEF TypeOK, Row
    <2>4. accepted' \subseteq Ids /\ rejected' \subseteq Ids \X (0 .. MaxTimers)
              /\ reports' \subseteq Ids \X Ids
      BY <1>1, <2>3 DEF Commit, TypeOK, Row
    <2> QED BY <1>1, <1>2, <2>1, <2>2, <2>4, EndTypes DEF TypeOK, Row
  <1>6. RowsInv' /\ \A u \in Txns \ {t} : Stable(u)
    BY <1>1, <1>3, PublishesRows, PublishesStable
  <1>7. Budget'
    <2>1. Schedulers' \subseteq Schedulers
      BY <1>1, EndOf DEF Schedulers
    <2>2. Fresh \subseteq Fresh'
      BY <1>2, <1>3 DEF Fresh, Publishes, Leaves, Wrote, View
    <2> QED BY <2>1, <2>2, BudgetKept DEF Inv
  <1>8. \A i \in own[t].fires :
            /\ i \in Ids /\ Wrote(t, i) /\ View(t, i) \in {"fired", "deleted"}
            /\ status[i] \in {"absent", "scheduled"} /\ fires[i] = 0 /\ fires'[i] = 1
    <2>1. \A i \in own[t].fires :
            /\ i \in Ids /\ Wrote(t, i) /\ View(t, i) \in {"fired", "deleted"}
            /\ status[i] \in {"absent", "scheduled"}
      BY <1>1 DEF Claims, TypeOK, Wrote, View
    <2>2. \A i \in own[t].fires : fires[i] = 0
      BY <1>1, <2>1 DEF FiresMatchStatus
    <2> QED BY <1>2, <2>1, <2>2
  <1>9. \A i \in Ids : i \notin own[t].fires => fires'[i] = fires[i]
    BY <1>2
  <1>10. \A i \in Ids : status[i] = "deleted" => View(t, i) = "deleted"
    BY <1>1 DEF RowsInv, Owned, View
  <1>11. \A i \in Ids : status[i] \in Terminal => View(t, i) \in {status[i], "deleted"}
    BY <1>1 DEF RowsInv, Owned, View
  <1>12. ASSUME NEW u \in Txns \ {t} PROVE Mine(u)'
    <2>1. \A i \in own[t].fires : View(u, i) = status[i]
      BY <1>1, <1>8 DEF RowsInv, Owned, View
    <2>2. \A i \in Ids : View(u, i) \in {"canceled", "deleted"} /\ fires[i] = 0 => fires'[i] = 0
      BY <1>8, <1>9, <2>1
    <2>3. Asleep(u)
      BY <1>1, <2>2, EndOf DEF Asleep
    <2> QED BY <1>1, <1>6, <2>3, SessionFrame DEF Inv, SessionsInv
  <1>13. SessionsInv'
    BY <1>1, <1>12, EndMine DEF SessionsInv
  <1>14. Answers'
    <2>1. ASSUME NEW r \in reports
          PROVE  /\ status'[r[2]] \in {"canceled", "deleted"} /\ fires'[r[2]] = 0
                 /\ r[1] = r[2] \/ status'[r[1]] = "deleted"
      <3>1. r[1] \in Ids /\ r[2] \in Ids
        BY <1>1 DEF TypeOK
      <3>2. /\ status[r[2]] \in {"canceled", "deleted"} /\ fires[r[2]] = 0
            /\ r[1] = r[2] \/ status[r[1]] = "deleted"
        BY DEF Inv, Answers
      <3>3. r[2] \notin own[t].fires
        BY <1>8, <3>2
      <3> QED BY <1>2, <1>9, <1>10, <1>11, <3>1, <3>2, <3>3 DEF Terminal
    <2>2. ASSUME NEW r \in own[t].reports
          PROVE  /\ status'[r[2]] \in {"canceled", "deleted"} /\ fires'[r[2]] = 0
                 /\ r[1] = r[2] \/ status'[r[1]] = "deleted"
      <3>1. r[1] \in Ids /\ r[2] \in Ids
        BY <1>1 DEF TypeOK
      <3>2. Dead(t, r[2]) /\ (r[1] = r[2] \/ View(t, r[1]) = "deleted")
        BY <1>1 DEF Claims
      <3> QED BY <1>2, <1>9, <3>1, <3>2 DEF Dead
    <2> QED BY <1>2, <2>1, <2>2 DEF Answers
  <1>15. FiresMatchStatus'
    <2> SUFFICES ASSUME NEW i \in Ids
                 PROVE  /\ fires'[i] = 1 \/ status'[i] # "fired"
                        /\ fires'[i] = 0 \/ status'[i] \in {"fired", "deleted"}
                        /\ fires'[i] <= 1
                        /\ i \in accepted' <=> status'[i] = "fired"
      BY DEF FiresMatchStatus
    <2>1. own[t].accepted = own[t].fires
      BY <1>1 DEF Claims
    <2>2. CASE i \in own[t].fires
      BY <1>2, <1>8, <2>1, <2>2
    <2>3. CASE i \notin own[t].fires
      <3>1. /\ fires[i] = 1 \/ status[i] # "fired"
            /\ fires[i] = 0 \/ status[i] \in {"fired", "deleted"}
            /\ fires[i] <= 1
            /\ i \in accepted <=> status[i] = "fired"
        BY <1>1 DEF FiresMatchStatus
      <3>2. View(t, i) = "fired" => status[i] = "fired"
        BY <1>1, <2>3 DEF View, Claims
      <3>3. fires'[i] = fires[i] /\ status'[i] = View(t, i)
        BY <1>2, <1>9, <2>3
      <3>4. fires[i] = 0 \/ View(t, i) \in {"fired", "deleted"}
        BY <1>10, <1>11, <3>1 DEF Terminal
      <3>5. i \in accepted' <=> View(t, i) = "fired"
        BY <1>2, <1>10, <1>11, <2>1, <2>3, <3>1, <3>2 DEF Terminal
      <3> QED BY <3>1, <3>2, <3>3, <3>4, <3>5
    <2> QED BY <2>2, <2>3
  <1> QED BY <1>5, <1>6, <1>7, <1>13, <1>14, <1>15 DEF Inv

-----------------------------------------------------------------------------
(* Steps that write nothing *)

\* Only the session of t and its locks change.
Silent(t) ==
    /\ UNCHANGED <<table, own, history>>
    /\ \A u \in Txns \ {t} :
          /\ pc'[u] = pc[u] /\ op'[u] = op[u] /\ arg'[u] = arg[u] /\ snap'[u] = snap[u]
          /\ held'[u] = held[u] /\ read'[u] = read[u] /\ seen'[u] = seen[u]
    /\ \A i \in Ids : lock'[i] = lock[i] \/ (lock[i] = NoTxn /\ lock'[i] = t)
    /\ advisory' = advisory \/ (advisory = NoTxn /\ advisory' = t)

LEMMA SilentViews ==
    ASSUME TypeOK, NEW t \in Txns, Silent(t), Claims(t)
    PROVE  /\ \A i \in Ids : View(t, i)' = View(t, i) /\ (Dead(t, i) => Dead(t, i)')
           /\ Visible(t)' = Visible(t) /\ Visible(t) \subseteq Ids
           /\ gen' = gen /\ status' = status
           /\ \A i \in Ids : lock[i] = t => lock'[i] = t
           /\ advisory = t => advisory' = t
           /\ Claims(t)'
  <1>1. UNCHANGED <<status, gen, own, fires>>
    BY DEF Silent, table, history
  <1>2. \A i \in Ids : View(t, i)' = View(t, i) /\ (Dead(t, i) => Dead(t, i)')
    BY <1>1 DEF View, Wrote, Dead
  <1>3. Visible(t)' = Visible(t)
    BY <1>2 DEF Visible
  <1>4. Claims(t)'
    BY <1>1 DEF Claims, Dead, View, Wrote
  <1> QED BY <1>1, <1>2, <1>3, <1>4, Numbers DEF Silent, Visible

LEMMA SilentKeeps ==
    ASSUME Inv, NEW t \in Txns, Silent(t), op'[t] = "schedule" => op[t] = "schedule", TypeOK',
           Calling(t)', Locking(t)', Reading(t)'
    PROVE  Inv'
  <1>1. Others(t) /\ Holds(t)
    BY DEF Silent, Others, Holds, table, history
  <1>2. Claims(t)'
    BY SilentViews DEF Inv, SessionsInv, Mine
  <1> QED BY <1>1, <1>2, HoldsKeeps DEF Mine

LEMMA StartOf ==
    ASSUME Inv, NEW t \in Txns, NEW call, NEW row \in Ids \cup {NoRow}, NEW stage \in Stage,
           Start(t, call, row, stage), snap' \in [Txns -> SUBSET Ids],
           held' \in [Txns -> Ids \cup {NoRow}],
           \A u \in Txns \ {t} : snap'[u] = snap[u] /\ held'[u] = held[u]
    PROVE  /\ Silent(t) /\ TypeOK' /\ pc'[t] = stage /\ op'[t] = call /\ arg'[t] = row
           /\ \A u \in Txns \ {t} : op'[u] = op[u]
  <1>1. TypeOK
    BY DEF Inv
  <1>2. /\ pc'[t] = stage /\ op'[t] = call /\ arg'[t] = row
        /\ \A u \in Txns \ {t} : pc'[u] = pc[u] /\ op'[u] = op[u] /\ arg'[u] = arg[u]
    BY <1>1 DEF Start, TypeOK
  <1>3. Silent(t)
    BY <1>2 DEF Start, Silent, table, locks, history
  <1>4. TypeOK'
    <2>1. call \in {"schedule", "cancel", "accept", "purge"}
      BY ConstantsAssumption DEF Start
    <2>2. calls' \in [Txns -> 0 .. MaxCalls]
      BY <1>1, Numbers DEF Start, TypeOK
    <2>3. /\ pc' \in [Txns -> Stage] /\ arg' \in [Txns -> Ids \cup {NoRow}]
          /\ op' \in [Txns -> {"none", "schedule", "cancel", "accept", "purge"}]
      BY <1>1, <2>1 DEF Start, TypeOK
    <2> QED BY <1>1, <2>2, <2>3 DEF Start, TypeOK, table, locks, history
  <1> QED BY <1>2, <1>3, <1>4

\* The bound on rows leaves an id for one more schedule.
LEMMA StartScheduleKeeps ==
    ASSUME Inv, NEW t \in Txns, StartSchedule(t)
    PROVE  Inv'
  <1>1. TypeOK /\ RowsInv /\ Budget /\ Mine(t)
    BY DEF Inv, SessionsInv
  <1>2. /\ Silent(t) /\ TypeOK' /\ pc'[t] = "advisory" /\ op'[t] = "schedule"
        /\ \A u \in Txns \ {t} : op'[u] = op[u]
    <2>1. /\ snap' \in [Txns -> SUBSET Ids] /\ held' \in [Txns -> Ids \cup {NoRow}]
          /\ \A u \in Txns \ {t} : snap'[u] = snap[u] /\ held'[u] = held[u]
          /\ Start(t, "schedule", NoRow, "advisory")
      BY <1>1 DEF StartSchedule, TypeOK
    <2>2. "advisory" \in Stage
      BY DEF Stage
    <2> QED BY <2>1, <2>2, StartOf
  <1>3. Others(t) /\ Holds(t)
    BY <1>2 DEF Silent, Others, Holds, table, history
  <1>4. RowsInv' /\ \A u \in Txns : Stable(u)
    BY <1>1, <1>3, HoldsRows, HoldsStable
  <1>5. Mine(t)'
    <2>1. Calling(t)' /\ Locking(t)' /\ Reading(t)'
      BY <1>2 DEF Calling, Locking, Reading
    <2> QED BY <1>1, <1>2, <2>1, SilentViews DEF Mine
  <1>6. Budget'
    <2>1. Fresh' = Fresh
      BY <1>3 DEF Fresh, Holds, Wrote
    <2>2. Schedulers' = Schedulers \cup {t}
      BY <1>2 DEF Schedulers
    <2>3. /\ IsFiniteSet(Schedulers \cup {t})
          /\ Cardinality(Schedulers \cup {t}) <= Cardinality(Schedulers) + 1
          /\ Cardinality(Schedulers) \in Nat /\ Cardinality(Schedulers \cup {t}) \in Nat
      <3>1. IsFiniteSet(Schedulers)
        BY <1>1 DEF Budget
      <3> QED BY <3>1, FS_AddElement, FS_CardinalityType
    <2>4. Cardinality(Schedulers) < Cardinality(Fresh) /\ Cardinality(Fresh) \in Nat
      BY FreshFinite, FS_CardinalityType DEF StartSchedule
    <2> QED BY <2>1, <2>2, <2>3, <2>4 DEF Budget
  <1> QED BY <1>2, <1>3, <1>4, <1>5, <1>6, Kept

LEMMA StartCancelKeeps ==
    ASSUME Inv, NEW t \in Txns, NEW i \in Ids, StartCancel(t, i) \/ StartAccept(t, i)
    PROVE  Inv'
  <1>1. TypeOK /\ status[i] # "absent"
    BY DEF Inv, StartCancel, StartAccept, Known
  <1>2. PICK call \in {"cancel", "accept"} : Start(t, call, i, "snapshot") /\ UNCHANGED <<snap, held>>
    BY DEF StartCancel, StartAccept
  <1>3. Silent(t) /\ TypeOK' /\ pc'[t] = "snapshot" /\ op'[t] = call /\ arg'[t] = i
    <2>1. /\ snap' \in [Txns -> SUBSET Ids] /\ held' \in [Txns -> Ids \cup {NoRow}]
          /\ \A u \in Txns \ {t} : snap'[u] = snap[u] /\ held'[u] = held[u]
      BY <1>1, <1>2 DEF TypeOK
    <2>2. "snapshot" \in Stage
      BY DEF Stage
    <2> QED BY <1>2, <2>1, <2>2, StartOf
  <1>4. Calling(t)' /\ Locking(t)' /\ Reading(t)'
    BY <1>1, <1>2, <1>3 DEF Calling, Locking, Reading, Silent, table
  <1> QED BY <1>2, <1>3, <1>4, SilentKeeps

LEMMA StartPurgeKeeps ==
    ASSUME Inv, NEW t \in Txns, StartPurge(t)
    PROVE  Inv'
  <1>1. TypeOK /\ Mine(t)
    BY DEF Inv, SessionsInv
  <1>2. PICK doomed \in SUBSET {i \in Visible(t) : View(t, i) \in Terminal} :
          \E i \in doomed :
            /\ Start(t, "purge", NoRow, "purge")
            /\ snap' = [snap EXCEPT ![t] = doomed]
            /\ held' = [held EXCEPT ![t] = i]
    BY DEF StartPurge
  <1>3. PICK i \in doomed :
            /\ Start(t, "purge", NoRow, "purge")
            /\ snap' = [snap EXCEPT ![t] = doomed]
            /\ held' = [held EXCEPT ![t] = i]
    BY <1>2
  <1>4. doomed \subseteq Ids /\ i \in Ids
    BY <1>2, <1>3 DEF Visible
  <1>5. /\ snap' \in [Txns -> SUBSET Ids] /\ held' \in [Txns -> Ids \cup {NoRow}]
        /\ snap'[t] = doomed /\ held'[t] = i
        /\ \A u \in Txns \ {t} : snap'[u] = snap[u] /\ held'[u] = held[u]
    BY <1>1, <1>3, <1>4 DEF TypeOK
  <1>6. Silent(t) /\ TypeOK' /\ pc'[t] = "purge" /\ op'[t] = "purge"
    BY <1>3, <1>5, StartOf DEF Stage
  <1>7. \A j \in Ids : View(t, j)' = View(t, j)
    BY <1>1, <1>6, SilentViews DEF Mine
  <1>8. Calling(t)' /\ Locking(t)' /\ Reading(t)'
    BY <1>3, <1>4, <1>5, <1>6, <1>7 DEF Calling, Locking, Reading
  <1> QED BY <1>6, <1>8, SilentKeeps

-----------------------------------------------------------------------------
(* lock_timer_identity and _latest *)

LEMMA LockIdentityKeeps ==
    ASSUME Inv, NEW t \in Txns, LockIdentity(t)
    PROVE  Inv'
  <1>1. TypeOK /\ Mine(t)
    BY DEF Inv, SessionsInv
  <1>2. /\ pc'[t] = "snapshot" /\ op'[t] = op[t] /\ arg'[t] = arg[t] /\ advisory' = t
        /\ \A u \in Txns \ {t} : pc'[u] = pc[u]
    BY <1>1 DEF LockIdentity, Goto, locals, TypeOK
  <1>3. Silent(t)
    BY <1>2 DEF LockIdentity, Silent, table, history, locals
  <1>4. TypeOK'
    <2>1. pc' \in [Txns -> Stage]
      BY <1>1 DEF LockIdentity, Goto, TypeOK, Stage
    <2> QED BY <1>1, <1>2, <2>1 DEF LockIdentity, TypeOK, table, history, locals
  <1>5. Calling(t)' /\ Locking(t)' /\ Reading(t)'
    BY <1>1, <1>2, <1>3 DEF Mine, Calling, Locking, Reading, Silent, table, LockIdentity
  <1> QED BY <1>2, <1>3, <1>4, <1>5, SilentKeeps

LEMMA SnapshotKeeps ==
    ASSUME Inv, NEW t \in Txns, Snapshot(t)
    PROVE  Inv'
  <1>1. TypeOK /\ Mine(t) /\ Visible(t) \subseteq Ids
    BY DEF Inv, SessionsInv, Visible
  <1>2. /\ pc'[t] = "lock" /\ snap'[t] = Visible(t) /\ op'[t] = op[t] /\ arg'[t] = arg[t]
        /\ \A u \in Txns \ {t} : pc'[u] = pc[u] /\ snap'[u] = snap[u]
    BY <1>1 DEF Snapshot, Goto, TypeOK
  <1>3. Silent(t)
    BY <1>2 DEF Snapshot, Silent, table, locks, history
  <1>4. TypeOK'
    <2>1. pc' \in [Txns -> Stage] /\ snap' \in [Txns -> SUBSET Ids]
      BY <1>1 DEF Snapshot, Goto, TypeOK, Stage
    <2> QED BY <1>1, <1>2, <2>1 DEF Snapshot, TypeOK, table, locks, history
  <1>5. /\ \A i \in Ids : View(t, i)' = View(t, i)
        /\ Visible(t)' = Visible(t) /\ status' = status /\ (advisory = t => advisory' = t)
    BY <1>1, <1>3, SilentViews DEF Mine
  <1>6. \A i \in Visible(t) : i \in Ids /\ View(t, i)' # "absent"
    BY <1>5 DEF Visible
  <1>7. Calling(t)' /\ Locking(t)' /\ Reading(t)'
    BY <1>1, <1>2, <1>5, <1>6 DEF Mine, Calling, Locking, Reading, Snapshot
  <1> QED BY <1>2, <1>3, <1>4, <1>7, SilentKeeps

LEMMA NewestNone ==
    ASSUME TypeOK, NEW S \in SUBSET Ids
    PROVE  /\ Newest(S) = NoRow <=> S = {}
           /\ Newest(S) # NoRow => Newest(S) \in S
  <1>1. S = {} => Newest(S) = NoRow
    BY DEF Newest
  <1>2. S # {} => Newest(S) \in S
    BY NewestIs
  <1> QED BY <1>1, <1>2, Numbers

LEMMA LockLatestKeeps ==
    ASSUME Inv, NEW t \in Txns, LockLatest(t)
    PROVE  Inv'
  <1> DEFINE top == Newest(snap[t])
  <1>1. TypeOK /\ Mine(t) /\ snap[t] \in SUBSET Ids
    BY DEF Inv, SessionsInv, TypeOK
  <1>2. (top = NoRow <=> snap[t] = {}) /\ (top # NoRow => top \in snap[t] /\ top \in Ids)
    BY <1>1, NewestNone
  <1>3. /\ pc[t] = "lock"
        /\ UNCHANGED <<status, gen, accepted, rejected, advisory, op, arg, read, seen, calls, own,
                       fires, reports>>
    BY DEF LockLatest, table, history
  <1> HIDE DEF top
  <1>4. CASE /\ top = NoRow
             /\ held' = [held EXCEPT ![t] = NoRow]
             /\ Goto(t, NothingToLock(t))
             /\ UNCHANGED <<snap, lock>>
    <2>1. /\ pc'[t] = "read" /\ held'[t] = NoRow
          /\ \A u \in Txns \ {t} : pc'[u] = pc[u] /\ held'[u] = held[u]
      BY <1>1, <1>4 DEF Goto, NothingToLock, TypeOK
    <2>2. Silent(t)
      BY <1>3, <1>4, <2>1 DEF Silent, table, history
    <2>3. TypeOK'
      <3>1. pc' \in [Txns -> Stage] /\ held' \in [Txns -> Ids \cup {NoRow}]
        BY <1>1, <1>4 DEF Goto, NothingToLock, TypeOK, Stage
      <3> QED BY <1>1, <1>3, <1>4, <3>1 DEF TypeOK
    <2>4. Visible(t)' = Visible(t)
      BY <1>1, <2>2, SilentViews DEF Mine
    <2>5. Calling(t)' /\ Locking(t)' /\ Reading(t)'
      BY <1>1, <1>2, <1>3, <1>4, <2>1, <2>4 DEF Mine, Calling, Locking, Reading
    <2> QED BY <1>3, <2>2, <2>3, <2>5, SilentKeeps
  <1>5. CASE /\ top # NoRow /\ Free(t, top) /\ View(t, top) = "deleted"
             /\ snap' = [snap EXCEPT ![t] = @ \ {top}]
             /\ UNCHANGED <<pc, held, lock>>
    <2>1. /\ snap'[t] = snap[t] \ {top}
          /\ \A u \in Txns \ {t} : snap'[u] = snap[u]
      BY <1>1, <1>5 DEF TypeOK
    <2>2. Silent(t)
      BY <1>3, <1>5, <2>1 DEF Silent, table, history
    <2>3. TypeOK'
      <3>1. snap' \in [Txns -> SUBSET Ids]
        BY <1>1, <1>5 DEF TypeOK
      <3> QED BY <1>1, <1>3, <1>5, <3>1 DEF TypeOK
    <2>4. Visible(t)' = Visible(t) /\ \A i \in Ids : View(t, i)' = View(t, i)
      BY <1>1, <2>2, SilentViews DEF Mine
    <2>5. top \notin Visible(t)
      BY <1>5 DEF Visible
    <2>6. Calling(t)' /\ Reading(t)'
      BY <1>1, <1>3, <1>5 DEF Mine, Calling, Reading
    <2>7. Locking(t)'
      BY <1>1, <1>3, <1>5, <2>1, <2>4, <2>5 DEF Mine, Locking
    <2> QED BY <1>3, <2>2, <2>3, <2>6, <2>7, SilentKeeps
  <1>6. CASE /\ top # NoRow /\ Free(t, top) /\ View(t, top) # "deleted"
             /\ lock' = [lock EXCEPT ![top] = t]
             /\ held' = [held EXCEPT ![t] = top]
             /\ snap' = [snap EXCEPT ![t] = {}]
             /\ Goto(t, "check")
    <2>1. /\ pc'[t] = "check" /\ held'[t] = top /\ lock'[top] = t
          /\ \A u \in Txns \ {t} : pc'[u] = pc[u] /\ held'[u] = held[u] /\ snap'[u] = snap[u]
          /\ \A i \in Ids : lock'[i] = lock[i] \/ (lock[i] = NoTxn /\ lock'[i] = t)
      BY <1>1, <1>2, <1>6 DEF Goto, Free, TypeOK
    <2>2. Silent(t)
      BY <1>3, <1>6, <2>1 DEF Silent, table, history
    <2>3. TypeOK'
      <3>1. /\ pc' \in [Txns -> Stage] /\ held' \in [Txns -> Ids \cup {NoRow}]
            /\ snap' \in [Txns -> SUBSET Ids] /\ lock' \in [Ids -> Txns \cup {NoTxn}]
        BY <1>1, <1>2, <1>6 DEF Goto, TypeOK, Stage
      <3> QED BY <1>1, <1>3, <1>6, <3>1 DEF TypeOK
    <2>4. View(t, top) # "absent"
      BY <1>1, <1>2, <1>3, <1>6 DEF Mine, Locking
    <2>5. Calling(t)' /\ Reading(t)'
      BY <1>1, <1>3, <2>1 DEF Mine, Calling, Reading
    <2>6. Alive(View(t, held[t]))'
      <3>1. View(t, held[t])' = View(t, top)
        BY <1>2, <1>3, <2>1 DEF View, Wrote
      <3> QED BY <1>6, <2>4, <3>1 DEF Alive
    <2>7. Locking(t)'
      BY <1>6, <2>1, <2>6 DEF Locking
    <2> QED BY <1>3, <2>2, <2>3, <2>5, <2>7, SilentKeeps
  <1> QED BY <1>4, <1>5, <1>6 DEF LockLatest, top

LEMMA CheckKeeps ==
    ASSUME Inv, NEW t \in Txns, Check(t)
    PROVE  Inv'
  <1>1. TypeOK /\ Mine(t) /\ Visible(t) \in SUBSET Ids /\ held[t] \in Ids \cup {NoRow}
    BY DEF Inv, SessionsInv, Visible, TypeOK
  <1>2. /\ pc[t] = "check" /\ held[t] # NoRow
        /\ UNCHANGED <<status, gen, accepted, rejected, lock, advisory, op, arg, snap, held, read,
                       seen, calls, own, fires, reports>>
    BY <1>1 DEF Check, table, locks, locals, history, Mine, Locking
  <1>3. /\ pc'[t] = IF StillLatest(t) THEN "read" ELSE "snapshot"
        /\ \A u \in Txns \ {t} : pc'[u] = pc[u]
    BY <1>1 DEF Check, Goto, TypeOK
  <1>4. Silent(t)
    BY <1>2, <1>3 DEF Silent, table, history
  <1>5. TypeOK'
    <2>1. pc' \in [Txns -> Stage]
      BY <1>1 DEF Check, Goto, TypeOK, Stage
    <2> QED BY <1>1, <1>2, <2>1 DEF TypeOK
  <1>6. Visible(t)' = Visible(t) /\ \A i \in Ids : View(t, i)' = View(t, i)
    BY <1>1, <1>4, SilentViews DEF Mine
  <1>7. StillLatest(t) => \A j \in Visible(t) : gen[j] <= gen[held[t]]
    BY <1>1, <1>2, NewestNone, NewestIs DEF StillLatest
  <1>8. Calling(t)' /\ Reading(t)'
    BY <1>1, <1>2, <1>3 DEF Mine, Calling, Reading
  <1>9. Locking(t)'
    <2>1. pc'[t] \in {"read", "snapshot"} /\ (pc'[t] = "read" => StillLatest(t))
      BY <1>3
    <2>2. lock[held[t]] = t /\ Alive(View(t, held[t]))
      BY <1>1, <1>2 DEF Mine, Locking
    <2>3. Alive(View(t, held[t]))'
      BY <1>1, <1>2, <2>2 DEF Alive, View, Wrote
    <2> QED BY <1>2, <1>6, <1>7, <2>1, <2>2, <2>3 DEF Locking
  <1> QED BY <1>2, <1>4, <1>5, <1>8, <1>9, SilentKeeps

\* A canceled row has not fired.
LEMMA CanceledIsDead ==
    ASSUME Inv, NEW t \in Txns, NEW i \in Ids, View(t, i) = "canceled"
    PROVE  Dead(t, i)
  <1>1. TypeOK /\ RowsInv /\ Claims(t) /\ FiresMatchStatus
    BY DEF Inv, SessionsInv, Mine
  <1>2. status[i] # "fired" /\ status[i] # "deleted"
    BY <1>1 DEF RowsInv, Owned, View, Terminal
  <1>3. fires[i] = 0
    BY <1>1, <1>2 DEF FiresMatchStatus
  <1>4. i \notin own[t].fires
    BY <1>1 DEF Claims, View, Wrote
  <1> QED BY <1>3, <1>4 DEF Dead

LEMMA ReadKeeps ==
    ASSUME Inv, NEW t \in Txns, Read(t)
    PROVE  Inv'
  <1> DEFINE latest == Newest(Visible(t))
  <1>1. /\ TypeOK /\ Mine(t) /\ InOrder(ViewOf(t)) /\ Visible(t) \in SUBSET Ids
        /\ held[t] \in Ids \cup {NoRow} /\ \A i \in Ids : View(t, i) \in Status
    BY DEF Inv, SessionsInv, Visible, TypeOK, RowsInv, Ordered, View, Wrote
  <1>2. /\ latest = NoRow <=> Visible(t) = {}
        /\ latest # NoRow => latest \in Visible(t) /\ latest \in Ids
        /\ \A j \in Visible(t) : gen[j] <= gen[latest]
    <2>1. /\ latest = NoRow <=> Visible(t) = {}
          /\ latest # NoRow => latest \in Visible(t)
      BY <1>1, NewestNone
    <2>2. Visible(t) # {} => \A j \in Visible(t) : gen[j] <= gen[latest]
      BY <1>1, NewestIs
    <2> QED BY <1>1, <2>1, <2>2
  <1>3. /\ pc[t] = "read"
        /\ UNCHANGED <<status, gen, accepted, rejected, lock, advisory, op, arg, snap, held, calls,
                       own, fires, reports>>
    BY DEF Read, table, locks, history
  <1>4. /\ pc'[t] = "act" /\ read'[t] = latest
        /\ seen'[t] = IF latest = NoRow THEN "absent" ELSE View(t, latest)
        /\ \A u \in Txns \ {t} : pc'[u] = pc[u] /\ read'[u] = read[u] /\ seen'[u] = seen[u]
    BY <1>1 DEF Read, Goto, TypeOK
  <1>5. TypeOK'
    <2>1. pc' \in [Txns -> Stage]
      BY <1>1 DEF Read, Goto, TypeOK, Stage
    <2>2. read' \in [Txns -> Ids \cup {NoRow}]
      BY <1>1, <1>2 DEF Read, TypeOK
    <2>3. seen' \in [Txns -> Status]
      <3>1. "absent" \in Status
        BY DEF Status
      <3> QED BY <1>1, <1>2, <3>1 DEF Read, TypeOK
    <2> QED BY <1>1, <1>3, <2>1, <2>2, <2>3 DEF TypeOK
  <1> HIDE DEF latest
  <1>6. Silent(t)
    BY <1>3, <1>4 DEF Silent, table, history
  <1>7. /\ Visible(t)' = Visible(t)
        /\ \A i \in Ids : View(t, i)' = View(t, i) /\ (Dead(t, i) => Dead(t, i)')
    BY <1>1, <1>6, SilentViews DEF Mine
  <1>8. Calling(t)'
    BY <1>1, <1>3, <1>4 DEF Mine, Calling
  <1>9. held[t] # NoRow => lock[held[t]] = t /\ Alive(View(t, held[t])) /\ latest = held[t]
    <2> SUFFICES ASSUME held[t] # NoRow
                 PROVE  lock[held[t]] = t /\ Alive(View(t, held[t])) /\ latest = held[t]
      OBVIOUS
    <2>1. /\ lock[held[t]] = t /\ Alive(View(t, held[t]))
          /\ \A j \in Visible(t) : gen[j] <= gen[held[t]]
      BY <1>1, <1>3 DEF Mine, Locking
    <2>2. held[t] \in Visible(t)
      BY <1>1, <2>1 DEF Visible, Alive
    <2> QED BY <1>1, <2>1, <2>2, NewestOne DEF latest
  <1>10. Locking(t)'
    <2>1. held[t] # NoRow => Alive(View(t, held[t]))'
      BY <1>1, <1>3, <1>9 DEF Alive, View, Wrote
    <2> QED BY <1>3, <1>4, <1>9, <2>1 DEF Locking
  <1>11. Reading(t)'
    <2>1. \A i \in Ids : i = latest => View(t, read[t])' = View(t, i)
      BY <1>3, <1>4 DEF View, Wrote
    <2>2. held[t] # NoRow => latest = held[t] /\ View(t, read[t])' = seen'[t]
      BY <1>1, <1>2, <1>4, <1>9, <2>1
    <2>3. IF latest = NoRow THEN seen'[t] = "absent" ELSE View(t, read[t])' # "absent"
      BY <1>1, <1>2, <1>4, <2>1 DEF Visible
    <2>4. seen'[t] = "canceled" => Dead(t, read[t])'
      <3> SUFFICES ASSUME seen'[t] = "canceled" PROVE Dead(t, read[t])'
        OBVIOUS
      <3>1. latest \in Ids /\ View(t, latest) = "canceled"
        BY <1>2, <1>4
      <3>2. Dead(t, latest)
        BY <3>1, CanceledIsDead
      <3> QED BY <1>3, <1>4, <3>1, <3>2 DEF Dead, View, Wrote
    <2>5. ASSUME op[t] = "cancel", latest # NoRow, arg[t] # latest, View(t, arg[t])' # "deleted"
          PROVE  gen[arg[t]] # gen[latest]
      <3>1. arg[t] \in Ids /\ status[arg[t]] # "absent"
        BY <1>1, <2>5 DEF Mine, Calling
      <3>2. View(t, arg[t]) # "absent" /\ View(t, arg[t]) # "deleted"
        BY <1>3, <2>5, <3>1 DEF View, Wrote
      <3>3. Alive(ViewOf(t)[arg[t]]) /\ Alive(ViewOf(t)[latest])
        BY <1>2, <2>5, <3>1, <3>2 DEF Alive, ViewOf, Visible
      <3> QED BY <1>1, <1>2, <2>5, <3>1, <3>3 DEF InOrder
    <2>6. op[t] = "schedule" =>
            latest = held[t] /\ \A j \in Visible(t) : gen[j] <= GenerationOf(latest)
      BY <1>1, <1>2, <1>3, <1>9 DEF Mine, Locking, GenerationOf
    <2>7. op[t] = "schedule" => \A j \in Visible(t)' : gen'[j] <= GenerationOf(read[t])'
      BY <1>3, <1>4, <1>7, <2>6 DEF GenerationOf
    <2>8. latest = NoRow => Visible(t)' = {}
      BY <1>2, <1>7
    <2> QED BY <1>3, <1>4, <2>2, <2>3, <2>4, <2>5, <2>6, <2>7, <2>8 DEF Reading
  <1> QED BY <1>3, <1>5, <1>6, <1>8, <1>10, <1>11, SilentKeeps

-----------------------------------------------------------------------------
(* What the calls do with the row they read *)

LEMMA ReturnOf ==
    ASSUME TypeOK, NEW t \in Txns, Return(t)
    PROVE  /\ pc'[t] = "open" /\ op'[t] = "none"
           /\ \A u \in Txns \ {t} :
                /\ pc'[u] = pc[u] /\ op'[u] = op[u] /\ arg'[u] = arg[u] /\ snap'[u] = snap[u]
                /\ held'[u] = held[u] /\ read'[u] = read[u] /\ seen'[u] = seen[u]
           /\ pc' \in [Txns -> Stage]
           /\ op' \in [Txns -> {"none", "schedule", "cancel", "accept", "purge"}]
           /\ arg' \in [Txns -> Ids \cup {NoRow}] /\ snap' \in [Txns -> SUBSET Ids]
           /\ held' \in [Txns -> Ids \cup {NoRow}] /\ read' \in [Txns -> Ids \cup {NoRow}]
           /\ seen' \in [Txns -> Status] /\ calls' \in [Txns -> 0 .. MaxCalls]
           /\ Calling(t)' /\ Locking(t)' /\ Reading(t)'
  <1>1. pc'[t] = "open" /\ op'[t] = "none"
    BY DEF Return, TypeOK
  <1>2. \A u \in Txns \ {t} :
          /\ pc'[u] = pc[u] /\ op'[u] = op[u] /\ arg'[u] = arg[u] /\ snap'[u] = snap[u]
          /\ held'[u] = held[u] /\ read'[u] = read[u] /\ seen'[u] = seen[u]
    BY DEF Return, TypeOK
  <1>3. /\ pc' \in [Txns -> Stage]
        /\ op' \in [Txns -> {"none", "schedule", "cancel", "accept", "purge"}]
        /\ seen' \in [Txns -> Status]
    BY DEF Return, TypeOK, Stage, Status
  <1>4. /\ arg' \in [Txns -> Ids \cup {NoRow}] /\ snap' \in [Txns -> SUBSET Ids]
        /\ held' \in [Txns -> Ids \cup {NoRow}] /\ read' \in [Txns -> Ids \cup {NoRow}]
        /\ calls' \in [Txns -> 0 .. MaxCalls]
    BY DEF Return, TypeOK
  <1>5. Calling(t)' /\ Locking(t)' /\ Reading(t)'
    BY <1>1 DEF Calling, Locking, Reading
  <1> QED BY <1>1, <1>2, <1>3, <1>4, <1>5

\* A call that writes nothing and returns.
LEMMA AnswerKeeps ==
    ASSUME Inv, NEW t \in Txns, Return(t), UNCHANGED <<table, locks, own, history>>
    PROVE  Inv'
  <1>1. TypeOK
    BY DEF Inv
  <1>2. Silent(t)
    BY <1>1, ReturnOf DEF Silent, locks
  <1>3. TypeOK'
    BY <1>1, ReturnOf DEF TypeOK, table, locks, history
  <1> QED BY <1>1, <1>2, <1>3, ReturnOf, SilentKeeps

LEMMA RejectKeeps ==
    ASSUME Inv, NEW t \in Txns, Reject(t)
    PROVE  Inv'
  <1>1. TypeOK /\ Mine(t)
    BY DEF Inv, SessionsInv
  <1>2. pc[t] = "act" /\ op[t] = "accept" /\ UNCHANGED <<table, locks, own, history>>
    BY DEF Reject
  <1>3. CASE Return(t)
    BY <1>2, <1>3, AnswerKeeps
  <1>4. CASE Goto(t, "reject") /\ UNCHANGED <<op, locals, calls>>
    <2>1. pc'[t] = "reject" /\ \A u \in Txns \ {t} : pc'[u] = pc[u]
      BY <1>1, <1>4 DEF Goto, TypeOK
    <2>2. Silent(t)
      BY <1>2, <1>4, <2>1 DEF Silent, locks, locals
    <2>3. TypeOK'
      <3>1. pc' \in [Txns -> Stage]
        BY <1>1, <1>4 DEF Goto, TypeOK, Stage
      <3> QED BY <1>1, <1>2, <1>4, <3>1 DEF TypeOK, table, locks, locals, history
    <2>4. Calling(t)' /\ Locking(t)' /\ Reading(t)'
      BY <1>1, <1>2, <1>4, <2>1 DEF Mine, Calling, Locking, Reading, table, locks, locals
    <2> QED BY <1>4, <2>2, <2>3, <2>4, SilentKeeps
  <1> QED BY <1>3, <1>4 DEF Reject

\* t adds to its claims; rows stay.
LEMMA InsertRejectionKeeps ==
    ASSUME Inv, NEW t \in Txns, InsertRejection(t)
    PROVE  Inv'
  <1>1. TypeOK /\ Mine(t) /\ pc[t] = "reject"
    BY DEF Inv, SessionsInv, InsertRejection
  <1>2. CASE Fail(t)
    BY <1>2, FailKeeps
  <1>3. CASE /\ own' = [own EXCEPT ![t].rejected = @ \cup {Rejection(t)}]
             /\ Return(t)
             /\ UNCHANGED <<table, locks, history>>
    <2>1. own \in [Txns -> Row]
      BY <1>1 DEF TypeOK, Row
    <2>2. Rejection(t) \in Ids \X (0 .. MaxTimers)
      <3>1. arg[t] \in Ids /\ read[t] \in Ids \cup {NoRow}
        BY <1>1 DEF Mine, Calling, TypeOK
      <3>2. GenerationOf(read[t]) \in 0 .. MaxTimers
        BY <1>1, <3>1, Numbers DEF GenerationOf, TypeOK
      <3> QED BY <3>1, <3>2 DEF Rejection
    <2>3. own' \in [Txns -> Row]
      <3> DEFINE new == own[t].rejected \cup {Rejection(t)}
      <3>1. own[t] \in Row /\ new \in SUBSET (Ids \X (0 .. MaxTimers))
        BY <2>1, <2>2 DEF Row
      <3> HIDE DEF new
      <3>2. [own[t] EXCEPT !.rejected = new] \in Row
        BY <3>1 DEF Row
      <3>3. own' = [own EXCEPT ![t] = [own[t] EXCEPT !.rejected = new]]
        BY <1>3 DEF new
      <3> QED BY <2>1, <3>2, <3>3
    <2>4. /\ \A u \in Txns \ {t} : own'[u] = own[u]
          /\ own'[t].status = own[t].status /\ own'[t].accepted = own[t].accepted
          /\ own'[t].fires = own[t].fires /\ own'[t].reports = own[t].reports
      BY <1>3, <2>1 DEF Row
    <2>5. Others(t) /\ Holds(t)
      BY <1>1, <1>3, <2>4, ReturnOf DEF Others, Holds, table, locks, history
    <2>6. TypeOK'
      BY <1>1, <1>3, <2>3, ReturnOf DEF TypeOK, Row, table, locks, history
    <2>7. UNCHANGED <<status, fires>>
      BY <1>3 DEF table, history
    <2>8. Claims(t)'
      BY <1>1, <2>4, <2>7 DEF Mine, Claims, Dead, View, Wrote
    <2>9. op'[t] = "none" /\ Mine(t)'
      BY <1>1, <1>3, <2>8, ReturnOf DEF Mine
    <2> QED BY <2>5, <2>6, <2>9, HoldsKeeps
  <1> QED BY <1>2, <1>3 DEF InsertRejection

-----------------------------------------------------------------------------
(* Steps that change a row *)

\* The claims of t follow the row it marks.
LEMMA MarkClaims ==
    ASSUME Inv, NEW t \in Txns, NEW i \in Ids, NEW s \in Status, Marks(t, i, s), UNCHANGED fires,
           own'[t].accepted = own'[t].fires,
           own'[t].fires = IF s = "fired" THEN own[t].fires \cup {i} ELSE own[t].fires,
           \A r \in own'[t].reports :
              \/ r \in own[t].reports
              \/ s = "canceled" /\ r[1] \in Ids /\ r[2] = i /\ (r[1] = i \/ View(t, r[1]) = "deleted"),
           s = "fired" => View(t, i) = "scheduled"
    PROVE  /\ Claims(t)'
           /\ View(t, i)' = s /\ \A j \in Ids \ {i} : View(t, j)' = View(t, j)
  <1>1. TypeOK /\ RowsInv /\ Claims(t) /\ FiresMatchStatus
    BY DEF Inv, SessionsInv, Mine
  <1>2. s \notin {"absent", "scheduled"}
    BY DEF Marks, Terminal
  <1>3. /\ own'[t].status[i] = s /\ View(t, i)' = s
        /\ \A j \in Ids \ {i} : View(t, j)' = View(t, j) /\ own'[t].status[j] = own[t].status[j]
        /\ UNCHANGED status
    BY <1>2 DEF Marks, View, Wrote
  <1>4. View(t, i) = "scheduled" => /\ i \notin own[t].fires /\ fires[i] = 0
                                    /\ status[i] \in {"absent", "scheduled"}
    <2> SUFFICES ASSUME View(t, i) = "scheduled"
                 PROVE  /\ i \notin own[t].fires /\ fires[i] = 0
                        /\ status[i] \in {"absent", "scheduled"}
      OBVIOUS
    <2>1. i \notin own[t].fires
      BY <1>1 DEF Claims, View, Wrote
    <2>2. status[i] \in {"absent", "scheduled"}
      BY <1>1 DEF View, RowsInv, Owned
    <2>3. fires[i] = 0
      BY <1>1, <2>2 DEF FiresMatchStatus
    <2> QED BY <2>1, <2>2, <2>3
  <1>5. View(t, i) # "scheduled" => View(t, i) \in Terminal /\ s = "deleted"
    BY DEF Marks
  <1>6. ASSUME NEW j \in own'[t].fires
        PROVE  own'[t].status[j] \in {"fired", "deleted"} /\ status'[j] \in {"absent", "scheduled"}
    <2>1. own[t].fires \subseteq Ids
      BY <1>1 DEF TypeOK
    <2>2. CASE j = i /\ View(t, i) = "scheduled"
      BY <1>3, <1>4, <1>6, <2>2
    <2>3. CASE j = i /\ View(t, i) # "scheduled"
      BY <1>1, <1>3, <1>5, <1>6, <2>3 DEF Claims
    <2>4. CASE j # i
      BY <1>1, <1>3, <1>6, <2>1, <2>4 DEF Claims
    <2> QED BY <2>2, <2>3, <2>4
  <1>7. \A j \in Ids : own'[t].status[j] = "fired" => j \in own'[t].fires
    BY <1>1, <1>3 DEF Claims
  <1>8. ASSUME NEW r \in own'[t].reports
        PROVE  Dead(t, r[2])' /\ (r[1] = r[2] \/ View(t, r[1])' = "deleted")
    <2>1. CASE r \in own[t].reports
      <3>1. r[1] \in Ids /\ r[2] \in Ids
        BY <1>1, <2>1 DEF TypeOK
      <3>2. Dead(t, r[2]) /\ (r[1] = r[2] \/ View(t, r[1]) = "deleted")
        BY <1>1, <2>1 DEF Claims
      <3>3. View(t, r[2])' \in {"canceled", "deleted"} /\ fires'[r[2]] = 0 /\ r[2] \notin own'[t].fires
        BY <1>3, <1>5, <3>1, <3>2 DEF Dead
      <3>4. View(t, r[1]) = "deleted" => r[1] # i
        BY <1>5 DEF Terminal
      <3> QED BY <1>3, <3>1, <3>2, <3>3, <3>4 DEF Dead
    <2>2. CASE s = "canceled" /\ r[1] \in Ids /\ r[2] = i /\ (r[1] = i \/ View(t, r[1]) = "deleted")
      <3>1. View(t, i) = "scheduled"
        BY <1>5, <2>2
      <3>2. Dead(t, i)'
        BY <1>3, <1>4, <2>2, <3>1 DEF Dead
      <3>3. View(t, r[1]) = "deleted" => View(t, r[1])' = "deleted"
        BY <1>3, <2>2, <3>1
      <3> QED BY <2>2, <3>2, <3>3 DEF Dead
    <2> QED BY <2>1, <2>2
  <1> QED BY <1>3, <1>6, <1>7, <1>8 DEF Claims

\* The uncommitted writes of t become o, in which row i is s.
Updates(t, i, s, o) ==
    own' = [own EXCEPT ![t] = o] /\ o.status = [own[t].status EXCEPT ![i] = s]

LEMMA OwnRow ==
    ASSUME TypeOK, NEW t \in Txns, NEW i \in Ids, NEW s \in Status, NEW o \in Row,
           Updates(t, i, s, o)
    PROVE  /\ own' \in [Txns -> Row] /\ own'[t] = o
           /\ \A u \in Txns \ {t} : own'[u] = own[u]
           /\ \A u \in Txns, j \in Ids :
                 own'[u].status[j] = IF u = t /\ j = i THEN s ELSE own[u].status[j]
  <1>1. own \in [Txns -> Row]
    BY DEF TypeOK, Row
  <1>2. own' \in [Txns -> Row] /\ own'[t] = o /\ \A u \in Txns \ {t} : own'[u] = own[u]
    BY <1>1 DEF Updates
  <1>3. own[t].status \in [Ids -> Status]
    BY <1>1 DEF Row
  <1>4. \A j \in Ids : own'[t].status[j] = IF j = i THEN s ELSE own[t].status[j]
    BY <1>2, <1>3 DEF Updates
  <1> QED BY <1>2, <1>4

\* transition_timer and purge_history, as the rows see them.
LEMMA MarksOf ==
    ASSUME TypeOK, NEW t \in Txns, NEW i \in Ids, NEW s \in Status, NEW o \in Row,
           Updates(t, i, s, o), Free(t, i), lock' = [lock EXCEPT ![i] = t],
           UNCHANGED <<table, advisory, history>>,
           \/ View(t, i) = "scheduled" /\ s \in Terminal
           \/ View(t, i) \in Terminal /\ s = "deleted"
    PROVE  Marks(t, i, s) /\ lock' \in [Ids -> Txns \cup {NoTxn}]
  <1>1. \A u \in Txns, j \in Ids :
            own'[u].status[j] = IF u = t /\ j = i THEN s ELSE own[u].status[j]
    BY OwnRow
  <1>2. /\ lock[i] \in {NoTxn, t} /\ lock'[i] = t
        /\ \A j \in Ids \ {i} : lock'[j] = lock[j]
        /\ lock' \in [Ids -> Txns \cup {NoTxn}]
    BY DEF Free, TypeOK
  <1> QED BY <1>1, <1>2 DEF Marks, table

\* What a call that found a scheduled row knows.
LEMMA ReadScheduled ==
    ASSUME TypeOK, NEW t \in Txns, Reading(t), pc[t] = "act", seen[t] = "scheduled"
    PROVE  read[t] \in Ids
  <1>1. read[t] # NoRow
    BY DEF Reading
  <1> QED BY <1>1 DEF TypeOK

\* No row t sees is scheduled once the predecessor is superseded.
LEMMA SupersedeKeeps ==
    ASSUME Inv, NEW t \in Txns, Supersede(t)
    PROVE  Inv'
  <1>1. /\ TypeOK /\ Mine(t) /\ InOrder(ViewOf(t)) /\ Visible(t) \subseteq Ids
        /\ read[t] \in Ids \cup {NoRow} /\ own \in [Txns -> Row]
    BY DEF Inv, SessionsInv, RowsInv, Ordered, Visible, TypeOK, Row
  <1>2. /\ pc[t] = "act" /\ op[t] = "schedule"
        /\ UNCHANGED <<op, arg, snap, held, read, seen, calls>>
    BY DEF Supersede, locals
  <1>3. pc'[t] = "insert" /\ (\A u \in Txns \ {t} : pc'[u] = pc[u]) /\ pc' \in [Txns -> Stage]
    BY <1>1 DEF Supersede, Goto, TypeOK, Stage
  <1>4. /\ advisory = t /\ read[t] = held[t]
        /\ read[t] = NoRow => Visible(t) = {}
        /\ \A j \in Visible(t) : gen[j] <= GenerationOf(read[t])
        /\ read[t] # NoRow => /\ lock[read[t]] = t /\ Alive(View(t, read[t]))
                              /\ View(t, read[t]) = seen[t]
    BY <1>1, <1>2 DEF Mine, Calling, Locking, Reading
  <1>5. \A j \in Visible(t) : View(t, j) = "scheduled" => j = read[t] /\ seen[t] = "scheduled"
    <2> SUFFICES ASSUME NEW j \in Visible(t), View(t, j) = "scheduled"
                 PROVE  j = read[t] /\ seen[t] = "scheduled"
      OBVIOUS
    <2>1. read[t] \in Ids /\ Alive(View(t, read[t])) /\ Alive(View(t, j)) /\ j \in Ids
      BY <1>1, <1>4 DEF Visible, Alive
    <2>2. gen[j] <= gen[read[t]] /\ gen[j] \in Nat /\ gen[read[t]] \in Nat
      BY <1>1, <1>4, <2>1, Numbers DEF GenerationOf, TypeOK
    <2>3. ASSUME j # read[t] PROVE FALSE
      <3>1. gen[read[t]] < gen[j]
        BY <1>1, <2>1, <2>3 DEF InOrder, ViewOf
      <3> QED BY <2>2, <3>1
    <2> QED BY <1>1, <1>4, <2>1, <2>3, Numbers
  <1>6. CASE seen[t] # "scheduled" /\ UNCHANGED <<table, locks, own, history>>
    <2>1. Silent(t)
      BY <1>2, <1>3, <1>6 DEF Silent, locks
    <2>2. TypeOK'
      BY <1>1, <1>2, <1>3, <1>6 DEF TypeOK, table, locks, history
    <2>3. /\ Visible(t)' = Visible(t) /\ gen' = gen /\ lock' = lock /\ advisory' = advisory
          /\ \A i \in Ids : View(t, i)' = View(t, i)
      BY <1>1, <1>6, <2>1, SilentViews DEF Mine, locks
    <2>4. Calling(t)'
      BY <1>2, <1>3, <1>4, <2>3 DEF Calling
    <2>5. Locking(t)'
      <3>1. held[t] # NoRow => Alive(View(t, held[t]))'
        BY <1>1, <1>2, <1>4, <1>6 DEF Alive, View, Wrote, table
      <3> QED BY <1>2, <1>3, <1>4, <2>3, <3>1 DEF Locking
    <2>6. Reading(t)'
      <3>1. \A j \in Visible(t) : View(t, j)' # "scheduled"
        BY <1>1, <1>5, <1>6, <2>3
      <3> QED BY <1>2, <1>3, <1>4, <2>3, <3>1 DEF Reading, GenerationOf
    <2> QED BY <1>2, <2>1, <2>2, <2>4, <2>5, <2>6, SilentKeeps
  <1>7. CASE /\ seen[t] = "scheduled" /\ Transition(t)
             /\ Write(t, read[t], "superseded")
    <2> DEFINE i == read[t]
               o == [own[t] EXCEPT !.status = [own[t].status EXCEPT ![i] = "superseded"]]
    <2>1. i \in Ids /\ "superseded" \in Status /\ "superseded" \in Terminal
      BY <1>1, <1>2, <1>7, ReadScheduled DEF Mine, Status, Terminal
    <2>2. o \in Row /\ o.status = [own[t].status EXCEPT ![i] = "superseded"]
              /\ o.accepted = own[t].accepted /\ o.fires = own[t].fires /\ o.reports = own[t].reports
      BY <1>1, <2>1 DEF Row
    <2>3. Updates(t, i, "superseded", o)
      BY <1>7, <2>2 DEF Updates, Write
    <2>4. /\ own' \in [Txns -> Row] /\ own'[t] = o
          /\ \A u \in Txns \ {t} : own'[u] = own[u]
      <3> HIDE DEF i, o
      <3> QED BY <1>1, <2>1, <2>2, <2>3, OwnRow
    <2>5. Marks(t, i, "superseded") /\ lock' \in [Ids -> Txns \cup {NoTxn}]
      <3>1. /\ View(t, i) = "scheduled" /\ Free(t, i) /\ lock' = [lock EXCEPT ![i] = t]
            /\ UNCHANGED <<table, advisory, history>>
        BY <1>7 DEF Transition, Transitions
      <3> HIDE DEF i, o
      <3> QED BY <1>1, <2>1, <2>2, <2>3, <3>1, MarksOf
    <2>6. UNCHANGED <<status, gen, accepted, rejected, advisory, fires, reports>>
      BY <1>7 DEF Transition, table, history
    <2>7. Others(t)
      BY <1>2, <1>3, <2>4, <2>6 DEF Others
    <2>8. TypeOK'
      BY <1>1, <1>2, <1>3, <2>4, <2>5, <2>6 DEF TypeOK, Row
    <2>9. /\ Claims(t)'
          /\ \A k \in Ids : View(t, k)' = IF k = i THEN "superseded" ELSE View(t, k)
      <3>1. Claims(t)
        BY <1>1 DEF Mine
      <3>2. /\ own'[t].accepted = own'[t].fires /\ own'[t].fires = own[t].fires
            /\ own'[t].reports = own[t].reports
        BY <2>2, <2>4, <3>1 DEF Claims
      <3>3. /\ Claims(t)'
            /\ \A k \in Ids : k = i => View(t, k)' = "superseded"
            /\ \A k \in Ids \ {i} : View(t, k)' = View(t, k)
        <4> SUFFICES ASSUME NEW k \in Ids, k = i
                     PROVE  /\ Claims(t)' /\ View(t, k)' = "superseded"
                            /\ \A j \in Ids \ {k} : View(t, j)' = View(t, j)
          BY <2>1
        <4> HIDE DEF i, o
        <4> QED BY <2>1, <2>5, <2>6, <3>2, MarkClaims
      <3> QED BY <3>3
    <2>10. /\ Visible(t)' \subseteq Visible(t)
           /\ \A j \in Visible(t)' : j \in Ids /\ View(t, j)' # "scheduled"
      <3>1. i \in Visible(t)
        BY <1>7, <2>1 DEF Visible, Transition, Transitions
      <3>2. \A j \in Ids : View(t, j)' \notin {"absent", "deleted"} => j \in Visible(t)
        BY <2>9, <3>1 DEF Visible
      <3>3. \A j \in Visible(t) : View(t, j)' # "scheduled"
        BY <1>1, <1>5, <2>9
      <3> QED BY <3>2, <3>3 DEF Visible
    <2>11. Calling(t)'
      BY <1>2, <1>3, <1>4, <2>6 DEF Calling
    <2>12. Locking(t)'
      <3>1. lock'[i] = t
        BY <2>5 DEF Marks
      <3>2. Alive(View(t, held[t]))'
        <4>1. \A k \in Ids : k = held'[t] => Alive(View(t, k)')
          BY <1>2, <1>4, <2>9 DEF Alive
        <4> QED BY <1>2, <1>4, <2>1, <4>1 DEF Alive, View, Wrote
      <3> QED BY <1>2, <1>3, <1>4, <3>1, <3>2 DEF Locking
    <2>13. Reading(t)'
      <3>1. read'[t] = held'[t] /\ read'[t] # NoRow /\ gen' = gen /\ read' = read
        BY <1>2, <1>4, <2>1, <2>6, Numbers
      <3>2. \A j \in Visible(t)' : gen[j] <= gen[read[t]]
        BY <1>4, <2>1, <2>10, Numbers DEF GenerationOf
      <3>3. GenerationOf(read[t])' = gen[read[t]]
        BY <3>1 DEF GenerationOf
      <3> QED BY <1>3, <2>10, <3>1, <3>2, <3>3 DEF Reading
    <2>14. Mine(t)' /\ op'[t] = op[t]
      BY <1>2, <2>9, <2>11, <2>12, <2>13 DEF Mine
    <2> HIDE DEF i, o
    <2> QED BY <2>1, <2>5, <2>7, <2>8, <2>14, MarksKeeps
  <1> QED BY <1>6, <1>7 DEF Supersede

\* Equal generations are one row's, unless the observed one was purged.
LEMMA CancelsObserved ==
    ASSUME TypeOK, NEW t \in Txns, Mine(t), pc[t] = "act", op[t] = "cancel", read[t] # NoRow,
           ~ CancelIsStale(t)
    PROVE  /\ arg[t] \in Ids /\ read[t] \in Ids
           /\ arg[t] = read[t] \/ View(t, arg[t]) = "deleted"
  <1>1. arg[t] \in Ids /\ read[t] \in Ids
    BY DEF Mine, Calling, TypeOK
  <1>2. gen[arg[t]] = gen[read[t]]
    BY DEF CancelIsStale, GenerationOf
  <1> QED BY <1>1, <1>2 DEF Mine, Reading

LEMMA CancelKeeps ==
    ASSUME Inv, NEW t \in Txns, Cancel(t)
    PROVE  Inv'
  <1>1. TypeOK /\ Mine(t) /\ own \in [Txns -> Row]
    BY DEF Inv, SessionsInv, TypeOK, Row
  <1>2. pc[t] = "act" /\ op[t] = "cancel" /\ Return(t)
    BY DEF Cancel
  <1>3. CASE UNCHANGED <<table, locks, own, history>>
    BY <1>2, <1>3, AnswerKeeps
  <1>4. CASE /\ read[t] # NoRow /\ ~ CancelIsStale(t) /\ AlreadyCanceled(t)
             /\ own' = [own EXCEPT ![t].reports = @ \cup {<<arg[t], read[t]>>}]
             /\ UNCHANGED <<table, locks, history>>
    <2> DEFINE new == own[t].reports \cup {<<arg[t], read[t]>>}
    <2>1. /\ arg[t] \in Ids /\ read[t] \in Ids
          /\ arg[t] = read[t] \/ View(t, arg[t]) = "deleted"
      BY <1>1, <1>2, <1>4, CancelsObserved
    <2>2. own[t] \in Row /\ new \in SUBSET (Ids \X Ids)
      BY <1>1, <2>1 DEF Row
    <2>3. own' = [own EXCEPT ![t] = [own[t] EXCEPT !.reports = new]]
      BY <1>4
    <2>4. own' \in [Txns -> Row]
      <3> HIDE DEF new
      <3>1. [own[t] EXCEPT !.reports = new] \in Row
        BY <2>2 DEF Row
      <3> QED BY <1>1, <2>3, <3>1
    <2>5. /\ \A u \in Txns \ {t} : own'[u] = own[u]
          /\ own'[t].status = own[t].status /\ own'[t].accepted = own[t].accepted
          /\ own'[t].fires = own[t].fires /\ own'[t].reports = new
      <3> HIDE DEF new
      <3> QED BY <1>1, <2>3 DEF Row
    <2>6. Others(t) /\ Holds(t)
      BY <1>1, <1>2, <1>4, <2>5, ReturnOf DEF Others, Holds, table, locks, history
    <2>7. TypeOK'
      BY <1>1, <1>2, <1>4, <2>4, ReturnOf DEF TypeOK, Row, table, locks, history
    <2>8. Dead(t, read[t])
      BY <1>1, <1>2, <1>4 DEF Mine, Reading, AlreadyCanceled
    <2>9. UNCHANGED <<status, fires>>
      BY <1>4 DEF table, history
    <2>10. \A i \in Ids : View(t, i)' = View(t, i) /\ (Dead(t, i) => Dead(t, i)')
      BY <2>5, <2>9 DEF View, Wrote, Dead
    <2>11. Claims(t)'
      <3>1. \A r \in own[t].reports :
              r[1] \in Ids /\ r[2] \in Ids /\ Dead(t, r[2]) /\ (r[1] = r[2] \/ View(t, r[1]) = "deleted")
        BY <1>1 DEF Mine, Claims, TypeOK
      <3>2. \A r \in new :
              r[1] \in Ids /\ r[2] \in Ids /\ Dead(t, r[2]) /\ (r[1] = r[2] \/ View(t, r[1]) = "deleted")
        BY <2>1, <2>8, <3>1
      <3>3. \A r \in own'[t].reports : Dead(t, r[2])' /\ (r[1] = r[2] \/ View(t, r[1])' = "deleted")
        BY <2>5, <2>10, <3>2
      <3> QED BY <1>1, <2>5, <2>9, <3>3 DEF Mine, Claims
    <2>12. op'[t] = "none" /\ Mine(t)'
      BY <1>1, <1>2, <2>11, ReturnOf DEF Mine
    <2> QED BY <2>6, <2>7, <2>12, HoldsKeeps
  <1>5. CASE /\ read[t] # NoRow /\ ~ CancelIsStale(t) /\ seen[t] = "scheduled"
             /\ Transition(t)
             /\ own' = [own EXCEPT ![t].status[read[t]] = "canceled",
                                   ![t].reports = @ \cup {<<arg[t], read[t]>>}]
    <2> DEFINE i == read[t]
               new == own[t].reports \cup {<<arg[t], i>>}
               o == [own[t] EXCEPT !.status = [own[t].status EXCEPT ![i] = "canceled"], !.reports = new]
    <2>1. /\ arg[t] \in Ids /\ i \in Ids /\ "canceled" \in Status /\ "canceled" \in Terminal
          /\ arg[t] = i \/ View(t, arg[t]) = "deleted"
      BY <1>1, <1>2, <1>5, CancelsObserved DEF Status, Terminal
    <2>2. own[t] \in Row /\ new \in SUBSET (Ids \X Ids)
      BY <1>1, <2>1 DEF Row
    <2>3. o \in Row /\ o.status = [own[t].status EXCEPT ![i] = "canceled"]
              /\ o.accepted = own[t].accepted /\ o.fires = own[t].fires /\ o.reports = new
      <3> HIDE DEF new
      <3> QED BY <2>1, <2>2 DEF Row
    <2>4. own' = [own EXCEPT ![t] = o]
      BY <1>1, <1>5 DEF Row
    <2>5. Updates(t, i, "canceled", o)
      BY <2>3, <2>4 DEF Updates
    <2>6. /\ View(t, i) = "scheduled" /\ Free(t, i) /\ lock' = [lock EXCEPT ![i] = t]
          /\ UNCHANGED <<table, advisory, history>>
      BY <1>5 DEF Transition, Transitions
    <2>7. \A r \in new :
            \/ r \in own[t].reports
            \/ r[1] \in Ids /\ r[2] = i /\ (r[1] = i \/ View(t, r[1]) = "deleted")
      BY <2>1
    <2>8. own[t].accepted = own[t].fires
      BY <1>1 DEF Mine, Claims
    <2> HIDE DEF i, o, new
    <2>9. /\ own' \in [Txns -> Row] /\ own'[t] = o
          /\ \A u \in Txns \ {t} : own'[u] = own[u]
      BY <1>1, <2>1, <2>3, <2>5, OwnRow
    <2>10. Marks(t, i, "canceled") /\ lock' \in [Ids -> Txns \cup {NoTxn}]
      BY <1>1, <2>1, <2>3, <2>5, <2>6, MarksOf
    <2>11. Others(t)
      BY <1>1, <1>2, <2>6, <2>9, ReturnOf DEF Others, table, history
    <2>12. TypeOK'
      BY <1>1, <1>2, <2>6, <2>9, <2>10, ReturnOf DEF TypeOK, Row, table, history
    <2>13. Claims(t)'
      <3>1. UNCHANGED fires
        BY <2>6 DEF history
      <3>2. own'[t].accepted = own'[t].fires /\ own'[t].fires = own[t].fires /\ own'[t].reports = new
        BY <2>3, <2>8, <2>9
      <3> QED BY <2>1, <2>7, <2>10, <3>1, <3>2, MarkClaims
    <2>14. Mine(t)' /\ op'[t] = "none"
      BY <1>1, <1>2, <2>13, ReturnOf DEF Mine
    <2> QED BY <2>1, <2>10, <2>11, <2>12, <2>14, MarksKeeps
  <1> QED BY <1>3, <1>4, <1>5 DEF Cancel

LEMMA AcceptKeeps ==
    ASSUME Inv, NEW t \in Txns, Accept(t)
    PROVE  Inv'
  <1>1. TypeOK /\ Mine(t) /\ own \in [Txns -> Row]
    BY DEF Inv, SessionsInv, TypeOK, Row
  <1>2. pc[t] = "act" /\ arg[t] = read[t] /\ Return(t)
    BY DEF Accept, TriggerMatches
  <1>3. CASE UNCHANGED <<table, locks, own, history>>
    BY <1>2, <1>3, AnswerKeeps
  <1>4. CASE /\ seen[t] = "scheduled"
             /\ Transition(t)
             /\ own' = [own EXCEPT ![t].status[read[t]] = "fired",
                                   ![t].accepted = @ \cup {read[t]},
                                   ![t].fires = @ \cup {arg[t]}]
    <2> DEFINE i == read[t]
               A == own[t].accepted \cup {i}
               F == own[t].fires \cup {i}
               o == [own[t] EXCEPT !.status = [own[t].status EXCEPT ![i] = "fired"],
                                   !.accepted = A, !.fires = F]
    <2>1. i \in Ids /\ "fired" \in Status /\ "fired" \in Terminal
      BY <1>1, <1>2, <1>4, ReadScheduled DEF Mine, Status, Terminal
    <2>2. own[t] \in Row /\ A \in SUBSET Ids /\ F \in SUBSET Ids
      BY <1>1, <2>1 DEF Row
    <2>3. o \in Row /\ o.status = [own[t].status EXCEPT ![i] = "fired"]
              /\ o.accepted = A /\ o.fires = F /\ o.reports = own[t].reports
      <3> HIDE DEF A, F
      <3> QED BY <2>1, <2>2 DEF Row
    <2>4. own' = [own EXCEPT ![t] = o]
      BY <1>1, <1>2, <1>4 DEF Row
    <2>5. Updates(t, i, "fired", o)
      BY <2>3, <2>4 DEF Updates
    <2>6. /\ View(t, i) = "scheduled" /\ Free(t, i) /\ lock' = [lock EXCEPT ![i] = t]
          /\ UNCHANGED <<table, advisory, history>>
      BY <1>4 DEF Transition, Transitions
    <2>7. A = F /\ F = own[t].fires \cup {i}
      BY <1>1 DEF Mine, Claims
    <2> HIDE DEF i, o, A, F
    <2>8. /\ own' \in [Txns -> Row] /\ own'[t] = o
          /\ \A u \in Txns \ {t} : own'[u] = own[u]
      BY <1>1, <2>1, <2>3, <2>5, OwnRow
    <2>9. Marks(t, i, "fired") /\ lock' \in [Ids -> Txns \cup {NoTxn}]
      BY <1>1, <2>1, <2>3, <2>5, <2>6, MarksOf
    <2>10. Others(t)
      BY <1>1, <1>2, <2>6, <2>8, ReturnOf DEF Others, table, history
    <2>11. TypeOK'
      BY <1>1, <1>2, <2>6, <2>8, <2>9, ReturnOf DEF TypeOK, Row, table, history
    <2>12. Claims(t)'
      <3>1. UNCHANGED fires
        BY <2>6 DEF history
      <3>2. /\ own'[t].accepted = own'[t].fires /\ own'[t].fires = own[t].fires \cup {i}
            /\ own'[t].reports = own[t].reports
        BY <2>3, <2>7, <2>8
      <3> QED BY <2>1, <2>6, <2>9, <3>1, <3>2, MarkClaims
    <2>13. Mine(t)' /\ op'[t] = "none"
      BY <1>1, <1>2, <2>12, ReturnOf DEF Mine
    <2> QED BY <2>1, <2>9, <2>10, <2>11, <2>13, MarksKeeps
  <1> QED BY <1>3, <1>4 DEF Accept

LEMMA PurgeRowKeeps ==
    ASSUME Inv, NEW t \in Txns, PurgeRow(t)
    PROVE  Inv'
  <1> DEFINE i == held[t]
             rest == snap[t] \ {i}
  <1>1. TypeOK /\ Mine(t) /\ own \in [Txns -> Row] /\ pc[t] = "purge"
    BY DEF Inv, SessionsInv, TypeOK, Row, PurgeRow
  <1>2. /\ i \in Ids /\ snap[t] \subseteq Ids
        /\ \A j \in snap[t] : View(t, j) \in Terminal \cup {"deleted"}
        /\ View(t, i) \in Terminal \cup {"deleted"}
    <2>1. i \in snap[t] /\ snap[t] \subseteq Ids
        /\ \A j \in snap[t] : View(t, j) \in Terminal \cup {"deleted"}
      BY <1>1 DEF Mine, Locking, TypeOK
    <2> QED BY <2>1
  <1>3. /\ \A u \in Txns \ {t} :
             /\ pc'[u] = pc[u] /\ op'[u] = op[u] /\ arg'[u] = arg[u] /\ snap'[u] = snap[u]
             /\ held'[u] = held[u] /\ read'[u] = read[u] /\ seen'[u] = seen[u]
        /\ pc' \in [Txns -> Stage]
        /\ op' \in [Txns -> {"none", "schedule", "cancel", "accept", "purge"}]
        /\ arg' \in [Txns -> Ids \cup {NoRow}] /\ snap' \in [Txns -> SUBSET Ids]
        /\ held' \in [Txns -> Ids \cup {NoRow}] /\ read' \in [Txns -> Ids \cup {NoRow}]
        /\ seen' \in [Txns -> Status] /\ calls' \in [Txns -> 0 .. MaxCalls]
        /\ op'[t] = "schedule" => op[t] = "schedule"
        /\ \/ Calling(t)' /\ Locking(t)' /\ Reading(t)'
           \/ /\ pc'[t] = "purge" /\ op'[t] = op[t] /\ arg'[t] = arg[t]
              /\ held'[t] \in snap'[t] /\ snap'[t] \subseteq snap[t]
    <2>1. CASE Return(t)
      BY <1>1, <2>1, ReturnOf
    <2>2. CASE \E j \in rest : /\ held' = [held EXCEPT ![t] = j]
                               /\ snap' = [snap EXCEPT ![t] = rest]
                               /\ UNCHANGED <<pc, op, arg, read, seen, calls>>
      BY <1>1, <1>2, <2>2 DEF TypeOK
    <2> QED BY <2>1, <2>2 DEF PurgeRow
  <1>4. UNCHANGED <<table, advisory, history>> /\ Free(t, i)
    BY DEF PurgeRow
  <1>5. ASSUME \A j \in Ids : View(t, j)' \in {View(t, j), "deleted"}, advisory' = advisory
        PROVE  Calling(t)' /\ Locking(t)' /\ Reading(t)'
    <2>1. CASE /\ pc'[t] = "purge" /\ op'[t] = op[t] /\ arg'[t] = arg[t]
               /\ held'[t] \in snap'[t] /\ snap'[t] \subseteq snap[t]
      <3>1. \A j \in snap'[t] : View(t, j)' \in Terminal \cup {"deleted"}
        BY <1>2, <1>5, <2>1
      <3> QED BY <1>1, <1>4, <1>5, <2>1, <3>1 DEF Mine, Calling, Locking, Reading, table
    <2> QED BY <1>3, <2>1
  <1>6. CASE UNCHANGED <<lock, own>>
    <2>1. Silent(t)
      BY <1>3, <1>4, <1>6 DEF Silent
    <2>2. TypeOK'
      BY <1>1, <1>3, <1>4, <1>6 DEF TypeOK, table, history
    <2>3. \A j \in Ids : View(t, j)' = View(t, j)
      BY <1>1, <2>1, SilentViews DEF Mine
    <2> QED BY <1>3, <1>4, <1>5, <2>1, <2>2, <2>3, SilentKeeps
  <1>7. CASE /\ View(t, i) # "deleted"
             /\ lock' = [lock EXCEPT ![i] = t]
             /\ Write(t, i, "deleted")
    <2> DEFINE o == [own[t] EXCEPT !.status = [own[t].status EXCEPT ![i] = "deleted"]]
    <2>1. "deleted" \in Status /\ "deleted" # "fired" /\ View(t, i) \in Terminal
      BY <1>2, <1>7 DEF Status
    <2>2. o \in Row /\ o.status = [own[t].status EXCEPT ![i] = "deleted"]
              /\ o.accepted = own[t].accepted /\ o.fires = own[t].fires /\ o.reports = own[t].reports
      BY <1>1, <1>2, <2>1 DEF Row
    <2>3. Updates(t, i, "deleted", o)
      BY <1>7, <2>2 DEF Updates, Write
    <2>4. own[t].accepted = own[t].fires
      BY <1>1 DEF Mine, Claims
    <2> HIDE DEF i, o
    <2>5. /\ own' \in [Txns -> Row] /\ own'[t] = o
          /\ \A u \in Txns \ {t} : own'[u] = own[u]
      BY <1>1, <1>2, <2>1, <2>2, <2>3, OwnRow
    <2>6. Marks(t, i, "deleted") /\ lock' \in [Ids -> Txns \cup {NoTxn}]
      BY <1>1, <1>2, <1>4, <1>7, <2>1, <2>2, <2>3, MarksOf
    <2>7. Others(t)
      BY <1>3, <1>4, <2>5 DEF Others, table, history
    <2>8. TypeOK'
      BY <1>1, <1>3, <1>4, <2>5, <2>6 DEF TypeOK, Row, table, history
    <2>9. Claims(t)' /\ \A j \in Ids : View(t, j)' \in {View(t, j), "deleted"}
      <3>1. UNCHANGED fires
        BY <1>4 DEF history
      <3>2. /\ own'[t].accepted = own'[t].fires /\ own'[t].fires = own[t].fires
            /\ own'[t].reports = own[t].reports
        BY <2>2, <2>4, <2>5
      <3> SUFFICES ASSUME NEW k \in Ids, k = i
                   PROVE  /\ Claims(t)' /\ View(t, k)' = "deleted"
                          /\ \A j \in Ids \ {k} : View(t, j)' = View(t, j)
        BY <1>2
      <3> QED BY <2>1, <2>6, <3>1, <3>2, MarkClaims
    <2>10. Mine(t)'
      BY <1>4, <1>5, <2>9 DEF Mine
    <2> QED BY <1>2, <1>3, <2>1, <2>6, <2>7, <2>8, <2>10, MarksKeeps
  <1> QED BY <1>6, <1>7 DEF PurgeRow

\* What the locks of schedule_timer exclude.
LEMMA NoClash ==
    ASSUME Inv, NEW t \in Txns, pc[t] = "insert"
    PROVE  /\ Pending(t, GenerationOf(read[t]) + 1) = {}
           /\ \A j \in Visible(t) : ~ Clashes(t, j, GenerationOf(read[t]) + 1)
           /\ \A j \in Visible(t) : gen[j] < GenerationOf(read[t]) + 1 /\ View(t, j) # "scheduled"
           /\ GenerationOf(read[t]) \in Nat
  <1>1. TypeOK /\ RowsInv /\ Mine(t)
    BY DEF Inv, SessionsInv
  <1>2. /\ op[t] = "schedule" /\ advisory = t
        /\ \A j \in Visible(t) : gen[j] <= GenerationOf(read[t]) /\ View(t, j) # "scheduled"
    BY <1>1 DEF Mine, Calling, Reading
  <1>3. GenerationOf(read[t]) \in Nat /\ \A j \in Ids : gen[j] \in Nat
    BY <1>1, Numbers DEF GenerationOf, TypeOK
  <1>4. \A j \in Visible(t) : j \in Ids /\ gen[j] < GenerationOf(read[t]) + 1
                              /\ gen[j] # GenerationOf(read[t]) + 1
    BY <1>2, <1>3 DEF Visible
  <1>5. ASSUME NEW u \in Txns \ {t}, NEW j \in Ids, Wrote(u, j)
        PROVE  gen[j] # GenerationOf(read[t]) + 1 /\ status[j] # "scheduled"
    <2>1. lock[j] = u /\ status[j] \notin {"absent", "deleted"}
      BY <1>1, <1>2, <1>5 DEF RowsInv, Owned
    <2>2. ~ Wrote(t, j)
      BY <1>1, <2>1 DEF RowsInv, Owned
    <2>3. j \in Visible(t) /\ View(t, j) = status[j]
      BY <2>1, <2>2 DEF Visible, View
    <2> QED BY <1>2, <1>4, <2>3
  <1>6. Pending(t, GenerationOf(read[t]) + 1) = {}
    BY <1>5 DEF Pending
  <1> QED BY <1>2, <1>3, <1>4, <1>6 DEF Clashes

LEMMA InsertKeeps ==
    ASSUME Inv, NEW t \in Txns, Insert(t)
    PROVE  Inv'
  <1> DEFINE g == GenerationOf(read[t]) + 1
             i == CHOOSE k \in Fresh : \A j \in Fresh : k <= j
  <1>1. /\ TypeOK /\ RowsInv /\ Budget /\ Mine(t) /\ own \in [Txns -> Row] /\ pc[t] = "insert"
        /\ read[t] \in Ids \cup {NoRow}
    BY DEF Inv, SessionsInv, TypeOK, Row, Insert
  <1>2. /\ op[t] = "schedule" /\ advisory = t /\ read[t] = held[t]
        /\ read[t] = NoRow => Visible(t) = {}
        /\ \A j \in Visible(t) : gen[j] <= GenerationOf(read[t])
        /\ read[t] # NoRow => lock[read[t]] = t /\ Alive(View(t, read[t]))
    BY <1>1 DEF Mine, Calling, Locking, Reading
  <1>3. CASE Fail(t)
    BY <1>3, FailKeeps
  <1>4. CASE /\ Write(t, i, "scheduled")
             /\ gen' = [gen EXCEPT ![i] = g]
             /\ lock' = [lock EXCEPT ![i] = t]
             /\ Return(t)
             /\ UNCHANGED <<status, accepted, rejected, advisory, history>>
    <2>1. Fresh # {}
      <3>1. t \in Schedulers
        BY <1>2 DEF Schedulers
      <3>2. IsFiniteSet(Schedulers) /\ Cardinality(Schedulers) # 0 /\ Cardinality(Schedulers) \in Nat
        BY <1>1, <3>1, FS_EmptySet, FS_CardinalityType DEF Budget
      <3>3. Cardinality(Fresh) \in Nat /\ Cardinality(Fresh) # 0
        BY <1>1, <3>2, FreshFinite, FS_CardinalityType DEF Budget
      <3> QED BY <3>3, FS_EmptySet
    <2>2. i \in Fresh /\ \A j \in Fresh : i <= j
      <3>1. Fresh \in SUBSET Nat
        BY Numbers DEF Fresh
      <3>2. \E k \in Fresh : \A j \in Fresh : k <= j
        BY <2>1, <3>1, Least
      <3> QED BY <3>2
    <2>3. /\ i \in Ids /\ status[i] = "absent" /\ \A u \in Txns : ~ Wrote(u, i)
          /\ i \in Nat /\ i # 0 /\ i <= MaxTimers
      BY <2>2, Numbers DEF Fresh
    <2>4. g \in Nat /\ \A j \in Visible(t) : gen[j] < g /\ View(t, j) # "scheduled"
      BY <1>1, NoClash
    <2>5. g <= i
      <3>1. CASE read[t] = NoRow
        BY <2>3, <3>1 DEF GenerationOf
      <3>2. CASE read[t] # NoRow
        <4>1. read[t] \in Ids /\ read[t] \in Nat /\ gen[read[t]] <= read[t] /\ gen[read[t]] \in Nat
          BY <1>1, <3>2, Numbers DEF RowsInv, Numbered, TypeOK
        <4>2. status[read[t]] # "absent" \/ Wrote(t, read[t])
          BY <1>2, <3>2 DEF Alive, View
        <4>3. read[t] # i
          BY <2>3, <4>2
        <4>4. ~ (i < read[t])
          BY <1>1, <2>3, <4>1, <4>2 DEF RowsInv, Numbered
        <4>5. g = gen[read[t]] + 1
          BY <3>2 DEF GenerationOf
        <4> HIDE DEF i, g
        <4> QED BY <2>3, <4>1, <4>3, <4>4, <4>5
      <3> QED BY <3>1, <3>2
    <2>6. ASSUME NEW h \in Ids, Alive(status[h]),
                 \A k \in Ids : Alive(status[k]) => gen[k] <= gen[h]
          PROVE  lock[h] = t
      <3>1. CASE Wrote(t, h)
        BY <1>1, <3>1 DEF RowsInv, Owned
      <3>2. CASE ~ Wrote(t, h)
        <4>1. h \in Visible(t)
          BY <2>6, <3>2 DEF Visible, View, Alive
        <4>2. /\ read[t] \in Ids /\ lock[read[t]] = t /\ Alive(View(t, read[t]))
              /\ gen[h] <= gen[read[t]]
          BY <1>1, <1>2, <4>1, Numbers DEF GenerationOf
        <4>3. CASE status[read[t]] = "absent"
          <5>1. Inserting(t)
            BY <4>2, <4>3 DEF Inserting, View, Alive
          <5> QED BY <1>1, <2>6, <5>1 DEF RowsInv, InsertersLock
        <4>4. CASE status[read[t]] # "absent"
          <5>1. Alive(status[read[t]])
            BY <1>1, <4>2, <4>4 DEF RowsInv, Owned, View, Alive
          <5>2. gen[read[t]] <= gen[h] /\ gen[h] \in Nat /\ gen[read[t]] \in Nat
            BY <1>1, <2>6, <4>2, <5>1, Numbers DEF TypeOK
          <5>3. h = read[t]
            BY <1>1, <2>6, <4>2, <5>1, <5>2 DEF RowsInv, Ordered, InOrder
          <5> QED BY <4>2, <5>3
        <4> QED BY <4>3, <4>4
      <3> QED BY <3>1, <3>2
    <2> DEFINE o == [own[t] EXCEPT !.status = [own[t].status EXCEPT ![i] = "scheduled"]]
    <2>7. "scheduled" \in Status
      BY DEF Status
    <2> HIDE DEF i, g
    <2>8. o \in Row /\ o.status = [own[t].status EXCEPT ![i] = "scheduled"]
              /\ o.accepted = own[t].accepted /\ o.fires = own[t].fires /\ o.reports = own[t].reports
      BY <1>1, <2>3, <2>7 DEF Row
    <2>9. Updates(t, i, "scheduled", o)
      BY <1>4, <2>8 DEF Updates, Write
    <2> HIDE DEF o
    <2>10. /\ own' \in [Txns -> Row] /\ own'[t] = o
           /\ \A u \in Txns \ {t} : own'[u] = own[u]
           /\ \A u \in Txns, j \in Ids :
                 own'[u].status[j] = IF u = t /\ j = i THEN "scheduled" ELSE own[u].status[j]
      BY <1>1, <2>3, <2>7, <2>8, <2>9, OwnRow
    <2>11. Inserts(t, i, g)
      BY <1>4, <2>10 DEF Inserts
    <2>12. RowsInv'
      BY <1>1, <1>2, <2>2, <2>4, <2>5, <2>6, <2>11, InsertsRows
    <2>13. \A u \in Txns \ {t} : Stable(u)
      BY <1>1, <2>2, <2>11, InsertsStable
    <2>14. UNCHANGED <<status, accepted, rejected, advisory, fires, reports>>
      BY <1>4 DEF history
    <2>15. Others(t)
      BY <1>1, <1>4, <2>10, <2>14, ReturnOf DEF Others
    <2>16. TypeOK'
      <3>1. g \in 0 .. MaxTimers
        BY <2>3, <2>4, <2>5, Numbers
      <3>2. gen' \in [Ids -> 0 .. MaxTimers] /\ lock' \in [Ids -> Txns \cup {NoTxn}]
        BY <1>1, <1>4, <2>3, <3>1 DEF TypeOK
      <3> QED BY <1>1, <1>4, <2>10, <2>14, <3>2, ReturnOf DEF TypeOK, Row
    <2>17. Budget'
      <3>1. Schedulers' = Schedulers \ {t} /\ t \in Schedulers
        <4>1. op'[t] = "none" /\ \A u \in Txns \ {t} : op'[u] = op[u]
          BY <1>1, <1>4, ReturnOf
        <4> QED BY <1>2, <4>1 DEF Schedulers
      <3>2. Fresh' = Fresh \ {i} /\ i \in Fresh
        BY <2>2, <2>10, <2>14 DEF Fresh, Wrote
      <3>3. /\ IsFiniteSet(Schedulers \ {t})
            /\ Cardinality(Schedulers \ {t}) = Cardinality(Schedulers) - 1
            /\ Cardinality(Schedulers) \in Nat
        BY <1>1, <3>1, FS_RemoveElement, FS_CardinalityType DEF Budget
      <3>4. Cardinality(Fresh \ {i}) = Cardinality(Fresh) - 1 /\ Cardinality(Fresh) \in Nat
        BY <3>2, FreshFinite, FS_RemoveElement, FS_CardinalityType
      <3>5. Cardinality(Schedulers) <= Cardinality(Fresh)
        BY <1>1 DEF Budget
      <3> QED BY <3>1, <3>2, <3>3, <3>4, <3>5 DEF Budget
    <2>18. Claims(t)'
      <3>1. Claims(t) /\ own[t].status[i] = "absent" /\ View(t, i) = "absent"
        BY <1>1, <2>3 DEF Mine, Wrote, View
      <3>2. \A j \in Ids \ {i} : View(t, j)' = View(t, j) /\ own'[t].status[j] = own[t].status[j]
        BY <2>10, <2>14 DEF View, Wrote
      <3>3. /\ own'[t].status[i] = "scheduled" /\ own'[t].accepted = own[t].accepted
            /\ own'[t].fires = own[t].fires /\ own'[t].reports = own[t].reports
        BY <2>3, <2>8, <2>10
      <3>4. \A j \in own[t].fires : j \in Ids \ {i}
        BY <1>1, <3>1 DEF Claims, TypeOK
      <3>5. ASSUME NEW r \in own[t].reports
            PROVE  Dead(t, r[2])' /\ (r[1] = r[2] \/ View(t, r[1])' = "deleted")
        <4>1. r[1] \in Ids /\ r[2] \in Ids
          BY <1>1 DEF TypeOK
        <4>2. Dead(t, r[2]) /\ (r[1] = r[2] \/ View(t, r[1]) = "deleted")
          BY <3>1 DEF Claims
        <4>3. r[2] # i /\ (View(t, r[1]) = "deleted" => r[1] # i)
          BY <3>1, <4>2 DEF Dead
        <4>4. View(t, r[2])' = View(t, r[2]) /\ fires' = fires
          BY <2>14, <3>2, <4>1, <4>3
        <4> QED BY <3>2, <3>3, <4>1, <4>2, <4>3, <4>4 DEF Dead
      <3> QED BY <2>14, <3>1, <3>2, <3>3, <3>4, <3>5 DEF Claims
    <2>19. Mine(t)'
      BY <1>1, <1>4, <2>18, ReturnOf DEF Mine
    <2> QED BY <2>12, <2>13, <2>15, <2>16, <2>17, <2>19, Kept
  <1> QED BY <1>3, <1>4 DEF Insert

-----------------------------------------------------------------------------
(* The theorems *)

LEMMA InitInv == Init => Inv
  <1> SUFFICES ASSUME Init PROVE Inv
    OBVIOUS
  <1>1. TypeOK
    <2>1. Clean \in Row
      BY CleanRow
    <2>2. own \in [Txns -> Row]
      BY <2>1 DEF Init
    <2>3. /\ status \in [Ids -> Status] /\ gen \in [Ids -> 0 .. MaxTimers]
          /\ pc \in [Txns -> Stage] /\ seen \in [Txns -> Status]
          /\ calls \in [Txns -> 0 .. MaxCalls]
      BY Numbers DEF Init, Status, Stage
    <2> QED BY <2>2, <2>3 DEF Init, TypeOK, Row
  <1>2. \A t \in Txns, i \in Ids : own[t].status[i] = "absent" /\ ~ Wrote(t, i) /\ View(t, i) = "absent"
    BY DEF Init, Clean, Wrote, View
  <1>3. Owned /\ Ordered /\ InsertersLock
    BY <1>2 DEF Init, Owned, Ordered, InOrder, ViewOf, Alive, InsertersLock, Inserting
  <1>4. Numbered
    <2>1. \A i \in Ids : gen[i] = 0 /\ status[i] = "absent" /\ 0 <= i
      BY Numbers DEF Init
    <2> QED BY <1>2, <2>1 DEF Numbered
  <1>5. Budget
    <2>1. Schedulers = {}
      BY DEF Init, Schedulers
    <2>2. Cardinality(Fresh) \in Nat
      BY FreshFinite, FS_CardinalityType
    <2> QED BY <2>1, <2>2, FS_EmptySet DEF Budget
  <1>6. SessionsInv
    <2> SUFFICES ASSUME NEW t \in Txns PROVE Mine(t)
      BY DEF SessionsInv
    <2>1. pc[t] = "idle" /\ op[t] = "none" /\ own[t] = Clean
      BY DEF Init
    <2>2. Calling(t) /\ Locking(t) /\ Reading(t)
      BY <2>1 DEF Calling, Locking, Reading
    <2>3. Claims(t)
      BY <2>1 DEF Claims, Clean
    <2> QED BY <2>2, <2>3 DEF Mine
  <1>7. Answers /\ FiresMatchStatus
    BY DEF Init, Answers, FiresMatchStatus
  <1> QED BY <1>1, <1>3, <1>4, <1>5, <1>6, <1>7 DEF Inv, RowsInv

LEMMA StutterInv ==
    ASSUME Inv, UNCHANGED vars
    PROVE  Inv'
  <1> USE DEF vars, table, locks, session, locals, history
  <1>1. TypeOK' /\ FiresMatchStatus' /\ Answers'
    BY DEF Inv, TypeOK, FiresMatchStatus, Answers
  <1>2. \A t \in Txns, i \in Ids : (Wrote(t, i)' <=> Wrote(t, i)) /\ View(t, i)' = View(t, i)
    BY DEF Wrote, View
  <1>3. RowsInv'
    BY <1>2 DEF Inv, RowsInv, Owned, Ordered, InOrder, ViewOf, Alive, Numbered, InsertersLock, Inserting
  <1>4. Schedulers' = Schedulers /\ Fresh \subseteq Fresh'
    BY <1>2 DEF Schedulers, Fresh
  <1>5. Budget'
    BY <1>4, BudgetKept DEF Inv
  <1>6. ASSUME NEW t \in Txns PROVE Mine(t)'
    <2>1. Holds(t) /\ Asleep(t)
      BY DEF Holds, Asleep
    <2>2. Stable(t)
      BY <2>1, HoldsStable DEF Inv
    <2> QED BY <2>1, <2>2, SessionFrame DEF Inv, SessionsInv
  <1> QED BY <1>1, <1>3, <1>5, <1>6 DEF Inv, SessionsInv

LEMMA NextInv == Inv /\ [Next]_vars => Inv'
  <1> SUFFICES ASSUME Inv, [Next]_vars PROVE Inv'
    OBVIOUS
  <1>1. CASE UNCHANGED vars
    BY <1>1, StutterInv
  <1>2. ASSUME NEW t \in Txns, Begin(t) PROVE Inv'
    BY <1>2, StartScheduleKeeps, StartCancelKeeps, StartPurgeKeeps DEF Begin
  <1>3. ASSUME NEW t \in Txns, CallStep(t) PROVE Inv'
    <2>1. CASE LockIdentity(t) \/ Snapshot(t) \/ LockLatest(t) \/ Check(t) \/ Read(t)
      BY <2>1, LockIdentityKeeps, SnapshotKeeps, LockLatestKeeps, CheckKeeps, ReadKeeps
    <2>2. CASE Conflict(t) \/ Supersede(t) \/ Insert(t) \/ Cancel(t)
      BY <2>2, RollbackKeeps, SupersedeKeeps, InsertKeeps, CancelKeeps
    <2>3. CASE Accept(t) \/ Reject(t) \/ InsertRejection(t) \/ PurgeRow(t)
      BY <2>3, AcceptKeeps, RejectKeeps, InsertRejectionKeeps, PurgeRowKeeps
    <2> QED BY <1>3, <2>1, <2>2, <2>3 DEF CallStep
  <1>4. ASSUME NEW t \in Txns, Commit(t) \/ Rollback(t) PROVE Inv'
    BY <1>4, CommitKeeps, RollbackKeeps
  <1> QED BY <1>1, <1>2, <1>3, <1>4 DEF Next

\* The inductive invariant holds throughout every behaviour.
THEOREM TimersInvariant == Spec => []Inv
  BY InitInv, NextInv, PTL DEF Spec

\* Types: every row, lock, session and history variable keeps its type; above
\* all, generations stay within the bound that the id a row takes gives them.
THEOREM TimerTypes == Spec => []TypeOK
  <1>1. Inv => TypeOK
    BY DEF Inv
  <1> QED BY <1>1, TimersInvariant, PTL

\* accept_trigger: a committed effect and a fired row go together, each at most
\* once, however often and however late the outbox delivers the trigger.
THEOREM EffectsMatchRows == Spec => []FiresMatchStatus
  <1>1. Inv => FiresMatchStatus
    BY DEF Inv
  <1> QED BY <1>1, TimersInvariant, PTL

\* cancel_timer: a trigger whose row was reported canceled never has an effect,
\* whatever accept_trigger, schedule_timer and purge_history do beside it.
THEOREM CancellationsHold == Spec => []CanceledNeverFires
  <1>1. Inv => CanceledNeverFires
    BY DEF Inv, Answers, CanceledNeverFires
  <1> QED BY <1>1, TimersInvariant, PTL

\* cancel_timer: the canceled row is the one the caller observed, unless that
\* was purged and its generation number reused.
THEOREM CancellationsAreOfTheObserved == Spec => []CancelsObservedUnlessPurged
  <1>1. Inv => CancelsObservedUnlessPurged
    BY DEF Inv, Answers, CancelsObservedUnlessPurged
  <1> QED BY <1>1, TimersInvariant, PTL

\* schedule_timer: the advisory lock and the lock of the newest row keep every
\* insert clear of the unique constraints, committed and uncommitted rows alike.
THEOREM SchedulesDoNotCollide == Spec => []InsertsNeverClash
  <1>1. Inv => InsertsNeverClash
    BY NoClash DEF InsertsNeverClash
  <1> QED BY <1>1, TimersInvariant, PTL

\* lock_timer_identity: the row its loop locked is the row _latest reads, and
\* no other transaction changes it before the call acts on it.
THEOREM LockLoopIsSound == Spec => []LockedRowIsCurrent
  <1>1. Inv => LockedRowIsCurrent
    <2> SUFFICES ASSUME Inv, NEW t \in Txns, pc[t] = "act", held[t] # NoRow
                 PROVE  read[t] = held[t] /\ lock[read[t]] = t /\ View(t, read[t]) = seen[t]
      BY DEF LockedRowIsCurrent
    <2>1. Mine(t)
      BY DEF Inv, SessionsInv
    <2> QED BY <2>1 DEF Mine, Locking, Reading
  <1> QED BY <1>1, TimersInvariant, PTL

=============================================================================
