-------------------------- MODULE MarketDataProofs ---------------------------
(***************************************************************************)
(* Proofs about MarketData and Backfill, for any writers and batches.      *)
(*                                                                         *)
(* The properties speak of a whole batch, the steps of one statement.      *)
(* IInv bridges the two with Progress: what a transaction sees of a row is *)
(* what its statements so far would leave of what is committed there now.  *)
(* The rows it has locked make that survive the commits of others, and at  *)
(* its own commit it is what AtomicTables promises.  A backfill is one of  *)
(* the writers, so everything holds beside it too.                         *)
(*                                                                         *)
(* That it leaves no gap needs more of it (BInv): up to the place it has   *)
(* reached every bar is closed, the page it holds leaves out none after    *)
(* that, and while no other writer stores bars there is no gap at all.     *)
(***************************************************************************)
EXTENDS Backfill, FiniteSetTheorems, SequenceTheorems, WellFoundedInduction, TLAPS

\* A set of natural numbers has a least.
LEMMA NatMin ==
    ASSUME NEW S \in SUBSET Nat, S # {}
    PROVE  \E x \in S : \A y \in S : x <= y
    <1> DEFINE R == {p \in Nat \X Nat : p[1] < p[2]}
    <1>1. IsWellFoundedOn(R, Nat)
      BY NatLessThanWellFounded DEF OpToRel
    <1>2. PICK x \in S : \A y \in S : ~(<<y, x>> \in R)
      BY <1>1, WFMin
    <1>3. \A y \in S : <<y, x>> \in R <=> y < x
      OBVIOUS
    <1> HIDE DEF R
    <1>4. \A y \in S : ~(y < x)
      BY <1>2, <1>3
    <1>5. S \subseteq Nat
      OBVIOUS
    <1> QED
      BY <1>4, <1>5

\* And a bounded set has a greatest.
LEMMA NatMax ==
    ASSUME NEW n \in Nat, NEW S \in SUBSET (0..n), S # {}
    PROVE  \E x \in S : \A y \in S : y <= x
    <1> DEFINE T == {n - y : y \in S}
    <1>1. T \in SUBSET Nat /\ T # {}
      <2>1. \A y \in S : y \in Int /\ n - y \in Nat
        OBVIOUS
      <2> QED
        BY <2>1
    <1>2. PICK x \in T : \A y \in T : x <= y
      BY <1>1, NatMin
    <1>3. PICK z \in S : x = n - z
      OBVIOUS
    <1>4. \A y \in S : n - z <= n - y
      BY <1>2, <1>3
    <1> QED
      BY <1>4

\* Min and Max find them.
LEMMA Extremes ==
    ASSUME NEW n \in Nat, NEW S \in SUBSET (0..n), S # {}
    PROVE  /\ Min(S) \in S /\ \A y \in S : Min(S) <= y
           /\ Max(S) \in S /\ \A y \in S : y <= Max(S)
    <1>1. \E x \in S : \A y \in S : x <= y
      BY NatMin
    <1>2. \E x \in S : \A y \in S : y <= x
      BY NatMax
    <1>3. Min(S) \in S /\ \A y \in S : Min(S) <= y
      BY <1>1 DEF Min
    <1>4. Max(S) \in S /\ \A y \in S : y <= Max(S)
      BY <1>2 DEF Max
    <1> QED
      BY <1>3, <1>4

\* A later position is the new greatest, and not the least.
LEMMA Grows ==
    ASSUME NEW n \in Nat, NEW S \in SUBSET (0..n)
    PROVE  /\ Max(S \cup {n + 1}) = n + 1
           /\ S # {} => Min(S \cup {n + 1}) = Min(S)
    <1> DEFINE T == S \cup {n + 1}
    <1>1. T \in SUBSET (0..(n + 1)) /\ T # {} /\ n + 1 \in Nat
      OBVIOUS
    <1>2. /\ Min(T) \in T /\ \A y \in T : Min(T) <= y
          /\ Max(T) \in T /\ \A y \in T : y <= Max(T)
      BY <1>1, Extremes
    <1>3. S # {} => Min(S) \in S /\ \A y \in S : Min(S) <= y
      BY Extremes
    <1> HIDE DEF T
    <1>4. n + 1 \in T /\ \A y \in T : y \in S \/ y = n + 1
      BY DEF T
    <1>5. Max(T) = n + 1
      <2>1. \A y \in T : y \in Int /\ y <= n + 1
        BY <1>1
      <2> QED
        BY <2>1, <1>2, <1>4
    <1>6. S # {} => Min(T) = Min(S)
      <2> SUFFICES ASSUME S # {} PROVE Min(T) = Min(S)
        OBVIOUS
      <2>1. Min(S) \in 0..n /\ Min(S) \in T
        BY <1>3 DEF T
      <2>2. Min(T) \in Int /\ Min(T) <= Min(S)
        <3>1. \A y \in T : y \in Int
          BY <1>1
        <3> QED
          BY <2>1, <3>1, <1>2
      <2>3. Min(T) \in S
        BY <2>1, <2>2, <1>2, <1>4
      <2> QED
        BY <2>1, <2>2, <2>3, <1>3
    <1> QED
      BY <1>5, <1>6 DEF T

-----------------------------------------------------------------------------
\* What a batch leaves of a row, by the number of its statements.

IsBatch(b) == b \in Batches \cup {Empty}

PositionsUpTo(b, n, ts) == {i \in 1..n : b.items[i].ts = ts}

LeftAfter(b, n, ts, old) == Table!leaves(b.table, b.items, PositionsUpTo(b, n, ts), old)

Final(table, old) ==
    \/ table = "ticks" /\ old # Absent
    \/ table = "bars" /\ old.complete

\* The items of a batch, the empty one included.
LEMMA BatchItems ==
    ASSUME NEW b, IsBatch(b)
    PROVE  /\ b.table \in Tables
           /\ Len(b.items) \in Nat /\ DOMAIN b.items = 1..Len(b.items)
           /\ \A i \in 1..Len(b.items) :
                 /\ b.items[i].ts \in Instants
                 /\ b.items[i].row # Absent
                 /\ b.table = "bars" \/ b.items[i].row.complete
    <1>1. CASE b \in Batches
      BY <1>1, BatchesAssumption
    <1>2. CASE b = Empty
      BY <1>2 DEF Empty, Tables
    <1> QED
      BY <1>1, <1>2 DEF IsBatch

\* Before the first statement for an instant, and for a final row, nothing changes.
LEMMA LeftAlone ==
    ASSUME NEW b, NEW n, NEW ts, NEW old,
           PositionsUpTo(b, n, ts) = {} \/ Final(b.table, old)
    PROVE  LeftAfter(b, n, ts, old) = old
    BY DEF LeftAfter, Table!leaves, Final, Table!Absent, Absent, Table!Min, Min, Table!Max, Max

\* What is left of a row that was not final is one of the batch's own rows: of a
\* tick the first, of a bar the first complete one if there is any, else the last.
LEMMA LeftByBatch ==
    ASSUME NEW b, IsBatch(b), NEW n \in 0..Len(b.items), NEW ts, NEW old,
           PositionsUpTo(b, n, ts) # {}, ~Final(b.table, old)
    PROVE  \E i \in PositionsUpTo(b, n, ts) :
              /\ LeftAfter(b, n, ts, old) = b.items[i].row
              /\ (\E j \in PositionsUpTo(b, n, ts) : b.items[j].row.complete)
                    => b.items[i].row.complete
    <1> DEFINE P == PositionsUpTo(b, n, ts)
               C == {i \in P : b.items[i].row.complete}
    <1>1. P \in SUBSET (0..n) /\ C \in SUBSET (0..n) /\ n \in Nat
      BY BatchItems DEF PositionsUpTo
    <1>2. Min(P) \in P /\ Max(P) \in P
      BY <1>1, Extremes
    <1>3. C # {} => Min(C) \in C
      BY <1>1, Extremes
    <1>4. \A i \in P : i \in 1..Len(b.items)
      BY BatchItems DEF PositionsUpTo
    <1>5. b.table # "bars" => C = P
      BY <1>4, BatchItems
    <1>6. LeftAfter(b, n, ts, old) =
             b.items[CASE b.table = "ticks" -> Min(P)
                       [] b.table = "bars" /\ C # {} -> Min(C)
                       [] OTHER -> Max(P)].row
      BY DEF LeftAfter, Table!leaves, Final, Table!Absent, Absent, Table!Min, Min, Table!Max, Max
    <1> HIDE DEF P
    <1>7. CASE b.table = "ticks"
      BY <1>2, <1>5, <1>6, <1>7 DEF P
    <1>8. CASE b.table = "bars" /\ C # {}
      BY <1>3, <1>6, <1>8 DEF P
    <1>9. CASE b.table # "ticks" /\ ~(b.table = "bars" /\ C # {})
      BY <1>2, <1>5, <1>6, <1>9 DEF P
    <1> QED
      BY <1>7, <1>8, <1>9

\* One more statement for an instant changes what is left as that statement does.
LEMMA LeftNext ==
    ASSUME NEW b, IsBatch(b), NEW n \in Nat, n < Len(b.items), NEW ts, NEW old
    PROVE  LeftAfter(b, n + 1, ts, old) =
              IF b.items[n + 1].ts = ts
              THEN merged(b.table, LeftAfter(b, n, ts, old), b.items[n + 1].row)
              ELSE LeftAfter(b, n, ts, old)
    <1> DEFINE P == PositionsUpTo(b, n, ts)
               C == {i \in P : b.items[i].row.complete}
               m == n + 1
               Q == PositionsUpTo(b, m, ts)
               D == {i \in Q : b.items[i].row.complete}
               new == b.items[m].row
    <1>1. /\ b.table \in Tables /\ new # Absent
          /\ \A i \in Q : i \in 1..Len(b.items) /\ b.items[i].row # Absent
      BY BatchItems DEF PositionsUpTo
    <1>2. P \in SUBSET (0..n) /\ C \in SUBSET (0..n) /\ m \in Nat
      BY DEF PositionsUpTo
    <1>3. CASE b.items[m].ts # ts
      <2>1. P = Q
        BY <1>3 DEF PositionsUpTo
      <2> QED
        BY <1>3, <2>1 DEF LeftAfter
    <1>4. CASE b.items[m].ts = ts /\ Final(b.table, old)
      <2>1. LeftAfter(b, m, ts, old) = old /\ LeftAfter(b, n, ts, old) = old
        BY <1>4, LeftAlone
      <2> QED
        BY <1>4, <2>1 DEF merged, Final
    <1>5. CASE b.items[m].ts = ts /\ ~Final(b.table, old)
      <2>1. Q = P \cup {m}
        BY <1>5 DEF PositionsUpTo
      <2>2. D = IF new.complete THEN C \cup {m} ELSE C
        BY <2>1
      <2> HIDE DEF P, Q, C, D, m
      <2>3. LeftAfter(b, m, ts, old) =
               b.items[CASE b.table = "ticks" -> Min(Q)
                         [] b.table = "bars" /\ D # {} -> Min(D)
                         [] OTHER -> Max(Q)].row
        BY <1>5, <2>1 DEF LeftAfter, Table!leaves, Final, Table!Absent, Absent,
                          Table!Min, Min, Table!Max, Max, Q, D
      <2>4. Max(Q) = m /\ (P # {} => Min(Q) = Min(P)) /\ (C # {} => Min(C \cup {m}) = Min(C))
        BY <1>2, <2>1, Grows DEF m
      <2>5. P = {} => Min(Q) = m
        BY <2>1 DEF Min
      <2>6. C = {} => Min(C \cup {m}) = m
        BY DEF Min
      <2>7. CASE P = {}
        <3>1. C = {} /\ LeftAfter(b, n, ts, old) = old
          BY <2>7, LeftAlone DEF C, P
        <3>2. LeftAfter(b, m, ts, old) = new
          BY <2>2, <2>3, <2>4, <2>5, <2>6, <2>7, <3>1
        <3> QED
          BY <1>5, <3>1, <3>2 DEF merged, Final, m
      <2>8. CASE P # {}
        <3>1. LeftAfter(b, n, ts, old) =
                 b.items[CASE b.table = "ticks" -> Min(P)
                           [] b.table = "bars" /\ C # {} -> Min(C)
                           [] OTHER -> Max(P)].row
          BY <1>5, <2>8 DEF LeftAfter, Table!leaves, Final, Table!Absent, Absent,
                            Table!Min, Min, Table!Max, Max, P, C
        <3>2. Min(P) \in P /\ Max(P) \in P /\ (C # {} => Min(C) \in C)
          BY <1>2, <2>8, Extremes
        <3>3. CASE b.table = "ticks"
          <4>1. LeftAfter(b, m, ts, old) = LeftAfter(b, n, ts, old)
            BY <2>3, <2>4, <2>8, <3>1, <3>3
          <4>2. LeftAfter(b, n, ts, old) # Absent
            BY <1>1, <2>1, <3>1, <3>2, <3>3
          <4> QED
            BY <1>5, <3>3, <4>1, <4>2 DEF merged, m
        <3>4. CASE b.table = "bars" /\ C # {}
          <4>1. LeftAfter(b, m, ts, old) = LeftAfter(b, n, ts, old)
            BY <2>2, <2>3, <2>4, <3>1, <3>4
          <4>2. LeftAfter(b, n, ts, old).complete
            BY <3>1, <3>2, <3>4 DEF C
          <4> QED
            BY <1>5, <3>4, <4>1, <4>2 DEF merged, m
        <3>5. CASE b.table = "bars" /\ C = {}
          <4>1. LeftAfter(b, m, ts, old) = new
            BY <2>2, <2>3, <2>4, <2>6, <3>5
          <4>2. ~LeftAfter(b, n, ts, old).complete
            BY <3>1, <3>2, <3>5 DEF C
          <4> QED
            BY <1>5, <3>5, <4>1, <4>2 DEF merged, m
        <3>6. CASE b.table = "instruments"
          <4>1. LeftAfter(b, m, ts, old) = new
            BY <2>3, <2>4, <3>6
          <4> QED
            BY <1>5, <3>6, <4>1 DEF merged, m
        <3> QED
          BY <1>1, <3>3, <3>4, <3>5, <3>6 DEF Tables
      <2> QED
        BY <2>7, <2>8
    <1> QED
      BY <1>3, <1>4, <1>5

\* A batch's statements add up to what its table is promised.
LEMMA LeftByAll ==
    ASSUME NEW b, IsBatch(b), NEW ts, NEW old
    PROVE  LeftAfter(b, Len(b.items), ts, old) = Table!Applied(b, ts, old)
    BY BatchItems DEF LeftAfter, Table!Applied, PositionsUpTo

-----------------------------------------------------------------------------
\* The inductive invariant.

AnyRow == {Absent} \cup UNION {{b.items[i].row : i \in DOMAIN b.items} : b \in Batches}

Typed ==
    /\ rows \in [Tables -> [Instants -> AnyRow]]
    /\ pc \in [Writers -> {"idle", "writing", "committed"}]
    /\ batch \in [Writers -> Batches \cup {Empty}]
    /\ done \in [Writers -> Nat]
    /\ DOMAIN pending = Writers
    /\ locked \in [Writers -> SUBSET Instants]
    /\ outcome \in [Writers -> {"none", "returned", "raised"}]
    /\ calls \in 0..MaxCalls

\* The committed row w's statements meet or met.
old(w, ts) == rows[batch[w].table][ts]

\* The row as w's transaction sees it.
Seen(w, ts) == IF ts \in DOMAIN pending[w] THEN pending[w][ts] ELSE old(w, ts)

\* Locks and rows are held by open transactions only, which have not ended.
Open(w) ==
    /\ done[w] <= Len(batch[w].items)
    /\ pc[w] # "writing" => locked[w] = {} /\ done[w] = 0
    /\ pc[w] = "writing" => batch[w] \in Batches /\ outcome[w] # "returned"

\* What a transaction has written is locked, and replaces no row that is final.
WritesAreOpen(w) ==
    \A ts \in DOMAIN pending[w] :
       ts \in locked[w] /\ pending[w][ts] \in AnyRow /\ ~Final(batch[w].table, old(w, ts))

\* A statement that was executed holds its row, unless it was a tick's and met one.
Covered(w) ==
    pc[w] = "writing" => \A i \in 1..done[w] :
       LET ts == batch[w].items[i].ts
       IN  ts \in locked[w] \/ (batch[w].table = "ticks" /\ old(w, ts) # Absent)

\* The statements executed so far would do the same now, to what is committed now.
Progress(w) ==
    pc[w] = "writing" => \A ts \in Instants :
       Seen(w, ts) = LeftAfter(batch[w], done[w], ts, old(w, ts))

\* What ReturnedIsStored says, from the commit on.
Committed(w) ==
    pc[w] = "committed" \/ outcome[w] = "returned" =>
       \A i \in DOMAIN batch[w].items :
          LET submitted == batch[w].items[i]
              stored == rows[batch[w].table][submitted.ts]
          IN  stored # Absent /\ (submitted.row.complete => stored.complete)

Transaction(w) ==
    Open(w) /\ WritesAreOpen(w) /\ Covered(w) /\ Progress(w) /\ Committed(w)

\* No two transactions on a table hold the same row.
LocksApart ==
    \A v, w \in Writers :
       v # w /\ batch[v].table = batch[w].table => locked[v] \cap locked[w] = {}

\* Only a bar can be incomplete.
OnlyBarsForm ==
    \A t \in Tables, ts \in Instants :
       t = "bars" \/ rows[t][ts] = Absent \/ rows[t][ts].complete

IInv ==
    /\ Typed
    /\ \A w \in Writers : Transaction(w)
    /\ LocksApart
    /\ OnlyBarsForm

\* A batch's row never takes a row away, nor its completeness.
LEMMA LeftIsKept ==
    ASSUME NEW b, IsBatch(b), NEW n \in 0..Len(b.items), NEW ts, NEW was,
           was = Absent \/ b.table = "bars" \/ was.complete
    PROVE  LET left == LeftAfter(b, n, ts, was)
           IN  /\ left = was \/ \E i \in DOMAIN b.items : left = b.items[i].row
               /\ was # Absent \/ PositionsUpTo(b, n, ts) # {} => left # Absent
               /\ was.complete => left.complete
               /\ left = Absent \/ b.table = "bars" \/ left.complete
               /\ \A i \in PositionsUpTo(b, n, ts) :
                     b.items[i].row.complete => left.complete
    <1> DEFINE left == LeftAfter(b, n, ts, was)
    <1>1. Absent.complete = FALSE
      BY DEF Absent
    <1>2. \A i \in PositionsUpTo(b, n, ts) : i \in 1..Len(b.items) /\ i \in DOMAIN b.items
      BY BatchItems DEF PositionsUpTo
    <1>3. CASE PositionsUpTo(b, n, ts) = {} \/ Final(b.table, was)
      <2>1. left = was
        BY <1>3, LeftAlone
      <2>2. PositionsUpTo(b, n, ts) = {} \/ (was # Absent /\ was.complete)
        BY <1>1, <1>3 DEF Final
      <2> QED
        BY <2>1, <2>2
    <1>4. CASE PositionsUpTo(b, n, ts) # {} /\ ~Final(b.table, was)
      <2>1. PICK i \in PositionsUpTo(b, n, ts) :
               /\ left = b.items[i].row
               /\ (\E j \in PositionsUpTo(b, n, ts) : b.items[j].row.complete)
                     => b.items[i].row.complete
        BY <1>4, LeftByBatch
      <2>2. left # Absent /\ (b.table = "bars" \/ left.complete)
        BY <1>2, <2>1, BatchItems
      <2>3. was.complete => left.complete
        BY <1>1, <1>4, <2>2 DEF Final
      <2> QED
        BY <1>2, <2>1, <2>2, <2>3
    <1> QED
      BY <1>3, <1>4

-----------------------------------------------------------------------------
\* Init and the steps.

\* The row of every item is one that a batch may store.
LEMMA RowsOfBatches ==
    ASSUME NEW b, IsBatch(b), NEW i \in DOMAIN b.items
    PROVE  b.items[i].row \in AnyRow
    <1>1. CASE b \in Batches
      BY <1>1 DEF AnyRow
    <1>2. CASE b = Empty
      BY <1>2 DEF Empty
    <1> QED
      BY <1>1, <1>2 DEF IsBatch

\* Empty tables and idle writers.
LEMMA Initially == Init => IInv
    <1> SUFFICES ASSUME Init PROVE IInv
      OBVIOUS
    <1>1. Typed
      BY CallsAssumption DEF Init, Typed, AnyRow, NothingPending
    <1>2. ASSUME NEW w \in Writers PROVE Transaction(w)
      <2>1. /\ pc[w] = "idle" /\ locked[w] = {} /\ DOMAIN pending[w] = {}
            /\ done[w] = 0 /\ Len(batch[w].items) = 0 /\ outcome[w] = "none"
        BY DEF Init, NothingPending, Empty
      <2> QED
        BY <2>1 DEF Transaction, Open, WritesAreOpen, Covered, Progress, Committed
    <1>3. LocksApart /\ OnlyBarsForm
      BY DEF Init, LocksApart, OnlyBarsForm
    <1> QED
      BY <1>1, <1>2, <1>3 DEF IInv

\* A transaction that a step does not touch, on rows that it does not change.
LEMMA Frame ==
    ASSUME IInv, NEW w \in Writers, rows' = rows, pc'[w] = pc[w], batch'[w] = batch[w],
           done'[w] = done[w], pending'[w] = pending[w], locked'[w] = locked[w],
           outcome'[w] = outcome[w]
    PROVE  Transaction(w)'
    <1>1. Transaction(w)
      BY DEF IInv
    <1> QED
      BY <1>1 DEF Transaction, Open, WritesAreOpen, Covered, Progress, Committed, Seen, old

\* Steps that change no row and release or open a transaction.
LEMMA StoreStep ==
    ASSUME IInv, NEW w \in Writers, Store(w)
    PROVE  IInv'
    <1>1. PICK b \in Batches :
             /\ batch' = [batch EXCEPT ![w] = b]
             /\ \/ /\ b.items = <<>> /\ b.table # "instruments"
                   /\ outcome' = [outcome EXCEPT ![w] = "returned"]
                   /\ UNCHANGED pc
                \/ /\ b.items # <<>> \/ b.table = "instruments"
                   /\ outcome' = [outcome EXCEPT ![w] = "none"]
                   /\ pc' = [pc EXCEPT ![w] = "writing"]
      BY DEF Store
    <1>2. /\ pc[w] = "idle" /\ calls < MaxCalls /\ calls' = calls + 1
          /\ rows' = rows /\ done' = done /\ pending' = pending /\ locked' = locked
      BY DEF Store
    <1>3. Typed /\ Transaction(w) /\ LocksApart /\ OnlyBarsForm
      BY DEF IInv
    <1>4. Typed'
      <2>1. /\ pc' \in [Writers -> {"idle", "writing", "committed"}]
            /\ outcome' \in [Writers -> {"none", "returned", "raised"}]
        BY <1>1, <1>3 DEF Typed
      <2>2. /\ batch' \in [Writers -> Batches \cup {Empty}] /\ done' \in [Writers -> Nat]
            /\ calls' \in 0..MaxCalls
        BY <1>1, <1>2, <1>3, CallsAssumption DEF Typed
      <2> QED
        BY <1>2, <1>3, <2>1, <2>2 DEF Typed
    <1>5. locked[w] = {} /\ DOMAIN pending[w] = {} /\ done[w] = 0
      BY <1>2, <1>3 DEF Transaction, Open, WritesAreOpen
    <1>6. Transaction(w)'
      <2>1. /\ batch'[w] = b /\ done'[w] = 0 /\ locked'[w] = {} /\ DOMAIN pending'[w] = {}
            /\ pc'[w] \in {"idle", "writing"}
            /\ pc'[w] = "writing" => outcome'[w] = "none"
            /\ outcome'[w] = "returned" => b.items = <<>>
        BY <1>1, <1>2, <1>3, <1>5 DEF Typed
      <2>2. IsBatch(b) /\ Len(b.items) \in Nat
        BY BatchItems DEF IsBatch
      <2>3. \A ts, was : LeftAfter(b, 0, ts, was) = was
        BY LeftAlone DEF PositionsUpTo
      <2> QED
        BY <2>1, <2>2, <2>3
           DEF Transaction, Open, WritesAreOpen, Covered, Progress, Committed, Seen, old
    <1>7. ASSUME NEW v \in Writers, v # w PROVE Transaction(v)'
      <2>1. /\ pc'[v] = pc[v] /\ batch'[v] = batch[v] /\ done'[v] = done[v]
            /\ outcome'[v] = outcome[v]
        BY <1>1, <1>2, <1>3, <1>7 DEF Typed
      <2> QED
        BY <1>2, <2>1, Frame
    <1>8. LocksApart'
      BY <1>1, <1>2, <1>3, <1>5 DEF LocksApart, Typed
    <1>9. OnlyBarsForm'
      BY <1>2, <1>3 DEF OnlyBarsForm
    <1> QED
      BY <1>4, <1>6, <1>7, <1>8, <1>9 DEF IInv

\* A call that is over: with the answer, without it, or rolled back.
LEMMA EndStep ==
    ASSUME IInv, NEW w \in Writers, Return(w) \/ LoseAnswer(w) \/ RollBack(w)
    PROVE  IInv'
    <1>1. /\ pc' = [pc EXCEPT ![w] = "idle"]
          /\ rows' = rows /\ batch' = batch /\ calls' = calls
      BY DEF Return, LoseAnswer, RollBack, Release
    <1>2. \/ /\ pc[w] = "committed" /\ done' = done /\ pending' = pending /\ locked' = locked
             /\ \/ outcome' = [outcome EXCEPT ![w] = "returned"]
                \/ outcome' = [outcome EXCEPT ![w] = "raised"]
          \/ /\ pending' = [pending EXCEPT ![w] = NothingPending]
             /\ locked' = [locked EXCEPT ![w] = {}]
             /\ done' = [done EXCEPT ![w] = 0]
             /\ outcome' = [outcome EXCEPT ![w] = "raised"]
      BY DEF Return, LoseAnswer, RollBack, Release
    <1>3. Typed /\ Transaction(w) /\ LocksApart /\ OnlyBarsForm
      BY DEF IInv
    <1>4. Typed'
      BY <1>1, <1>2, <1>3 DEF Typed
    <1>5. /\ pc'[w] = "idle" /\ locked'[w] = {} /\ DOMAIN pending'[w] = {} /\ done'[w] = 0
          /\ outcome'[w] = "returned" => pc[w] = "committed"
      BY <1>1, <1>2, <1>3 DEF Typed, Transaction, Open, WritesAreOpen, NothingPending
    <1>6. Transaction(w)'
      <2>1. IsBatch(batch[w])
        BY <1>3 DEF Typed, IsBatch
      <2>2. 0 <= Len(batch[w].items)
        BY <2>1, BatchItems
      <2> QED
        BY <1>1, <1>3, <1>5, <2>2
           DEF Transaction, Open, WritesAreOpen, Covered, Progress, Committed
    <1>7. ASSUME NEW v \in Writers, v # w PROVE Transaction(v)'
      <2>1. /\ pc'[v] = pc[v] /\ pending'[v] = pending[v] /\ locked'[v] = locked[v]
            /\ outcome'[v] = outcome[v] /\ done'[v] = done[v]
        BY <1>1, <1>2, <1>3, <1>7 DEF Typed
      <2> QED
        BY <1>1, <2>1, Frame
    <1>8. LocksApart'
      BY <1>1, <1>2, <1>3 DEF LocksApart, Typed
    <1>9. OnlyBarsForm'
      BY <1>1, <1>3 DEF OnlyBarsForm
    <1> QED
      BY <1>4, <1>6, <1>7, <1>8, <1>9 DEF IInv

\* A caller that is told of a broken connection leaves its transaction as it is.
LEMMA DisconnectStep ==
    ASSUME IInv, NEW w \in Writers, Disconnect(w)
    PROVE  IInv'
    <1>1. /\ pc[w] = "writing" /\ outcome' = [outcome EXCEPT ![w] = "raised"]
          /\ rows' = rows /\ pc' = pc /\ batch' = batch /\ done' = done
          /\ pending' = pending /\ locked' = locked /\ calls' = calls
      BY DEF Disconnect
    <1>2. Typed /\ Transaction(w) /\ LocksApart /\ OnlyBarsForm
      BY DEF IInv
    <1>3. Typed'
      BY <1>1, <1>2 DEF Typed
    <1>4. outcome'[w] = "raised"
      BY <1>1, <1>2 DEF Typed
    <1>5. Transaction(w)'
      BY <1>1, <1>2, <1>4
         DEF Transaction, Open, WritesAreOpen, Covered, Progress, Committed, Seen, old
    <1>6. ASSUME NEW v \in Writers, v # w PROVE Transaction(v)'
      <2>1. outcome'[v] = outcome[v]
        BY <1>1, <1>2, <1>6 DEF Typed
      <2> QED
        BY <1>1, <2>1, Frame
    <1>7. LocksApart' /\ OnlyBarsForm'
      BY <1>1, <1>2 DEF LocksApart, OnlyBarsForm
    <1> QED
      BY <1>3, <1>5, <1>6, <1>7 DEF IInv

\* A statement changes what its own transaction sees of one row, and nothing else.
LEMMA WriteStep ==
    ASSUME IInv, NEW w \in Writers, Write(w)
    PROVE  IInv'
    <1> DEFINE b == batch[w]
               n == done[w]
               at == item(w).ts
               row == merged(b.table, Met(w), item(w).row)
    <1>1. /\ pc[w] = "writing" /\ n < Len(b.items)
          /\ IsWriting(w) /\ \A v \in Writers : ~WaitsFor(w, v)
          /\ pending' = IF row = Met(w) THEN pending
                        ELSE [pending EXCEPT ![w] = over([t \in {at} |-> row], @)]
          /\ locked' = IF locks(b.table, Met(w))
                       THEN [locked EXCEPT ![w] = @ \cup {at}] ELSE locked
          /\ done' = [done EXCEPT ![w] = @ + 1]
          /\ rows' = rows /\ pc' = pc /\ batch' = batch /\ outcome' = outcome
          /\ calls' = calls
      BY DEF Write, IsWriting
    <1>2. Typed /\ Transaction(w) /\ LocksApart /\ OnlyBarsForm
      BY DEF IInv
    <1>3. n \in Nat /\ IsBatch(b) /\ Len(b.items) \in Nat /\ n + 1 \in 1..Len(b.items)
      BY <1>1, <1>2, BatchItems DEF Typed, IsBatch
    <1>4. /\ item(w) = b.items[n + 1] /\ at \in Instants
          /\ item(w).row \in AnyRow /\ b.table \in Tables
      BY <1>3, BatchItems, RowsOfBatches DEF item
    <1>5. Met(w) = Seen(w, at)
      BY DEF Met, Seen, old
    <1> HIDE DEF b, n, at
    <1>6. Seen(w, at) \in AnyRow
      BY <1>2, <1>4 DEF Transaction, WritesAreOpen, Seen, old, Typed, b
    <1>7. row \in AnyRow
      BY <1>4, <1>5, <1>6 DEF merged
    <1> HIDE DEF row
    <1>8. /\ DOMAIN pending'[w] = IF row = Seen(w, at) THEN DOMAIN pending[w]
                                  ELSE DOMAIN pending[w] \cup {at}
          /\ \A ts \in DOMAIN pending'[w] :
                pending'[w][ts] = IF ts = at THEN row ELSE pending[w][ts]
      <2>1. CASE row = Seen(w, at)
        <3>1. pending' = pending
          BY <1>1, <1>5, <2>1 DEF row, b, at
        <3> QED
          BY <2>1, <3>1 DEF Seen
      <2>2. CASE row # Seen(w, at)
        <3>1. pending'[w] = over([t \in {at} |-> row], pending[w])
          BY <1>1, <1>2, <1>5, <2>2 DEF Typed, row, b, at
        <3> QED
          BY <2>2, <3>1 DEF over
      <2> QED
        BY <2>1, <2>2
    <1>9. /\ locked'[w] = IF locks(b.table, Seen(w, at)) THEN locked[w] \cup {at} ELSE locked[w]
          /\ done'[w] = n + 1
      BY <1>1, <1>2, <1>5 DEF Typed, row, b, n, at
    <1>10. ASSUME NEW v \in Writers, v # w
           PROVE  pending'[v] = pending[v] /\ locked'[v] = locked[v] /\ done'[v] = done[v]
      BY <1>1, <1>2, <1>10 DEF Typed
    <1>11. Typed'
      <2>1. done' \in [Writers -> Nat] /\ DOMAIN pending' = Writers
        BY <1>1, <1>2 DEF Typed
      <2>2. locked' \in [Writers -> SUBSET Instants]
        BY <1>1, <1>2, <1>4 DEF Typed
      <2> QED
        BY <1>1, <1>2, <2>1, <2>2 DEF Typed
    <1>12. old(w, at) = rows[b.table][at]
      BY DEF old, b
    <1>13. row # Seen(w, at) => locks(b.table, Seen(w, at))
      BY <1>5 DEF row, merged, locks, b
    <1>14. Open(w)'
      BY <1>1, <1>2, <1>3, <1>9 DEF Transaction, Open, b, n
    <1>15. WritesAreOpen(w)'
      <2>1. row # Seen(w, at) /\ at \notin DOMAIN pending[w] => ~Final(b.table, old(w, at))
        BY <1>5 DEF row, merged, Final, Seen, b
      <2>2. WritesAreOpen(w)
        BY <1>2 DEF Transaction
      <2>3. ASSUME NEW ts \in DOMAIN pending'[w]
            PROVE  ts \in locked'[w] /\ pending'[w][ts] \in AnyRow /\ ~Final(b.table, old(w, ts))
        <3>1. CASE ts \in DOMAIN pending[w]
          BY <1>7, <1>8, <1>9, <2>2, <2>3, <3>1 DEF WritesAreOpen, b
        <3>2. CASE ts \notin DOMAIN pending[w]
          BY <1>7, <1>8, <1>9, <1>13, <2>1, <2>3, <3>2
        <3> QED
          BY <3>1, <3>2
      <2> QED
        BY <1>1, <2>3 DEF WritesAreOpen, old, b
    <1>16. Covered(w)'
      <2>1. at \in locked'[w] \/ (b.table = "ticks" /\ old(w, at) # Absent)
        BY <1>2, <1>9 DEF Transaction, WritesAreOpen, locks, Seen
      <2>2. ASSUME NEW i \in 1..(n + 1), i # n + 1
            PROVE  \/ b.items[i].ts \in locked'[w]
                   \/ b.table = "ticks" /\ old(w, b.items[i].ts) # Absent
        <3>1. i \in 1..n
          BY <1>3, <2>2
        <3> QED
          BY <1>1, <1>2, <1>9, <3>1 DEF Transaction, Covered, b, n
      <2>3. b.items[n + 1].ts = at
        BY <1>4 DEF at
      <2> QED
        BY <1>1, <1>9, <2>1, <2>2, <2>3 DEF Covered, old, b
    <1>17. Progress(w)'
      <2>1. ASSUME NEW ts \in Instants
            PROVE  Seen(w, ts)' = IF ts = at THEN row ELSE Seen(w, ts)
        BY <1>1, <1>8 DEF Seen, old
      <2>2. ASSUME NEW ts \in Instants
            PROVE  LeftAfter(b, n + 1, ts, old(w, ts)) =
                      IF ts = at THEN row ELSE Seen(w, ts)
        <3>1. Seen(w, ts) = LeftAfter(b, n, ts, old(w, ts))
          BY <1>1, <1>2 DEF Transaction, Progress, b, n
        <3>2. LeftAfter(b, n + 1, ts, old(w, ts)) =
                 IF b.items[n + 1].ts = ts
                 THEN merged(b.table, LeftAfter(b, n, ts, old(w, ts)), b.items[n + 1].row)
                 ELSE LeftAfter(b, n, ts, old(w, ts))
          BY <1>3, LeftNext
        <3>3. at = b.items[n + 1].ts /\ item(w).row = b.items[n + 1].row
          BY <1>4 DEF at
        <3> QED
          BY <1>5, <3>1, <3>2, <3>3 DEF row, b
      <2> QED
        BY <1>1, <1>9, <2>1, <2>2 DEF Progress, Seen, old, b
    <1>18. Transaction(w)'
      <2>1. Committed(w)'
        BY <1>1, <1>2 DEF Transaction, Open, Committed
      <2> QED
        BY <1>14, <1>15, <1>16, <1>17, <2>1 DEF Transaction
    <1>19. ASSUME NEW v \in Writers, v # w PROVE Transaction(v)'
      BY <1>1, <1>10, <1>19, Frame
    <1>20. LocksApart'
      <2>1. ASSUME NEW v \in Writers, v # w, batch[v].table = b.table
            PROVE  locked[v] \cap locked'[w] = {}
        <3>1. at \notin locked[v]
          BY <1>1, <2>1 DEF WaitsFor, at, b
        <3>2. locked[v] \cap locked[w] = {}
          BY <1>2, <2>1 DEF LocksApart, b
        <3> QED
          BY <1>9, <3>1, <3>2
      <2> QED
        BY <1>1, <1>2, <1>10, <2>1 DEF LocksApart, b
    <1>21. OnlyBarsForm'
      BY <1>1, <1>2 DEF OnlyBarsForm
    <1> QED
      BY <1>11, <1>18, <1>19, <1>20, <1>21 DEF IInv

-----------------------------------------------------------------------------
\* The commit.

\* A commit leaves in each row what the batch would leave there, run at once.
LEMMA CommitLeaves ==
    ASSUME IInv, NEW w \in Writers, Commit(w) \/ CommitLate(w)
    PROVE  /\ rows' = [rows EXCEPT ![batch[w].table] =
                          [ts \in Instants |-> LeftAfter(batch[w], Len(batch[w].items), ts, @[ts])]]
           /\ \A ts \in Instants :
                 rows'[batch[w].table][ts] # old(w, ts) =>
                    ts \in locked[w] /\ ~Final(batch[w].table, old(w, ts))
           /\ rows' \in [Tables -> [Instants -> AnyRow]]
           /\ \A t \in Tables : t # batch[w].table => rows'[t] = rows[t]
           /\ \A ts \in Instants : rows'[batch[w].table][ts] =
                 LeftAfter(batch[w], Len(batch[w].items), ts, rows[batch[w].table][ts])
    <1> DEFINE b == batch[w]
    <1>1. /\ pc[w] = "writing" /\ done[w] = Len(b.items)
          /\ rows' = [rows EXCEPT ![b.table] = over(pending[w], @)]
      BY DEF Commit, CommitLate, TakesEffect
    <1>2. Typed /\ Transaction(w)
      BY DEF IInv
    <1>3. b \in Batches /\ b.table \in Tables
      BY <1>1, <1>2, BatchItems DEF Transaction, Open, IsBatch
    <1> HIDE DEF b
    <1>4. DOMAIN pending[w] \subseteq Instants /\ DOMAIN rows[b.table] = Instants
      BY <1>2, <1>3 DEF Typed, Transaction, WritesAreOpen
    <1>5. ASSUME NEW ts \in Instants
          PROVE  over(pending[w], rows[b.table])[ts] = Seen(w, ts)
      BY <1>4 DEF over, Seen, old, b
    <1>6. over(pending[w], rows[b.table]) = [ts \in Instants |-> Seen(w, ts)]
      <2>1. over(pending[w], rows[b.table]) =
               [ts \in Instants |-> over(pending[w], rows[b.table])[ts]]
        BY <1>4 DEF over
      <2> QED
        BY <1>5, <2>1
    <1>7. \A ts \in Instants :
             Seen(w, ts) = LeftAfter(b, Len(b.items), ts, rows[b.table][ts])
      BY <1>1, <1>2 DEF Transaction, Progress, old, b
    <1>8. rows' = [rows EXCEPT ![b.table] =
                      [ts \in Instants |-> LeftAfter(b, Len(b.items), ts, @[ts])]]
      <2>1. [ts \in Instants |-> Seen(w, ts)] =
               [ts \in Instants |-> LeftAfter(b, Len(b.items), ts, rows[b.table][ts])]
        BY <1>7
      <2> QED
        BY <1>1, <1>6, <2>1
    <1>9. \A ts \in Instants : rows'[b.table][ts] = Seen(w, ts)
      BY <1>1, <1>2, <1>3, <1>5 DEF Typed
    <1>10. \A ts \in Instants :
              rows'[b.table][ts] # old(w, ts) =>
                 ts \in locked[w] /\ ~Final(b.table, old(w, ts))
      BY <1>2, <1>9 DEF Transaction, WritesAreOpen, Seen, b
    <1>11. rows' \in [Tables -> [Instants -> AnyRow]]
      <2>1. \A ts \in Instants : Seen(w, ts) \in AnyRow
        BY <1>2, <1>3 DEF Transaction, WritesAreOpen, Typed, Seen, old, b
      <2> DEFINE seen == [ts \in Instants |-> Seen(w, ts)]
                 Columns == [Instants -> AnyRow]
      <2>2. seen \in Columns
        BY <2>1
      <2>3. rows \in [Tables -> Columns] /\ rows' = [rows EXCEPT ![b.table] = seen]
        BY <1>1, <1>2, <1>6 DEF Typed
      <2> HIDE DEF seen, Columns
      <2>4. rows' \in [Tables -> Columns]
        BY <2>2, <2>3
      <2> QED
        BY <2>4 DEF Columns
    <1>12. \A t \in Tables : t # b.table => rows'[t] = rows[t]
      BY <1>1, <1>2 DEF Typed
    <1>13. \A ts \in Instants :
              rows'[b.table][ts] = LeftAfter(b, Len(b.items), ts, rows[b.table][ts])
      BY <1>7, <1>9
    <1> QED
      BY <1>8, <1>10, <1>11, <1>12, <1>13 DEF b

\* It takes no row away and makes none incomplete.
LEMMA CommitKeeps ==
    ASSUME IInv, NEW w \in Writers, Commit(w) \/ CommitLate(w), NEW t \in Tables, NEW ts \in Instants
    PROVE  /\ rows[t][ts] # Absent => rows'[t][ts] # Absent
           /\ rows[t][ts].complete => rows'[t][ts].complete
           /\ t = "bars" \/ rows'[t][ts] = Absent \/ rows'[t][ts].complete
    <1> DEFINE b == batch[w]
               left == LeftAfter(b, Len(b.items), ts, rows[t][ts])
    <1>1. Typed /\ Transaction(w) /\ OnlyBarsForm
      BY DEF IInv
    <1>2. IsBatch(b) /\ Len(b.items) \in Nat
      BY <1>1, BatchItems DEF Typed, IsBatch
    <1>3. rows'[t][ts] = IF t = b.table THEN left ELSE rows[t][ts]
      BY CommitLeaves
    <1>4. t = "bars" \/ rows[t][ts] = Absent \/ rows[t][ts].complete
      BY <1>1 DEF OnlyBarsForm
    <1>5. CASE t # b.table
      BY <1>3, <1>4, <1>5
    <1>6. CASE t = b.table
      <2>1. Len(b.items) \in 0..Len(b.items)
        BY <1>2
      <2>2. rows[t][ts] = Absent \/ b.table = "bars" \/ rows[t][ts].complete
        BY <1>4, <1>6
      <2> HIDE DEF b
      <2>3. /\ rows[t][ts] # Absent => left # Absent
            /\ rows[t][ts].complete => left.complete
            /\ left = Absent \/ b.table = "bars" \/ left.complete
        BY <1>2, <2>1, <2>2, LeftIsKept
      <2> QED
        BY <1>3, <1>6, <2>3
    <1> QED
      BY <1>5, <1>6

\* The commit of one transaction leaves the others as they were: it changes no row
\* that they have locked, and none that their statements passed over.
LEMMA OthersUnmoved ==
    ASSUME IInv, NEW w \in Writers, Commit(w) \/ CommitLate(w), NEW v \in Writers, v # w, Typed'
    PROVE  Transaction(v)'
    <1> DEFINE b == batch[v]
    <1>1. Typed /\ Transaction(v) /\ LocksApart
      BY DEF IInv
    <1>2. /\ pc'[v] = pc[v] /\ batch'[v] = b /\ done'[v] = done[v]
          /\ pending'[v] = pending[v] /\ locked'[v] = locked[v] /\ outcome'[v] = outcome[v]
      BY <1>1 DEF Commit, CommitLate, TakesEffect, Release, Typed
    <1>3. IsBatch(b) /\ done[v] \in Nat /\ done[v] <= Len(b.items)
      BY <1>1 DEF Typed, IsBatch, Transaction, Open
    <1>4. /\ b.table \in Tables /\ Len(b.items) \in Nat /\ DOMAIN b.items = 1..Len(b.items)
          /\ \A i \in 1..Len(b.items) : b.items[i].ts \in Instants
      BY <1>3, BatchItems
    <1> HIDE DEF b
    <1>5. \A ts \in Instants :
             rows'[b.table][ts] # rows[b.table][ts] =>
                ts \notin locked[v] /\ ~Final(b.table, rows[b.table][ts])
      <2>1. CASE b.table = batch[w].table
        <3>1. locked[v] \cap locked[w] = {}
          BY <1>1, <2>1 DEF LocksApart, b
        <3> QED
          BY <2>1, <3>1, CommitLeaves DEF old
      <2>2. CASE b.table # batch[w].table
        BY <1>4, <2>2, CommitLeaves
      <2> QED
        BY <2>1, <2>2
    <1>6. Open(v)' /\ WritesAreOpen(v)'
      BY <1>1, <1>2, <1>4, <1>5 DEF Transaction, Open, WritesAreOpen, Typed, old, b
    <1>7. Covered(v)'
      <2>1. ASSUME pc[v] = "writing", NEW i \in 1..done[v]
            PROVE  \/ b.items[i].ts \in locked[v]
                   \/ b.table = "ticks" /\ rows'[b.table][b.items[i].ts] # Absent
        <3>1. b.items[i].ts \in Instants
          BY <1>3, <1>4
        <3>2. \/ b.items[i].ts \in locked[v]
              \/ b.table = "ticks" /\ rows[b.table][b.items[i].ts] # Absent
          BY <1>1, <2>1 DEF Transaction, Covered, old, b
        <3> QED
          BY <3>1, <3>2, CommitKeeps, <1>4
      <2> QED
        BY <1>2, <2>1 DEF Covered, old, b
    <1>8. Progress(v)'
      <2>1. ASSUME pc[v] = "writing", NEW ts \in Instants
            PROVE  Seen(v, ts)' = LeftAfter(b, done[v], ts, rows'[b.table][ts])
        <3>1. Seen(v, ts) = LeftAfter(b, done[v], ts, rows[b.table][ts])
          BY <1>1, <2>1 DEF Transaction, Progress, old, b
        <3>2. CASE rows'[b.table][ts] = rows[b.table][ts]
          BY <1>2, <3>1, <3>2 DEF Seen, old, b
        <3>3. CASE rows'[b.table][ts] # rows[b.table][ts]
          <4>1. ts \notin locked[v] /\ ~Final(b.table, rows[b.table][ts])
            BY <1>5, <3>3
          <4>2. PositionsUpTo(b, done[v], ts) = {}
            BY <1>1, <2>1, <4>1
               DEF Transaction, Covered, PositionsUpTo, Final, old, b
          <4>3. LeftAfter(b, done[v], ts, rows'[b.table][ts]) = rows'[b.table][ts]
            BY <4>2, LeftAlone
          <4>4. ts \notin DOMAIN pending[v]
            BY <1>1, <4>1 DEF Transaction, WritesAreOpen
          <4> QED
            BY <1>2, <4>3, <4>4 DEF Seen, old, b
        <3> QED
          BY <3>2, <3>3
      <2> QED
        BY <1>2, <2>1 DEF Progress, old, b
    <1>9. Committed(v)'
      <2>1. ASSUME pc[v] = "committed" \/ outcome[v] = "returned", NEW i \in DOMAIN b.items
            PROVE  LET submitted == b.items[i]
                       stored == rows'[b.table][submitted.ts]
                   IN  stored # Absent /\ (submitted.row.complete => stored.complete)
        <3>1. b.items[i].ts \in Instants
          BY <1>4
        <3>2. LET submitted == b.items[i]
                  stored == rows[b.table][submitted.ts]
              IN  stored # Absent /\ (submitted.row.complete => stored.complete)
          BY <1>1, <2>1 DEF Transaction, Committed, b
        <3> QED
          BY <1>4, <3>1, <3>2, CommitKeeps
      <2> QED
        BY <1>2, <2>1 DEF Committed, b
    <1> QED
      BY <1>6, <1>7, <1>8, <1>9 DEF Transaction

\* After it, every row of the batch is in the table, or what outranks it.
LEMMA CommitStores ==
    ASSUME IInv, NEW w \in Writers, Commit(w) \/ CommitLate(w), NEW i \in DOMAIN batch[w].items
    PROVE  LET submitted == batch[w].items[i]
               stored == rows'[batch[w].table][submitted.ts]
           IN  stored # Absent /\ (submitted.row.complete => stored.complete)
    <1> DEFINE b == batch[w]
               ts == b.items[i].ts
               was == rows[b.table][ts]
               P == PositionsUpTo(b, Len(b.items), ts)
    <1>1. Typed /\ OnlyBarsForm
      BY DEF IInv
    <1>2. /\ IsBatch(b) /\ b.table \in Tables /\ Len(b.items) \in 0..Len(b.items)
          /\ DOMAIN b.items = 1..Len(b.items)
          /\ \A k \in 1..Len(b.items) : b.items[k].ts \in Instants
      BY <1>1, BatchItems DEF Typed, IsBatch
    <1> HIDE DEF b
    <1>3. ts \in Instants /\ i \in DOMAIN b.items
      BY <1>2 DEF b
    <1>4. i \in P
      BY <1>2, <1>3 DEF PositionsUpTo
    <1>5. rows'[b.table][ts] = LeftAfter(b, Len(b.items), ts, was)
      BY <1>3, CommitLeaves DEF b
    <1>6. was = Absent \/ b.table = "bars" \/ was.complete
      BY <1>1, <1>2, <1>3 DEF OnlyBarsForm
    <1> HIDE DEF was, ts
    <1>7. /\ LeftAfter(b, Len(b.items), ts, was) # Absent
          /\ \A j \in P :
                b.items[j].row.complete => LeftAfter(b, Len(b.items), ts, was).complete
      BY <1>2, <1>4, <1>6, LeftIsKept
    <1> QED
      BY <1>4, <1>5, <1>7 DEF ts, b

\* A commit makes the rows of its transaction the rows of the table.
LEMMA CommitStep ==
    ASSUME IInv, NEW w \in Writers, Commit(w) \/ CommitLate(w)
    PROVE  IInv'
    <1>1. /\ pc[w] = "writing"
          /\ \/ pc' = [pc EXCEPT ![w] = "committed"]
             \/ pc' = [pc EXCEPT ![w] = "idle"]
          /\ pending' = [pending EXCEPT ![w] = NothingPending]
          /\ locked' = [locked EXCEPT ![w] = {}]
          /\ done' = [done EXCEPT ![w] = 0]
          /\ batch' = batch /\ outcome' = outcome /\ calls' = calls
      BY DEF Commit, CommitLate, TakesEffect, Release
    <1>2. Typed /\ Transaction(w) /\ LocksApart /\ OnlyBarsForm
      BY DEF IInv
    <1>3. Typed'
      BY <1>1, <1>2, CommitLeaves DEF Typed
    <1>4. /\ pc'[w] \in {"committed", "idle"} /\ locked'[w] = {} /\ DOMAIN pending'[w] = {}
          /\ done'[w] = 0
      BY <1>1, <1>2 DEF Typed, NothingPending
    <1>5. Committed(w)'
      BY <1>1, CommitStores DEF Committed
    <1>6. Transaction(w)'
      <2>1. IsBatch(batch[w])
        BY <1>2 DEF Typed, IsBatch
      <2>2. 0 <= Len(batch[w].items)
        BY <2>1, BatchItems
      <2> QED
        BY <1>1, <1>4, <1>5, <2>2 DEF Transaction, Open, WritesAreOpen, Covered, Progress
    <1>7. ASSUME NEW v \in Writers, v # w PROVE Transaction(v)'
      BY <1>3, <1>7, OthersUnmoved
    <1>8. LocksApart'
      BY <1>1, <1>2 DEF LocksApart, Typed
    <1>9. OnlyBarsForm'
      BY CommitKeeps DEF OnlyBarsForm
    <1> QED
      BY <1>3, <1>6, <1>7, <1>8, <1>9 DEF IInv

-----------------------------------------------------------------------------
\* The theorems.

\* Every step keeps the invariant.
LEMMA Step == IInv /\ [Next]_vars => IInv'
    <1> SUFFICES ASSUME IInv, [Next]_vars PROVE IInv'
      OBVIOUS
    <1>1. ASSUME NEW w \in Writers, Write(w) PROVE IInv'
      BY <1>1, WriteStep
    <1>2. ASSUME NEW w \in Writers, Commit(w) \/ CommitLate(w) PROVE IInv'
      BY <1>2, CommitStep
    <1>3. ASSUME NEW w \in Writers, Return(w) \/ LoseAnswer(w) \/ RollBack(w) PROVE IInv'
      BY <1>3, EndStep
    <1>4. ASSUME NEW w \in Writers, Store(w) PROVE IInv'
      BY <1>4, StoreStep
    <1>5. CASE DetectDeadlock
      <2>1. PICK S \in SUBSET Writers : \E w \in S : RollBack(w)
        BY <1>5 DEF DetectDeadlock
      <2> QED
        BY <1>3, <2>1
    <1>6. ASSUME NEW w \in Writers, Disconnect(w) PROVE IInv'
      BY <1>6, DisconnectStep
    <1>7. CASE UNCHANGED vars
      <2>1. ASSUME NEW w \in Writers PROVE Transaction(w)'
        BY <1>7, Frame DEF vars
      <2> QED
        BY <1>7, <2>1 DEF IInv, Typed, LocksApart, OnlyBarsForm, vars
    <1> QED
      BY <1>1, <1>2, <1>3, <1>4, <1>5, <1>6, <1>7 DEF Next, Run, Fail, Reap

\* Whatever statements interleave, fail, deadlock or lose their answers, the open
\* transactions stay apart and true to what is committed beneath them.
THEOREM Invariance == Spec => []IInv
    BY Initially, Step, PTL DEF Spec

\* A backfill and its venue only make calls that any caller may make.
LEMMA BackfillCalls == [BackfillNext]_allVars => [Next]_vars
    <1> SUFFICES ASSUME [BackfillNext]_allVars PROVE [Next]_vars
      OBVIOUS
    <1>1. CASE Resume \/ FetchPage \/ NextPage \/ Abandon \/ PassTime
      BY <1>1 DEF Resume, FetchPage, NextPage, Abandon, PassTime
    <1>2. CASE StorePage
      BY <1>2, BackfillAssumption DEF StorePage, Next
    <1>3. CASE \E w \in Writers : StoreOther(w)
      BY <1>3 DEF StoreOther, Next
    <1>4. CASE Run
      BY <1>4 DEF Next
    <1>5. CASE UNCHANGED allVars
      BY <1>5 DEF allVars
    <1> QED
      BY <1>1, <1>2, <1>3, <1>4, <1>5 DEF BackfillNext

\* Every behaviour of a backfill beside other writers is one of the repositories.
THEOREM BackfillIsOrdinary == BackfillSpec => Spec
    BY BackfillCalls, PTL DEF BackfillSpec, BackfillInit, Spec

\* The tables hold rows of the batches, and locks end with their transaction.
THEOREM TypeCorrect == Spec => []TypeOK
    <1>1. IInv => TypeOK
      <2> SUFFICES ASSUME IInv PROVE TypeOK
        OBVIOUS
      <2>1. Typed /\ \A w \in Writers : Transaction(w)
        BY DEF IInv
      <2>2. ASSUME NEW t \in Tables, NEW ts \in Instants
            PROVE  rows[t][ts] = Absent \/ rows[t][ts] \in
                      UNION {{b.items[i].row : i \in DOMAIN b.items} : b \in Batches}
        <3>1. rows[t][ts] \in AnyRow
          BY <2>1 DEF Typed
        <3> QED
          BY <3>1 DEF AnyRow
      <2>3. ASSUME NEW w \in Writers
            PROVE  /\ done[w] \in 0..Len(batch[w].items)
                   /\ locked[w] \subseteq Instants /\ DOMAIN pending[w] \subseteq locked[w]
                   /\ pc[w] # "writing" => locked[w] = {}
        <3>1. IsBatch(batch[w]) /\ done[w] \in Nat
          BY <2>1 DEF Typed, IsBatch
        <3>2. Len(batch[w].items) \in Nat
          BY <3>1, BatchItems
        <3> QED
          BY <2>1, <3>1, <3>2 DEF Typed, Transaction, Open, WritesAreOpen
      <2> QED
        BY <2>1, <2>2, <2>3 DEF TypeOK, Typed
    <1> QED
      BY Invariance, <1>1, PTL

\* No statement, commit, retry or correction, in whatever order they come, changes
\* a complete bar or a tick once it is committed.
THEOREM HistoryKept == Spec => HistoryIsFinal
    <1>1. IInv /\ [Next]_vars =>
             [\A ts \in Instants :
                /\ rows["bars"][ts].complete => rows'["bars"][ts] = rows["bars"][ts]
                /\ rows["ticks"][ts] # Absent => rows'["ticks"][ts] = rows["ticks"][ts]]_vars
      <2> SUFFICES ASSUME IInv, Next, NEW ts \in Instants
                   PROVE  /\ rows["bars"][ts].complete => rows'["bars"][ts] = rows["bars"][ts]
                          /\ rows["ticks"][ts] # Absent => rows'["ticks"][ts] = rows["ticks"][ts]
        BY DEF vars
      <2>1. CASE rows' = rows
        BY <2>1
      <2>2. ASSUME NEW w \in Writers, Commit(w) \/ CommitLate(w)
            PROVE  /\ rows["bars"][ts].complete => rows'["bars"][ts] = rows["bars"][ts]
                   /\ rows["ticks"][ts] # Absent => rows'["ticks"][ts] = rows["ticks"][ts]
        BY <2>2, CommitLeaves DEF Final, Tables, old
      <2> QED
        BY <2>1, <2>2
           DEF Next, Run, Store, Write, Return, LoseAnswer, Fail, RollBack, Disconnect, Reap,
               DetectDeadlock
    <1> QED
      BY Invariance, <1>1, PTL DEF Spec, HistoryIsFinal

\* A caller that was answered finds what it submitted, or what outranks it.
THEOREM AnswersAreStored == Spec => []ReturnedIsStored
    <1>1. IInv => ReturnedIsStored
      BY DEF IInv, Transaction, Committed, ReturnedIsStored
    <1> QED
      BY Invariance, <1>1, PTL

\* Statement by statement under row locks, a batch has the effect it would have
\* alone and at once: a commit is a step of AtomicTables, and nothing else is.
THEOREM Refinement == Spec => ImplementsTables
    <1>1. Init => Table!Init
      BY DEF Init, Table!Init, Absent, Table!Absent
    <1>2. IInv /\ [Next]_vars => [Table!Next]_rows
      <2> SUFFICES ASSUME IInv, Next PROVE rows' = rows \/ Table!Next
        BY DEF vars
      <2>1. ASSUME NEW w \in Writers, Commit(w) \/ CommitLate(w) PROVE Table!Next
        <3> DEFINE b == batch[w]
        <3>1. b \in Batches
          BY <2>1 DEF Commit, CommitLate, TakesEffect, IInv, Transaction, Open
        <3>2. IsBatch(b)
          BY <3>1 DEF IsBatch
        <3> HIDE DEF b
        <3>3. \A ts, was : LeftAfter(b, Len(b.items), ts, was) = Table!Applied(b, ts, was)
          BY <3>2, LeftByAll
        <3>4. rows' = [rows EXCEPT ![b.table] =
                          [ts \in Instants |-> LeftAfter(b, Len(b.items), ts, @[ts])]]
          BY <2>1, CommitLeaves DEF b
        <3>5. rows' = [rows EXCEPT ![b.table] =
                          [ts \in Instants |-> Table!Applied(b, ts, rows[b.table][ts])]]
          BY <3>3, <3>4
        <3> QED
          BY <3>1, <3>5 DEF Table!Next, Table!Apply
      <2> QED
        BY <2>1
           DEF Next, Run, Store, Write, Return, LoseAnswer, Fail, RollBack, Disconnect, Reap,
               DetectDeadlock
    <1> QED
      BY Invariance, <1>1, <1>2, PTL DEF Spec, ImplementsTables, Table!Spec

\* So it is beside a backfill, the system whose behaviours are checked.
THEOREM BackfillKeepsTables ==
    BackfillSpec => HistoryIsFinal /\ []ReturnedIsStored /\ ImplementsTables
    BY BackfillIsOrdinary, HistoryKept, AnswersAreStored, Refinement, PTL

-----------------------------------------------------------------------------
\* The backfill.

\* A page that was fetched: it leaves out no bar between its first and its last.
IsPage(p, first) ==
    /\ p # <<>> /\ p \in Seq(Instants)
    /\ \A i \in 1..Len(p) : p[i] <= p[Len(p)]
    /\ \A k \in Instants :
          first <= k * width /\ k <= p[Len(p)] => \E i \in 1..Len(p) : p[i] = k

PageBatch(p) ==
    [table |-> "bars", items |-> [i \in DOMAIN p |-> [ts |-> p[i], row |-> ClosedRow]]]

Closed(k) == rows["bars"][k].complete

\* The job stands at the start of a bar, with a page from there on, or its batch.
AtABar ==
    /\ now \in Nat /\ resumedOver \in BOOLEAN /\ fed \in BOOLEAN
    /\ \E n \in 0..(Cardinality(Instants) + 1) : from = n * width
    /\ job = "none" => from = 0
    /\ page # <<>> => job \in {"paging", "storing"} /\ IsPage(page, from)
    /\ job = "storing" => page # <<>> /\ batch[Backfiller] = PageBatch(page)

\* What is older than the place it has reached is there, unless it resumed past a gap.
Filled ==
    job # "none" /\ ~resumedOver =>
       \A k \in Instants : k * width < from => Closed(k)

\* A page of the series, all of whose older bars are there.
Continues(b) ==
    \E p, first :
       /\ b = PageBatch(p) /\ IsPage(p, first) /\ first \in Nat
       /\ \A k \in Instants : k * width < first => Closed(k)

\* By itself it makes no gap, not even with a page whose COMMIT comes late.
Alone ==
    ~fed => /\ \A w \in Writers :
                  pc[w] = "writing" /\ batch[w].table = "bars" => Continues(batch[w])
            /\ ~HasHole /\ ~resumedOver

BInv == IInv /\ AtABar /\ Filled /\ Alone

\* The bars of the series are numbered from one.
LEMMA Series ==
    /\ Cardinality(Instants) \in Nat
    /\ \A k : k \in Instants <=> k \in 1..Cardinality(Instants)
    BY BackfillAssumption, InstantsAssumption, FS_CardinalityType

\* Bars have a width, and follow one another.
LEMMA Width ==
    /\ width \in Nat \ {0}
    /\ \A i, j \in Nat : i * width < j * width <=> i < j
    /\ \A i \in Nat : i * width \in Nat /\ i * width + width = (i + 1) * width
    <1>1. width \in Nat \ {0}
      BY BackfillAssumption DEF width, Models!duration
    <1> HIDE DEF width
    <1>2. ASSUME NEW i \in Nat, NEW d \in Nat \ {0}
          PROVE  i * width < (i + d) * width
      <2>1. d * width \in Nat \ {0} /\ i * width \in Nat
        BY <1>1
      <2>2. (i + d) * width = i * width + d * width
        BY <1>1
      <2> DEFINE a == i * width
                 b == d * width
      <2>3. a \in Nat /\ b \in Nat \ {0} /\ (i + d) * width = a + b
        BY <2>1, <2>2
      <2> HIDE DEF a, b
      <2>4. a < a + b
        BY <2>3
      <2> QED
        BY <2>3, <2>4 DEF a
    <1>3. ASSUME NEW i \in Nat, NEW j \in Nat
          PROVE  i * width < j * width <=> i < j
      <2> DEFINE a == i * width
                 b == j * width
      <2>1. a \in Nat /\ b \in Nat
        BY <1>1
      <2>2. i < j => a < b
        <3>1. i < j => j - i \in Nat \ {0} /\ i + (j - i) = j
          OBVIOUS
        <3> QED
          BY <1>2, <3>1
      <2>3. j < i => b < a
        <3>1. j < i => i - j \in Nat \ {0} /\ j + (i - j) = i
          OBVIOUS
        <3> QED
          BY <1>2, <3>1
      <2>4. i = j => a = b
        OBVIOUS
      <2> HIDE DEF a, b
      <2>5. a < b <=> i < j
        BY <2>1, <2>2, <2>3, <2>4
      <2> QED
        BY <2>5 DEF a, b
    <1>4. ASSUME NEW i \in Nat
          PROVE  i * width \in Nat /\ i * width + width = (i + 1) * width
      BY <1>1
    <1> QED
      BY <1>1, <1>3, <1>4

\* The order of a set lists each of its members once.
LEMMA InOrderOnce ==
    ASSUME NEW S \in SUBSET Int, IsFiniteSet(S)
    PROVE  LET n == Cardinality(S)
               sorted == Ascending(S)
           IN  /\ n \in Nat
               /\ sorted \in Seq(S) /\ Len(sorted) = n /\ DOMAIN sorted = 1..n
               /\ \A i, j \in 1..n : i < j => sorted[i] < sorted[j]
               /\ \A x \in S : \E i \in 1..n : sorted[i] = x
    <1> DEFINE n == Cardinality(S)
               sorted == Ascending(S)
               rank(x) == Cardinality(Below(S, x)) + 1
    <1>1. n \in Nat
      BY FS_CardinalityType
    <1>2. ASSUME NEW x \in S
          PROVE  IsFiniteSet(Below(S, x)) /\ rank(x) \in 1..n
      <2>1. Below(S, x) \subseteq S /\ x \in S \ Below(S, x)
        BY DEF Below
      <2>2. /\ IsFiniteSet(Below(S, x)) /\ Cardinality(Below(S, x)) \in Nat
            /\ Cardinality(Below(S, x)) < n
        BY <1>1, <2>1, FS_Subset, FS_CardinalityType
      <2> QED
        BY <1>1, <2>2
    <1>3. ASSUME NEW x \in S, NEW y \in S, x < y
          PROVE  rank(x) < rank(y)
      <2>1. Below(S, x) \subseteq Below(S, y) /\ x \in Below(S, y) \ Below(S, x)
        <3>1. x \in Int /\ y \in Int /\ ~(x < x) /\ \A z \in S : z < x => z < y
          BY <1>3
        <3>2. \A z : z \in Below(S, x) => z \in Below(S, y)
          BY <3>1 DEF Below
        <3> QED
          BY <1>3, <3>1, <3>2 DEF Below
      <2>2. Cardinality(Below(S, x)) < Cardinality(Below(S, y))
        BY <1>2, <2>1, FS_Subset, FS_CardinalityType
      <2>3. Cardinality(Below(S, x)) \in Nat /\ Cardinality(Below(S, y)) \in Nat
        BY <1>2, FS_CardinalityType
      <2> QED
        BY <2>2, <2>3
    <1>4. \A k \in 1..n : \E x \in S : rank(x) = k
      <2> DEFINE f == [x \in S |-> rank(x)]
      <2> HIDE DEF rank, n
      <2>1. f \in [S -> 1..n]
        BY <1>2
      <2>2. \A x, y \in S : f[x] = f[y] => x = y
        BY <1>2, <1>3
      <2>3. f \in Injection(S, 1..n)
        BY <2>1, <2>2 DEF Injection, IsInjective
      <2>4. IsFiniteSet(1..n) /\ Cardinality(1..n) = n
        BY <1>1, FS_Interval
      <2>5. f \in Surjection(S, 1..n)
        BY <2>3, <2>4, FS_Injection DEF n
      <2> QED
        BY <2>5 DEF Surjection
    <1>5. ASSUME NEW k \in 1..n
          PROVE  sorted[k] \in S /\ rank(sorted[k]) = k
      <2>1. \E x \in S : Cardinality(Below(S, x)) = k - 1
        <3>1. PICK x \in S : rank(x) = k
          BY <1>4
        <3>2. Cardinality(Below(S, x)) \in Nat
          BY <1>2, FS_CardinalityType
        <3> QED
          BY <3>1, <3>2
      <2>2. sorted[k] \in S /\ Cardinality(Below(S, sorted[k])) = k - 1
        BY <2>1 DEF Ascending
      <2> QED
        BY <2>2
    <1>6. DOMAIN sorted = 1..n
      BY DEF Ascending
    <1>7. sorted \in Seq(S) /\ Len(sorted) = n
      <2>1. sorted = [k \in 1..n |-> sorted[k]]
        BY DEF Ascending
      <2> HIDE DEF sorted, n
      <2>2. sorted \in [1..n -> S]
        BY <1>5, <2>1
      <2> QED
        BY <1>1, <2>2, LenProperties
    <1> HIDE DEF sorted, n, rank
    <1>8. ASSUME NEW i \in 1..n, NEW j \in 1..n, i < j
          PROVE  sorted[i] < sorted[j]
      <2>1. sorted[i] \in Int /\ sorted[j] \in Int
        BY <1>5
      <2>2. sorted[j] < sorted[i] => j < i
        BY <1>3, <1>5
      <2>3. sorted[i] # sorted[j]
        BY <1>5, <1>8
      <2> QED
        BY <1>1, <1>8, <2>1, <2>2, <2>3
    <1>9. ASSUME NEW x \in S
          PROVE  \E i \in 1..n : sorted[i] = x
      <2>1. rank(x) \in 1..n
        BY <1>2
      <2>2. sorted[rank(x)] \in S /\ rank(sorted[rank(x)]) = rank(x)
        BY <1>5, <2>1
      <2>3. ~(x < sorted[rank(x)]) /\ ~(sorted[rank(x)] < x)
        <3>1. \A y \in S : rank(y) = rank(x) => ~(x < y) /\ ~(y < x)
          <4>1. \A y \in S : rank(y) \in Int
            BY <1>2
          <4> QED
            BY <1>3, <4>1
        <3> QED
          BY <2>2, <3>1
      <2>4. x \in Int /\ sorted[rank(x)] \in Int
        BY <2>2
      <2>5. x = sorted[rank(x)]
        BY <2>3, <2>4
      <2> QED
        BY <2>1, <2>5
    <1> QED
      BY <1>1, <1>6, <1>7, <1>8, <1>9 DEF n, sorted

\* What the venue answers is a page: the closed bars from an instant on, as many as
\* a request may have, and none left out between them.
LEMMA PageFetched ==
    ASSUME AtABar, fetch_candles(from) # <<>>
    PROVE  IsPage(fetch_candles(from), from)
    <1> DEFINE found == {i \in Instants : candle(i).complete /\ candle(i).start >= from}
               all == Ascending(found)
               n == Cardinality(found)
               m == Min({PageSize, Len(all)})
               p == SubSeq(all, 1, m)
    <1>1. found \subseteq Instants /\ found \in SUBSET Int /\ IsFiniteSet(found)
      <2>1. found \subseteq Instants
        OBVIOUS
      <2> HIDE DEF found
      <2>2. found \in SUBSET Int
        BY <2>1, InstantsAssumption
      <2>3. IsFiniteSet(found)
        BY <2>1, InstantsAssumption, FS_Subset
      <2> QED
        BY <2>1, <2>2, <2>3
    <1>2. /\ n \in Nat /\ all \in Seq(found) /\ Len(all) = n
          /\ \A i, j \in 1..n : i < j => all[i] < all[j]
          /\ \A x \in found : \E i \in 1..n : all[i] = x
      <2> HIDE DEF found
      <2> QED
        BY <1>1, InOrderOnce
    <1>3. fetch_candles(from) = p
      BY DEF fetch_candles
    <1>4. PageSize \in Nat \ {0}
      BY BackfillAssumption DEF Models!IsCapabilities
    <1> HIDE DEF all, n
    <1>5. m \in 0..n /\ (n > 0 => m > 0)
      <2>1. m \in {PageSize, n} /\ m <= n
        <3>1. {PageSize, n} \in SUBSET (0..(PageSize + n)) /\ PageSize + n \in Nat
          BY <1>2, <1>4
        <3>2. /\ Min({PageSize, n}) \in {PageSize, n}
              /\ \A y \in {PageSize, n} : Min({PageSize, n}) <= y
          BY <3>1, Extremes
        <3> QED
          BY <1>2, <3>2
      <2> QED
        BY <1>2, <1>4, <2>1
    <1> HIDE DEF m
    <1>6. /\ p \in Seq(found) /\ Len(p) = m
          /\ \A i \in 1..m : p[i] = all[i] /\ p[i] \in found
      <2>1. p \in Seq(found) /\ Len(p) = m /\ \A i \in 1..m : p[i] = all[i]
        <3> HIDE DEF found
        <3> QED
          BY <1>2, <1>5, SubSeqProperties
      <2> QED
        BY <2>1, ElementOfSeq
    <1>7. p \in Seq(Instants)
      BY <1>1, <1>6, SeqMonotonic
    <1> HIDE DEF p
    <1>8. m \in 1..n
      <2>1. m # 0
        BY <1>3, <1>6, EmptySeq
      <2> QED
        BY <1>2, <1>5, <2>1
    <1>9. \A i \in 1..m : p[i] <= p[m]
      <2> SUFFICES ASSUME NEW i \in 1..m PROVE p[i] <= p[m]
        OBVIOUS
      <2>1. p[i] = all[i] /\ p[m] = all[m] /\ i \in 1..n /\ m \in 1..n
        BY <1>2, <1>6, <1>8
      <2>2. p[i] \in Int /\ p[m] \in Int
        BY <1>1, <1>6, <1>8
      <2>3. i < m \/ i = m
        BY <1>8
      <2> QED
        BY <1>2, <2>1, <2>2, <2>3
    <1>10. ASSUME NEW k \in Instants, from <= k * width, k <= p[m]
           PROVE  \E i \in 1..m : p[i] = k
      <2>1. p[m] \in Instants /\ candle(p[m]).complete
        BY <1>6, <1>8
      <2>2. k \in Nat /\ p[m] \in Nat /\ now \in Nat /\ p[m] < now
        BY <2>1, InstantsAssumption DEF AtABar, candle
      <2>3. candle(k).complete /\ candle(k).start >= from
        <3>1. k < now
          BY <1>10, <2>2
        <3>2. \E f \in Nat : from = f * width
          BY Series DEF AtABar
        <3>3. from \in Nat /\ k * width \in Nat
          BY <2>2, <3>2, Width
        <3> QED
          BY <1>10, <3>1, <3>3 DEF candle
      <2>4. k \in found
        BY <2>3
      <2>5. PICK i \in 1..n : all[i] = k
        BY <1>2, <2>4
      <2>6. i <= m
        <3>1. m < i => all[m] < all[i]
          BY <1>2, <1>8
        <3>2. all[m] = p[m]
          BY <1>6, <1>8
        <3> QED
          BY <1>2, <1>8, <1>10, <2>2, <2>5, <3>1, <3>2
      <2> QED
        BY <1>2, <1>6, <1>8, <2>5, <2>6
    <1> QED
      BY <1>3, <1>6, <1>7, <1>8, <1>9, <1>10, EmptySeq DEF IsPage

\* What the calls under way do to the job's state, and to the tables.
LEMMA RunKeeps ==
    ASSUME Typed, Run
    PROVE  /\ batch' = batch
           /\ \A v \in Writers : pc'[v] = "writing" => pc[v] = "writing"
           /\ rows' = rows \/ \E w \in Writers : Commit(w) \/ CommitLate(w)
    <1>1. PICK w \in Writers :
             \/ Write(w) \/ Commit(w) \/ Return(w) \/ LoseAnswer(w) \/ RollBack(w)
             \/ Disconnect(w) \/ CommitLate(w)
      BY DEF Run, Fail, Reap, DetectDeadlock
    <1> QED
      BY <1>1 DEF Typed, Write, Commit, CommitLate, TakesEffect, Return, LoseAnswer, RollBack,
                  Disconnect, Release

\* At first nothing is stored and no job runs.
LEMMA BackfillInitially == BackfillInit => BInv
    <1> SUFFICES ASSUME BackfillInit PROVE BInv
      OBVIOUS
    <1>1. IInv
      BY Initially DEF BackfillInit
    <1>2. AtABar
      <2>1. 0 \in 0..(Cardinality(Instants) + 1) /\ from = 0 * width /\ now \in Nat
        BY Series, Width, BackfillAssumption DEF BackfillInit
      <2> QED
        BY <2>1 DEF BackfillInit, AtABar
    <1>3. Filled
      BY DEF BackfillInit, Filled
    <1>4. Alone
      <2>1. ~HasHole
        BY DEF HasHole, BackfillInit, Init, Tables
      <2> QED
        BY <2>1 DEF BackfillInit, Init, Alone
    <1> QED
      BY <1>1, <1>2, <1>3, <1>4 DEF BInv

\* It resumes at the newest bar, or at the beginning of the series.
LEMMA ResumeStep ==
    ASSUME BInv, Resume
    PROVE  AtABar' /\ Filled' /\ Alone'
    <1>1. /\ job \in {"none", "done"}
          /\ job' = "paging" /\ from' = latest_bar_start /\ resumedOver' = HasHole
          /\ page' = page /\ now' = now /\ fed' = fed /\ rows' = rows /\ pc' = pc /\ batch' = batch
      BY DEF Resume, vars
    <1>2. AtABar /\ Alone
      BY DEF BInv
    <1>3. page = <<>>
      BY <1>1, <1>2 DEF AtABar
    <1>4. \E n \in 0..(Cardinality(Instants) + 1) :
             /\ from' = n * width
             /\ ~HasHole => \A k \in Instants : k < n => Closed(k)
      <2>1. CASE Stored("bars") = {}
        <3>1. from' = 0 * width
          BY <1>1, <2>1, Width DEF latest_bar_start
        <3>2. \A k \in Instants : ~(k < 0)
          BY InstantsAssumption
        <3> QED
          BY <3>1, <3>2, Series
      <2>2. CASE Stored("bars") # {}
        <3> DEFINE newest == Max(Stored("bars"))
        <3>1. Stored("bars") \subseteq Instants
          BY DEF Stored
        <3>2. newest \in Stored("bars")
          <4>1. Cardinality(Instants) \in Nat
            BY Series
          <4>2. Stored("bars") \in SUBSET (0..Cardinality(Instants))
            BY <3>1, Series
          <4> QED
            BY <2>2, <4>1, <4>2, Extremes
        <3>3. newest \in Nat /\ newest \in Instants /\ rows["bars"][newest] # Absent
          BY <3>1, <3>2, InstantsAssumption DEF Stored
        <3>4. from' = newest * width
          BY <1>1, <2>2 DEF latest_bar_start, candle
        <3> HIDE DEF newest
        <3>5. ~HasHole => \A k \in Instants : k < newest => Closed(k)
          BY <3>3 DEF HasHole, Closed
        <3>6. newest \in 0..(Cardinality(Instants) + 1)
          BY <3>3, Series
        <3> QED
          BY <3>4, <3>5, <3>6
      <2> QED
        BY <2>1, <2>2
    <1>5. PICK n \in 0..(Cardinality(Instants) + 1) :
             /\ from' = n * width
             /\ ~HasHole => \A k \in Instants : k < n => Closed(k)
      BY <1>4
    <1>6. AtABar'
      <2>1. /\ now' \in Nat /\ resumedOver' \in BOOLEAN /\ fed' \in BOOLEAN
            /\ job' = "paging" /\ page' = <<>>
        BY <1>1, <1>2, <1>3 DEF AtABar, HasHole
      <2>2. \E m \in 0..(Cardinality(Instants) + 1) : from' = m * width
        BY <1>5
      <2> QED
        BY <2>1, <2>2 DEF AtABar
    <1>7. Filled'
      <2> SUFFICES ASSUME ~HasHole, NEW k \in Instants, k * width < n * width
                   PROVE  Closed(k)
        BY <1>1, <1>5 DEF Filled, Closed
      <2>1. k < n
        BY Width, Series
      <2> QED
        BY <1>5, <2>1
    <1>8. Alone'
      BY <1>1, <1>2 DEF Alone, HasHole, Continues, Closed
    <1> QED
      BY <1>6, <1>7, <1>8

\* A page that was stored ends where the next begins.
LEMMA NextPageStep ==
    ASSUME BInv, NextPage
    PROVE  AtABar' /\ Filled' /\ Alone'
    <1> DEFINE last == page[Len(page)]
    <1>1. /\ job = "storing" /\ outcome[Backfiller] = "returned"
          /\ from' = candle(last).start + width
          /\ job' = "paging" /\ page' = <<>> /\ now' = now /\ resumedOver' = resumedOver
          /\ fed' = fed /\ rows' = rows /\ pc' = pc /\ batch' = batch
      BY DEF NextPage, vars, Models!end, candle, width
    <1>2. AtABar /\ Alone /\ Filled /\ Transaction(Backfiller)
      BY BackfillAssumption DEF BInv, IInv
    <1>3. IsPage(page, from) /\ batch[Backfiller] = PageBatch(page)
      BY <1>1, <1>2 DEF AtABar
    <1>4. last \in Instants /\ last \in Nat /\ DOMAIN page = 1..Len(page)
      <2>1. page \in Seq(Instants) /\ page # <<>>
        BY <1>3 DEF IsPage
      <2>2. Len(page) \in 1..Len(page) /\ DOMAIN page = 1..Len(page)
        BY <2>1, EmptySeq, LenProperties
      <2> QED
        BY <2>1, <2>2, ElementOfSeq, InstantsAssumption
    <1>5. from' = (last + 1) * width /\ last + 1 \in Nat
      BY <1>1, <1>4, Width DEF candle
    <1> HIDE DEF last
    <1>6. \A i \in 1..Len(page) : Closed(page[i])
      <2> SUFFICES ASSUME NEW i \in 1..Len(page) PROVE Closed(page[i])
        OBVIOUS
      <2> DEFINE b == batch[Backfiller]
      <2>1. /\ b.table = "bars" /\ i \in DOMAIN b.items
            /\ b.items[i].ts = page[i] /\ b.items[i].row = ClosedRow
        BY <1>3, <1>4 DEF PageBatch
      <2>2. b.items[i].row.complete => rows[b.table][b.items[i].ts].complete
        BY <1>1, <1>2, <2>1 DEF Transaction, Committed
      <2> HIDE DEF b
      <2> QED
        BY <2>1, <2>2, BackfillAssumption DEF Closed
    <1>7. AtABar'
      <2>1. \E n \in 0..(Cardinality(Instants) + 1) : from' = n * width
        BY <1>4, <1>5, Series
      <2>2. /\ now' \in Nat /\ resumedOver' \in BOOLEAN /\ fed' \in BOOLEAN
            /\ job' = "paging" /\ page' = <<>>
        BY <1>1, <1>2 DEF AtABar
      <2> QED
        BY <2>1, <2>2 DEF AtABar
    <1>8. Filled'
      <2> SUFFICES ASSUME ~resumedOver, NEW k \in Instants, k * width < (last + 1) * width
                   PROVE  Closed(k)
        BY <1>1, <1>5 DEF Filled, Closed
      <2>1. k \in Nat /\ k <= last
        <3>1. k \in Nat /\ k < last + 1
          BY <1>5, Width, InstantsAssumption
        <3> QED
          BY <1>4, <3>1
      <2>2. CASE k * width < from
        BY <1>1, <1>2, <2>2 DEF Filled
      <2>3. CASE ~(k * width < from)
        <3>1. k * width \in Nat /\ from \in Nat
          BY <1>2, <2>1, Series, Width DEF AtABar
        <3>2. from <= k * width
          BY <2>3, <3>1
        <3> QED
          BY <1>3, <1>6, <2>1, <3>2 DEF IsPage, last
      <2> QED
        BY <2>2, <2>3
    <1>9. Alone'
      BY <1>1, <1>2 DEF Alone, HasHole, Continues, Closed
    <1> QED
      BY <1>7, <1>8, <1>9

\* The other steps of the job leave the tables.
LEMMA JobStep ==
    ASSUME BInv, FetchPage \/ Abandon \/ PassTime
    PROVE  AtABar' /\ Filled' /\ Alone'
    <1>1. AtABar /\ Alone /\ Filled /\ Transaction(Backfiller)
      BY BackfillAssumption DEF BInv, IInv
    <1>2. rows' = rows /\ pc' = pc /\ batch' = batch /\ fed' = fed
      BY DEF FetchPage, Abandon, PassTime, vars
    <1>3. CASE FetchPage
      <2>1. /\ job = "paging" /\ page = <<>> /\ page' = fetch_candles(from)
            /\ job' = IF page' = <<>> THEN "done" ELSE job
            /\ now' = now /\ from' = from /\ resumedOver' = resumedOver
        BY <1>3 DEF FetchPage
      <2>2. page' # <<>> => IsPage(page', from)
        BY <1>1, <2>1, PageFetched
      <2>3. job' = "done" \/ job' = "paging"
        BY <2>1
      <2> HIDE DEF fetch_candles
      <2>4. AtABar'
        BY <1>1, <1>2, <2>1, <2>2, <2>3 DEF AtABar
      <2>5. Filled' /\ Alone'
        BY <1>1, <1>2, <2>1, <2>3 DEF Filled, Closed, Alone, HasHole, Continues
      <2> QED
        BY <2>4, <2>5
    <1>4. CASE Abandon
      <2>1. /\ job = "paging" \/ (job = "storing" /\ outcome[Backfiller] = "raised")
            /\ job' = "none" /\ page' = <<>> /\ from' = 0 /\ resumedOver' = FALSE /\ now' = now
        BY <1>4 DEF Abandon
      <2>2. 0 \in 0..(Cardinality(Instants) + 1) /\ 0 = 0 * width
        BY Series, Width
      <2> QED
        BY <1>1, <1>2, <2>1, <2>2 DEF AtABar, Filled, Alone, HasHole, Continues, Closed
    <1>5. CASE PassTime
      <2>1. /\ now' = now + 1 /\ job' = job /\ from' = from /\ page' = page
            /\ resumedOver' = resumedOver
        BY <1>5 DEF PassTime
      <2> QED
        BY <1>1, <1>2, <2>1 DEF AtABar, Filled, Closed, Alone, HasHole, Continues
    <1> QED
      BY <1>3, <1>4, <1>5

\* Calls begin: the job's own, and those of others.
LEMMA CallStep ==
    ASSUME BInv, StorePage \/ \E w \in Writers : StoreOther(w)
    PROVE  AtABar' /\ Filled' /\ Alone'
    <1>1. AtABar /\ Alone /\ Filled /\ Typed
      BY DEF BInv, IInv
    <1>2. CASE StorePage
      <2>1. /\ job = "paging" /\ page # <<>> /\ Store(Backfiller)
            /\ batch'[Backfiller] = PageBatch(page) /\ job' = "storing"
            /\ now' = now /\ from' = from /\ page' = page /\ resumedOver' = resumedOver
            /\ fed' = fed
        BY <1>2 DEF StorePage, PageBatch
      <2>2. /\ rows' = rows
            /\ \A v \in Writers : v # Backfiller => pc'[v] = pc[v] /\ batch'[v] = batch[v]
        BY <1>1, <2>1 DEF Store, Typed
      <2>3. AtABar' /\ Filled'
        BY <1>1, <2>1, <2>2 DEF AtABar, Filled, Closed
      <2>4. ~fed => Continues(batch'[Backfiller])
        <3>1. IsPage(page, from) /\ from \in Nat
          BY <1>1, <2>1, Series, Width DEF AtABar
        <3>2. ~fed => \A k \in Instants : k * width < from => Closed(k)
          BY <1>1, <2>1 DEF Alone, Filled
        <3> QED
          BY <2>1, <3>1, <3>2 DEF Continues
      <2>5. Alone'
        BY <1>1, <2>1, <2>2, <2>4 DEF Alone, HasHole, Continues, Closed
      <2> QED
        BY <2>3, <2>5
    <1>3. ASSUME NEW w \in Writers, StoreOther(w)
          PROVE  AtABar' /\ Filled' /\ Alone'
      <2>1. /\ w = Backfiller => job \in {"none", "done"}
            /\ Store(w) /\ fed' = (fed \/ batch'[w].table = "bars")
            /\ now' = now /\ job' = job /\ from' = from /\ page' = page
            /\ resumedOver' = resumedOver
        BY <1>3 DEF StoreOther
      <2>2. /\ rows' = rows
            /\ \A v \in Writers : v # w => pc'[v] = pc[v] /\ batch'[v] = batch[v]
        BY <1>1, <2>1 DEF Store, Typed
      <2>3. AtABar' /\ Filled'
        BY <1>1, <2>1, <2>2, BackfillAssumption DEF AtABar, Filled, Closed
      <2>4. \A b : Continues(b) => Continues(b)'
        BY <2>2 DEF Continues, Closed
      <2>5. HasHole' => HasHole
        BY <2>2 DEF HasHole
      <2>6. ~fed' => ~fed /\ batch'[w].table # "bars"
        BY <1>1, <2>1 DEF AtABar
      <2>7. Alone'
        BY <1>1, <2>1, <2>2, <2>4, <2>5, <2>6 DEF Alone
      <2> QED
        BY <2>3, <2>7
    <1> QED
      BY <1>2, <1>3

\* A commit fills the bars of a page, and what was filled stays so.
LEMMA CommitFills ==
    ASSUME BInv, NEW w \in Writers, Commit(w) \/ CommitLate(w), UNCHANGED jobVars
    PROVE  Filled' /\ Alone'
    <1>1. AtABar /\ Alone /\ Filled /\ Typed /\ Transaction(w)
      BY DEF BInv, IInv
    <1>2. IInv
      BY DEF BInv
    <1>3. /\ now' = now /\ job' = job /\ from' = from /\ page' = page
          /\ resumedOver' = resumedOver /\ fed' = fed
      BY DEF jobVars
    <1>4. /\ pc[w] = "writing" /\ batch' = batch
          /\ \A v \in Writers : pc'[v] = "writing" => pc[v] = "writing"
      BY <1>1 DEF Commit, CommitLate, TakesEffect, Release, Typed
    <1>5. \A k \in Instants : Closed(k) => Closed(k)'
      BY <1>2, CommitKeeps DEF Closed, Tables
    <1>6. Filled'
      BY <1>1, <1>3, <1>5 DEF Filled
    <1>7. ASSUME ~fed
          PROVE  ~HasHole'
      <2> SUFFICES ASSUME NEW i \in Instants, NEW j \in Instants, i < j,
                          rows'["bars"][j] # Absent
                   PROVE  Closed(i)'
        BY DEF HasHole, Closed
      <2>1. CASE rows["bars"][j] # Absent
        BY <1>1, <1>5, <1>7, <2>1 DEF Alone, HasHole, Closed
      <2>2. CASE rows["bars"][j] = Absent
        <3>1. batch[w].table = "bars"
          BY <1>2, <2>2, CommitLeaves DEF Tables
        <3>2. Continues(batch[w])
          BY <1>1, <1>4, <1>7, <3>1 DEF Alone
        <3>3. PICK p, first :
                 /\ batch[w] = PageBatch(p) /\ IsPage(p, first) /\ first \in Nat
                 /\ \A k \in Instants : k * width < first => Closed(k)
          BY <3>2 DEF Continues
        <3>4. DOMAIN p = 1..Len(p) /\ Len(p) \in 1..Len(p)
          BY <3>3, EmptySeq, LenProperties DEF IsPage
        <3>5. \E x \in 1..Len(p) : p[x] = j
          <4> SUFFICES ASSUME \A x \in 1..Len(p) : p[x] # j PROVE FALSE
            OBVIOUS
          <4> DEFINE b == batch[w]
          <4>1. b.items = [x \in DOMAIN p |-> [ts |-> p[x], row |-> ClosedRow]]
            BY <3>3 DEF PageBatch
          <4>2. IsBatch(b) /\ DOMAIN b.items = 1..Len(b.items)
            BY <1>1, BatchItems DEF Typed, IsBatch
          <4>3. PositionsUpTo(b, Len(b.items), j) = {}
            BY <4>1, <4>2, <3>4 DEF PositionsUpTo
          <4>4. rows'["bars"][j] = LeftAfter(b, Len(b.items), j, rows["bars"][j])
            BY <1>2, <3>1, CommitLeaves
          <4> HIDE DEF b
          <4>5. rows'["bars"][j] = rows["bars"][j]
            BY <4>3, <4>4, LeftAlone
          <4> QED
            BY <2>2, <4>5
        <3>6. i <= p[Len(p)] /\ i \in Nat
          <4>1. j <= p[Len(p)]
            BY <3>3, <3>5 DEF IsPage
          <4>2. p[Len(p)] \in Instants
            BY <3>3, <3>4, ElementOfSeq DEF IsPage
          <4>3. i \in Nat /\ j \in Nat /\ p[Len(p)] \in Nat
            BY <4>2, InstantsAssumption
          <4> QED
            BY <4>1, <4>3
        <3>7. CASE i * width < first
          BY <1>5, <3>3, <3>7
        <3>8. CASE ~(i * width < first)
          <4>1. i * width \in Nat
            BY <3>6, Width
          <4>2. first <= i * width
            BY <3>3, <3>8, <4>1
          <4>3. PICK x \in 1..Len(p) : p[x] = i
            BY <3>3, <3>6, <4>2 DEF IsPage
          <4> DEFINE b == batch[w]
          <4>4. /\ b.table = "bars" /\ x \in DOMAIN b.items
                /\ b.items[x].ts = i /\ b.items[x].row = ClosedRow
            BY <3>3, <3>4, <4>3 DEF PageBatch
          <4>5. b.items[x].row.complete => rows'[b.table][b.items[x].ts].complete
            BY <1>2, <4>4, CommitStores
          <4> HIDE DEF b
          <4> QED
            BY <4>4, <4>5, BackfillAssumption DEF Closed
        <3> QED
          BY <3>7, <3>8
      <2> QED
        BY <2>1, <2>2
    <1>8. Alone'
      <2>1. \A b : Continues(b) => Continues(b)'
        BY <1>5 DEF Continues
      <2> QED
        BY <1>1, <1>3, <1>4, <1>7, <2>1 DEF Alone
    <1> QED
      BY <1>6, <1>8

\* Every step of the job, its venue and the other writers keeps the invariant.
LEMMA BackfillStep == BInv /\ [BackfillNext]_allVars => BInv'
    <1> SUFFICES ASSUME BInv, [BackfillNext]_allVars PROVE BInv'
      OBVIOUS
    <1>1. IInv /\ IInv'
      BY BackfillCalls, Step DEF BInv
    <1>2. AtABar /\ Filled /\ Alone /\ Typed
      BY <1>1 DEF BInv, IInv
    <1>3. CASE Resume \/ FetchPage \/ NextPage \/ Abandon \/ PassTime
      BY <1>1, <1>3, ResumeStep, NextPageStep, JobStep DEF BInv
    <1>4. CASE StorePage \/ \E w \in Writers : StoreOther(w)
      BY <1>1, <1>4, CallStep DEF BInv
    <1>5. CASE Run /\ UNCHANGED jobVars
      <2>1. /\ batch' = batch
            /\ \A v \in Writers : pc'[v] = "writing" => pc[v] = "writing"
            /\ rows' = rows \/ \E w \in Writers : Commit(w) \/ CommitLate(w)
        BY <1>2, <1>5, RunKeeps
      <2>2. /\ now' = now /\ job' = job /\ from' = from /\ page' = page
            /\ resumedOver' = resumedOver /\ fed' = fed
        BY <1>5 DEF jobVars
      <2>3. AtABar'
        BY <1>2, <2>1, <2>2, BackfillAssumption DEF AtABar
      <2>4. CASE rows' = rows
        BY <1>1, <1>2, <2>1, <2>2, <2>3, <2>4 DEF BInv, Filled, Closed, Alone, HasHole, Continues
      <2>5. CASE \E w \in Writers : Commit(w) \/ CommitLate(w)
        BY <1>1, <1>5, <2>3, <2>5, CommitFills DEF BInv
      <2> QED
        BY <2>1, <2>4, <2>5
    <1>6. CASE UNCHANGED allVars
      BY <1>1, <1>2, <1>6
         DEF BInv, AtABar, Filled, Closed, Alone, HasHole, Continues, allVars, jobVars, vars
    <1> QED
      BY <1>3, <1>4, <1>5, <1>6 DEF BackfillNext

\* Whatever interrupts the job and whoever writes beside it, every bar older than the
\* place it has reached is stored and closed, unless it resumed past the gap of another
\* writer, and by itself it leaves no gap to resume past.
THEOREM BackfillInvariance == BackfillSpec => []BInv
    BY BackfillInitially, BackfillStep, PTL DEF BackfillSpec

\* Bars lie side by side: an instant is in one of them.
LEMMA OneBarEach ==
    ASSUME NEW instant \in Nat, NEW k \in Nat
    PROVE  /\ instant \div width \in Nat
           /\ Models!contains(candle(k), instant) <=> k = instant \div width
    <1> DEFINE q == instant \div width
               r == instant % width
               w == width
    <1>1. /\ w \in Nat \ {0} /\ q \in Nat /\ r \in 0..(w - 1) /\ instant = q * w + r
      <2>1. w \in Nat \ {0}
        BY Width
      <2>2. \A v \in Nat \ {0} :
               /\ instant \div v \in Nat /\ instant % v \in 0..(v - 1)
               /\ instant = (instant \div v) * v + (instant % v)
        OBVIOUS
      <2> HIDE DEF w
      <2>3. /\ instant \div w \in Nat /\ instant % w \in 0..(w - 1)
            /\ instant = (instant \div w) * w + (instant % w)
        BY <2>1, <2>2
      <2> QED
        BY <2>1, <2>3 DEF w
    <1>2. Models!contains(candle(k), instant) <=> k * w <= instant /\ instant < (k + 1) * w
      BY Width DEF Models!contains, Models!end, candle, width
    <1>3. /\ k * w \in Nat /\ q * w \in Nat /\ (k + 1) * w \in Nat
          /\ (q + 1) * w = q * w + w
      BY <1>1, Width
    <1>4. /\ k < q => (k + 1) * w <= q * w
          /\ q < k => (q + 1) * w <= k * w
      <2>1. \A i, j \in Nat : i < j => (i + 1) * w <= j * w
        <3> SUFFICES ASSUME NEW i \in Nat, NEW j \in Nat, i < j
                     PROVE  (i + 1) * w <= j * w
          OBVIOUS
        <3>1. i + 1 \in Nat /\ (i + 1 < j \/ i + 1 = j)
          OBVIOUS
        <3>2. (i + 1) * w \in Nat /\ j * w \in Nat
          BY <3>1, Width
        <3>3. i + 1 < j => (i + 1) * w < j * w
          BY <3>1, Width
        <3> QED
          BY <3>1, <3>2, <3>3
      <2> QED
        BY <1>1, <2>1
    <1> HIDE DEF q, r, w
    <1>5. q = k => k * w <= instant /\ instant < (k + 1) * w
      BY <1>1, <1>3
    <1>6. k * w <= instant /\ instant < (k + 1) * w => q = k
      <2> DEFINE a == k * w
                 b == q * w
                 c == (k + 1) * w
                 d == (q + 1) * w
      <2>1. /\ a \in Nat /\ b \in Nat /\ c \in Nat /\ d = b + w /\ instant = b + r
            /\ k < q => c <= b
            /\ q < k => d <= a
        BY <1>1, <1>3, <1>4
      <2> HIDE DEF a, b, c, d
      <2>2. a <= instant /\ instant < c => q = k
        BY <1>1, <2>1
      <2> QED
        BY <2>2 DEF a, c
    <1> QED
      BY <1>1, <1>2, <1>5, <1>6 DEF q, w

\* BackfillLeavesNoGap: when the job has nothing more to fetch, every instant of the
\* series up to the place it stopped at lies in just one closed bar of those that a
\* query returns, unless it resumed past the gap of another writer.
THEOREM NoGapIsLeft == BackfillSpec => []BackfillLeavesNoGap
    <1>1. BInv => BackfillLeavesNoGap
      <2> SUFFICES ASSUME BInv, job = "done", ~(fed /\ resumedOver),
                          NEW instant \in width..(from - 1)
                   PROVE  Cardinality({i \in Range(fetch(Stored("bars"), 0, from \div width, 0)) :
                             rows["bars"][i].complete /\ Models!contains(candle(i), instant)}) = 1
        BY DEF BackfillLeavesNoGap
      <2> DEFINE k == instant \div width
                 returned == fetch(Stored("bars"), 0, from \div width, 0)
                 holding == {i \in Range(returned) :
                               rows["bars"][i].complete /\ Models!contains(candle(i), instant)}
      <2>1. AtABar /\ Filled /\ Alone /\ Typed
        BY DEF BInv, IInv
      <2>2. PICK n \in 0..(Cardinality(Instants) + 1) : from = n * width
        BY <2>1 DEF AtABar
      <2>3. n \in Nat /\ from \in Nat /\ instant \in Nat /\ width <= instant /\ instant < from
        <3>1. n \in Nat
          BY Series
        <3> QED
          BY <2>2, <3>1, Width
      <2>4. from \div width = n
        <3>1. Models!contains(candle(n), from)
          BY <2>2, <2>3, Width DEF Models!contains, Models!end, candle, width
        <3> QED
          BY <2>3, <3>1, OneBarEach
      <2>5. /\ k \in Nat /\ Models!contains(candle(k), instant)
            /\ \A i \in Nat : Models!contains(candle(i), instant) => i = k
        BY <2>3, OneBarEach
      <2>6. k * width <= instant /\ instant < k * width + width
        BY <2>5 DEF Models!contains, Models!end, candle, width
      <2> HIDE DEF k
      <2>7. k \in Instants /\ k < n /\ k * width < from
        <3>1. k * width \in Nat /\ n * width \in Nat
          BY <2>3, <2>5, Width
        <3>2. k * width < n * width
          BY <2>2, <2>3, <2>6, <3>1
        <3>3. k # 0
          BY <2>3, <2>6, Width
        <3>4. k < n
          BY <2>3, <2>5, <3>2, Width
        <3> QED
          BY <2>2, <2>5, <3>2, <3>3, <3>4, Series
      <2>8. Closed(k)
        BY <2>1, <2>7 DEF Filled, Alone
      <2>9. Range(returned) = {ts \in Stored("bars") : selects(0, n, ts)}
        <3> DEFINE S == {ts \in Stored("bars") : selects(0, n, ts)}
        <3>1. returned = Ascending(S)
          BY <2>4 DEF fetch
        <3>2. S \subseteq Instants
          BY DEF Stored
        <3> HIDE DEF S, returned
        <3>3. S \in SUBSET Int /\ IsFiniteSet(S)
          <4>1. S \in SUBSET Int
            BY <3>2, InstantsAssumption
          <4> QED
            BY <3>2, <4>1, InstantsAssumption, FS_Subset
        <3>4. /\ returned \in Seq(S) /\ DOMAIN returned = 1..Cardinality(S)
              /\ Len(returned) = Cardinality(S)
              /\ \A x \in S : \E i \in 1..Cardinality(S) : returned[i] = x
          BY <3>1, <3>3, InOrderOnce
        <3>5. \A i \in 1..Cardinality(S) : returned[i] \in S
          BY <3>4, ElementOfSeq
        <3> QED
          BY <3>4, <3>5 DEF Range, S
      <2> HIDE DEF returned
      <2>10. holding = {k}
        <3>1. k \in Range(returned)
          <4>1. rows["bars"][k] # Absent
            BY <2>8 DEF Closed, Absent
          <4> QED
            BY <2>3, <2>5, <2>7, <2>9, <4>1 DEF Stored, selects
        <3>2. \A i \in Range(returned) : i \in Nat
          BY <2>9, InstantsAssumption DEF Stored
        <3> QED
          BY <2>5, <2>8, <3>1, <3>2 DEF Closed
      <2> HIDE DEF holding
      <2>11. Cardinality(holding) = 1
        BY <2>10, FS_Singleton
      <2> QED
        BY <2>11 DEF holding, returned
    <1> QED
      BY BackfillInvariance, <1>1, PTL
=============================================================================
