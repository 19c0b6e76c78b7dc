----------------------- MODULE OperationJournalProofs -----------------------
(***************************************************************************)
(* Proofs, for every set of callers, every finite set of operation ids and *)
(* every bound: the type invariant, that an operation runs once per row,   *)
(* and that an outcome returned without an error is the stored one.  The   *)
(* induction is on JournalInv: the entry of a running operation cannot be  *)
(* evicted because Journal.order holds finished entries only, each once.   *)
(***************************************************************************)
EXTENDS OperationJournal, NaturalOrder, FiniteSetTheorems, TLAPS

EntryType ==
    [state : {"none", "running", "done", "uncertain"}, hash : Hashes \cup {0}, run : Runs \cup {0}]

CallerType ==
    [pc : {"away", "wait", "run", "complete", "publish"}, op : Operations, hash : Hashes \cup {0},
     run : Runs \cup {0}, saved : BOOLEAN]

\* No element occurs twice.
Distinct(s) == \A i, j \in 1..Len(s) : s[i] = s[j] => i = j

\* A caller that runs an operation.
Executes(c) == caller[c].pc \in {"run", "complete", "publish"}

\* The table of the store: the completed rows are in the log, once each.
LogInv ==
    /\ Distinct(log)
    /\ \A i \in 1..Len(log) : rows[log[i]].state = "completed"

\* Journal.order holds finished entries of the table, once each.
OrderInv ==
    /\ Distinct(order)
    /\ \A i \in 1..Len(order) : entries[order[i]].state = "done"

\* One caller runs an operation, and its entry is in the table for as long.
RunnerInv ==
    /\ \A c, d \in Callers : Executes(c) /\ Executes(d) /\ caller[c].op = caller[d].op => c = d
    /\ \A c \in Callers : Executes(c) => entries[caller[c].op].state = "running" /\ caller[c].hash # 0
    /\ \A c \in Callers : caller[c].pc = "publish" /\ caller[c].saved =>
         \/ rows[caller[c].op].state = "none"
         \/ rows[caller[c].op].state = "completed" /\ rows[caller[c].op].run = caller[c].run

\* Runs are paid for by purges of the row.
CountInv ==
    /\ \A o \in Operations :
         /\ runs[o] <= 1 + purges[o]
         /\ rows[o].state = "none" => runs[o] <= purges[o]
         /\ purges[o] + (IF rows[o].expired THEN 1 ELSE 0) <= expiries
    /\ \A c \in Callers : caller[c].pc = "run" =>
         /\ runs[caller[c].op] <= purges[caller[c].op]
         /\ rows[caller[c].op].state = "none" => runs[caller[c].op] < purges[caller[c].op]

\* A finished entry agrees with its row as long as there is one.
EntryInv ==
    \A o \in Operations : entries[o].state = "done" =>
        rows[o].state = "none" \/ (rows[o].state = "completed" /\ rows[o].run = entries[o].run)

\* An outcome is the one of a run that happened.
OutcomeInv ==
    /\ \A o \in Operations : rows[o].state = "completed" => rows[o].run \in Runs
    /\ \A o \in Operations : entries[o].state = "done" => entries[o].run \in Runs
    /\ \A c \in Callers : caller[c].pc \in {"complete", "publish"} => caller[c].run \in Runs

JournalInv ==
    LogInv /\ OrderInv /\ RunnerInv /\ CountInv /\ EntryInv /\ OutcomeInv /\ AnswersAreDurable

-----------------------------------------------------------------------------
(* The sequences the journal keeps. *)

\* The recursion of Survivors has a solution.
LEMMA SurvivorsUnfold ==
    ASSUME NEW S, NEW s \in Seq(S), NEW keep
    PROVE  \E F : /\ Survivors(s, keep) = F[Len(s)]
                  /\ F[0] = <<>>
                  /\ \A i \in 1..Len(s) :
                       F[i] = IF s[i] \in keep THEN Append(F[i-1], s[i]) ELSE F[i-1]
<1> DEFINE Rec(f, n) == [i \in 0..n |->
                           IF i = 0 THEN <<>>
                           ELSE IF s[i] \in keep THEN Append(f[i-1], s[i]) ELSE f[i-1]]
<1> DEFINE T == {n \in 0..Len(s) : ~\E f : f = Rec(f, n)}
<1>1. T = {}
  <2> SUFFICES ASSUME T # {} PROVE FALSE
    OBVIOUS
  <2>1. PICK n \in T : \A y \in T : n <= y
    <3>1. T \in SUBSET Nat
      OBVIOUS
    <3> QED
      BY <3>1, LeastNatural
  <2>2. CASE n = 0
    <3> DEFINE f == [i \in 0..0 |-> <<>>]
    <3>1. f = Rec(f, 0)
      OBVIOUS
    <3> QED
      BY <2>1, <2>2, <3>1
  <2>3. CASE n # 0
    <3>0. n \in 0..Len(s)
      OBVIOUS
    <3>1. n - 1 \in 0..Len(s) /\ n - 1 \notin T /\ n \in Nat
      <4> HIDE DEF T
      <4> QED
        BY <2>1, <2>3, <3>0
    <3>2. PICK f : f = Rec(f, n - 1)
      BY <3>1
    <3> DEFINE g == [i \in 0..n |->
                       IF i < n THEN f[i]
                       ELSE IF s[n] \in keep THEN Append(f[n-1], s[n]) ELSE f[n-1]]
    <3>3. \A i \in 0..(n-1) : g[i] = f[i]
      BY <3>1
    <3>4. \A i \in 0..(n-1) : g[i] = IF i = 0 THEN <<>>
                           ELSE IF s[i] \in keep THEN Append(g[i-1], s[i]) ELSE g[i-1]
      <4> SUFFICES ASSUME NEW i \in 0..(n-1)
                   PROVE  f[i] = IF i = 0 THEN <<>>
                             ELSE IF s[i] \in keep THEN Append(f[i-1], s[i]) ELSE f[i-1]
        BY <3>3, <3>1
      <4> QED
        BY <3>2
    <3>5. g = Rec(g, n)
      <4>1. g[n] = IF s[n] \in keep THEN Append(g[n-1], s[n]) ELSE g[n-1]
        BY <3>1, <2>3
      <4>2. \A i \in 0..n : i \in 0..(n-1) \/ i = n
        BY <3>1
      <4>3. g = [i \in 0..n |-> g[i]]
        OBVIOUS
      <4> HIDE DEF g
      <4>4. \A i \in 0..n : g[i] = IF i = 0 THEN <<>>
                           ELSE IF s[i] \in keep THEN Append(g[i-1], s[i]) ELSE g[i-1]
        BY <4>1, <4>2, <3>4, <2>3
      <4> QED
        BY <4>3, <4>4
    <3> QED
      BY <2>1, <3>5
  <2> QED
    BY <2>2, <2>3
<1>2. Len(s) \in 0..Len(s)
  OBVIOUS
<1>3. \E f : f = Rec(f, Len(s))
  BY <1>1, <1>2
<1> DEFINE F == CHOOSE f : f = Rec(f, Len(s))
<1>4. F = Rec(F, Len(s))
  BY <1>3
<1>5. Survivors(s, keep) = F[Len(s)]
  BY DEF Survivors
<1> HIDE DEF F
<1>6. F[0] = <<>> /\ \A i \in 1..Len(s) :
                       F[i] = IF s[i] \in keep THEN Append(F[i-1], s[i]) ELSE F[i-1]
  <2>1. \A i \in 0..Len(s) : F[i] = IF i = 0 THEN <<>>
                           ELSE IF s[i] \in keep THEN Append(F[i-1], s[i]) ELSE F[i-1]
    BY <1>4
  <2>2. 0 \in 0..Len(s) /\ \A i \in 1..Len(s) : i \in 0..Len(s) /\ i # 0
    OBVIOUS
  <2> QED
    BY <2>1, <2>2
<1> QED
  BY <1>5, <1>6

\* Deleting rows keeps the order of the others: the survivors are elements that
\* were there before, each still once (DeleteExpiredOperations).
LEMMA SurvivorsFacts ==
    ASSUME NEW S, NEW s \in Seq(S), NEW keep
    PROVE  /\ Survivors(s, keep) \in Seq(S)
           /\ \A k \in 1..Len(Survivors(s, keep)) :
                /\ Survivors(s, keep)[k] \in keep
                /\ \E j \in 1..Len(s) : s[j] = Survivors(s, keep)[k]
           /\ (\A i, j \in 1..Len(s) : s[i] = s[j] => i = j) =>
              \A i, j \in 1..Len(Survivors(s, keep)) :
                 Survivors(s, keep)[i] = Survivors(s, keep)[j] => i = j
<1>1. PICK F : /\ Survivors(s, keep) = F[Len(s)]
               /\ F[0] = <<>>
               /\ \A i \in 1..Len(s) :
                    F[i] = IF s[i] \in keep THEN Append(F[i-1], s[i]) ELSE F[i-1]
  BY SurvivorsUnfold
<1> DEFINE
      Part(n) == /\ F[n] \in Seq(S)
                 /\ \A k \in 1..Len(F[n]) :
                      F[n][k] \in keep /\ \E j \in 1..n : s[j] = F[n][k]
                 /\ (\A i, j \in 1..Len(s) : s[i] = s[j] => i = j) =>
                    \A i, j \in 1..Len(F[n]) : F[n][i] = F[n][j] => i = j
      T == {n \in 0..Len(s) : ~Part(n)}
<1>2. Part(0)
  BY <1>1
<1>3. ASSUME NEW n \in 1..Len(s), Part(n - 1) PROVE Part(n)
  <2>1. CASE s[n] \notin keep
    <3>1. F[n] = F[n - 1]
      BY <1>1, <2>1
    <3> QED
      BY <1>3, <3>1
  <2>2. CASE s[n] \in keep
    <3> DEFINE t == F[n - 1]
    <3>1. F[n] = Append(t, s[n]) /\ t \in Seq(S) /\ s[n] \in S
      <4>1. F[n] = Append(t, s[n])
        BY <1>1, <2>2
      <4>2. t \in Seq(S)
        BY <1>3
      <4> QED
        BY <4>1, <4>2
    <3>2. /\ F[n] \in Seq(S) /\ Len(F[n]) = Len(t) + 1 /\ Len(t) \in Nat
          /\ \A k \in 1..Len(t) : F[n][k] = t[k]
          /\ F[n][Len(t) + 1] = s[n]
      BY <3>1
    <3>3. \A k \in 1..Len(F[n]) : F[n][k] \in keep /\ \E j \in 1..n : s[j] = F[n][k]
      <4> SUFFICES ASSUME NEW k \in 1..Len(F[n])
                   PROVE  F[n][k] \in keep /\ \E j \in 1..n : s[j] = F[n][k]
        OBVIOUS
      <4>1. CASE k \in 1..Len(t)
        <5>1. F[n][k] = t[k] /\ t[k] \in keep /\ \E j \in 1..(n - 1) : s[j] = t[k]
          BY <4>1, <1>3, <3>2
        <5>2. \A j \in 1..(n - 1) : j \in 1..n
          OBVIOUS
        <5> HIDE DEF t
        <5> QED
          BY <5>1, <5>2
      <4>2. CASE k = Len(t) + 1
        BY <4>2, <2>2, <3>2
      <4> QED
        BY <4>1, <4>2, <3>2
    <3>4. ASSUME \A i, j \in 1..Len(s) : s[i] = s[j] => i = j
          PROVE  \A i, j \in 1..Len(F[n]) : F[n][i] = F[n][j] => i = j
      <4>1. \A i \in 1..Len(t) : t[i] # s[n]
        BY <1>3, <3>4
      <4>2. \A i, j \in 1..Len(t) : t[i] = t[j] => i = j
        BY <1>3, <3>4
      <4>3. \A i \in 1..Len(F[n]) : i \in 1..Len(t) \/ i = Len(t) + 1
        BY <3>2
      <4> HIDE DEF t
      <4> QED
        BY <4>1, <4>2, <4>3, <3>2
    <3> QED
      BY <3>2, <3>3, <3>4
  <2> QED
    BY <2>1, <2>2
<1>4. T = {}
  <2> SUFFICES ASSUME T # {} PROVE FALSE
    OBVIOUS
  <2>1. PICK n \in T : \A y \in T : n <= y
    <3>1. T \in SUBSET Nat
      OBVIOUS
    <3> HIDE DEF T
    <3> QED
      BY <3>1, LeastNatural
  <2>2. n \in 0..Len(s) /\ ~Part(n)
    BY <2>1
  <2>3. n # 0
    BY <1>2, <2>2
  <2>4. n - 1 \in 0..Len(s) /\ n - 1 \notin T /\ n \in 1..Len(s)
    <3> HIDE DEF T, Part
    <3> QED
      BY <2>1, <2>2, <2>3
  <2>5. Part(n - 1)
    BY <2>4
  <2> HIDE DEF Part
  <2> QED
    BY <2>2, <2>4, <2>5, <1>3
<1>5. Part(Len(s))
  <2>1. Len(s) \in 0..Len(s)
    OBVIOUS
  <2> QED
    BY <1>4, <2>1
<1> QED
  BY <1>1, <1>5

-----------------------------------------------------------------------------
(* The table. *)

\* A caller outside Execute.
LEMMA AwayType == Away \in CallerType /\ Away.pc = "away" /\ Away.run = 0 /\ ~Away.saved
BY JournalAssumption DEF Away, CallerType

\* Recording an answer.
LEMMA TellType ==
    ASSUME NEW f \in [Operations -> SUBSET Runs], NEW o \in Operations, NEW r \in Runs
    PROVE  [f EXCEPT ![o] = @ \cup {r}] \in [Operations -> SUBSET Runs]
OBVIOUS

\* Eviction takes finished entries only, and those it leaves stay in order.
LEMMA EvictFacts ==
    ASSUME TypeOK, OrderInv
    PROVE  /\ Kept \in Seq(Operations) /\ Distinct(Kept)
           /\ \A i \in 1..Len(Kept) : Evict[Kept[i]].state = "done"
           /\ Evict \in [Operations -> EntryType]
           /\ \A o \in Operations :
                Evict[o] = entries[o] \/ (Evict[o] = NoEntry /\ entries[o].state = "done")
<1>1. order \in Seq(Operations) /\ Len(order) \in Nat
  BY DEF TypeOK
<1>2. Evictions \in 0..Len(order)
  <2>1. InTable(entries) \in SUBSET Operations
    BY DEF InTable
  <2>2. Cardinality(InTable(entries)) \in Nat
    BY <2>1, JournalAssumption, FS_Subset, FS_CardinalityType
  <2>3. Cardinality(InTable(entries)) - MaxTable + 1 \in Int
    BY <2>2, JournalAssumption
  <2> QED
    BY <1>1, <2>3 DEF Evictions
<1>3. PICK n \in 0..Len(order) : n = Evictions
  BY <1>2
<1>4. Evict = [o \in Operations |-> IF \E i \in 1..n : order[i] = o THEN NoEntry ELSE entries[o]]
  BY <1>3 DEF Evict
<1>5. /\ Kept \in Seq(Operations) /\ Len(Kept) = Len(order) - n
      /\ \A i \in 1..Len(Kept) : Kept[i] = order[n + i] /\ n + i \in 1..Len(order)
  <2>1. Kept = SubSeq(order, n + 1, Len(order))
    BY <1>3 DEF Kept
  <2> QED
    BY <2>1, <1>1
<1>6. Distinct(Kept)
  BY <1>5 DEF OrderInv, Distinct
<1>7. \A i \in 1..Len(Kept) : Evict[Kept[i]].state = "done"
  <2> SUFFICES ASSUME NEW i \in 1..Len(Kept) PROVE Evict[Kept[i]].state = "done"
    OBVIOUS
  <2>1. \A j \in 1..n : order[j] # Kept[i]
    BY <1>5 DEF OrderInv, Distinct
  <2>2. Kept[i] \in Operations
    BY <1>5, <1>1
  <2>3. Evict[Kept[i]] = entries[Kept[i]]
    BY <2>1, <2>2, <1>4
  <2> QED
    BY <2>3, <1>5 DEF OrderInv
<1>8. Evict \in [Operations -> EntryType]
  BY <1>4, JournalAssumption DEF TypeOK, EntryType, NoEntry
<1>9. \A o \in Operations :
        Evict[o] = entries[o] \/ (Evict[o] = NoEntry /\ entries[o].state = "done")
  BY <1>4 DEF OrderInv
<1> QED
  BY <1>5, <1>6, <1>7, <1>8, <1>9

\* Deleting the expired rows, when it is due.
LEMMA PurgeFacts ==
    ASSUME TypeOK, JournalInv, NEW due \in BOOLEAN,
           IF due THEN PurgeAll ELSE UNCHANGED <<purges, log>>,
           NEW table, table = [x \in Operations |-> IF due THEN Purged(rows[x]) ELSE rows[x]]
    PROVE  /\ table \in [Operations -> Rows(Hashes, Runs)]
           /\ purges' \in [Operations -> 0..MaxExpiries]
           /\ log' \in Seq(Operations) /\ Distinct(log')
           /\ \A i \in 1..Len(log') : table[log'[i]].state = "completed"
           /\ \A o \in Operations :
                /\ table[o].state = "none" \/ table[o] = rows[o]
                /\ purges[o] <= purges'[o]
                /\ table[o].state = "none" => rows[o].state = "none" \/ purges'[o] = purges[o] + 1
                /\ purges'[o] + (IF table[o].expired THEN 1 ELSE 0) <= expiries
<1>1. CASE ~due
  BY <1>1 DEF TypeOK, JournalInv, LogInv, CountInv
<1>2. CASE due
  <2>1. table = [x \in Operations |-> IF rows[x].expired THEN NoRow ELSE rows[x]]
    BY <1>2 DEF Purged
  <2>2. purges' = [o \in Operations |-> IF rows[o].expired THEN purges[o] + 1 ELSE purges[o]]
    BY <1>2 DEF PurgeAll
  <2>3. log' = Survivors(log, {o \in Operations : ~rows[o].expired})
    BY <1>2 DEF PurgeAll
  <2>4. table \in [Operations -> Rows(Hashes, Runs)]
    <3>1. NoRow \in Rows(Hashes, Runs)
      BY DEF Rows, NoRow
    <3> QED
      BY <2>1, <3>1 DEF TypeOK
  <2>5. \A o \in Operations :
          /\ table[o].state = "none" \/ table[o] = rows[o]
          /\ purges[o] <= purges'[o]
          /\ table[o].state = "none" => rows[o].state = "none" \/ purges'[o] = purges[o] + 1
          /\ purges'[o] + (IF table[o].expired THEN 1 ELSE 0) <= expiries
    BY <2>1, <2>2 DEF TypeOK, JournalInv, CountInv, NoRow
  <2>6. purges' \in [Operations -> 0..MaxExpiries]
    <3>1. \A o \in Operations : purges[o] \in Nat /\ expiries \in Nat /\ expiries <= MaxExpiries
      BY JournalAssumption DEF TypeOK
    <3>2. \A o \in Operations : rows[o].expired => purges[o] + 1 <= expiries
      BY DEF JournalInv, CountInv
    <3> QED
      BY <2>2, <3>1, <3>2, JournalAssumption DEF TypeOK
  <2>7. /\ log' \in Seq(Operations) /\ Distinct(log')
        /\ \A i \in 1..Len(log') :
             /\ log'[i] \in {o \in Operations : ~rows[o].expired}
             /\ \E j \in 1..Len(log) : log[j] = log'[i]
    <3>1. log \in Seq(Operations) /\ Distinct(log)
      BY DEF TypeOK, JournalInv, LogInv
    <3>2. PICK keep : keep = {o \in Operations : ~rows[o].expired}
      OBVIOUS
    <3>3. log' = Survivors(log, keep)
      BY <2>3, <3>2
    <3>4. /\ log' \in Seq(Operations) /\ Distinct(log')
          /\ \A i \in 1..Len(log') : log'[i] \in keep /\ \E j \in 1..Len(log) : log[j] = log'[i]
      BY <3>1, <3>3, SurvivorsFacts DEF Distinct
    <3> QED
      BY <3>2, <3>4
  <2>8. \A i \in 1..Len(log') : table[log'[i]].state = "completed"
    <3> SUFFICES ASSUME NEW i \in 1..Len(log')
                 PROVE  table[log'[i]].state = "completed"
      OBVIOUS
    <3>1. PICK j \in 1..Len(log) : log[j] = log'[i]
      BY <2>7
    <3>2. rows[log[j]].state = "completed"
      BY DEF JournalInv, LogInv
    <3>3. log'[i] \in Operations /\ ~rows[log'[i]].expired
      BY <2>7
    <3>4. table[log'[i]] = rows[log'[i]]
      BY <2>1, <3>3
    <3> QED
      BY <3>1, <3>2, <3>4
  <2> QED
    BY <2>4, <2>5, <2>6, <2>7, <2>8
<1> QED
  BY <1>1, <1>2

-----------------------------------------------------------------------------
(* The initial state and the steps. *)

\* An empty store and an empty table.
LEMMA JournalInit == Init => TypeOK /\ JournalInv
<1> SUFFICES ASSUME Init PROVE TypeOK /\ JournalInv
  OBVIOUS
<1>1. TypeOK
  <2>1. caller \in [Callers -> CallerType]
    BY AwayType DEF Init
  <2>2. rows \in [Operations -> Rows(Hashes, Runs)]
    BY DEF Init, Rows, NoRow
  <2>3. entries \in [Operations -> EntryType]
    BY DEF Init, EntryType, NoEntry
  <2> QED
    BY <2>1, <2>2, <2>3, JournalAssumption DEF TypeOK, Init, CallerType, EntryType
<1>2. LogInv /\ OrderInv
  BY DEF Init, LogInv, OrderInv, Distinct
<1>3. \A c \in Callers : caller[c].pc = "away"
  BY AwayType DEF Init
<1>4. RunnerInv
  BY <1>3 DEF RunnerInv, Executes
<1>5. CountInv
  BY <1>3 DEF CountInv, Init, NoRow
<1>6. EntryInv /\ OutcomeInv /\ AnswersAreDurable
  BY <1>3 DEF EntryInv, OutcomeInv, AnswersAreDurable, Init, NoEntry, NoRow
<1> QED
  BY <1>1, <1>2, <1>4, <1>5, <1>6 DEF JournalInv

\* Execute finds the operation in the table.
LEMMA LookupStep ==
    ASSUME TypeOK, JournalInv, NEW c \in Callers, NEW o \in Operations, NEW h \in Hashes,
           Lookup(c, o, h)
    PROVE  TypeOK' /\ JournalInv'
<1>a. /\ rows' = rows /\ log' = log /\ entries' = entries /\ order' = order
      /\ runs' = runs /\ purges' = purges
      /\ crashes' = crashes /\ faults' = faults /\ expiries' = expiries
  BY DEF Lookup
<1>1. CASE /\ entries[o].state = "running"
           /\ caller' = [caller EXCEPT ![c] = [Away EXCEPT !.pc = "wait", !.op = o, !.hash = h]]
           /\ told' = told
  <2>1. caller' \in [Callers -> CallerType]
    BY <1>1, AwayType DEF TypeOK, CallerType
  <2>2. \A d \in Callers : caller'[d].pc # "wait" => caller'[d] = caller[d]
    BY <1>1, AwayType DEF TypeOK, CallerType
  <2>3. TypeOK'
    BY <1>1, <1>a, <2>1 DEF TypeOK, CallerType
  <2>4. RunnerInv'
    BY <1>a, <2>2 DEF JournalInv, RunnerInv, Executes
  <2>5. CountInv'
    BY <1>a, <2>2 DEF JournalInv, CountInv
  <2>6. LogInv' /\ OrderInv' /\ EntryInv' /\ OutcomeInv' /\ AnswersAreDurable'
    BY <1>1, <1>a, <2>2 DEF JournalInv, LogInv, OrderInv, EntryInv, OutcomeInv, AnswersAreDurable
  <2> QED
    BY <2>3, <2>4, <2>5, <2>6 DEF JournalInv
<1>2. CASE /\ entries[o].state = "done"
           /\ Tell(o, entries[o].run)
           /\ caller' = caller
  <2>1. told' = [told EXCEPT ![o] = @ \cup {entries[o].run}]
    BY <1>2 DEF Tell
  <2>2. AnswersAreDurable'
    BY <1>2, <1>a, <2>1 DEF JournalInv, EntryInv, AnswersAreDurable, TypeOK
  <2>3. entries[o].run \in Runs
    BY <1>2 DEF JournalInv, OutcomeInv
  <2>4. TypeOK'
    BY <1>2, <1>a, <2>1, <2>3 DEF TypeOK
  <2>5. LogInv' /\ OrderInv' /\ RunnerInv' /\ CountInv' /\ EntryInv' /\ OutcomeInv'
    BY <1>2, <1>a
       DEF JournalInv, LogInv, OrderInv, RunnerInv, Executes, CountInv, EntryInv, OutcomeInv
  <2> QED
    BY <2>2, <2>4, <2>5 DEF JournalInv
<1> QED
  BY <1>1, <1>2 DEF Lookup

\* The context of a waiter ends.
LEMMA CancelStep ==
    ASSUME TypeOK, JournalInv, NEW c \in Callers, Cancel(c)
    PROVE  TypeOK' /\ JournalInv'
<1>a. /\ rows' = rows /\ log' = log /\ entries' = entries /\ order' = order
      /\ runs' = runs /\ purges' = purges /\ told' = told
      /\ crashes' = crashes /\ faults' = faults /\ expiries' = expiries
  BY DEF Cancel
<1>1. caller' \in [Callers -> CallerType]
  BY AwayType DEF Cancel, TypeOK, CallerType
<1>2. \A d \in Callers : caller'[d].pc # "away" => caller'[d] = caller[d]
  BY AwayType DEF Cancel, TypeOK, CallerType
<1>3. TypeOK'
  BY <1>a, <1>1 DEF TypeOK, CallerType
<1>4. RunnerInv'
  BY <1>a, <1>2 DEF JournalInv, RunnerInv, Executes
<1>5. CountInv'
  BY <1>a, <1>2 DEF JournalInv, CountInv
<1>6. LogInv' /\ OrderInv' /\ EntryInv' /\ OutcomeInv' /\ AnswersAreDurable'
  BY <1>a, <1>2 DEF JournalInv, LogInv, OrderInv, EntryInv, OutcomeInv, AnswersAreDurable
<1> QED
  BY <1>3, <1>4, <1>5, <1>6 DEF JournalInv

\* The rows after a purge, and the table after an eviction, as the cases of
\* Execute leave them when they do not reserve.
LEMMA SettledStep ==
    ASSUME TypeOK, JournalInv, NEW due \in BOOLEAN,
           IF due THEN PurgeAll ELSE UNCHANGED <<purges, log>>,
           rows' = [x \in Operations |-> IF due THEN Purged(rows[x]) ELSE rows[x]],
           entries' = Evict, order' = Kept, caller' = caller, runs' = runs,
           crashes' = crashes, faults' \in 0..MaxFaults, expiries' = expiries
    PROVE  /\ LogInv' /\ OrderInv' /\ RunnerInv' /\ CountInv' /\ EntryInv' /\ OutcomeInv'
           /\ told' \in [Operations -> SUBSET Runs] => TypeOK'
<1>1. /\ rows' \in [Operations -> Rows(Hashes, Runs)]
      /\ purges' \in [Operations -> 0..MaxExpiries]
      /\ log' \in Seq(Operations) /\ Distinct(log')
      /\ \A i \in 1..Len(log') : rows'[log'[i]].state = "completed"
      /\ \A o \in Operations :
           /\ rows'[o].state = "none" \/ rows'[o] = rows[o]
           /\ purges[o] <= purges'[o]
           /\ rows'[o].state = "none" => rows[o].state = "none" \/ purges'[o] = purges[o] + 1
           /\ purges'[o] + (IF rows'[o].expired THEN 1 ELSE 0) <= expiries
  BY PurgeFacts
<1>2. /\ order' \in Seq(Operations) /\ Distinct(order')
      /\ \A i \in 1..Len(order') : entries'[order'[i]].state = "done"
      /\ entries' \in [Operations -> EntryType]
      /\ \A o \in Operations :
           entries'[o] = entries[o] \/ (entries'[o] = NoEntry /\ entries[o].state = "done")
  BY EvictFacts DEF JournalInv
<1>3. \A c \in Callers : caller[c].op \in Operations
  BY DEF TypeOK
<1>4. LogInv'
  BY <1>1 DEF LogInv, Distinct
<1>5. OrderInv'
  BY <1>2 DEF OrderInv, Distinct
<1>6. RunnerInv'
  <2>1. \A c \in Callers : Executes(c) => entries'[caller[c].op].state = "running"
    BY <1>2, <1>3 DEF JournalInv, RunnerInv
  <2>2. \A c \in Callers : caller[c].pc = "publish" /\ caller[c].saved =>
          \/ rows'[caller[c].op].state = "none"
          \/ rows'[caller[c].op].state = "completed" /\ rows'[caller[c].op].run = caller[c].run
    BY <1>1, <1>3 DEF JournalInv, RunnerInv
  <2> QED
    BY <2>1, <2>2 DEF JournalInv, RunnerInv, Executes
<1>7. CountInv'
  <2>1. \A o \in Operations : runs[o] \in Nat /\ purges[o] \in Nat /\ purges'[o] \in Nat
    BY <1>1 DEF TypeOK, Runs
  <2>2. \A o \in Operations :
          runs[o] <= 1 + purges'[o] /\ (rows'[o].state = "none" => runs[o] <= purges'[o])
    BY <1>1, <2>1 DEF JournalInv, CountInv
  <2>3. \A c \in Callers : caller[c].pc = "run" =>
          /\ runs[caller[c].op] <= purges'[caller[c].op]
          /\ rows'[caller[c].op].state = "none" => runs[caller[c].op] < purges'[caller[c].op]
    <3> SUFFICES ASSUME NEW c \in Callers, caller[c].pc = "run"
                 PROVE  /\ runs[caller[c].op] <= purges'[caller[c].op]
                        /\ rows'[caller[c].op].state = "none" =>
                             runs[caller[c].op] < purges'[caller[c].op]
      OBVIOUS
    <3>1. PICK o \in Operations : o = caller[c].op
      BY <1>3
    <3>2. runs[o] <= purges[o] /\ (rows[o].state = "none" => runs[o] < purges[o])
      BY <3>1 DEF JournalInv, CountInv
    <3>3. /\ purges[o] <= purges'[o]
          /\ rows'[o].state = "none" => rows[o].state = "none" \/ purges'[o] = purges[o] + 1
      BY <1>1
    <3> QED
      BY <2>1, <3>1, <3>2, <3>3
  <2> QED
    BY <1>1, <2>2, <2>3 DEF CountInv
<1>8. EntryInv'
  BY <1>1, <1>2 DEF JournalInv, EntryInv, NoEntry
<1>9. OutcomeInv'
  <2>1. \A o \in Operations : rows'[o].state = "completed" => rows'[o].run \in Runs
    BY <1>1 DEF JournalInv, OutcomeInv
  <2>2. \A o \in Operations : entries'[o].state = "done" => entries'[o].run \in Runs
    BY <1>2 DEF JournalInv, OutcomeInv, NoEntry
  <2> QED
    BY <2>1, <2>2 DEF JournalInv, OutcomeInv
<1>10. ASSUME told' \in [Operations -> SUBSET Runs] PROVE TypeOK'
  BY <1>1, <1>2, <1>10 DEF TypeOK, EntryType
<1> QED
  BY <1>4, <1>5, <1>6, <1>7, <1>8, <1>9, <1>10

\* Execute reserves a row, and runs the operation unless the reservation failed.
LEMMA ReservedStep ==
    ASSUME TypeOK, JournalInv, NEW due \in BOOLEAN,
           IF due THEN PurgeAll ELSE UNCHANGED <<purges, log>>,
           NEW table, table = [x \in Operations |-> IF due THEN Purged(rows[x]) ELSE rows[x]],
           NEW o \in Operations, NEW h \in Hashes,
           entries[o].state = "none", table[o].state = "none",
           rows' = [table EXCEPT ![o] = Reserved(h)],
           told' = [told EXCEPT ![o] = {}],
           order' = Kept, runs' = runs,
           \/ entries' = Evict /\ caller' = caller
           \/ /\ entries' = [Evict EXCEPT ![o] = Entry("running", h, 0)]
              /\ \E c \in Callers :
                   caller' = [caller EXCEPT ![c] = [Away EXCEPT !.pc = "run", !.op = o, !.hash = h]],
           crashes' = crashes, faults' \in 0..MaxFaults, expiries' = expiries
    PROVE  TypeOK' /\ JournalInv'
<1>1. /\ table \in [Operations -> Rows(Hashes, Runs)]
      /\ purges' \in [Operations -> 0..MaxExpiries]
      /\ log' \in Seq(Operations) /\ Distinct(log')
      /\ \A i \in 1..Len(log') : table[log'[i]].state = "completed"
      /\ \A x \in Operations :
           /\ table[x].state = "none" \/ table[x] = rows[x]
           /\ purges[x] <= purges'[x]
           /\ table[x].state = "none" => rows[x].state = "none" \/ purges'[x] = purges[x] + 1
           /\ purges'[x] + (IF table[x].expired THEN 1 ELSE 0) <= expiries
  BY PurgeFacts
<1>2. /\ Kept \in Seq(Operations) /\ Distinct(Kept)
      /\ \A i \in 1..Len(Kept) : Evict[Kept[i]].state = "done"
      /\ Evict \in [Operations -> EntryType]
      /\ \A x \in Operations :
           Evict[x] = entries[x] \/ (Evict[x] = NoEntry /\ entries[x].state = "done")
  BY EvictFacts DEF JournalInv
<1>3. /\ Reserved(h) \in Rows(Hashes, Runs)
      /\ Reserved(h).state = "pending" /\ ~Reserved(h).expired
  BY DEF Reserved, NoRow, Rows
<1>4. /\ rows' \in [Operations -> Rows(Hashes, Runs)]
      /\ rows'[o] = Reserved(h)
      /\ \A x \in Operations : x # o => rows'[x] = table[x]
  BY <1>1, <1>3
<1>5. /\ entries' \in [Operations -> EntryType]
      /\ \A x \in Operations : x # o => entries'[x] = Evict[x]
      /\ entries'[o].state \in {"none", "running"}
  <2>1. Entry("running", h, 0) \in EntryType /\ Entry("running", h, 0).state = "running"
    BY DEF EntryType, Entry
  <2>2. Evict[o].state = "none"
    BY <1>2 DEF NoEntry
  <2>3. CASE entries' = Evict
    BY <1>2, <2>2, <2>3
  <2>4. CASE entries' = [Evict EXCEPT ![o] = Entry("running", h, 0)]
    BY <1>2, <2>1, <2>4
  <2> QED
    BY <2>3, <2>4
<1>6. /\ caller' \in [Callers -> CallerType]
      /\ \A d \in Callers : \/ caller'[d] = caller[d]
                            \/ /\ caller'[d].pc = "run" /\ caller'[d].op = o /\ caller'[d].hash # 0
                               /\ entries'[o].state = "running"
  <2>1. CASE entries' = Evict /\ caller' = caller
    BY <2>1 DEF TypeOK, CallerType
  <2>2. ASSUME NEW c \in Callers,
               caller' = [caller EXCEPT ![c] = [Away EXCEPT !.pc = "run", !.op = o, !.hash = h]],
               entries' = [Evict EXCEPT ![o] = Entry("running", h, 0)]
        PROVE  /\ caller' \in [Callers -> CallerType]
               /\ \A d \in Callers : \/ caller'[d] = caller[d]
                                     \/ /\ caller'[d].pc = "run" /\ caller'[d].op = o /\ caller'[d].hash # 0
                                        /\ entries'[o].state = "running"
    <3>1. h # 0
      BY JournalAssumption
    <3>2. entries'[o].state = "running"
      BY <1>2, <2>2 DEF Entry
    <3> QED
      BY <2>2, <3>1, <3>2, AwayType DEF TypeOK, CallerType
  <2> QED
    BY <2>1, <2>2
<1>7. \A d, x \in Callers : caller'[d] # caller[d] /\ caller'[x] # caller[x] => d = x
  BY DEF TypeOK
<1>8. \A d \in Callers : Executes(d) => caller[d].op # o
  BY DEF JournalInv, RunnerInv
<1>9. \A d \in Callers : caller[d].op \in Operations
  BY DEF TypeOK
<1>10. TypeOK'
  <2>1. told' \in [Operations -> SUBSET Runs]
    BY DEF TypeOK
  <2> QED
    BY <1>1, <1>2, <1>4, <1>5, <1>6, <2>1 DEF TypeOK, EntryType, CallerType
<1>11. LogInv'
  <2>1. \A i \in 1..Len(log') : log'[i] # o /\ log'[i] \in Operations
    BY <1>1
  <2> QED
    BY <1>1, <1>4, <2>1 DEF LogInv, Distinct
<1>12. OrderInv'
  <2>1. Evict[o].state # "done"
    BY <1>2 DEF NoEntry
  <2>2. \A i \in 1..Len(Kept) : Kept[i] # o /\ Kept[i] \in Operations
    BY <2>1, <1>2
  <2> QED
    BY <1>2, <1>5, <2>2 DEF OrderInv, Distinct
<1>13. RunnerInv'
  <2>1. \A d, x \in Callers : Executes(d)' /\ Executes(x)' /\ caller'[d].op = caller'[x].op => d = x
    BY <1>6, <1>7, <1>8 DEF JournalInv, RunnerInv, Executes
  <2>2. \A d \in Callers : Executes(d)' => entries'[caller'[d].op].state = "running" /\ caller'[d].hash # 0
    BY <1>2, <1>5, <1>6, <1>8, <1>9 DEF JournalInv, RunnerInv, Executes
  <2>3. \A d \in Callers : caller'[d].pc = "publish" /\ caller'[d].saved =>
          \/ rows'[caller'[d].op].state = "none"
          \/ rows'[caller'[d].op].state = "completed" /\ rows'[caller'[d].op].run = caller'[d].run
    BY <1>1, <1>4, <1>6, <1>8, <1>9 DEF JournalInv, RunnerInv, Executes
  <2> QED
    BY <2>1, <2>2, <2>3 DEF RunnerInv
<1>14. CountInv'
  <2>1. \A x \in Operations : runs[x] \in Nat /\ purges[x] \in Nat /\ purges'[x] \in Nat
    BY <1>1 DEF TypeOK, Runs
  <2>2. \A x \in Operations :
          runs[x] <= 1 + purges'[x] /\ (table[x].state = "none" => runs[x] <= purges'[x])
    BY <1>1, <2>1 DEF JournalInv, CountInv
  <2>3. \A x \in Operations :
          /\ rows'[x].state = "none" => runs[x] <= purges'[x]
          /\ purges'[x] + (IF rows'[x].expired THEN 1 ELSE 0) <= expiries
    <3>1. purges'[o] + 0 <= expiries
      BY <1>1, <2>1 DEF TypeOK
    <3> QED
      BY <1>1, <1>3, <1>4, <2>2, <3>1
  <2>4. ASSUME NEW d \in Callers, caller'[d].pc = "run"
        PROVE  /\ runs[caller'[d].op] <= purges'[caller'[d].op]
               /\ rows'[caller'[d].op].state = "none" => runs[caller'[d].op] < purges'[caller'[d].op]
    <3>1. CASE caller'[d].op = o
      BY <3>1, <2>2, <1>3, <1>4
    <3>2. CASE caller'[d].op # o
      <4>1. caller'[d] = caller[d]
        BY <3>2, <1>6
      <4>2. PICK x \in Operations : x = caller[d].op
        BY <1>9
      <4>3. runs[x] <= purges[x] /\ (rows[x].state = "none" => runs[x] < purges[x])
        BY <2>4, <4>1, <4>2 DEF JournalInv, CountInv
      <4>4. rows'[x] = table[x]
        BY <3>2, <4>1, <4>2, <1>4
      <4>5. runs[x] <= purges'[x] /\ (table[x].state = "none" => runs[x] < purges'[x])
        BY <4>3, <1>1, <2>1
      <4> QED
        BY <4>1, <4>2, <4>4, <4>5
    <3> QED
      BY <3>1, <3>2
  <2> QED
    BY <2>2, <2>3, <2>4 DEF CountInv
<1>15. EntryInv'
  BY <1>1, <1>2, <1>4, <1>5 DEF JournalInv, EntryInv, NoEntry
<1>16. OutcomeInv'
  <2>1. \A x \in Operations : rows'[x].state = "completed" => rows'[x].run \in Runs
    BY <1>1, <1>3, <1>4 DEF JournalInv, OutcomeInv
  <2>2. \A x \in Operations : entries'[x].state = "done" => entries'[x].run \in Runs
    BY <1>2, <1>5 DEF JournalInv, OutcomeInv, NoEntry
  <2>3. \A d \in Callers : caller'[d].pc \in {"complete", "publish"} => caller'[d].run \in Runs
    BY <1>6 DEF JournalInv, OutcomeInv
  <2> QED
    BY <2>1, <2>2, <2>3 DEF OutcomeInv
<1>17. AnswersAreDurable'
  <2>1. told'[o] = {} /\ \A x \in Operations : x # o => told'[x] = told[x]
    BY DEF TypeOK
  <2> QED
    BY <2>1, <1>1, <1>4 DEF JournalInv, AnswersAreDurable
<1> QED
  BY <1>10, <1>11, <1>12, <1>13, <1>14, <1>15, <1>16, <1>17 DEF JournalInv

\* Execute after a miss: it reserves, or the row answers.
LEMMA ReserveStep ==
    ASSUME TypeOK, JournalInv, NEW c \in Callers, NEW o \in Operations, NEW h \in Hashes,
           NEW due \in BOOLEAN, Reserve(c, o, h, due)
    PROVE  TypeOK' /\ JournalInv'
<1> DEFINE table == [x \in Operations |-> IF due THEN Purged(rows[x]) ELSE rows[x]]
<1>a. /\ IF due THEN PurgeAll ELSE UNCHANGED <<purges, log>>
      /\ entries[o].state = "none" /\ order' = Kept /\ runs' = runs
      /\ crashes' = crashes /\ faults' = faults /\ expiries' = expiries
  BY DEF Reserve
<1>b. faults \in 0..MaxFaults
  BY DEF TypeOK
<1>1. CASE /\ Reservable(table[o])
           /\ rows' = [table EXCEPT ![o] = Reserved(h)]
           /\ entries' = [Evict EXCEPT ![o] = Entry("running", h, 0)]
           /\ caller' = [caller EXCEPT ![c] = [Away EXCEPT !.pc = "run", !.op = o, !.hash = h]]
           /\ told' = [told EXCEPT ![o] = {}]
  <2>1. PICK t : t = table
    OBVIOUS
  <2>2. t[o].state = "none" /\ rows' = [t EXCEPT ![o] = Reserved(h)]
    BY <1>1, <2>1 DEF Reservable
  <2> QED
    BY <1>1, <1>a, <1>b, <2>1, <2>2, ReservedStep
<1>2. CASE /\ ~Reservable(table[o])
           /\ rows' = table
           /\ entries' = Evict
           /\ IF ~Conflict(table[o], h) /\ table[o].state = "completed"
                THEN Tell(o, table[o].run)
                ELSE UNCHANGED told
           /\ UNCHANGED caller
  <2>1. /\ LogInv' /\ OrderInv' /\ RunnerInv' /\ CountInv' /\ EntryInv' /\ OutcomeInv'
        /\ told' \in [Operations -> SUBSET Runs] => TypeOK'
    BY <1>2, <1>a, <1>b, SettledStep
  <2>2. \A x \in Operations : rows'[x].state = "none" \/ rows'[x] = rows[x]
    BY <1>2 DEF Purged, NoRow
  <2>3. \/ told' = told
        \/ rows'[o].state = "completed" /\ told' = [told EXCEPT ![o] = @ \cup {rows'[o].run}]
    BY <1>2 DEF Tell
  <2>4. rows'[o].state = "completed" => rows'[o].run \in Runs
    BY <2>1 DEF OutcomeInv
  <2>5. told' \in [Operations -> SUBSET Runs]
    <3>1. told \in [Operations -> SUBSET Runs]
      BY DEF TypeOK
    <3>2. ASSUME NEW r \in Runs PROVE [told EXCEPT ![o] = @ \cup {r}] \in [Operations -> SUBSET Runs]
      BY <3>1, TellType
    <3> QED
      BY <2>3, <2>4, <3>1, <3>2
  <2>6. AnswersAreDurable'
    <3>1. \A x \in Operations : told[x] # {} =>
            rows'[x].state = "none" \/ (rows'[x].state = "completed" /\ told[x] = {rows'[x].run})
      BY <2>2 DEF JournalInv, AnswersAreDurable
    <3>2. CASE told' = told
      BY <3>1, <3>2 DEF AnswersAreDurable
    <3>3. CASE rows'[o].state = "completed" /\ told' = [told EXCEPT ![o] = @ \cup {rows'[o].run}]
      <4>1. told'[o] = told[o] \cup {rows'[o].run} /\ \A x \in Operations : x # o => told'[x] = told[x]
        BY <3>3 DEF TypeOK
      <4>2. told'[o] = {rows'[o].run}
        BY <3>1, <3>3, <4>1
      <4> QED
        BY <3>1, <3>3, <4>1, <4>2 DEF AnswersAreDurable
    <3> QED
      BY <2>3, <3>2, <3>3
  <2> QED
    BY <2>1, <2>5, <2>6 DEF JournalInv
<1> QED
  BY <1>1, <1>2 DEF Reserve

\* The reservation fails, with or without effect.
LEMMA ReserveFailedStep ==
    ASSUME TypeOK, JournalInv, NEW c \in Callers, NEW o \in Operations, NEW h \in Hashes,
           ReserveFailed(c, o, h)
    PROVE  TypeOK' /\ JournalInv'
<1>a. /\ purges' = purges /\ log' = log
      /\ entries[o].state = "none" /\ order' = Kept /\ runs' = runs
      /\ entries' = Evict /\ caller' = caller
      /\ crashes' = crashes /\ expiries' = expiries
  BY DEF ReserveFailed
<1>b. faults' \in 0..MaxFaults
  BY JournalAssumption DEF TypeOK, ReserveFailed
<1>c. rows = [x \in Operations |-> IF FALSE THEN Purged(rows[x]) ELSE rows[x]]
  BY DEF TypeOK
<1>d. IF FALSE THEN PurgeAll ELSE UNCHANGED <<purges, log>>
  BY <1>a
<1>1. CASE rows' = rows
  <2>1. told' = told
    BY <1>1 DEF ReserveFailed
  <2>2. rows' = [x \in Operations |-> IF FALSE THEN Purged(rows[x]) ELSE rows[x]]
    BY <1>1, <1>c
  <2>3. /\ LogInv' /\ OrderInv' /\ RunnerInv' /\ CountInv' /\ EntryInv' /\ OutcomeInv'
        /\ told' \in [Operations -> SUBSET Runs] => TypeOK'
    BY <1>a, <1>b, <1>d, <2>2, SettledStep
  <2>4. AnswersAreDurable'
    BY <1>1, <2>1 DEF JournalInv, AnswersAreDurable
  <2> QED
    BY <2>1, <2>3, <2>4 DEF JournalInv, TypeOK
<1>2. CASE rows' # rows
  <2>1. rows' = [rows EXCEPT ![o] = Reserved(h)] /\ told' = [told EXCEPT ![o] = {}]
    BY <1>2 DEF ReserveFailed
  <2>2. rows[o].state = "none"
    BY DEF ReserveFailed, Reservable
  <2> QED
    BY <1>a, <1>b, <1>c, <1>d, <2>1, <2>2, ReservedStep
<1> QED
  BY <1>1, <1>2

\* The table is full.
LEMMA RefuseStep ==
    ASSUME TypeOK, JournalInv, NEW c \in Callers, NEW o \in Operations, Refuse(c, o)
    PROVE  TypeOK' /\ JournalInv'
<1>a. /\ purges' = purges /\ log' = log /\ rows' = rows /\ told' = told
      /\ order' = Kept /\ runs' = runs /\ entries' = Evict /\ caller' = caller
      /\ crashes' = crashes /\ faults' = faults /\ expiries' = expiries
  BY DEF Refuse
<1>b. rows' = [x \in Operations |-> IF FALSE THEN Purged(rows[x]) ELSE rows[x]]
  BY <1>a DEF TypeOK
<1>c. (IF FALSE THEN PurgeAll ELSE UNCHANGED <<purges, log>>) /\ faults' \in 0..MaxFaults
  BY <1>a DEF TypeOK
<1>1. /\ LogInv' /\ OrderInv' /\ RunnerInv' /\ CountInv' /\ EntryInv' /\ OutcomeInv'
      /\ told' \in [Operations -> SUBSET Runs] => TypeOK'
  BY <1>a, <1>b, <1>c, SettledStep
<1>2. AnswersAreDurable'
  BY <1>a DEF JournalInv, AnswersAreDurable
<1>3. told' \in [Operations -> SUBSET Runs]
  BY <1>a DEF TypeOK
<1> QED
  BY <1>1, <1>2, <1>3 DEF JournalInv

\* The operation runs.
LEMMA RunStep ==
    ASSUME TypeOK, JournalInv, NEW c \in Callers, Run(c)
    PROVE  TypeOK' /\ JournalInv'
<1>a. /\ rows' = rows /\ log' = log /\ entries' = entries /\ order' = order
      /\ purges' = purges /\ told' = told
      /\ crashes' = crashes /\ faults' = faults /\ expiries' = expiries
  BY DEF Run
<1>0. PICK o \in Operations : o = caller[c].op
  BY DEF TypeOK
<1>b. /\ runs[o] + 1 \in Runs /\ runs' = [runs EXCEPT ![o] = @ + 1]
      /\ caller[c].pc = "run"
      /\ caller' = [caller EXCEPT ![c].pc = "complete", ![c].run = runs[o] + 1]
  BY <1>0 DEF Run
<1>1. /\ caller' \in [Callers -> CallerType]
      /\ \A d \in Callers : d # c => caller'[d] = caller[d]
      /\ caller'[c].pc = "complete" /\ caller'[c].op = o /\ caller'[c].run \in Runs
      /\ caller'[c].hash = caller[c].hash
  BY <1>0, <1>b DEF TypeOK, CallerType
<1>2. runs' \in [Operations -> Runs \cup {0}]
  BY <1>b DEF TypeOK
<1>3. TypeOK'
  BY <1>a, <1>1, <1>2 DEF TypeOK, CallerType
<1>4. LogInv' /\ OrderInv' /\ EntryInv' /\ AnswersAreDurable'
  BY <1>a DEF JournalInv, LogInv, OrderInv, EntryInv, AnswersAreDurable
<1>5. OutcomeInv'
  BY <1>a, <1>1 DEF JournalInv, OutcomeInv
<1>6. RunnerInv'
  BY <1>a, <1>0, <1>b, <1>1 DEF JournalInv, RunnerInv, Executes
<1>7. CountInv'
  <2>1. \A x \in Operations : runs[x] \in Nat /\ purges[x] \in Nat
    BY DEF TypeOK, Runs
  <2>2. runs[o] <= purges[o] /\ (rows[o].state = "none" => runs[o] < purges[o])
    BY <1>0, <1>b DEF JournalInv, CountInv
  <2>3. runs'[o] = runs[o] + 1 /\ \A x \in Operations : x # o => runs'[x] = runs[x]
    BY <1>b DEF TypeOK
  <2>4. \A x \in Operations :
          runs'[x] <= 1 + purges[x] /\ (rows[x].state = "none" => runs'[x] <= purges[x])
    BY <2>1, <2>2, <2>3 DEF JournalInv, CountInv
  <2>5. \A d \in Callers : caller'[d].pc = "run" =>
          caller'[d] = caller[d] /\ caller[d].op # o /\ caller[d].op \in Operations
    BY <1>0, <1>b, <1>1 DEF JournalInv, RunnerInv, Executes, TypeOK
  <2>6. \A d \in Callers : caller'[d].pc = "run" =>
          /\ runs'[caller'[d].op] <= purges[caller'[d].op]
          /\ rows[caller'[d].op].state = "none" => runs'[caller'[d].op] < purges[caller'[d].op]
    BY <2>3, <2>5 DEF JournalInv, CountInv
  <2> QED
    BY <1>a, <2>4, <2>6 DEF JournalInv, CountInv
<1> QED
  BY <1>3, <1>4, <1>5, <1>6, <1>7 DEF JournalInv

\* The row is completed, or the statement fails.
LEMMA CompleteStep ==
    ASSUME TypeOK, JournalInv, NEW c \in Callers, Complete(c)
    PROVE  TypeOK' /\ JournalInv'
<1>a. /\ entries' = entries /\ order' = order /\ runs' = runs /\ purges' = purges /\ told' = told
      /\ crashes' = crashes /\ expiries' = expiries /\ caller[c].pc = "complete"
  BY DEF Complete
<1>0. PICK o \in Operations : o = caller[c].op
  BY DEF TypeOK
<1>b. caller[c].run \in Runs /\ caller[c].hash # 0 /\ entries[o].state = "running"
  BY <1>0, <1>a DEF JournalInv, OutcomeInv, RunnerInv, Executes
<1>c. faults' \in 0..MaxFaults
  BY JournalAssumption DEF TypeOK, Complete
<1> DEFINE done == Completed(rows[o], caller[c].hash, caller[c].run)
<1>d. PICK new \in {rows[o], done}, saved \in BOOLEAN :
        /\ saved => new = done /\ CompleteOK(rows[o], caller[c].hash, caller[c].run)
        /\ rows' = [rows EXCEPT ![o] = new]
        /\ log' = IF new # rows[o] THEN Append(log, o) ELSE log
        /\ caller' = [caller EXCEPT ![c].pc = "publish", ![c].saved = saved]
  <2>1. CompleteOK(rows[o], caller[c].hash, caller[c].run) \in BOOLEAN
    BY DEF CompleteOK
  <2> DEFINE Save(new, saved) ==
               /\ rows' = [rows EXCEPT ![o] = new]
               /\ log' = IF new # rows[o] THEN Append(log, o) ELSE log
               /\ caller' = [caller EXCEPT ![c].pc = "publish", ![c].saved = saved]
  <2>2. \/ Save(done, CompleteOK(rows[o], caller[c].hash, caller[c].run))
        \/ Save(rows[o], FALSE)
        \/ Save(done, FALSE)
    BY <1>0 DEF Complete
  <2> HIDE DEF Save, done
  <2>3. \E new \in {rows[o], done}, saved \in BOOLEAN :
          /\ saved => new = done /\ CompleteOK(rows[o], caller[c].hash, caller[c].run)
          /\ Save(new, saved)
    <3>1. CASE CompleteOK(rows[o], caller[c].hash, caller[c].run)
      <4>1. CompleteOK(rows[o], caller[c].hash, caller[c].run) = TRUE
        BY <2>1, <3>1
      <4>2. Save(done, TRUE) \/ Save(rows[o], FALSE) \/ Save(done, FALSE)
        BY <2>2, <4>1
      <4> QED
        BY <3>1, <4>2
    <3>2. CASE ~CompleteOK(rows[o], caller[c].hash, caller[c].run)
      <4>1. CompleteOK(rows[o], caller[c].hash, caller[c].run) = FALSE
        BY <2>1, <3>2
      <4>2. Save(rows[o], FALSE) \/ Save(done, FALSE)
        BY <2>2, <4>1
      <4> QED
        BY <4>2
    <3> QED
      BY <3>1, <3>2
  <2> QED
    BY <2>3 DEF Save
<1>e. /\ done = rows[o] \/ (rows[o].state = "pending" /\ done.state = "completed" /\ ~done.expired)
      /\ rows[o].state = "pending" /\ done # rows[o] => done.run = caller[c].run
      /\ done \in Rows(Hashes, Runs)
  <2>1. rows[o] \in Rows(Hashes, Runs)
    BY DEF TypeOK
  <2>2. CASE ~(rows[o].state = "pending" /\ rows[o].hash = caller[c].hash)
    BY <2>1, <2>2 DEF Completed
  <2>3. CASE rows[o].state = "pending" /\ rows[o].hash = caller[c].hash
    <3>1. done = [rows[o] EXCEPT !.state = "completed", !.run = caller[c].run, !.expired = FALSE]
      BY <2>3 DEF Completed
    <3> HIDE DEF done
    <3>2. done.state = "completed" /\ done.run = caller[c].run /\ ~done.expired
      BY <2>1, <3>1 DEF Rows
    <3>3. done \in Rows(Hashes, Runs)
      BY <2>1, <3>1, <1>b DEF Rows
    <3> QED
      BY <2>3, <3>2, <3>3
  <2> QED
    BY <2>2, <2>3
<1>f. saved => new.state = "completed" /\ new.run = caller[c].run
  BY <1>d DEF CompleteOK, Completed, TypeOK, Rows
<1> HIDE DEF done
<1>g. /\ new \in Rows(Hashes, Runs)
      /\ new = rows[o] \/ ( /\ rows[o].state = "pending" /\ new.state = "completed"
                            /\ ~new.expired /\ new.run = caller[c].run )
  BY <1>d, <1>e DEF TypeOK
<1>1. /\ rows' \in [Operations -> Rows(Hashes, Runs)]
      /\ rows'[o] = new /\ \A x \in Operations : x # o => rows'[x] = rows[x]
  BY <1>d, <1>g DEF TypeOK
<1>2. /\ caller' \in [Callers -> CallerType]
      /\ \A d \in Callers : d # c => caller'[d] = caller[d]
      /\ caller'[c].pc = "publish" /\ caller'[c].op = o /\ caller'[c].hash = caller[c].hash
      /\ caller'[c].run = caller[c].run /\ caller'[c].saved = saved
  BY <1>0, <1>d DEF TypeOK, CallerType
<1>3. log' \in Seq(Operations) /\ LogInv'
  <2>1. log \in Seq(Operations) /\ LogInv
    BY DEF TypeOK, JournalInv
  <2>2. CASE new = rows[o]
    <3>1. log' = log /\ rows' = rows
      BY <1>d, <2>2 DEF TypeOK
    <3> QED
      BY <2>1, <3>1 DEF LogInv, Distinct
  <2>3. CASE new # rows[o]
    <3>1. log' = Append(log, o) /\ rows[o].state = "pending" /\ new.state = "completed"
      BY <1>d, <1>g, <2>3
    <3>2. /\ log' \in Seq(Operations) /\ Len(log') = Len(log) + 1 /\ Len(log) \in Nat
          /\ \A i \in 1..Len(log) : log'[i] = log[i]
          /\ log'[Len(log) + 1] = o
      BY <2>1, <3>1
    <3>3. \A i \in 1..Len(log) : log[i] # o /\ log[i] \in Operations
      BY <2>1, <3>1 DEF LogInv
    <3>4. \A i \in 1..Len(log') : i \in 1..Len(log) \/ i = Len(log) + 1
      BY <3>2
    <3>5. Distinct(log')
      BY <2>1, <3>2, <3>3, <3>4 DEF LogInv, Distinct
    <3>6. \A i \in 1..Len(log') : rows'[log'[i]].state = "completed"
      BY <2>1, <3>1, <3>2, <3>3, <3>4, <1>1 DEF LogInv
    <3> QED
      BY <3>2, <3>5, <3>6 DEF LogInv, Distinct
  <2> QED
    BY <2>2, <2>3
<1>4. TypeOK'
  BY <1>a, <1>c, <1>1, <1>2, <1>3 DEF TypeOK, CallerType
<1>5. OrderInv'
  BY <1>a DEF JournalInv, OrderInv
<1>6. RunnerInv'
  <2>1. \A d, x \in Callers : Executes(d)' /\ Executes(x)' /\ caller'[d].op = caller'[x].op => d = x
    BY <1>0, <1>a, <1>2 DEF JournalInv, RunnerInv, Executes
  <2>2. \A d \in Callers : Executes(d)' => entries'[caller'[d].op].state = "running" /\ caller'[d].hash # 0
    BY <1>a, <1>b, <1>2 DEF JournalInv, RunnerInv, Executes
  <2>3. \A d \in Callers : d # c /\ Executes(d) => caller[d].op # o /\ caller[d].op \in Operations
    BY <1>0, <1>a DEF JournalInv, RunnerInv, Executes, TypeOK
  <2>4. \A d \in Callers : caller'[d].pc = "publish" /\ caller'[d].saved =>
          \/ rows'[caller'[d].op].state = "none"
          \/ rows'[caller'[d].op].state = "completed" /\ rows'[caller'[d].op].run = caller'[d].run
    <3> SUFFICES ASSUME NEW d \in Callers, caller'[d].pc = "publish", caller'[d].saved
                 PROVE  \/ rows'[caller'[d].op].state = "none"
                        \/ /\ rows'[caller'[d].op].state = "completed"
                           /\ rows'[caller'[d].op].run = caller'[d].run
      OBVIOUS
    <3>1. CASE d = c
      BY <3>1, <1>1, <1>2, <1>f
    <3>2. CASE d # c
      <4>1. caller'[d] = caller[d]
        BY <3>2, <1>2
      <4>2. rows'[caller[d].op] = rows[caller[d].op]
        BY <3>2, <4>1, <2>3, <1>1 DEF Executes
      <4> QED
        BY <4>1, <4>2 DEF JournalInv, RunnerInv
    <3> QED
      BY <3>1, <3>2
  <2> QED
    BY <2>1, <2>2, <2>4 DEF RunnerInv
<1>7. CountInv'
  <2>1. \A x \in Operations : rows'[x].state = "none" <=> rows[x].state = "none"
    BY <1>1, <1>g
  <2>2. \A x \in Operations : rows'[x].expired => rows[x].expired
    BY <1>1, <1>g
  <2>3. \A x \in Operations : purges[x] \in Nat /\ expiries \in Nat
    BY DEF TypeOK
  <2>4. \A d \in Callers : caller'[d].pc = "run" => caller'[d] = caller[d] /\ caller[d].op \in Operations
    BY <1>2 DEF TypeOK
  <2>5. \A x \in Operations : purges[x] + (IF rows'[x].expired THEN 1 ELSE 0) <= expiries
    BY <2>2, <2>3 DEF JournalInv, CountInv
  <2> QED
    BY <1>a, <2>1, <2>4, <2>5 DEF JournalInv, CountInv
<1>8. EntryInv'
  BY <1>a, <1>b, <1>1 DEF JournalInv, EntryInv
<1>9. OutcomeInv'
  BY <1>a, <1>b, <1>1, <1>2, <1>g DEF JournalInv, OutcomeInv
<1>10. AnswersAreDurable'
  BY <1>a, <1>1, <1>g DEF JournalInv, AnswersAreDurable
<1> QED
  BY <1>3, <1>4, <1>5, <1>6, <1>7, <1>8, <1>9, <1>10 DEF JournalInv

\* The outcome is published and the waiters return.
LEMMA PublishStep ==
    ASSUME TypeOK, JournalInv, NEW c \in Callers, Publish(c)
    PROVE  TypeOK' /\ JournalInv'
<1>a. /\ rows' = rows /\ log' = log /\ runs' = runs /\ purges' = purges
      /\ crashes' = crashes /\ faults' = faults /\ expiries' = expiries
      /\ caller[c].pc = "publish"
  BY DEF Publish
<1>0. PICK o \in Operations : o = caller[c].op
  BY DEF TypeOK
<1>b. /\ caller[c].run \in Runs /\ entries[o].state = "running" /\ caller[c].hash \in Hashes \cup {0}
      /\ caller[c].saved \in BOOLEAN
      /\ caller[c].saved => rows[o].state = "none" \/ (rows[o].state = "completed" /\ rows[o].run = caller[c].run)
  BY <1>0, <1>a DEF JournalInv, OutcomeInv, RunnerInv, Executes, TypeOK
<1>1. /\ entries' \in [Operations -> EntryType]
      /\ \A x \in Operations : x # o => entries'[x] = entries[x]
      /\ entries'[o].run = caller[c].run
      /\ entries'[o].state = "done" <=> caller[c].saved
  <2>1. entries' = [entries EXCEPT ![o] = Entry(IF caller[c].saved THEN "done" ELSE "uncertain",
                                                caller[c].hash, caller[c].run)]
    BY <1>0 DEF Publish
  <2> QED
    BY <2>1, <1>b DEF TypeOK, EntryType, Entry
<1>2. /\ caller' \in [Callers -> CallerType]
      /\ \A d \in Callers : caller'[d].pc # "away" => caller'[d] = caller[d] /\ d # c
  <2>1. caller' = [x \in Callers |-> IF x \in {c} \cup Waiting(o) THEN Away ELSE caller[x]]
    BY <1>0 DEF Publish
  <2> QED
    BY <2>1, AwayType DEF TypeOK, CallerType
<1>3. order' \in Seq(Operations) /\ OrderInv'
  <2>1. order \in Seq(Operations) /\ OrderInv
    BY DEF TypeOK, JournalInv
  <2>2. \A i \in 1..Len(order) : order[i] # o /\ order[i] \in Operations
    BY <2>1, <1>b DEF OrderInv
  <2>3. CASE ~caller[c].saved
    <3>1. order' = order
      BY <2>3 DEF Publish
    <3> QED
      BY <2>1, <2>2, <3>1, <1>1 DEF OrderInv, Distinct
  <2>4. CASE caller[c].saved
    <3>1. order' = Append(order, o)
      BY <2>4, <1>0 DEF Publish
    <3>2. /\ order' \in Seq(Operations) /\ Len(order') = Len(order) + 1 /\ Len(order) \in Nat
          /\ \A i \in 1..Len(order) : order'[i] = order[i]
          /\ order'[Len(order) + 1] = o
      BY <2>1, <3>1
    <3>3. \A i \in 1..Len(order') : i \in 1..Len(order) \/ i = Len(order) + 1
      BY <3>2
    <3>4. Distinct(order')
      BY <2>1, <2>2, <3>2, <3>3 DEF OrderInv, Distinct
    <3>5. \A i \in 1..Len(order') : entries'[order'[i]].state = "done"
      BY <2>1, <2>2, <2>4, <3>2, <3>3, <1>1 DEF OrderInv
    <3> QED
      BY <3>2, <3>4, <3>5 DEF OrderInv, Distinct
  <2> QED
    BY <2>3, <2>4, <1>b
<1>4. \/ told' = told
      \/ caller[c].saved /\ told' = [told EXCEPT ![o] = @ \cup {caller[c].run}]
  BY <1>0 DEF Publish, Tell
<1>5. TypeOK'
  <2>1. told' \in [Operations -> SUBSET Runs]
    <3>1. told \in [Operations -> SUBSET Runs]
      BY DEF TypeOK
    <3>2. [told EXCEPT ![o] = @ \cup {caller[c].run}] \in [Operations -> SUBSET Runs]
      BY <3>1, <1>b, TellType
    <3> QED
      BY <1>4, <3>1, <3>2
  <2> QED
    BY <1>a, <1>1, <1>2, <1>3, <2>1 DEF TypeOK, EntryType, CallerType
<1>6. LogInv'
  BY <1>a DEF JournalInv, LogInv
<1>7. RunnerInv'
  <2>1. \A d \in Callers : Executes(d)' => Executes(d) /\ caller'[d] = caller[d] /\ caller[d].op # o
                                           /\ caller[d].op \in Operations
    BY <1>0, <1>a, <1>2 DEF JournalInv, RunnerInv, Executes, TypeOK
  <2>2. \A d, x \in Callers : Executes(d)' /\ Executes(x)' /\ caller'[d].op = caller'[x].op => d = x
    BY <2>1 DEF JournalInv, RunnerInv
  <2>3. \A d \in Callers : Executes(d)' => entries'[caller'[d].op].state = "running" /\ caller'[d].hash # 0
    BY <2>1, <1>1 DEF JournalInv, RunnerInv
  <2>4. \A d \in Callers : caller'[d].pc = "publish" => Executes(d)'
    BY DEF Executes
  <2>5. \A d \in Callers : caller'[d].pc = "publish" /\ caller'[d].saved =>
          \/ rows'[caller'[d].op].state = "none"
          \/ rows'[caller'[d].op].state = "completed" /\ rows'[caller'[d].op].run = caller'[d].run
    BY <2>1, <2>4, <1>a DEF JournalInv, RunnerInv
  <2> QED
    BY <2>2, <2>3, <2>5 DEF RunnerInv
<1>8. CountInv'
  BY <1>a, <1>2 DEF JournalInv, CountInv
<1>9. EntryInv'
  BY <1>a, <1>b, <1>1 DEF JournalInv, EntryInv
<1>10. OutcomeInv'
  BY <1>a, <1>b, <1>1, <1>2 DEF JournalInv, OutcomeInv
<1>11. AnswersAreDurable'
  <2>1. CASE told' = told
    BY <2>1, <1>a DEF JournalInv, AnswersAreDurable
  <2>2. CASE caller[c].saved /\ told' = [told EXCEPT ![o] = @ \cup {caller[c].run}]
    <3>1. told'[o] = told[o] \cup {caller[c].run} /\ \A x \in Operations : x # o => told'[x] = told[x]
      BY <2>2 DEF TypeOK
    <3>2. rows[o].state = "none" \/ (rows[o].state = "completed" /\ told'[o] = {rows[o].run})
      BY <2>2, <3>1, <1>b DEF JournalInv, AnswersAreDurable
    <3> QED
      BY <1>a, <3>1, <3>2 DEF JournalInv, AnswersAreDurable
  <2> QED
    BY <1>4, <2>1, <2>2
<1> QED
  BY <1>3, <1>5, <1>6, <1>7, <1>8, <1>9, <1>10, <1>11 DEF JournalInv

\* A row expires.
LEMMA ExpireStep ==
    ASSUME TypeOK, JournalInv, NEW o \in Operations, Expire(o)
    PROVE  TypeOK' /\ JournalInv'
<1>a. /\ log' = log /\ entries' = entries /\ order' = order /\ caller' = caller
      /\ runs' = runs /\ purges' = purges /\ told' = told
      /\ crashes' = crashes /\ faults' = faults /\ expiries' = expiries + 1
      /\ rows' = [rows EXCEPT ![o].expired = TRUE] /\ ~rows[o].expired /\ expiries < MaxExpiries
  BY DEF Expire
<1>0. [rows[o] EXCEPT !.expired = TRUE] \in Rows(Hashes, Runs)
  <2>1. rows[o] \in Rows(Hashes, Runs)
    BY DEF TypeOK
  <2> QED
    BY <2>1 DEF Rows
<1>1. /\ rows' \in [Operations -> Rows(Hashes, Runs)]
      /\ \A x \in Operations : x # o => rows'[x] = rows[x]
      /\ rows'[o].state = rows[o].state /\ rows'[o].run = rows[o].run
  <2>1. rows' = [rows EXCEPT ![o] = [rows[o] EXCEPT !.expired = TRUE]]
    BY <1>a
  <2>2. rows'[o] = [rows[o] EXCEPT !.expired = TRUE] /\ rows[o] \in Rows(Hashes, Runs)
    BY <2>1 DEF TypeOK
  <2>3. rows'[o].state = rows[o].state /\ rows'[o].run = rows[o].run
    BY <2>2 DEF Rows
  <2> QED
    BY <2>1, <2>3, <1>0 DEF TypeOK
<1>2. \A x \in Operations : rows'[x].state = rows[x].state /\ rows'[x].run = rows[x].run
  BY <1>1
<1>3. expiries' \in 0..MaxExpiries
  BY <1>a, JournalAssumption DEF TypeOK
<1>4. TypeOK'
  BY <1>a, <1>1, <1>3 DEF TypeOK
<1>5. \A i \in 1..Len(log) : log[i] \in Operations
  BY DEF TypeOK
<1>6. \A c \in Callers : caller[c].op \in Operations
  BY DEF TypeOK
<1>7. LogInv'
  BY <1>a, <1>2, <1>5 DEF JournalInv, LogInv
<1>8. OrderInv' /\ EntryInv' /\ OutcomeInv' /\ AnswersAreDurable'
  BY <1>a, <1>2 DEF JournalInv, OrderInv, EntryInv, OutcomeInv, AnswersAreDurable
<1>9. RunnerInv'
  BY <1>a, <1>2, <1>6 DEF JournalInv, RunnerInv, Executes
<1>10. CountInv'
  <2>1. \A x \in Operations : purges[x] \in Nat /\ expiries \in Nat
    BY DEF TypeOK
  <2>2. \A x \in Operations : purges[x] + (IF rows'[x].expired THEN 1 ELSE 0) <= expiries + 1
    <3>1. purges[o] <= expiries
      BY <1>a, <2>1 DEF JournalInv, CountInv
    <3>2. \A x \in Operations : x # o => purges[x] + (IF rows[x].expired THEN 1 ELSE 0) <= expiries
      BY DEF JournalInv, CountInv
    <3> QED
      BY <1>1, <2>1, <3>1, <3>2
  <2> QED
    BY <1>a, <1>2, <1>6, <2>2 DEF JournalInv, CountInv
<1> QED
  BY <1>4, <1>7, <1>8, <1>9, <1>10 DEF JournalInv

\* The process restarts and loads the rows that are left.
LEMMA RestartStep ==
    ASSUME TypeOK, JournalInv, Restart
    PROVE  TypeOK' /\ JournalInv'
<1>a. /\ PurgeAll /\ runs' = runs /\ told' = told /\ faults' = faults /\ expiries' = expiries
      /\ caller' = [c \in Callers |-> Away]
  BY DEF Restart
<1>b. crashes' \in 0..MaxCrashes
  BY JournalAssumption DEF TypeOK, Restart
<1>c. rows' = [x \in Operations |-> IF TRUE THEN Purged(rows[x]) ELSE rows[x]]
  BY DEF Restart
<1>d. IF TRUE THEN PurgeAll ELSE UNCHANGED <<purges, log>>
  BY <1>a
<1>1. /\ rows' \in [Operations -> Rows(Hashes, Runs)]
      /\ purges' \in [Operations -> 0..MaxExpiries]
      /\ log' \in Seq(Operations) /\ Distinct(log')
      /\ \A i \in 1..Len(log') : rows'[log'[i]].state = "completed"
      /\ \A o \in Operations :
           /\ rows'[o].state = "none" \/ rows'[o] = rows[o]
           /\ purges[o] <= purges'[o]
           /\ rows'[o].state = "none" => rows[o].state = "none" \/ purges'[o] = purges[o] + 1
           /\ purges'[o] + (IF rows'[o].expired THEN 1 ELSE 0) <= expiries
  BY <1>c, <1>d, PurgeFacts
<1>2. \A c \in Callers : caller'[c] = Away /\ caller'[c].pc = "away"
  BY <1>a, AwayType
<1>3. PICK p \in SUBSET Operations, n \in 0..Len(log') :
        /\ \A o \in p : rows'[o].state = "pending"
        /\ order' = SubSeq(log', 1, n)
        /\ entries' = [o \in Operations |->
                         IF o \in p \cup {order'[i] : i \in DOMAIN order'}
                           THEN Load(rows'[o]) ELSE NoEntry]
  <2>1. PICK p \in SUBSET {o \in Operations : rows'[o].state = "pending"} :
          /\ Cardinality(p) = MaxTable \/ Cardinality(p) < MaxTable
          /\ order' = SubSeq(log', 1, IF Len(log') < MaxTable - Cardinality(p)
                                        THEN Len(log') ELSE MaxTable - Cardinality(p))
          /\ entries' = [o \in Operations |->
                           IF o \in p \cup {order'[i] : i \in DOMAIN order'}
                             THEN Load(rows'[o]) ELSE NoEntry]
    BY DEF Restart
  <2>2. Cardinality(p) \in Nat
    BY JournalAssumption, FS_Subset, FS_CardinalityType
  <2>3. Len(log') \in Nat
    BY <1>1
  <2>4. (IF Len(log') < MaxTable - Cardinality(p)
           THEN Len(log') ELSE MaxTable - Cardinality(p)) \in 0..Len(log')
    BY <2>1, <2>2, <2>3, JournalAssumption
  <2> QED
    BY <2>1, <2>4
<1>4. /\ order' \in Seq(Operations) /\ Len(order') = n
      /\ \A i \in 1..Len(order') : order'[i] = log'[i] /\ i \in 1..Len(log')
  BY <1>1, <1>3
<1>5. \A o \in Operations : entries'[o] = NoEntry \/ entries'[o] = Load(rows'[o])
  BY <1>3
<1>6. \A o \in Operations : /\ Load(rows'[o]) \in EntryType
                            /\ Load(rows'[o]).run = rows'[o].run
                            /\ Load(rows'[o]).state = "done" <=> rows'[o].state # "pending"
  BY <1>1 DEF Load, Entry, EntryType, Rows
<1>7. \A i \in 1..Len(order') : entries'[order'[i]].state = "done"
  <2> SUFFICES ASSUME NEW i \in 1..Len(order') PROVE entries'[order'[i]].state = "done"
    OBVIOUS
  <2>1. order'[i] \in Operations /\ i \in DOMAIN order'
    BY <1>4
  <2>2. entries'[order'[i]] = Load(rows'[order'[i]])
    BY <2>1, <1>3
  <2>3. rows'[order'[i]].state = "completed"
    BY <1>1, <1>4
  <2> QED
    BY <2>1, <2>2, <2>3, <1>6
<1>8. TypeOK'
  <2>1. entries' \in [Operations -> EntryType]
    <3>1. NoEntry \in EntryType
      BY DEF NoEntry, EntryType
    <3> QED
      BY <1>3, <1>6, <3>1
  <2>2. caller' \in [Callers -> CallerType]
    BY <1>a, AwayType
  <2> QED
    BY <1>a, <1>b, <1>1, <1>4, <2>1, <2>2 DEF TypeOK, EntryType, CallerType
<1>9. LogInv'
  BY <1>1 DEF LogInv, Distinct
<1>10. OrderInv'
  BY <1>1, <1>4, <1>7 DEF OrderInv, Distinct
<1>11. RunnerInv'
  BY <1>2 DEF RunnerInv, Executes
<1>12. CountInv'
  <2>1. \A o \in Operations : runs[o] \in Nat /\ purges[o] \in Nat /\ purges'[o] \in Nat
    BY <1>1 DEF TypeOK, Runs
  <2>2. \A o \in Operations :
          runs[o] <= 1 + purges'[o] /\ (rows'[o].state = "none" => runs[o] <= purges'[o])
    BY <1>1, <2>1 DEF JournalInv, CountInv
  <2> QED
    BY <1>a, <1>1, <1>2, <2>2 DEF CountInv
<1>13. \A o \in Operations : entries'[o].state = "done" =>
         rows'[o].state = "completed" /\ entries'[o].run = rows'[o].run
  <2> SUFFICES ASSUME NEW o \in Operations, entries'[o].state = "done"
               PROVE  rows'[o].state = "completed" /\ entries'[o].run = rows'[o].run
    OBVIOUS
  <2>1. entries'[o] # NoEntry
    BY DEF NoEntry
  <2>2. entries'[o] = Load(rows'[o])
    BY <2>1, <1>5
  <2>3. o \in p \/ \E i \in DOMAIN order' : order'[i] = o
    BY <2>1, <1>3
  <2>4. o \notin p
    BY <2>2, <1>3, <1>6
  <2>5. PICK i \in DOMAIN order' : order'[i] = o
    BY <2>3, <2>4
  <2>6. i \in 1..Len(order')
    BY <1>4
  <2>7. rows'[o].state = "completed"
    BY <2>5, <2>6, <1>1, <1>4
  <2> QED
    BY <2>2, <2>7, <1>6
<1>14. OutcomeInv' /\ EntryInv'
  <2>1. \A o \in Operations : rows'[o].state = "completed" => rows'[o].run \in Runs
    BY <1>1 DEF JournalInv, OutcomeInv
  <2> QED
    BY <1>2, <1>13, <2>1 DEF OutcomeInv, EntryInv
<1>15. AnswersAreDurable'
  BY <1>a, <1>1 DEF JournalInv, AnswersAreDurable
<1> QED
  BY <1>8, <1>9, <1>10, <1>11, <1>12, <1>14, <1>15 DEF JournalInv

-----------------------------------------------------------------------------
(* The theorems. *)

\* Every step of a caller, of time or of the process keeps JournalInv.
LEMMA JournalStep == TypeOK /\ JournalInv /\ [Next]_vars => TypeOK' /\ JournalInv'
<1> SUFFICES ASSUME TypeOK, JournalInv, [Next]_vars PROVE TypeOK' /\ JournalInv'
  OBVIOUS
<1>1. ASSUME NEW c \in Callers, NEW o \in Operations, NEW h \in Hashes,
             \/ ReserveFailed(c, o, h) \/ Lookup(c, o, h)
             \/ \E due \in BOOLEAN : Reserve(c, o, h, due)
      PROVE  TypeOK' /\ JournalInv'
  BY <1>1, ReserveFailedStep, LookupStep, ReserveStep
<1>2. ASSUME NEW c \in Callers, NEW o \in Operations, Refuse(c, o)
      PROVE  TypeOK' /\ JournalInv'
  BY <1>2, RefuseStep
<1>3. ASSUME NEW c \in Callers, Cancel(c) \/ Step(c)
      PROVE  TypeOK' /\ JournalInv'
  BY <1>3, CancelStep, RunStep, CompleteStep, PublishStep DEF Step
<1>4. ASSUME NEW o \in Operations, Expire(o)
      PROVE  TypeOK' /\ JournalInv'
  BY <1>4, ExpireStep
<1>5. CASE Restart
  BY <1>5, RestartStep
<1>6. CASE UNCHANGED vars
  <2>1. TypeOK'
    BY <1>6 DEF vars, TypeOK
  <2>2. JournalInv'
    BY <1>6 DEF vars, JournalInv, LogInv, OrderInv, RunnerInv, CountInv, EntryInv, OutcomeInv,
                AnswersAreDurable, Distinct, Executes
  <2> QED
    BY <2>1, <2>2
<1> QED
  BY <1>1, <1>2, <1>3, <1>4, <1>5, <1>6 DEF Next

\* The inductive invariant holds in every reachable state.
THEOREM JournalInvariance == Spec => [](TypeOK /\ JournalInv)
BY JournalInit, JournalStep, PTL DEF Spec

\* The state of the journal and of its store stays well formed: in particular
\* every outcome that was returned is the one of a run.
THEOREM JournalTypeCorrect == Spec => []TypeOK
BY JournalInvariance, PTL

\* Whatever duplicates arrive, whatever is evicted, fails to persist or crashes,
\* an operation runs once per row of the store, and two runs never overlap.
THEOREM ExecutedAtMostOnce == Spec => []AtMostOnce
<1>1. TypeOK /\ JournalInv => AtMostOnce
  <2> SUFFICES ASSUME TypeOK, JournalInv, NEW o \in Operations
               PROVE  /\ runs[o] + Cardinality({c \in Running(o) : caller[c].pc = "run"}) <= 1 + purges[o]
                      /\ Cardinality(Running(o)) <= 1
    BY DEF AtMostOnce
  <2>1. \A c, d \in Running(o) : c = d
    BY DEF JournalInv, RunnerInv, Executes, Running
  <2>2. runs[o] \in Nat /\ purges[o] \in Nat /\ runs[o] <= 1 + purges[o]
    BY DEF TypeOK, Runs, JournalInv, CountInv
  <2>3. CASE Running(o) = {}
    <3>1. {c \in Running(o) : caller[c].pc = "run"} = {}
      BY <2>3
    <3> QED
      BY <2>2, <2>3, <3>1, FS_EmptySet
  <2>4. ASSUME NEW c \in Running(o)
        PROVE  /\ runs[o] + Cardinality({d \in Running(o) : caller[d].pc = "run"}) <= 1 + purges[o]
               /\ Cardinality(Running(o)) <= 1
    <3>0. Running(o) = {c}
      BY <2>1, <2>4
    <3>1. Running(o) = {c} /\ Cardinality(Running(o)) = 1
      BY <3>0, FS_Singleton
    <3>2. CASE caller[c].pc = "run"
      <4>1. {d \in Running(o) : caller[d].pc = "run"} = {c}
        BY <3>1, <3>2
      <4>2. runs[o] <= purges[o]
        BY <2>4, <3>2 DEF Running, JournalInv, CountInv
      <4>3. Cardinality({d \in Running(o) : caller[d].pc = "run"}) = 1
        BY <4>1, FS_Singleton
      <4> QED
        BY <3>1, <4>2, <4>3, <2>2
    <3>3. CASE caller[c].pc # "run"
      <4>1. {d \in Running(o) : caller[d].pc = "run"} = {}
        BY <3>1, <3>3
      <4>2. Cardinality({d \in Running(o) : caller[d].pc = "run"}) = 0
        BY <4>1, FS_EmptySet
      <4> QED
        BY <3>1, <4>2, <2>2
    <3> QED
      BY <3>2, <3>3
  <2> QED
    BY <2>3, <2>4
<1> QED
  BY <1>1, JournalInvariance, PTL

\* An outcome that Execute returned without an error is the one in the store for
\* as long as the row exists, so a restart replays it.
THEOREM AnswersDurable == Spec => []AnswersAreDurable
<1>1. JournalInv => AnswersAreDurable
  BY DEF JournalInv
<1> QED
  BY <1>1, JournalInvariance, PTL
=============================================================================
