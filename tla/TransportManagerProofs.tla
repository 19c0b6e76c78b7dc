----------------------- MODULE TransportManagerProofs -----------------------
(***************************************************************************)
(* Proofs, for every finite set of consumers, every set of keys and every  *)
(* number of entries: the type invariant, that the reference counts are    *)
(* exact, and that a pool is closed at most once and never under a lease   *)
(* that nobody revoked.  The induction is on ManagerInv: an entry that is  *)
(* still in the table has not been closed, retired or revoked, an entry    *)
(* under construction has one creator, and a consumer's entry is in the    *)
(* table under the consumer's key or nowhere.                              *)
(***************************************************************************)
EXTENDS TransportManager, FiniteSetTheorems, TLAPS

-----------------------------------------------------------------------------
(* The inductive invariant. *)

\* Manager.entries: entries of different keys differ, and Close empties it.
TableInv ==
    /\ \A k \in Keys : entries[k] <= created
    /\ \A k, j \in Keys : entries[k] = entries[j] /\ entries[k] # 0 => k = j
    /\ closed => \A k \in Keys : entries[k] = 0

\* What the consumers have in hand.
HandsInv ==
    /\ \A c \in Consumers : consumer[c].pc # "idle" => consumer[c].entry \in 1..created
    /\ \A c \in Consumers, k \in Keys :
         consumer[c].pc # "idle" /\ entries[k] = consumer[c].entry => k = consumer[c].key
    /\ \A c, d \in Consumers :
         At(c, "factory") /\ At(d, "factory") /\ consumer[c].entry = consumer[d].entry => c = d

\* How far an entry has come: not created, in the table, under construction,
\* in use, out of the table.
StageInv ==
    /\ \A e \in Entries : e > created =>
         ~ready[e] /\ ~pool[e] /\ ~retired[e] /\ ~revoked[e] /\ closing[e] = 0 /\ closes[e] = 0
    /\ \A k \in Keys, e \in Entries : entries[k] = e =>
         /\ closing[e] = 0 /\ closes[e] = 0
         /\ ~retired[e] /\ ~revoked[e]
         /\ ready[e] => pool[e]
    /\ \A c \in Consumers, e \in Entries : At(c, "factory") /\ consumer[c].entry = e =>
         ~pool[e] /\ closing[e] = 0 /\ closes[e] = 0
    /\ \A e \in Entries : Using(e) # {} => pool[e]
    /\ \A e \in Entries : retired[e] => ~revoked[e]

ManagerInv == TableInv /\ HandsInv /\ StageInv /\ RefsExact /\ ClosedOnce

-----------------------------------------------------------------------------
(* Facts about the operators of the model. *)

\* The consumers that use an entry are finitely many.
LEMMA UsingFinite ==
    ASSUME NEW e
    PROVE  /\ IsFiniteSet(Using(e))
           /\ Cardinality(Using(e)) \in 0..Cardinality(Consumers)
<1>1. Using(e) \in SUBSET Consumers
  BY DEF Using
<1> QED
  BY <1>1, ManagerAssumption, FS_Subset, FS_CardinalityType

\* A consumer outside the manager.
LEMMA IdleType ==
    /\ Idle \in [pc : Pcs, key : Keys, entry : Entries \cup {0}]
    /\ Idle.pc = "idle"
BY ManagerAssumption DEF Idle, Pcs

\* reserve and releaseReservation move the count with the consumer.
LEMMA OneMore ==
    ASSUME NEW S, NEW c, IsFiniteSet(S), c \notin S
    PROVE  Cardinality(S \cup {c}) = Cardinality(S) + 1
BY FS_AddElement

\* One user fewer.
LEMMA OneLess ==
    ASSUME NEW S, NEW c, IsFiniteSet(S), c \in S
    PROVE  Cardinality(S \ {c}) = Cardinality(S) - 1
BY FS_RemoveElement

-----------------------------------------------------------------------------
(* The initial state and the steps. *)

\* NewManager: an empty table.
LEMMA ManagerInit == Init => TypeOK /\ ManagerInv
<1> SUFFICES ASSUME Init PROVE TypeOK /\ ManagerInv
  OBVIOUS
<1>1. \A e \in Entries : Using(e) = {}
  BY IdleType DEF Using, Init
<1>2. Cardinality({}) = 0 /\ Cardinality(Consumers) \in Nat
  BY FS_EmptySet, FS_CardinalityType, ManagerAssumption
<1>3. TypeOK
  <2>1. consumer \in [Consumers -> [pc : Pcs, key : Keys, entry : Entries \cup {0}]]
    BY IdleType DEF Init
  <2>2. refs \in [Entries -> 0..Cardinality(Consumers)]
    BY <1>2 DEF Init
  <2>3. /\ entries \in [Keys -> Entries \cup {0}]
        /\ created \in 0..MaxEntries
        /\ closing \in [Entries -> Nat] /\ closes \in [Entries -> Nat]
    BY ManagerAssumption DEF Init
  <2>4. /\ closed \in BOOLEAN /\ panicked \in BOOLEAN
        /\ ready \in [Entries -> BOOLEAN] /\ err \in [Entries -> BOOLEAN]
        /\ pool \in [Entries -> BOOLEAN] /\ retired \in [Entries -> BOOLEAN]
        /\ revoked \in [Entries -> BOOLEAN] /\ built \in [Entries -> BOOLEAN]
    BY Zenon DEF Init
  <2> QED
    BY <2>1, <2>2, <2>3, <2>4 DEF TypeOK
<1>4. TableInv
  BY DEF TableInv, Init
<1>5. HandsInv
  BY IdleType DEF HandsInv, Init, At
<1>6. StageInv
  BY <1>1, IdleType DEF StageInv, Init, At
<1>7. RefsExact /\ ClosedOnce
  BY <1>1, <1>2 DEF RefsExact, ClosedOnce, Init
<1> QED
  BY <1>3, <1>4, <1>5, <1>6, <1>7 DEF ManagerInv

\* Acquire finds an entry.
LEMMA JoinStep ==
    ASSUME TypeOK, ManagerInv, NEW c \in Consumers, NEW k \in Keys, Join(c, k)
    PROVE  TypeOK' /\ ManagerInv'
<1> USE DEF At
<1>1. TypeOK'
  BY DEF TypeOK, Join, Pcs, entryVars
<1>2. \A e \in Entries : Using(e)' = Using(e)
  BY DEF Using, Join, TypeOK
<1>3. TableInv'
  BY DEF ManagerInv, TableInv, Join, entryVars
<1>4. HandsInv'
  BY ManagerAssumption DEF ManagerInv, TableInv, HandsInv, Join, entryVars, TypeOK, Entries
<1>5. StageInv'
  BY <1>2 DEF ManagerInv, StageInv, Join, entryVars, TypeOK
<1>6. RefsExact' /\ ClosedOnce'
  BY <1>2 DEF ManagerInv, RefsExact, ClosedOnce, Join, entryVars
<1> QED
  BY <1>1, <1>3, <1>4, <1>5, <1>6 DEF ManagerInv

\* Acquire adds an entry.
LEMMA CreateStep ==
    ASSUME TypeOK, ManagerInv, NEW c \in Consumers, NEW k \in Keys, Create(c, k)
    PROVE  TypeOK' /\ ManagerInv'
<1> USE DEF At
<1>0. created + 1 \in Entries /\ created + 1 \in 0..MaxEntries /\ created \in Nat
  BY ManagerAssumption DEF TypeOK, Create, Entries
<1>1. TypeOK'
  BY <1>0 DEF TypeOK, Create, Pcs
<1>2. \A e \in Entries : Using(e)' = Using(e)
  BY DEF Using, Create, TypeOK
<1>3. TableInv'
  <2>1. /\ entries' = [entries EXCEPT ![k] = created + 1] /\ created' = created + 1
        /\ ~closed /\ closed' = closed /\ entries \in [Keys -> Entries \cup {0}]
    BY DEF Create, TypeOK
  <2>2. \A j \in Keys : entries[j] \in Nat /\ entries[j] <= created
    BY <2>1, ManagerAssumption DEF ManagerInv, TableInv, Entries
  <2>3. \A i, j \in Keys : entries[i] = entries[j] /\ entries[i] # 0 => i = j
    BY DEF ManagerInv, TableInv
  <2> QED
    BY <1>0, <2>1, <2>2, <2>3 DEF TableInv
<1>4. HandsInv'
  <2>1. \A d \in Consumers : consumer'[d].pc # "idle" => consumer'[d].entry \in 1..created'
    BY <1>0, ManagerAssumption DEF ManagerInv, HandsInv, Create, TypeOK, Entries
  <2>2. \A d \in Consumers, j \in Keys :
          consumer'[d].pc # "idle" /\ entries'[j] = consumer'[d].entry => j = consumer'[d].key
    BY <1>0, ManagerAssumption DEF ManagerInv, HandsInv, TableInv, Create, TypeOK, Entries
  <2>3. \A d, x \in Consumers :
          /\ consumer'[d].pc = "factory" /\ consumer'[x].pc = "factory"
          /\ consumer'[d].entry = consumer'[x].entry
          => d = x
    <3>1. \A d \in Consumers \ {c} :
            consumer'[d] = consumer[d] /\ (consumer[d].pc = "factory" => consumer[d].entry <= created)
      BY <1>0 DEF ManagerInv, HandsInv, Create, TypeOK
    <3>2. consumer'[c].entry = created + 1
      BY DEF Create, TypeOK
    <3>3. \A d, x \in Consumers \ {c} :
            consumer[d].pc = "factory" /\ consumer[x].pc = "factory"
            /\ consumer[d].entry = consumer[x].entry => d = x
      BY DEF ManagerInv, HandsInv
    <3> QED
      BY <1>0, <3>1, <3>2, <3>3
  <2> QED
    BY <2>1, <2>2, <2>3 DEF HandsInv
<1>5. StageInv'
  <2>1. \A e \in Entries : e > created' =>
          /\ ~ready'[e] /\ ~pool'[e] /\ ~retired'[e] /\ ~revoked'[e]
          /\ closing'[e] = 0 /\ closes'[e] = 0
    BY <1>0 DEF ManagerInv, StageInv, Create, Entries
  <2>2. \A j \in Keys, e \in Entries : entries'[j] = e =>
          /\ closing'[e] = 0 /\ closes'[e] = 0
          /\ ~retired'[e] /\ ~revoked'[e]
          /\ ready'[e] => pool'[e]
    BY <1>0 DEF ManagerInv, StageInv, Create, TypeOK, Entries
  <2>3. \A d \in Consumers, e \in Entries : consumer'[d].pc = "factory" /\ consumer'[d].entry = e =>
          ~pool'[e] /\ closing'[e] = 0 /\ closes'[e] = 0
    BY <1>0 DEF ManagerInv, StageInv, Create, TypeOK, Entries
  <2>4. \A e \in Entries : Using(e)' # {} => pool'[e]
    BY <1>2 DEF ManagerInv, StageInv, Create
  <2>5. \A e \in Entries : retired'[e] => ~revoked'[e]
    BY DEF ManagerInv, StageInv, Create
  <2> QED
    BY <2>1, <2>2, <2>3, <2>4, <2>5 DEF StageInv
<1>6. RefsExact' /\ ClosedOnce'
  BY <1>2 DEF ManagerInv, RefsExact, ClosedOnce, Create
<1> QED
  BY <1>1, <1>3, <1>4, <1>5, <1>6 DEF ManagerInv

\* The entry in hand, and how the table knows it.
LEMMA InHand ==
    ASSUME TypeOK, ManagerInv, NEW c \in Consumers, consumer[c].pc # "idle"
    PROVE  /\ consumer[c].entry \in Entries
           /\ consumer[c].entry <= created
           /\ consumer[c].key \in Keys
           /\ ~Current(c) => \A k \in Keys : entries[k] # consumer[c].entry
           /\ closed => ~Current(c)
BY ManagerAssumption DEF TypeOK, ManagerInv, HandsInv, TableInv, Current, Entries

\* An entry under construction has no pool, no users and was never closed.
LEMMA UnderConstruction ==
    ASSUME TypeOK, ManagerInv, NEW c \in Consumers, At(c, "factory")
    PROVE  LET e == consumer[c].entry IN
           /\ ~pool[e] /\ closing[e] = 0 /\ closes[e] = 0
           /\ Using(e) = {} /\ refs[e] = 0
           /\ Current(c) => ~ready[e] /\ ~retired[e] /\ ~revoked[e]
           /\ \A d \in Consumers : At(d, "factory") /\ d # c => consumer[d].entry # e
<1> DEFINE e == consumer[c].entry
<1>1. e \in Entries /\ consumer[c].key \in Keys
  BY InHand DEF At
<1>2. ~pool[e] /\ closing[e] = 0 /\ closes[e] = 0
  BY <1>1 DEF ManagerInv, StageInv, At
<1>3. Using(e) = {}
  BY <1>1, <1>2 DEF ManagerInv, StageInv
<1>4. refs[e] = 0
  BY <1>1, <1>3, FS_EmptySet DEF ManagerInv, RefsExact
<1>5. Current(c) => ~ready[e] /\ ~retired[e] /\ ~revoked[e]
  BY <1>1, <1>2 DEF ManagerInv, StageInv, Current
<1>6. \A d \in Consumers : At(d, "factory") /\ d # c => consumer[d].entry # e
  BY DEF ManagerInv, HandsInv, At
<1> QED
  BY <1>2, <1>3, <1>4, <1>5, <1>6

\* The factory returned too late.
LEMMA FactoryLateStep ==
    ASSUME TypeOK, ManagerInv, NEW c \in Consumers, NEW made \in BOOLEAN, FactoryLate(c, made)
    PROVE  TypeOK' /\ ManagerInv'
<1> DEFINE e == consumer[c].entry
<1>a. /\ e \in Entries /\ ~pool[e] /\ closing[e] = 0 /\ closes[e] = 0 /\ Using(e) = {}
      /\ e <= created
      /\ \A d \in Consumers : At(d, "factory") /\ d # c => consumer[d].entry # e
  <2>1. At(c, "factory") /\ consumer[c].pc # "idle"
    BY DEF FactoryLate, At
  <2> QED
    BY <2>1, InHand, UnderConstruction
<1>b. \A k \in Keys : entries[k] # e
  BY InHand DEF FactoryLate, At
<1>c. closing' = [x \in Entries |-> IF made /\ x = e THEN 1 ELSE closing[x]]
  BY <1>a DEF FactoryLate, StartClose, TypeOK
<1>1. TypeOK'
  <2>1. closing' \in [Entries -> Nat]
    BY <1>c DEF TypeOK
  <2> QED
    BY <2>1, IdleType DEF TypeOK, FactoryLate, Return
<1>2. \A x \in Entries : Using(x)' = Using(x)
  BY IdleType DEF Using, FactoryLate, Return, TypeOK, At
<1>3. TableInv'
  BY DEF ManagerInv, TableInv, FactoryLate
<1>4. HandsInv'
  BY IdleType DEF ManagerInv, HandsInv, FactoryLate, Return, TypeOK, At
<1>5. StageInv'
  <2>1. \A x \in Entries : x > created' =>
          /\ ~ready'[x] /\ ~pool'[x] /\ ~retired'[x] /\ ~revoked'[x]
          /\ closing'[x] = 0 /\ closes'[x] = 0
    BY <1>a, <1>c DEF ManagerInv, StageInv, FactoryLate, TypeOK, Entries
  <2>2. \A j \in Keys, x \in Entries : entries'[j] = x =>
          /\ closing'[x] = 0 /\ closes'[x] = 0
          /\ ~retired'[x] /\ ~revoked'[x]
          /\ ready'[x] => pool'[x]
    BY <1>b, <1>c DEF ManagerInv, StageInv, FactoryLate
  <2>3. \A d \in Consumers, x \in Entries : At(d, "factory")' /\ consumer'[d].entry = x =>
          ~pool'[x] /\ closing'[x] = 0 /\ closes'[x] = 0
    BY <1>a, <1>c, IdleType DEF ManagerInv, StageInv, FactoryLate, Return, At, TypeOK
  <2>4. \A x \in Entries : Using(x)' # {} => pool'[x]
    BY <1>2 DEF ManagerInv, StageInv, FactoryLate
  <2>5. \A x \in Entries : retired'[x] => ~revoked'[x]
    BY DEF ManagerInv, StageInv, FactoryLate
  <2> QED
    BY <2>1, <2>2, <2>3, <2>4, <2>5 DEF StageInv
<1>6. RefsExact'
  BY <1>2 DEF ManagerInv, RefsExact, FactoryLate
<1>7. ClosedOnce'
  BY <1>2, <1>a, <1>c DEF ManagerInv, ClosedOnce, FactoryLate, TypeOK
<1> QED
  BY <1>1, <1>3, <1>4, <1>5, <1>6, <1>7 DEF ManagerInv

\* The factory returned a pool in time.
LEMMA FactoryDoneStep ==
    ASSUME TypeOK, ManagerInv, NEW c \in Consumers, FactoryDone(c)
    PROVE  TypeOK' /\ ManagerInv'
<1> DEFINE e == consumer[c].entry
<1>a. /\ e \in Entries /\ ~ready[e] /\ Using(e) = {} /\ e <= created
      /\ \A d \in Consumers : At(d, "factory") /\ d # c => consumer[d].entry # e
  <2>1. At(c, "factory") /\ consumer[c].pc # "idle" /\ Current(c)
    BY DEF FactoryDone, At
  <2> QED
    BY <2>1, InHand, UnderConstruction
<1>b. /\ ready' = [x \in Entries |-> ready[x] \/ x = e]
      /\ panicked' \in BOOLEAN /\ ~panicked'
      /\ pool' = [pool EXCEPT ![e] = TRUE]
  <2>1. ready' = [x \in Entries |-> ready[x] \/ x = e] /\ pool' = [pool EXCEPT ![e] = TRUE]
    BY <1>a DEF FactoryDone, CloseReady
  <2>2. panicked' \in BOOLEAN /\ ~panicked'
    BY <1>a, Zenon DEF FactoryDone, CloseReady, ManagerInv, ClosedOnce
  <2> QED
    BY <2>1, <2>2
<1>1. TypeOK'
  <2>1. ready' \in [Entries -> BOOLEAN] /\ pool' \in [Entries -> BOOLEAN]
    BY <1>a, <1>b DEF TypeOK
  <2>2. consumer' \in [Consumers -> [pc : Pcs, key : Keys, entry : Entries \cup {0}]]
    BY DEF TypeOK, FactoryDone, Goto, Pcs
  <2> QED
    BY <1>b, <2>1, <2>2 DEF TypeOK, FactoryDone
<1>2. \A x \in Entries : Using(x)' = Using(x)
  BY DEF Using, FactoryDone, Goto, TypeOK, At
<1>3. TableInv'
  BY DEF ManagerInv, TableInv, FactoryDone
<1>4. HandsInv'
  BY DEF ManagerInv, HandsInv, FactoryDone, Goto, TypeOK, At
<1>5. StageInv'
  <2>1. \A x \in Entries : x > created' =>
          /\ ~ready'[x] /\ ~pool'[x] /\ ~retired'[x] /\ ~revoked'[x]
          /\ closing'[x] = 0 /\ closes'[x] = 0
    BY <1>a, <1>b DEF ManagerInv, StageInv, FactoryDone, TypeOK, Entries
  <2>2. \A j \in Keys, x \in Entries : entries'[j] = x =>
          /\ closing'[x] = 0 /\ closes'[x] = 0
          /\ ~retired'[x] /\ ~revoked'[x]
          /\ ready'[x] => pool'[x]
    BY <1>b DEF ManagerInv, StageInv, FactoryDone, TypeOK
  <2>3. \A d \in Consumers, x \in Entries : At(d, "factory")' /\ consumer'[d].entry = x =>
          ~pool'[x] /\ closing'[x] = 0 /\ closes'[x] = 0
    BY <1>a, <1>b DEF ManagerInv, StageInv, FactoryDone, Goto, At, TypeOK
  <2>4. \A x \in Entries : Using(x)' # {} => pool'[x]
    BY <1>2, <1>b DEF ManagerInv, StageInv, TypeOK
  <2>5. \A x \in Entries : retired'[x] => ~revoked'[x]
    BY DEF ManagerInv, StageInv, FactoryDone
  <2> QED
    BY <2>1, <2>2, <2>3, <2>4, <2>5 DEF StageInv
<1>6. RefsExact' /\ ClosedOnce'
  BY <1>2, <1>b DEF ManagerInv, RefsExact, ClosedOnce, FactoryDone
<1> QED
  BY <1>1, <1>3, <1>4, <1>5, <1>6 DEF ManagerInv

\* The factory failed in time: the entry leaves the table with what was made.
LEMMA FactoryFailedStep ==
    ASSUME TypeOK, ManagerInv, NEW c \in Consumers, NEW made \in BOOLEAN, FactoryFailed(c, made)
    PROVE  TypeOK' /\ ManagerInv'
<1> DEFINE e == consumer[c].entry
<1>a. /\ e \in Entries /\ ~ready[e] /\ closing[e] = 0 /\ closes[e] = 0
      /\ Using(e) = {} /\ e <= created
      /\ \A d \in Consumers : At(d, "factory") /\ d # c => consumer[d].entry # e
  <2>1. At(c, "factory") /\ consumer[c].pc # "idle" /\ Current(c)
    BY DEF FactoryFailed, At
  <2> QED
    BY <2>1, InHand, UnderConstruction
<1>b. /\ ready' = [x \in Entries |-> ready[x] \/ x = e]
      /\ panicked' \in BOOLEAN /\ ~panicked'
      /\ pool' = [pool EXCEPT ![e] = made]
  <2>1. ready' = [x \in Entries |-> ready[x] \/ x = e] /\ pool' = [pool EXCEPT ![e] = made]
    BY <1>a DEF FactoryFailed, CloseReady
  <2>2. panicked' \in BOOLEAN /\ ~panicked'
    BY <1>a, Zenon DEF FactoryFailed, CloseReady, ManagerInv, ClosedOnce
  <2> QED
    BY <2>1, <2>2
<1>c. closing' = [x \in Entries |-> IF made /\ x = e THEN 1 ELSE closing[x]]
  BY <1>a DEF FactoryFailed, StartClose, TypeOK
<1>d. \A k \in Keys : entries'[k] # e /\ (entries'[k] = entries[k] \/ entries'[k] = 0)
  <2>1. 0 # e
    BY <1>a DEF Entries
  <2>2. \A k \in Keys : entries[k] = e => k = consumer[c].key
    BY DEF ManagerInv, HandsInv, FactoryFailed, At
  <2> QED
    BY <2>1, <2>2 DEF FactoryFailed, TypeOK
<1>1. TypeOK'
  <2>1. ready' \in [Entries -> BOOLEAN] /\ pool' \in [Entries -> BOOLEAN]
    BY <1>a, <1>b DEF TypeOK
  <2>2. consumer' \in [Consumers -> [pc : Pcs, key : Keys, entry : Entries \cup {0}]]
    BY DEF TypeOK, FactoryFailed, Goto, Pcs
  <2>3. closing' \in [Entries -> Nat] /\ entries' \in [Keys -> Entries \cup {0}]
    BY <1>c DEF TypeOK, FactoryFailed
  <2>4. built' \in [Entries -> BOOLEAN] /\ err' \in [Entries -> BOOLEAN]
    BY <1>a DEF TypeOK, FactoryFailed
  <2> QED
    BY <1>b, <2>1, <2>2, <2>3, <2>4 DEF TypeOK, FactoryFailed
<1>2. \A x \in Entries : Using(x)' = Using(x)
  BY DEF Using, FactoryFailed, Goto, TypeOK, At
<1>3. TableInv'
  BY <1>d, ManagerAssumption DEF ManagerInv, TableInv, FactoryFailed, TypeOK, Entries
<1>4. HandsInv'
  <2>1. \A d \in Consumers : consumer'[d].entry = consumer[d].entry /\ consumer'[d].key = consumer[d].key
                           /\ (consumer'[d].pc # "idle" => consumer[d].pc # "idle")
                           /\ (consumer'[d].pc = "factory" => consumer[d].pc = "factory")
    BY DEF FactoryFailed, Goto, TypeOK, At
  <2>2. \A d \in Consumers : consumer[d].pc # "idle" => consumer[d].entry # 0
    BY ManagerAssumption DEF ManagerInv, HandsInv, TypeOK
  <2> QED
    BY <2>1, <2>2, <1>d DEF ManagerInv, HandsInv, FactoryFailed, At
<1>5. StageInv'
  <2>1. \A x \in Entries : x > created' =>
          /\ ~ready'[x] /\ ~pool'[x] /\ ~retired'[x] /\ ~revoked'[x]
          /\ closing'[x] = 0 /\ closes'[x] = 0
    BY <1>a, <1>b, <1>c DEF ManagerInv, StageInv, FactoryFailed, TypeOK, Entries
  <2>2. \A j \in Keys, x \in Entries : entries'[j] = x =>
          /\ closing'[x] = 0 /\ closes'[x] = 0
          /\ ~retired'[x] /\ ~revoked'[x]
          /\ ready'[x] => pool'[x]
    BY <1>b, <1>c, <1>d DEF ManagerInv, StageInv, FactoryFailed, TypeOK, Entries
  <2>3. \A d \in Consumers, x \in Entries : At(d, "factory")' /\ consumer'[d].entry = x =>
          ~pool'[x] /\ closing'[x] = 0 /\ closes'[x] = 0
    BY <1>a, <1>b, <1>c DEF ManagerInv, StageInv, FactoryFailed, Goto, At, TypeOK
  <2>4. \A x \in Entries : Using(x)' # {} => pool'[x]
    BY <1>2, <1>a, <1>b DEF ManagerInv, StageInv, TypeOK
  <2>5. \A x \in Entries : retired'[x] => ~revoked'[x]
    BY DEF ManagerInv, StageInv, FactoryFailed
  <2> QED
    BY <2>1, <2>2, <2>3, <2>4, <2>5 DEF StageInv
<1>6. RefsExact'
  BY <1>2 DEF ManagerInv, RefsExact, FactoryFailed
<1>7. ClosedOnce'
  BY <1>2, <1>a, <1>b, <1>c DEF ManagerInv, ClosedOnce, FactoryFailed, TypeOK
<1> QED
  BY <1>1, <1>3, <1>4, <1>5, <1>6, <1>7 DEF ManagerInv

\* The context of a waiter ends.
LEMMA CancelStep ==
    ASSUME TypeOK, ManagerInv, NEW c \in Consumers, Cancel(c)
    PROVE  TypeOK' /\ ManagerInv'
<1> USE DEF At
<1>1. TypeOK'
  BY IdleType DEF TypeOK, Cancel, Return, entryVars
<1>2. \A e \in Entries : Using(e)' = Using(e)
  BY IdleType DEF Using, Cancel, Return, TypeOK
<1>3. TableInv'
  BY DEF ManagerInv, TableInv, Cancel, entryVars
<1>4. HandsInv'
  BY IdleType DEF ManagerInv, HandsInv, Cancel, Return, entryVars, TypeOK
<1>5. StageInv'
  BY <1>2, IdleType DEF ManagerInv, StageInv, Cancel, Return, entryVars, TypeOK
<1>6. RefsExact' /\ ClosedOnce'
  BY <1>2 DEF ManagerInv, RefsExact, ClosedOnce, Cancel, entryVars
<1> QED
  BY <1>1, <1>3, <1>4, <1>5, <1>6 DEF ManagerInv

\* A woken consumer takes a reference, or gives up.
LEMMA ReserveStep ==
    ASSUME TypeOK, ManagerInv, NEW c \in Consumers, Reserve(c)
    PROVE  TypeOK' /\ ManagerInv'
<1> USE DEF At
<1> DEFINE e == consumer[c].entry
<1>a. consumer[c].pc \in {"published", "wait"}
  BY DEF Reserve, Woken
<1>b. e \in Entries /\ consumer[c].key \in Keys
  BY <1>a, InHand
<1>3. TableInv'
  BY DEF ManagerInv, TableInv, Reserve
<1>4. HandsInv'
  <2>1. \/ consumer' = [consumer EXCEPT ![c] = Idle]
        \/ consumer' = [consumer EXCEPT ![c].pc = "reserved"]
    BY DEF Reserve, Goto, Return
  <2>2. entries' = entries /\ created' = created
    BY DEF Reserve
  <2>3. CASE consumer' = [consumer EXCEPT ![c] = Idle]
    BY <2>2, <2>3, IdleType DEF ManagerInv, HandsInv, TypeOK
  <2>4. CASE consumer' = [consumer EXCEPT ![c].pc = "reserved"]
    BY <1>a, <2>2, <2>4 DEF ManagerInv, HandsInv, TypeOK
  <2> QED
    BY <2>1, <2>3, <2>4
<1>5. CASE Usable(c)
  <2>a. pool[e] /\ closing[e] = 0 /\ closes[e] = 0
    BY <1>5, <1>b DEF Usable, Current, ManagerInv, StageInv
  <2>b. /\ consumer' = [consumer EXCEPT ![c].pc = "reserved"]
        /\ refs' = [refs EXCEPT ![e] = @ + 1]
    BY <1>5 DEF Reserve, Goto
  <2>c. Using(e)' = Using(e) \cup {c} /\ c \notin Using(e)
    BY <2>b, <1>a DEF Using, TypeOK
  <2>d. \A x \in Entries : x # e => Using(x)' = Using(x)
    BY <2>b, <1>a DEF Using, TypeOK
  <2>e. refs[e] + 1 = Cardinality(Using(e)')
    BY <2>c, <1>b, UsingFinite, OneMore DEF ManagerInv, RefsExact
  <2>f. refs[e] + 1 \in 0..Cardinality(Consumers)
    <3>1. Using(e)' \in SUBSET Consumers
      BY <2>c DEF Using
    <3> QED
      BY <3>1, <2>e, FS_Subset, FS_CardinalityType, ManagerAssumption
  <2>1. TypeOK'
    <3>1. refs' \in [Entries -> 0..Cardinality(Consumers)]
      BY <2>b, <2>f DEF TypeOK
    <3>2. consumer' \in [Consumers -> [pc : Pcs, key : Keys, entry : Entries \cup {0}]]
      BY <2>b DEF TypeOK, Pcs
    <3> QED
      BY <3>1, <3>2 DEF TypeOK, Reserve
  <2>2. RefsExact'
    BY <2>b, <2>d, <2>e, <1>b DEF ManagerInv, RefsExact, TypeOK
  <2>3. StageInv'
    <3>1. \A x \in Entries : Using(x)' # {} => pool[x]
      BY <2>a, <2>d DEF ManagerInv, StageInv
    <3>2. \A d \in Consumers : consumer'[d].pc = "factory" =>
            consumer[d].pc = "factory" /\ consumer'[d].entry = consumer[d].entry
      BY <2>b DEF TypeOK
    <3> QED
      BY <3>1, <3>2 DEF ManagerInv, StageInv, Reserve
  <2>4. ClosedOnce'
    BY <2>a, <2>d DEF ManagerInv, ClosedOnce, Reserve
  <2> QED
    BY <1>3, <1>4, <2>1, <2>2, <2>3, <2>4 DEF ManagerInv
<1>6. CASE ~Usable(c)
  <2>1. consumer' = [consumer EXCEPT ![c] = Idle] /\ refs' = refs
    BY <1>6 DEF Reserve, Return
  <2>2. \A x \in Entries : Using(x)' = Using(x)
    BY <2>1, <1>a, IdleType DEF Using, TypeOK
  <2>3. TypeOK'
    BY <2>1, IdleType DEF TypeOK, Reserve
  <2>4. RefsExact' /\ ClosedOnce'
    BY <2>1, <2>2 DEF ManagerInv, RefsExact, ClosedOnce, Reserve
  <2>5. StageInv'
    BY <2>1, <2>2, IdleType DEF ManagerInv, StageInv, Reserve, TypeOK
  <2> QED
    BY <1>3, <1>4, <2>3, <2>4, <2>5 DEF ManagerInv
<1> QED
  BY <1>5, <1>6

\* pool.Acquire succeeds.
LEMMA PoolAcquiredStep ==
    ASSUME TypeOK, ManagerInv, NEW c \in Consumers, PoolAcquired(c)
    PROVE  TypeOK' /\ ManagerInv'
<1> USE DEF At
<1>1. TypeOK'
  <2>1. consumer' \in [Consumers -> [pc : Pcs, key : Keys, entry : Entries \cup {0}]]
    BY DEF TypeOK, PoolAcquired, Goto, Pcs
  <2>2. UNCHANGED <<closed, entries, entryVars>>
    BY DEF PoolAcquired
  <2> QED
    BY <2>1, <2>2 DEF TypeOK, entryVars
<1>2. \A e \in Entries : Using(e)' = Using(e)
  BY DEF Using, PoolAcquired, Goto, TypeOK
<1>3. TableInv'
  BY DEF ManagerInv, TableInv, PoolAcquired, entryVars
<1>4. HandsInv'
  BY DEF ManagerInv, HandsInv, PoolAcquired, Goto, entryVars, TypeOK
<1>5. StageInv'
  BY <1>2 DEF ManagerInv, StageInv, PoolAcquired, Goto, entryVars, TypeOK
<1>6. RefsExact' /\ ClosedOnce'
  BY <1>2 DEF ManagerInv, RefsExact, ClosedOnce, PoolAcquired, entryVars
<1> QED
  BY <1>1, <1>3, <1>4, <1>5, <1>6 DEF ManagerInv

\* A reference is given back; the last one closes the pool.
LEMMA ReleaseStep ==
    ASSUME TypeOK, ManagerInv, NEW c \in Consumers, consumer[c].pc \in {"reserved", "leased"},
           ReleaseReservation(c)
    PROVE  TypeOK' /\ ManagerInv'
<1> USE DEF At
<1>0. PICK e \in Entries : e = consumer[c].entry
  BY InHand
<1> USE <1>0
<1>a. consumer[c].key \in Keys /\ e <= created /\ e # 0
  BY InHand DEF Entries
<1>b. /\ consumer' = [consumer EXCEPT ![c] = Idle]
      /\ refs' = [refs EXCEPT ![e] = @ - 1]
      /\ closing' = [x \in Entries |-> IF LastReference(c) /\ x = e THEN closing[x] + 1 ELSE closing[x]]
  BY DEF ReleaseReservation, Return, StartClose
<1>c. Using(e)' = Using(e) \ {c} /\ c \in Using(e)
  BY <1>b, IdleType DEF Using, TypeOK
<1>d. \A x \in Entries : x # e => Using(x)' = Using(x)
  BY <1>b, IdleType DEF Using, TypeOK
<1>e. refs[e] - 1 = Cardinality(Using(e)') /\ IsFiniteSet(Using(e)')
  BY <1>a, <1>c, UsingFinite, OneLess, FS_RemoveElement DEF ManagerInv, RefsExact
<1>f. refs[e] - 1 \in 0..Cardinality(Consumers)
  <2>1. Using(e)' \in SUBSET Consumers
    BY <1>c DEF Using
  <2> QED
    BY <2>1, <1>e, FS_Subset, FS_CardinalityType, ManagerAssumption
<1>g. LastReference(c) => Using(e)' = {} /\ closing[e] = 0 /\ closes[e] = 0
  <2> SUFFICES ASSUME LastReference(c)
               PROVE  Using(e)' = {} /\ closing[e] = 0 /\ closes[e] = 0
    OBVIOUS
  <2>1. Using(e)' = {}
    BY <1>e, FS_EmptySet DEF LastReference
  <2>2. CASE Current(c)
    BY <2>1, <2>2, <1>a DEF Current, ManagerInv, StageInv
  <2>3. CASE retired[e]
    <3>1. ~revoked[e] /\ Using(e) # {}
      BY <2>3, <1>a, <1>c DEF ManagerInv, StageInv
    <3>2. ~(closing[e] + closes[e] > 0) /\ closing[e] \in Nat /\ closes[e] \in Nat
      BY <3>1, <1>a DEF ManagerInv, ClosedOnce, TypeOK
    <3> QED
      BY <2>1, <3>2
  <2> QED
    BY <2>2, <2>3 DEF LastReference
<1>h. \A k \in Keys : /\ entries'[k] = entries[k] \/ entries'[k] = 0
                      /\ LastReference(c) => entries'[k] # e
  <2>1. ~Current(c) => \A k \in Keys : entries[k] # e
    BY InHand
  <2>2. \A k \in Keys : entries[k] = e => k = consumer[c].key
    BY DEF ManagerInv, HandsInv
  <2> QED
    BY <2>1, <2>2, <1>a DEF ReleaseReservation, TypeOK, Current
<1>1. TypeOK'
  <2>1. refs' \in [Entries -> 0..Cardinality(Consumers)]
    BY <1>b, <1>f DEF TypeOK
  <2>2. closing' \in [Entries -> Nat] /\ entries' \in [Keys -> Entries \cup {0}]
    BY <1>b DEF TypeOK, ReleaseReservation
  <2>3. consumer' \in [Consumers -> [pc : Pcs, key : Keys, entry : Entries \cup {0}]]
    BY <1>b, IdleType DEF TypeOK
  <2> QED
    BY <2>1, <2>2, <2>3 DEF TypeOK, ReleaseReservation
<1>2. TableInv'
  <2>1. created' = created /\ closed' = closed /\ 0 <= created
    BY DEF ReleaseReservation, TypeOK
  <2> QED
    BY <2>1, <1>h DEF ManagerInv, TableInv
<1>3. HandsInv'
  <2>1. \A d \in Consumers : consumer'[d].pc # "idle" => consumer'[d] = consumer[d]
    BY <1>b, IdleType DEF TypeOK
  <2>2. \A d \in Consumers : consumer[d].pc # "idle" => consumer[d].entry # 0
    BY DEF ManagerInv, HandsInv, TypeOK
  <2> QED
    BY <2>1, <2>2, <1>h DEF ManagerInv, HandsInv, ReleaseReservation
<1>4. StageInv'
  <2>1. \A x \in Entries : x > created' =>
          /\ ~ready'[x] /\ ~pool'[x] /\ ~retired'[x] /\ ~revoked'[x]
          /\ closing'[x] = 0 /\ closes'[x] = 0
    BY <1>a, <1>b DEF ManagerInv, StageInv, ReleaseReservation, TypeOK, Entries
  <2>2. \A j \in Keys, x \in Entries : entries'[j] = x =>
          /\ closing'[x] = 0 /\ closes'[x] = 0
          /\ ~retired'[x] /\ ~revoked'[x]
          /\ ready'[x] => pool'[x]
    BY <1>b, <1>h DEF ManagerInv, StageInv, ReleaseReservation, Entries
  <2>3. \A d \in Consumers, x \in Entries : consumer'[d].pc = "factory" /\ consumer'[d].entry = x =>
          ~pool'[x] /\ closing'[x] = 0 /\ closes'[x] = 0
    <3>1. \A d \in Consumers : consumer'[d].pc = "factory" => consumer'[d] = consumer[d]
      BY <1>b, IdleType DEF TypeOK
    <3>2. pool[e]
      BY <1>a, <1>c DEF ManagerInv, StageInv
    <3> QED
      BY <3>1, <3>2, <1>b DEF ManagerInv, StageInv, ReleaseReservation
  <2>4. \A x \in Entries : Using(x)' # {} => pool'[x]
    BY <1>c, <1>d DEF ManagerInv, StageInv, ReleaseReservation
  <2>5. \A x \in Entries : retired'[x] => ~revoked'[x]
    BY DEF ManagerInv, StageInv, ReleaseReservation
  <2> QED
    BY <2>1, <2>2, <2>3, <2>4, <2>5 DEF StageInv
<1>5. RefsExact'
  BY <1>a, <1>b, <1>d, <1>e DEF ManagerInv, RefsExact, TypeOK
<1>6. ClosedOnce'
  <2>1. \A x \in Entries : closing'[x] + closes'[x] <= 1
    BY <1>b, <1>g DEF ManagerInv, ClosedOnce, ReleaseReservation, TypeOK
  <2>2. ASSUME NEW x \in Entries, Using(x)' # {}, closing'[x] + closes'[x] > 0
        PROVE  revoked'[x]
    BY <2>2, <1>b, <1>c, <1>d, <1>g DEF ManagerInv, ClosedOnce, ReleaseReservation
  <2> QED
    BY <2>1, <2>2 DEF ManagerInv, ClosedOnce, ReleaseReservation
<1> QED
  BY <1>1, <1>2, <1>3, <1>4, <1>5, <1>6 DEF ManagerInv

\* What leaves the table has not been closed, retired or revoked before, and no
\* waiter has been woken for an entry that is still without a pool.
LEMMA EvictFacts ==
    ASSUME TypeOK, ManagerInv, NEW keys \in SUBSET Keys, Evict(keys)
    PROVE  /\ entries' \in [Keys -> Entries \cup {0}]
           /\ \A k \in Keys : \/ entries'[k] = 0
                              \/ entries'[k] = entries[k] /\ entries[k] \notin Evicted(keys)
           /\ \A e \in Evicted(keys) :
                closing[e] = 0 /\ closes[e] = 0 /\ ~retired[e] /\ ~revoked[e] /\ e <= created
           /\ ready' \in [Entries -> BOOLEAN] /\ err' \in [Entries -> BOOLEAN]
           /\ \A e \in Entries : ready'[e] => ready[e] \/ e \in Evicted(keys)
           /\ panicked' \in BOOLEAN /\ ~panicked'
<1>1. entries' = [k \in Keys |-> IF k \in keys THEN 0 ELSE entries[k]]
  BY DEF Evict
<1>2. entries' \in [Keys -> Entries \cup {0}]
  BY <1>1 DEF TypeOK
<1>3. \A k \in Keys : \/ entries'[k] = 0
                      \/ entries'[k] = entries[k] /\ entries[k] \notin Evicted(keys)
  <2> SUFFICES ASSUME NEW k \in Keys, k \notin keys, entries[k] # 0, entries[k] \in Evicted(keys)
               PROVE  FALSE
    BY <1>1
  <2>1. PICK j \in keys : entries[j] = entries[k]
    BY DEF Evicted
  <2> QED
    BY <2>1 DEF ManagerInv, TableInv
<1>4. \A e \in Evicted(keys) :
        /\ closing[e] = 0 /\ closes[e] = 0 /\ ~retired[e] /\ ~revoked[e] /\ e <= created
        /\ ~pool[e] => ~ready[e]
  BY DEF Evicted, ManagerInv, StageInv, TableInv
<1>5. /\ ready' = [e \in Entries |-> ready[e] \/ (e \in Evicted(keys) /\ ~pool[e])]
      /\ err' \in [Entries -> BOOLEAN]
  BY DEF Evict, CloseReady, TypeOK
<1>6. ready' \in [Entries -> BOOLEAN]
  BY <1>5
<1>7. \A e \in Entries : ready'[e] => ready[e] \/ e \in Evicted(keys)
  BY <1>5
<1>8. panicked' \in BOOLEAN /\ ~panicked'
  BY <1>4, Zenon DEF Evict, CloseReady, ManagerInv, ClosedOnce
<1> QED
  BY <1>2, <1>3, <1>4, <1>5, <1>6, <1>7, <1>8

\* RetirePrefix and the invalidations take entries out of the table.
LEMMA EvictTable ==
    ASSUME TypeOK, ManagerInv, NEW keys \in SUBSET Keys, Evict(keys),
           created' = created, consumer' = consumer, closed' => closed \/ keys = Keys
    PROVE  TableInv' /\ HandsInv'
<1>1. \A k \in Keys : entries'[k] = 0 \/ entries'[k] = entries[k]
  BY EvictFacts
<1>2. closed' => \A k \in Keys : entries'[k] = 0
  BY <1>1 DEF Evict, ManagerInv, TableInv
<1>3. 0 <= created
  BY DEF TypeOK
<1>4. TableInv'
  BY <1>1, <1>2, <1>3 DEF ManagerInv, TableInv
<1>5. \A c \in Consumers : consumer[c].pc # "idle" => consumer[c].entry # 0
  BY DEF ManagerInv, HandsInv, TypeOK
<1>6. HandsInv'
  BY <1>1, <1>5 DEF ManagerInv, HandsInv, At
<1> QED
  BY <1>4, <1>6

\* An eviction marks what it evicted as retired or as revoked, and closes pools
\* that were made, all of them, or the unused ones.
LEMMA EvictStage ==
    ASSUME TypeOK, ManagerInv, NEW keys \in SUBSET Keys, Evict(keys),
           NEW es \in SUBSET {e \in Evicted(keys) : pool[e]}, StartClose(es),
           \/ /\ retired' = [e \in Entries |-> retired[e] \/ e \in Evicted(keys)]
              /\ revoked' = revoked
              /\ \A e \in es : refs[e] = 0
           \/ /\ revoked' = [e \in Entries |-> revoked[e] \/ e \in Evicted(keys)]
              /\ retired' = retired,
           created' = created, consumer' = consumer, pool' = pool, closes' = closes,
           refs' = refs
    PROVE  /\ StageInv' /\ RefsExact' /\ ClosedOnce'
           /\ closing' \in [Entries -> Nat]
           /\ retired' \in [Entries -> BOOLEAN] /\ revoked' \in [Entries -> BOOLEAN]
<1>a. /\ \A k \in Keys : \/ entries'[k] = 0
                         \/ entries'[k] = entries[k] /\ entries[k] \notin Evicted(keys)
      /\ \A e \in Evicted(keys) :
           closing[e] = 0 /\ closes[e] = 0 /\ ~retired[e] /\ ~revoked[e] /\ e <= created
      /\ \A e \in Entries : ready'[e] => ready[e] \/ e \in Evicted(keys)
      /\ ~panicked'
  BY EvictFacts
<1>b. \A e \in Entries : closing'[e] = IF e \in es THEN 1 ELSE closing[e]
  BY <1>a DEF StartClose, TypeOK
<1>c. /\ \A e \in Entries : retired'[e] => retired[e] \/ e \in Evicted(keys)
      /\ \A e \in Entries : revoked'[e] => revoked[e] \/ e \in Evicted(keys)
      /\ \A e \in Entries : revoked[e] => revoked'[e]
      /\ \A e \in Entries : retired'[e] => ~revoked'[e]
  <2>1. \A e \in Entries : retired[e] => ~revoked[e]
    BY DEF ManagerInv, StageInv
  <2>2. CASE /\ retired' = [e \in Entries |-> retired[e] \/ e \in Evicted(keys)]
             /\ revoked' = revoked
    BY <2>1, <2>2, <1>a
  <2>3. CASE /\ revoked' = [e \in Entries |-> revoked[e] \/ e \in Evicted(keys)]
             /\ retired' = retired
    BY <2>1, <2>3, <1>a
  <2> QED
    BY <2>2, <2>3
<1>d. \A e \in Entries : Using(e)' = Using(e)
  BY DEF Using
<1>e. created \in Nat /\ es \subseteq Evicted(keys) /\ \A e \in es : pool[e]
  BY DEF TypeOK
<1>1. StageInv'
  <2>1. \A e \in Entries : e > created' =>
          /\ ~ready'[e] /\ ~pool'[e] /\ ~retired'[e] /\ ~revoked'[e]
          /\ closing'[e] = 0 /\ closes'[e] = 0
    BY <1>a, <1>b, <1>c, <1>e DEF ManagerInv, StageInv, Entries
  <2>2. \A k \in Keys, e \in Entries : entries'[k] = e =>
          /\ closing'[e] = 0 /\ closes'[e] = 0
          /\ ~retired'[e] /\ ~revoked'[e]
          /\ ready'[e] => pool'[e]
    <3>1. 0 \notin Entries
      BY DEF Entries
    <3> QED
      BY <3>1, <1>a, <1>b, <1>c, <1>e DEF ManagerInv, StageInv
  <2>3. \A c \in Consumers, e \in Entries : At(c, "factory")' /\ consumer'[c].entry = e =>
          ~pool'[e] /\ closing'[e] = 0 /\ closes'[e] = 0
    BY <1>b, <1>e DEF ManagerInv, StageInv, At
  <2>4. \A e \in Entries : Using(e)' # {} => pool'[e]
    BY <1>d DEF ManagerInv, StageInv
  <2> QED
    BY <2>1, <2>2, <2>3, <2>4, <1>c DEF StageInv
<1>2. RefsExact'
  BY <1>d DEF ManagerInv, RefsExact
<1>3. ClosedOnce'
  <2>1. \A e \in Entries : closing'[e] + closes'[e] <= 1
    BY <1>a, <1>b, <1>e DEF ManagerInv, ClosedOnce
  <2>2. ASSUME NEW e \in Entries, Using(e)' # {}, closing'[e] + closes'[e] > 0
        PROVE  revoked'[e]
    <3>1. CASE e \notin es
      BY <2>2, <3>1, <1>b, <1>c, <1>d DEF ManagerInv, ClosedOnce
    <3>2. CASE e \in es /\ revoked' = [x \in Entries |-> revoked[x] \/ x \in Evicted(keys)]
      BY <3>2, <1>e
    <3>3. CASE e \in es /\ refs[e] = 0
      BY <2>2, <3>3, <1>d, UsingFinite, FS_EmptySet DEF ManagerInv, RefsExact
    <3> QED
      BY <3>1, <3>2, <3>3
  <2> QED
    BY <2>1, <2>2, <1>a DEF ClosedOnce
<1>4. closing' \in [Entries -> Nat]
  BY DEF StartClose, TypeOK
<1>5. retired' \in [Entries -> BOOLEAN] /\ revoked' \in [Entries -> BOOLEAN]
  BY DEF TypeOK
<1> QED
  BY <1>1, <1>2, <1>3, <1>4, <1>5

\* RetirePrefix.
LEMMA RetireStep ==
    ASSUME TypeOK, ManagerInv, NEW keys \in SUBSET Keys, Retire(keys)
    PROVE  TypeOK' /\ ManagerInv'
<1>1. TableInv' /\ HandsInv'
  BY EvictTable, Zenon DEF Retire
<1>2. /\ StageInv' /\ RefsExact' /\ ClosedOnce'
      /\ closing' \in [Entries -> Nat]
      /\ retired' \in [Entries -> BOOLEAN] /\ revoked' \in [Entries -> BOOLEAN]
  <2> DEFINE es == {e \in Evicted(keys) : pool[e] /\ refs[e] = 0}
  <2>1. es \in SUBSET {e \in Evicted(keys) : pool[e]} /\ \A e \in es : refs[e] = 0
    OBVIOUS
  <2>2. StartClose(es)
    BY DEF Retire
  <2> HIDE DEF es
  <2> QED
    BY <2>1, <2>2, EvictStage, Zenon DEF Retire
<1>3. TypeOK'
  <2>1. /\ entries' \in [Keys -> Entries \cup {0}]
        /\ ready' \in [Entries -> BOOLEAN] /\ err' \in [Entries -> BOOLEAN]
        /\ panicked' \in BOOLEAN
    BY EvictFacts DEF Retire
  <2> QED
    BY <1>2, <2>1 DEF TypeOK, Retire
<1> QED
  BY <1>1, <1>2, <1>3 DEF ManagerInv

\* Invalidate, InvalidatePrefix, InvalidateAll and Close.
LEMMA RevokeStep ==
    ASSUME TypeOK, ManagerInv, NEW keys \in SUBSET Keys, Revoke(keys),
           closed' \in BOOLEAN, closed' => closed \/ keys = Keys
    PROVE  TypeOK' /\ ManagerInv'
<1>1. TableInv' /\ HandsInv'
  BY EvictTable, Zenon DEF Revoke
<1>2. /\ StageInv' /\ RefsExact' /\ ClosedOnce'
      /\ closing' \in [Entries -> Nat]
      /\ retired' \in [Entries -> BOOLEAN] /\ revoked' \in [Entries -> BOOLEAN]
  <2> DEFINE es == {e \in Evicted(keys) : pool[e]}
  <2>1. es \in SUBSET {e \in Evicted(keys) : pool[e]}
    OBVIOUS
  <2>2. StartClose(es)
    BY DEF Revoke
  <2> HIDE DEF es
  <2> QED
    BY <2>1, <2>2, EvictStage, Zenon DEF Revoke
<1>3. TypeOK'
  <2>1. /\ entries' \in [Keys -> Entries \cup {0}]
        /\ ready' \in [Entries -> BOOLEAN] /\ err' \in [Entries -> BOOLEAN]
        /\ panicked' \in BOOLEAN
    BY EvictFacts DEF Revoke
  <2> QED
    BY <1>2, <2>1 DEF TypeOK, Revoke
<1> QED
  BY <1>1, <1>2, <1>3 DEF ManagerInv

\* closeOwned returns.
LEMMA CloseOwnedStep ==
    ASSUME TypeOK, ManagerInv, NEW e \in Entries, CloseOwned(e)
    PROVE  TypeOK' /\ ManagerInv'
<1>1. /\ closing' \in [Entries -> Nat] /\ closes' \in [Entries -> Nat]
      /\ \A x \in Entries : closing'[x] + closes'[x] = closing[x] + closes[x]
      /\ \A x \in Entries : x # e => closing'[x] = closing[x] /\ closes'[x] = closes[x]
  <2>1. closing[e] \in Nat /\ closes[e] \in Nat /\ closing[e] > 0
    BY DEF CloseOwned, TypeOK
  <2>2. \A x \in Entries :
          /\ closing'[x] = IF x = e THEN closing[e] - 1 ELSE closing[x]
          /\ closes'[x] = IF x = e THEN closes[e] + 1 ELSE closes[x]
    BY DEF CloseOwned, TypeOK
  <2>3. closing' \in [Entries -> Nat] /\ closes' \in [Entries -> Nat]
    BY <2>1 DEF CloseOwned, TypeOK
  <2> QED
    BY <2>1, <2>2, <2>3
<1>2. closing[e] # 0
  BY DEF CloseOwned
<1>3. TypeOK'
  BY <1>1 DEF TypeOK, CloseOwned
<1>4. TableInv' /\ HandsInv'
  BY DEF ManagerInv, TableInv, HandsInv, At, CloseOwned
<1>5. \A x \in Entries : Using(x)' = Using(x)
  BY DEF Using, CloseOwned
<1>6. StageInv'
  BY <1>1, <1>2, <1>5 DEF ManagerInv, StageInv, At, CloseOwned
<1>7. RefsExact' /\ ClosedOnce'
  BY <1>1, <1>5 DEF ManagerInv, RefsExact, ClosedOnce, CloseOwned
<1> QED
  BY <1>3, <1>4, <1>6, <1>7 DEF ManagerInv

-----------------------------------------------------------------------------
(* The theorems. *)

\* Every step of a consumer, an owner or a closing goroutine keeps ManagerInv.
LEMMA ManagerStep == TypeOK /\ ManagerInv /\ [Next]_vars => TypeOK' /\ ManagerInv'
<1> SUFFICES ASSUME TypeOK, ManagerInv, [Next]_vars PROVE TypeOK' /\ ManagerInv'
  OBVIOUS
<1>1. ASSUME NEW c \in Consumers, NEW k \in Keys, Join(c, k) \/ Create(c, k)
      PROVE  TypeOK' /\ ManagerInv'
  BY <1>1, JoinStep, CreateStep
<1>2. ASSUME NEW c \in Consumers, Factory(c)
      PROVE  TypeOK' /\ ManagerInv'
  BY <1>2, FactoryLateStep, FactoryDoneStep, FactoryFailedStep DEF Factory
<1>3. ASSUME NEW c \in Consumers, Cancel(c) \/ Reserve(c) \/ PoolAcquired(c)
      PROVE  TypeOK' /\ ManagerInv'
  BY <1>3, CancelStep, ReserveStep, PoolAcquiredStep
<1>4. ASSUME NEW c \in Consumers, PoolRefused(c) \/ Release(c)
      PROVE  TypeOK' /\ ManagerInv'
  BY <1>4, ReleaseStep DEF PoolRefused, Release, At
<1>5. ASSUME NEW keys \in Scopes, Retire(keys) \/ Invalidate(keys)
      PROVE  TypeOK' /\ ManagerInv'
  <2>1. keys \in SUBSET Keys /\ closed \in BOOLEAN
    BY ManagerAssumption DEF TypeOK
  <2> QED
    BY <1>5, <2>1, RetireStep, RevokeStep DEF Invalidate
<1>6. CASE Close
  BY <1>6, RevokeStep DEF Close
<1>7. ASSUME NEW e \in Entries, CloseOwned(e)
      PROVE  TypeOK' /\ ManagerInv'
  BY <1>7, CloseOwnedStep
<1>8. CASE UNCHANGED vars
  <2>1. TypeOK'
    BY <1>8 DEF vars, entryVars, TypeOK
  <2>2. \A e \in Entries : Using(e)' = Using(e)
    BY <1>8 DEF vars, Using
  <2>3. ManagerInv'
    BY <1>8, <2>2 DEF vars, entryVars, ManagerInv, TableInv, HandsInv, StageInv, RefsExact, ClosedOnce, At
  <2> QED
    BY <2>1, <2>3
<1> QED
  BY <1>1, <1>2, <1>3, <1>4, <1>5, <1>6, <1>7, <1>8 DEF Next

\* The state of the manager stays well formed, whatever its consumers and its
\* owner do: in particular no reference count is negative or exceeds the number
\* of consumers.
THEOREM ManagerTypeCorrect == Spec => []TypeOK
BY ManagerInit, ManagerStep, PTL DEF Spec

\* The inductive invariant holds in every reachable state.
THEOREM ManagerInvariance == Spec => [](TypeOK /\ ManagerInv)
BY ManagerInit, ManagerStep, PTL DEF Spec

\* entry.refs counts exactly the consumers between Reserve and their release,
\* for every number of consumers, keys and entries.
THEOREM ReferencesExact == Spec => []RefsExact
<1>1. ManagerInv => RefsExact
  BY DEF ManagerInv
<1> QED
  BY <1>1, ManagerInvariance, PTL

\* Whichever of the last release, a retirement, an invalidation, Close and a late
\* factory comes first closes the pool, and no other closes it again; a lease
\* outlives its pool only if the entry was revoked; entry.ready is closed once.
THEOREM PoolClosedOnce == Spec => []ClosedOnce
<1>1. ManagerInv => ClosedOnce
  BY DEF ManagerInv
<1> QED
  BY <1>1, ManagerInvariance, PTL
=============================================================================
