----------------------- MODULE TerminalSessionProofs -----------------------
(***************************************************************************)
(* The safety properties of TerminalSession for every bound: a running     *)
(* process is never orphaned (NoOrphan), the durable row follows the       *)
(* session (RowFollows) and the decisions on inputs are truthful           *)
(* (InputsAreTruthful).  None of them is inductive; SessionInv adds what   *)
(* the step an operation is at says about the session, the row and the     *)
(* journal of inputs.                                                      *)
(***************************************************************************)
EXTENDS TerminalSession, NaturalOrder, FiniteSetTheorems, TLAPS

Pcs == {"idle", "createLaunch", "ptyWrite", "settleInput", "closePersist", "terminate",
        "restartLaunch", "restartPersist"}
Ops == [pc : Pcs, key : [gen : Generations, seq : 0..MaxInputs]]

\* The lock is free exactly when no operation is at a step, and an operation on
\* an input carries a key of the protocol.
OpInv ==
    /\ op \in Ops
    /\ op.pc = "idle" => op = Idle
    /\ op.pc \in {"ptyWrite", "settleInput"} => op.key \in Keys /\ op.key.gen = gen

\* A session holds a process exactly when it runs or is closing, it is the last
\* one launched, and stream input is open to it exactly while it runs.
LifeInv ==
    /\ proc \in {0, launches}
    /\ alive \ immune \subseteq {proc}
    /\ state # "creating"
    /\ (state \in {"running", "closing"}) <=> (proc # 0)
    /\ live = IF state = "running" THEN [proc |-> proc, gen |-> gen] ELSE NoLive
    /\ gen <= launches /\ row.gen <= launches
    /\ \A p \in Processes : capture[p] # "none" => p <= launches

\* What the step of the operation says about the session and its row.
StepInv ==
    /\ op.pc = "createLaunch" =>
         state = "none" /\ row = [state |-> "creating", gen |-> 0] /\ launches < MaxLaunches
    /\ op.pc \in {"ptyWrite", "settleInput"} =>
         state = "running" /\ row = [state |-> "running", gen |-> gen]
    /\ op.pc = "closePersist" => state = "closing" /\ row = [state |-> "running", gen |-> gen]
    /\ op.pc = "terminate" =>
         state = "closing" /\ (faults = 0 => row = [state |-> "closing", gen |-> gen])
    /\ op.pc = "restartLaunch" => state = "restarting" /\ row = [state |-> "restarting", gen |-> gen]
    /\ op.pc = "restartPersist" =>
         state = "running" /\ row.state = "restarting" /\ row.gen + 1 = gen
    /\ state = "restarting" => op.pc = "restartLaunch"

\* What the row says while nobody holds the lock.
RowInv ==
    /\ (op = Idle /\ state \notin {"none", "deleted", "refused"}) =>
        /\ state = "running" => row = [state |-> "running", gen |-> gen]
        /\ faults = 0 => row = [state |-> state, gen |-> gen]
    /\ state = "deleted" => row = NoRow
    /\ row.state = "none" => state \in {"none", "deleted"}

\* The output of the first process while no statement has failed: as long as the
\* session runs its persistence goroutine is there until the output has ended, and
\* then everything is stored.
OutputInv ==
    /\ faults = 0 => broken = {}
    /\ op.pc = "restartPersist" => capture[proc] = "none"
    /\ (faults = 0 /\ launches = 1 /\ state = "running") =>
         IF capture[1] \in {"none", "reading"} THEN writer = 1 ELSE durable = latest
    /\ (faults = 0 /\ launches = 1 /\ state = "exited") =>
         capture[1] # "reading" /\ durable = latest

\* What reached a terminal did so once, and nothing did behind a partial write.
ReachedInv ==
    /\ \A k \in DOMAIN reached :
         reached[k] \in [proc : Processes \cup {0}, amount : {"all", "some", "none"}, times : {1}]
    /\ \A x, k \in DOMAIN reached :
         (x.gen = k.gen /\ x.seq < k.seq) => reached[x].amount # "some"

\* The input that is decided and not yet written.
Pending == {k \in Keys : op.pc = "ptyWrite" /\ k = op.key}

\* The journal in memory, the durable decisions and what reached a terminal.
DecisionInv ==
    /\ IsFiniteSet(DOMAIN inputs)
    /\ state = "deleted" => DOMAIN stored = {}
    /\ state # "deleted" =>
      /\ state = "none" => DOMAIN stored = {}
      /\ DOMAIN stored = DOMAIN inputs \cup Pending
      /\ DOMAIN reached \subseteq DOMAIN inputs
      /\ \A k \in DOMAIN stored : k.gen <= gen /\ k.gen <= row.gen
      /\ \A k \in DOMAIN reached :
           /\ stored[k] \in {"uncertain", Verdict(reached[k].amount)}
           /\ inputs[k] \in {"uncertain", Verdict(reached[k].amount)}
           /\ (proc # 0 /\ k.gen = gen) => reached[k].proc = proc
      /\ \A x \in DOMAIN reached, k \in DOMAIN stored :
           (x.gen = k.gen /\ x.seq < k.seq) => reached[x].amount # "some"
      /\ op.pc = "ptyWrite" =>
           /\ op.key \notin DOMAIN inputs
           /\ stored[op.key] = "uncertain"
           /\ \A k \in DOMAIN inputs : k.gen = gen => k.seq < op.key.seq
           /\ Cardinality(DOMAIN inputs) < MaxDecisions
      /\ op.pc = "settleInput" =>
           /\ op.key \in DOMAIN reached
           /\ inputs[op.key] = Verdict(reached[op.key].amount)

\* The parts of TypeOK.
LifeTypes ==
    /\ state \in States /\ gen \in Generations /\ proc \in Processes \cup {0}
    /\ live \in [proc : Processes \cup {0}, gen : Generations]
    /\ alive \subseteq Processes /\ open \subseteq Processes /\ immune \subseteq alive
    /\ launches \in 0..MaxLaunches /\ left \in BOOLEAN
    /\ finishers \subseteq Processes
InputTypes ==
    /\ DOMAIN inputs \subseteq Keys /\ \A k \in DOMAIN inputs : inputs[k] \in Statuses
    /\ Cardinality(DOMAIN inputs) <= MaxDecisions
    /\ DOMAIN stored \subseteq Keys /\ \A k \in DOMAIN stored : stored[k] \in Statuses
    /\ DOMAIN reached \subseteq Keys
OutputTypes ==
    /\ capture \in [Processes -> {"none", "reading", "waiting", "done"}]
    /\ writer \in Processes \cup {0} /\ dirty \subseteq Processes /\ broken \subseteq Processes
    /\ latest \in 0..MaxOutput /\ durable \in 0..MaxOutput
RowTypes ==
    /\ row \in [state : States \ {"deleted", "refused"}, gen : Generations]
    /\ crashes \in 0..MaxCrashes /\ faults \in 0..MaxFaults

SessionInv == OpInv /\ LifeInv /\ StepInv /\ RowInv /\ OutputInv /\ ReachedInv /\ DecisionInv

-----------------------------------------------------------------------------
(* The steps of the operations. *)

\* The steps an operation can be at.
LEMMA StepNames ==
    /\ Idle \in Ops /\ Idle.pc = "idle"
    /\ \A c \in Pcs : At(c) \in Ops /\ At(c).pc = c
PROOF
  <1>1. Idle \in Ops /\ Idle.pc = "idle"
    BY SessionAssumption DEF Ops, Idle, Generations, Pcs
  <1>2. ASSUME NEW c \in Pcs
        PROVE  At(c) \in Ops /\ At(c).pc = c
    BY <1>1 DEF At, Ops
  <1> QED BY <1>1, <1>2

\* Numbers of processes and generations.
LEMMA Bounds ==
    /\ 0 \in Generations /\ 1 \in Generations
    /\ MaxLaunches \in Nat /\ Generations \subseteq Nat /\ Processes \subseteq Nat
    /\ \A p \in Processes : p # 0 /\ p \in Generations
PROOF
  BY SessionAssumption DEF Generations, Processes

\* A statement that fails is counted within the bound.
LEMMA FaultCounted ==
    ASSUME TypeOK, faults < MaxFaults, faults' = faults + 1
    PROVE  faults' \in 0..MaxFaults /\ faults' # 0
PROOF
  <1>1. MaxFaults \in Nat
    BY SessionAssumption
  <1>2. faults \in 0..MaxFaults
    BY DEF TypeOK
  <1> QED BY <1>1, <1>2

\* A process that is launched is within the bound.
LEMMA LaunchCounted ==
    ASSUME TypeOK, launches < MaxLaunches
    PROVE  launches \in Nat /\ launches + 1 \in Processes
PROOF
  <1>1. MaxLaunches \in Nat /\ launches \in 0..MaxLaunches
    BY SessionAssumption DEF TypeOK
  <1> QED BY <1>1 DEF Processes

\* One more decision fits into a journal that is not full.
LEMMA OneMore ==
    ASSUME NEW S, NEW x, IsFiniteSet(S), x \notin S, Cardinality(S) < MaxDecisions
    PROVE  IsFiniteSet(S \cup {x}) /\ Cardinality(S \cup {x}) <= MaxDecisions
PROOF
  <1>1. Cardinality(S) \in Nat
    BY FS_CardinalityType
  <1>2. IsFiniteSet(S \cup {x}) /\ Cardinality(S \cup {x}) = Cardinality(S) + 1
    BY FS_AddElement
  <1> QED BY <1>1, <1>2, SessionAssumption

\* Last(g) is the greatest sequence number of the generation.
LEMMA LastFacts ==
    ASSUME TypeOK, NEW g, Sequences(g) # {}
    PROVE  /\ Last(g) \in Sequences(g) /\ Last(g) \in Nat
           /\ \A n \in Sequences(g) : n \in Nat /\ n <= Last(g)
PROOF
  <1>1. Sequences(g) \in SUBSET (0..MaxInputs)
    BY SessionAssumption DEF TypeOK, Sequences, Keys
  <1>2. \E n \in Sequences(g) : \A other \in Sequences(g) : other <= n
    BY <1>1, GreatestNatural, SessionAssumption
  <1>3. Last(g) \in Sequences(g) /\ \A n \in Sequences(g) : n <= Last(g)
    BY <1>2 DEF Last
  <1> QED BY <1>1, <1>3, SessionAssumption

\* What recover reads back fits into the journal.
LEMMA StoredFinite ==
    ASSUME TypeOK, OpInv, DecisionInv
    PROVE  IsFiniteSet(DOMAIN stored) /\ Cardinality(DOMAIN stored) <= MaxDecisions
PROOF
  <1>1. CASE state = "deleted"
    BY <1>1, FS_EmptySet, SessionAssumption DEF DecisionInv
  <1>2. CASE state # "deleted" /\ op.pc # "ptyWrite"
    BY <1>2 DEF DecisionInv, Pending, TypeOK
  <1>3. CASE state # "deleted" /\ op.pc = "ptyWrite"
    <2>1. DOMAIN stored = DOMAIN inputs \cup {op.key}
      BY <1>3 DEF DecisionInv, Pending, OpInv
    <2>2. op.key \notin DOMAIN inputs /\ Cardinality(DOMAIN inputs) < MaxDecisions
      BY <1>3 DEF DecisionInv
    <2> QED BY <2>1, <2>2, OneMore DEF DecisionInv
  <1> QED BY <1>1, <1>2, <1>3

\* Create inserts the row.
LEMMA CreateRowKeeps ==
    ASSUME TypeOK, SessionInv, CreateRow
    PROVE  TypeOK' /\ SessionInv'
PROOF
  <1> USE SessionAssumption DEF SessionInv
  <1>1. TypeOK'
    <2>1. LifeTypes'
      BY DEF TypeOK, LifeInv, StepInv, LifeTypes, States, Processes, Generations, NoLive,
             NoRow, CreateRow, lifeVars, ioVars, rowVars, osVars, ptyVars
    <2>2. InputTypes'
      BY DEF TypeOK, InputTypes, OpInv, Keys, Statuses, CreateRow, lifeVars, ioVars, rowVars,
             osVars, ptyVars
    <2>3. OutputTypes'
      BY DEF TypeOK, OutputTypes, LifeInv, StepInv, Processes, CreateRow, lifeVars, ioVars,
             rowVars, osVars, ptyVars
    <2>4. RowTypes'
      BY DEF TypeOK, RowTypes, States, Generations, NoRow, CreateRow, lifeVars, ioVars,
             rowVars, osVars, ptyVars
    <2>5. op'.pc \in Pcs
      BY DEF TypeOK, OpInv, Ops, Pcs, CreateRow, Idle, At, lifeVars, ioVars, rowVars,
             osVars, ptyVars
    <2> QED BY <2>1, <2>2, <2>3, <2>4, <2>5
         DEF TypeOK, LifeTypes, InputTypes, OutputTypes, RowTypes, Pcs
  <1>2. OpInv'
    BY DEF TypeOK, OpInv, CreateRow, Pcs, Keys, Idle, At, NoRow, NoLive, Processes,
           Generations, lifeVars, ioVars, rowVars, osVars, ptyVars, Ops
  <1>3. LifeInv'
    BY DEF TypeOK, OpInv, LifeInv, StepInv, CreateRow, Idle, At, NoRow, NoLive, Processes,
           Generations, lifeVars, ioVars, rowVars, osVars, ptyVars
  <1>4. StepInv'
    BY DEF TypeOK, OpInv, LifeInv, StepInv, RowInv, CreateRow, Pcs, Idle, At, NoRow, NoLive,
           Processes, Generations, lifeVars, ioVars, rowVars, osVars, ptyVars
  <1>5. RowInv'
    BY DEF TypeOK, OpInv, LifeInv, StepInv, RowInv, OutputInv, CreateRow, Pcs, Idle, At, NoRow,
           NoLive, Processes, Generations, lifeVars, ioVars, rowVars, osVars, ptyVars
  <1>6. OutputInv'
    BY DEF TypeOK, OpInv, LifeInv, StepInv, OutputInv, CreateRow, Idle, At, NoRow, NoLive,
           Processes, Generations, lifeVars, ioVars, rowVars, osVars, ptyVars
  <1>7. ReachedInv'
    BY DEF ReachedInv, CreateRow, Idle, At, NoRow, NoLive, Processes, Generations, lifeVars,
           ioVars, rowVars, osVars, ptyVars
  <1>8. DecisionInv'
    BY DEF TypeOK, OpInv, LifeInv, StepInv, RowInv, DecisionInv, CreateRow, Pending, Keys,
           Idle, At, NoRow, NoLive, Processes, Generations, lifeVars, ioVars, rowVars,
           osVars, ptyVars
  <1> QED BY <1>1, <1>2, <1>3, <1>4, <1>5, <1>6, <1>7, <1>8

\* Create launches the process, or fails in one of its three ways.
LEMMA CreateLaunchKeeps ==
    ASSUME TypeOK, SessionInv, CreateLaunch
    PROVE  TypeOK' /\ SessionInv'
PROOF
  <1> USE SessionAssumption DEF SessionInv
  <1>1. TypeOK'
    <2>1. LifeTypes'
      <3>1. launches + 1 \in Processes /\ launches + 1 \in 0..MaxLaunches /\ 1 \in Generations
        BY LaunchCounted, Bounds DEF CreateLaunch, StepInv, Processes
      <3>2. launches \in 0..MaxLaunches /\ alive \subseteq Processes
        BY DEF TypeOK
      <3> HIDE DEF SessionInv
      <3> QED BY <3>1, <3>2 DEF TypeOK, LifeTypes, States, CreateLaunch, Launch, lifeVars,
             osVars, ptyVars
    <2>2. InputTypes'
      <3>1. DOMAIN Empty = {} /\ Cardinality(DOMAIN Empty) <= MaxDecisions
        BY FS_EmptySet DEF Empty
      <3>2. inputs' = inputs \/ inputs' = Empty
        BY DEF CreateLaunch, lifeVars
      <3>3. UNCHANGED <<stored, reached>>
        BY DEF CreateLaunch, Launch, osVars, ptyVars
      <3> QED BY <3>1, <3>2, <3>3 DEF TypeOK, InputTypes
    <2>3. OutputTypes'
      BY DEF TypeOK, OutputTypes, LifeInv, StepInv, Processes, CreateLaunch, Launch,
             StartWriter, lifeVars, ioVars, rowVars, osVars, ptyVars
    <2>4. RowTypes'
      BY DEF TypeOK, RowTypes, States, Generations, NoRow, CreateLaunch, Launch, StartWriter,
             lifeVars, ioVars, rowVars, osVars, ptyVars
    <2>5. op'.pc \in Pcs
      BY DEF TypeOK, OpInv, Ops, Pcs, CreateLaunch, Launch, StartWriter, Idle, At, lifeVars,
             ioVars, rowVars, osVars, ptyVars
    <2> QED BY <2>1, <2>2, <2>3, <2>4, <2>5
         DEF TypeOK, LifeTypes, InputTypes, OutputTypes, RowTypes, Pcs
  <1>2. OpInv'
    BY DEF TypeOK, OpInv, CreateLaunch, Launch, StartWriter, Pcs, Keys, Idle, At, NoRow,
           NoLive, Processes, Generations, lifeVars, ioVars, rowVars, osVars, ptyVars, Ops
  <1>3. LifeInv'
    <2>1. /\ proc = 0 /\ alive \ immune = {} /\ live = NoLive
          /\ launches \in Nat /\ launches + 1 \in Processes
      BY LaunchCounted, Bounds DEF TypeOK, CreateLaunch, StepInv, LifeInv
    <2>2. gen' <= launches' /\ row'.gen <= launches'
      BY <2>1, Bounds DEF TypeOK, LifeInv, StepInv, CreateLaunch, Launch, lifeVars, osVars,
                          ptyVars, NoRow
    <2>3. ASSUME NEW p \in Processes
          PROVE  capture'[p] # "none" => p <= launches'
      BY <2>1, Bounds DEF TypeOK, LifeInv, CreateLaunch, Launch, osVars, ptyVars
    <2>4. launches + 1 # 0
      BY <2>1
    <2>5. alive' \ immune' \subseteq {proc'}
      BY <2>1 DEF CreateLaunch, Launch, lifeVars, osVars, ptyVars
    <2> QED BY <2>1, <2>2, <2>3, <2>4, <2>5
         DEF LifeInv, StepInv, CreateLaunch, Launch, lifeVars, osVars, ptyVars
  <1>4. StepInv'
    BY DEF TypeOK, OpInv, LifeInv, StepInv, RowInv, CreateLaunch, Launch, StartWriter, Pcs,
           Idle, At, NoRow, NoLive, Processes, Generations, lifeVars, ioVars, rowVars,
           osVars, ptyVars
  <1>5. RowInv'
    BY DEF TypeOK, OpInv, LifeInv, StepInv, RowInv, OutputInv, CreateLaunch, Launch,
           StartWriter, Pcs, Idle, At, NoRow, NoLive, Processes, Generations, lifeVars, ioVars,
           rowVars, osVars, ptyVars
  <1>6. OutputInv'
    BY DEF TypeOK, OpInv, LifeInv, StepInv, OutputInv, CreateLaunch, Launch, StartWriter, Idle,
           At, NoRow, NoLive, Processes, Generations, lifeVars, ioVars, rowVars, osVars, ptyVars
  <1>7. ReachedInv'
    BY DEF ReachedInv, CreateLaunch, Launch, StartWriter, Idle, At, NoRow, NoLive, Processes,
           Generations, lifeVars, ioVars, rowVars, osVars, ptyVars
  <1>8. DecisionInv'
    <2>1. state = "none" /\ DOMAIN stored = {} /\ DOMAIN reached = {} /\ DOMAIN inputs = {}
      BY DEF CreateLaunch, StepInv, DecisionInv
    <2>2. DOMAIN inputs' = {} /\ op'.pc = "idle" /\ UNCHANGED <<stored, reached>> /\ state' # "deleted"
      BY <2>1, StepNames DEF CreateLaunch, Launch, Empty, lifeVars, osVars, ptyVars
    <2> QED BY <2>1, <2>2, FS_EmptySet DEF DecisionInv, Pending
  <1> QED BY <1>1, <1>2, <1>3, <1>4, <1>5, <1>6, <1>7, <1>8

\* Write reaches the terminal.
LEMMA PtyWriteKeeps ==
    ASSUME TypeOK, SessionInv, NEW amount \in {"all", "some", "none"}, PtyWrite(amount)
    PROVE  TypeOK' /\ SessionInv'
PROOF
  <1> USE SessionAssumption DEF SessionInv
  <1>1. TypeOK'
    <2>1. LifeTypes'
      BY DEF TypeOK, LifeInv, StepInv, LifeTypes, States, Processes, Generations, NoLive,
             NoRow, PtyWrite, Verdict, lifeVars, ioVars, rowVars, osVars, ptyVars
    <2>2. InputTypes'
      <3>1. /\ state = "running" /\ op.key \in Keys /\ op.key \notin DOMAIN inputs
            /\ Cardinality(DOMAIN inputs) < MaxDecisions /\ IsFiniteSet(DOMAIN inputs)
        BY DEF PtyWrite, OpInv, StepInv, DecisionInv
      <3>2. DOMAIN inputs' = DOMAIN inputs \cup {op.key} /\ DOMAIN reached' = DOMAIN reached \cup {op.key}
        BY DEF PtyWrite
      <3>3. Cardinality(DOMAIN inputs') <= MaxDecisions
        BY <3>1, <3>2, OneMore
      <3>4. Verdict(amount) \in Statuses
        BY DEF Verdict, Statuses
      <3>5. \A k \in DOMAIN inputs' : inputs'[k] \in Statuses
        BY <3>4 DEF PtyWrite, TypeOK
      <3>6. UNCHANGED stored
        BY DEF PtyWrite, rowVars
      <3> QED BY <3>1, <3>2, <3>3, <3>5, <3>6 DEF TypeOK, InputTypes
    <2>3. OutputTypes'
      BY DEF TypeOK, OutputTypes, LifeInv, StepInv, Processes, PtyWrite, Verdict, lifeVars,
             ioVars, rowVars, osVars, ptyVars
    <2>4. RowTypes'
      BY DEF TypeOK, RowTypes, States, Generations, NoRow, PtyWrite, Verdict, lifeVars, ioVars,
             rowVars, osVars, ptyVars
    <2>5. op'.pc \in Pcs
      BY DEF TypeOK, OpInv, Ops, Pcs, PtyWrite, Verdict, Idle, At, lifeVars, ioVars, rowVars,
             osVars, ptyVars
    <2> QED BY <2>1, <2>2, <2>3, <2>4, <2>5
         DEF TypeOK, LifeTypes, InputTypes, OutputTypes, RowTypes, Pcs
  <1>2. OpInv'
    BY DEF TypeOK, OpInv, PtyWrite, Verdict, Pcs, Keys, Idle, At, NoRow, NoLive, Processes,
           Generations, lifeVars, ioVars, rowVars, osVars, ptyVars, Ops
  <1>3. LifeInv'
    BY DEF TypeOK, OpInv, LifeInv, StepInv, PtyWrite, Verdict, Idle, At, NoRow, NoLive,
           Processes, Generations, lifeVars, ioVars, rowVars, osVars, ptyVars
  <1>4. StepInv'
    BY DEF TypeOK, OpInv, LifeInv, StepInv, RowInv, PtyWrite, Verdict, Pcs, Idle, At, NoRow,
           NoLive, Processes, Generations, lifeVars, ioVars, rowVars, osVars, ptyVars
  <1>5. RowInv'
    BY DEF TypeOK, OpInv, LifeInv, StepInv, RowInv, OutputInv, PtyWrite, Verdict, Pcs, Idle,
           At, NoRow, NoLive, Processes, Generations, lifeVars, ioVars, rowVars, osVars, ptyVars
  <1>6. OutputInv'
    BY DEF TypeOK, OpInv, LifeInv, StepInv, OutputInv, PtyWrite, Verdict, Idle, At, NoRow,
           NoLive, Processes, Generations, lifeVars, ioVars, rowVars, osVars, ptyVars
  <1>7. ReachedInv'
    <2>1. /\ state = "running" /\ op.key \in Keys /\ op.key \in DOMAIN stored
          /\ op.key \notin DOMAIN inputs /\ DOMAIN reached \subseteq DOMAIN inputs
      BY DEF PtyWrite, OpInv, StepInv, DecisionInv, Pending
    <2>2. op.key \notin DOMAIN reached
      BY <2>1
    <2>3. /\ DOMAIN reached' = DOMAIN reached \cup {op.key}
          /\ \A k \in DOMAIN reached : reached'[k] = reached[k]
          /\ reached'[op.key] = [proc |-> proc, amount |-> amount, times |-> 1]
      BY <2>2 DEF PtyWrite
    <2>4. \A k \in DOMAIN reached' :
            reached'[k] \in [proc : Processes \cup {0}, amount : {"all", "some", "none"}, times : {1}]
      BY <2>3 DEF ReachedInv, TypeOK
    <2>5. ASSUME NEW x \in DOMAIN reached', NEW k \in DOMAIN reached', x.gen = k.gen, x.seq < k.seq
          PROVE  reached'[x].amount # "some"
      <3>1. CASE x = op.key /\ k = op.key
        BY <2>1, <2>5, <3>1 DEF Keys
      <3>2. CASE x = op.key /\ k \in DOMAIN reached
        <4>1. k \in DOMAIN inputs /\ k.gen = gen
          BY <2>1, <2>5, <3>2 DEF PtyWrite, OpInv
        <4>2. k.seq < x.seq
          BY <2>1, <3>2, <4>1 DEF PtyWrite, DecisionInv
        <4>3. k \in Keys /\ x \in Keys
          BY <2>1, <3>2 DEF TypeOK
        <4> QED BY <2>5, <4>2, <4>3 DEF Keys
      <3>3. CASE x \in DOMAIN reached /\ k = op.key
        BY <2>1, <2>3, <2>5, <3>3 DEF DecisionInv
      <3>4. CASE x \in DOMAIN reached /\ k \in DOMAIN reached
        BY <2>3, <2>5, <3>4 DEF ReachedInv
      <3> QED BY <2>3, <3>1, <3>2, <3>3, <3>4
    <2> QED BY <2>4, <2>5 DEF ReachedInv
  <1>8. DecisionInv'
    <2>1. /\ state = "running" /\ op.pc = "ptyWrite" /\ op.key \in Keys /\ op.key.gen = gen
          /\ proc # 0 /\ op.key \in DOMAIN stored
          /\ op.key \notin DOMAIN inputs /\ DOMAIN reached \subseteq DOMAIN inputs
      BY DEF PtyWrite, OpInv, StepInv, LifeInv, DecisionInv, Pending
    <2>2. /\ DOMAIN reached' = DOMAIN reached \cup {op.key}
          /\ \A k \in DOMAIN reached : reached'[k] = reached[k]
          /\ reached'[op.key] = [proc |-> proc, amount |-> amount, times |-> 1]
      BY <2>1 DEF PtyWrite
    <2>3. /\ DOMAIN inputs' = DOMAIN inputs \cup {op.key}
          /\ \A k \in DOMAIN inputs : inputs'[k] = inputs[k]
          /\ inputs'[op.key] = Verdict(amount)
      BY <2>1 DEF PtyWrite
    <2>4. /\ op'.pc = "settleInput" /\ op'.key = op.key
          /\ UNCHANGED <<state, gen, proc, row, stored>>
      BY DEF PtyWrite, OpInv, Ops, rowVars
    <2>5. IsFiniteSet(DOMAIN inputs')
      BY <2>3, FS_AddElement DEF DecisionInv
    <2>6. DOMAIN stored' = DOMAIN inputs' \cup Pending'
      BY <2>1, <2>3, <2>4 DEF DecisionInv, Pending
    <2>7. ASSUME NEW x \in DOMAIN reached', NEW k \in DOMAIN stored', x.gen = k.gen, x.seq < k.seq
          PROVE  reached'[x].amount # "some"
      <3>1. CASE x = op.key
        <4>1. k \in Keys /\ k \in DOMAIN inputs \cup {op.key} /\ k.gen = gen
          BY <2>1, <2>4, <2>7, <3>1 DEF DecisionInv, Pending, TypeOK
        <4>2. k # op.key
          BY <2>1, <2>7, <3>1 DEF Keys
        <4>3. k.seq < op.key.seq
          BY <2>1, <4>1, <4>2 DEF DecisionInv
        <4> QED BY <2>1, <2>7, <3>1, <4>1, <4>3 DEF Keys
      <3>2. CASE x \in DOMAIN reached
        BY <2>1, <2>2, <2>4, <2>7, <3>2 DEF DecisionInv
      <3> QED BY <2>2, <3>1, <3>2
    <2> QED BY <2>1, <2>2, <2>3, <2>4, <2>5, <2>6, <2>7 DEF DecisionInv
  <1> QED BY <1>1, <1>2, <1>3, <1>4, <1>5, <1>6, <1>7, <1>8

\* Close persists the closing state, or kills the process.
LEMMA ClosePersistKeeps ==
    ASSUME TypeOK, SessionInv, NEW ok \in BOOLEAN, ClosePersist(ok)
    PROVE  TypeOK' /\ SessionInv'
PROOF
  <1> USE SessionAssumption DEF SessionInv
  <1>1. TypeOK'
    <2>1. LifeTypes'
      BY DEF TypeOK, LifeInv, StepInv, LifeTypes, States, Processes, Generations, NoLive,
             NoRow, ClosePersist, Persist, Kill, Terminate, lifeVars, ioVars, rowVars,
             osVars, ptyVars
    <2>2. InputTypes'
      BY DEF TypeOK, InputTypes, OpInv, Keys, Statuses, ClosePersist, Persist, Kill,
             Terminate, lifeVars, ioVars, rowVars, osVars, ptyVars
    <2>3. OutputTypes'
      BY DEF TypeOK, OutputTypes, LifeInv, StepInv, Processes, ClosePersist, Persist, Kill,
             Terminate, lifeVars, ioVars, rowVars, osVars, ptyVars
    <2>4. RowTypes'
      BY DEF TypeOK, RowTypes, States, Generations, NoRow, ClosePersist, Persist, Kill, Terminate,
             lifeVars, ioVars, rowVars, osVars, ptyVars
    <2>5. op'.pc \in Pcs
      BY DEF TypeOK, OpInv, Ops, Pcs, ClosePersist, Persist, Kill, Terminate, Idle, At,
             lifeVars, ioVars, rowVars, osVars, ptyVars
    <2> QED BY <2>1, <2>2, <2>3, <2>4, <2>5
         DEF TypeOK, LifeTypes, InputTypes, OutputTypes, RowTypes, Pcs
  <1>2. OpInv'
    <2>1. op' \in Ops /\ (op'.pc = "idle" => op' = Idle)
      BY StepNames DEF ClosePersist, Pcs
    <2>2. op'.pc \notin {"ptyWrite", "settleInput"}
      BY StepNames DEF ClosePersist, Pcs
    <2> QED BY <2>1, <2>2 DEF OpInv
  <1>3. LifeInv'
    BY DEF TypeOK, OpInv, LifeInv, StepInv, ClosePersist, Persist, Kill, Terminate, Idle,
           At, NoRow, NoLive, Processes, Generations, lifeVars, ioVars, rowVars, osVars,
           ptyVars
  <1>4. StepInv'
    BY DEF TypeOK, OpInv, LifeInv, StepInv, RowInv, ClosePersist, Persist, Kill, Terminate,
           Pcs, Idle, At, NoRow, NoLive, Processes, Generations, lifeVars, ioVars, rowVars,
           osVars, ptyVars
  <1>5. RowInv'
    BY DEF TypeOK, OpInv, LifeInv, StepInv, RowInv, OutputInv, ClosePersist, Persist, Kill,
           Terminate, Pcs, Idle, At, NoRow, NoLive, Processes, Generations, lifeVars,
           ioVars, rowVars, osVars, ptyVars
  <1>6. OutputInv'
    BY DEF TypeOK, OpInv, LifeInv, StepInv, OutputInv, ClosePersist, Persist, Kill,
           Terminate, Idle, At, NoRow, NoLive, Processes, Generations, lifeVars, ioVars,
           rowVars, osVars, ptyVars
  <1>7. ReachedInv'
    BY DEF ReachedInv, ClosePersist, Persist, Kill, Terminate, Idle, At, NoRow, NoLive, Processes,
           Generations, lifeVars, ioVars, rowVars, osVars, ptyVars
  <1>8. DecisionInv'
    BY DEF TypeOK, OpInv, LifeInv, StepInv, RowInv, DecisionInv, ClosePersist, Persist,
           Kill, Terminate, Pending, Keys, Idle, At, NoRow, NoLive, Processes, Generations,
           lifeVars, ioVars, rowVars, osVars, ptyVars
  <1> QED BY <1>1, <1>2, <1>3, <1>4, <1>5, <1>6, <1>7, <1>8

\* Terminate ends the process, or leaves it to finishClosing.
LEMMA CloseTerminateKeeps ==
    ASSUME TypeOK, SessionInv, NEW ok \in BOOLEAN, CloseTerminate(ok)
    PROVE  TypeOK' /\ SessionInv'
PROOF
  <1> USE SessionAssumption DEF SessionInv
  <1>1. TypeOK'
    <2>1. LifeTypes'
      BY DEF TypeOK, LifeInv, StepInv, LifeTypes, States, Processes, Generations, NoLive,
             NoRow, CloseTerminate, Persist, Kill, Terminate, lifeVars, ioVars, rowVars,
             osVars, ptyVars
    <2>2. InputTypes'
      BY DEF TypeOK, InputTypes, OpInv, Keys, Statuses, CloseTerminate, Persist, Kill, Terminate,
             lifeVars, ioVars, rowVars, osVars, ptyVars
    <2>3. OutputTypes'
      BY DEF TypeOK, OutputTypes, LifeInv, StepInv, Processes, CloseTerminate, Persist,
             Kill, Terminate, lifeVars, ioVars, rowVars, osVars, ptyVars
    <2>4. RowTypes'
      BY DEF TypeOK, RowTypes, States, Generations, NoRow, CloseTerminate, Persist, Kill,
             Terminate, lifeVars, ioVars, rowVars, osVars, ptyVars
    <2>5. op'.pc \in Pcs
      BY DEF TypeOK, OpInv, Ops, Pcs, CloseTerminate, Persist, Kill, Terminate, Idle, At,
             lifeVars, ioVars, rowVars, osVars, ptyVars
    <2> QED BY <2>1, <2>2, <2>3, <2>4, <2>5
         DEF TypeOK, LifeTypes, InputTypes, OutputTypes, RowTypes, Pcs
  <1>2. OpInv'
    BY DEF TypeOK, OpInv, CloseTerminate, Persist, Kill, Terminate, Pcs, Keys, Idle, At,
           NoRow, NoLive, Processes, Generations, lifeVars, ioVars, rowVars, osVars,
           ptyVars, Ops
  <1>3. LifeInv'
    <2>1. alive \ immune \subseteq {proc} /\ state = "closing" /\ live = NoLive
      BY DEF CloseTerminate, StepInv, LifeInv
    <2>2. /\ UNCHANGED <<gen, live, capture, launches>>
          /\ row'.gen = row.gen \/ row'.gen = gen
      BY DEF CloseTerminate, Persist, ioVars
    <2>3. \/ state' = "closed" /\ proc' = 0 /\ alive' \ immune' = {}
          \/ UNCHANGED <<state, proc, alive, immune>>
      BY <2>1 DEF CloseTerminate, Terminate, Kill, ptyVars
    <2> QED BY <2>1, <2>2, <2>3 DEF LifeInv
  <1>4. StepInv'
    BY DEF TypeOK, OpInv, LifeInv, StepInv, RowInv, CloseTerminate, Persist, Kill,
           Terminate, Pcs, Idle, At, NoRow, NoLive, Processes, Generations, lifeVars,
           ioVars, rowVars, osVars, ptyVars
  <1>5. RowInv'
    BY DEF TypeOK, OpInv, LifeInv, StepInv, RowInv, OutputInv, CloseTerminate, Persist,
           Kill, Terminate, Pcs, Idle, At, NoRow, NoLive, Processes, Generations, lifeVars,
           ioVars, rowVars, osVars, ptyVars
  <1>6. OutputInv'
    BY DEF TypeOK, OpInv, LifeInv, StepInv, OutputInv, CloseTerminate, Persist, Kill,
           Terminate, Idle, At, NoRow, NoLive, Processes, Generations, lifeVars, ioVars,
           rowVars, osVars, ptyVars
  <1>7. ReachedInv'
    BY DEF ReachedInv, CloseTerminate, Persist, Kill, Terminate, Idle, At, NoRow, NoLive,
           Processes, Generations, lifeVars, ioVars, rowVars, osVars, ptyVars
  <1>8. DecisionInv'
    BY DEF TypeOK, OpInv, LifeInv, StepInv, RowInv, DecisionInv, CloseTerminate, Persist,
           Kill, Terminate, Pending, Keys, Idle, At, NoRow, NoLive, Processes, Generations,
           lifeVars, ioVars, rowVars, osVars, ptyVars
  <1> QED BY <1>1, <1>2, <1>3, <1>4, <1>5, <1>6, <1>7, <1>8

\* Restart launches the new process, or closes the session.
LEMMA RestartLaunchKeeps ==
    ASSUME TypeOK, SessionInv, NEW ok \in BOOLEAN, RestartLaunch(ok)
    PROVE  TypeOK' /\ SessionInv'
PROOF
  <1> USE SessionAssumption DEF SessionInv
  <1>1. TypeOK'
    <2>1. LifeTypes'
      <3>1. launches < MaxLaunches =>
              /\ launches + 1 \in Processes /\ launches + 1 \in 0..MaxLaunches
              /\ gen + 1 \in Generations
        BY LaunchCounted, Bounds DEF TypeOK, LifeInv, Processes, Generations
      <3>2. launches \in 0..MaxLaunches /\ alive \subseteq Processes /\ 0 \in Generations
        BY Bounds DEF TypeOK
      <3> HIDE DEF SessionInv
      <3> QED BY <3>1, <3>2 DEF TypeOK, LifeTypes, States, RestartLaunch, Launch, osVars, ptyVars
    <2>2. InputTypes'
      BY DEF TypeOK, InputTypes, OpInv, Keys, Statuses, RestartLaunch, Persist, Launch,
             StartWriter, lifeVars, ioVars, rowVars, osVars, ptyVars
    <2>3. OutputTypes'
      BY DEF TypeOK, OutputTypes, LifeInv, StepInv, Processes, RestartLaunch, Persist, Launch,
             StartWriter, lifeVars, ioVars, rowVars, osVars, ptyVars
    <2>4. RowTypes'
      BY DEF TypeOK, RowTypes, States, Generations, NoRow, RestartLaunch, Persist, Launch,
             StartWriter, lifeVars, ioVars, rowVars, osVars, ptyVars
    <2>5. op'.pc \in Pcs
      BY DEF TypeOK, OpInv, Ops, Pcs, RestartLaunch, Persist, Launch, StartWriter, Idle, At,
             lifeVars, ioVars, rowVars, osVars, ptyVars
    <2> QED BY <2>1, <2>2, <2>3, <2>4, <2>5
         DEF TypeOK, LifeTypes, InputTypes, OutputTypes, RowTypes, Pcs
  <1>2. OpInv'
    <2>1. op' \in Ops /\ (op'.pc = "idle" => op' = Idle)
      BY StepNames DEF RestartLaunch, Pcs
    <2>2. op'.pc \notin {"ptyWrite", "settleInput"}
      BY StepNames DEF RestartLaunch, Pcs
    <2> QED BY <2>1, <2>2 DEF OpInv
  <1>3. LifeInv' /\ StepInv'
    <2>1. CASE /\ Launch
               /\ state' = "running" /\ gen' = gen + 1 /\ proc' = launches + 1
               /\ live' = [proc |-> launches + 1, gen |-> gen + 1]
               /\ op' = At("restartPersist")
               /\ row' = row /\ capture' = capture
      <3>1. op'.pc = "restartPersist"
        BY <2>1, StepNames DEF Pcs
      <3>2. LifeInv'
        BY <2>1 DEF TypeOK, LifeInv, StepInv, RestartLaunch, Launch, Processes, Generations
      <3>3. StepInv'
        BY <2>1, <3>1 DEF TypeOK, LifeInv, StepInv, RestartLaunch, Generations
      <3> QED BY <3>2, <3>3
    <2>2. CASE /\ state' = "closed" /\ op' = Idle
               /\ Persist("restarting", "closed", gen, ok)
               /\ capture' = capture
               /\ UNCHANGED <<gen, proc, live, osVars>>
      <3>1. op'.pc = "idle"
        BY <2>2, StepNames
      <3>2. LifeInv'
        BY <2>2 DEF TypeOK, LifeInv, StepInv, RestartLaunch, Persist, NoLive, osVars, ptyVars
      <3>3. StepInv'
        BY <2>2, <3>1 DEF StepInv
      <3> QED BY <3>2, <3>3
    <2> QED BY <2>1, <2>2 DEF RestartLaunch
  <1>4. RowInv'
    BY DEF TypeOK, OpInv, LifeInv, StepInv, RowInv, OutputInv, RestartLaunch, Persist, Launch,
           StartWriter, Pcs, Idle, At, NoRow, NoLive, Processes, Generations, lifeVars, ioVars,
           rowVars, osVars, ptyVars
  <1>5. OutputInv'
    <2>1. /\ UNCHANGED <<capture, broken, durable, latest>>
          /\ op'.pc \in {"restartPersist", "idle"}
      BY StepNames DEF RestartLaunch, Pcs
    <2>2. CASE state' = "running"
      <3>1. /\ launches \in Nat /\ launches + 1 \in Processes /\ launches' = launches + 1
            /\ proc' = launches + 1 /\ writer' = launches + 1 /\ UNCHANGED faults
        BY <2>2, LaunchCounted DEF RestartLaunch, Launch, StartWriter
      <3>2. capture[launches + 1] = "none"
        BY <3>1, Bounds DEF LifeInv
      <3> QED BY <2>1, <2>2, <3>1, <3>2 DEF OutputInv
    <2>3. CASE state' = "closed"
      <3>1. op'.pc = "idle" /\ (faults' = 0 => faults = 0)
        BY <2>3, StepNames, FaultCounted DEF RestartLaunch, Persist
      <3> QED BY <2>1, <2>3, <3>1 DEF OutputInv
    <2> QED BY <2>2, <2>3 DEF RestartLaunch
  <1>6. ReachedInv'
    BY DEF ReachedInv, RestartLaunch, Persist, Launch, StartWriter, Idle, At, NoRow, NoLive,
           Processes, Generations, lifeVars, ioVars, rowVars, osVars, ptyVars
  <1>7. DecisionInv'
    <2>1. /\ state = "restarting" /\ state' \in {"running", "closed"}
          /\ op.pc = "restartLaunch" /\ op'.pc \in {"idle", "restartPersist"}
          /\ UNCHANGED <<inputs, stored, reached>>
      BY StepNames DEF RestartLaunch, StepInv, Pcs, Launch, osVars, ptyVars
    <2>2. Pending = {} /\ Pending' = {}
      BY <2>1 DEF Pending
    <2>3. DOMAIN stored = DOMAIN inputs /\ DOMAIN reached \subseteq DOMAIN stored
      BY <2>1, <2>2 DEF DecisionInv
    <2>4. row.gen = gen /\ row'.gen = gen
      BY DEF RestartLaunch, StepInv, Persist
    <2>5. \/ gen' = gen /\ proc' = 0
          \/ gen' = gen + 1
      BY DEF RestartLaunch, StepInv, LifeInv
    <2>6. \A k \in DOMAIN stored : /\ k.gen <= gen' /\ k.gen <= row'.gen
                                   /\ proc' # 0 => k.gen # gen'
      BY <2>1, <2>4, <2>5 DEF DecisionInv, TypeOK, Keys, Generations
    <2> QED BY <2>1, <2>2, <2>3, <2>6 DEF DecisionInv
  <1> QED BY <1>1, <1>2, <1>3, <1>4, <1>5, <1>6, <1>7

\* Restart persists the new generation, or kills the process.
LEMMA RestartPersistKeeps ==
    ASSUME TypeOK, SessionInv, NEW ok \in BOOLEAN, RestartPersist(ok)
    PROVE  TypeOK' /\ SessionInv'
PROOF
  <1> USE SessionAssumption DEF SessionInv
  <1>1. TypeOK'
    <2>1. LifeTypes'
      <3>1. live' \in [proc : Processes \cup {0}, gen : Generations] /\ state' \in States
        BY Bounds DEF TypeOK, NoLive, States, RestartPersist
      <3>2. /\ proc' \in Processes \cup {0} /\ alive' \subseteq Processes
            /\ open' \subseteq Processes /\ immune' \subseteq alive'
        BY DEF TypeOK, RestartPersist, Terminate, Kill, ptyVars
      <3>3. UNCHANGED <<gen, launches, finishers, left>>
        BY DEF RestartPersist
      <3> QED BY <3>1, <3>2, <3>3 DEF TypeOK, LifeTypes
    <2>2. InputTypes'
      BY DEF TypeOK, InputTypes, OpInv, Keys, Statuses, RestartPersist, Persist, Kill, Terminate,
             lifeVars, ioVars, rowVars, osVars, ptyVars
    <2>3. OutputTypes'
      BY DEF TypeOK, OutputTypes, LifeInv, StepInv, Processes, RestartPersist, Persist,
             Kill, Terminate, lifeVars, ioVars, rowVars, osVars, ptyVars
    <2>4. RowTypes'
      BY DEF TypeOK, RowTypes, States, Generations, NoRow, RestartPersist, Persist, Kill,
             Terminate, lifeVars, ioVars, rowVars, osVars, ptyVars
    <2>5. op'.pc \in Pcs
      BY DEF TypeOK, OpInv, Ops, Pcs, RestartPersist, Persist, Kill, Terminate, Idle, At,
             lifeVars, ioVars, rowVars, osVars, ptyVars
    <2> QED BY <2>1, <2>2, <2>3, <2>4, <2>5
         DEF TypeOK, LifeTypes, InputTypes, OutputTypes, RowTypes, Pcs
  <1>2. OpInv'
    BY DEF TypeOK, OpInv, RestartPersist, Persist, Kill, Terminate, Pcs, Keys, Idle, At,
           NoRow, NoLive, Processes, Generations, lifeVars, ioVars, rowVars, osVars,
           ptyVars, Ops
  <1>3. LifeInv'
    <2>1. /\ state = "running" /\ proc # 0 /\ proc \in Processes /\ proc <= launches
          /\ live = [proc |-> proc, gen |-> gen]
      BY Bounds DEF RestartPersist, StepInv, LifeInv, TypeOK
    <2>2. UNCHANGED <<gen, launches>> /\ (row'.gen = row.gen \/ row'.gen = gen)
      BY DEF RestartPersist, Persist
    <2>3. CASE ok
      <3>1. \A p \in Processes : capture'[p] = IF p = proc THEN "reading" ELSE capture[p]
        BY <2>3 DEF RestartPersist, TypeOK
      <3>2. UNCHANGED <<state, proc, live, alive, immune>>
        BY <2>3 DEF RestartPersist, ptyVars
      <3> QED BY <2>1, <2>2, <3>1, <3>2 DEF LifeInv
    <2>4. CASE ~ok
      <3>1. /\ alive' \ immune' = {} /\ state' = "exited" /\ proc' = 0 /\ live' = NoLive
            /\ UNCHANGED capture
        BY <2>4 DEF RestartPersist, Kill, Terminate, LifeInv, ptyVars
      <3> QED BY <2>2, <3>1 DEF LifeInv
    <2> QED BY <2>3, <2>4
  <1>4. StepInv'
    BY DEF TypeOK, OpInv, LifeInv, StepInv, RowInv, RestartPersist, Persist, Kill,
           Terminate, Pcs, Idle, At, NoRow, NoLive, Processes, Generations, lifeVars,
           ioVars, rowVars, osVars, ptyVars
  <1>5. RowInv'
    BY DEF TypeOK, OpInv, LifeInv, StepInv, RowInv, OutputInv, RestartPersist, Persist,
           Kill, Terminate, Pcs, Idle, At, NoRow, NoLive, Processes, Generations, lifeVars,
           ioVars, rowVars, osVars, ptyVars
  <1>6. OutputInv'
    <2>1. state = "running" /\ proc \in Processes /\ proc = launches /\ row.state = "restarting"
      BY Bounds DEF RestartPersist, StepInv, LifeInv, TypeOK
    <2>2. UNCHANGED <<launches, broken, writer, durable, latest>> /\ op'.pc = "idle"
      BY StepNames DEF RestartPersist
    <2>3. CASE ok
      <3>1. UNCHANGED <<faults, state>> /\ capture' = [capture EXCEPT ![proc] = "reading"]
        BY <2>3 DEF RestartPersist, Persist
      <3>2. ASSUME faults = 0, launches = 1 PROVE writer = 1 /\ capture'[1] = "reading"
        BY <2>1, <3>1, <3>2 DEF RestartPersist, OutputInv, TypeOK
      <3> QED BY <2>1, <2>2, <3>1, <3>2 DEF OutputInv
    <2>4. CASE ~ok
      <3>1. faults' # 0
        BY <2>1, <2>4, FaultCounted DEF RestartPersist, Persist
      <3> QED BY <2>2, <3>1 DEF OutputInv
    <2> QED BY <2>3, <2>4
  <1>7. ReachedInv'
    BY DEF ReachedInv, RestartPersist, Persist, Kill, Terminate, Idle, At, NoRow, NoLive,
           Processes, Generations, lifeVars, ioVars, rowVars, osVars, ptyVars
  <1>8. DecisionInv'
    BY DEF TypeOK, OpInv, LifeInv, StepInv, RowInv, DecisionInv, RestartPersist, Persist,
           Kill, Terminate, Pending, Keys, Idle, At, NoRow, NoLive, Processes, Generations,
           lifeVars, ioVars, rowVars, osVars, ptyVars
  <1> QED BY <1>1, <1>2, <1>3, <1>4, <1>5, <1>6, <1>7, <1>8

\* Write settles the decision.
LEMMA SettleInputKeeps ==
    ASSUME TypeOK, SessionInv, NEW ok \in BOOLEAN, SettleInput(ok)
    PROVE  TypeOK' /\ SessionInv'
PROOF
  <1> USE SessionAssumption DEF SessionInv
  <1>1. TypeOK'
    <2>1. LifeTypes'
      BY DEF TypeOK, LifeInv, StepInv, LifeTypes, States, Processes, Generations, NoLive,
             NoRow, SettleInput, Statement, lifeVars, ioVars, rowVars, osVars, ptyVars
    <2>2. InputTypes'
      <3>1. op.key \in DOMAIN inputs /\ inputs[op.key] \in Statuses
        BY DEF SettleInput, StepInv, DecisionInv, TypeOK
      <3> QED BY <3>1 DEF TypeOK, InputTypes, SettleInput, lifeVars, osVars, ptyVars
    <2>3. OutputTypes'
      BY DEF TypeOK, OutputTypes, LifeInv, StepInv, Processes, SettleInput, Statement,
             lifeVars, ioVars, rowVars, osVars, ptyVars
    <2>4. RowTypes'
      BY DEF TypeOK, RowTypes, States, Generations, NoRow, SettleInput, Statement, lifeVars,
             ioVars, rowVars, osVars, ptyVars
    <2>5. op'.pc \in Pcs
      BY DEF TypeOK, OpInv, Ops, Pcs, SettleInput, Statement, Idle, At, lifeVars, ioVars,
             rowVars, osVars, ptyVars
    <2> QED BY <2>1, <2>2, <2>3, <2>4, <2>5
         DEF TypeOK, LifeTypes, InputTypes, OutputTypes, RowTypes, Pcs
  <1>2. OpInv'
    BY DEF TypeOK, OpInv, SettleInput, Statement, Pcs, Keys, Idle, At, NoRow, NoLive,
           Processes, Generations, lifeVars, ioVars, rowVars, osVars, ptyVars, Ops
  <1>3. LifeInv'
    BY DEF TypeOK, OpInv, LifeInv, StepInv, SettleInput, Statement, Idle, At, NoRow, NoLive,
           Processes, Generations, lifeVars, ioVars, rowVars, osVars, ptyVars
  <1>4. StepInv'
    BY DEF TypeOK, OpInv, LifeInv, StepInv, RowInv, SettleInput, Statement, Pcs, Idle, At,
           NoRow, NoLive, Processes, Generations, lifeVars, ioVars, rowVars, osVars, ptyVars
  <1>5. RowInv'
    BY DEF TypeOK, OpInv, LifeInv, StepInv, RowInv, OutputInv, SettleInput, Statement, Pcs,
           Idle, At, NoRow, NoLive, Processes, Generations, lifeVars, ioVars, rowVars,
           osVars, ptyVars
  <1>6. OutputInv'
    BY DEF TypeOK, OpInv, LifeInv, StepInv, OutputInv, SettleInput, Statement, Idle, At, NoRow,
           NoLive, Processes, Generations, lifeVars, ioVars, rowVars, osVars, ptyVars
  <1>7. ReachedInv'
    BY DEF ReachedInv, SettleInput, Statement, Idle, At, NoRow, NoLive, Processes, Generations,
           lifeVars, ioVars, rowVars, osVars, ptyVars
  <1>8. DecisionInv'
    BY DEF TypeOK, OpInv, LifeInv, StepInv, RowInv, DecisionInv, SettleInput, Statement,
           Pending, Keys, Idle, At, NoRow, NoLive, Processes, Generations, lifeVars, ioVars,
           rowVars, osVars, ptyVars
  <1> QED BY <1>1, <1>2, <1>3, <1>4, <1>5, <1>6, <1>7, <1>8

\* The host runtime crashes and recovers the session.
LEMMA CrashKeeps ==
    ASSUME TypeOK, SessionInv, Crash
    PROVE  TypeOK' /\ SessionInv'
PROOF
  <1> USE SessionAssumption DEF SessionInv
  <1>1. TypeOK'
    <2>1. LifeTypes'
      <3>1. row'.state \in States
        BY DEF TypeOK, States, Crash, Recovered
      <3>2. state' \in States
        BY <3>1 DEF TypeOK, States, Crash
      <3>3. live' \in [proc : Processes \cup {0}, gen : Generations] /\ gen' \in Generations
        BY Bounds DEF TypeOK, NoLive, Crash
      <3> QED BY <3>2, <3>3, Bounds DEF TypeOK, LifeTypes, Crash
    <2>2. InputTypes'
      <3>1. IsFiniteSet(DOMAIN stored) /\ Cardinality(DOMAIN stored) <= MaxDecisions
        BY StoredFinite
      <3> QED BY <3>1 DEF TypeOK, InputTypes, Crash
    <2>3. OutputTypes'
      BY DEF TypeOK, OutputTypes, LifeInv, StepInv, Processes, Crash, Recovered, lifeVars,
             ioVars, rowVars, osVars, ptyVars
    <2>4. RowTypes'
      BY DEF TypeOK, RowTypes, States, Generations, NoRow, Crash, Recovered, lifeVars, ioVars,
             rowVars, osVars, ptyVars
    <2>5. op'.pc \in Pcs
      BY DEF TypeOK, OpInv, Ops, Pcs, Crash, Recovered, Idle, At, lifeVars, ioVars, rowVars,
             osVars, ptyVars
    <2> QED BY <2>1, <2>2, <2>3, <2>4, <2>5
         DEF TypeOK, LifeTypes, InputTypes, OutputTypes, RowTypes, Pcs
  <1>2. OpInv'
    BY DEF TypeOK, OpInv, Crash, Recovered, Pcs, Keys, Idle, At, NoRow, NoLive, Processes,
           Generations, lifeVars, ioVars, rowVars, osVars, ptyVars, Ops
  <1>3. LifeInv'
    BY DEF TypeOK, OpInv, LifeInv, StepInv, Crash, Recovered, Idle, At, NoRow, NoLive,
           Processes, Generations, lifeVars, ioVars, rowVars, osVars, ptyVars
  <1>4. StepInv'
    BY DEF TypeOK, OpInv, LifeInv, StepInv, RowInv, Crash, Recovered, Pcs, Idle, At, NoRow,
           NoLive, Processes, Generations, lifeVars, ioVars, rowVars, osVars, ptyVars
  <1>5. RowInv'
    BY DEF TypeOK, OpInv, LifeInv, StepInv, RowInv, OutputInv, Crash, Recovered, Pcs, Idle, At,
           NoRow, NoLive, Processes, Generations, lifeVars, ioVars, rowVars, osVars, ptyVars
  <1>6. OutputInv'
    BY DEF TypeOK, OpInv, LifeInv, StepInv, OutputInv, Crash, Recovered, Idle, At, NoRow,
           NoLive, Processes, Generations, lifeVars, ioVars, rowVars, osVars, ptyVars
  <1>7. ReachedInv'
    BY DEF ReachedInv, Crash, Recovered, Idle, At, NoRow, NoLive, Processes, Generations,
           lifeVars, ioVars, rowVars, osVars, ptyVars
  <1>8. DecisionInv'
    <2>1. /\ UNCHANGED <<stored, reached>> /\ inputs' = stored /\ gen' = row.gen
          /\ row'.gen = row.gen /\ proc' = 0 /\ op'.pc = "idle"
      BY StepNames DEF Crash, TypeOK
    <2>2. Pending' = {}
      BY <2>1 DEF Pending
    <2>3. CASE state = "deleted"
      BY <2>1, <2>3, StoredFinite DEF Crash, DecisionInv
    <2>4. CASE state # "deleted"
      <3>1. state' # "deleted" /\ (state' = "none" => state = "none")
        BY <2>4 DEF Crash, Recovered, RowInv, TypeOK, States
      <3> QED BY <2>1, <2>2, <2>4, <3>1, StoredFinite DEF DecisionInv
    <2> QED BY <2>3, <2>4
  <1> QED BY <1>1, <1>2, <1>3, <1>4, <1>5, <1>6, <1>7, <1>8

\* Close of an exited session.
LEMMA CloseExitedKeeps ==
    ASSUME TypeOK, SessionInv, NEW ok \in BOOLEAN, CloseExited(ok)
    PROVE  TypeOK' /\ SessionInv'
PROOF
  <1> USE SessionAssumption DEF SessionInv
  <1>1. TypeOK'
    <2>1. LifeTypes'
      BY DEF TypeOK, LifeInv, StepInv, LifeTypes, States, Processes, Generations, NoLive,
             NoRow, CloseExited, Persist, lifeVars, ioVars, rowVars, osVars, ptyVars
    <2>2. InputTypes'
      BY DEF TypeOK, InputTypes, OpInv, Keys, Statuses, CloseExited, Persist, lifeVars, ioVars,
             rowVars, osVars, ptyVars
    <2>3. OutputTypes'
      BY DEF TypeOK, OutputTypes, LifeInv, StepInv, Processes, CloseExited, Persist, lifeVars,
             ioVars, rowVars, osVars, ptyVars
    <2>4. RowTypes'
      BY DEF TypeOK, RowTypes, States, Generations, NoRow, CloseExited, Persist, lifeVars,
             ioVars, rowVars, osVars, ptyVars
    <2>5. op'.pc \in Pcs
      BY DEF TypeOK, OpInv, Ops, Pcs, CloseExited, Persist, Idle, At, lifeVars, ioVars,
             rowVars, osVars, ptyVars
    <2> QED BY <2>1, <2>2, <2>3, <2>4, <2>5
         DEF TypeOK, LifeTypes, InputTypes, OutputTypes, RowTypes, Pcs
  <1>2. OpInv'
    BY DEF TypeOK, OpInv, CloseExited, Persist, Pcs, Keys, Idle, At, NoRow, NoLive, Processes,
           Generations, lifeVars, ioVars, rowVars, osVars, ptyVars, Ops
  <1>3. LifeInv'
    BY DEF TypeOK, OpInv, LifeInv, StepInv, CloseExited, Persist, Idle, At, NoRow, NoLive,
           Processes, Generations, lifeVars, ioVars, rowVars, osVars, ptyVars
  <1>4. StepInv'
    BY DEF TypeOK, OpInv, LifeInv, StepInv, RowInv, CloseExited, Persist, Pcs, Idle, At, NoRow,
           NoLive, Processes, Generations, lifeVars, ioVars, rowVars, osVars, ptyVars
  <1>5. RowInv'
    BY DEF TypeOK, OpInv, LifeInv, StepInv, RowInv, OutputInv, CloseExited, Persist, Pcs, Idle,
           At, NoRow, NoLive, Processes, Generations, lifeVars, ioVars, rowVars, osVars, ptyVars
  <1>6. OutputInv'
    BY DEF TypeOK, OpInv, LifeInv, StepInv, OutputInv, CloseExited, Persist, Idle, At, NoRow,
           NoLive, Processes, Generations, lifeVars, ioVars, rowVars, osVars, ptyVars
  <1>7. ReachedInv'
    BY DEF ReachedInv, CloseExited, Persist, Idle, At, NoRow, NoLive, Processes, Generations,
           lifeVars, ioVars, rowVars, osVars, ptyVars
  <1>8. DecisionInv'
    BY DEF TypeOK, OpInv, LifeInv, StepInv, RowInv, DecisionInv, CloseExited, Persist, Pending,
           Keys, Idle, At, NoRow, NoLive, Processes, Generations, lifeVars, ioVars, rowVars,
           osVars, ptyVars
  <1> QED BY <1>1, <1>2, <1>3, <1>4, <1>5, <1>6, <1>7, <1>8

\* Close takes the process away and stops the persistence goroutine.
LEMMA CloseBeginKeeps ==
    ASSUME TypeOK, SessionInv, NEW ok \in BOOLEAN, CloseBegin(ok)
    PROVE  TypeOK' /\ SessionInv'
PROOF
  <1> USE SessionAssumption DEF SessionInv
  <1>1. TypeOK'
    <2>1. LifeTypes'
      BY DEF TypeOK, LifeInv, StepInv, LifeTypes, States, Processes, Generations, NoLive,
             NoRow, CloseBegin, StopWriter, Statement, lifeVars, ioVars, rowVars, osVars, ptyVars
    <2>2. InputTypes'
      BY DEF TypeOK, InputTypes, OpInv, Keys, Statuses, CloseBegin, StopWriter, Statement,
             lifeVars, ioVars, rowVars, osVars, ptyVars
    <2>3. OutputTypes'
      BY DEF TypeOK, OutputTypes, LifeInv, StepInv, Processes, CloseBegin, StopWriter,
             Statement, lifeVars, ioVars, rowVars, osVars, ptyVars
    <2>4. RowTypes'
      BY DEF TypeOK, RowTypes, States, Generations, NoRow, CloseBegin, StopWriter, Statement,
             lifeVars, ioVars, rowVars, osVars, ptyVars
    <2>5. op'.pc \in Pcs
      BY DEF TypeOK, OpInv, Ops, Pcs, CloseBegin, StopWriter, Statement, Idle, At, lifeVars,
             ioVars, rowVars, osVars, ptyVars
    <2> QED BY <2>1, <2>2, <2>3, <2>4, <2>5
         DEF TypeOK, LifeTypes, InputTypes, OutputTypes, RowTypes, Pcs
  <1>2. OpInv'
    <2>1. op' \in Ops /\ (op'.pc = "idle" => op' = Idle)
      BY StepNames DEF CloseBegin, OpInv, Pcs
    <2>2. op'.pc \notin {"ptyWrite", "settleInput"}
      BY StepNames DEF CloseBegin, Pcs
    <2> QED BY <2>1, <2>2 DEF OpInv
  <1>3. LifeInv'
    BY DEF TypeOK, OpInv, LifeInv, StepInv, CloseBegin, StopWriter, Statement, Idle, At, NoRow,
           NoLive, Processes, Generations, lifeVars, ioVars, rowVars, osVars, ptyVars
  <1>4. StepInv'
    BY DEF TypeOK, OpInv, LifeInv, StepInv, RowInv, CloseBegin, StopWriter, Statement, Pcs,
           Idle, At, NoRow, NoLive, Processes, Generations, lifeVars, ioVars, rowVars,
           osVars, ptyVars
  <1>5. RowInv'
    BY DEF TypeOK, OpInv, LifeInv, StepInv, RowInv, OutputInv, CloseBegin, StopWriter,
           Statement, Pcs, Idle, At, NoRow, NoLive, Processes, Generations, lifeVars, ioVars,
           rowVars, osVars, ptyVars
  <1>6. OutputInv'
    BY DEF TypeOK, OpInv, LifeInv, StepInv, OutputInv, CloseBegin, StopWriter, Statement, Idle,
           At, NoRow, NoLive, Processes, Generations, lifeVars, ioVars, rowVars, osVars, ptyVars
  <1>7. ReachedInv'
    BY DEF ReachedInv, CloseBegin, StopWriter, Statement, Idle, At, NoRow, NoLive, Processes,
           Generations, lifeVars, ioVars, rowVars, osVars, ptyVars
  <1>8. DecisionInv'
    BY DEF TypeOK, OpInv, LifeInv, StepInv, RowInv, DecisionInv, CloseBegin, StopWriter,
           Statement, Pending, Keys, Idle, At, NoRow, NoLive, Processes, Generations, lifeVars,
           ioVars, rowVars, osVars, ptyVars
  <1> QED BY <1>1, <1>2, <1>3, <1>4, <1>5, <1>6, <1>7, <1>8

\* Restart persists the restarting state.
LEMMA RestartBeginKeeps ==
    ASSUME TypeOK, SessionInv, NEW ok \in BOOLEAN, RestartBegin(ok)
    PROVE  TypeOK' /\ SessionInv'
PROOF
  <1> USE SessionAssumption DEF SessionInv
  <1>1. TypeOK'
    <2>1. LifeTypes'
      BY DEF TypeOK, LifeInv, StepInv, LifeTypes, States, Processes, Generations, NoLive,
             NoRow, RestartBegin, Persist, lifeVars, ioVars, rowVars, osVars, ptyVars
    <2>2. InputTypes'
      BY DEF TypeOK, InputTypes, OpInv, Keys, Statuses, RestartBegin, Persist, lifeVars,
             ioVars, rowVars, osVars, ptyVars
    <2>3. OutputTypes'
      BY DEF TypeOK, OutputTypes, LifeInv, StepInv, Processes, RestartBegin, Persist, lifeVars,
             ioVars, rowVars, osVars, ptyVars
    <2>4. RowTypes'
      BY DEF TypeOK, RowTypes, States, Generations, NoRow, RestartBegin, Persist, lifeVars,
             ioVars, rowVars, osVars, ptyVars
    <2>5. op'.pc \in Pcs
      BY DEF TypeOK, OpInv, Ops, Pcs, RestartBegin, Persist, Idle, At, lifeVars, ioVars,
             rowVars, osVars, ptyVars
    <2> QED BY <2>1, <2>2, <2>3, <2>4, <2>5
         DEF TypeOK, LifeTypes, InputTypes, OutputTypes, RowTypes, Pcs
  <1>2. OpInv'
    <2>1. op' \in Ops /\ (op'.pc = "idle" => op' = Idle)
      BY StepNames DEF RestartBegin, OpInv, Pcs
    <2>2. op'.pc \notin {"ptyWrite", "settleInput"}
      BY StepNames DEF RestartBegin, Pcs
    <2> QED BY <2>1, <2>2 DEF OpInv
  <1>3. LifeInv'
    BY DEF TypeOK, OpInv, LifeInv, StepInv, RestartBegin, Persist, Idle, At, NoRow, NoLive,
           Processes, Generations, lifeVars, ioVars, rowVars, osVars, ptyVars
  <1>4. StepInv'
    BY DEF TypeOK, OpInv, LifeInv, StepInv, RowInv, RestartBegin, Persist, Pcs, Idle, At,
           NoRow, NoLive, Processes, Generations, lifeVars, ioVars, rowVars, osVars, ptyVars
  <1>5. RowInv'
    BY DEF TypeOK, OpInv, LifeInv, StepInv, RowInv, OutputInv, RestartBegin, Persist, Pcs,
           Idle, At, NoRow, NoLive, Processes, Generations, lifeVars, ioVars, rowVars,
           osVars, ptyVars
  <1>6. OutputInv'
    BY DEF TypeOK, OpInv, LifeInv, StepInv, OutputInv, RestartBegin, Persist, Idle, At, NoRow,
           NoLive, Processes, Generations, lifeVars, ioVars, rowVars, osVars, ptyVars
  <1>7. ReachedInv'
    BY DEF ReachedInv, RestartBegin, Persist, Idle, At, NoRow, NoLive, Processes, Generations,
           lifeVars, ioVars, rowVars, osVars, ptyVars
  <1>8. DecisionInv'
    <2>1. /\ state \in {"exited", "closed"} /\ state' \in {"restarting", "closed"}
          /\ op.pc = "idle" /\ op'.pc \in {"idle", "restartLaunch"}
      BY StepNames DEF RestartBegin, Pcs
    <2>2. UNCHANGED <<gen, proc, inputs, stored, reached>> /\ row'.gen \in {row.gen, gen}
      BY DEF RestartBegin, Persist, osVars, ptyVars
    <2>3. Pending = {} /\ Pending' = {}
      BY <2>1 DEF Pending
    <2> QED BY <2>1, <2>2, <2>3 DEF DecisionInv
  <1> QED BY <1>1, <1>2, <1>3, <1>4, <1>5, <1>6, <1>7, <1>8

\* Delete removes the row.
LEMMA DeleteKeeps ==
    ASSUME TypeOK, SessionInv, NEW ok \in BOOLEAN, Delete(ok)
    PROVE  TypeOK' /\ SessionInv'
PROOF
  <1> USE SessionAssumption DEF SessionInv
  <1>1. TypeOK'
    <2>1. LifeTypes'
      BY DEF TypeOK, LifeInv, StepInv, LifeTypes, States, Processes, Generations, NoLive,
             NoRow, Delete, Empty, lifeVars, ioVars, rowVars, osVars, ptyVars
    <2>2. InputTypes'
      BY FS_EmptySet DEF TypeOK, InputTypes, OpInv, Keys, Statuses, Delete, Empty, lifeVars,
                         ioVars, rowVars, osVars, ptyVars
    <2>3. OutputTypes'
      BY DEF TypeOK, OutputTypes, LifeInv, StepInv, Processes, Delete, Empty, lifeVars, ioVars,
             rowVars, osVars, ptyVars
    <2>4. RowTypes'
      BY DEF TypeOK, RowTypes, States, Generations, NoRow, Delete, Empty, lifeVars, ioVars,
             rowVars, osVars, ptyVars
    <2>5. op'.pc \in Pcs
      BY DEF TypeOK, OpInv, Ops, Pcs, Delete, Empty, Idle, At, lifeVars, ioVars, rowVars,
             osVars, ptyVars
    <2> QED BY <2>1, <2>2, <2>3, <2>4, <2>5
         DEF TypeOK, LifeTypes, InputTypes, OutputTypes, RowTypes, Pcs
  <1>2. OpInv'
    BY DEF TypeOK, OpInv, Delete, Empty, Pcs, Keys, Idle, At, NoRow, NoLive, Processes,
           Generations, lifeVars, ioVars, rowVars, osVars, ptyVars, Ops
  <1>3. LifeInv'
    BY DEF TypeOK, OpInv, LifeInv, StepInv, Delete, Empty, Idle, At, NoRow, NoLive, Processes,
           Generations, lifeVars, ioVars, rowVars, osVars, ptyVars
  <1>4. StepInv'
    BY DEF TypeOK, OpInv, LifeInv, StepInv, RowInv, Delete, Empty, Pcs, Idle, At, NoRow,
           NoLive, Processes, Generations, lifeVars, ioVars, rowVars, osVars, ptyVars
  <1>5. RowInv'
    BY DEF TypeOK, OpInv, LifeInv, StepInv, RowInv, OutputInv, Delete, Empty, Pcs, Idle, At,
           NoRow, NoLive, Processes, Generations, lifeVars, ioVars, rowVars, osVars, ptyVars
  <1>6. OutputInv'
    BY DEF TypeOK, OpInv, LifeInv, StepInv, OutputInv, Delete, Empty, Idle, At, NoRow, NoLive,
           Processes, Generations, lifeVars, ioVars, rowVars, osVars, ptyVars
  <1>7. ReachedInv'
    BY DEF ReachedInv, Delete, Empty, Idle, At, NoRow, NoLive, Processes, Generations,
           lifeVars, ioVars, rowVars, osVars, ptyVars
  <1>8. DecisionInv'
    BY DEF TypeOK, OpInv, LifeInv, StepInv, RowInv, DecisionInv, Delete, Empty, Pending,
           Keys, Idle, At, NoRow, NoLive, Processes, Generations, lifeVars, ioVars, rowVars,
           osVars, ptyVars
  <1> QED BY <1>1, <1>2, <1>3, <1>4, <1>5, <1>6, <1>7, <1>8

\* Write admits an input and records its decision.
LEMMA WriteBeginKeeps ==
    ASSUME TypeOK, SessionInv, NEW k \in Keys, NEW ok \in BOOLEAN, WriteBegin(k, ok)
    PROVE  TypeOK' /\ SessionInv'
PROOF
  <1> USE SessionAssumption DEF SessionInv
  <1>1. TypeOK'
    <2>1. LifeTypes'
      BY DEF TypeOK, LifeInv, StepInv, LifeTypes, States, Processes, Generations, NoLive,
             NoRow, WriteBegin, Statement, lifeVars, ioVars, rowVars, osVars, ptyVars
    <2>2. InputTypes'
      BY DEF TypeOK, InputTypes, OpInv, Keys, Statuses, WriteBegin, Statement, lifeVars,
             ioVars, rowVars, osVars, ptyVars
    <2>3. OutputTypes'
      BY DEF TypeOK, OutputTypes, LifeInv, StepInv, Processes, WriteBegin, Statement, lifeVars,
             ioVars, rowVars, osVars, ptyVars
    <2>4. RowTypes'
      BY DEF TypeOK, RowTypes, States, Generations, NoRow, WriteBegin, Statement, lifeVars,
             ioVars, rowVars, osVars, ptyVars
    <2>5. op'.pc \in Pcs
      BY DEF TypeOK, OpInv, Ops, Pcs, WriteBegin, Statement, Idle, At, lifeVars, ioVars,
             rowVars, osVars, ptyVars
    <2> QED BY <2>1, <2>2, <2>3, <2>4, <2>5
         DEF TypeOK, LifeTypes, InputTypes, OutputTypes, RowTypes, Pcs
  <1>2. OpInv'
    <2>1. k.gen = gen /\ UNCHANGED gen /\ k \in [gen : Generations, seq : 0..MaxInputs]
      BY DEF WriteBegin, lifeVars, Keys
    <2>2. op' = op \/ (op' \in Ops /\ op'.pc = "ptyWrite" /\ op'.key = k)
      BY <2>1 DEF WriteBegin, Ops, Pcs
    <2> QED BY <2>1, <2>2 DEF OpInv
  <1>3. LifeInv'
    BY DEF TypeOK, OpInv, LifeInv, StepInv, WriteBegin, Statement, Idle, At, NoRow, NoLive,
           Processes, Generations, lifeVars, ioVars, rowVars, osVars, ptyVars
  <1>4. StepInv'
    BY DEF TypeOK, OpInv, LifeInv, StepInv, RowInv, WriteBegin, Statement, Pcs, Idle, At,
           NoRow, NoLive, Processes, Generations, lifeVars, ioVars, rowVars, osVars, ptyVars
  <1>5. RowInv'
    BY DEF TypeOK, OpInv, LifeInv, StepInv, RowInv, OutputInv, WriteBegin, Statement, Pcs,
           Idle, At, NoRow, NoLive, Processes, Generations, lifeVars, ioVars, rowVars,
           osVars, ptyVars
  <1>6. OutputInv'
    BY DEF TypeOK, OpInv, LifeInv, StepInv, OutputInv, WriteBegin, Statement, Idle, At, NoRow,
           NoLive, Processes, Generations, lifeVars, ioVars, rowVars, osVars, ptyVars
  <1>7. ReachedInv'
    BY DEF ReachedInv, WriteBegin, Statement, Idle, At, NoRow, NoLive, Processes, Generations,
           lifeVars, ioVars, rowVars, osVars, ptyVars
  <1>8. DecisionInv'
    <2>1. CASE ok /\ k \notin DOMAIN stored
      <3>1. /\ op.pc = "idle" /\ op'.pc = "ptyWrite" /\ op'.key = k
            /\ state = "running" /\ k.gen = gen /\ row.gen = gen /\ Admitted(k)
            /\ UNCHANGED <<state, gen, proc, inputs, row, reached>>
        BY <2>1, StepNames DEF WriteBegin, RowInv, lifeVars, osVars, ptyVars
      <3>2. /\ DOMAIN stored' = DOMAIN stored \cup {k} /\ stored'[k] = "uncertain"
            /\ \A x \in DOMAIN stored : stored'[x] = stored[x]
        BY <2>1 DEF WriteBegin
      <3>3. Pending = {} /\ Pending' = {k}
        BY <3>1 DEF Pending
      <3>4. DOMAIN stored = DOMAIN inputs /\ DOMAIN reached \subseteq DOMAIN inputs
        BY <3>1, <3>3 DEF DecisionInv
      <3>5. ASSUME NEW y \in DOMAIN inputs, y.gen = gen
            PROVE  /\ y.seq \in Nat /\ Last(gen) \in Nat /\ y.seq <= Last(gen)
                   /\ k.seq = Last(gen) + 1
                   /\ [k EXCEPT !.seq = Last(gen)] \in DOMAIN inputs
                   /\ inputs[[k EXCEPT !.seq = Last(gen)]] # "uncertain"
        <4>1. y.seq \in Sequences(gen)
          BY <3>5 DEF Sequences
        <4>2. PICK z \in DOMAIN inputs : z.gen = gen /\ z.seq = Last(gen)
          BY <4>1, LastFacts DEF Sequences
        <4>3. z = [k EXCEPT !.seq = Last(gen)]
          BY <3>1, <4>2 DEF TypeOK, Keys
        <4> QED BY <3>1, <4>1, <4>2, <4>3, LastFacts DEF Admitted
      <3>6. ASSUME NEW x \in DOMAIN reached, x.gen = gen
            PROVE  reached[x].amount # "some"
        <4>1. x \in DOMAIN inputs /\ x \in Keys
          BY <3>4 DEF TypeOK
        <4>2. PICK z \in DOMAIN inputs : z = [k EXCEPT !.seq = Last(gen)]
          BY <3>5, <3>6, <4>1
        <4>3. z.gen = x.gen /\ z.seq = Last(gen) /\ inputs[z] # "uncertain" /\ z \in Keys
          BY <3>1, <3>5, <3>6, <4>1, <4>2 DEF Keys, TypeOK
        <4>4. CASE x.seq = Last(gen)
          <5>1. x = z
            BY <4>1, <4>3, <4>4 DEF Keys
          <5>2. inputs[x] = Verdict(reached[x].amount)
            BY <3>1, <4>3, <5>1 DEF DecisionInv
          <5> QED BY <4>3, <5>1, <5>2 DEF Verdict
        <4>5. CASE x.seq < Last(gen)
          BY <3>1, <3>4, <4>3, <4>5 DEF DecisionInv
        <4> QED BY <3>5, <3>6, <4>1, <4>4, <4>5
      <3>7. \A y \in DOMAIN inputs : y.gen = gen => y.seq < k.seq
        BY <3>5
      <3>8. Cardinality(DOMAIN inputs) < MaxDecisions /\ k \notin DOMAIN inputs
        BY <3>1 DEF Admitted
      <3>9. \A x \in DOMAIN reached', y \in DOMAIN stored' :
              (x.gen = y.gen /\ x.seq < y.seq) => reached'[x].amount # "some"
        BY <3>1, <3>2, <3>6 DEF DecisionInv
      <3> QED BY <3>1, <3>2, <3>3, <3>4, <3>7, <3>8, <3>9 DEF DecisionInv, TypeOK, Keys,
             Generations
    <2>2. CASE ~(ok /\ k \notin DOMAIN stored)
      BY <2>2 DEF WriteBegin, DecisionInv, Pending, lifeVars, osVars, ptyVars
    <2> QED BY <2>1, <2>2
  <1> QED BY <1>1, <1>2, <1>3, <1>4, <1>5, <1>6, <1>7, <1>8

\* A process ends.
LEMMA ExitKeeps ==
    ASSUME TypeOK, SessionInv, NEW p \in Processes, Exit(p)
    PROVE  TypeOK' /\ SessionInv'
PROOF
  <1> USE SessionAssumption DEF SessionInv
  <1>1. TypeOK'
    <2>1. LifeTypes'
      BY DEF TypeOK, LifeInv, StepInv, LifeTypes, States, Processes, Generations, NoLive,
             NoRow, Exit, lifeVars, ioVars, rowVars, osVars, ptyVars
    <2>2. InputTypes'
      BY DEF TypeOK, InputTypes, OpInv, Keys, Statuses, Exit, lifeVars, ioVars, rowVars,
             osVars, ptyVars
    <2>3. OutputTypes'
      BY DEF TypeOK, OutputTypes, LifeInv, StepInv, Processes, Exit, lifeVars, ioVars,
             rowVars, osVars, ptyVars
    <2>4. RowTypes'
      BY DEF TypeOK, RowTypes, States, Generations, NoRow, Exit, lifeVars, ioVars,
             rowVars, osVars, ptyVars
    <2>5. op'.pc \in Pcs
      BY DEF TypeOK, OpInv, Ops, Pcs, Exit, Idle, At, lifeVars, ioVars, rowVars, osVars, ptyVars
    <2> QED BY <2>1, <2>2, <2>3, <2>4, <2>5
         DEF TypeOK, LifeTypes, InputTypes, OutputTypes, RowTypes, Pcs
  <1>2. OpInv'
    BY DEF TypeOK, OpInv, Exit, Pcs, Keys, Idle, At, NoRow, NoLive, Processes,
           Generations, lifeVars, ioVars, rowVars, osVars, ptyVars, Ops
  <1>3. LifeInv'
    BY DEF TypeOK, OpInv, LifeInv, StepInv, Exit, Idle, At, NoRow, NoLive, Processes,
           Generations, lifeVars, ioVars, rowVars, osVars, ptyVars
  <1>4. StepInv'
    BY DEF TypeOK, OpInv, LifeInv, StepInv, RowInv, Exit, Pcs, Idle, At, NoRow, NoLive,
           Processes, Generations, lifeVars, ioVars, rowVars, osVars, ptyVars
  <1>5. RowInv'
    BY DEF TypeOK, OpInv, LifeInv, StepInv, RowInv, OutputInv, Exit, Pcs, Idle, At,
           NoRow, NoLive, Processes, Generations, lifeVars, ioVars, rowVars, osVars, ptyVars
  <1>6. OutputInv'
    BY DEF TypeOK, OpInv, LifeInv, StepInv, OutputInv, Exit, Idle, At, NoRow, NoLive,
           Processes, Generations, lifeVars, ioVars, rowVars, osVars, ptyVars
  <1>7. ReachedInv'
    BY DEF ReachedInv, Exit, Idle, At, NoRow, NoLive, Processes, Generations, lifeVars,
           ioVars, rowVars, osVars, ptyVars
  <1>8. DecisionInv'
    BY DEF TypeOK, OpInv, LifeInv, StepInv, RowInv, DecisionInv, Exit, Pending, Keys, Idle,
           At, NoRow, NoLive, Processes, Generations, lifeVars, ioVars, rowVars, osVars,
           ptyVars
  <1> QED BY <1>1, <1>2, <1>3, <1>4, <1>5, <1>6, <1>7, <1>8

\* A terminal is closed by the last process that has it open.
LEMMA HangUpKeeps ==
    ASSUME TypeOK, SessionInv, NEW p \in Processes, HangUp(p)
    PROVE  TypeOK' /\ SessionInv'
PROOF
  <1> USE SessionAssumption DEF SessionInv
  <1>1. TypeOK'
    <2>1. LifeTypes'
      BY DEF TypeOK, LifeInv, StepInv, LifeTypes, States, Processes, Generations, NoLive,
             NoRow, HangUp, lifeVars, ioVars, rowVars, osVars, ptyVars
    <2>2. InputTypes'
      BY DEF TypeOK, InputTypes, OpInv, Keys, Statuses, HangUp, lifeVars, ioVars, rowVars,
             osVars, ptyVars
    <2>3. OutputTypes'
      BY DEF TypeOK, OutputTypes, LifeInv, StepInv, Processes, HangUp, lifeVars, ioVars,
             rowVars, osVars, ptyVars
    <2>4. RowTypes'
      BY DEF TypeOK, RowTypes, States, Generations, NoRow, HangUp, lifeVars, ioVars,
             rowVars, osVars, ptyVars
    <2>5. op'.pc \in Pcs
      BY DEF TypeOK, OpInv, Ops, Pcs, HangUp, Idle, At, lifeVars, ioVars, rowVars, osVars, ptyVars
    <2> QED BY <2>1, <2>2, <2>3, <2>4, <2>5
         DEF TypeOK, LifeTypes, InputTypes, OutputTypes, RowTypes, Pcs
  <1>2. OpInv'
    BY DEF TypeOK, OpInv, HangUp, Pcs, Keys, Idle, At, NoRow, NoLive, Processes,
           Generations, lifeVars, ioVars, rowVars, osVars, ptyVars, Ops
  <1>3. LifeInv'
    BY DEF TypeOK, OpInv, LifeInv, StepInv, HangUp, Idle, At, NoRow, NoLive, Processes,
           Generations, lifeVars, ioVars, rowVars, osVars, ptyVars
  <1>4. StepInv'
    BY DEF TypeOK, OpInv, LifeInv, StepInv, RowInv, HangUp, Pcs, Idle, At, NoRow, NoLive,
           Processes, Generations, lifeVars, ioVars, rowVars, osVars, ptyVars
  <1>5. RowInv'
    BY DEF TypeOK, OpInv, LifeInv, StepInv, RowInv, OutputInv, HangUp, Pcs, Idle, At,
           NoRow, NoLive, Processes, Generations, lifeVars, ioVars, rowVars, osVars, ptyVars
  <1>6. OutputInv'
    BY DEF TypeOK, OpInv, LifeInv, StepInv, OutputInv, HangUp, Idle, At, NoRow, NoLive,
           Processes, Generations, lifeVars, ioVars, rowVars, osVars, ptyVars
  <1>7. ReachedInv'
    BY DEF ReachedInv, HangUp, Idle, At, NoRow, NoLive, Processes, Generations, lifeVars,
           ioVars, rowVars, osVars, ptyVars
  <1>8. DecisionInv'
    BY DEF TypeOK, OpInv, LifeInv, StepInv, RowInv, DecisionInv, HangUp, Pending, Keys,
           Idle, At, NoRow, NoLive, Processes, Generations, lifeVars, ioVars, rowVars,
           osVars, ptyVars
  <1> QED BY <1>1, <1>2, <1>3, <1>4, <1>5, <1>6, <1>7, <1>8

\* A process becomes another user's.
LEMMA ElevateKeeps ==
    ASSUME TypeOK, SessionInv, NEW p \in Processes, Elevate(p)
    PROVE  TypeOK' /\ SessionInv'
PROOF
  <1> USE SessionAssumption DEF SessionInv
  <1>1. TypeOK'
    <2>1. LifeTypes'
      BY DEF TypeOK, LifeInv, StepInv, LifeTypes, States, Processes, Generations, NoLive,
             NoRow, Elevate, lifeVars, ioVars, rowVars, osVars, ptyVars
    <2>2. InputTypes'
      BY DEF TypeOK, InputTypes, OpInv, Keys, Statuses, Elevate, lifeVars, ioVars, rowVars,
             osVars, ptyVars
    <2>3. OutputTypes'
      BY DEF TypeOK, OutputTypes, LifeInv, StepInv, Processes, Elevate, lifeVars, ioVars,
             rowVars, osVars, ptyVars
    <2>4. RowTypes'
      BY DEF TypeOK, RowTypes, States, Generations, NoRow, Elevate, lifeVars, ioVars,
             rowVars, osVars, ptyVars
    <2>5. op'.pc \in Pcs
      BY DEF TypeOK, OpInv, Ops, Pcs, Elevate, Idle, At, lifeVars, ioVars, rowVars, osVars,
             ptyVars
    <2> QED BY <2>1, <2>2, <2>3, <2>4, <2>5
         DEF TypeOK, LifeTypes, InputTypes, OutputTypes, RowTypes, Pcs
  <1>2. OpInv'
    BY DEF TypeOK, OpInv, Elevate, Pcs, Keys, Idle, At, NoRow, NoLive, Processes,
           Generations, lifeVars, ioVars, rowVars, osVars, ptyVars, Ops
  <1>3. LifeInv'
    BY DEF TypeOK, OpInv, LifeInv, StepInv, Elevate, Idle, At, NoRow, NoLive, Processes,
           Generations, lifeVars, ioVars, rowVars, osVars, ptyVars
  <1>4. StepInv'
    BY DEF TypeOK, OpInv, LifeInv, StepInv, RowInv, Elevate, Pcs, Idle, At, NoRow, NoLive,
           Processes, Generations, lifeVars, ioVars, rowVars, osVars, ptyVars
  <1>5. RowInv'
    BY DEF TypeOK, OpInv, LifeInv, StepInv, RowInv, OutputInv, Elevate, Pcs, Idle, At,
           NoRow, NoLive, Processes, Generations, lifeVars, ioVars, rowVars, osVars, ptyVars
  <1>6. OutputInv'
    BY DEF TypeOK, OpInv, LifeInv, StepInv, OutputInv, Elevate, Idle, At, NoRow, NoLive,
           Processes, Generations, lifeVars, ioVars, rowVars, osVars, ptyVars
  <1>7. ReachedInv'
    BY DEF ReachedInv, Elevate, Idle, At, NoRow, NoLive, Processes, Generations, lifeVars,
           ioVars, rowVars, osVars, ptyVars
  <1>8. DecisionInv'
    BY DEF TypeOK, OpInv, LifeInv, StepInv, RowInv, DecisionInv, Elevate, Pending, Keys,
           Idle, At, NoRow, NoLive, Processes, Generations, lifeVars, ioVars, rowVars,
           osVars, ptyVars
  <1> QED BY <1>1, <1>2, <1>3, <1>4, <1>5, <1>6, <1>7, <1>8

\* capture appends output.
LEMMA OutputKeeps ==
    ASSUME TypeOK, SessionInv, NEW p \in Processes, Output(p)
    PROVE  TypeOK' /\ SessionInv'
PROOF
  <1> USE SessionAssumption DEF SessionInv
  <1>1. TypeOK'
    <2>1. LifeTypes'
      BY DEF TypeOK, LifeInv, StepInv, LifeTypes, States, Processes, Generations, NoLive,
             NoRow, Output, lifeVars, ioVars, rowVars, osVars, ptyVars
    <2>2. InputTypes'
      BY DEF TypeOK, InputTypes, OpInv, Keys, Statuses, Output, lifeVars, ioVars, rowVars,
             osVars, ptyVars
    <2>3. OutputTypes'
      BY DEF TypeOK, OutputTypes, LifeInv, StepInv, Processes, Output, lifeVars, ioVars,
             rowVars, osVars, ptyVars
    <2>4. RowTypes'
      BY DEF TypeOK, RowTypes, States, Generations, NoRow, Output, lifeVars, ioVars, rowVars,
             osVars, ptyVars
    <2>5. op'.pc \in Pcs
      BY DEF TypeOK, OpInv, Ops, Pcs, Output, Idle, At, lifeVars, ioVars, rowVars, osVars, ptyVars
    <2> QED BY <2>1, <2>2, <2>3, <2>4, <2>5
         DEF TypeOK, LifeTypes, InputTypes, OutputTypes, RowTypes, Pcs
  <1>2. OpInv'
    BY DEF TypeOK, OpInv, Output, Pcs, Keys, Idle, At, NoRow, NoLive, Processes, Generations,
           lifeVars, ioVars, rowVars, osVars, ptyVars, Ops
  <1>3. LifeInv'
    BY DEF TypeOK, OpInv, LifeInv, StepInv, Output, Idle, At, NoRow, NoLive, Processes,
           Generations, lifeVars, ioVars, rowVars, osVars, ptyVars
  <1>4. StepInv'
    BY DEF TypeOK, OpInv, LifeInv, StepInv, RowInv, Output, Pcs, Idle, At, NoRow, NoLive,
           Processes, Generations, lifeVars, ioVars, rowVars, osVars, ptyVars
  <1>5. RowInv'
    BY DEF TypeOK, OpInv, LifeInv, StepInv, RowInv, OutputInv, Output, Pcs, Idle, At, NoRow,
           NoLive, Processes, Generations, lifeVars, ioVars, rowVars, osVars, ptyVars
  <1>6. OutputInv'
    BY DEF TypeOK, OpInv, LifeInv, StepInv, OutputInv, Output, Idle, At, NoRow, NoLive,
           Processes, Generations, lifeVars, ioVars, rowVars, osVars, ptyVars
  <1>7. ReachedInv'
    BY DEF ReachedInv, Output, Idle, At, NoRow, NoLive, Processes, Generations, lifeVars,
           ioVars, rowVars, osVars, ptyVars
  <1>8. DecisionInv'
    BY DEF TypeOK, OpInv, LifeInv, StepInv, RowInv, DecisionInv, Output, Pending, Keys, Idle,
           At, NoRow, NoLive, Processes, Generations, lifeVars, ioVars, rowVars, osVars, ptyVars
  <1> QED BY <1>1, <1>2, <1>3, <1>4, <1>5, <1>6, <1>7, <1>8

\* capture stops the persistence goroutine at the end of the output.
LEMMA CaptureStopKeeps ==
    ASSUME TypeOK, SessionInv, NEW p \in Processes, NEW ok \in BOOLEAN, CaptureStop(p, ok)
    PROVE  TypeOK' /\ SessionInv'
PROOF
  <1> USE SessionAssumption DEF SessionInv
  <1>1. TypeOK'
    <2>1. LifeTypes'
      BY DEF TypeOK, LifeInv, StepInv, LifeTypes, States, Processes, Generations, NoLive,
             NoRow, CaptureStop, StopWriter, Statement, lifeVars, ioVars, rowVars, osVars, ptyVars
    <2>2. InputTypes'
      BY DEF TypeOK, InputTypes, OpInv, Keys, Statuses, CaptureStop, StopWriter, Statement,
             lifeVars, ioVars, rowVars, osVars, ptyVars
    <2>3. OutputTypes'
      BY DEF TypeOK, OutputTypes, LifeInv, StepInv, Processes, CaptureStop, StopWriter,
             Statement, lifeVars, ioVars, rowVars, osVars, ptyVars
    <2>4. RowTypes'
      BY DEF TypeOK, RowTypes, States, Generations, NoRow, CaptureStop, StopWriter, Statement,
             lifeVars, ioVars, rowVars, osVars, ptyVars
    <2>5. op'.pc \in Pcs
      BY DEF TypeOK, OpInv, Ops, Pcs, CaptureStop, StopWriter, Statement, Idle, At, lifeVars,
             ioVars, rowVars, osVars, ptyVars
    <2> QED BY <2>1, <2>2, <2>3, <2>4, <2>5
         DEF TypeOK, LifeTypes, InputTypes, OutputTypes, RowTypes, Pcs
  <1>2. OpInv'
    BY DEF TypeOK, OpInv, CaptureStop, StopWriter, Statement, Pcs, Keys, Idle, At, NoRow,
           NoLive, Processes, Generations, lifeVars, ioVars, rowVars, osVars, ptyVars, Ops
  <1>3. LifeInv'
    BY DEF TypeOK, OpInv, LifeInv, StepInv, CaptureStop, StopWriter, Statement, Idle, At,
           NoRow, NoLive, Processes, Generations, lifeVars, ioVars, rowVars, osVars, ptyVars
  <1>4. StepInv'
    BY DEF TypeOK, OpInv, LifeInv, StepInv, RowInv, CaptureStop, StopWriter, Statement, Pcs,
           Idle, At, NoRow, NoLive, Processes, Generations, lifeVars, ioVars, rowVars,
           osVars, ptyVars
  <1>5. RowInv'
    BY DEF TypeOK, OpInv, LifeInv, StepInv, RowInv, OutputInv, CaptureStop, StopWriter,
           Statement, Pcs, Idle, At, NoRow, NoLive, Processes, Generations, lifeVars, ioVars,
           rowVars, osVars, ptyVars
  <1>6. OutputInv'
    BY DEF TypeOK, OpInv, LifeInv, StepInv, OutputInv, CaptureStop, StopWriter, Statement,
           Idle, At, NoRow, NoLive, Processes, Generations, lifeVars, ioVars, rowVars,
           osVars, ptyVars
  <1>7. ReachedInv'
    BY DEF ReachedInv, CaptureStop, StopWriter, Statement, Idle, At, NoRow, NoLive, Processes,
           Generations, lifeVars, ioVars, rowVars, osVars, ptyVars
  <1>8. DecisionInv'
    BY DEF TypeOK, OpInv, LifeInv, StepInv, RowInv, DecisionInv, CaptureStop, StopWriter,
           Statement, Pending, Keys, Idle, At, NoRow, NoLive, Processes, Generations, lifeVars,
           ioVars, rowVars, osVars, ptyVars
  <1> QED BY <1>1, <1>2, <1>3, <1>4, <1>5, <1>6, <1>7, <1>8

\* capture settles the session of a process that ended.
LEMMA CaptureSettleKeeps ==
    ASSUME TypeOK, SessionInv, NEW p \in Processes, NEW ok \in BOOLEAN, CaptureSettle(p, ok)
    PROVE  TypeOK' /\ SessionInv'
PROOF
  <1> USE SessionAssumption DEF SessionInv
  <1>1. TypeOK'
    <2>1. LifeTypes'
      BY DEF TypeOK, LifeInv, StepInv, LifeTypes, States, Processes, Generations, NoLive,
             NoRow, CaptureSettle, Persist, lifeVars, ioVars, rowVars, osVars, ptyVars
    <2>2. InputTypes'
      BY DEF TypeOK, InputTypes, OpInv, Keys, Statuses, CaptureSettle, Persist, lifeVars,
             ioVars, rowVars, osVars, ptyVars
    <2>3. OutputTypes'
      BY DEF TypeOK, OutputTypes, LifeInv, StepInv, Processes, CaptureSettle, Persist,
             lifeVars, ioVars, rowVars, osVars, ptyVars
    <2>4. RowTypes'
      BY DEF TypeOK, RowTypes, States, Generations, NoRow, CaptureSettle, Persist, lifeVars,
             ioVars, rowVars, osVars, ptyVars
    <2>5. op'.pc \in Pcs
      BY DEF TypeOK, OpInv, Ops, Pcs, CaptureSettle, Persist, Idle, At, lifeVars, ioVars,
             rowVars, osVars, ptyVars
    <2> QED BY <2>1, <2>2, <2>3, <2>4, <2>5
         DEF TypeOK, LifeTypes, InputTypes, OutputTypes, RowTypes, Pcs
  <1>2. OpInv'
    BY DEF TypeOK, OpInv, CaptureSettle, Persist, Pcs, Keys, Idle, At, NoRow, NoLive,
           Processes, Generations, lifeVars, ioVars, rowVars, osVars, ptyVars, Ops
  <1>3. LifeInv'
    BY DEF TypeOK, OpInv, LifeInv, StepInv, CaptureSettle, Persist, Idle, At, NoRow, NoLive,
           Processes, Generations, lifeVars, ioVars, rowVars, osVars, ptyVars
  <1>4. StepInv'
    BY DEF TypeOK, OpInv, LifeInv, StepInv, RowInv, CaptureSettle, Persist, Pcs, Idle, At,
           NoRow, NoLive, Processes, Generations, lifeVars, ioVars, rowVars, osVars, ptyVars
  <1>5. RowInv'
    BY DEF TypeOK, OpInv, LifeInv, StepInv, RowInv, OutputInv, CaptureSettle, Persist, Pcs,
           Idle, At, NoRow, NoLive, Processes, Generations, lifeVars, ioVars, rowVars,
           osVars, ptyVars
  <1>6. OutputInv'
    BY DEF TypeOK, OpInv, LifeInv, StepInv, OutputInv, CaptureSettle, Persist, Idle, At, NoRow,
           NoLive, Processes, Generations, lifeVars, ioVars, rowVars, osVars, ptyVars
  <1>7. ReachedInv'
    BY DEF ReachedInv, CaptureSettle, Persist, Idle, At, NoRow, NoLive, Processes, Generations,
           lifeVars, ioVars, rowVars, osVars, ptyVars
  <1>8. DecisionInv'
    BY DEF TypeOK, OpInv, LifeInv, StepInv, RowInv, DecisionInv, CaptureSettle, Persist,
           Pending, Keys, Idle, At, NoRow, NoLive, Processes, Generations, lifeVars, ioVars,
           rowVars, osVars, ptyVars
  <1> QED BY <1>1, <1>2, <1>3, <1>4, <1>5, <1>6, <1>7, <1>8

\* finishClosing ends what Close left.
LEMMA FinishClosingKeeps ==
    ASSUME TypeOK, SessionInv, NEW p \in Processes, NEW ok \in BOOLEAN, FinishClosing(p, ok)
    PROVE  TypeOK' /\ SessionInv'
PROOF
  <1> USE SessionAssumption DEF SessionInv
  <1>1. TypeOK'
    <2>1. LifeTypes'
      BY DEF TypeOK, LifeInv, StepInv, LifeTypes, States, Processes, Generations, NoLive,
             NoRow, FinishClosing, Persist, Kill, Terminate, lifeVars, ioVars, rowVars,
             osVars, ptyVars
    <2>2. InputTypes'
      BY DEF TypeOK, InputTypes, OpInv, Keys, Statuses, FinishClosing, Persist, Kill,
             Terminate, lifeVars, ioVars, rowVars, osVars, ptyVars
    <2>3. OutputTypes'
      BY DEF TypeOK, OutputTypes, LifeInv, StepInv, Processes, FinishClosing, Persist, Kill,
             Terminate, lifeVars, ioVars, rowVars, osVars, ptyVars
    <2>4. RowTypes'
      BY DEF TypeOK, RowTypes, States, Generations, NoRow, FinishClosing, Persist, Kill,
             Terminate, lifeVars, ioVars, rowVars, osVars, ptyVars
    <2>5. op'.pc \in Pcs
      BY DEF TypeOK, OpInv, Ops, Pcs, FinishClosing, Persist, Kill, Terminate, Idle, At,
             lifeVars, ioVars, rowVars, osVars, ptyVars
    <2> QED BY <2>1, <2>2, <2>3, <2>4, <2>5
         DEF TypeOK, LifeTypes, InputTypes, OutputTypes, RowTypes, Pcs
  <1>2. OpInv'
    BY DEF TypeOK, OpInv, FinishClosing, Persist, Kill, Terminate, Pcs, Keys, Idle, At,
           NoRow, NoLive, Processes, Generations, lifeVars, ioVars, rowVars, osVars,
           ptyVars, Ops
  <1>3. LifeInv'
    <2>1. /\ UNCHANGED <<gen, live, capture, launches>>
          /\ row'.gen = row.gen \/ row'.gen = gen
      BY DEF FinishClosing, Persist, ioVars
    <2>2. \/ state = "closing" /\ state' = "closed" /\ proc' = 0 /\ alive' \ immune' = {}
          \/ UNCHANGED <<state, proc, alive, immune>>
      BY DEF FinishClosing, Kill, LifeInv, ptyVars
    <2>3. CASE state = "closing" /\ state' = "closed" /\ proc' = 0 /\ alive' \ immune' = {}
      BY <2>1, <2>3 DEF LifeInv
    <2>4. CASE UNCHANGED <<state, proc, alive, immune>>
      BY <2>1, <2>4 DEF LifeInv
    <2> QED BY <2>2, <2>3, <2>4
  <1>4. StepInv'
    BY DEF TypeOK, OpInv, LifeInv, StepInv, RowInv, FinishClosing, Persist, Kill, Terminate,
           Pcs, Idle, At, NoRow, NoLive, Processes, Generations, lifeVars, ioVars, rowVars,
           osVars, ptyVars
  <1>5. RowInv'
    BY DEF TypeOK, OpInv, LifeInv, StepInv, RowInv, OutputInv, FinishClosing, Persist, Kill,
           Terminate, Pcs, Idle, At, NoRow, NoLive, Processes, Generations, lifeVars,
           ioVars, rowVars, osVars, ptyVars
  <1>6. OutputInv'
    BY DEF TypeOK, OpInv, LifeInv, StepInv, OutputInv, FinishClosing, Persist, Kill,
           Terminate, Idle, At, NoRow, NoLive, Processes, Generations, lifeVars, ioVars,
           rowVars, osVars, ptyVars
  <1>7. ReachedInv'
    BY DEF ReachedInv, FinishClosing, Persist, Kill, Terminate, Idle, At, NoRow, NoLive,
           Processes, Generations, lifeVars, ioVars, rowVars, osVars, ptyVars
  <1>8. DecisionInv'
    BY DEF TypeOK, OpInv, LifeInv, StepInv, RowInv, DecisionInv, FinishClosing, Persist,
           Kill, Terminate, Pending, Keys, Idle, At, NoRow, NoLive, Processes, Generations,
           lifeVars, ioVars, rowVars, osVars, ptyVars
  <1> QED BY <1>1, <1>2, <1>3, <1>4, <1>5, <1>6, <1>7, <1>8

\* The debounce timer flushes, or the persistence goroutine ends.
LEMMA FlushKeeps ==
    ASSUME TypeOK, SessionInv, NEW p \in Processes, NEW ok \in BOOLEAN, Flush(p, ok)
    PROVE  TypeOK' /\ SessionInv'
PROOF
  <1> USE SessionAssumption DEF SessionInv
  <1>1. TypeOK'
    <2>1. LifeTypes'
      BY DEF TypeOK, LifeInv, StepInv, LifeTypes, States, Processes, Generations, NoLive,
             NoRow, Flush, Statement, lifeVars, ioVars, rowVars, osVars, ptyVars
    <2>2. InputTypes'
      BY DEF TypeOK, InputTypes, OpInv, Keys, Statuses, Flush, Statement, lifeVars, ioVars,
             rowVars, osVars, ptyVars
    <2>3. OutputTypes'
      BY DEF TypeOK, OutputTypes, LifeInv, StepInv, Processes, Flush, Statement, lifeVars,
             ioVars, rowVars, osVars, ptyVars
    <2>4. RowTypes'
      BY DEF TypeOK, RowTypes, States, Generations, NoRow, Flush, Statement, lifeVars, ioVars,
             rowVars, osVars, ptyVars
    <2>5. op'.pc \in Pcs
      BY DEF TypeOK, OpInv, Ops, Pcs, Flush, Statement, Idle, At, lifeVars, ioVars, rowVars,
             osVars, ptyVars
    <2> QED BY <2>1, <2>2, <2>3, <2>4, <2>5
         DEF TypeOK, LifeTypes, InputTypes, OutputTypes, RowTypes, Pcs
  <1>2. OpInv'
    BY DEF TypeOK, OpInv, Flush, Statement, Pcs, Keys, Idle, At, NoRow, NoLive, Processes,
           Generations, lifeVars, ioVars, rowVars, osVars, ptyVars, Ops
  <1>3. LifeInv'
    BY DEF TypeOK, OpInv, LifeInv, StepInv, Flush, Statement, Idle, At, NoRow, NoLive,
           Processes, Generations, lifeVars, ioVars, rowVars, osVars, ptyVars
  <1>4. StepInv'
    BY DEF TypeOK, OpInv, LifeInv, StepInv, RowInv, Flush, Statement, Pcs, Idle, At, NoRow,
           NoLive, Processes, Generations, lifeVars, ioVars, rowVars, osVars, ptyVars
  <1>5. RowInv'
    BY DEF TypeOK, OpInv, LifeInv, StepInv, RowInv, OutputInv, Flush, Statement, Pcs, Idle, At,
           NoRow, NoLive, Processes, Generations, lifeVars, ioVars, rowVars, osVars, ptyVars
  <1>6. OutputInv'
    <2>1. UNCHANGED <<op, proc, capture, launches, state, writer, latest>>
      BY DEF Flush, lifeVars, osVars, ptyVars
    <2>2. CASE ok
      BY <2>1, <2>2 DEF Flush, Statement, OutputInv
    <2>3. CASE ~ok
      <3>1. faults' # 0
        BY <2>3, FaultCounted DEF Flush, Statement
      <3> QED BY <2>1, <3>1 DEF OutputInv
    <2> QED BY <2>2, <2>3
  <1>7. ReachedInv'
    BY DEF ReachedInv, Flush, Statement, Idle, At, NoRow, NoLive, Processes, Generations,
           lifeVars, ioVars, rowVars, osVars, ptyVars
  <1>8. DecisionInv'
    BY DEF TypeOK, OpInv, LifeInv, StepInv, RowInv, DecisionInv, Flush, Statement, Pending,
           Keys, Idle, At, NoRow, NoLive, Processes, Generations, lifeVars, ioVars, rowVars,
           osVars, ptyVars
  <1> QED BY <1>1, <1>2, <1>3, <1>4, <1>5, <1>6, <1>7, <1>8

-----------------------------------------------------------------------------
(* The theorems. *)

\* A manager without a session satisfies the invariant.
LEMMA InitiallySound == Init => TypeOK /\ SessionInv
PROOF
  <1> SUFFICES ASSUME Init PROVE TypeOK /\ SessionInv
    OBVIOUS
  <1> USE SessionAssumption
  <1>1. DOMAIN inputs = {} /\ DOMAIN stored = {} /\ DOMAIN reached = {}
    BY DEF Init, Empty
  <1>2. TypeOK
    <2>1. /\ state \in States /\ live \in [proc : Processes \cup {0}, gen : Generations]
          /\ row \in [state : States \ {"deleted", "refused"}, gen : Generations]
      BY Bounds DEF Init, States, NoLive, NoRow
    <2>2. Cardinality(DOMAIN inputs) <= MaxDecisions
      BY <1>1, FS_EmptySet
    <2>3. capture \in [Processes -> {"none", "reading", "waiting", "done"}]
      BY DEF Init
    <2>4. gen \in Generations /\ proc \in Processes \cup {0} /\ op.pc = "idle"
      BY Bounds DEF Init, Idle
    <2>5. latest \in 0..MaxOutput /\ durable \in 0..MaxOutput /\ launches \in 0..MaxLaunches
          /\ crashes \in 0..MaxCrashes /\ faults \in 0..MaxFaults
      BY DEF Init
    <2> QED BY <1>1, <2>1, <2>2, <2>3, <2>4, <2>5 DEF Init, TypeOK
  <1>3. OpInv
    BY StepNames DEF Init, OpInv
  <1>4. LifeInv
    BY DEF Init, LifeInv, NoLive, NoRow
  <1>5. StepInv /\ RowInv /\ OutputInv
    BY StepNames DEF Init, StepInv, RowInv, OutputInv, NoRow
  <1>6. ReachedInv /\ DecisionInv
    BY <1>1, FS_EmptySet, StepNames DEF Init, ReachedInv, DecisionInv, Pending
  <1> QED BY <1>2, <1>3, <1>4, <1>5, <1>6 DEF SessionInv

\* A stuttering step changes nothing.
LEMMA StutterKeeps ==
    ASSUME TypeOK, SessionInv, UNCHANGED vars
    PROVE  TypeOK' /\ SessionInv'
PROOF
  <1> USE DEF vars
  <1>1. TypeOK'
    BY DEF TypeOK
  <1>2. OpInv' /\ LifeInv' /\ StepInv' /\ RowInv'
    BY DEF SessionInv, OpInv, LifeInv, StepInv, RowInv
  <1>3. OutputInv' /\ ReachedInv' /\ DecisionInv'
    BY DEF SessionInv, OutputInv, ReachedInv, DecisionInv, Pending
  <1> QED BY <1>1, <1>2, <1>3 DEF SessionInv

\* Every step of the session, its goroutines, its processes and a crash keeps the
\* inductive invariant: the step of the operation that holds opMu determines what
\* the lifecycle, the row and the journal of inputs say.
THEOREM SessionInvariance == Spec => [](TypeOK /\ SessionInv)
PROOF
  <1>1. Init => TypeOK /\ SessionInv
    BY InitiallySound
  <1>2. TypeOK /\ SessionInv /\ [Next]_vars => (TypeOK /\ SessionInv)'
    <2> SUFFICES ASSUME TypeOK, SessionInv, [Next]_vars
                 PROVE  TypeOK' /\ SessionInv'
      OBVIOUS
    <2>1. CASE CreateRow
      BY <2>1, CreateRowKeeps
    <2>2. CASE Continue
      BY <2>2, CreateLaunchKeeps, PtyWriteKeeps, ClosePersistKeeps, CloseTerminateKeeps,
         RestartLaunchKeeps, RestartPersistKeeps, SettleInputKeeps DEF Continue
    <2>3. CASE Crash
      BY <2>3, CrashKeeps
    <2>4. CASE \E ok \in BOOLEAN : CloseExited(ok) \/ CloseBegin(ok) \/ RestartBegin(ok) \/ Delete(ok)
      BY <2>4, CloseExitedKeeps, CloseBeginKeeps, RestartBeginKeeps, DeleteKeeps
    <2>5. CASE \E k \in Keys, ok \in BOOLEAN : WriteBegin(k, ok)
      BY <2>5, WriteBeginKeeps
    <2>6. CASE \E p \in Processes : Exit(p) \/ HangUp(p) \/ Elevate(p) \/ Output(p)
      BY <2>6, ExitKeeps, HangUpKeeps, ElevateKeeps, OutputKeeps
    <2>7. CASE \E p \in Processes : Capture(p) \/ Finish(p)
      BY <2>7, CaptureStopKeeps, CaptureSettleKeeps, FinishClosingKeeps DEF Capture, Finish
    <2>8. CASE \E p \in Processes, ok \in BOOLEAN : Flush(p, ok)
      BY <2>8, FlushKeeps
    <2>9. CASE UNCHANGED vars
      BY <2>9, StutterKeeps
    <2> QED BY <2>1, <2>2, <2>3, <2>4, <2>5, <2>6, <2>7, <2>8, <2>9 DEF Next
  <1> QED BY <1>1, <1>2, PTL DEF Spec

\* The state of the session keeps its types; in particular the journal of inputs
\* never holds more than its limit of decisions, also when it is recovered from
\* the store, and no step launches beyond the bound.
THEOREM SessionTypeCorrect == Spec => []TypeOK
PROOF
  BY SessionInvariance, PTL

\* Whatever statement fails and however Close, Restart, a late capture and a late
\* finishClosing interleave with crashes, a PTY process that runs is the one the
\* session holds, unless it became another user's, which Close gives up; a session
\* that is closing holds its process, and stream input goes only to that process
\* while the session runs.
THEOREM ProcessesOwned == Spec => []NoOrphan
PROOF
  <1>1. LifeInv => NoOrphan
    BY DEF LifeInv, NoOrphan
  <1> QED BY <1>1, SessionInvariance, PTL DEF SessionInv

\* The durable row never falls behind a session that is reported running, agrees
\* with the session while no statement fails, and is gone once it is deleted; the
\* output of a first process that ended by itself is stored when the session is
\* reported exited.
THEOREM RowsFollow == Spec => []RowFollows
PROOF
  <1>1. TypeOK /\ LifeInv /\ RowInv /\ OutputInv => RowFollows
    BY Bounds DEF TypeOK, LifeInv, RowInv, OutputInv, RowFollows
  <1> QED BY <1>1, SessionInvariance, PTL DEF SessionInv

\* No input reaches a terminal twice, without a durable decision or behind a
\* partial write, and a durable decision says what happened, across crashes.
THEOREM InputsTruthful == Spec => []InputsAreTruthful
PROOF
  <1>1. TypeOK /\ LifeInv /\ ReachedInv /\ DecisionInv => InputsAreTruthful
    <2> SUFFICES ASSUME TypeOK, LifeInv, ReachedInv, DecisionInv, NEW k \in DOMAIN reached
                 PROVE  /\ reached[k].times = 1
                        /\ state # "deleted" =>
                             /\ k \in DOMAIN stored
                             /\ stored[k] \in {"uncertain", Verdict(reached[k].amount)}
                        /\ \A x \in DOMAIN reached :
                             (x.gen = k.gen /\ x.seq < k.seq) => reached[x].amount # "some"
                        /\ (proc # 0 /\ k.gen = gen) => reached[k].proc = proc
      BY DEF InputsAreTruthful
    <2>1. reached[k].times = 1
      BY DEF ReachedInv
    <2>2. state # "deleted" => k \in DOMAIN stored
      BY DEF DecisionInv
    <2>3. proc # 0 => state # "deleted"
      BY DEF LifeInv
    <2> QED BY <2>1, <2>2, <2>3 DEF ReachedInv, DecisionInv
  <1> QED BY <1>1, SessionInvariance, PTL DEF SessionInv
=============================================================================
