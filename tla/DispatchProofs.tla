---------------------------- MODULE DispatchProofs ----------------------------
(***************************************************************************)
(* Proofs about the executing workflow, for any number of processes,       *)
(* waves, configurations, requests, deaths and foreign patches.            *)
(*                                                                         *)
(* The inductive invariant has four parts:                                 *)
(*   Typed      types, and that whoever is inside a step has steps left;   *)
(*   Exclusive  whoever is awake holds the execution lock;                 *)
(*   Tables     what the committed waves, results, patches and telemetry   *)
(*              say of each other;                                         *)
(*   Holding    what the process that is awake has in memory about them.   *)
(* Only the holder of the lock moves the tables, and a process that is     *)
(* off holds nothing: so each step owes the invariant of one memory.       *)
(***************************************************************************)
EXTENDS Dispatch, TLAPS

Mem ==
  [pc : Phases, config : Configs \cup {"none"}, steps : 0..MaxSteps,
   plan : Waves \cup {<<>>}, pending : SUBSET Dispatches, replay : BOOLEAN,
   completed : SUBSET Dispatches, current : Dispatches \cup {NoDispatch},
   won : BOOLEAN, failed : BOOLEAN, fresh : BOOLEAN, head : Nat,
   exit : {"none", "stop", "config", "solved", "await", "pause_requested", "stopping"}]

Ready(m) ==
  /\ m.pc \in Inside => m.steps > 0
  /\ m.pc \in Inside \cup {"sync", "check"} => m.config \in Configs

Typed ==
  /\ TypeOK
  /\ \A o \in Orchestrators : Ready(wf[o])

Exclusive == \A o \in Orchestrators : lock = o <=> ~At(o, "off")

\* The store: what has not been committed has left no trace, a dispatch is linked
\* after it returned, what landed was a patch, and the properties themselves.
Tables ==
  /\ \A d \in Dispatches \ Committed :
       receipt[d] = "none" /\ run[d] = "none" /\ landed[d] = 0 /\ attempts[d] = 0
  /\ \A d \in Dispatches : run[d] # "none" => receipt[d] # "none"
  /\ \A d \in Dispatches : landed[d] > 0 => receipt[d] = "patch"
  /\ TruthfulTelemetry
  /\ OnlyLatestUnresolved
  /\ UnsafeRunsOnce

Latest == Members(Len(waves))

Awaited == {d \in Latest : receipt[d] = "none"}

\* A wave about to be executed: everything that has not returned, and nothing that
\* may not be invoked again.
Executes(m) ==
  /\ m.pending = Awaited
  /\ contract[Len(waves)] \notin Replayable => \A d \in m.pending : attempts[d] = 0

\* A wave being merged: whatever has not returned is awaited or holds nothing back.
Merges(m) ==
  /\ m.pending \cap m.completed = {}
  /\ \A d \in m.completed : receipt[d] # "none"
  /\ ~m.replay => m.pending = Awaited
  /\ m.replay =>
       \A d \in m.pending \cup m.completed :
         /\ receipt[d] # "none"
         /\ \A e \in Awaited : ~(Critical(e) /\ Before(e, d))
  /\ m.current # NoDispatch =>
       m.current \in m.completed /\ (m.won <=> landed[m.current] = 1)

Holding(m) ==
  /\ m.pc = "commit" => m.plan \in Waves /\ Len(waves) < MaxWaves
  /\ m.pc \in {"handoff", "prepare", "claim", "run"} =>
       waves # <<>> /\ m.pending \cup m.completed \subseteq Unlinked(Len(waves))
  /\ m.pc \in {"handoff", "prepare", "claim"} => Executes(m)
  /\ IF m.pc = "run" THEN Merges(m)
     ELSE ~m.replay /\ m.completed = {} /\ m.current = NoDispatch

IInv == Typed /\ Exclusive /\ Tables /\ \A o \in Orchestrators : Holding(wf[o])

-----------------------------------------------------------------------------
(* Types *)

\* What Idle holds, and what the loop and an exit start from.
LEMMA IdleType ==
  ASSUME NEW pc \in Phases, NEW config \in Configs \cup {"none"}, NEW steps \in 0..MaxSteps,
         NEW exit \in {"none", "stop", "config", "solved", "await", "pause_requested", "stopping"}
  PROVE  /\ [Idle EXCEPT !.pc = pc, !.config = config, !.steps = steps] \in Mem
         /\ [Idle EXCEPT !.pc = pc, !.exit = exit] \in Mem
         /\ Idle \in Mem /\ Idle.pc = "off"
<1>1. 0 \in 0..MaxSteps
  BY DispatchAssumption
<1>2. Idle \in Mem /\ Idle.pc = "off"
  BY <1>1 DEF Idle, Mem, Phases
<1>3. ASSUME NEW m \in Mem
      PROVE  /\ [m EXCEPT !.pc = pc, !.config = config, !.steps = steps] \in Mem
             /\ [m EXCEPT !.pc = pc, !.exit = exit] \in Mem
  BY DEF Mem
<1> QED
  BY <1>2, <1>3

\* One memory changes, and the others at most forget that they are fresh.
LEMMA MemoryType ==
  ASSUME Typed, NEW o \in Orchestrators, NEW mem \in Mem, Ready(mem),
         Remember(o, mem) \/ RememberChanged(o, mem)
  PROVE  /\ wf' \in [Orchestrators -> Mem]
         /\ \A p \in Orchestrators : Ready(wf[p])'
         /\ wf'[o] = mem
         /\ \A p \in Orchestrators \ {o} : wf'[p] = [wf[p] EXCEPT !.fresh = wf'[p].fresh]
<1>1. wf \in [Orchestrators -> Mem] /\ \A p \in Orchestrators : Ready(wf[p])
  BY DEF Typed, TypeOK, Mem
<1>2. ASSUME NEW p \in Orchestrators
      PROVE  /\ [wf[p] EXCEPT !.fresh = FALSE] \in Mem
             /\ [wf[p] EXCEPT !.fresh = FALSE].pc = wf[p].pc
             /\ [wf[p] EXCEPT !.fresh = FALSE].steps = wf[p].steps
             /\ [wf[p] EXCEPT !.fresh = FALSE].config = wf[p].config
             /\ [wf[p] EXCEPT !.fresh = FALSE].fresh = FALSE
             /\ wf[p] = [wf[p] EXCEPT !.fresh = wf[p].fresh]
  BY <1>1 DEF Mem
<1>3. CASE Remember(o, mem)
  BY <1>1, <1>2, <1>3 DEF Remember, Ready
<1>4. CASE RememberChanged(o, mem)
  BY <1>1, <1>2, <1>4 DEF RememberChanged, Ready
<1> QED
  BY <1>3, <1>4

\* What TypeOK says of everything but the memories.
StoreOK ==
  /\ TypeOKControl
  /\ waves \in Seq(Waves) /\ Len(waves) <= MaxWaves
  /\ contract \in Seq(Configs) /\ Len(contract) = Len(waves)
  /\ attempts \in [Dispatches -> Nat]
  /\ receipt \in [Dispatches -> {"none", "patch", "error"}]
  /\ planHead \in [Dispatches -> Nat]
  /\ landed \in [Dispatches -> Nat]
  /\ run \in [Dispatches -> {"none", "accepted", "rejected"}]
  /\ lock \in Orchestrators \cup {Nobody}
  /\ launches \in 0..MaxLaunches
  /\ faults \in 0..MaxFaults
  /\ changes \in 0..MaxChanges
  /\ late \in Nat

LEMMA TypeParts == TypeOK <=> StoreOK /\ wf \in [Orchestrators -> Mem]
BY DEF TypeOK, StoreOK, Mem

\* The dispatches of a committed wave.
LEMMA WaveFacts ==
  ASSUME StoreOK
  PROVE  /\ Len(waves) \in Nat /\ DOMAIN waves = 1..Len(waves)
         /\ \A g \in 1..Len(waves) : waves[g] \in Waves /\ Members(g) \subseteq Dispatches
         /\ \A w \in Waves : DOMAIN w = 1..Len(w) /\ Len(w) \in 1..MaxWidth
         /\ \A g \in 1..Len(waves) : \A d \in Members(g) : d[1] = g
         /\ Committed = UNION {Members(g) : g \in 1..Len(waves)}
<1>1. Len(waves) \in Nat /\ DOMAIN waves = 1..Len(waves)
  BY DEF StoreOK
<1>2. \A w \in Waves : DOMAIN w = 1..Len(w) /\ Len(w) \in 1..MaxWidth
  BY DispatchAssumption
<1>3. ASSUME NEW g \in 1..Len(waves)
      PROVE  waves[g] \in Waves /\ Members(g) \subseteq Dispatches /\ \A d \in Members(g) : d[1] = g
  <2>1. waves[g] \in Waves
    BY <1>3 DEF StoreOK
  <2>2. g \in 1..MaxWaves
    BY <1>1, DispatchAssumption DEF StoreOK
  <2>3. DOMAIN waves[g] \subseteq 1..MaxWidth
    BY <1>2, <2>1, DispatchAssumption
  <2>4. ASSUME NEW d \in Members(g)
        PROVE  d \in Dispatches /\ d[1] = g
    <3>1. PICK i \in DOMAIN waves[g] : d = <<g, i>>
      BY DEF Members
    <3> QED
      BY <2>2, <2>3, <3>1 DEF Dispatches
  <2> QED
    BY <2>1, <2>4
<1> QED
  BY <1>1, <1>2, <1>3 DEF Committed

-----------------------------------------------------------------------------
(* A step owes the invariant of one memory *)

\* A process that is off holds nothing.
LEMMA OffHolds ==
  ASSUME NEW m, m.pc \notin {"commit", "handoff", "prepare", "claim", "run"},
         ~m.replay, m.completed = {}, m.current = NoDispatch
  PROVE  Holding(m) /\ Holding(m)'
BY DEF Holding

\* What is left of a memory when the loop starts over or is left.
LEMMA ForgottenHolds ==
  ASSUME NEW pc \in Phases \ {"commit", "handoff", "prepare", "claim", "run"},
         NEW config \in Configs \cup {"none"}, NEW steps \in 0..MaxSteps,
         NEW exit \in {"none", "stop", "config", "solved", "await", "pause_requested", "stopping"}
  PROVE  /\ Holding([Idle EXCEPT !.pc = pc, !.config = config, !.steps = steps])
         /\ Holding([Idle EXCEPT !.pc = pc, !.exit = exit])
         /\ Holding(Idle)
<1>1. ASSUME NEW m, m.pc \in Phases \ {"commit", "handoff", "prepare", "claim", "run"},
             ~m.replay, m.completed = {}, m.current = NoDispatch
      PROVE  Holding(m)
  BY <1>1, OffHolds
<1> QED
  BY <1>1 DEF Idle, Phases

\* The lock goes with the memory.
LEMMA StepKeeps ==
  ASSUME IInv, NEW o \in Orchestrators, NEW mem \in Mem,
         ~At(o, "off") \/ lock = Nobody,
         Ready(mem),
         Remember(o, mem) \/ RememberChanged(o, mem),
         lock' = IF mem.pc = "off" THEN Nobody ELSE o,
         StoreOK', Tables', Holding(mem)'
  PROVE  IInv'
<1>1. /\ wf' \in [Orchestrators -> Mem]
      /\ \A p \in Orchestrators : Ready(wf[p])'
      /\ wf'[o] = mem
      /\ \A p \in Orchestrators \ {o} : wf'[p] = [wf[p] EXCEPT !.fresh = wf'[p].fresh]
  BY MemoryType DEF IInv
<1>2. Typed'
  BY <1>1, TypeParts DEF Typed, TypeOK, StoreOK, Mem
<1>3. ASSUME NEW p \in Orchestrators \ {o}
      PROVE  wf[p].pc = "off" /\ wf'[p].pc = "off" /\ Holding(wf[p])'
  <2>1. wf[p].pc = "off"
    BY DispatchAssumption DEF IInv, Exclusive, At
  <2>2. wf[p] \in Mem /\ wf'[p] = [wf[p] EXCEPT !.fresh = wf'[p].fresh]
    BY <1>1 DEF IInv, Typed, TypeOK, Mem
  <2>3. ~wf[p].replay /\ wf[p].completed = {} /\ wf[p].current = NoDispatch
    BY <2>1 DEF IInv, Holding
  <2>4. wf'[p].pc = "off" /\ ~wf'[p].replay /\ wf'[p].completed = {} /\ wf'[p].current = NoDispatch
    BY <2>1, <2>2, <2>3 DEF Mem
  <2> QED
    BY <2>1, <2>4 DEF Holding
<1>4. Exclusive'
  BY <1>1, <1>3, DispatchAssumption DEF Exclusive, At
<1>5. \A p \in Orchestrators : Holding(wf[p])'
  BY <1>1, <1>3
<1> QED
  BY <1>2, <1>4, <1>5 DEF IInv

\* A step that leaves the ledger alone owes the memory only.
LEMMA QuietStep ==
  ASSUME IInv, NEW o \in Orchestrators, NEW mem \in Mem,
         ~At(o, "off") \/ lock = Nobody,
         Ready(mem),
         Remember(o, mem),
         lock' = IF mem.pc = "off" THEN Nobody ELSE o,
         StoreOK', UNCHANGED ledgerVars, Holding(mem)
  PROVE  IInv'
<1>1. Tables'
  BY DEF IInv, Tables, ledgerVars, Committed, Members, TruthfulTelemetry, OnlyLatestUnresolved,
         UnsafeRunsOnce
<1>2. Holding(mem)'
  BY DEF Holding, Executes, Merges, Unlinked, Awaited, Latest, Members, ledgerVars,
         Critical, Before, Member, IsCompanion
<1> QED
  BY <1>1, <1>2, StepKeeps


-----------------------------------------------------------------------------
(* Steps that leave the ledger alone *)

LEMMA SameStore ==
  ASSUME StoreOK, UNCHANGED <<controlVars, ledgerVars, boundVars, late>>,
         lock' \in Orchestrators \cup {Nobody}
  PROVE  StoreOK'
BY DEF StoreOK, TypeOKControl, controlVars, ledgerVars, boundVars

\* A status that the workflow writes.
LEMMA WrittenStore ==
  ASSUME StoreOK, NEW new \in RunStatuses, NEW source \in Sources,
         SetStatus(new, source, FALSE), late' = 0,
         UNCHANGED <<operator, requests, ledgerVars, boundVars>>,
         lock' \in Orchestrators \cup {Nobody}
  PROVE  StoreOK'
<1>1. [from |-> status, to |-> new, hard |-> FALSE, source |-> source]
        \in [from : RunStatuses, to : RunStatuses, hard : BOOLEAN, source : Sources]
  BY DEF StoreOK, TypeOKControl
<1>2. TypeOKControl'
  BY <1>1 DEF StoreOK, TypeOKControl, SetStatus
<1> QED
  BY <1>2 DEF StoreOK, ledgerVars, boundVars

\* The memory of o, typed.
LEMMA MemoryOf ==
  ASSUME IInv, NEW o \in Orchestrators
  PROVE  /\ wf[o] \in Mem /\ Holding(wf[o]) /\ StoreOK
         /\ Ready(wf[o])
         /\ ~At(o, "off") => lock = o
BY TypeParts DEF IInv, Typed, Exclusive

\* An exit, a new round of the loop, and the end of an invocation.
LEMMA ExitKeeps ==
  ASSUME IInv, NEW o \in Orchestrators, ~At(o, "off"), StoreOK', UNCHANGED ledgerVars,
         \/ /\ lock' = lock
            /\ \/ \E pc \in {"park", "final", "abort", "aborted"},
                     exit \in {"none", "stop", "config", "solved", "await",
                              "pause_requested", "stopping"} : Exit(o, pc, exit)
               \/ wf[o].config \in Configs /\ \E steps \in 0..MaxSteps : Again(o, steps)
         \/ Leave(o)
  PROVE  IInv'
<1>1. lock = o /\ o # Nobody /\ wf[o] \in Mem
  BY MemoryOf, DispatchAssumption
<1>2. ASSUME lock' = lock, NEW pc \in {"park", "final", "abort", "aborted"},
             NEW exit \in {"none", "stop", "config", "solved", "await",
                           "pause_requested", "stopping"}, Exit(o, pc, exit)
      PROVE  IInv'
  <2> DEFINE mem == [Idle EXCEPT !.pc = pc, !.exit = exit]
  <2>1. "none" \in Configs \cup {"none"} /\ 0 \in 0..MaxSteps
    BY DispatchAssumption
  <2>2. pc \in Phases \ {"commit", "handoff", "prepare", "claim", "run"} /\ pc \notin Inside /\ pc # "off"
    BY <1>2 DEF Phases, Inside
  <2>3. mem \in Mem /\ Holding(mem)
    BY <2>1, <2>2, IdleType, ForgottenHolds
  <2>4. mem.pc = pc
    BY DEF Idle
  <2>5. Remember(o, mem)
    BY <1>2 DEF Exit
  <2> HIDE DEF mem
  <2>6. Ready(mem)
    BY <1>2, <2>4 DEF Ready, Inside
  <2> QED
    BY <1>1, <1>2, <2>2, <2>3, <2>4, <2>5, <2>6, QuietStep
<1>3. ASSUME lock' = lock, wf[o].config \in Configs, NEW steps \in 0..MaxSteps, Again(o, steps)
      PROVE  IInv'
  <2> DEFINE mem == [Idle EXCEPT !.pc = "check", !.config = wf[o].config, !.steps = steps]
  <2>1. wf[o].config \in Configs \cup {"none"}
    BY <1>1 DEF Mem
  <2>2. "check" \in Phases \ {"commit", "handoff", "prepare", "claim", "run"} /\ "check" \notin Inside
    BY DEF Phases, Inside
  <2>3. mem \in Mem /\ Holding(mem)
    BY <2>1, <2>2, IdleType, ForgottenHolds
  <2>4. mem.pc = "check" /\ mem.config = wf[o].config
    BY DEF Idle
  <2>5. Remember(o, mem)
    BY <1>3 DEF Again
  <2> HIDE DEF mem
  <2>6. Ready(mem)
    BY <1>3, <2>4 DEF Ready, Inside
  <2> QED
    BY <1>1, <1>3, <2>2, <2>3, <2>4, <2>5, <2>6, QuietStep
<1>4. CASE Leave(o)
  <2>1. "off" \in Phases \ {"commit", "handoff", "prepare", "claim", "run"} /\ "off" \notin Inside
    BY DEF Phases, Inside
  <2>2. "none" \in Configs \cup {"none"} /\ 0 \in 0..MaxSteps
    BY DispatchAssumption
  <2>3. Idle \in Mem /\ Idle.pc = "off" /\ Holding(Idle) /\ Ready(Idle)
    BY <2>1, <2>2, IdleType, ForgottenHolds DEF Ready, Inside
  <2>4. Remember(o, Idle) /\ lock' = Nobody
    BY <1>4 DEF Leave
  <2> QED
    BY <2>1, <2>3, <2>4, QuietStep
<1> QED
  BY <1>2, <1>3, <1>4

\* Another step of the same round: what is held of the wave must still hold.
LEMMA GotoKeeps ==
  ASSUME IInv, NEW o \in Orchestrators, lock = o, NEW mem \in Mem,
         mem.pc # "off", Ready(mem),
         Remember(o, mem), Holding(mem), lock' = lock,
         UNCHANGED <<controlVars, ledgerVars, boundVars, late>>
  PROVE  IInv'
<1>1. StoreOK'
  BY MemoryOf, SameStore
<1>2. ~At(o, "off")
  BY DEF IInv, Exclusive
<1> QED
  BY <1>1, <1>2, QuietStep

\* Someone takes the lock that nobody has.
LEMMA LaunchKeeps ==
  ASSUME IInv, NEW o \in Orchestrators, Launch(o)
  PROVE  IInv'
<1>1. PICK c \in Configs :
        Remember(o, [Idle EXCEPT
          !.pc = IF status \in {"stopped", "awaiting_human", "completed"} THEN "sync" ELSE "check",
          !.config = c, !.steps = MaxSteps])
  BY DEF Launch
<1> DEFINE pc == IF status \in {"stopped", "awaiting_human", "completed"} THEN "sync" ELSE "check"
           mem == [Idle EXCEPT !.pc = pc, !.config = c, !.steps = MaxSteps]
<1>2. /\ pc \in Phases \ {"commit", "handoff", "prepare", "claim", "run"}
      /\ pc \notin Inside /\ pc # "off"
  BY DEF Phases, Inside
<1>3. Remember(o, mem)
  BY <1>1
<1>4. mem.pc = pc /\ mem.config = c
  BY DEF Idle
<1> HIDE DEF pc
<1>5. MaxSteps \in 0..MaxSteps /\ c \in Configs \cup {"none"} /\ "none" \in {"none"}
  BY DispatchAssumption
<1>6. mem \in Mem /\ Holding(mem)
  BY <1>2, <1>5, IdleType, ForgottenHolds
<1> HIDE DEF mem
<1>7. StoreOK'
  <2>1. /\ lock' = o /\ launches < MaxLaunches /\ launches' = launches + 1
        /\ UNCHANGED <<controlVars, ledgerVars, faults, changes, late>>
    BY DEF Launch
  <2>2. StoreOK /\ MaxLaunches \in Nat
    BY MemoryOf, DispatchAssumption
  <2> QED
    BY <2>1, <2>2 DEF StoreOK, TypeOKControl, controlVars, ledgerVars
<1>8. lock = Nobody /\ lock' = o /\ UNCHANGED ledgerVars
  BY DEF Launch
<1>9. Ready(mem)
  BY <1>2, <1>4 DEF Ready
<1> QED
  BY <1>2, <1>3, <1>4, <1>6, <1>7, <1>8, <1>9, QuietStep

\* The checkpoint, and the end of an invocation.
LEMMA ControlKeeps ==
  ASSUME IInv, NEW o \in Orchestrators,
         \/ Sync(o) \/ Check(o) \/ Park(o) \/ Finalize(o) \/ WriteFinal(o)
         \/ Unwind(o) \/ WriteAborted(o) \/ Raise(o) \/ Crash(o)
  PROVE  IInv'
<1>1. /\ wf[o] \in Mem /\ Holding(wf[o]) /\ StoreOK
      /\ Ready(wf[o])
      /\ ~At(o, "off") => lock = o
      /\ o \in Orchestrators \cup {Nobody} /\ Nobody \in Orchestrators \cup {Nobody}
  BY MemoryOf
<1>2. CASE Sync(o)
  <2> DEFINE mem == [wf[o] EXCEPT !.pc = "check"]
  <2>1. At(o, "sync") /\ ~At(o, "off") /\ Remember(o, mem) /\ UNCHANGED ledgerVars /\ lock' = lock
    BY <1>2 DEF Sync, At, Goto
  <2>2. StoreOK'
    BY <1>1, <1>2, <2>1, WrittenStore DEF Sync, RunStatuses, Sources
  <2>3. mem \in Mem /\ mem.pc = "check" /\ mem.pc \notin Inside /\ Ready(mem)
    BY <1>1, <2>1 DEF Mem, Phases, Inside, Ready, At
  <2>4. ~mem.replay /\ mem.completed = {} /\ mem.current = NoDispatch
    BY <1>1, <2>1 DEF Holding, At, Mem
  <2> HIDE DEF mem
  <2>5. Holding(mem)
    BY <2>3, <2>4, OffHolds
  <2> QED
    BY <1>1, <2>1, <2>2, <2>3, <2>5, QuietStep
<1>3. CASE Check(o)
  <2>1. At(o, "check") /\ ~At(o, "off")
    BY <1>3 DEF Check, At
  <2>2. CASE wf[o].steps > 0 /\ Goto(o, "recover")
    <3> DEFINE mem == [wf[o] EXCEPT !.pc = "recover"]
    <3>1. mem \in Mem /\ mem.pc = "recover" /\ Remember(o, mem) /\ Ready(mem)
      BY <1>1, <2>1, <2>2 DEF Mem, Phases, Goto, Ready, At
    <3>2. ~mem.replay /\ mem.completed = {} /\ mem.current = NoDispatch
      BY <1>1, <2>1 DEF Holding, At, Mem
    <3> HIDE DEF mem
    <3>3. Holding(mem)
      BY <3>1, <3>2, OffHolds
    <3> QED
      BY <1>1, <1>3, <2>1, <3>1, <3>3, GotoKeeps DEF Check
  <2>3. CASE \E pc \in {"park", "final"}, exit \in {"stop", "pause_requested", "stopping"} :
               Exit(o, pc, exit)
    BY <1>1, <1>3, <2>1, <2>3, SameStore, ExitKeeps DEF Check
  <2> QED
    BY <1>1, <1>3, <2>2, <2>3 DEF Check, Requested, Mem
<1>4. CASE Park(o)
  <2>1. ~At(o, "off") /\ UNCHANGED ledgerVars /\ lock' = lock /\ Exit(o, "final", "stop")
    BY <1>4 DEF Park, At
  <2>2. StoreOK'
    BY <1>1, <1>4, <2>1, WrittenStore DEF Park, RunStatuses, Sources
  <2> QED
    BY <2>1, <2>2, ExitKeeps
<1>5. CASE Finalize(o)
  <2>1. At(o, "final") /\ ~At(o, "off")
    BY <1>5 DEF Finalize, At
  <2>2. CASE Leave(o)
    <3>1. StoreOK' /\ UNCHANGED ledgerVars
      BY <1>1, <1>5, <2>2, SameStore DEF Finalize, Leave
    <3> QED
      BY <2>1, <2>2, <3>1, ExitKeeps
  <2>3. CASE Goto(o, "finalize") /\ UNCHANGED lock
    <3> DEFINE mem == [wf[o] EXCEPT !.pc = "finalize"]
    <3>1. mem \in Mem /\ mem.pc = "finalize" /\ Remember(o, mem) /\ Ready(mem)
      BY <1>1, <2>3 DEF Mem, Phases, Inside, Goto, Ready
    <3>2. ~mem.replay /\ mem.completed = {} /\ mem.current = NoDispatch
      BY <1>1, <2>1 DEF Holding, At, Mem
    <3> HIDE DEF mem
    <3>3. Holding(mem)
      BY <3>1, <3>2, OffHolds
    <3> QED
      BY <1>1, <1>5, <2>1, <2>3, <3>1, <3>3, GotoKeeps DEF Finalize
  <2> QED
    BY <1>5, <2>2, <2>3 DEF Finalize
<1>6. CASE WriteFinal(o)
  <2>1. ~At(o, "off") /\ UNCHANGED ledgerVars /\ Leave(o) /\ lock' = Nobody
    BY <1>6 DEF WriteFinal, At, Leave
  <2>2. FinalStatus(wf[o].exit) \in RunStatuses
    BY DEF FinalStatus, RunStatuses
  <2>3. StoreOK'
    BY <1>1, <1>6, <2>1, <2>2, WrittenStore DEF WriteFinal, Sources
  <2> QED
    BY <2>1, <2>3, ExitKeeps
<1>7. CASE Unwind(o)
  <2>1. ~At(o, "off") /\ UNCHANGED ledgerVars
    BY <1>7 DEF Unwind, At
  <2>2. CASE Leave(o)
    BY <1>1, <1>7, <2>1, <2>2, SameStore, ExitKeeps DEF Unwind, Leave
  <2>3. CASE Exit(o, "aborted", "none") /\ UNCHANGED lock
    BY <1>1, <1>7, <2>1, <2>3, SameStore, ExitKeeps DEF Unwind
  <2> QED
    BY <1>7, <2>2, <2>3 DEF Unwind
<1>8. CASE WriteAborted(o)
  <2>1. ~At(o, "off") /\ UNCHANGED ledgerVars /\ Leave(o) /\ lock' = Nobody
    BY <1>8 DEF WriteAborted, At, Leave
  <2>2. StoreOK'
    BY <1>1, <1>8, <2>1, WrittenStore DEF WriteAborted, RunStatuses, Sources
  <2> QED
    BY <2>1, <2>2, ExitKeeps
<1>9. CASE Raise(o)
  <2>1. ~At(o, "off") /\ UNCHANGED ledgerVars /\ lock' = lock /\ Exit(o, "abort", "none")
    BY <1>9 DEF Raise, At
  <2>2. StoreOK'
    BY <1>1, <1>9, DispatchAssumption DEF Raise, StoreOK, TypeOKControl, controlVars, ledgerVars
  <2> QED
    BY <2>1, <2>2, ExitKeeps
<1>10. CASE Crash(o)
  <2>1. ~At(o, "off") /\ UNCHANGED ledgerVars /\ Leave(o) /\ lock' = Nobody
    BY <1>10 DEF Crash, Leave
  <2>2. StoreOK'
    BY <1>1, <1>10, <2>1, DispatchAssumption
      DEF Crash, StoreOK, TypeOKControl, controlVars, ledgerVars
  <2> QED
    BY <2>1, <2>2, ExitKeeps
<1> QED
  BY <1>2, <1>3, <1>4, <1>5, <1>6, <1>7, <1>8, <1>9, <1>10

\* What o does with a wave in memory: recover it, plan it, prepare it, end it.
LEMMA WaveKeeps ==
  ASSUME IInv, NEW o \in Orchestrators,
         \/ Recover(o) \/ Plan(o) \/ Handoff(o) \/ Prepare(o) \/ EndWave(o)
         \/ \E d \in Dispatches : Replay(o, d)
  PROVE  IInv'
<1>1. /\ wf[o] \in Mem /\ Holding(wf[o]) /\ StoreOK
      /\ ~At(o, "off") => lock = o
      /\ Ready(wf[o])
  BY MemoryOf
<1>2. /\ UNCHANGED <<controlVars, ledgerVars, boundVars, late>> /\ UNCHANGED ledgerVars /\ lock' = lock
      /\ ~At(o, "off") /\ lock = o /\ wf[o].steps > 0 /\ wf[o].config \in Configs
  <2>1. UNCHANGED <<controlVars, ledgerVars, boundVars, late>> /\ lock' = lock
    BY DEF Recover, Plan, Handoff, Prepare, EndWave, Replay
  <2>2. wf[o].pc \in Inside /\ wf[o].pc # "off"
    BY DEF Recover, Plan, Handoff, Prepare, EndWave, Replay, Listening, At, Inside
  <2> QED
    BY <1>1, <2>1, <2>2 DEF At, Ready
<1>3. StoreOK'
  BY <1>1, <1>2, SameStore
<1>4. ASSUME \/ \E pc \in {"park", "final"},
                  exit \in {"stop", "config", "solved", "await", "pause_requested", "stopping"} :
                  Exit(o, pc, exit)
             \/ Again(o, wf[o].steps) \/ Again(o, wf[o].steps - 1)
      PROVE  IInv'
  <2>1. wf[o].steps \in 0..MaxSteps /\ wf[o].steps - 1 \in 0..MaxSteps
    BY <1>1, <1>2, DispatchAssumption DEF Mem
  <2>2. CASE \E pc \in {"park", "final"},
                exit \in {"stop", "config", "solved", "await", "pause_requested", "stopping"} :
                Exit(o, pc, exit)
    BY <1>2, <1>3, <2>2, ExitKeeps
  <2>3. CASE Again(o, wf[o].steps) \/ Again(o, wf[o].steps - 1)
    BY <1>2, <1>3, <2>1, <2>3, ExitKeeps
  <2> QED
    BY <1>4, <2>2, <2>3
<1>5. ASSUME NEW mem \in Mem, mem.pc \in Inside, mem.steps = wf[o].steps,
             mem.config = wf[o].config, Remember(o, mem), Holding(mem)
      PROVE  IInv'
  <2>1. mem.pc # "off" /\ Ready(mem)
    BY <1>2, <1>5 DEF Inside, Ready
  <2> QED
    BY <1>2, <1>5, <2>1, GotoKeeps
<1>6. waves # <<>> =>
        Awaited \subseteq Dispatches /\ Latest \subseteq Dispatches /\ Len(waves) \in 1..Len(waves)
  <2>1. waves # <<>> => Len(waves) \in 1..Len(waves)
    BY <1>1 DEF StoreOK
  <2> QED
    BY <1>1, <2>1, WaveFacts DEF Awaited, Latest
<1>7. CASE Recover(o)
  <2>1. At(o, "recover") /\ wf[o].pc = "recover"
    BY <1>7 DEF Recover, At
  <2>2. ~wf[o].replay /\ wf[o].completed = {} /\ wf[o].current = NoDispatch
    BY <1>1, <2>1 DEF Holding
  <2>3. CASE Goto(o, "plan")
    <3> DEFINE mem == [wf[o] EXCEPT !.pc = "plan"]
    <3>1. mem \in Mem /\ mem.pc = "plan" /\ mem.steps = wf[o].steps /\ mem.config = wf[o].config /\ Remember(o, mem)
          /\ mem.pc \in Inside
      BY <1>1, <2>3 DEF Mem, Phases, Goto, Inside
    <3>2. ~mem.replay /\ mem.completed = {} /\ mem.current = NoDispatch
      BY <1>1, <2>2 DEF Mem
    <3> HIDE DEF mem
    <3>3. Holding(mem)
      BY <3>1, <3>2, OffHolds
    <3> QED
      BY <3>1, <3>3, <1>5
  <2> DEFINE g == Len(waves)
             unlinked == Unlinked(g)
             returned == {d \in unlinked : receipt[d] # "none"}
             unreturned == unlinked \ returned
             replayable == {d \in returned : ~Blocked(d, unreturned)}
  <2>4. /\ g # 0 => unreturned = Awaited
        /\ unlinked \subseteq Latest
    <3>1. \A d \in Latest : g # 0 => (run[d] # "none" => receipt[d] # "none")
      BY <1>1, <1>6 DEF IInv, Tables, StoreOK
    <3> QED
      BY <3>1 DEF Unlinked, Awaited, Latest
  <2>5. CASE /\ g # 0
             /\ Remember(o, [wf[o] EXCEPT !.pc = "run", !.pending = replayable, !.replay = TRUE])
    <3> DEFINE mem == [wf[o] EXCEPT !.pc = "run", !.pending = replayable, !.replay = TRUE]
    <3>1. waves # <<>>
      BY <1>1, <2>5 DEF StoreOK
    <3>2. replayable \subseteq Dispatches
      BY <1>6, <2>4, <3>1
    <3>3. /\ mem \in Mem /\ mem.pc = "run" /\ mem.steps = wf[o].steps /\ mem.config = wf[o].config /\ mem.pending = replayable
          /\ mem.replay /\ mem.completed = {} /\ mem.current = NoDispatch
          /\ mem.pc \in Inside
      BY <1>1, <2>2, <3>2 DEF Mem, Phases, Inside
    <3>4. mem.pending \cup mem.completed \subseteq Unlinked(Len(waves))
      BY <3>3
    <3>5. Remember(o, mem)
      BY <2>5
    <3>6. \A d \in replayable : receipt[d] # "none" /\ \A e \in Awaited : ~(Critical(e) /\ Before(e, d))
      BY <2>4, <2>5 DEF Blocked
    <3> HIDE DEF mem, replayable
    <3>7. Merges(mem)
      BY <3>3, <3>6 DEF Merges
    <3>8. Holding(mem)
      BY <3>1, <3>3, <3>4, <3>7 DEF Holding
    <3> QED
      BY <3>3, <3>5, <3>8, <1>5
  <2>6. CASE /\ g # 0 /\ SafeToRepeat(wf[o].config, g)
             /\ Remember(o, [wf[o] EXCEPT !.pc = "prepare", !.pending = unreturned])
    <3> DEFINE mem == [wf[o] EXCEPT !.pc = "prepare", !.pending = unreturned]
    <3>1. waves # <<>>
      BY <1>1, <2>6 DEF StoreOK
    <3>2. unreturned = Awaited /\ Awaited \subseteq Dispatches
      BY <1>6, <2>4, <2>6
    <3>3. /\ mem \in Mem /\ mem.pc = "prepare" /\ mem.steps = wf[o].steps /\ mem.config = wf[o].config /\ mem.pending = unreturned
          /\ ~mem.replay /\ mem.completed = {} /\ mem.current = NoDispatch
          /\ mem.pc \in Inside
      BY <1>1, <2>2, <3>2 DEF Mem, Phases, Inside
    <3>4. mem.pending \cup mem.completed \subseteq Unlinked(Len(waves))
      BY <3>3
    <3>5. Remember(o, mem)
      BY <2>6
    <3>6. contract[Len(waves)] \in Replayable
      BY <2>6 DEF SafeToRepeat
    <3> HIDE DEF mem, unreturned
    <3>7. Executes(mem)
      BY <3>2, <3>3, <3>6 DEF Executes
    <3>8. Holding(mem)
      BY <3>1, <3>3, <3>4, <3>7 DEF Holding
    <3> QED
      BY <3>3, <3>5, <3>8, <1>5
  <2>7. \/ Goto(o, "plan") \/ Exit(o, "final", "config")
        \/ /\ g # 0
           /\ Remember(o, [wf[o] EXCEPT !.pc = "run", !.pending = replayable, !.replay = TRUE])
        \/ /\ g # 0 /\ SafeToRepeat(wf[o].config, g)
           /\ Remember(o, [wf[o] EXCEPT !.pc = "prepare", !.pending = unreturned])
    BY <1>7 DEF Recover
  <2> QED
    BY <1>4, <2>3, <2>5, <2>6, <2>7
<1>8. CASE Plan(o)
  <2>1. wf[o].pc = "plan"
    BY <1>8 DEF Plan, At
  <2>2. ASSUME NEW w \in Waves, Len(waves) < MaxWaves,
               Remember(o, [wf[o] EXCEPT !.pc = "commit", !.plan = w, !.fresh = TRUE])
        PROVE  IInv'
    <3> DEFINE mem == [wf[o] EXCEPT !.pc = "commit", !.plan = w, !.fresh = TRUE]
    <3>1. /\ mem \in Mem /\ mem.pc = "commit" /\ mem.steps = wf[o].steps /\ mem.config = wf[o].config /\ mem.plan = w
          /\ mem.replay = wf[o].replay /\ mem.completed = wf[o].completed
          /\ mem.current = wf[o].current /\ mem.pc \in Inside
      BY <1>1 DEF Mem, Phases, Inside
    <3>2. Remember(o, mem)
      BY <2>2
    <3> HIDE DEF mem
    <3>3. Holding(mem)
      BY <1>1, <2>1, <2>2, <3>1 DEF Holding
    <3> QED
      BY <3>1, <3>2, <3>3, <1>5
  <2> QED
    BY <1>4, <1>8, <2>2 DEF Plan
<1>9. CASE Handoff(o)
  <2>1. wf[o].pc = "handoff"
    BY <1>9 DEF Handoff, At
  <2>2. CASE Goto(o, "prepare")
    <3> DEFINE mem == [wf[o] EXCEPT !.pc = "prepare"]
    <3>1. /\ mem \in Mem /\ mem.pc = "prepare" /\ mem.steps = wf[o].steps /\ mem.config = wf[o].config
          /\ mem.pending = wf[o].pending /\ mem.replay = wf[o].replay
          /\ mem.completed = wf[o].completed /\ mem.current = wf[o].current /\ mem.pc \in Inside
      BY <1>1 DEF Mem, Phases, Inside
    <3>2. Remember(o, mem)
      BY <2>2 DEF Goto
    <3> HIDE DEF mem
    <3>3. Holding(mem)
      BY <1>1, <2>1, <3>1 DEF Holding, Executes
    <3> QED
      BY <3>1, <3>2, <3>3, <1>5
  <2> QED
    BY <1>4, <1>9, <2>2 DEF Handoff
<1>10. CASE Prepare(o)
  <2>1. wf[o].pc = "prepare"
    BY <1>10 DEF Prepare, At
  <2> DEFINE mem == [wf[o] EXCEPT !.pc = "claim", !.fresh = TRUE, !.head = Len(policyLog)]
  <2>2. Len(policyLog) \in Nat
    BY <1>1 DEF StoreOK, TypeOKControl
  <2>3. /\ mem \in Mem /\ mem.pc = "claim" /\ mem.steps = wf[o].steps /\ mem.config = wf[o].config
        /\ mem.pending = wf[o].pending /\ mem.replay = wf[o].replay
        /\ mem.completed = wf[o].completed /\ mem.current = wf[o].current /\ mem.pc \in Inside
    BY <1>1, <2>2 DEF Mem, Phases, Inside
  <2>4. Remember(o, mem)
    BY <1>10 DEF Prepare
  <2> HIDE DEF mem
  <2>5. Holding(mem)
    BY <1>1, <2>1, <2>3 DEF Holding, Executes
  <2> QED
    BY <2>3, <2>4, <2>5, <1>5
<1>11. ASSUME NEW d \in Dispatches, Replay(o, d)
       PROVE  IInv'
  <2>1. wf[o].pc = "run" /\ wf[o].replay /\ d \in wf[o].pending /\ wf[o].current = NoDispatch
    BY <1>11 DEF Replay, Listening, At
  <2> DEFINE mem == [wf[o] EXCEPT !.pending = @ \ {d}, !.completed = @ \cup {d}]
  <2>2. /\ mem \in Mem /\ mem.pc = "run" /\ mem.steps = wf[o].steps /\ mem.config = wf[o].config
        /\ mem.pending = wf[o].pending \ {d} /\ mem.replay = wf[o].replay
        /\ mem.completed = wf[o].completed \cup {d} /\ mem.current = wf[o].current /\ mem.pc \in Inside
    BY <1>1, <2>1 DEF Mem, Inside
  <2>3. Remember(o, mem)
    BY <1>11 DEF Replay, Complete
  <2> HIDE DEF mem
  <2>4. Holding(mem)
    BY <1>1, <2>1, <2>2 DEF Holding, Merges
  <2> QED
    BY <2>2, <2>3, <2>4, <1>5
<1>12. CASE EndWave(o)
  <2>1. status \in RunStatuses
    BY <1>1 DEF StoreOK, TypeOKControl
  <2> QED
    BY <1>4, <1>12, <2>1 DEF EndWave, Requested
<1> QED
  BY <1>7, <1>8, <1>9, <1>10, <1>11, <1>12


-----------------------------------------------------------------------------
(* Steps that move the ledger *)

\* What a new wave adds to the ledger, and that it touches no older one.
LEMMA AppendedWave ==
  ASSUME StoreOK, NEW w \in Waves, Len(waves) < MaxWaves, waves' = Append(waves, w)
  PROVE  /\ Len(waves') = Len(waves) + 1 /\ waves' \in Seq(Waves) /\ waves' # <<>>
         /\ \A g \in 1..Len(waves) : waves'[g] = waves[g] /\ Members(g)' = Members(g)
         /\ Latest' = {<<Len(waves) + 1, i>> : i \in DOMAIN w}
         /\ Latest' # {} /\ Latest' \subseteq Dispatches \ Committed
         /\ Committed' = Committed \cup Latest'
<1>0. waves \in Seq(Waves) /\ Len(waves) \in Nat /\ MaxWaves \in Nat
  BY DispatchAssumption DEF StoreOK
<1>a. waves' \in Seq(Waves) /\ Len(waves') = Len(waves) + 1 /\ waves'[Len(waves) + 1] = w
  BY <1>0
<1>b. \A g \in 1..Len(waves) : waves'[g] = waves[g]
  BY <1>0
<1>c. Len(waves) + 1 \in 1..MaxWaves /\ waves' # <<>>
  BY <1>0, <1>a
<1>d. DOMAIN waves' = (1..Len(waves)) \cup {Len(waves) + 1}
  <2>1. DOMAIN waves' = 1..(Len(waves) + 1)
    BY <1>a
  <2> QED
    BY <1>0, <2>1
<1>1. /\ Len(waves') = Len(waves) + 1 /\ waves' \in Seq(Waves) /\ waves' # <<>>
      /\ \A g \in 1..Len(waves) : waves'[g] = waves[g]
      /\ waves'[Len(waves) + 1] = w
      /\ Len(waves) \in Nat /\ Len(waves) + 1 \in 1..MaxWaves
      /\ DOMAIN waves' = (1..Len(waves)) \cup {Len(waves) + 1}
  BY <1>0, <1>a, <1>b, <1>c, <1>d
<1>2. \A g \in 1..Len(waves) : Members(g)' = Members(g)
  BY <1>1 DEF Members
<1>3. Latest' = {<<Len(waves) + 1, i>> : i \in DOMAIN w}
  BY <1>1 DEF Latest, Members
<1>4. DOMAIN w = 1..Len(w) /\ Len(w) \in 1..MaxWidth
  BY WaveFacts
<1>5. Latest' # {}
  <2>1. <<Len(waves) + 1, 1>> \in Latest'
    BY <1>3, <1>4
  <2> QED
    BY <2>1
<1>6. ASSUME NEW d \in Latest'
      PROVE  d \in Dispatches \ Committed
  <2>1. PICK i \in DOMAIN w : d = <<Len(waves) + 1, i>>
    BY <1>3
  <2>2. i \in 1..MaxWidth
    BY <1>4, DispatchAssumption
  <2>3. d \in Dispatches
    BY <1>1, <2>1, <2>2 DEF Dispatches
  <2>4. d[1] = Len(waves) + 1
    BY <2>1
  <2>5. \A g \in 1..Len(waves) : d \notin Members(g)
    BY <1>1, <2>4, WaveFacts
  <2> QED
    BY <2>3, <2>5, WaveFacts
<1>7. Committed' = Committed \cup Latest'
  <2>1. ASSUME NEW d
        PROVE  d \in Committed' <=> \E g \in (1..Len(waves)) \cup {Len(waves) + 1} : d \in Members(g)'
    BY <1>1 DEF Committed
  <2>2. ASSUME NEW d
        PROVE  d \in Committed <=> \E g \in 1..Len(waves) : d \in Members(g)
    BY WaveFacts
  <2>3. \A g : g = Len(waves) + 1 => Members(g)' = Latest'
    BY <1>1 DEF Latest, Members
  <2>4. ASSUME NEW d
        PROVE  d \in Committed' <=> d \in Committed \cup Latest'
    BY <1>2, <2>1, <2>2, <2>3
  <2> QED
    BY <2>4
<1> QED
  BY <1>1, <1>2, <1>3, <1>5, <1>6, <1>7

\* A wave is committed over a closed one.
LEMMA CommitKeeps ==
  ASSUME IInv, NEW o \in Orchestrators, Commit(o)
  PROVE  IInv'
<1>1. /\ wf[o] \in Mem /\ Holding(wf[o]) /\ StoreOK /\ wf[o].pc = "commit"
      /\ ~At(o, "off") /\ lock = o /\ wf[o].steps > 0 /\ lock' = lock
      /\ wf[o].config \in Configs
      /\ wf[o].plan \in Waves /\ Len(waves) < MaxWaves
      /\ ~wf[o].replay /\ wf[o].completed = {} /\ wf[o].current = NoDispatch
  <2>1. wf[o].pc = "commit" /\ lock' = lock
    BY DEF Commit, At
  <2>2. wf[o] \in Mem /\ Holding(wf[o]) /\ StoreOK /\ Ready(wf[o])
        /\ (~At(o, "off") => lock = o)
    BY MemoryOf
  <2> QED
    BY <2>1, <2>2 DEF At, Inside, Holding, Ready
<1>2. CASE /\ UNCHANGED <<controlVars, ledgerVars, boundVars, late>>
           /\ Again(o, wf[o].steps) \/ Exit(o, "abort", "none")
  <2>1. wf[o].steps \in 0..MaxSteps /\ StoreOK' /\ UNCHANGED ledgerVars
    BY <1>1, <1>2, SameStore DEF Mem
  <2> QED
    BY <1>1, <1>2, <2>1, ExitKeeps
<1>3. CASE /\ waves = <<>> \/ Unlinked(Len(waves)) = {}
           /\ waves' = Append(waves, wf[o].plan)
           /\ contract' = Append(contract, wf[o].config)
           /\ RememberChanged(o, [wf[o] EXCEPT
                !.pc = "handoff", !.plan = <<>>,
                !.pending = {<<Len(waves) + 1, i>> : i \in DOMAIN wf[o].plan}])
           /\ late' = IF status = "pause_requested" THEN late + 1 ELSE late
           /\ UNCHANGED <<controlVars, boundVars, attempts, receipt, planHead, landed, run>>
  <2> DEFINE P == {<<Len(waves) + 1, i>> : i \in DOMAIN wf[o].plan}
  <2>1. /\ Len(waves') = Len(waves) + 1 /\ waves' \in Seq(Waves) /\ waves' # <<>>
        /\ \A g \in 1..Len(waves) : waves'[g] = waves[g] /\ Members(g)' = Members(g)
        /\ Latest' = P
        /\ Latest' # {} /\ Latest' \subseteq Dispatches \ Committed
        /\ Committed' = Committed \cup Latest'
    BY <1>1, <1>3, AppendedWave
  <2>2. PICK mem \in Mem :
          mem = [wf[o] EXCEPT !.pc = "handoff", !.plan = <<>>, !.pending = P]
    BY <1>1, <2>1 DEF Mem, Phases
  <2>3. /\ RememberChanged(o, mem)
        /\ mem.pc = "handoff" /\ mem.steps = wf[o].steps /\ mem.pending = Latest'
        /\ ~mem.replay /\ mem.completed = {} /\ mem.current = NoDispatch /\ mem.config = wf[o].config
    BY <1>1, <1>3, <2>1, <2>2 DEF Mem
  <2>4. Ready(mem)
    BY <1>1, <2>3 DEF Ready
  <2>5. /\ contract' \in Seq(Configs) /\ Len(contract') = Len(waves')
        /\ \A g \in 1..Len(waves) : contract'[g] = contract[g]
    <3>1. contract \in Seq(Configs) /\ Len(contract) = Len(waves) /\ wf[o].config \in Configs
      BY <1>1 DEF StoreOK
    <3>2. contract' = Append(contract, wf[o].config)
      BY <1>3
    <3> QED
      BY <2>1, <3>1, <3>2
  <2>6. StoreOK'
    <3>1. late' \in Nat
      BY <1>1, <1>3 DEF StoreOK
    <3>2. Len(waves') <= MaxWaves
      BY <1>1, <2>1, DispatchAssumption DEF StoreOK
    <3>3. TypeOKControl'
      BY <1>1, <1>3 DEF StoreOK, TypeOKControl, controlVars
    <3> QED
      BY <1>1, <1>3, <2>1, <2>5, <3>1, <3>2, <3>3 DEF StoreOK, boundVars
  <2>7. \A d \in Latest' : receipt[d] = "none" /\ run[d] = "none" /\ landed[d] = 0 /\ attempts[d] = 0
    BY <2>1 DEF IInv, Tables
  <2>8. OnlyLatestUnresolved'
    <3> SUFFICES ASSUME NEW g \in 1..Len(waves), NEW d \in Members(g)
                 PROVE  run[d] # "none"
      BY <1>1, <1>3, <2>1 DEF OnlyLatestUnresolved, StoreOK
    <3>1. CASE g = Len(waves)
      BY <1>1, <1>3, <3>1 DEF Unlinked, StoreOK
    <3>2. CASE g \in 1..(Len(waves) - 1)
      BY <3>2 DEF IInv, Tables, OnlyLatestUnresolved
    <3> QED
      BY <1>1, <3>1, <3>2 DEF StoreOK
  <2>9. UnsafeRunsOnce'
    <3> SUFFICES ASSUME NEW d \in Committed', contract'[d[1]] \notin Replayable
                 PROVE  attempts[d] <= 1
      BY <1>3 DEF UnsafeRunsOnce
    <3>1. CASE d \in Latest'
      BY <2>7, <3>1
    <3>2. CASE d \in Committed
      <4>1. d[1] \in 1..Len(waves)
        BY <1>1, <3>2, WaveFacts
      <4>2. contract'[d[1]] = contract[d[1]]
        BY <2>5, <4>1
      <4> QED
        BY <3>2, <4>2 DEF IInv, Tables, UnsafeRunsOnce
    <3> QED
      BY <2>1, <3>1, <3>2
  <2>10. Tables'
    <3>1. /\ \A d \in Dispatches \ Committed' :
               receipt[d] = "none" /\ run[d] = "none" /\ landed[d] = 0 /\ attempts[d] = 0
          /\ \A d \in Dispatches : run[d] # "none" => receipt[d] # "none"
          /\ \A d \in Dispatches : landed[d] > 0 => receipt[d] = "patch"
          /\ TruthfulTelemetry
      BY <2>1 DEF IInv, Tables
    <3>2. UNCHANGED <<attempts, receipt, landed, run>>
      BY <1>3
    <3> QED
      BY <2>8, <2>9, <3>1, <3>2 DEF Tables, TruthfulTelemetry
  <2>11. Holding(mem)'
    <3>1. Unlinked(Len(waves))' = Latest'
      BY <1>3, <2>7 DEF Unlinked, Latest
    <3>2. Awaited' = Latest'
      BY <1>3, <2>7 DEF Awaited
    <3>3. Executes(mem)'
      BY <1>3, <2>1, <2>3, <2>7, <3>2 DEF Executes
    <3> QED
      BY <2>1, <2>3, <3>1, <3>3 DEF Holding
  <2> QED
    BY <1>1, <2>3, <2>4, <2>6, <2>10, <2>11, StepKeeps
<1> QED
  BY <1>2, <1>3 DEF Commit, ledgerVars, boundVars, controlVars

\* Steps that leave the waves alone leave the dispatches and their order alone.
LEMMA SameWaves ==
  ASSUME UNCHANGED waves
  PROVE  /\ Latest' = Latest /\ Committed' = Committed
         /\ \A g : Members(g)' = Members(g)
         /\ \A d : Critical(d)' = Critical(d)
         /\ \A d, e : Before(e, d)' = Before(e, d)
BY DEF Latest, Committed, Members, Critical, Before, Member, IsCompanion

\* What o holds of the latest wave while it executes or merges it.
LEMMA HeldWave ==
  ASSUME IInv, NEW o \in Orchestrators, wf[o].pc \in {"handoff", "prepare", "claim", "run"}
  PROVE  /\ wf[o] \in Mem /\ StoreOK /\ Ready(wf[o]) /\ ~At(o, "off") /\ lock = o
         /\ wf[o].steps > 0 /\ wf[o].config \in Configs
         /\ waves # <<>> /\ Len(waves) \in 1..Len(waves)
         /\ wf[o].pending \cup wf[o].completed \subseteq Unlinked(Len(waves))
         /\ Unlinked(Len(waves)) \subseteq Latest
         /\ Latest \subseteq Committed /\ Latest \subseteq Dispatches
         /\ \A d \in Latest : d[1] = Len(waves)
         /\ \A d \in Unlinked(Len(waves)) : run[d] = "none"
<1>1. /\ wf[o] \in Mem /\ StoreOK /\ Ready(wf[o]) /\ Holding(wf[o])
      /\ ~At(o, "off") /\ lock = o
  BY MemoryOf DEF At
<1>2. /\ wf[o].steps > 0 /\ wf[o].config \in Configs /\ waves # <<>>
      /\ wf[o].pending \cup wf[o].completed \subseteq Unlinked(Len(waves))
  BY <1>1 DEF Ready, Inside, Holding
<1>3. Len(waves) \in 1..Len(waves)
  BY <1>1, <1>2 DEF StoreOK
<1>4. /\ Unlinked(Len(waves)) \subseteq Latest
      /\ \A d \in Unlinked(Len(waves)) : run[d] = "none"
  BY DEF Unlinked, Latest
<1>5. /\ Latest \subseteq Committed /\ Latest \subseteq Dispatches
      /\ \A d \in Latest : d[1] = Len(waves)
  BY <1>1, <1>3, WaveFacts DEF Latest
<1> QED
  BY <1>1, <1>2, <1>3, <1>4, <1>5

\* Every member of the wave is claimed, and none that may not be invoked again.
LEMMA ClaimKeeps ==
  ASSUME IInv, NEW o \in Orchestrators, Claim(o)
  PROVE  IInv'
<1>1. wf[o].pc = "claim" /\ lock' = lock
  BY DEF Claim, At
<1>2. /\ wf[o] \in Mem /\ StoreOK /\ Ready(wf[o]) /\ ~At(o, "off") /\ lock = o
      /\ wf[o].steps > 0 /\ wf[o].config \in Configs
      /\ waves # <<>>
      /\ wf[o].pending \cup wf[o].completed \subseteq Unlinked(Len(waves))
      /\ Unlinked(Len(waves)) \subseteq Latest
      /\ Latest \subseteq Committed /\ Latest \subseteq Dispatches
      /\ \A d \in Latest : d[1] = Len(waves)
  BY <1>1, HeldWave
<1>3. Executes(wf[o]) /\ ~wf[o].replay /\ wf[o].completed = {} /\ wf[o].current = NoDispatch
  BY <1>1, MemoryOf DEF Holding
<1>4. /\ UNCHANGED <<waves, contract, receipt, planHead, landed, run>>
      /\ UNCHANGED <<controlVars, boundVars, late>>
  BY DEF Claim
<1>5. CASE Exit(o, "abort", "none") /\ UNCHANGED attempts
  <2>1. UNCHANGED ledgerVars
    BY <1>4, <1>5 DEF ledgerVars
  <2>2. StoreOK'
    BY <1>1, <1>2, <1>4, <2>1, SameStore
  <2> QED
    BY <1>1, <1>2, <1>5, <2>1, <2>2, ExitKeeps
<1>6. CASE /\ attempts' = [d \in Dispatches |-> attempts[d] + IF d \in wf[o].pending THEN 1 ELSE 0]
           /\ Goto(o, "run")
  <2>1. PICK mem \in Mem : mem = [wf[o] EXCEPT !.pc = "run"]
    BY <1>2 DEF Mem, Phases
  <2>2. /\ mem.pc = "run" /\ mem.steps = wf[o].steps /\ mem.config = wf[o].config
        /\ mem.pending = wf[o].pending /\ ~mem.replay /\ mem.completed = {}
        /\ mem.current = NoDispatch /\ Remember(o, mem)
    BY <1>2, <1>3, <1>6, <2>1 DEF Mem, Goto
  <2>3. Ready(mem)
    BY <1>2, <2>2 DEF Ready
  <2>4. /\ attempts' \in [Dispatches -> Nat]
        /\ \A d \in Dispatches : d \notin wf[o].pending => attempts'[d] = attempts[d]
        /\ \A d \in wf[o].pending : attempts'[d] = attempts[d] + 1
    BY <1>2, <1>6 DEF StoreOK
  <2>5. StoreOK'
    BY <1>1, <1>2, <1>4, <2>4 DEF StoreOK, TypeOKControl, controlVars, boundVars
  <2>6. Latest' = Latest /\ Committed' = Committed /\ \A g : Members(g)' = Members(g)
    BY <1>4, SameWaves
  <2>7. UnsafeRunsOnce'
    <3> SUFFICES ASSUME NEW d \in Committed, contract[d[1]] \notin Replayable
                 PROVE  attempts'[d] <= 1
      BY <1>4, <2>6 DEF UnsafeRunsOnce
    <3>1. d \in Dispatches
      BY <1>2, WaveFacts
    <3>2. CASE d \in wf[o].pending
      <4>1. d[1] = Len(waves)
        BY <1>2, <3>2
      <4>2. attempts[d] = 0
        BY <1>3, <3>2, <4>1 DEF Executes
      <4> QED
        BY <2>4, <3>2, <4>2
    <3>3. CASE d \notin wf[o].pending
      BY <2>4, <3>1, <3>3 DEF IInv, Tables, UnsafeRunsOnce
    <3> QED
      BY <3>2, <3>3
  <2>8. Tables'
    <3>1. \A d \in Dispatches \ Committed' :
            receipt'[d] = "none" /\ run'[d] = "none" /\ landed'[d] = 0 /\ attempts'[d] = 0
      BY <1>2, <1>4, <2>4, <2>6 DEF IInv, Tables
    <3>2. OnlyLatestUnresolved'
      BY <1>4, <2>6 DEF IInv, Tables, OnlyLatestUnresolved
    <3> QED
      BY <1>4, <2>7, <3>1, <3>2 DEF IInv, Tables, TruthfulTelemetry
  <2>9. Holding(mem)'
    <3>1. Unlinked(Len(waves))' = Unlinked(Len(waves)) /\ Awaited' = Awaited
      BY <1>4, <2>6 DEF Unlinked, Awaited, Latest, Members
    <3>2. Merges(mem)'
      BY <1>3, <2>2, <3>1 DEF Merges, Executes
    <3> QED
      BY <1>2, <1>4, <2>2, <3>1, <3>2 DEF Holding
  <2> QED
    BY <1>1, <1>2, <2>2, <2>3, <2>5, <2>8, <2>9, StepKeeps
<1> QED
  BY <1>5, <1>6 DEF Claim

\* A result becomes durable: it was awaited, so nothing of it had landed.
LEMMA ReturnKeeps ==
  ASSUME IInv, NEW o \in Orchestrators, NEW d \in Dispatches, Return(o, d)
  PROVE  IInv'
<1>1. /\ wf[o].pc = "run" /\ wf[o].current = NoDispatch /\ ~wf[o].replay /\ d \in wf[o].pending
      /\ lock' = lock
      /\ UNCHANGED <<waves, contract, attempts, landed, run>>
      /\ UNCHANGED <<controlVars, boundVars, late>>
  BY DEF Return, Listening, At
<1>2. /\ wf[o] \in Mem /\ StoreOK /\ Ready(wf[o]) /\ ~At(o, "off") /\ lock = o
      /\ wf[o].steps > 0 /\ wf[o].config \in Configs
      /\ waves # <<>>
      /\ wf[o].pending \cup wf[o].completed \subseteq Unlinked(Len(waves))
      /\ Unlinked(Len(waves)) \subseteq Latest
      /\ Latest \subseteq Committed /\ Latest \subseteq Dispatches
      /\ \A e \in Unlinked(Len(waves)) : run[e] = "none"
  BY <1>1, HeldWave
<1>3. Merges(wf[o]) /\ wf[o].pending = Awaited /\ receipt[d] = "none"
  BY <1>1, MemoryOf DEF Holding, Merges, Awaited
<1>4. PICK body \in {"patch", "error"} : receipt' = [receipt EXCEPT ![d] = body]
  BY DEF Return
<1>5. /\ receipt' \in [Dispatches -> {"none", "patch", "error"}] /\ receipt'[d] = body
      /\ \A e \in Dispatches \ {d} : receipt'[e] = receipt[e]
  BY <1>2, <1>4 DEF StoreOK
<1>6. planHead' \in [Dispatches -> Nat]
  BY <1>2 DEF Return, StoreOK, Mem
<1>7. StoreOK'
  BY <1>1, <1>2, <1>5, <1>6 DEF StoreOK, TypeOKControl, controlVars, boundVars
<1>8. PICK mem \in Mem : mem = Complete(wf[o], d)
  BY <1>2 DEF Mem, Complete
<1>9. /\ mem.pc = "run" /\ mem.steps = wf[o].steps /\ mem.config = wf[o].config
      /\ mem.pending = wf[o].pending \ {d} /\ ~mem.replay
      /\ mem.completed = wf[o].completed \cup {d}
      /\ mem.current = NoDispatch /\ Remember(o, mem)
  BY <1>1, <1>2, <1>8 DEF Mem, Complete, Return
<1>10. Ready(mem)
  BY <1>2, <1>9 DEF Ready
<1>11. Latest' = Latest /\ Committed' = Committed /\ \A g : Members(g)' = Members(g)
  BY <1>1, SameWaves
<1>12. Tables'
  <2>1. \A e \in Dispatches \ Committed' :
          receipt'[e] = "none" /\ run'[e] = "none" /\ landed'[e] = 0 /\ attempts'[e] = 0
    BY <1>1, <1>2, <1>5, <1>11 DEF IInv, Tables
  <2>2. OnlyLatestUnresolved'
    BY <1>1, <1>11 DEF IInv, Tables, OnlyLatestUnresolved
  <2>3. \A e \in Dispatches : run'[e] # "none" => receipt'[e] # "none"
    BY <1>1, <1>5 DEF IInv, Tables
  <2>4. \A e \in Dispatches : landed'[e] > 0 => receipt'[e] = "patch"
    <3>1. ~(landed[d] > 0)
      BY <1>3 DEF IInv, Tables
    <3> QED
      BY <1>1, <1>5, <3>1 DEF IInv, Tables
  <2>5. UnsafeRunsOnce' /\ TruthfulTelemetry'
    BY <1>1, <1>11 DEF IInv, Tables, UnsafeRunsOnce, TruthfulTelemetry
  <2> QED
    BY <2>1, <2>2, <2>3, <2>4, <2>5 DEF Tables
<1>13. Holding(mem)'
  <2>1. Unlinked(Len(waves))' = Unlinked(Len(waves))
    BY <1>1, <1>11 DEF Unlinked, Members
  <2>2. Awaited' = Awaited \ {d}
    BY <1>2, <1>4, <1>5, <1>11 DEF Awaited
  <2>3. \A e \in mem.completed : e \in Dispatches /\ receipt'[e] # "none"
    BY <1>2, <1>3, <1>4, <1>5, <1>9 DEF Merges
  <2>4. Merges(mem)'
    BY <1>3, <1>9, <2>2, <2>3 DEF Merges
  <2> QED
    BY <1>1, <1>2, <1>9, <2>1, <2>4 DEF Holding
<1> QED
  BY <1>1, <1>2, <1>7, <1>9, <1>10, <1>12, <1>13, StepKeeps

\* A result is taken up: its dispatch has no telemetry yet, and its patch lands
\* unless it landed before.
LEMMA MergeKeeps ==
  ASSUME IInv, NEW o \in Orchestrators, NEW d \in Dispatches, Merge(o, d)
  PROVE  IInv'
<1>1. /\ wf[o].pc = "run" /\ wf[o].current = NoDispatch /\ d \in wf[o].completed
      /\ lock' = lock
      /\ UNCHANGED <<waves, contract, attempts, receipt, planHead, run>>
      /\ UNCHANGED <<controlVars, boundVars, late>>
  BY DEF Merge, Mergeable, At
<1>2. /\ wf[o] \in Mem /\ StoreOK /\ Ready(wf[o]) /\ ~At(o, "off") /\ lock = o
      /\ wf[o].steps > 0 /\ wf[o].config \in Configs
      /\ waves # <<>>
      /\ wf[o].pending \cup wf[o].completed \subseteq Unlinked(Len(waves))
      /\ Unlinked(Len(waves)) \subseteq Latest
      /\ Latest \subseteq Committed /\ Latest \subseteq Dispatches
      /\ \A e \in Unlinked(Len(waves)) : run[e] = "none"
  BY <1>1, HeldWave
<1>3. Merges(wf[o])
  BY <1>1, MemoryOf DEF Holding
<1>4. PICK accept \in BOOLEAN :
        /\ accept => receipt[d] = "patch" /\ (Recognized(d) \/ Drained(planHead[d]))
        /\ Recognized(d) => accept
        /\ landed' = [landed EXCEPT ![d] = IF accept /\ ~Recognized(d) THEN @ + 1 ELSE @]
        /\ RememberChanged(o, [wf[o] EXCEPT
             !.current = d, !.won = accept, !.failed = @ \/ ~accept, !.fresh = TRUE])
  BY DEF Merge
<1>5. run[d] = "none" /\ d \in Committed /\ landed[d] \in {0, 1}
  BY <1>1, <1>2 DEF IInv, Tables, TruthfulTelemetry, StoreOK
<1>6. /\ landed' \in [Dispatches -> Nat]
      /\ \A e \in Dispatches \ {d} : landed'[e] = landed[e]
      /\ landed'[d] = IF accept /\ ~Recognized(d) THEN landed[d] + 1 ELSE landed[d]
  BY <1>2, <1>4 DEF StoreOK
<1>7. landed'[d] = IF accept THEN 1 ELSE 0
  BY <1>4, <1>5, <1>6 DEF Recognized
<1>8. StoreOK'
  BY <1>1, <1>2, <1>6 DEF StoreOK, TypeOKControl, controlVars, boundVars
<1>9. PICK mem \in Mem : mem = [wf[o] EXCEPT
        !.current = d, !.won = accept, !.failed = @ \/ ~accept, !.fresh = TRUE]
  BY <1>2 DEF Mem
<1>10. /\ mem.pc = "run" /\ mem.steps = wf[o].steps /\ mem.config = wf[o].config
       /\ mem.pending = wf[o].pending /\ mem.replay = wf[o].replay
       /\ mem.completed = wf[o].completed
       /\ mem.current = d /\ mem.won = accept /\ RememberChanged(o, mem)
  BY <1>1, <1>2, <1>4, <1>9 DEF Mem
<1>11. Ready(mem)
  BY <1>2, <1>10 DEF Ready
<1>12. /\ Latest' = Latest /\ Committed' = Committed /\ \A g : Members(g)' = Members(g)
       /\ \A e : Critical(e)' = Critical(e)
       /\ \A e, f : Before(e, f)' = Before(e, f)
  BY <1>1, SameWaves
<1>13. Tables'
  <2>1. \A e \in Dispatches \ Committed' :
          receipt'[e] = "none" /\ run'[e] = "none" /\ landed'[e] = 0 /\ attempts'[e] = 0
    BY <1>1, <1>5, <1>6, <1>12 DEF IInv, Tables
  <2>2. OnlyLatestUnresolved'
    BY <1>1, <1>12 DEF IInv, Tables, OnlyLatestUnresolved
  <2>3. \A e \in Dispatches : run'[e] # "none" => receipt'[e] # "none"
    BY <1>1 DEF IInv, Tables
  <2>4. \A e \in Dispatches : landed'[e] > 0 => receipt'[e] = "patch"
    BY <1>1, <1>4, <1>6, <1>7 DEF IInv, Tables
  <2>5. UnsafeRunsOnce'
    BY <1>1, <1>12 DEF IInv, Tables, UnsafeRunsOnce
  <2>6. TruthfulTelemetry'
    BY <1>1, <1>5, <1>6, <1>7 DEF IInv, Tables, TruthfulTelemetry
  <2> QED
    BY <2>1, <2>2, <2>3, <2>4, <2>5, <2>6 DEF Tables
<1>14. Holding(mem)'
  <2>1. Unlinked(Len(waves))' = Unlinked(Len(waves)) /\ Awaited' = Awaited
    BY <1>1, <1>12 DEF Unlinked, Awaited, Members
  <2>2. Merges(mem)'
    BY <1>1, <1>3, <1>7, <1>10, <1>12, <2>1 DEF Merges
  <2> QED
    BY <1>1, <1>2, <1>10, <2>1, <2>2 DEF Holding
<1> QED
  BY <1>1, <1>2, <1>8, <1>10, <1>11, <1>13, <1>14, StepKeeps

\* The telemetry of the result that was taken up, or its loss.
LEMMA LinkKeeps ==
  ASSUME IInv, NEW o \in Orchestrators, Link(o)
  PROVE  IInv'
<1> DEFINE c == wf[o].current
<1>1. /\ wf[o].pc = "run" /\ c # NoDispatch
      /\ lock' = lock
      /\ UNCHANGED <<waves, contract, attempts, receipt, planHead, landed>>
      /\ UNCHANGED <<controlVars, boundVars, late>>
  BY DEF Link, At
<1>2. /\ wf[o] \in Mem /\ StoreOK /\ Ready(wf[o]) /\ ~At(o, "off") /\ lock = o
      /\ wf[o].steps > 0 /\ wf[o].config \in Configs
      /\ waves # <<>>
      /\ wf[o].pending \cup wf[o].completed \subseteq Unlinked(Len(waves))
      /\ Unlinked(Len(waves)) \subseteq Latest
      /\ Latest \subseteq Committed /\ Latest \subseteq Dispatches
      /\ \A e \in Unlinked(Len(waves)) : run[e] = "none"
  BY <1>1, HeldWave
<1>3. Merges(wf[o])
  BY <1>1, MemoryOf DEF Holding
<1>4. PICK d \in Dispatches : d = c
  BY <1>1, <1>2 DEF Mem
<1>5. /\ d \in wf[o].completed /\ d \notin wf[o].pending /\ receipt[d] # "none"
      /\ (wf[o].won <=> landed[d] = 1) /\ run[d] = "none" /\ d \in Committed
  BY <1>1, <1>2, <1>3, <1>4 DEF Merges
<1>6. PICK mem \in Mem : mem = [wf[o] EXCEPT !.current = NoDispatch, !.completed = @ \ {d}]
  BY <1>2 DEF Mem
<1>7. /\ mem.pc = "run" /\ mem.steps = wf[o].steps /\ mem.config = wf[o].config
      /\ mem.pending = wf[o].pending /\ mem.replay = wf[o].replay
      /\ mem.completed = wf[o].completed \ {d} /\ mem.current = NoDispatch
      /\ Remember(o, mem) \/ RememberChanged(o, mem)
  BY <1>1, <1>2, <1>4, <1>6 DEF Mem, Link
<1>8. Ready(mem)
  BY <1>2, <1>7 DEF Ready
<1>9. run' = run \/ run' = [run EXCEPT ![d] = IF wf[o].won THEN "accepted" ELSE "rejected"]
  BY <1>4 DEF Link, Outcome
<1>10. /\ run' \in [Dispatches -> {"none", "accepted", "rejected"}]
       /\ \A e \in Dispatches \ {d} : run'[e] = run[e]
       /\ run'[d] \in {"none", IF wf[o].won THEN "accepted" ELSE "rejected"}
  BY <1>2, <1>5, <1>9 DEF StoreOK
<1>11. StoreOK'
  BY <1>1, <1>2, <1>10 DEF StoreOK, TypeOKControl, controlVars, boundVars
<1>12. /\ Latest' = Latest /\ Committed' = Committed /\ \A g : Members(g)' = Members(g)
       /\ \A e : Critical(e)' = Critical(e)
       /\ \A e, f : Before(e, f)' = Before(e, f)
  BY <1>1, SameWaves
<1>13. Tables'
  <2>1. \A e \in Dispatches \ Committed' :
          receipt'[e] = "none" /\ run'[e] = "none" /\ landed'[e] = 0 /\ attempts'[e] = 0
    BY <1>1, <1>5, <1>10, <1>12 DEF IInv, Tables
  <2>2. OnlyLatestUnresolved'
    <3> SUFFICES ASSUME NEW g \in 1..(Len(waves) - 1), NEW e \in Members(g)
                 PROVE  run'[e] # "none"
      BY <1>1, <1>12 DEF OnlyLatestUnresolved
    <3>1. run[e] # "none"
      BY DEF IInv, Tables, OnlyLatestUnresolved
    <3>2. e \in Dispatches
      <4>1. g \in 1..Len(waves)
        BY <1>2, WaveFacts
      <4> QED
        BY <1>2, <4>1, WaveFacts
    <3> QED
      BY <1>5, <1>10, <3>1, <3>2
  <2>3. \A e \in Dispatches : run'[e] # "none" => receipt'[e] # "none"
    BY <1>1, <1>5, <1>10 DEF IInv, Tables
  <2>4. \A e \in Dispatches : landed'[e] > 0 => receipt'[e] = "patch"
    BY <1>1 DEF IInv, Tables
  <2>5. UnsafeRunsOnce'
    BY <1>1, <1>12 DEF IInv, Tables, UnsafeRunsOnce
  <2>6. TruthfulTelemetry'
    <3>1. landed[d] <= 1 /\ landed[d] \in Nat
      BY <1>2 DEF IInv, Tables, TruthfulTelemetry, StoreOK
    <3>2. run'[d] = "accepted" => landed[d] = 1
      BY <1>5, <1>10
    <3>3. run'[d] = "rejected" => landed[d] = 0
      BY <1>5, <1>10, <3>1
    <3> QED
      BY <1>1, <1>10, <3>1, <3>2, <3>3 DEF IInv, Tables, TruthfulTelemetry
  <2> QED
    BY <2>1, <2>2, <2>3, <2>4, <2>5, <2>6 DEF Tables
<1>14. Holding(mem)'
  <2>1. Awaited' = Awaited
    BY <1>1, <1>12 DEF Awaited
  <2>2. \A e \in Unlinked(Len(waves)) \ {d} : e \in Unlinked(Len(waves))'
    BY <1>1, <1>2, <1>10, <1>12 DEF Unlinked
  <2>3. Merges(mem)'
    BY <1>1, <1>3, <1>7, <1>12, <2>1 DEF Merges
  <2>4. mem.pending \cup mem.completed \subseteq Unlinked(Len(waves))'
    BY <1>2, <1>5, <1>7, <2>2
  <2> QED
    BY <1>1, <1>2, <1>7, <2>3, <2>4 DEF Holding
<1> QED
  BY <1>1, <1>2, <1>7, <1>8, <1>11, <1>13, <1>14, StepKeeps

\* Another process writes the status or the proof state.
LEMMA ElsewhereKeeps ==
  ASSUME IInv, StoreOK', UNCHANGED <<ledgerVars, lock>>,
         UNCHANGED wf \/ wf' = [p \in Orchestrators |-> [wf[p] EXCEPT !.fresh = FALSE]]
  PROVE  IInv'
<1>1. wf \in [Orchestrators -> Mem]
  BY TypeParts DEF IInv, Typed
<1>2. ASSUME NEW p \in Orchestrators
      PROVE  /\ wf'[p] \in Mem /\ wf'[p].pc = wf[p].pc
             /\ wf'[p].steps = wf[p].steps /\ wf'[p].config = wf[p].config
             /\ wf'[p].plan = wf[p].plan /\ wf'[p].pending = wf[p].pending
             /\ wf'[p].replay = wf[p].replay /\ wf'[p].completed = wf[p].completed
             /\ wf'[p].current = wf[p].current /\ wf'[p].won = wf[p].won
  <2>1. wf[p] \in Mem
    BY <1>1
  <2>2. wf'[p] = wf[p] \/ wf'[p] = [wf[p] EXCEPT !.fresh = FALSE]
    OBVIOUS
  <2> QED
    BY <2>1, <2>2 DEF Mem
<1>3. wf' \in [Orchestrators -> Mem]
  BY <1>1, <1>2
<1>4. Typed' /\ Exclusive'
  <2>1. TypeOK'
    BY <1>3 DEF StoreOK, TypeOK, Mem
  <2>2. \A p \in Orchestrators : Ready(wf[p])'
    BY <1>2 DEF IInv, Typed, Ready
  <2>3. Exclusive'
    BY <1>2 DEF IInv, Exclusive, At
  <2> QED
    BY <2>1, <2>2, <2>3 DEF Typed
<1>5. Tables'
  BY DEF IInv, Tables, ledgerVars, Committed, Members, TruthfulTelemetry, OnlyLatestUnresolved,
         UnsafeRunsOnce
<1>6. ASSUME NEW p \in Orchestrators
      PROVE  Holding(wf[p])'
  <2>1. PICK m : m = wf'[p]
    OBVIOUS
  <2>2. Holding(wf[p])
    BY DEF IInv
  <2>3. Holding(m)
    BY <1>2, <2>1, <2>2 DEF Holding, Executes, Merges
  <2>4. Holding(m)'
    BY <2>3 DEF Holding, Executes, Merges, Unlinked, Awaited, Latest, Members, ledgerVars,
         Critical, Before, Member, IsCompanion
  <2> QED
    BY <2>1, <2>4
<1> QED
  BY <1>4, <1>5, <1>6 DEF IInv

\* The operator's processes.
LEMMA RequestType ==
  ASSUME StoreOK, Request
  PROVE  StoreOK'
<1>1. /\ status \in RunStatuses /\ requests \in 0..MaxRequests /\ late' \in Nat
      /\ MaxRequests \in Nat
  BY RunControlAssumption DEF StoreOK, TypeOKControl, Request
<1>2. ASSUME NEW new \in RunStatuses, NEW hard \in BOOLEAN, SetStatus(new, "cli", hard)
      PROVE  status' \in RunStatuses /\
             policyLog' \in Seq([from : RunStatuses, to : RunStatuses,
                                 hard : BOOLEAN, source : Sources])
  <2>1. [from |-> status, to |-> new, hard |-> hard, source |-> "cli"]
          \in [from : RunStatuses, to : RunStatuses, hard : BOOLEAN, source : Sources]
    BY <1>1 DEF Sources
  <2> QED
    BY <1>2, <2>1 DEF SetStatus, StoreOK, TypeOKControl
<1>3. CASE DecidePause \/ DecideResume
  <2>1. TypeOKControl'
    BY <1>3 DEF DecidePause, DecideResume, TypeOKControl, StoreOK
  <2> QED
    BY <1>1, <2>1 DEF Request, StoreOK, ledgerVars, boundVars
<1>4. CASE Write
  <2>1. operator \in {"pause_requested", "running"} /\ operator \in RunStatuses
    BY <1>4 DEF Write, StoreOK, TypeOKControl, RunStatuses
  <2>2. /\ status' \in RunStatuses
        /\ policyLog' \in Seq([from : RunStatuses, to : RunStatuses,
                               hard : BOOLEAN, source : Sources])
    BY <1>2, <1>4, <2>1 DEF Write
  <2>3. operator' = "idle" /\ requests' \in 0..MaxRequests
    BY <1>1, <1>4 DEF Write, StoreOK, TypeOKControl
  <2> QED
    BY <1>1, <2>2, <2>3 DEF TypeOKControl, Request, StoreOK, ledgerVars, boundVars
<1>5. CASE Stop
  <2>1. PICK hard \in BOOLEAN : SetStatus("stopping", "cli", hard)
    BY <1>5 DEF Stop
  <2>2. "stopping" \in RunStatuses
    BY DEF RunStatuses
  <2>3. /\ status' \in RunStatuses
        /\ policyLog' \in Seq([from : RunStatuses, to : RunStatuses,
                               hard : BOOLEAN, source : Sources])
    BY <1>2, <2>1, <2>2
  <2>4. operator' = "idle" /\ requests' \in 0..MaxRequests
    BY <1>1, <1>5 DEF Stop, StoreOK, TypeOKControl
  <2> QED
    BY <1>1, <2>3, <2>4 DEF TypeOKControl, Request, StoreOK, ledgerVars, boundVars
<1> QED
  BY <1>3, <1>4, <1>5 DEF Request, Operate

-----------------------------------------------------------------------------
(* The invariant *)

LEMMA InitHolds ==
  ASSUME Init
  PROVE  IInv
<1>1. "none" \in Configs \cup {"none"} /\ 0 \in 0..MaxSteps /\ "off" \in Phases
  BY DispatchAssumption DEF Phases
<1>2. Idle \in Mem /\ Idle.pc = "off"
  BY <1>1, IdleType
<1>3. ~Idle.replay /\ Idle.completed = {} /\ Idle.current = NoDispatch
  BY DEF Idle
<1>4. wf = [o \in Orchestrators |-> Idle] /\ lock = Nobody /\ waves = <<>> /\ Len(waves) = 0
  BY DEF Init
<1>5. StoreOK
  <2>1. TypeOKControl
    BY RunControlAssumption DEF Init, InitControl, TypeOKControl, RunStatuses
  <2> QED
    BY <1>4, <2>1, DispatchAssumption DEF Init, StoreOK
<1>6. Typed
  <2>1. wf \in [Orchestrators -> Mem]
    BY <1>2, <1>4
  <2>2. \A o \in Orchestrators : Ready(wf[o])
    BY <1>2, <1>4 DEF Ready, Inside
  <2> QED
    BY <1>5, <2>1, <2>2, TypeParts DEF Typed
<1>7. Exclusive
  BY <1>2, <1>4, DispatchAssumption DEF Exclusive, At
<1>8. Tables
  <2>1. Committed = {}
    BY <1>4 DEF Committed
  <2> QED
    BY <1>4, <2>1 DEF Init, Tables, TruthfulTelemetry, OnlyLatestUnresolved, UnsafeRunsOnce
<1>9. \A o \in Orchestrators : Holding(wf[o])
  BY <1>2, <1>3, <1>4 DEF Holding
<1> QED
  BY <1>6, <1>7, <1>8, <1>9 DEF IInv

LEMMA NextKeeps ==
  ASSUME IInv, [Next]_vars
  PROVE  IInv'
<1>1. ASSUME NEW o \in Orchestrators, Launch(o) \/ Step(o) \/ Raise(o) \/ Crash(o)
      PROVE  IInv'
  BY <1>1, LaunchKeeps, ControlKeeps, WaveKeeps, CommitKeeps, ClaimKeeps, ReturnKeeps,
     MergeKeeps, LinkKeeps DEF Step
<1>2. StoreOK
  BY TypeParts DEF IInv, Typed
<1>3. CASE Change
  <2>1. changes' \in 0..MaxChanges
    BY <1>2, <1>3, DispatchAssumption DEF Change, StoreOK
  <2>2. StoreOK'
    BY <1>2, <1>3, <2>1 DEF Change, StoreOK, TypeOKControl, controlVars, ledgerVars
  <2> QED
    BY <1>3, <2>2, ElsewhereKeeps DEF Change
<1>4. CASE Request
  BY <1>2, <1>4, RequestType, ElsewhereKeeps DEF Request
<1>5. CASE UNCHANGED vars
  <2>1. StoreOK'
    BY <1>2, <1>5, SameStore DEF vars, StoreOK
  <2> QED
    BY <1>5, <2>1, ElsewhereKeeps DEF vars
<1> QED
  BY <1>1, <1>3, <1>4, <1>5 DEF Next

LEMMA Invariant == Spec => []IInv
<1>1. Init => IInv
  BY InitHolds
<1>2. IInv /\ [Next]_vars => IInv'
  BY NextKeeps
<1> QED
  BY <1>1, <1>2, PTL DEF Spec

\* What no committed wave holds has no result, no run, no patch and no attempt.
NothingUncommitted ==
  \A d \in Dispatches \ Committed :
    receipt[d] = "none" /\ run[d] = "none" /\ landed[d] = 0 /\ attempts[d] = 0

\* Every variable keeps its type, for any number of processes and waves, and no
\* attempt, result, patch or run exists of a dispatch before its wave is committed
\* (_record_scheduler_dispatches comes before any session, workflow.py).
THEOREM TypeCorrect == Spec => [](TypeOK /\ NothingUncommitted)
<1>1. IInv => TypeOK /\ NothingUncommitted
  BY DEF IInv, Typed, Tables, NothingUncommitted
<1> QED
  BY <1>1, Invariant, PTL

\* Recovery misses nothing by looking at the latest wave only
\* (_oldest_unlinked_dispatch_group, workflow.py): no process commits a wave over
\* one with a dispatch left without telemetry, whoever crashed before.
THEOREM NothingLeftBehind == Spec => []OnlyLatestUnresolved
<1>1. IInv => OnlyLatestUnresolved
  BY DEF IInv, Tables
<1> QED
  BY <1>1, Invariant, PTL

\* An executor that may not be invoked twice for a dispatch is not, whatever number
\* of invocations die and under whatever configurations they are started
\* (_recovery_contract_compatibility, workflow.py).
THEOREM RunsAtMostOnce == Spec => []UnsafeRunsOnce
<1>1. IInv => UnsafeRunsOnce
  BY DEF IInv, Tables
<1> QED
  BY <1>1, Invariant, PTL

\* A dispatch whose run has patch_accepted set has its patch in the journal, once,
\* and one whose run has it unset has none, however often the result is merged
\* (_accepted_dispatch_patch_outcome).  The status of the run is another column.
THEOREM TelemetryTellsTheTruth == Spec => []TruthfulTelemetry
<1>1. IInv => TruthfulTelemetry
  BY DEF IInv, Tables
<1> QED
  BY <1>1, Invariant, PTL

-----------------------------------------------------------------------------
(* What lands *)

\* A patch lands in a merge only, and for the first time.
LEMMA LandsInMerge ==
  ASSUME IInv, [Next]_vars, NEW d \in Dispatches, landed'[d] > landed[d]
  PROVE  \E o \in Orchestrators : Merge(o, d) /\ ~Recognized(d)
<1>1. landed \in [Dispatches -> Nat]
  BY TypeParts DEF IInv, Typed, StoreOK
<1>2. landed' # landed
  BY <1>1
<1>3. PICK o \in Orchestrators, e \in Dispatches : Merge(o, e)
  BY <1>2 DEF Next, Step, Launch, Sync, Check, Park, Recover, Plan, Commit, Handoff, Prepare,
     Claim, Link, EndWave, Return, Replay, Finalize, WriteFinal, Unwind, WriteAborted,
     Raise, Crash, Change, Request, ledgerVars, vars
<1>4. PICK accept \in BOOLEAN :
        landed' = [landed EXCEPT ![e] = IF accept /\ ~Recognized(e) THEN @ + 1 ELSE @]
  BY <1>3 DEF Merge
<1>5. d = e /\ ~Recognized(e)
  BY <1>1, <1>4
<1> QED
  BY <1>3, <1>5

\* When a patch lands, every verifier, integrator or writer of its wave that
\* precedes it in merge order has returned (_blocked_by_pending_priority_barrier,
\* _partition_recovery_results): in the invocation that executes the wave and in
\* every one that recovers it.
THEOREM BarrierKept == Spec => CriticalFirst
<1>1. ASSUME IInv, [Next]_vars, NEW d \in Dispatches, landed'[d] > landed[d],
             NEW e \in Members(d[1]), Critical(e), Before(e, d)
      PROVE  receipt[e] # "none"
  <2>1. PICK o \in Orchestrators : Merge(o, d)
    BY <1>1, LandsInMerge
  <2>2. wf[o].pc = "run" /\ d \in wf[o].completed /\ ~Blocked(d, wf[o].pending)
    BY <2>1 DEF Merge, Mergeable, At
  <2>3. d \in Latest /\ d[1] = Len(waves)
    BY <1>1, <2>2, HeldWave
  <2>4. Merges(wf[o])
    BY <1>1, <2>2, MemoryOf DEF Holding
  <2>5. e \in Latest
    BY <1>1, <2>3 DEF Latest
  <2>6. CASE ~wf[o].replay
    BY <1>1, <2>2, <2>4, <2>5, <2>6 DEF Merges, Awaited, Blocked
  <2>7. CASE wf[o].replay
    BY <1>1, <2>2, <2>4, <2>5, <2>7 DEF Merges, Awaited
  <2> QED
    BY <2>6, <2>7
<1>2. IInv /\ [Next]_vars =>
        [\A d \in Dispatches : landed'[d] > landed[d] =>
           \A e \in Members(d[1]) :
             Critical(e) /\ Before(e, d) => receipt[e] # "none"]_vars
  BY <1>1
<1> QED
  BY <1>2, Invariant, PTL DEF Spec, CriticalFirst

\* A result planned before a hard stop was requested never lands after it ("Hard stops and other
\* policy changes still fail closed", workflow.py), whatever restarts in between.
THEOREM HardStopHolds == Spec => HardStopFailsClosed
<1>1. ASSUME IInv, [Next]_vars, NEW d \in Dispatches, landed'[d] > landed[d]
      PROVE  ~HardStopAfter(planHead[d])
  <2>1. PICK o \in Orchestrators : Merge(o, d) /\ ~Recognized(d)
    BY <1>1, LandsInMerge
  <2>2. PICK accept \in BOOLEAN :
          /\ accept => receipt[d] = "patch" /\ (Recognized(d) \/ Drained(planHead[d]))
          /\ landed' = [landed EXCEPT ![d] = IF accept /\ ~Recognized(d) THEN @ + 1 ELSE @]
    BY <2>1 DEF Merge
  <2>3. landed \in [Dispatches -> Nat]
    BY <1>1, TypeParts DEF IInv, Typed, StoreOK
  <2>4. accept
    BY <1>1, <2>2, <2>3
  <2> QED
    BY <2>1, <2>2, <2>4 DEF Drained, HardStopAfter
<1>2. IInv /\ [Next]_vars =>
        [\A d \in Dispatches :
           landed'[d] > landed[d] => ~HardStopAfter(planHead[d])]_vars
  BY <1>1
<1> QED
  BY <1>2, Invariant, PTL DEF Spec, HardStopFailsClosed

-----------------------------------------------------------------------------
(* A pending pause *)

Planning == {"recover", "plan", "commit"}

\* The one wave committed late was already decided on; nobody plans another.
LateInv ==
  /\ late <= 1
  /\ late > 0 => status = "pause_requested" /\ \A o \in Orchestrators : wf[o].pc \notin Planning

\* A step that is not on its way to commit a wave disturbs nothing.
LEMMA NotPlanning ==
  ASSUME IInv, LateInv, UNCHANGED <<status, late>>, NEW o \in Orchestrators, NEW mem,
         mem.pc \notin Planning, Remember(o, mem) \/ RememberChanged(o, mem)
  PROVE  LateInv'
<1>1. wf \in [Orchestrators -> Mem]
  BY TypeParts DEF IInv, Typed
<1>2. ASSUME NEW p \in Orchestrators
      PROVE  wf'[p].pc \in Planning => wf[p].pc \in Planning
  <2>1. wf[p] \in Mem
    BY <1>1
  <2>2. CASE p = o
    BY <1>1, <2>2 DEF Remember, RememberChanged
  <2>3. CASE p # o
    <3>1. wf'[p] = wf[p] \/ wf'[p] = [wf[p] EXCEPT !.fresh = FALSE]
      BY <1>1, <2>3 DEF Remember, RememberChanged
    <3> QED
      BY <2>1, <3>1 DEF Mem
  <2> QED
    BY <2>2, <2>3
<1> QED
  BY <1>2 DEF LateInv

LEMMA LateExit ==
  ASSUME IInv, LateInv, UNCHANGED <<status, late>>, NEW o \in Orchestrators,
         \/ \E pc \in {"park", "final", "abort", "aborted"} : \E exit : Exit(o, pc, exit)
         \/ \E steps : Again(o, steps)
         \/ Leave(o)
  PROVE  LateInv'
<1>1. ASSUME NEW pc \in {"park", "final", "abort", "aborted"}, NEW exit, Exit(o, pc, exit)
      PROVE  LateInv'
  <2>1. [Idle EXCEPT !.pc = pc, !.exit = exit].pc \notin Planning
    BY DEF Idle, Planning
  <2> QED
    BY <1>1, <2>1, NotPlanning DEF Exit
<1>2. ASSUME NEW steps, Again(o, steps)
      PROVE  LateInv'
  <2>1. [Idle EXCEPT !.pc = "check", !.config = wf[o].config, !.steps = steps].pc \notin Planning
    BY DEF Idle, Planning
  <2> QED
    BY <1>2, <2>1, NotPlanning DEF Again
<1>3. ASSUME Leave(o)
      PROVE  LateInv'
  <2>1. Idle.pc \notin Planning
    BY DEF Idle, Planning
  <2> QED
    BY <1>3, <2>1, NotPlanning DEF Leave
<1> QED
  BY <1>1, <1>2, <1>3

LEMMA LateStep ==
  ASSUME IInv, IInv', LateInv, NEW o \in Orchestrators,
         Launch(o) \/ Step(o) \/ Raise(o) \/ Crash(o)
  PROVE  LateInv'
<1>1. wf[o] \in Mem /\ late \in Nat
  BY MemoryOf DEF StoreOK
<1>2. ASSUME late' = late, wf[o].pc \in Planning
      PROVE  LateInv'
  BY <1>1, <1>2 DEF LateInv
<1>3. CASE Sync(o) \/ Park(o) \/ WriteFinal(o) \/ WriteAborted(o)
  <2>1. late' = 0
    BY <1>3 DEF Sync, Park, WriteFinal, WriteAborted
  <2> QED
    BY <2>1 DEF LateInv
<1>4. CASE Launch(o)
  <2>1. PICK c \in Configs :
          Remember(o, [Idle EXCEPT
            !.pc = IF status \in {"stopped", "awaiting_human", "completed"} THEN "sync" ELSE "check",
            !.config = c, !.steps = MaxSteps])
    BY <1>4 DEF Launch
  <2>2. [Idle EXCEPT
           !.pc = IF status \in {"stopped", "awaiting_human", "completed"} THEN "sync" ELSE "check",
           !.config = c, !.steps = MaxSteps].pc \notin Planning
    BY DEF Idle, Planning
  <2> QED
    BY <1>4, <2>1, <2>2, NotPlanning DEF Launch, controlVars
<1>5. CASE Check(o)
  <2>1. CASE late = 0
    BY <1>5, <2>1 DEF Check, LateInv
  <2>2. CASE late # 0
    <3>1. Requested
      BY <1>1, <2>2 DEF LateInv, Requested
    <3>2. \E pc \in {"park", "final"}, exit \in {"stop", status} : Exit(o, pc, exit)
      BY <1>1, <1>5, <3>1 DEF Check, Mem
    <3> QED
      BY <1>5, <3>2, LateExit DEF Check, controlVars
  <2> QED
    BY <2>1, <2>2
<1>6. CASE Recover(o) \/ Plan(o)
  <2>1. late' = late /\ wf[o].pc \in Planning
    BY <1>6 DEF Recover, Plan, At, Planning
  <2> QED
    BY <1>2, <2>1
<1>7. CASE Commit(o)
  <2>1. wf[o].pc \in Planning /\ UNCHANGED status /\ lock' = lock
    BY <1>7 DEF Commit, At, Planning, controlVars
  <2>2. late = 0
    BY <1>1, <2>1 DEF LateInv
  <2>3. CASE late' = late
    BY <1>2, <2>1, <2>3
  <2>4. CASE late' # late
    <3>1. /\ late' = 1 /\ status' = "pause_requested"
          /\ RememberChanged(o, [wf[o] EXCEPT
               !.pc = "handoff", !.plan = <<>>,
               !.pending = {<<Len(waves) + 1, i>> : i \in DOMAIN wf[o].plan}])
      BY <1>7, <2>1, <2>2, <2>4 DEF Commit
    <3>2. wf'[o].pc = "handoff"
      BY <1>1, <3>1 DEF RememberChanged, Mem
    <3>3. \A p \in Orchestrators : lock' = p <=> ~(wf'[p].pc = "off")
      BY DEF IInv, Exclusive, At
    <3>4. \A p \in Orchestrators : wf'[p].pc \notin Planning
      BY <3>2, <3>3 DEF Planning
    <3> QED
      BY <3>1, <3>4 DEF LateInv
  <2> QED
    BY <2>3, <2>4
<1>8. ASSUME NEW pc \in {"prepare", "run", "finalize"}, Goto(o, pc), UNCHANGED <<status, late>>
      PROVE  LateInv'
  <2>1. [wf[o] EXCEPT !.pc = pc].pc \notin Planning
    BY <1>1 DEF Mem, Planning
  <2> QED
    BY <1>8, <2>1, NotPlanning DEF Goto
<1>9. CASE Handoff(o) \/ Claim(o) \/ Finalize(o) \/ Unwind(o) \/ EndWave(o) \/ Raise(o) \/ Crash(o)
  <2>1. UNCHANGED <<status, late>>
    BY <1>9 DEF Handoff, Claim, Finalize, Unwind, EndWave, Raise, Crash, controlVars
  <2>2. \/ \E pc \in {"prepare", "run", "finalize"} : Goto(o, pc)
        \/ \E pc \in {"park", "final", "abort", "aborted"} : \E exit : Exit(o, pc, exit)
        \/ \E steps : Again(o, steps)
        \/ Leave(o)
    BY <1>9 DEF Handoff, Claim, Finalize, Unwind, EndWave, Raise, Crash
  <2> QED
    BY <1>8, <2>1, <2>2, LateExit
<1>10. CASE Prepare(o)
  <2>1. [wf[o] EXCEPT !.pc = "claim", !.fresh = TRUE, !.head = Len(policyLog)].pc \notin Planning
    BY <1>1 DEF Mem, Planning
  <2> QED
    BY <1>10, <2>1, NotPlanning DEF Prepare, controlVars
<1>11. ASSUME NEW mem, mem.pc = wf[o].pc, wf[o].pc = "run", UNCHANGED <<status, late>>,
              Remember(o, mem) \/ RememberChanged(o, mem)
       PROVE  LateInv'
  <2>1. mem.pc \notin Planning
    BY <1>11 DEF Planning
  <2> QED
    BY <1>11, <2>1, NotPlanning
<1>12. ASSUME NEW d \in Dispatches, Return(o, d) \/ Replay(o, d)
       PROVE  LateInv'
  <2>1. Complete(wf[o], d).pc = wf[o].pc
    BY <1>1 DEF Complete, Mem
  <2>2. wf[o].pc = "run" /\ UNCHANGED <<status, late>> /\ Remember(o, Complete(wf[o], d))
    BY <1>12 DEF Return, Replay, Listening, At, controlVars
  <2> QED
    BY <1>11, <2>1, <2>2
<1>13. ASSUME NEW d \in Dispatches, Merge(o, d)
       PROVE  LateInv'
  <2>1. PICK accept \in BOOLEAN : RememberChanged(o, [wf[o] EXCEPT
          !.current = d, !.won = accept, !.failed = @ \/ ~accept, !.fresh = TRUE])
    BY <1>13 DEF Merge
  <2>2. [wf[o] EXCEPT
          !.current = d, !.won = accept, !.failed = @ \/ ~accept, !.fresh = TRUE].pc = wf[o].pc
    BY <1>1 DEF Mem
  <2>3. wf[o].pc = "run" /\ UNCHANGED <<status, late>>
    BY <1>13 DEF Merge, At, controlVars
  <2> QED
    BY <1>11, <2>1, <2>2, <2>3
<1>14. CASE Link(o)
  <2> DEFINE mem == [wf[o] EXCEPT !.current = NoDispatch, !.completed = @ \ {wf[o].current}]
  <2>1. mem.pc = wf[o].pc
    BY <1>1 DEF Mem
  <2>2. wf[o].pc = "run" /\ UNCHANGED <<status, late>>
        /\ (Remember(o, mem) \/ RememberChanged(o, mem))
    BY <1>14 DEF Link, At, controlVars
  <2> QED
    BY <1>11, <2>1, <2>2
<1> QED
  BY <1>3, <1>4, <1>5, <1>6, <1>7, <1>9, <1>10, <1>12, <1>13, <1>14 DEF Step

\* The operator's own steps: a request that changes the status ends the pause.
LEMMA LateElsewhere ==
  ASSUME IInv, LateInv, Change \/ Request \/ UNCHANGED vars
  PROVE  LateInv'
<1>1. wf \in [Orchestrators -> Mem] /\ StoreOK
  BY TypeParts DEF IInv, Typed
<1>2. CASE Change
  <2>1. ASSUME NEW p \in Orchestrators
        PROVE  wf'[p].pc = wf[p].pc
    BY <1>1, <1>2 DEF Change, Mem
  <2> QED
    BY <1>2, <2>1 DEF Change, LateInv, controlVars
<1>3. CASE Request
  <2>1. CASE late' = 0
    BY <2>1 DEF LateInv
  <2>2. CASE policyLog' = policyLog
    <3>1. UNCHANGED status
      <4>1. ASSUME NEW new, NEW hard, SetStatus(new, "cli", hard)
            PROVE  FALSE
        BY <1>1, <2>2, <4>1 DEF SetStatus, StoreOK, TypeOKControl
      <4> QED
        BY <1>3, <4>1 DEF Request, Operate, DecidePause, DecideResume, Write, Stop
    <3> QED
      BY <1>3, <2>2, <3>1 DEF Request, LateInv
  <2> QED
    BY <1>3, <2>1, <2>2 DEF Request
<1>4. CASE UNCHANGED vars
  BY <1>4 DEF vars, controlVars, LateInv
<1> QED
  BY <1>2, <1>3, <1>4

\* While a pause request is pending at most one wave is committed
\* (_run_control_stop_action, workflow.py), however often the workflow restarts.
THEOREM PauseHolds == Spec => []PauseStopsDispatch
<1>1. Init => LateInv
  BY DEF Init, LateInv
<1>2. IInv /\ IInv' /\ LateInv /\ [Next]_vars => LateInv'
  BY LateStep, LateElsewhere DEF Next
<1>3. LateInv => PauseStopsDispatch
  BY DEF LateInv, PauseStopsDispatch
<1> QED
  BY <1>1, <1>2, <1>3, Invariant, PTL DEF Spec

-----------------------------------------------------------------------------
(* A halt stands *)

\* Where a process can be while the status is s.
Calm(s, pc) ==
  /\ s = "paused" => pc \in {"off", "check", "final", "abort"}
  /\ s \in Halted \ {"paused"} => pc \in {"off", "sync", "final", "abort", "aborted"}

HaltInv == \A o \in Orchestrators : Calm(status, wf[o].pc)

\* Whoever moves is alone, so that it owes its own position only.
LEMMA CalmMove ==
  ASSUME IInv, IInv', NEW o \in Orchestrators, NEW mem, mem.pc # "off",
         Remember(o, mem) \/ RememberChanged(o, mem), Calm(status', mem.pc)
  PROVE  HaltInv'
<1>1. wf \in [Orchestrators -> Mem]
  BY TypeParts DEF IInv, Typed
<1>2. wf'[o] = mem
  BY <1>1 DEF Remember, RememberChanged
<1>3. \A p \in Orchestrators : lock' = p <=> wf'[p].pc # "off"
  BY DEF IInv, Exclusive, At
<1>4. \A p \in Orchestrators \ {o} : wf'[p].pc = "off"
  BY <1>2, <1>3
<1> QED
  BY <1>2, <1>4 DEF HaltInv, Calm

\* Whoever leaves is the last.
LEMMA CalmLeave ==
  ASSUME IInv, NEW o \in Orchestrators, ~At(o, "off"), Leave(o)
  PROVE  HaltInv'
<1>1. wf \in [Orchestrators -> Mem]
  BY TypeParts DEF IInv, Typed
<1>2. \A p \in Orchestrators : wf'[p].pc = "off"
  <2>1. \A p \in Orchestrators \ {o} : wf[p].pc = "off"
    BY DEF IInv, Exclusive, At
  <2> QED
    BY <1>1, <2>1 DEF Leave, Remember, Idle
<1> QED
  BY <1>2 DEF HaltInv, Calm

LEMMA CalmExit ==
  ASSUME IInv, IInv', NEW o \in Orchestrators,
         NEW pc, NEW exit, Exit(o, pc, exit), pc # "off", Calm(status', pc)
  PROVE  HaltInv'
<1>1. [Idle EXCEPT !.pc = pc, !.exit = exit].pc = pc
  BY DEF Idle
<1> QED
  BY <1>1, CalmMove DEF Exit

\* Past the checkpoint the run is not halted.
LEMMA CalmInside ==
  ASSUME IInv, IInv', HaltInv, NEW o \in Orchestrators, wf[o].pc \in Inside, status' = status,
         \/ \E mem : mem.pc # "off" /\ (Remember(o, mem) \/ RememberChanged(o, mem))
         \/ Leave(o)
  PROVE  HaltInv'
<1>1. status \notin Halted
  BY DEF HaltInv, Calm, Inside, Halted
<1>2. CASE Leave(o)
  <2>1. ~At(o, "off")
    BY DEF Inside, At
  <2> QED
    BY <1>2, <2>1, CalmLeave
<1>3. ASSUME NEW mem, mem.pc # "off", Remember(o, mem) \/ RememberChanged(o, mem)
      PROVE  HaltInv'
  <2>1. Calm(status', mem.pc)
    BY <1>1 DEF Calm, Halted
  <2> QED
    BY <1>3, <2>1, CalmMove
<1> QED
  BY <1>2, <1>3

\* The steps around the loop.
LEMMA HaltControl ==
  ASSUME IInv, IInv', HaltInv, NEW o \in Orchestrators,
         \/ Launch(o) \/ Sync(o) \/ Check(o) \/ Park(o)
         \/ Finalize(o) \/ WriteFinal(o) \/ Unwind(o) \/ WriteAborted(o)
         \/ Raise(o) \/ Crash(o)
  PROVE  /\ HaltInv'
         /\ status = "paused" => status' = "paused"
<1>1. wf[o] \in Mem /\ status \in RunStatuses /\ Calm(status, wf[o].pc)
  BY MemoryOf DEF StoreOK, TypeOKControl, HaltInv
<1>2. CASE Launch(o)
  <2> DEFINE pc == IF status \in {"stopped", "awaiting_human", "completed"} THEN "sync" ELSE "check"
  <2>1. PICK c \in Configs :
          Remember(o, [Idle EXCEPT !.pc = pc, !.config = c, !.steps = MaxSteps])
    BY <1>2 DEF Launch
  <2>2. [Idle EXCEPT !.pc = pc, !.config = c, !.steps = MaxSteps].pc = pc
    BY DEF Idle
  <2>3. status' = status
    BY <1>2 DEF Launch, controlVars
  <2>4. Calm(status', pc) /\ pc # "off"
    BY <2>3 DEF Calm, Halted
  <2> HIDE DEF pc
  <2> QED
    BY <2>1, <2>2, <2>3, <2>4, CalmMove
<1>3. CASE Sync(o)
  <2>1. status' = "running" /\ wf[o].pc = "sync" /\ Goto(o, "check")
    BY <1>3 DEF Sync, SetStatus, At
  <2>2. [wf[o] EXCEPT !.pc = "check"].pc = "check"
    BY <1>1 DEF Mem
  <2>3. Calm(status', "check") /\ status # "paused"
    BY <1>1, <2>1 DEF Calm, Halted
  <2> QED
    BY <2>1, <2>2, <2>3, CalmMove DEF Goto
<1>4. CASE Check(o)
  <2>1. status' = status /\ wf[o].pc = "check" /\ Calm(status, "final")
    BY <1>4 DEF Check, controlVars, At, Calm
  <2>2. status \in Halted => status = "paused"
    BY <1>1, <2>1 DEF Calm
  <2>3. CASE \E exit : Exit(o, "final", exit)
    BY <2>1, <2>3, CalmExit
  <2>4. CASE Requested /\ Exit(o, "park", status)
    <3>1. Calm(status, "park")
      BY <2>4 DEF Calm, Halted, Requested
    <3> QED
      BY <2>1, <2>4, <3>1, CalmExit
  <2>5. CASE status # "paused" /\ Goto(o, "recover")
    <3>1. Calm(status, "recover")
      BY <2>2, <2>5 DEF Calm
    <3>2. [wf[o] EXCEPT !.pc = "recover"].pc = "recover"
      BY <1>1 DEF Mem
    <3> QED
      BY <2>1, <2>5, <3>1, <3>2, CalmMove DEF Goto
  <2>6. \/ \E exit : Exit(o, "final", exit)
        \/ Requested /\ Exit(o, "park", status)
        \/ status # "paused" /\ Goto(o, "recover")
    <3>1. wf[o].steps = 0 \/ wf[o].steps > 0
      BY <1>1, DispatchAssumption DEF Mem
    <3> QED
      BY <1>4, <3>1 DEF Check, StillHalted
  <2> QED
    BY <2>1, <2>3, <2>4, <2>5, <2>6
<1>5. CASE Park(o)
  <2>1. /\ status' \in {"paused", "stopped"} /\ wf[o].pc = "park" /\ Exit(o, "final", "stop")
    BY <1>5 DEF Park, SetStatus, At
  <2>2. Calm(status', "final") /\ status # "paused"
    BY <1>1, <2>1 DEF Calm
  <2> QED
    BY <2>1, <2>2, CalmExit
<1>6. CASE Finalize(o)
  <2>1. status' = status /\ wf[o].pc = "final"
    BY <1>6 DEF Finalize, controlVars, At
  <2>2. CASE Leave(o)
    <3>1. ~At(o, "off")
      BY <2>1 DEF At
    <3> QED
      BY <2>1, <2>2, <3>1, CalmLeave
  <2>3. CASE status \notin Halted /\ Goto(o, "finalize")
    <3>1. Calm(status, "finalize")
      BY <2>3 DEF Calm, Halted
    <3>2. [wf[o] EXCEPT !.pc = "finalize"].pc = "finalize"
      BY <1>1 DEF Mem
    <3> QED
      BY <2>1, <2>3, <3>1, <3>2, CalmMove DEF Goto
  <2> QED
    BY <1>6, <2>1, <2>2, <2>3 DEF Finalize
<1>7. CASE WriteFinal(o) \/ WriteAborted(o) \/ Crash(o)
  <2>1. wf[o].pc # "off" /\ Leave(o)
    BY <1>7 DEF WriteFinal, WriteAborted, Crash, At
  <2>2. HaltInv'
    BY <2>1, CalmLeave DEF At
  <2>3. Crash(o) => status' = status
    BY DEF Crash, controlVars
  <2>4. WriteFinal(o) \/ WriteAborted(o) => status # "paused"
    BY <1>1 DEF WriteFinal, WriteAborted, At, Calm
  <2> QED
    BY <1>7, <2>2, <2>3, <2>4
<1>8. CASE Unwind(o)
  <2>1. status' = status /\ wf[o].pc = "abort"
    BY <1>8 DEF Unwind, controlVars, At
  <2>2. CASE Leave(o)
    <3>1. ~At(o, "off")
      BY <2>1 DEF At
    <3> QED
      BY <2>1, <2>2, <3>1, CalmLeave
  <2>3. CASE status # "paused" /\ Exit(o, "aborted", "none")
    <3>1. Calm(status, "aborted")
      BY <2>3 DEF Calm
    <3> QED
      BY <2>1, <2>3, <3>1, CalmExit
  <2> QED
    BY <1>8, <2>1, <2>2, <2>3 DEF Unwind
<1>9. CASE Raise(o)
  <2>1. status' = status /\ Exit(o, "abort", "none")
    BY <1>9 DEF Raise, controlVars
  <2>2. Calm(status, "abort")
    BY DEF Calm
  <2> QED
    BY <2>1, <2>2, CalmExit
<1> QED
  BY <1>2, <1>3, <1>4, <1>5, <1>6, <1>7, <1>8, <1>9

\* The steps of the loop: none of them touches the status.
LEMMA HaltLoop ==
  ASSUME IInv, IInv', HaltInv, NEW o \in Orchestrators,
         \/ Recover(o) \/ Plan(o) \/ Commit(o) \/ Handoff(o) \/ Prepare(o) \/ Claim(o)
         \/ Link(o) \/ EndWave(o)
         \/ \E d \in Dispatches : Return(o, d) \/ Replay(o, d) \/ Merge(o, d)
  PROVE  /\ HaltInv'
         /\ status' = status
<1>1. wf[o] \in Mem /\ wf[o].pc \in Inside
  BY MemoryOf DEF Recover, Plan, Commit, Handoff, Prepare, Claim, Link, EndWave, Return, Replay,
                  Merge, Listening, At, Inside
<1>2. status' = status
  BY DEF Recover, Plan, Commit, Handoff, Prepare, Claim, Link, EndWave, Return, Replay, Merge,
         controlVars
<1>3. ASSUME NEW pc, Goto(o, pc), pc # "off"
      PROVE  \E mem : mem.pc # "off" /\ (Remember(o, mem) \/ RememberChanged(o, mem))
  BY <1>1, <1>3 DEF Goto, Mem
<1>4. ASSUME NEW pc, NEW exit, Exit(o, pc, exit), pc # "off"
      PROVE  \E mem : mem.pc # "off" /\ (Remember(o, mem) \/ RememberChanged(o, mem))
  <2>1. [Idle EXCEPT !.pc = pc, !.exit = exit].pc = pc
    BY DEF Idle
  <2> QED
    BY <1>4, <2>1 DEF Exit
<1>5. ASSUME NEW steps, Again(o, steps)
      PROVE  \E mem : mem.pc # "off" /\ (Remember(o, mem) \/ RememberChanged(o, mem))
  <2>1. [Idle EXCEPT !.pc = "check", !.config = wf[o].config, !.steps = steps].pc = "check"
    BY DEF Idle
  <2> QED
    BY <1>5, <2>1 DEF Again
<1>6. CASE Handoff(o) \/ Claim(o) \/ EndWave(o)
  <2>1. \/ \E pc \in {"prepare", "run"} : Goto(o, pc)
        \/ \E pc \in {"park", "final", "abort"} : \E exit : Exit(o, pc, exit)
        \/ \E steps : Again(o, steps)
    BY <1>6 DEF Handoff, Claim, EndWave
  <2> QED
    BY <1>1, <1>2, <1>3, <1>4, <1>5, <2>1, CalmInside
<1>7. CASE Recover(o)
  <2>1. \/ Goto(o, "plan")
        \/ \E X : Remember(o, [wf[o] EXCEPT !.pc = "run", !.pending = X, !.replay = TRUE])
        \/ \E X : Remember(o, [wf[o] EXCEPT !.pc = "prepare", !.pending = X])
        \/ Exit(o, "final", "config")
    BY <1>7 DEF Recover
  <2>2. \A X : /\ [wf[o] EXCEPT !.pc = "run", !.pending = X, !.replay = TRUE].pc = "run"
               /\ [wf[o] EXCEPT !.pc = "prepare", !.pending = X].pc = "prepare"
    BY <1>1 DEF Mem
  <2>3. \E mem : mem.pc # "off" /\ (Remember(o, mem) \/ RememberChanged(o, mem))
    <3>1. ASSUME NEW X, Remember(o, [wf[o] EXCEPT !.pc = "run", !.pending = X, !.replay = TRUE])
          PROVE  \E mem : mem.pc # "off" /\ (Remember(o, mem) \/ RememberChanged(o, mem))
      <4>1. [wf[o] EXCEPT !.pc = "run", !.pending = X, !.replay = TRUE].pc # "off"
        BY <2>2
      <4> QED
        BY <3>1, <4>1
    <3>2. ASSUME NEW X, Remember(o, [wf[o] EXCEPT !.pc = "prepare", !.pending = X])
          PROVE  \E mem : mem.pc # "off" /\ (Remember(o, mem) \/ RememberChanged(o, mem))
      <4>1. [wf[o] EXCEPT !.pc = "prepare", !.pending = X].pc # "off"
        BY <2>2
      <4> QED
        BY <3>2, <4>1
    <3> QED
      BY <1>3, <1>4, <2>1, <3>1, <3>2
  <2> QED
    BY <1>1, <1>2, <2>3, CalmInside
<1>8. CASE Plan(o)
  <2>1. \/ \E exit \in {"solved", "await"} : Exit(o, "final", exit)
        \/ \E w \in Waves : Remember(o, [wf[o] EXCEPT !.pc = "commit", !.plan = w, !.fresh = TRUE])
    BY <1>8 DEF Plan
  <2>2. \A w : [wf[o] EXCEPT !.pc = "commit", !.plan = w, !.fresh = TRUE].pc # "off"
    BY <1>1 DEF Mem
  <2>3. \E mem : mem.pc # "off" /\ (Remember(o, mem) \/ RememberChanged(o, mem))
    BY <1>4, <2>1, <2>2
  <2> QED
    BY <1>1, <1>2, <2>3, CalmInside
<1>9. CASE Commit(o)
  <2> DEFINE mem == [wf[o] EXCEPT !.pc = "handoff", !.plan = <<>>,
                       !.pending = {<<Len(waves) + 1, i>> : i \in DOMAIN wf[o].plan}]
  <2>1. \/ Again(o, wf[o].steps) \/ Exit(o, "abort", "none") \/ RememberChanged(o, mem)
    BY <1>9 DEF Commit
  <2>2. mem.pc # "off"
    BY <1>1 DEF Mem
  <2> HIDE DEF mem
  <2>3. \E m : m.pc # "off" /\ (Remember(o, m) \/ RememberChanged(o, m))
    BY <1>4, <1>5, <2>1, <2>2
  <2> QED
    BY <1>1, <1>2, <2>3, CalmInside
<1>10. CASE Prepare(o)
  <2>1. [wf[o] EXCEPT !.pc = "claim", !.fresh = TRUE, !.head = Len(policyLog)].pc # "off"
    BY <1>1 DEF Mem
  <2> QED
    BY <1>1, <1>2, <1>10, <2>1, CalmInside DEF Prepare
<1>11. ASSUME NEW d \in Dispatches, Return(o, d) \/ Replay(o, d)
       PROVE  HaltInv'
  <2>1. Complete(wf[o], d).pc # "off" /\ Remember(o, Complete(wf[o], d))
    BY <1>1, <1>11 DEF Complete, Mem, Return, Replay, Inside
  <2> QED
    BY <1>1, <1>2, <2>1, CalmInside
<1>12. ASSUME NEW d \in Dispatches, Merge(o, d)
       PROVE  HaltInv'
  <2>1. PICK accept \in BOOLEAN : RememberChanged(o, [wf[o] EXCEPT
          !.current = d, !.won = accept, !.failed = @ \/ ~accept, !.fresh = TRUE])
    BY <1>12 DEF Merge
  <2>2. [wf[o] EXCEPT
          !.current = d, !.won = accept, !.failed = @ \/ ~accept, !.fresh = TRUE].pc # "off"
    BY <1>1 DEF Mem, Inside
  <2> QED
    BY <1>1, <1>2, <2>1, <2>2, CalmInside
<1>13. CASE Link(o)
  <2> DEFINE mem == [wf[o] EXCEPT !.current = NoDispatch, !.completed = @ \ {wf[o].current}]
  <2>1. mem.pc # "off"
    BY <1>1 DEF Mem, Inside
  <2>2. Remember(o, mem) \/ RememberChanged(o, mem)
    BY <1>13 DEF Link
  <2> HIDE DEF mem
  <2> QED
    BY <1>1, <1>2, <2>1, <2>2, CalmInside
<1> QED
  BY <1>2, <1>6, <1>7, <1>8, <1>9, <1>10, <1>11, <1>12, <1>13

\* The operator asks, pauses nothing itself, and may resume what is paused.
LEMMA HaltElsewhere ==
  ASSUME IInv, HaltInv, Change \/ Request \/ UNCHANGED vars
  PROVE  /\ HaltInv'
         /\ status = "paused" /\ status' # "paused" => requests' > requests
<1>1. wf \in [Orchestrators -> Mem] /\ StoreOK
  BY TypeParts DEF IInv, Typed
<1>2. CASE Change
  <2>1. \A p \in Orchestrators : wf'[p].pc = wf[p].pc
    BY <1>1, <1>2 DEF Change, Mem
  <2> QED
    BY <1>2, <2>1 DEF Change, HaltInv, controlVars
<1>3. CASE Request
  <2>1. \/ status' = status
        \/ status' \in {"running", "pause_requested", "stopping"} /\ requests' = requests + 1
    BY <1>1, <1>3 DEF Request, Operate, DecidePause, DecideResume, Write, Stop, SetStatus,
                      StoreOK, TypeOKControl
  <2>2. wf' = wf /\ requests \in Nat
    BY <1>1, <1>3, RunControlAssumption DEF Request, StoreOK, TypeOKControl
  <2> QED
    BY <2>1, <2>2 DEF HaltInv, Calm, Halted
<1>4. CASE UNCHANGED vars
  BY <1>4 DEF vars, controlVars, HaltInv
<1> QED
  BY <1>2, <1>3, <1>4

\* An honoured pause or stop stands whatever starts, dies or leaves: no process is
\* past the checkpoint while the run is halted, and only the operator leads on from
\* "paused" (_run_control_stop_action, _sync_run_status_at_start, workflow.py).
THEOREM HaltHolds == Spec => HaltStands
<1>1. Init => HaltInv
  BY DEF Init, InitControl, HaltInv, Calm, Halted
<1>2. IInv /\ IInv' /\ HaltInv /\ [Next]_vars
        => /\ HaltInv'
           /\ status = "paused" /\ status' # "paused" => requests' > requests
  BY HaltControl, HaltLoop, HaltElsewhere DEF Next, Step
<1>3. HaltInv' => (status' \in Halted => \A o \in Orchestrators : wf'[o].pc \notin Inside)
  BY DEF HaltInv, Calm, Inside, Halted
<1> QED
  BY <1>1, <1>2, <1>3, Invariant, PTL DEF Spec, HaltStands

-----------------------------------------------------------------------------
(* The ledger *)

\* The stage of a dispatch, case by case.
LEMMA StageIs ==
  ASSUME NEW d
  PROVE  /\ d \notin Committed => Stage(d) = "absent"
         /\ d \in Committed /\ run[d] # "none" => Stage(d) = run[d]
         /\ d \in Committed /\ run[d] = "none" /\ landed[d] > 0 => Stage(d) = "landed"
         /\ d \in Committed /\ run[d] = "none" /\ ~(landed[d] > 0) =>
              /\ receipt[d] = "patch" => Stage(d) = "returned"
              /\ receipt[d] = "error" => Stage(d) = "failed"
              /\ receipt[d] = "none" => Stage(d) = "open"
<1>1. ASSUME d \notin Committed
      PROVE  Stage(d) = "absent"
  BY <1>1 DEF Stage
<1>2. ASSUME d \in Committed, run[d] # "none"
      PROVE  Stage(d) = run[d]
  BY <1>2 DEF Stage
<1>3. ASSUME d \in Committed, run[d] = "none", landed[d] > 0
      PROVE  Stage(d) = "landed"
  BY <1>3 DEF Stage
<1>4. ASSUME d \in Committed, run[d] = "none", ~(landed[d] > 0)
      PROVE  /\ receipt[d] = "patch" => Stage(d) = "returned"
             /\ receipt[d] = "error" => Stage(d) = "failed"
             /\ receipt[d] = "none" => Stage(d) = "open"
  BY <1>4 DEF Stage
<1> QED
  BY <1>1, <1>2, <1>3, <1>4

LEMMA StageIsNext ==
  ASSUME NEW d
  PROVE  /\ d \notin Committed' => Stage(d)' = "absent"
         /\ d \in Committed' /\ run'[d] # "none" => Stage(d)' = run'[d]
         /\ d \in Committed' /\ run'[d] = "none" /\ landed'[d] > 0 => Stage(d)' = "landed"
         /\ d \in Committed' /\ run'[d] = "none" /\ ~(landed'[d] > 0) =>
              /\ receipt'[d] = "patch" => Stage(d)' = "returned"
              /\ receipt'[d] = "error" => Stage(d)' = "failed"
              /\ receipt'[d] = "none" => Stage(d)' = "open"
<1>1. ASSUME d \notin Committed'
      PROVE  Stage(d)' = "absent"
  BY <1>1 DEF Stage
<1>2. ASSUME d \in Committed', run'[d] # "none"
      PROVE  Stage(d)' = run'[d]
  BY <1>2 DEF Stage
<1>3. ASSUME d \in Committed', run'[d] = "none", landed'[d] > 0
      PROVE  Stage(d)' = "landed"
  BY <1>3 DEF Stage
<1>4. ASSUME d \in Committed', run'[d] = "none", ~(landed'[d] > 0)
      PROVE  /\ receipt'[d] = "patch" => Stage(d)' = "returned"
             /\ receipt'[d] = "error" => Stage(d)' = "failed"
             /\ receipt'[d] = "none" => Stage(d)' = "open"
  BY <1>4 DEF Stage
<1> QED
  BY <1>1, <1>2, <1>3, <1>4

\* Nothing recorded of a dispatch changes: neither does its stage.
LEMMA StageKept ==
  ASSUME NEW d, d \in Committed' <=> d \in Committed,
         run'[d] = run[d], landed'[d] = landed[d], receipt'[d] = receipt[d]
  PROVE  Stage(d)' = Stage(d)
BY DEF Stage

\* One dispatch moves on.
LEMMA MoveOf ==
  ASSUME NEW d \in Dispatches, NEW from, NEW to, Stage(d) = from, Stage(d)' = to,
         \A e \in Dispatches \ {d} : Stage(e)' = Stage(e),
         UNCHANGED waves
  PROVE  Ledger!Move(d, from, to)
BY DEF Ledger!Move

LEMMA OpenedBy ==
  ASSUME IInv, NEW o \in Orchestrators, Commit(o), waves' # waves
  PROVE  Ledger!Open
<1>1. wf[o].pc = "commit" /\ StoreOK /\ Holding(wf[o])
  BY MemoryOf DEF Commit, At
<1>2. wf[o].plan \in Waves /\ Len(waves) < MaxWaves
  BY <1>1 DEF Holding
<1>3. /\ waves = <<>> \/ Unlinked(Len(waves)) = {}
      /\ waves' = Append(waves, wf[o].plan)
      /\ UNCHANGED <<attempts, receipt, planHead, landed, run>>
  BY DEF Commit, ledgerVars
<1>4. /\ Len(waves') = Len(waves) + 1
      /\ Latest' # {} /\ Latest' \subseteq Dispatches \ Committed
      /\ Committed' = Committed \cup Latest'
      /\ Latest' = {<<Len(waves) + 1, i>> : i \in DOMAIN wf[o].plan}
  BY <1>1, <1>2, <1>3, AppendedWave
<1>5. ASSUME NEW d \in Dispatches
      PROVE  Stage(d) \in {"absent", "accepted", "rejected"}
  <2>1. CASE d \notin Committed
    BY <2>1, StageIs
  <2>2. CASE d \in Committed
    <3>1. PICK g \in 1..Len(waves) : d \in Members(g)
      BY <1>1, <2>2, WaveFacts
    <3>2. run[d] # "none" /\ run[d] \in {"none", "accepted", "rejected"}
      <4>1. Len(waves) \in 1..Len(waves)
        BY <1>1, <3>1, WaveFacts
      <4>2. ASSUME g = Len(waves)
            PROVE  run[d] # "none"
        <5>1. waves # <<>>
          BY <1>1, <4>1 DEF StoreOK
        <5> QED
          BY <1>3, <3>1, <4>2, <5>1 DEF Unlinked
      <4>3. ASSUME g # Len(waves)
            PROVE  run[d] # "none"
        <5>1. g \in 1..(Len(waves) - 1)
          <6>1. Len(waves) \in Nat
            BY <1>1 DEF StoreOK
          <6> QED
            BY <4>3, <6>1
        <5> QED
          BY <3>1, <5>1 DEF IInv, Tables, OnlyLatestUnresolved
      <4> QED
        BY <1>1, <4>2, <4>3 DEF StoreOK
    <3> QED
      BY <2>2, <3>2, StageIs
  <2> QED
    BY <2>1, <2>2
<1>6. ASSUME NEW d \in Dispatches
      PROVE  Stage(d)' = IF d \in Latest' THEN "open" ELSE Stage(d)
  <2>1. CASE d \in Latest'
    <3>1. receipt[d] = "none" /\ run[d] = "none" /\ landed[d] = 0
      BY <1>4, <2>1 DEF IInv, Tables
    <3> QED
      BY <1>3, <1>4, <2>1, <3>1, StageIsNext
  <2>2. CASE d \notin Latest'
    BY <1>3, <1>4, <2>2, StageKept
  <2> QED
    BY <2>1, <2>2
<1>7. \A d \in Latest' : d[1] = Len(waves')
  BY <1>4
<1>8. Latest' \in (SUBSET {d \in Dispatches : d[1] = Len(waves')}) \ {{}}
  <2>1. Latest' \subseteq {d \in Dispatches : d[1] = Len(waves')}
    BY <1>4, <1>7
  <2>2. \A W, S : W \subseteq S /\ W # {} => W \in (SUBSET S) \ {{}}
    OBVIOUS
  <2>3. Latest' # {}
    BY <1>4
  <2> QED
    BY <2>1, <2>2, <2>3
<1> QED
  BY <1>2, <1>4, <1>5, <1>6, <1>8 DEF Ledger!Open, Ledger!Closed

LEMMA ReturnedBy ==
  ASSUME IInv, NEW o \in Orchestrators, NEW d \in Dispatches, Return(o, d)
  PROVE  Ledger!Return(d)
<1>1. /\ wf[o].pc = "run" /\ d \in wf[o].pending /\ ~wf[o].replay
      /\ UNCHANGED <<waves, landed, run>>
  BY DEF Return, Listening, At
<1>2. d \in Committed /\ run[d] = "none" /\ StoreOK
  BY <1>1, HeldWave
<1>3. receipt[d] = "none"
  BY <1>1, MemoryOf DEF Holding, Merges, Awaited
<1>4. ~(landed[d] > 0)
  BY <1>3 DEF IInv, Tables
<1>5. PICK body \in {"patch", "error"} : receipt' = [receipt EXCEPT ![d] = body]
  BY DEF Return
<1>6. receipt'[d] = body /\ \A e \in Dispatches \ {d} : receipt'[e] = receipt[e]
  BY <1>2, <1>5 DEF StoreOK
<1>7. Committed' = Committed
  BY <1>1, SameWaves
<1>8. \A e \in Dispatches \ {d} : Stage(e)' = Stage(e)
  BY <1>1, <1>6, <1>7, StageKept
<1>9. Stage(d) = "open"
  BY <1>2, <1>3, <1>4, StageIs
<1>10. Stage(d)' = IF body = "patch" THEN "returned" ELSE "failed"
  BY <1>1, <1>2, <1>4, <1>6, <1>7, StageIsNext
<1> QED
  BY <1>1, <1>8, <1>9, <1>10, MoveOf DEF Ledger!Return

LEMMA LandedBy ==
  ASSUME IInv, NEW o \in Orchestrators, NEW d \in Dispatches, Merge(o, d), landed' # landed
  PROVE  Ledger!Land(d)
<1>1. wf[o].pc = "run" /\ d \in wf[o].completed /\ UNCHANGED <<waves, receipt, run>>
  BY DEF Merge, Mergeable, At
<1>2. d \in Committed /\ run[d] = "none" /\ StoreOK
  BY <1>1, HeldWave
<1>3. PICK accept \in BOOLEAN :
        /\ accept => receipt[d] = "patch" /\ (Recognized(d) \/ Drained(planHead[d]))
        /\ landed' = [landed EXCEPT ![d] = IF accept /\ ~Recognized(d) THEN @ + 1 ELSE @]
  BY DEF Merge
<1>4. landed \in [Dispatches -> Nat]
  BY <1>2 DEF StoreOK
<1>5. accept /\ ~Recognized(d)
  BY <1>3, <1>4
<1>6. /\ receipt[d] = "patch" /\ landed[d] = 0 /\ landed'[d] = 1
      /\ \A e \in Dispatches \ {d} : landed'[e] = landed[e]
  BY <1>3, <1>4, <1>5 DEF Recognized
<1>7. Committed' = Committed
  BY <1>1, SameWaves
<1>8. \A e \in Dispatches \ {d} : Stage(e)' = Stage(e)
  BY <1>1, <1>6, <1>7, StageKept
<1>9. Stage(d) = "returned"
  BY <1>2, <1>6, StageIs
<1>10. Stage(d)' = "landed"
  BY <1>1, <1>2, <1>6, <1>7, StageIsNext
<1> QED
  BY <1>1, <1>8, <1>9, <1>10, MoveOf DEF Ledger!Land

LEMMA ClosedBy ==
  ASSUME IInv, NEW o \in Orchestrators, Link(o), run' # run
  PROVE  \E d \in Dispatches : Ledger!Close(d)
<1>1. wf[o].pc = "run" /\ wf[o].current # NoDispatch /\ UNCHANGED <<waves, receipt, landed>>
  BY DEF Link, At
<1>2. StoreOK /\ wf[o] \in Mem /\ Merges(wf[o])
  BY <1>1, MemoryOf DEF Holding
<1>3. PICK d \in Dispatches : d = wf[o].current
  BY <1>1, <1>2 DEF Mem
<1>4. /\ d \in Committed /\ run[d] = "none" /\ receipt[d] # "none"
      /\ (wf[o].won <=> landed[d] = 1)
  BY <1>1, <1>2, <1>3, HeldWave DEF Merges
<1>5. run' = [run EXCEPT ![d] = IF wf[o].won THEN "accepted" ELSE "rejected"]
  BY <1>3 DEF Link, Outcome
<1>6. /\ run'[d] = IF wf[o].won THEN "accepted" ELSE "rejected"
      /\ \A e \in Dispatches \ {d} : run'[e] = run[e]
  BY <1>2, <1>5 DEF StoreOK
<1>7. /\ landed[d] \in {0, 1} /\ receipt[d] \in {"patch", "error"}
      /\ landed[d] > 0 => receipt[d] = "patch"
  BY <1>2, <1>4 DEF StoreOK, IInv, Tables, TruthfulTelemetry
<1>8. Committed' = Committed
  BY <1>1, SameWaves
<1>9. \A e \in Dispatches \ {d} : Stage(e)' = Stage(e)
  BY <1>1, <1>6, <1>8, StageKept
<1>10. Stage(d)' = IF wf[o].won THEN "accepted" ELSE "rejected"
  BY <1>4, <1>6, <1>8, StageIsNext
<1>11. Stage(d) = IF wf[o].won THEN "landed"
                  ELSE IF receipt[d] = "patch" THEN "returned" ELSE "failed"
  BY <1>4, <1>7, StageIs
<1>12. \/ Ledger!Move(d, "landed", "accepted") \/ Ledger!Move(d, "returned", "rejected")
       \/ Ledger!Move(d, "failed", "rejected")
  BY <1>1, <1>9, <1>10, <1>11, MoveOf
<1> QED
  BY <1>12 DEF Ledger!Close

\* The store keeps the ledger it promises: every step of the workflow, a crash or a
\* replay included, is a step of the ledger or none.
THEOREM StoreImplementsLedger == Spec => LedgerKept
<1>1. Init => Ledger!Init
  <2> SUFFICES ASSUME Init PROVE Ledger!Init
    OBVIOUS
  <2>1. waves = <<>> /\ Committed = {} /\ Len(waves) = 0
    BY DEF Init, Committed
  <2>2. \A d \in Dispatches : Stage(d) = "absent"
    BY <2>1, StageIs
  <2> QED
    BY <2>1, <2>2 DEF Ledger!Init
<1>2. IInv /\ [Next]_vars => [Ledger!Next]_(Ledger!vars)
  <2> SUFFICES ASSUME IInv, [Next]_vars PROVE [Ledger!Next]_(Ledger!vars)
    OBVIOUS
  <2>1. CASE UNCHANGED <<waves, receipt, landed, run>>
    <3>1. Committed' = Committed
      BY <2>1, SameWaves
    <3>2. \A d \in Dispatches : Stage(d)' = Stage(d)
      BY <2>1, <3>1, StageKept
    <3> QED
      BY <2>1, <3>2 DEF Ledger!vars
  <2>2. ASSUME NEW o \in Orchestrators, Commit(o), waves' # waves
        PROVE  Ledger!Next
    BY <2>2, OpenedBy DEF Ledger!Next
  <2>3. ASSUME NEW o \in Orchestrators, NEW d \in Dispatches, Return(o, d)
        PROVE  Ledger!Next
    BY <2>3, ReturnedBy DEF Ledger!Next
  <2>4. ASSUME NEW o \in Orchestrators, NEW d \in Dispatches, Merge(o, d), landed' # landed
        PROVE  Ledger!Next
    BY <2>4, LandedBy DEF Ledger!Next
  <2>5. ASSUME NEW o \in Orchestrators, Link(o), run' # run
        PROVE  Ledger!Next
    BY <2>5, ClosedBy DEF Ledger!Next
  <2>6. \/ UNCHANGED <<waves, receipt, landed, run>>
        \/ \E o \in Orchestrators :
             \/ Commit(o) /\ waves' # waves
             \/ \E d \in Dispatches : Return(o, d) \/ (Merge(o, d) /\ landed' # landed)
             \/ Link(o) /\ run' # run
    <3>1. ASSUME NEW o \in Orchestrators,
                 \/ Launch(o) \/ Sync(o) \/ Check(o) \/ Park(o) \/ Recover(o) \/ Plan(o)
                 \/ Handoff(o) \/ Prepare(o) \/ Claim(o) \/ EndWave(o)
                 \/ Finalize(o) \/ WriteFinal(o) \/ Unwind(o) \/ WriteAborted(o)
                 \/ Raise(o) \/ Crash(o)
                 \/ \E d \in Dispatches : Replay(o, d)
          PROVE  UNCHANGED <<waves, receipt, landed, run>>
      BY <3>1 DEF Launch, Sync, Check, Park, Recover, Plan, Handoff, Prepare, Claim, EndWave,
         Replay, Finalize, WriteFinal, Unwind, WriteAborted, Raise, Crash, ledgerVars
    <3>2. ASSUME NEW o \in Orchestrators, Commit(o)
          PROVE  UNCHANGED <<receipt, landed, run>>
      BY <3>2 DEF Commit, ledgerVars
    <3>3. ASSUME NEW o \in Orchestrators, NEW d \in Dispatches, Merge(o, d)
          PROVE  UNCHANGED <<waves, receipt, run>>
      BY <3>3 DEF Merge
    <3>4. ASSUME NEW o \in Orchestrators, Link(o)
          PROVE  UNCHANGED <<waves, receipt, landed>>
      BY <3>4 DEF Link
    <3>5. ASSUME Change \/ Request \/ UNCHANGED vars
          PROVE  UNCHANGED <<waves, receipt, landed, run>>
      BY <3>5 DEF Change, Request, ledgerVars, vars
    <3>6. \/ \E o \in Orchestrators : Launch(o) \/ Step(o) \/ Raise(o) \/ Crash(o)
          \/ Change \/ Request \/ UNCHANGED vars
      BY DEF Next
    <3> QED
      BY <3>1, <3>2, <3>3, <3>4, <3>5, <3>6 DEF Step
  <2> QED
    BY <2>1, <2>2, <2>3, <2>4, <2>5, <2>6
<1> QED
  BY <1>1, <1>2, Invariant, PTL DEF Spec, LedgerKept, Ledger!Spec

===============================================================================
