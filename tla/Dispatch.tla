------------------------------- MODULE Dispatch -------------------------------
(***************************************************************************)
(* The executing workflow: one process per proof store commits a wave of   *)
(* dispatches, runs their sessions, persists each result before merging    *)
(* it, and links the merged result to its dispatch.  A process may be      *)
(* killed or unwind at any point; the next one recovers the latest wave    *)
(* from the store.                                                         *)
(***************************************************************************)
EXTENDS RunControl, FiniteSets

CONSTANTS
  Orchestrators,  \* processes that may execute the workflow
  Nobody,         \* not an orchestrator: the execution lock is free
  Waves,          \* the waves the scheduler may plan: sequences of members
  Configs,        \* execution configurations an invocation may be started with
  Replayable,     \* those whose executor may be invoked twice for a dispatch
  MaxWaves,       \* bound: waves committed
  MaxWidth,       \* bound: dispatches of a wave
  MaxSteps,       \* steps one invocation is given
  MaxLaunches,    \* bound: invocations
  MaxFaults,      \* bound: invocations killed or unwound by an exception
  MaxChanges      \* bound: patches another process applies

ASSUME DispatchAssumption ==
  /\ Nobody \notin Orchestrators
  /\ {MaxWaves, MaxWidth, MaxSteps, MaxLaunches, MaxFaults, MaxChanges} \subseteq Nat
  /\ Waves \subseteq Seq([role : STRING, intent : STRING, safe : BOOLEAN])
  /\ \A w \in Waves : Len(w) \in 1..MaxWidth

Dispatches == (1..MaxWaves) \X (1..MaxWidth)

NoDispatch == <<0, 0>>

VARIABLES
  waves,       \* the committed waves, each a sequence of members
  contract,    \* the configuration each wave was committed under
  attempts,    \* times an executor was invoked for a dispatch
  receipt,     \* the durable result of a dispatch: "none", "patch" or "error"
  planHead,    \* policy events known to the session plan of the receipt
  landed,      \* times the patch of a dispatch was accepted
  run,         \* the run linked to a dispatch, by its flag patch_accepted:
               \* "none", "accepted", "rejected"
  lock,        \* holder of workflow_execution.lock
  wf,          \* what each orchestrator holds in memory
  launches, faults, changes,
  late         \* waves committed since the pause that is pending was requested

ledgerVars == <<waves, contract, attempts, receipt, planHead, landed, run>>
boundVars  == <<launches, faults, changes>>
vars == <<controlVars, ledgerVars, boundVars, lock, wf, late>>

Members(g) == {<<g, i>> : i \in DOMAIN waves[g]}

Committed == UNION {Members(g) : g \in DOMAIN waves}

\* A returned dispatch counts as resolved.
Unreturned(g) == {d \in Members(g) : run[d] = "none" /\ receipt[d] = "none"}

\* Dispatches of a wave without telemetry.
Unlinked(g) == {d \in Members(g) : run[d] = "none"}

Member(d) == waves[d[1]][d[2]]

IsCompanion(d) == d[2] > 1

Idle ==
  [pc |-> "off", config |-> "none", steps |-> 0, plan |-> <<>>, pending |-> {},
   replay |-> FALSE, completed |-> {}, current |-> NoDispatch, won |-> FALSE,
   failed |-> FALSE, fresh |-> FALSE, head |-> 0, exit |-> "none"]

\* The in-memory state of o changes to `mem`; a step that changes the proof
\* state revision makes the revision every other process read out of date.
Remember(o, mem) == wf' = [wf EXCEPT ![o] = mem]

RememberChanged(o, mem) ==
  wf' = [p \in Orchestrators |->
           IF p = o THEN mem ELSE [wf[p] EXCEPT !.fresh = FALSE]]

At(o, pc) == wf[o].pc = pc

Goto(o, pc) == Remember(o, [wf[o] EXCEPT !.pc = pc])

\* The loop starts over, or is left: what belonged to the wave is forgotten.
Again(o, steps) ==
  Remember(o, [Idle EXCEPT !.pc = "check", !.config = wf[o].config, !.steps = steps])

Exit(o, pc, exit) == Remember(o, [Idle EXCEPT !.pc = pc, !.exit = exit])

-------------------------------------------------------------------------------
\* Merge order: the role first, then the search intent, then primary before
\* companion.
RolePriority(role) ==
  CASE role = "strict_informal_verifier" -> 0
    [] role = "integration_verifier"     -> 1
    [] role = "writer"                   -> 2
    [] role = "literature_researcher"    -> 10
    [] OTHER                             -> 5

IntentPriority(intent) ==
  CASE intent \in {"parallel_direct_solve", "parallel_independent_solve"} -> 0
    [] intent = "parallel_decomposition_branch"                           -> 1
    [] intent = "parallel_counterexample_search"                          -> 4
    [] OTHER                                                              -> 2

Before(d, e) ==
  LET rd == RolePriority(Member(d).role)
      re == RolePriority(Member(e).role)
      id == IntentPriority(Member(d).intent)
      ie == IntentPriority(Member(e).intent)
  IN \/ rd < re
     \/ rd = re /\ id < ie
     \/ rd = re /\ id = ie /\ ~IsCompanion(d) /\ IsCompanion(e)

Critical(d) ==
  Member(d).role \in {"strict_informal_verifier", "integration_verifier", "writer"}

\* An advisor's compact triage may land before the primary dispatch.
SafeAdvisor(d) ==
  Member(d).role = "phd_advisor" /\ Member(d).safe /\ receipt[d] = "patch"

\* Only the primary holds a companion back.
BlockedByPrimary(d, pending) ==
  \E p \in pending :
    Before(p, d) /\ IsCompanion(d) /\ ~IsCompanion(p) /\ ~SafeAdvisor(d)

\* A result waits for what comes before it and is still to return.
Blocked(d, pending) ==
  \E p \in pending :
    /\ Before(p, d)
    /\ \/ Critical(p)
       \/ IsCompanion(d) /\ ~IsCompanion(p) /\ ~SafeAdvisor(d)

-------------------------------------------------------------------------------
\* An invocation: take the lock, and clear a status that was already honoured.
Launch(o) ==
  /\ At(o, "off")
  /\ lock = Nobody
  /\ launches < MaxLaunches
  /\ lock' = o
  /\ launches' = launches + 1
  /\ \E c \in Configs :
       Remember(o, [Idle EXCEPT
         !.pc = IF status \in {"stopped", "awaiting_human", "completed"}
                THEN "sync" ELSE "check",
         !.config = c,
         !.steps = MaxSteps])
  /\ UNCHANGED <<controlVars, ledgerVars, faults, changes, late>>

Sync(o) ==
  /\ At(o, "sync")
  /\ SetStatus("running", "workflow", FALSE)
  /\ Goto(o, "check")
  /\ late' = 0
  /\ UNCHANGED <<operator, requests, ledgerVars, boundVars, lock>>

\* Whoever is past the checkpoint: about to plan, commit, claim or run a wave.
Inside == {"recover", "plan", "commit", "handoff", "prepare", "claim", "run"}

\* The statuses that end an execution; its exit writes none over them.
Halted == {"paused", "stopped", "completed", "awaiting_human"}

\* A soft pause is left for the next checkpoint.
StopRequested == status = "stopping"

\* The operator asks the workflow to pause or to stop.
Requested == status \in {"pause_requested", "stopping"}

\* A pause that was honoured is over with the run that honoured it.
StillStopped == status = "stopped"

\* A pause or stop that was honoured and not cleared since.
StillHalted == status \in {"paused", "stopped"}

\* The top of the loop: the step limit, then the pause/stop checkpoint.
Check(o) ==
  /\ At(o, "check")
  /\ CASE wf[o].steps = 0 ->
            Exit(o, "final", "stop")
       [] wf[o].steps > 0 /\ Requested -> Exit(o, "park", status)
       [] wf[o].steps > 0 /\ StillHalted -> Exit(o, "final", "stop")
       [] OTHER -> Goto(o, "recover")
  /\ UNCHANGED <<controlVars, ledgerVars, boundVars, lock, late>>

\* Honour the request that was read at the checkpoint.
Park(o) ==
  /\ At(o, "park")
  /\ SetStatus(IF wf[o].exit = "pause_requested" THEN "paused" ELSE "stopped",
               "workflow", FALSE)
  /\ Exit(o, "final", "stop")
  /\ late' = 0
  /\ UNCHANGED <<operator, requests, ledgerVars, boundVars, lock>>

-------------------------------------------------------------------------------
SameConfiguration(config, g) == config = contract[g]

\* The executor of wave g may be invoked once more.
SafeToRepeat(config, g) == config = contract[g] /\ config \in Replayable

\* Look for dispatches of the latest wave without telemetry.  Returned results
\* no unreturned one holds back are replayed; else the unreturned are executed
\* again, if that is safe under the present configuration.
Recover(o) ==
  /\ At(o, "recover")
  /\ LET g          == Len(waves)
         unlinked   == IF g = 0 THEN {} ELSE Unlinked(g)
         returned   == {d \in unlinked : receipt[d] # "none"}
         unreturned == unlinked \ returned
         replayable == {d \in returned : ~Blocked(d, unreturned)}
     IN \/ /\ unlinked = {}
           /\ Goto(o, "plan")
        \/ /\ replayable # {}
           /\ Remember(o, [wf[o] EXCEPT !.pc = "run", !.pending = replayable,
                           !.replay = TRUE])
        \/ /\ unlinked # {}
           /\ replayable = {}
           /\ IF SafeToRepeat(wf[o].config, g)
              THEN Remember(o, [wf[o] EXCEPT !.pc = "prepare",
                                !.pending = unreturned])
              ELSE Exit(o, "final", "config")
  /\ UNCHANGED <<controlVars, ledgerVars, boundVars, lock, late>>

\* The scheduler decides on a quiescent snapshot: stop, or admit a wave.
Plan(o) ==
  /\ At(o, "plan")
  /\ \/ \E exit \in {"solved", "await"} :
          Exit(o, "final", exit)
     \/ /\ Len(waves) < MaxWaves
        /\ \E w \in Waves :
             Remember(o, [wf[o] EXCEPT !.pc = "commit", !.plan = w, !.fresh = TRUE])
  /\ UNCHANGED <<controlVars, ledgerVars, boundVars, lock, late>>

\* The wave is committed before any session starts.  A decision made on an older
\* revision is dropped; an unresolved earlier wave makes the store refuse.
Commit(o) ==
  /\ At(o, "commit")
  /\ IF ~wf[o].fresh
     THEN /\ Again(o, wf[o].steps)
          /\ UNCHANGED <<ledgerVars, late>>
     ELSE IF waves # <<>> /\ Unlinked(Len(waves)) # {}
     THEN /\ Exit(o, "abort", "none")
          /\ UNCHANGED <<ledgerVars, late>>
     ELSE /\ waves' = Append(waves, wf[o].plan)
          /\ contract' = Append(contract, wf[o].config)
          /\ RememberChanged(o, [wf[o] EXCEPT
               !.pc = "handoff", !.plan = <<>>,
               !.pending = {<<Len(waves) + 1, i>> : i \in DOMAIN wf[o].plan}])
          /\ late' = IF status = "pause_requested" THEN late + 1 ELSE late
          /\ UNCHANGED <<attempts, receipt, planHead, landed, run>>
  /\ UNCHANGED <<controlVars, boundVars, lock>>

\* A revision that moved since the commit sends the wave through recovery.
Handoff(o) ==
  /\ At(o, "handoff")
  /\ IF wf[o].fresh THEN Goto(o, "prepare") ELSE Again(o, wf[o].steps)
  /\ UNCHANGED <<controlVars, ledgerVars, boundVars, lock, late>>

\* Session plans are rebuilt until all of them read one revision and policy.
Prepare(o) ==
  /\ At(o, "prepare")
  /\ Remember(o, [wf[o] EXCEPT !.pc = "claim", !.fresh = TRUE,
                  !.head = Len(policyLog)])
  /\ UNCHANGED <<controlVars, ledgerVars, boundVars, lock, late>>

\* Every member is claimed in one transaction; a plan for another revision or a
\* dispatch that already returned raises.
Claim(o) ==
  /\ At(o, "claim")
  /\ IF wf[o].fresh /\ \A d \in wf[o].pending : receipt[d] = "none" /\ run[d] = "none"
     THEN /\ attempts' = [d \in Dispatches |->
                            attempts[d] + IF d \in wf[o].pending THEN 1 ELSE 0]
          /\ Goto(o, "run")
     ELSE Exit(o, "abort", "none") /\ UNCHANGED attempts
  /\ UNCHANGED <<controlVars, waves, contract, receipt, planHead, landed, run,
                 boundVars, lock, late>>

-------------------------------------------------------------------------------
\* Completed results that nothing still pending holds back.
Mergeable(o) == {d \in wf[o].completed : ~Blocked(d, wf[o].pending)}

Listening(o) == At(o, "run") /\ wf[o].current = NoDispatch /\ Mergeable(o) = {}

\* The dispatch stays among the pending ones.
CompleteUnremoved(mem, d) == [mem EXCEPT !.completed = @ \cup {d}]

Complete(mem, d) ==
  [mem EXCEPT !.pending = @ \ {d}, !.completed = @ \cup {d}]

\* A session ends, with a patch or without; its result is made durable before it
\* waits for its turn.
Return(o, d) ==
  /\ Listening(o)
  /\ ~wf[o].replay
  /\ d \in wf[o].pending
  /\ \E body \in {"patch", "error"} : receipt' = [receipt EXCEPT ![d] = body]
  /\ planHead' = [planHead EXCEPT ![d] = wf[o].head]
  /\ Remember(o, Complete(wf[o], d))
  /\ UNCHANGED <<controlVars, waves, contract, attempts, landed, run, boundVars,
                 lock, late>>

\* A durable result is handed to the merge again, in the order of the wave.
Replay(o, d) ==
  /\ Listening(o)
  /\ wf[o].replay
  /\ d \in wf[o].pending
  /\ \A e \in wf[o].pending : d[2] <= e[2]
  /\ Remember(o, Complete(wf[o], d))
  /\ UNCHANGED <<controlVars, ledgerVars, boundVars, lock, late>>

NeverRecognized(d) == FALSE

\* The patch of a result is found among the accepted ones.
Recognized(d) == landed[d] > 0

\* The first mergeable result in merge order is applied, unless it was already
\* accepted before a crash; a patch the policy allows may still be refused.
Merge(o, d) ==
  /\ At(o, "run")
  /\ wf[o].current = NoDispatch
  /\ d \in Mergeable(o)
  /\ \A e \in Mergeable(o) : ~Before(e, d)
  /\ \E accept \in BOOLEAN :
       /\ accept => receipt[d] = "patch" /\ (Recognized(d) \/ Drained(planHead[d]))
       /\ Recognized(d) => accept
       /\ landed' = [landed EXCEPT ![d] = IF accept /\ ~Recognized(d) THEN @ + 1 ELSE @]
       /\ RememberChanged(o, [wf[o] EXCEPT
            !.current = d, !.won = accept, !.failed = @ \/ ~accept, !.fresh = TRUE])
  /\ UNCHANGED <<controlVars, waves, contract, attempts, receipt, planHead, run,
                 boundVars, lock, late>>

\* The session, not its patch, decides the outcome.
SessionOutcome(o) == IF receipt[wf[o].current] = "patch" THEN "accepted" ELSE "rejected"

\* The flag patch_accepted of the run.  The status recorded beside it stays that of
\* the session: a session that timed out may have returned a patch that lands.
Outcome(o) == IF wf[o].won THEN "accepted" ELSE "rejected"

\* Telemetry links the dispatch to a run with the outcome; written on a revision that moved
\* since it was read, it is refused and nobody looks at the refusal.
Link(o) ==
  /\ At(o, "run")
  /\ wf[o].current # NoDispatch
  /\ LET d   == wf[o].current
         mem == [wf[o] EXCEPT !.current = NoDispatch, !.completed = @ \ {d}]
     IN IF wf[o].fresh
        THEN /\ run' = [run EXCEPT ![d] = Outcome(o)]
             /\ RememberChanged(o, mem)
        ELSE /\ Remember(o, mem)
             /\ UNCHANGED run
  /\ UNCHANGED <<controlVars, waves, contract, attempts, receipt, planHead, landed,
                 boundVars, lock, late>>

\* The wave is done: go on, with the step refunded after an outage of the backend,
\* or stop after a failed primary, a blocked one, or a tripped memory guard.
EndWave(o) ==
  /\ At(o, "run")
  /\ wf[o].pending = {} /\ wf[o].completed = {} /\ wf[o].current = NoDispatch
  /\ \/ Again(o, wf[o].steps - 1)
     \/ wf[o].failed /\ Again(o, wf[o].steps)
     \/ Exit(o, "final", "config")
     \/ /\ wf[o].failed
        /\ Requested
        /\ Exit(o, "park", status)
     \/ /\ wf[o].failed
        /\ ~Requested
        /\ Exit(o, "final", "stop")
  /\ UNCHANGED <<controlVars, ledgerVars, boundVars, lock, late>>

-------------------------------------------------------------------------------
\* A classification of the exit is written that is not a status.
Classification(exit) == IF exit = "stop" THEN "interrupted" ELSE "completed"

FinalStatus(exit) ==
  CASE exit \in {"config", "await"} -> "awaiting_human"
    [] exit = "solved"              -> "completed"
    [] OTHER                        -> "stopped"

Leave(o) == lock' = Nobody /\ Remember(o, Idle)

\* A normal exit: read the status, and unless it is terminal write the final one.
Finalize(o) ==
  /\ At(o, "final")
  /\ IF status \in Halted
     THEN Leave(o)
     ELSE Goto(o, "finalize") /\ UNCHANGED lock
  /\ UNCHANGED <<controlVars, ledgerVars, boundVars, late>>

WriteFinal(o) ==
  /\ At(o, "finalize")
  /\ SetStatus(FinalStatus(wf[o].exit), "workflow", FALSE)
  /\ Leave(o)
  /\ late' = 0
  /\ UNCHANGED <<operator, requests, ledgerVars, boundVars>>

\* An exception unwinds the invocation: children are terminated, a status that is
\* not terminal becomes "stopped", and the lock is released.
Unwind(o) ==
  /\ At(o, "abort")
  /\ IF status \in {"paused", "stopped", "completed"}
     THEN Leave(o)
     ELSE /\ Exit(o, "aborted", "none")
          /\ UNCHANGED lock
  /\ UNCHANGED <<controlVars, ledgerVars, boundVars, late>>

WriteAborted(o) ==
  /\ At(o, "aborted")
  /\ SetStatus("stopped", "workflow_exception", FALSE)
  /\ Leave(o)
  /\ late' = 0
  /\ UNCHANGED <<operator, requests, ledgerVars, boundVars>>

-------------------------------------------------------------------------------
\* A signal or an error raises anywhere in the loop.
Raise(o) ==
  /\ wf[o].pc \notin {"off", "abort", "aborted"}
  /\ faults < MaxFaults
  /\ faults' = faults + 1
  /\ Exit(o, "abort", "none")
  /\ UNCHANGED <<controlVars, ledgerVars, launches, changes, lock, late>>

\* The process is killed: what it held in memory is gone, the kernel drops the lock.
Crash(o) ==
  /\ ~At(o, "off")
  /\ faults < MaxFaults
  /\ faults' = faults + 1
  /\ Leave(o)
  /\ UNCHANGED <<controlVars, ledgerVars, launches, changes, late>>

\* Another process applies a patch: an operator's edit, an interruption artifact.
Change ==
  /\ changes < MaxChanges
  /\ changes' = changes + 1
  /\ wf' = [p \in Orchestrators |-> [wf[p] EXCEPT !.fresh = FALSE]]
  /\ UNCHANGED <<controlVars, ledgerVars, launches, faults, lock, late>>

Request ==
  /\ Operate
  /\ late' = IF policyLog' = policyLog THEN late ELSE 0
  /\ UNCHANGED <<ledgerVars, boundVars, lock, wf>>

Step(o) ==
  \/ Sync(o) \/ Check(o) \/ Park(o) \/ Recover(o) \/ Plan(o) \/ Commit(o)
  \/ Handoff(o) \/ Prepare(o) \/ Claim(o) \/ Link(o) \/ EndWave(o)
  \/ \E d \in Dispatches : Return(o, d) \/ Replay(o, d) \/ Merge(o, d)
  \/ Finalize(o) \/ WriteFinal(o) \/ Unwind(o) \/ WriteAborted(o)

Init ==
  /\ InitControl
  /\ waves = <<>>
  /\ contract = <<>>
  /\ attempts = [d \in Dispatches |-> 0]
  /\ receipt = [d \in Dispatches |-> "none"]
  /\ planHead = [d \in Dispatches |-> 0]
  /\ landed = [d \in Dispatches |-> 0]
  /\ run = [d \in Dispatches |-> "none"]
  /\ lock = Nobody
  /\ wf = [o \in Orchestrators |-> Idle]
  /\ launches = 0 /\ faults = 0 /\ changes = 0
  /\ late = 0

Next ==
  \/ \E o \in Orchestrators : Launch(o) \/ Step(o) \/ Raise(o) \/ Crash(o)
  \/ Change
  \/ Request

Spec == Init /\ [][Next]_vars

\* A process that is scheduled keeps executing, and a session ends: its runner
\* kills it at the timeout.
Fairness == \A o \in Orchestrators : WF_vars(Step(o))

FairSpec == Spec /\ Fairness
-------------------------------------------------------------------------------
Phases == {"off", "sync", "check", "park", "recover", "plan", "commit", "handoff",
           "prepare", "claim", "run", "final", "finalize", "abort", "aborted"}

\* Every variable holds a value of its kind; counters stay within their bounds.
TypeOK ==
  /\ TypeOKControl
  /\ waves \in Seq(Waves) /\ Len(waves) <= MaxWaves
  /\ contract \in Seq(Configs) /\ Len(contract) = Len(waves)
  /\ attempts \in [Dispatches -> Nat]
  /\ receipt \in [Dispatches -> {"none", "patch", "error"}]
  /\ planHead \in [Dispatches -> Nat]
  /\ landed \in [Dispatches -> Nat]
  /\ run \in [Dispatches -> {"none", "accepted", "rejected"}]
  /\ lock \in Orchestrators \cup {Nobody}
  /\ wf \in [Orchestrators ->
       [pc : Phases, config : Configs \cup {"none"}, steps : 0..MaxSteps,
        plan : Waves \cup {<<>>}, pending : SUBSET Dispatches, replay : BOOLEAN,
        completed : SUBSET Dispatches, current : Dispatches \cup {NoDispatch},
        won : BOOLEAN, failed : BOOLEAN, fresh : BOOLEAN, head : Nat,
        exit : {"none", "stop", "config", "solved", "await",
                "pause_requested", "stopping"}]]
  /\ launches \in 0..MaxLaunches
  /\ faults \in 0..MaxFaults
  /\ changes \in 0..MaxChanges
  /\ late \in Nat

\* Recovery looks at the latest wave only: no earlier wave may have a dispatch
\* without telemetry, whatever crashed and whoever executes
\* (_oldest_unlinked_dispatch_group, workflow.py).
OnlyLatestUnresolved ==
  \A g \in 1..(Len(waves) - 1) : \A d \in Members(g) : run[d] # "none"

\* An executor that may not be invoked twice for a dispatch is not, whatever dies
\* between the commit of the dispatch and its result, and whatever configuration
\* the next invocation is started with (_recovery_contract_compatibility).
UnsafeRunsOnce ==
  \A d \in Committed : contract[d[1]] \notin Replayable => attempts[d] <= 1

\* The flag patch_accepted of a linked run tells the truth: it is set exactly when
\* the patch of the dispatch landed, and the patch landed once, however often a
\* crash between the patch and the telemetry made it be merged again
\* (_accepted_dispatch_patch_outcome).
TruthfulTelemetry ==
  \A d \in Dispatches :
    /\ landed[d] <= 1
    /\ run[d] = "accepted" => landed[d] = 1
    /\ run[d] = "rejected" => landed[d] = 0

\* Proof-critical results come first: when a patch lands, every verifier,
\* integrator or writer of the wave that precedes it in merge order has returned,
\* in the same invocation or in one before a crash
\* (_blocked_by_pending_priority_barrier, _partition_recovery_results).
CriticalFirst ==
  [][\A d \in Dispatches : landed'[d] > landed[d] =>
       \A e \in Members(d[1]) :
         Critical(e) /\ Before(e, d) => receipt[e] # "none"]_vars

\* A result planned before a hard stop never lands after it, whatever restarts in
\* between ("Hard stops and other policy changes still fail closed", workflow.py).
HardStopFailsClosed ==
  [][\A d \in Dispatches :
       landed'[d] > landed[d] => ~HardStopAfter(planHead[d])]_vars

\* While a pause is pending at most the one wave is committed whose checkpoint
\* had passed when the pause was requested (_run_control_stop_action).
PauseStopsDispatch == late <= 1

\* A halt that was honoured stands, whoever starts, dies or leaves meanwhile: while
\* the status says that the run is halted no process is past the checkpoint, and
\* from "paused" nobody but the operator leads on ("only an explicit `resume`
\* clears them", _sync_run_status_at_start, workflow.py).
HaltStands ==
  [][/\ status' \in Halted => \A o \in Orchestrators : wf'[o].pc \notin Inside
     /\ status = "paused" /\ status' # "paused" => requests' > requests]_vars

\* The store implements the ledger it promises.
Stage(d) ==
  CASE d \notin Committed     -> "absent"
    [] d \in Committed /\ run[d] # "none" -> run[d]
    [] d \in Committed /\ run[d] = "none" /\ landed[d] > 0 -> "landed"
    [] OTHER -> CASE receipt[d] = "patch" -> "returned"
                  [] receipt[d] = "error" -> "failed"
                  [] OTHER                -> "open"

Ledger == INSTANCE DispatchLedger WITH
  opened <- Len(waves),
  stage  <- [d \in Dispatches |-> Stage(d)]

\* Waves one after another, each result landing at most once, each dispatch closed
\* according to its patch: across crashes, replays and lost telemetry.
LedgerKept == Ledger!Spec

\* A claimed dispatch does not wait forever behind the merge barrier: its result
\* is taken up, or its invocation ends.
NoBarrierDeadlock ==
  \A o \in Orchestrators, d \in Dispatches :
    At(o, "run") /\ d \in wf[o].pending \cup wf[o].completed
      ~> ~At(o, "run") \/ d \notin wf[o].pending \cup wf[o].completed
===============================================================================
