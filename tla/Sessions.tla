------------------------------ MODULE Sessions ------------------------------
(***************************************************************************)
(* The sessions of one wave (workflow.py, codex_runner.py,                 *)
(* claude_runner.py).  A thread supervises the child process of each       *)
(* session; a coordinator collects the results; a watcher polls the store  *)
(* for a hard stop; the writer of a human-readable text works beside the   *)
(* wave with a stop event of its own.  All of them share one governor of   *)
(* the memory of the children, which trips for good.                       *)
(***************************************************************************)
EXTENDS Integers, FiniteSets, Functions

CONSTANTS
  Primary,            \* the session of the wave that leads it
  Companions,         \* the others
  Sidecar,            \* the writer beside the wave
  Sizes,              \* what the memory of a child may measure
  Limit,              \* of the memory of all children together
  CancelOnFailure     \* stop_on_rejection

Items == {Primary} \union Companions
Sessions == Items \union {Sidecar}

ASSUME SessionsConstants ==
  /\ Primary \notin Companions /\ Sidecar \notin Items
  /\ Sizes \subseteq Nat \ {0} /\ Limit \in Nat
  /\ CancelOnFailure \in BOOLEAN

VARIABLES
  control,    \* run_status in the store: "running", or "stopping" with hard
  events,     \* the stop events that are set: "wave", "sidecar"
  current,    \* governor: the last measure of each session, 0 if none
  joined,     \* governor: whose stop events are registered
  tripped,    \* governor: whether it has tripped
  phase,      \* where the supervisor of each session is
  status,     \* what a session reports
  child,      \* its child: "none", "alive", "repair" (alive, once resumed), "ended"
  signals,    \* the stop events it is about to set
  wave,       \* "running", "raising", "returned" or "raised"
  collected   \* the items whose results the coordinator has handed on

governor == <<current, joined, tripped>>
session == <<phase, status, child, signals>>
coordinator == <<wave, collected>>
vars == <<control, events, governor, session, coordinator>>

EventOf(p) == IF p = Sidecar THEN "sidecar" ELSE "wave"
Set(p) == EventOf(p) \in events
WaveOpen == wave \in {"running", "raising"}

Init ==
  /\ control = "running" /\ events = {} /\ wave = "running" /\ collected = {}
  /\ current = [p \in Sessions |-> 0] /\ joined = {} /\ tripped = FALSE
  /\ phase \in [Sessions -> {"waiting", "absent"}]
  /\ \A p \in Items : phase[p] = "waiting"
  /\ status = [p \in Sessions |-> "none"]
  /\ child = [p \in Sessions |-> "none"]
  /\ signals = [p \in Sessions |-> {}]

-----------------------------------------------------------------------------
(* The governor.  A tree that cannot be measured trips it and leaves no    *)
(* number behind; one that measures nothing leaves the governor.           *)

Unknown == -1

Alive(p) == child[p] \in {"alive", "repair"}

Samples(p) == IF Alive(p) THEN Sizes \union {Unknown} ELSE {0}

Observe(p, s) ==
  /\ current' = IF s = Unknown THEN current ELSE [current EXCEPT ![p] = s]
  /\ joined' = IF s = 0 THEN joined \ {p} ELSE joined \union {p}
  /\ tripped' = (tripped \/ s = Unknown \/ SumFunction(current') > Limit)

(* Once it has tripped, an observation signals everybody who is registered, *)
(* and the observer in any case.                                           *)
Signals(p) == IF tripped' THEN {EventOf(q) : q \in joined' \union {p}} ELSE {}

Release(p) ==
  /\ current' = [current EXCEPT ![p] = 0]
  /\ joined' = joined \ {p}
  /\ UNCHANGED tripped

-----------------------------------------------------------------------------
(* The supervisor of a session, up to the end of its child.                *)

(* Mutant: whoever is stopped before its launch was cancelled. *)
AskedToEndUnread == "cancelled"

(* The supervisor of a session that finds its stop event set asks the      *)
(* governor why.                                                           *)
AskedToEnd == IF tripped THEN "failed" ELSE "cancelled"

Leave(p, s, c) ==
  /\ phase' = [phase EXCEPT ![p] = "left"]
  /\ status' = [status EXCEPT ![p] = s]
  /\ child' = [child EXCEPT ![p] = c]

(* The stop event is read before the child is launched, once. *)
Begin(p) ==
  /\ phase[p] = "waiting"
  /\ \/ Set(p) /\ Leave(p, AskedToEnd, "none")
     \/ ~Set(p) /\ Leave(p, "failed", "none")
     \/ /\ ~Set(p)
        /\ phase' = [phase EXCEPT ![p] = "running"]
        /\ child' = [child EXCEPT ![p] = "alive"]
        /\ UNCHANGED status
  /\ UNCHANGED <<control, events, governor, signals, coordinator>>

(* One turn of the supervising loop: the stop event,                       *)
Heed(p) ==
  /\ phase[p] = "running" /\ Set(p)
  /\ Leave(p, AskedToEnd, "ended")
  /\ UNCHANGED <<control, events, governor, signals, coordinator>>

(* then a sample of the memory, for the governor,                          *)
SampleInto(p, next) ==
  /\ \E s \in Samples(p) : Observe(p, s)
  /\ signals' = [signals EXCEPT ![p] = Signals(p)]
  /\ phase' = [phase EXCEPT ![p] = next]
  /\ UNCHANGED <<control, events, status, child, coordinator>>

Sample(p) == phase[p] = "running" /\ ~Set(p) /\ SampleInto(p, "sampled")

(* then the limits, the deadline and the child's own end.  What the child  *)
(* has written may be too long, its memory above its own limit, and the    *)
(* time up, at any turn.                                                   *)
Decide(p) ==
  /\ phase[p] = "sampled"
  /\ events' = events \union signals[p]
  /\ signals' = [signals EXCEPT ![p] = {}]
  /\ \/ Leave(p, "failed", "ended")
     \/ signals[p] = {} /\ Leave(p, "timeout", "ended")
     \/ signals[p] = {} /\ ~Alive(p) /\ Leave(p, "completed", "ended")
     \/ /\ signals[p] = {} /\ Alive(p)
        /\ phase' = [phase EXCEPT ![p] = "running"]
        /\ UNCHANGED <<status, child>>
  /\ UNCHANGED <<control, governor, coordinator>>

-----------------------------------------------------------------------------
(* After the end of the child.                                             *)

(* The executable may have been replaced meanwhile, the answer may be too  *)
(* long or no patch.                                                       *)
Outcomes(s) ==
  {s, "failed"} \union (IF s = "completed" THEN {"no_patch"} ELSE {})

Return(p, s) ==
  /\ phase' = [phase EXCEPT ![p] = "returned"]
  /\ status' = [status EXCEPT ![p] = s]
  /\ Release(p)

(* A last observation, of nothing, and the release. *)
Finish(p) ==
  /\ phase[p] = "left"
  /\ \E s \in Outcomes(status[p]) : Return(p, s)
  /\ events' = events \union (IF tripped THEN {EventOf(q) : q \in (joined \union {p})} ELSE {})
  /\ UNCHANGED <<control, child, signals, coordinator>>

(* The session is resumed once to mend its patch; Claude's runner never    *)
(* does.                                                                   *)
Repair(p) ==
  /\ phase[p] = "left" /\ status[p] = "completed"
  /\ Observe(p, 0)
  /\ events' = events \union Signals(p)
  /\ phase' = [phase EXCEPT ![p] = "repairing"]
  /\ child' = [child EXCEPT ![p] = "repair"]
  /\ UNCHANGED <<control, status, signals, coordinator>>

(* Mutant: the repair does not heed the governor. *)
RepairDecideAlone(p) ==
  /\ phase[p] = "repair_sampled"
  /\ events' = events \union signals[p]
  /\ signals' = [signals EXCEPT ![p] = {}]
  /\ phase' = [phase EXCEPT ![p] = "repairing"]
  /\ UNCHANGED <<control, governor, status, child, coordinator>>

(* The loop over the repair samples too, but does not read the stop event. *)
RepairSample(p) == phase[p] = "repairing" /\ Alive(p) /\ SampleInto(p, "repair_sampled")

RepairDecide(p) ==
  /\ phase[p] = "repair_sampled"
  /\ events' = events \union signals[p]
  /\ signals' = [signals EXCEPT ![p] = {}]
  /\ \/ /\ child' = [child EXCEPT ![p] = "ended"]
        /\ \E s \in (IF signals[p] = {} THEN Outcomes("completed") ELSE {"failed"}) : Return(p, s)
     \/ /\ signals[p] = {}
        /\ phase' = [phase EXCEPT ![p] = "repairing"]
        /\ UNCHANGED <<status, child, governor>>
  /\ UNCHANGED <<control, coordinator>>

RepairEnd(p) ==
  /\ phase[p] = "repairing" /\ ~Alive(p)
  /\ \E s \in Outcomes("completed") : Return(p, s)
  /\ UNCHANGED <<control, events, child, signals, coordinator>>

-----------------------------------------------------------------------------
(* What happens to a session from outside.                                 *)

Exit(p) ==
  /\ Alive(p) /\ child' = [child EXCEPT ![p] = "ended"]
  /\ UNCHANGED <<control, events, governor, phase, status, signals,
                 coordinator>>

(* Where a sidecar is interrupted its thread reports a failure. *)
Interrupted(p) == IF p = Sidecar THEN "returned" ELSE "raised"

(* An interruption ends the child before it propagates. *)
Raise(p) ==
  /\ phase[p] \in {"waiting", "running", "sampled", "left"}
  /\ phase' = [phase EXCEPT ![p] = Interrupted(p)]
  /\ status' = [status EXCEPT ![p] = "failed"]
  /\ child' = [child EXCEPT ![p] = IF @ = "alive" THEN "ended" ELSE @]
  /\ Release(p)
  /\ UNCHANGED <<control, events, signals, coordinator>>

(* Not that of a repair: the child lives on and stays in the governor. *)
RaiseInRepair(p) ==
  /\ phase[p] \in {"repairing", "repair_sampled"}
  /\ phase' = [phase EXCEPT ![p] = Interrupted(p)]
  /\ status' = [status EXCEPT ![p] = "failed"]
  /\ UNCHANGED <<control, events, governor, child, signals, coordinator>>

-----------------------------------------------------------------------------
(* The coordinator and the watcher.                                        *)

Failures == {"failed", "timeout", "no_patch", "cancelled"}

(* Everybody is told to stop; who has not started yet is cancelled.        *)
CancelAll ==
  LET pending == {p \in Items : phase[p] = "waiting"} IN
  /\ events' = events \union {"wave"}
  /\ phase' = [p \in Sessions |-> IF p \in pending THEN "cancelled" ELSE phase[p]]
  /\ status' = [p \in Sessions |-> IF p \in pending THEN "cancelled" ELSE status[p]]

Cancels(p) == p = Primary /\ CancelOnFailure /\ status[p] \in Failures

Collect(p) ==
  /\ wave = "running" /\ p \notin collected
  /\ phase[p] \in {"returned", "cancelled"}
  /\ collected' = collected \union {p}
  /\ IF Cancels(p) THEN CancelAll ELSE UNCHANGED <<events, phase, status>>
  /\ UNCHANGED <<control, governor, child, signals, wave>>

AbortWave ==
  /\ wave = "running" /\ wave' = "raising"
  /\ CancelAll
  /\ UNCHANGED <<control, governor, child, signals, collected>>

(* A session was interrupted. *)
Abort == (\E p \in Items : phase[p] = "raised") /\ AbortWave

(* The coordinator itself is: a result cannot be handed on, or the user    *)
(* interrupts the run.                                                     *)
Interrupt == AbortWave

(* The pool waits for its threads even so. *)
WaveEnds ==
  /\ \/ wave = "running" /\ collected = Items /\ wave' = "returned"
     \/ /\ wave = "raising" /\ wave' = "raised"
        /\ \A p \in Items : phase[p] \in {"returned", "cancelled", "raised"}
  /\ UNCHANGED <<control, events, governor, session, collected>>

RequestHardStop ==
  /\ control = "running" /\ WaveOpen /\ control' = "stopping"
  /\ UNCHANGED <<events, governor, session, coordinator>>

(* Mutant: the watcher looks only until a first session has returned. *)
WatchAtFirst ==
  /\ WaveOpen /\ collected = {} /\ control = "stopping" /\ "wave" \notin events
  /\ events' = events \union {"wave"}
  /\ UNCHANGED <<control, governor, session, coordinator>>

Watch ==
  /\ WaveOpen /\ control = "stopping" /\ "wave" \notin events
  /\ events' = events \union {"wave"}
  /\ UNCHANGED <<control, governor, session, coordinator>>

(* The run may end after a wave: the writer beside it is told to stop.     *)
EndRun ==
  /\ wave = "returned" /\ "sidecar" \notin events
  /\ events' = events \union {"sidecar"}
  /\ UNCHANGED <<control, governor, session, coordinator>>

(* What the writer has written is published unless it was told to stop.    *)
Publish ==
  /\ phase[Sidecar] = "returned"
  /\ phase' = [phase EXCEPT ![Sidecar] = IF Set(Sidecar) THEN "dropped" ELSE "published"]
  /\ UNCHANGED <<control, events, governor, status, child, signals,
                 coordinator>>

Supervise(p) ==
  Begin(p) \/ Heed(p) \/ Sample(p) \/ Decide(p) \/ Finish(p) \/ Repair(p)
  \/ RepairSample(p) \/ RepairDecide(p) \/ RepairEnd(p)

Happen(p) == Exit(p) \/ Raise(p) \/ RaiseInRepair(p)

Coordinate == (\E p \in Items : Collect(p)) \/ Abort \/ WaveEnds

Next ==
  \/ \E p \in Sessions : Supervise(p) \/ Happen(p)
  \/ Coordinate \/ Interrupt \/ RequestHardStop \/ Watch \/ EndRun \/ Publish

Spec == Init /\ [][Next]_vars

(* Every thread keeps running; no deadline, and no exit of a child, is owed. *)
Fairness ==
  /\ \A p \in Sessions : WF_vars(Supervise(p))
  /\ WF_vars(Coordinate) /\ WF_vars(Watch)

FairSpec == Spec /\ Fairness

-----------------------------------------------------------------------------
Phases ==
  {"absent", "waiting", "running", "sampled", "left", "repairing", "repair_sampled",
   "returned", "raised", "cancelled", "published", "dropped"}

TypeOK ==
  /\ control \in {"running", "stopping"} /\ events \subseteq {"wave", "sidecar"}
  /\ current \in [Sessions -> Nat] /\ joined \subseteq Sessions /\ tripped \in BOOLEAN
  /\ phase \in [Sessions -> Phases]
  /\ status \in [Sessions -> Failures \union {"none", "completed"}]
  /\ child \in [Sessions -> {"none", "alive", "repair", "ended"}]
  /\ signals \in [Sessions -> SUBSET {"wave", "sidecar"}]
  /\ wave \in {"running", "raising", "returned", "raised"} /\ collected \subseteq Items

(* When the governor has tripped every child is stopped for good, before   *)
(* any deadline: also one that registers later, one that uses the other    *)
(* stop event, and a repair (codex_runner.py:150).  The child of a repair  *)
(* whose supervisor was interrupted is nobody's any more.                  *)
TripStopsAll ==
  tripped ~> [](\A p \in Sessions :
    Alive(p) => child[p] = "repair" /\ phase[p] \notin {"repairing", "repair_sampled"})

(* A hard stop reaches every child of the wave, before any deadline, other *)
(* than one that repairs its patch (workflow.py:2196).                     *)
HardStopStopsWave ==
  control = "stopping" /\ WaveOpen ~> [](\A p \in Items : child[p] # "alive")

(* The wave was asked to stop by something other than the governor. *)
Asked ==
  \/ control = "stopping" \/ wave \in {"raising", "raised"}
  \/ Primary \in collected /\ Cancels(Primary)

(* Whoever reports that it was cancelled was: by a hard stop, by the       *)
(* failure of its primary, by an exception, or, for the writer beside the  *)
(* wave, by the end of the run; a trip or a companion's failure is never   *)
(* reported so.  And whatever happens, no child outlives its supervisor    *)
(* but that of a repair, and a wave that returns has collected every       *)
(* result and left nothing in the governor (workflow.py:2158).             *)
AccountedFor ==
  /\ \A p \in Items : status[p] = "cancelled" => Asked
  /\ status[Sidecar] = "cancelled" => wave = "returned"
  /\ \A p \in Sessions : child[p] = "alive" => phase[p] \in {"running", "sampled"}
  /\ wave = "returned" =>
       \A p \in Items : ~Alive(p) /\ p \notin joined /\ current[p] = 0
=============================================================================
