--------------------------- MODULE SessionsProofs ---------------------------
(***************************************************************************)
(* AccountedFor holds for every number of companions, all sizes and every  *)
(* limit.  It is not inductive: a session reports why it was stopped from  *)
(* a stop event and the governor, so one has to know why either is set,    *)
(* and where a supervisor can be while its child lives.                    *)
(***************************************************************************)
EXTENDS Sessions, TLAPS

(* Why a stop event is set, or about to be. *)
Reasons ==
  /\ "wave" \in events => Asked \/ tripped
  /\ "sidecar" \in events => wave = "returned" \/ tripped
  /\ \A p \in Sessions : signals[p] # {} => tripped
  /\ \A p \in Items : status[p] = "cancelled" => Asked
  /\ status[Sidecar] = "cancelled" => wave = "returned"

(* Where a supervisor is while its child lives. *)
Places ==
  /\ \A p \in Sessions :
       /\ child[p] = "alive" => phase[p] \in {"running", "sampled"}
       /\ phase[p] = "left" => ~Alive(p)
  /\ \A p \in Items : phase[p] \in {"waiting", "returned", "cancelled"} =>
       ~Alive(p) /\ p \notin joined /\ current[p] = 0
  /\ \A p \in collected : phase[p] \in {"returned", "cancelled"}
  /\ wave = "returned" => collected = Items

IInv == TypeOK /\ Reasons /\ Places

USE SessionsConstants DEF Sessions, Items

LEMMA Initially == Init => IInv
<1> SUFFICES ASSUME Init PROVE IInv OBVIOUS
<1>1. phase \in [Sessions -> Phases] BY DEF Init, Phases
<1>2. TypeOK BY <1>1 DEF Init, TypeOK
<1>3. Reasons BY DEF Init, Reasons
<1>4. Places BY <1>1 DEF Init, Places, Alive
<1> QED BY <1>2, <1>3, <1>4 DEF IInv

LEMMA Implied == IInv => AccountedFor
BY DEF IInv, TypeOK, Reasons, Places, AccountedFor

LEMMA BeginKeeps == ASSUME IInv, NEW p \in Sessions, Begin(p) PROVE IInv'
<1> USE DEF IInv, Begin, Leave, AskedToEnd, governor, coordinator, Set, EventOf
<1>1. TypeOK' BY DEF TypeOK, Phases, Failures
<1>2. Asked => Asked' BY DEF Asked, Cancels, Failures, Places, TypeOK
<1>3. Reasons' BY <1>2 DEF Reasons, TypeOK
<1>4. Places' BY DEF Places, TypeOK, Alive
<1> QED BY <1>1, <1>3, <1>4

LEMMA HeedKeeps == ASSUME IInv, NEW p \in Sessions, Heed(p) PROVE IInv'
<1> USE DEF IInv, Heed, Leave, AskedToEnd, governor, coordinator, Set, EventOf
<1>1. TypeOK' BY DEF TypeOK, Phases, Failures
<1>2. Asked => Asked' BY DEF Asked, Cancels, Failures, Places, TypeOK
<1>3. Reasons' BY <1>2 DEF Reasons, TypeOK
<1>4. Places' BY DEF Places, TypeOK, Alive
<1> QED BY <1>1, <1>3, <1>4

(* What an observation does to the governor. *)
LEMMA Observed ==
  ASSUME TypeOK, NEW p \in Sessions, NEW s \in Nat \union {Unknown}, Observe(p, s)
  PROVE  /\ current' \in [Sessions -> Nat] /\ joined' \subseteq Sessions
         /\ tripped' \in BOOLEAN /\ (tripped => tripped')
         /\ Signals(p) \subseteq {"wave", "sidecar"} /\ (Signals(p) # {} => tripped')
         /\ \A q \in Sessions \ {p} : current'[q] = current[q] /\ (q \in joined' <=> q \in joined)
BY DEF Observe, TypeOK, Signals, EventOf, Unknown

LEMMA SampleKeeps ==
  ASSUME IInv, NEW p \in Sessions, Sample(p) \/ RepairSample(p)
  PROVE  IInv'
<1>1. PICK s \in Samples(p) : Observe(p, s)
  BY DEF Sample, RepairSample, SampleInto
<1>2. s \in Nat \union {Unknown} BY DEF Samples
<1>3. /\ current' \in [Sessions -> Nat] /\ joined' \subseteq Sessions
      /\ tripped' \in BOOLEAN /\ (tripped => tripped')
      /\ Signals(p) \subseteq {"wave", "sidecar"} /\ (Signals(p) # {} => tripped')
      /\ \A q \in Sessions \ {p} : current'[q] = current[q] /\ (q \in joined' <=> q \in joined)
  BY <1>1, <1>2, Observed DEF IInv
<1>4. /\ phase[p] \in {"running", "repairing"}
      /\ phase' = [phase EXCEPT ![p] = IF phase[p] = "running" THEN "sampled" ELSE "repair_sampled"]
      /\ signals' = [signals EXCEPT ![p] = Signals(p)]
      /\ UNCHANGED <<control, events, status, child, coordinator>>
  BY DEF Sample, RepairSample, SampleInto
<1> USE DEF IInv, coordinator
<1>5. TypeOK' BY <1>3, <1>4 DEF TypeOK, Phases
<1>6. Asked => Asked' BY <1>4 DEF Asked, Cancels
<1>7. Reasons' BY <1>3, <1>4, <1>6 DEF Reasons, TypeOK
<1>8. Places' BY <1>3, <1>4 DEF Places, TypeOK, Alive
<1> QED BY <1>5, <1>7, <1>8

LEMMA DecideKeeps == ASSUME IInv, NEW p \in Sessions, Decide(p) PROVE IInv'
<1> USE DEF IInv, Decide, Leave, governor, coordinator
<1>1. TypeOK'
  <2>1. /\ events' \subseteq {"wave", "sidecar"}
        /\ signals' \in [Sessions -> SUBSET {"wave", "sidecar"}]
    BY DEF TypeOK
  <2>2. ASSUME NEW s \in {"failed", "timeout", "completed"}, Leave(p, s, "ended")
        PROVE  TypeOK'
    BY <2>1, <2>2 DEF TypeOK, Phases, Failures
  <2>3. CASE phase' = [phase EXCEPT ![p] = "running"] /\ UNCHANGED <<status, child>>
    BY <2>1, <2>3 DEF TypeOK, Phases
  <2> QED BY <2>2, <2>3
<1>2. Asked => Asked' BY DEF Asked, Cancels, Failures, Places, TypeOK
<1>3. Reasons' BY <1>2 DEF Reasons, TypeOK
<1>4. Places' BY DEF Places, TypeOK, Alive
<1> QED BY <1>1, <1>3, <1>4

LEMMA FinishKeeps == ASSUME IInv, NEW p \in Sessions, Finish(p) PROVE IInv'
<1> USE DEF IInv, Finish, Return, Release, Outcomes, coordinator, EventOf
<1>1. TypeOK'
  <2>1. PICK s \in Outcomes(status[p]) : Return(p, s) OBVIOUS
  <2>2. s \in Failures \union {"none", "completed"} BY <2>1 DEF TypeOK, Failures
  <2>3. events' \subseteq {"wave", "sidecar"} BY DEF TypeOK
  <2> QED BY <2>1, <2>2, <2>3 DEF TypeOK, Phases
<1>2. Asked => Asked' BY DEF Asked, Cancels, Failures, Places, TypeOK
<1>3. Reasons' BY <1>2 DEF Reasons, TypeOK
<1>4. Places' BY DEF Places, TypeOK, Alive
<1> QED BY <1>1, <1>3, <1>4

LEMMA RepairKeeps == ASSUME IInv, NEW p \in Sessions, Repair(p) PROVE IInv'
<1>1. Observe(p, 0) BY DEF Repair
<1>2. /\ current' \in [Sessions -> Nat] /\ joined' \subseteq Sessions
      /\ tripped' \in BOOLEAN /\ (tripped => tripped')
      /\ Signals(p) \subseteq {"wave", "sidecar"} /\ (Signals(p) # {} => tripped')
      /\ \A q \in Sessions \ {p} : current'[q] = current[q] /\ (q \in joined' <=> q \in joined)
  BY <1>1, Observed DEF IInv
<1> USE <1>2 DEF IInv, Repair, coordinator
<1>3. TypeOK' BY DEF TypeOK, Phases, Failures
<1>4. Asked => Asked' BY DEF Asked, Cancels
<1>5. Reasons' BY <1>4 DEF Reasons, TypeOK
<1>6. Places' BY DEF Places, TypeOK, Alive
<1> QED BY <1>3, <1>5, <1>6

LEMMA RepairDecideKeeps == ASSUME IInv, NEW p \in Sessions, RepairDecide(p) PROVE IInv'
<1> USE DEF IInv, RepairDecide, Return, Release, Outcomes, governor, coordinator
<1>1. TypeOK'
  <2>1. /\ events' \subseteq {"wave", "sidecar"}
        /\ signals' \in [Sessions -> SUBSET {"wave", "sidecar"}]
    BY DEF TypeOK
  <2>2. CASE \E s \in Outcomes("completed") \union {"failed"} :
               Return(p, s) /\ child' = [child EXCEPT ![p] = "ended"]
    BY <2>1, <2>2 DEF TypeOK, Phases, Failures
  <2>3. CASE phase' = [phase EXCEPT ![p] = "repairing"] /\ UNCHANGED <<status, child, governor>>
    BY <2>1, <2>3 DEF TypeOK, Phases
  <2> QED BY <2>2, <2>3
<1>2. Asked => Asked' BY DEF Asked, Cancels, Failures, Places, TypeOK
<1>3. Reasons' BY <1>2 DEF Reasons, TypeOK
<1>4. Places' BY DEF Places, TypeOK, Alive
<1> QED BY <1>1, <1>3, <1>4

LEMMA RepairEndKeeps == ASSUME IInv, NEW p \in Sessions, RepairEnd(p) PROVE IInv'
<1> USE DEF IInv, RepairEnd, Return, Release, Outcomes, coordinator
<1>1. TypeOK' BY DEF TypeOK, Phases, Failures
<1>2. Asked => Asked' BY DEF Asked, Cancels, Failures, Places, TypeOK
<1>3. Reasons' BY <1>2 DEF Reasons, TypeOK
<1>4. Places' BY DEF Places, TypeOK, Alive
<1> QED BY <1>1, <1>3, <1>4

LEMMA HappenKeeps == ASSUME IInv, NEW p \in Sessions, Happen(p) PROVE IInv'
<1>1. CASE Exit(p)
  <2> USE <1>1 DEF IInv, Exit, governor, coordinator
  <2>1. TypeOK' BY DEF TypeOK
  <2>2. Asked => Asked' BY DEF Asked, Cancels
  <2>3. Reasons' BY <2>2 DEF Reasons
  <2>4. Places' BY DEF Places, TypeOK, Alive
  <2> QED BY <2>1, <2>3, <2>4
<1>2. CASE Raise(p)
  <2> USE <1>2 DEF IInv, Raise, Release, Interrupted, coordinator
  <2>1. TypeOK' BY DEF TypeOK, Phases, Failures
  <2>2. Asked => Asked' BY DEF Asked, Cancels, Failures, Places, TypeOK
  <2>3. Reasons' BY <2>2 DEF Reasons, TypeOK
  <2>4. Places' BY DEF Places, TypeOK, Alive
  <2> QED BY <2>1, <2>3, <2>4
<1>3. CASE RaiseInRepair(p)
  <2> USE <1>3 DEF IInv, RaiseInRepair, Interrupted, governor, coordinator
  <2>1. TypeOK' BY DEF TypeOK, Phases, Failures
  <2>2. Asked => Asked' BY DEF Asked, Cancels, Failures, Places, TypeOK
  <2>3. Reasons' BY <2>2 DEF Reasons, TypeOK
  <2>4. Places' BY DEF Places, TypeOK, Alive
  <2> QED BY <2>1, <2>3, <2>4
<1> QED BY <1>1, <1>2, <1>3 DEF Happen

LEMMA CancelKeeps ==
  ASSUME IInv, CancelAll, UNCHANGED <<governor, child, signals, control>>,
         wave' \in {"running", "raising"}, wave = "running",
         collected' \subseteq Items, \A p \in collected' : phase[p] \in {"returned", "cancelled"},
         collected \subseteq collected', Asked'
  PROVE  IInv'
<1> USE DEF IInv, CancelAll, governor
<1>1. TypeOK' BY DEF TypeOK, Phases, Failures
<1>2. Reasons' BY DEF Reasons, TypeOK
<1>3. Places' BY DEF Places, TypeOK, Alive
<1> QED BY <1>1, <1>2, <1>3

LEMMA CollectKeeps == ASSUME IInv, NEW p \in Items, Collect(p) PROVE IInv'
<1>1. CASE Cancels(p)
  <2>1. CancelAll /\ p = Primary BY <1>1 DEF Collect, Cancels
  <2>2. Cancels(Primary)'
    BY <1>1, <2>1 DEF Collect, Cancels, CancelAll, IInv, TypeOK
  <2>3. Asked' BY <2>1, <2>2 DEF Asked, Collect
  <2> QED BY <2>1, <2>3, CancelKeeps DEF Collect, IInv, TypeOK, Places, governor
<1>2. CASE ~Cancels(p)
  <2> USE <1>2 DEF IInv, Collect, governor
  <2>1. TypeOK' BY DEF TypeOK
  <2>2. Asked => Asked' BY DEF Asked, Cancels
  <2>3. Reasons' BY <2>2 DEF Reasons
  <2>4. Places' BY DEF Places, TypeOK, Alive
  <2> QED BY <2>1, <2>3, <2>4
<1> QED BY <1>1, <1>2

LEMMA CoordinatorKeeps ==
  ASSUME IInv, AbortWave \/ WaveEnds \/ RequestHardStop \/ Watch \/ EndRun \/ Publish
  PROVE  IInv'
<1>1. CASE AbortWave
  <2>1. Asked' BY <1>1 DEF Asked, AbortWave
  <2> QED BY <1>1, <2>1, CancelKeeps DEF AbortWave, IInv, TypeOK, Places, governor
<1>2. CASE WaveEnds \/ RequestHardStop \/ Watch \/ EndRun
  <2> USE <1>2 DEF IInv, WaveEnds, RequestHardStop, Watch, EndRun, governor, session, coordinator
  <2>1. TypeOK' BY DEF TypeOK
  <2>2. Asked => Asked' BY DEF Asked, Cancels
  <2>3. Reasons' BY <2>2 DEF Reasons, Asked
  <2>4. Places' BY DEF Places, TypeOK, Alive
  <2> QED BY <2>1, <2>3, <2>4
<1>3. CASE Publish
  <2> USE <1>3 DEF IInv, Publish, governor, coordinator
  <2>1. TypeOK' BY DEF TypeOK, Phases
  <2>2. Asked => Asked' BY DEF Asked, Cancels
  <2>3. Reasons' BY <2>2 DEF Reasons, TypeOK
  <2>4. Places' BY DEF Places, TypeOK, Alive
  <2> QED BY <2>1, <2>3, <2>4
<1> QED BY <1>1, <1>2, <1>3

LEMMA Stutter == ASSUME IInv, UNCHANGED vars PROVE IInv'
<1> USE DEF IInv, vars, governor, session, coordinator
<1>1. TypeOK' BY DEF TypeOK
<1>2. Reasons' BY DEF Reasons, Asked, Cancels
<1>3. Places' BY DEF Places, Alive
<1> QED BY <1>1, <1>2, <1>3

LEMMA Inductive == IInv /\ [Next]_vars => IInv'
<1> SUFFICES ASSUME IInv, [Next]_vars PROVE IInv' OBVIOUS
<1>1. ASSUME NEW p \in Sessions, Supervise(p) PROVE IInv'
  BY <1>1, BeginKeeps, HeedKeeps, SampleKeeps, DecideKeeps, FinishKeeps, RepairKeeps,
     RepairDecideKeeps, RepairEndKeeps DEF Supervise
<1>2. ASSUME NEW p \in Sessions, Happen(p) PROVE IInv' BY <1>2, HappenKeeps
<1>3. CASE Coordinate BY <1>3, CollectKeeps, CoordinatorKeeps DEF Coordinate, Abort
<1>4. CASE Interrupt \/ RequestHardStop \/ Watch \/ EndRun \/ Publish
  BY <1>4, CoordinatorKeeps DEF Interrupt
<1>5. CASE UNCHANGED vars BY <1>5, Stutter
<1> QED BY <1>1, <1>2, <1>3, <1>4, <1>5 DEF Next

(* The state of a wave is made of what its threads, the governor and the   *)
(* coordinator may hold.                                                   *)
THEOREM Typing == Spec => []TypeOK
<1>1. IInv => TypeOK BY DEF IInv
<1> QED BY <1>1, Initially, Inductive, PTL DEF Spec

(* A session that says it was cancelled was, no child outlives its         *)
(* supervisor but that of a repair, and a wave returns clean.              *)
THEOREM Accounted == Spec => []AccountedFor
BY Initially, Implied, Inductive, PTL DEF Spec
=============================================================================
