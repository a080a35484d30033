------------------------------ MODULE RunControl ------------------------------
(***************************************************************************)
(* The persisted run status and the events that record its changes: the    *)
(* operator asks for a pause, a stop or a resumption from another process, *)
(* the workflow honours the request.  Every change is one transaction, but *)
(* the status a change is decided on is read in an earlier one.            *)
(***************************************************************************)
EXTENDS Naturals, Sequences

CONSTANT MaxRequests  \* bound: changes of the status the operator makes

ASSUME RunControlAssumption == MaxRequests \in Nat

VARIABLES
  status,     \* problem_state.run_status
  policyLog,  \* the run_control_policy events, oldest first
  operator,   \* "idle", or what the operator's process has decided to write
  requests    \* how many changes the operator has made

controlVars == <<status, policyLog, operator, requests>>

RunStatuses == {"running", "pause_requested", "paused", "stopping", "stopped",
                "awaiting_human", "completed"}

Sources == {"cli", "workflow", "workflow_exception"}

\* set_run_status writes the status and the event in one transaction; `from` is
\* read inside it, so it may differ from the status the caller acted on.
SetStatus(new, source, hard) ==
  /\ status' = new
  /\ policyLog' = Append(policyLog,
       [from |-> status, to |-> new, hard |-> hard, source |-> source])

UnchangedStatus == UNCHANGED <<status, policyLog>>

-------------------------------------------------------------------------------
\* request_pause and resume_run read the status and may find nothing to do ...
DecidePause ==
  /\ operator = "idle"
  /\ requests < MaxRequests
  /\ status \notin {"paused", "pause_requested"}
  /\ operator' = "pause_requested"
  /\ UNCHANGED <<status, policyLog, requests>>

DecideResume ==
  /\ operator = "idle"
  /\ requests < MaxRequests
  /\ status # "running"
  /\ operator' = "running"
  /\ UNCHANGED <<status, policyLog, requests>>

\* ... and otherwise write what they decided, whatever the status has become.
Write ==
  /\ operator # "idle"
  /\ SetStatus(operator, "cli", FALSE)
  /\ operator' = "idle"
  /\ requests' = requests + 1

\* request_stop decides nothing: it always writes.
Stop ==
  /\ operator = "idle"
  /\ requests < MaxRequests
  /\ \E hard \in BOOLEAN : SetStatus("stopping", "cli", hard)
  /\ requests' = requests + 1
  /\ UNCHANGED operator

Operate == DecidePause \/ DecideResume \/ Write \/ Stop

InitControl ==
  /\ status = "running"
  /\ policyLog = <<>>
  /\ operator = "idle"
  /\ requests = 0

TypeOKControl ==
  /\ status \in RunStatuses
  /\ policyLog \in Seq([from : RunStatuses, to : RunStatuses,
                        hard : BOOLEAN, source : Sources])
  /\ operator \in {"idle", "pause_requested", "running"}
  /\ requests \in 0..MaxRequests
  /\ operator # "idle" => requests < MaxRequests

-------------------------------------------------------------------------------
\* Every request made while running is forgiven, a hard one too.
DrainedThoughHard(head) ==
  \A i \in (head + 1)..Len(policyLog) :
    policyLog[i].from = "running" /\ policyLog[i].to \in {"pause_requested", "stopping"}

\* Whether a result whose session was planned under the first `head` events may
\* still be merged: soft requests made while running are forgiven, and an aborted
\* invocation together with the restart right after it.
Drained(head) ==
  LET since == (head + 1)..Len(policyLog)
      Soft(e) == /\ e.from = "running" /\ ~e.hard
                 /\ e.to \in {"pause_requested", "stopping"}
      Aborted(e) == e.from = "running" /\ e.to = "stopped" /\ e.source = "workflow_exception"
      Restarted(e) == e.from = "stopped" /\ e.to = "running" /\ e.source = "workflow"
  IN \A i \in since :
       \/ Soft(policyLog[i])
       \/ i + 1 \in since /\ Aborted(policyLog[i]) /\ Restarted(policyLog[i + 1])
       \/ i - 1 \in since /\ Aborted(policyLog[i - 1]) /\ Restarted(policyLog[i])

\* A hard stop was requested after the first `head` events.
HardStopAfter(head) ==
  \E i \in (head + 1)..Len(policyLog) :
    policyLog[i].to = "stopping" /\ policyLog[i].hard
===============================================================================
