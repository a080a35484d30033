------------------------------- MODULE Steering -------------------------------
(***************************************************************************)
(* The operator's messages to a run: directives, which the approach        *)
(* portfolio must be aligned with, and answers to a blocker of the writing *)
(* gate, each of which authorises one revision.  The run loop reads the    *)
(* inbox at the start of a step, shows it to the step's session, marks it  *)
(* delivered, consumed and aligned, and may die between any two of these.  *)
(***************************************************************************)
EXTENDS Integers

CONSTANTS
  Messages,     \* what the operator may submit
  Portfolios,   \* identities of approach portfolios
  MaxRounds,    \* bound: focused revisions
  MaxLaunches   \* bound: invocations of the workflow, so of crashes

ASSUME SteeringAssumption ==
  /\ MaxRounds \in Nat /\ MaxLaunches \in Nat
  /\ "none" \notin Portfolios

VARIABLES
  inbox,      \* delivery_status of a message, "none" before it is submitted
  alignment,  \* its approach_alignment_status
  gate,       \* the blocker of a round of the writing gate
  rounds,     \* focused revisions recorded as completed runs
  revisions,  \* focused revisions of completed sessions whose patch was accepted
  portfolio,  \* the latest portfolio and what its author had read
  wave,       \* the latest dispatch: its result, patch and telemetry
  wf,         \* what the executing process holds in memory
  launches

inboxVars == <<inbox, alignment>>
gateVars  == <<gate, rounds, revisions>>
vars == <<inboxVars, gateVars, portfolio, wave, wf, launches>>

Submitted == {m \in Messages : inbox[m] # "none"}

Unconsumed == {m \in Messages : inbox[m] \in {"queued", "processing"}}

\* Consumed directives the portfolio is still to be aligned with.
AlignmentCard ==
  {m \in Messages : inbox[m] = "consumed" /\ alignment[m] \in {"pending", "processing"}}

NoWave ==
  [kind |-> "none", ids |-> {}, supersedes |-> "none", knew |-> {}, policy |-> {},
   result |-> "none", landed |-> FALSE, linked |-> TRUE]

Idle ==
  [pc |-> "off", kind |-> "none", pending |-> {}, knew |-> {}, policy |-> {},
   replay |-> FALSE, won |-> FALSE]

At(pc) == wf.pc = pc

\* The top of the loop: what belonged to the step is forgotten.
Again == wf' = [Idle EXCEPT !.pc = "recover"]

-------------------------------------------------------------------------------
\* The operator submits a directive or answers an open blocker, and may say whether
\* the portfolio is to be aligned with it.
Post(m, status) ==
  /\ inbox[m] = "none"
  /\ inbox' = [inbox EXCEPT ![m] = "queued"]
  /\ alignment' = [alignment EXCEPT ![m] = status]
  /\ UNCHANGED <<rounds, revisions, portfolio, wave, wf, launches>>

Requests == {"awaiting_processing", "not_required"}

Direct(m, status) == Post(m, status) /\ UNCHANGED gate

Answer(m, status, r) ==
  /\ gate[r] = "open"
  /\ gate' = [gate EXCEPT ![r] = "answered"]
  /\ Post(m, status)

-------------------------------------------------------------------------------
Launch ==
  /\ At("off")
  /\ launches < MaxLaunches
  /\ launches' = launches + 1
  /\ Again
  /\ UNCHANGED <<inboxVars, gateVars, portfolio, wave>>

\* A dispatch without telemetry comes first: its result is merged again, or else
\* its session is run again.  One with telemetry is not looked at any more.
Recover ==
  /\ At("recover")
  /\ \/ /\ wave.linked
        /\ wave' = NoWave
        /\ wf' = [wf EXCEPT !.pc = "plan"]
     \/ /\ ~wave.linked
        /\ wf' = [wf EXCEPT !.pc = "read", !.replay = wave.result # "none"]
        /\ UNCHANGED wave
  /\ UNCHANGED <<inboxVars, gateVars, portfolio, launches>>

Plan(kind) ==
  /\ At("plan")
  /\ wf' = [wf EXCEPT !.pc = "read", !.kind = kind]
  /\ UNCHANGED <<inboxVars, gateVars, portfolio, wave, launches>>

FingerprintWithoutRound == 0

\* The fingerprint of a blocker names the round it was raised in.
Fingerprint == rounds

\* The writing gate asks the operator, or spends the one revision an answer to
\* the blocker of this round authorises.
PlanRevision ==
  /\ rounds < MaxRounds
  /\ gate[Fingerprint] = "answered"
  /\ Plan("revise")

\* Publishing the blocker moves the heads, so the plan is made once more; only a
\* blocker that is already open lets it stand.
RaiseBlocker ==
  /\ At("plan")
  /\ rounds < MaxRounds
  /\ gate[Fingerprint] = "quiet"
  /\ gate' = [gate EXCEPT ![Fingerprint] = "open"]
  /\ UNCHANGED <<inboxVars, rounds, revisions, portfolio, wave, wf, launches>>

\* Every other reason to stop the run is possible too.
Stop ==
  /\ At("plan")
  /\ wf' = Idle
  /\ UNCHANGED <<inboxVars, gateVars, portfolio, wave, launches>>

ReadInbox ==
  /\ At("read")
  /\ wf' = [wf EXCEPT !.pending = Unconsumed,
                      !.pc = IF wf.replay THEN "deliver"
                             ELSE IF wave.linked THEN "commit" ELSE "prepare"]
  /\ UNCHANGED <<inboxVars, gateVars, portfolio, wave, launches>>

\* The dispatch is recorded as planned; a message that came in between does not
\* stop it.  Only the workflow changes the card and the portfolio meanwhile.
Commit ==
  /\ At("commit")
  /\ wave' = [NoWave EXCEPT
       !.kind = wf.kind,
       !.ids = IF wf.kind = "align" THEN AlignmentCard ELSE {},
       !.supersedes = portfolio.id,
       !.linked = FALSE]
  /\ wf' = [wf EXCEPT !.pc = "prepare"]
  /\ UNCHANGED <<inboxVars, gateVars, portfolio, launches>>

\* The context shows what is unconsumed when it is built, which may be more than
\* the step read; it is rebuilt until the heads stand still.
Prepare ==
  /\ At("prepare")
  /\ wf' = [wf EXCEPT !.pc = "deliver", !.knew = Unconsumed, !.policy = Submitted]
  /\ UNCHANGED <<inboxVars, gateVars, portfolio, wave, launches>>

Deliver ==
  /\ At("deliver")
  /\ inbox' = [m \in Messages |->
                 IF m \in wf.pending \cap Unconsumed THEN "processing" ELSE inbox[m]]
  /\ wf' = [wf EXCEPT !.pc = "begin"]
  /\ UNCHANGED <<alignment, gateVars, portfolio, wave, launches>>

\* A session starts, unless the result of an earlier one is at hand.
BeginAlignment ==
  /\ At("begin")
  /\ alignment' = [m \in Messages |->
       IF m \in wave.ids \cap AlignmentCard THEN "processing" ELSE alignment[m]]
  /\ wf' = [wf EXCEPT !.pc = IF wf.replay THEN "merge" ELSE "run"]
  /\ UNCHANGED <<inbox, gateVars, portfolio, wave, launches>>

\* The session ends; its result becomes durable with the context it was given.  One
\* that failed or timed out may have left a patch all the same, which only the count
\* of revisions tells from a patch of one that completed.
Return ==
  /\ At("run")
  /\ \E body \in {"patch", "late", "error"} :
       /\ body = "late" => wave.kind = "revise"
       /\ wave' = [wave EXCEPT !.result = body, !.knew = wf.knew, !.policy = wf.policy]
  /\ wf' = [wf EXCEPT !.pc = "merge"]
  /\ UNCHANGED <<inboxVars, gateVars, portfolio, launches>>

\* A revision is counted by the run of a session that was reported as completed.
Counts == wave.kind = "revise" /\ wave.result = "patch"

PolicyIgnored == TRUE

\* A message submitted since the context was built moved the policy head.
PolicyUnmoved == wave.policy = Submitted

\* The patch of a result is found among the accepted ones, or judged; one that is
\* accepted may carry a portfolio.
Merge ==
  /\ At("merge")
  /\ \E accept \in BOOLEAN :
       /\ wave.landed => accept
       /\ accept => wave.landed \/ (wave.result # "error" /\ PolicyUnmoved)
       /\ wave' = [wave EXCEPT !.landed = accept]
       /\ wf' = [wf EXCEPT !.pc = "link", !.won = accept]
       /\ revisions' = IF accept /\ ~wave.landed /\ Counts
                       THEN revisions + 1 ELSE revisions
       /\ \/ UNCHANGED portfolio
          \/ /\ accept /\ ~wave.landed
             /\ \E p \in Portfolios \ {portfolio.id} :
                  portfolio' = [id |-> p, knew |-> wave.knew \cup wave.ids]
  /\ UNCHANGED <<inboxVars, gate, rounds, launches>>

\* The telemetry is a patch of its own, which a foreign patch may make stale; the
\* result is merged again then, in a later step.
Link ==
  /\ At("link")
  /\ \/ /\ wave' = [wave EXCEPT !.linked = TRUE]
        /\ rounds' = IF Counts /\ wf.won THEN rounds + 1 ELSE rounds
     \/ UNCHANGED <<wave, rounds>>
  /\ wf' = [wf EXCEPT !.pc = "consume"]
  /\ UNCHANGED <<inboxVars, gate, revisions, portfolio, launches>>

\* What is to be consumed: all that is in the inbox when the step ends, or only
\* if the session succeeded, or what the step read when it began.
TakenAtTheEnd == Unconsumed

TakenIfWon == IF wf.won THEN wf.pending \cap Unconsumed ELSE {}

Taken == wf.pending \cap Unconsumed

Consume ==
  /\ At("consume")
  /\ inbox' = [m \in Messages |-> IF m \in Taken THEN "consumed" ELSE inbox[m]]
  /\ alignment' = [m \in Messages |->
       IF m \in Taken /\ alignment[m] # "not_required" THEN "pending" ELSE alignment[m]]
  /\ wf' = [wf EXCEPT !.pc = "complete"]
  /\ UNCHANGED <<gateVars, portfolio, wave, launches>>

\* There is a portfolio, and not the one the wave set out to supersede.
Superseded == portfolio.id \notin {"none", wave.supersedes}

\* The alignment of the wave's directives, and of those the step is complete
\* once an accepted patch brought a new portfolio; otherwise it is retried.
CompleteAlignment ==
  /\ At("complete")
  /\ LET done == IF wave.kind = "align" /\ wf.won /\ Superseded
                 THEN {m \in wave.ids \cup wf.pending : alignment[m] # "not_required"}
                 ELSE {}
     IN alignment' = [m \in Messages |->
                        IF m \in done THEN "completed" ELSE alignment[m]]
  /\ Again
  /\ UNCHANGED <<inbox, gateVars, portfolio, wave, launches>>

\* The process dies; the next launch finds what is durable.
Crash ==
  /\ ~At("off")
  /\ launches < MaxLaunches
  /\ wf' = Idle
  /\ UNCHANGED <<inboxVars, gateVars, portfolio, wave, launches>>
-------------------------------------------------------------------------------
Init ==
  /\ inbox = [m \in Messages |-> "none"]
  /\ alignment = [m \in Messages |-> "not_required"]
  /\ gate = [r \in 0..MaxRounds |-> "quiet"]
  /\ rounds = 0
  /\ revisions = 0
  /\ portfolio = [id |-> "none", knew |-> {}]
  /\ wave = NoWave
  /\ wf = Idle
  /\ launches = 0

Step ==
  \/ Recover \/ ReadInbox \/ Commit \/ Prepare \/ Deliver
  \/ \E kind \in {"work", "align"} : Plan(kind)
  \/ PlanRevision \/ RaiseBlocker \/ Stop
  \/ BeginAlignment \/ Return \/ Merge \/ Link \/ Consume \/ CompleteAlignment

Submit ==
  \E m \in Messages, status \in Requests :
    Direct(m, status) \/ \E r \in 0..MaxRounds : Answer(m, status, r)

Next == Submit \/ Launch \/ Step \/ Crash

Spec == Init /\ [][Next]_vars

\* A process that is scheduled keeps executing, and a session ends: its runner
\* kills it at the timeout.
FairSpec == Spec /\ WF_vars(Step)
-------------------------------------------------------------------------------
Kinds == {"none", "work", "align", "revise"}

Waves ==
  [kind : Kinds, ids : SUBSET Messages, supersedes : Portfolios \cup {"none"},
   knew : SUBSET Messages, policy : SUBSET Messages,
   result : {"none", "patch", "late", "error"}, landed : BOOLEAN, linked : BOOLEAN]

Locals ==
  [pc : {"off", "recover", "plan", "read", "commit", "prepare", "deliver", "begin",
         "run", "merge", "link", "consume", "complete"},
   kind : Kinds, pending : SUBSET Messages,
   knew : SUBSET Messages, policy : SUBSET Messages, replay : BOOLEAN, won : BOOLEAN]

\* Every variable holds a value of its kind.
TypeOK ==
  /\ inbox \in [Messages -> {"none", "queued", "processing", "consumed"}]
  /\ alignment \in [Messages -> {"not_required", "awaiting_processing", "pending",
                                 "processing", "completed"}]
  /\ gate \in [0..MaxRounds -> {"quiet", "open", "answered"}]
  /\ rounds \in 0..MaxRounds
  /\ revisions \in Nat
  /\ portfolio \in [id : Portfolios \cup {"none"}, knew : SUBSET Messages]
  /\ wave \in Waves
  /\ wf \in Locals
  /\ launches \in 0..MaxLaunches

\* A message is consumed by a step whose session was shown it, and a directive is
\* aligned by a portfolio whose author had read it ("Human steering present at
\* step start is injected into this step's agent context", workflow.py), in every
\* step but one that merges the result of a process that died.
Heard ==
  [][\A m \in Messages :
       /\ inbox[m] # "consumed" /\ inbox'[m] = "consumed"
            => m \in wave.knew \/ wf.replay
       /\ alignment[m] # "completed" /\ alignment'[m] = "completed"
            => m \in portfolio.knew \/ wf.replay]_vars

\* No patch lands whose session had not been shown every message then waiting:
\* the policy check of apply_patch against the context the session was given.
NothingUnheardLands ==
  [][~wave.landed /\ wave'.landed => Unconsumed \subseteq wave.knew]_vars

\* An answer of the operator pays for one revision by a session that completes,
\* however often the process dies, or the telemetry is refused, after its patch
\* (_writing_quality_exhausted_action: "spend exactly one human-authorized revision").
OneRevisionPerAnswer ==
  \A r \in 0..MaxRounds : r < revisions => gate[r] = "answered"

\* While a run goes on, a message that waits is eventually taken up, whether the
\* sessions that are shown it succeed or fail.
EventuallyTaken ==
  \A m \in Messages : inbox[m] = "queued" ~> inbox[m] = "consumed" \/ At("off")

\* "it possible for a crash to record a directive without ever delivering it" is
\* what the event journal is to rule out (submit_operator_steering), and a directive
\* "forces a fresh approach-alignment wave" (README): nothing is settled unheard.
NoneLost ==
  [][\A m \in Messages :
       /\ /\ inbox[m] # "consumed" /\ inbox'[m] = "consumed"
          /\ alignment[m] = "not_required"
          => m \in wave.knew
       /\ alignment[m] # "completed" /\ alignment'[m] = "completed"
            => m \in portfolio.knew]_vars
===============================================================================
