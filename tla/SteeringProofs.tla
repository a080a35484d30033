---------------------------- MODULE SteeringProofs ----------------------------
(***************************************************************************)
(* Proofs about Steering, for every set of messages and every bound: what  *)
(* a step consumes was shown to its session, what lands ignores no message *)
(* that waited, and an answer pays for one revision.                       *)
(***************************************************************************)
EXTENDS Steering, TLAPS

\* What the place in the loop says of the latest dispatch.
Control ==
  /\ At("recover") => wf.kind = "none" /\ ~wf.replay
  /\ At("plan") => wave.linked /\ ~wf.replay
  /\ At("read") => (wf.replay <=> ~wave.linked /\ wave.result # "none")
  /\ At("commit") => wave.linked /\ ~wf.replay
  /\ wf.pc \in {"prepare", "run"} =>
       ~wave.linked /\ ~wf.replay /\ wave.result = "none"
  /\ wf.pc \in {"deliver", "begin"} =>
       ~wave.linked /\ (wf.replay <=> wave.result # "none")
  /\ At("merge") => ~wave.linked /\ wave.result # "none" /\ (wf.replay \/ ~wave.landed)
  /\ At("link") => ~wave.linked /\ (wf.won <=> wave.landed)
  /\ wave.result = "none" => ~wave.landed

\* What the step read in the inbox is in the context of its session, and in what
\* the author of a new portfolio had read.
Shown ==
  /\ wf.pc \in {"commit", "prepare"} => wf.pending \subseteq Unconsumed
  /\ wf.pc \in {"deliver", "begin", "run"} /\ ~wf.replay => wf.pending \subseteq wf.knew
  /\ wf.pc \in {"merge", "link", "consume", "complete"} /\ ~wf.replay =>
       wf.pending \subseteq wave.knew
  /\ ~wave.linked /\ ~wave.landed => portfolio.id = wave.supersedes
  /\ /\ wf.pc \in {"link", "consume", "complete"}
     /\ ~wf.replay /\ wf.won /\ Superseded
     => portfolio.knew = wave.knew \cup wave.ids

\* A context shows every message that was submitted before it and still waits.
Judged ==
  /\ wf.policy \subseteq Submitted
  /\ wave.policy \subseteq Submitted
  /\ wf.pc \in {"deliver", "begin", "run"} /\ ~wf.replay =>
       wf.policy \cap Unconsumed \subseteq wf.knew
  /\ wave.result # "none" => wave.policy \cap Unconsumed \subseteq wave.knew

\* A focused revision that has landed and is not yet recorded.
Unrecorded == Counts /\ ~wave.linked /\ wave.landed

\* Every revision was paid for by the answer to the blocker of its own round.
Paid ==
  /\ revisions = IF Unrecorded THEN rounds + 1 ELSE rounds
  /\ \A r \in 0..MaxRounds : r < rounds => gate[r] = "answered"
  /\ \/ wave.kind = "revise" /\ ~wave.linked
     \/ wf.kind = "revise" /\ wf.pc \in {"read", "commit"}
     => rounds < MaxRounds /\ gate[rounds] = "answered"

IInv == TypeOK /\ Control /\ Shown /\ Judged /\ Paid

USE SteeringAssumption
USE DEF Counts, At, Idle, NoWave, Again, inboxVars, gateVars

\* The record a dispatch starts with.
NewWave ==
  [kind |-> wf.kind, ids |-> IF wf.kind = "align" THEN AlignmentCard ELSE {},
   supersedes |-> portfolio.id, knew |-> {}, policy |-> {}, result |-> "none",
   landed |-> FALSE, linked |-> FALSE]

LEMMA CommitWave ==
  ASSUME Commit
  PROVE  wave' = NewWave /\ wf' = [wf EXCEPT !.pc = "prepare"]
BY DEF Commit, NewWave

LEMMA Forgotten ==
  ASSUME Again
  PROVE  wf' \in [pc : {"recover"}, kind : {"none"},
                  pending : SUBSET Messages, knew : SUBSET Messages,
                  policy : SUBSET Messages, replay : BOOLEAN, won : BOOLEAN]
BY DEF Again, Idle

\* Every variable keeps its type.
LEMMA Typed ==
  ASSUME IInv, [Next]_vars
  PROVE  TypeOK'
<1> USE DEF IInv, Kinds
<1>1. ASSUME NEW m \in Messages, NEW status \in Requests, Direct(m, status)
       PROVE  TypeOK'
  <2>1. inbox' \in [Messages -> {"none", "queued", "processing", "consumed"}]
    BY <1>1 DEF TypeOK, Direct, Post
  <2>2. alignment' \in [Messages -> {"not_required", "awaiting_processing", "pending",
                                     "processing", "completed"}]
    BY <1>1 DEF TypeOK, Direct, Post, Requests
  <2>3. gate' \in [0..MaxRounds -> {"quiet", "open", "answered"}]
    BY <1>1 DEF TypeOK, Direct, Post
  <2>4. wf' \in Locals
    BY <1>1 DEF TypeOK, Direct, Post, Locals
  <2> QED BY <1>1, <2>1, <2>2, <2>3, <2>4 DEF TypeOK, Direct, Post
<1>2. ASSUME NEW m \in Messages, NEW status \in Requests, NEW r \in 0..MaxRounds,
              Answer(m, status, r)
       PROVE  TypeOK'
  <2>1. inbox' \in [Messages -> {"none", "queued", "processing", "consumed"}]
    BY <1>2 DEF TypeOK, Answer, Post
  <2>2. alignment' \in [Messages -> {"not_required", "awaiting_processing", "pending",
                                     "processing", "completed"}]
    BY <1>2 DEF TypeOK, Answer, Post, Requests
  <2>3. gate' \in [0..MaxRounds -> {"quiet", "open", "answered"}]
    BY <1>2 DEF TypeOK, Answer, Post
  <2>4. wf' \in Locals
    BY <1>2 DEF TypeOK, Answer, Post, Locals
  <2> QED BY <1>2, <2>1, <2>2, <2>3, <2>4 DEF TypeOK, Answer, Post
<1>3. ASSUME NEW kind \in {"work", "align"}, Plan(kind)  PROVE TypeOK'
  <2>1. wf' \in Locals
    BY <1>3 DEF TypeOK, Plan, Locals
  <2> QED BY <1>3, <2>1 DEF TypeOK, Plan
<1>4. CASE Launch
  <2>1. launches \in 0..MaxLaunches /\ launches < MaxLaunches /\ launches' = launches + 1
    BY <1>4 DEF TypeOK, Launch
  <2>2. launches' \in 0..MaxLaunches
    BY <2>1
  <2>3. wf' \in Locals
    BY <1>4, Forgotten DEF Launch, Locals
  <2> QED BY <1>4, <2>2, <2>3 DEF TypeOK, Launch
<1>5. CASE Recover
  <2>1. CASE wave.linked
    <3>1. wave' = NoWave /\ wf' = [wf EXCEPT !.pc = "plan"]
      BY <1>5, <2>1 DEF Recover
    <3>2. wave' \in Waves /\ wf' \in Locals
      BY <3>1 DEF TypeOK, Waves, Locals
    <3> QED BY <1>5, <3>2 DEF TypeOK, Recover
  <2>2. CASE ~wave.linked
    <3>1. wave' = wave /\ wf' = [wf EXCEPT !.pc = "read", !.replay = wave.result # "none"]
      BY <1>5, <2>2 DEF Recover
    <3>2. wf' \in Locals
      BY <3>1 DEF TypeOK, Locals
    <3> QED BY <1>5, <3>1, <3>2 DEF TypeOK, Recover
  <2> QED BY <2>1, <2>2
<1>6. CASE PlanRevision
  <2>1. wf' \in Locals
    BY <1>6 DEF TypeOK, PlanRevision, Plan, Locals
  <2> QED BY <1>6, <2>1 DEF TypeOK, PlanRevision, Plan
<1>7. CASE RaiseBlocker
  <2>1. gate' \in [0..MaxRounds -> {"quiet", "open", "answered"}]
    BY <1>7 DEF TypeOK, RaiseBlocker, Fingerprint
  <2> QED BY <1>7, <2>1 DEF TypeOK, RaiseBlocker
<1>8. CASE Stop
  BY <1>8 DEF TypeOK, Locals, Stop
<1>9. CASE ReadInbox
  <2>1. wf' \in Locals
    BY <1>9 DEF TypeOK, ReadInbox, Locals, Unconsumed
  <2> QED BY <1>9, <2>1 DEF TypeOK, ReadInbox
<1>10. CASE Commit
  <2>1. wave' = NewWave /\ wf' = [wf EXCEPT !.pc = "prepare"]
    BY <1>10, CommitWave
  <2>2. wave' \in Waves
    BY <2>1 DEF TypeOK, NewWave, Waves, Locals, AlignmentCard
  <2>3. wf' \in Locals
    BY <2>1 DEF TypeOK, Locals
  <2> QED BY <1>10, <2>2, <2>3 DEF TypeOK, Commit
<1>11. CASE Prepare
  BY <1>11 DEF TypeOK, Locals, Prepare, Unconsumed, Submitted
<1>12. CASE Deliver
  BY <1>12 DEF TypeOK, Locals, Deliver, Unconsumed
<1>13. CASE BeginAlignment
  <2>1. alignment' \in [Messages -> {"not_required", "awaiting_processing", "pending",
                                     "processing", "completed"}]
    BY <1>13 DEF TypeOK, BeginAlignment
  <2>2. wf' \in Locals
    BY <1>13 DEF TypeOK, BeginAlignment, Locals
  <2> QED BY <1>13, <2>1, <2>2 DEF TypeOK, BeginAlignment
<1>14. CASE Return
  <2>1. PICK body \in {"patch", "late", "error"} :
          wave' = [wave EXCEPT !.result = body, !.knew = wf.knew, !.policy = wf.policy]
    BY <1>14 DEF Return
  <2>2. wave' \in Waves
    BY <2>1 DEF TypeOK, Waves, Locals
  <2>3. wf' \in Locals
    BY <1>14 DEF TypeOK, Return, Locals
  <2> QED BY <1>14, <2>2, <2>3 DEF TypeOK, Return
<1>15. CASE Merge
  <2>1. PICK accept \in BOOLEAN :
          /\ wave' = [wave EXCEPT !.landed = accept]
          /\ wf' = [wf EXCEPT !.pc = "link", !.won = accept]
    BY <1>15 DEF Merge
  <2>2. wave' \in Waves
    BY <2>1 DEF TypeOK, Waves
  <2>3. wf' \in Locals
    BY <2>1 DEF TypeOK, Locals
  <2>4. revisions' \in Nat
    BY <1>15 DEF TypeOK, Merge
  <2>5. portfolio' \in [id : Portfolios \cup {"none"}, knew : SUBSET Messages]
    BY <1>15 DEF TypeOK, Merge, Waves
  <2> QED BY <1>15, <2>2, <2>3, <2>4, <2>5 DEF TypeOK, Merge
<1>16. CASE Link
  <2>1. rounds' \in 0..MaxRounds
    BY <1>16 DEF TypeOK, Control, Paid, Link
  <2>2. wave' \in Waves
    <3>1. wave' = wave \/ wave' = [wave EXCEPT !.linked = TRUE]
      BY <1>16 DEF Link
    <3>2. wave \in Waves
      BY DEF TypeOK
    <3>3. ASSUME NEW w \in Waves  PROVE [w EXCEPT !.linked = TRUE] \in Waves
      BY DEF Waves
    <3> QED BY <3>1, <3>2, <3>3
  <2>3. wf' \in Locals
    BY <1>16 DEF TypeOK, Locals, Link
  <2> QED BY <1>16, <2>1, <2>2, <2>3 DEF TypeOK, Link
<1>17. CASE Consume
  BY <1>17 DEF TypeOK, Locals, Consume, Taken, Unconsumed
<1>18. CASE CompleteAlignment
  <2>1. wf' \in Locals
    BY <1>18, Forgotten DEF TypeOK, CompleteAlignment, Locals
  <2>2. alignment' \in [Messages -> {"not_required", "awaiting_processing", "pending",
                                     "processing", "completed"}]
    BY <1>18 DEF TypeOK, CompleteAlignment
  <2> QED BY <1>18, <2>1, <2>2 DEF TypeOK, CompleteAlignment
<1>19. CASE Crash
  BY <1>19 DEF TypeOK, Locals, Crash
<1>20. CASE UNCHANGED vars
  BY <1>20 DEF TypeOK, vars
<1> QED BY <1>1, <1>2, <1>3, <1>4, <1>5, <1>6, <1>7, <1>8, <1>9, <1>10, <1>11, <1>12,
   <1>13, <1>14, <1>15, <1>16, <1>17, <1>18, <1>19, <1>20 DEF Next, Submit, Step

\* The place in the loop keeps saying what it says of the latest dispatch.
LEMMA Controlled ==
  ASSUME IInv, [Next]_vars
  PROVE  Control'
<1> USE DEF IInv, Waves, Locals, Kinds
<1>1. ASSUME NEW m \in Messages, NEW status \in Requests, Direct(m, status)
       PROVE  Control'
  BY <1>1 DEF TypeOK, Control, Direct, Post, Requests
<1>2. ASSUME NEW m \in Messages, NEW status \in Requests, NEW r \in 0..MaxRounds,
              Answer(m, status, r)
       PROVE  Control'
  BY <1>2 DEF TypeOK, Control, Answer, Post, Requests
<1>3. ASSUME NEW kind \in {"work", "align"}, Plan(kind)  PROVE Control'
  BY <1>3 DEF TypeOK, Control, Plan
<1>4. CASE Launch
  BY <1>4 DEF TypeOK, Control, Launch
<1>5. CASE Recover
  <2>1. CASE wave.linked
    <3>1. /\ wave' = NoWave /\ wf' = [wf EXCEPT !.pc = "plan"] /\ At("recover")
          /\ UNCHANGED <<inboxVars, gateVars, portfolio, launches>>
      BY <1>5, <2>1 DEF Recover
    <3> QED BY <3>1 DEF TypeOK, Control
  <2>2. CASE ~wave.linked
    <3>1. /\ wf' = [wf EXCEPT !.pc = "read", !.replay = wave.result # "none"]
          /\ At("recover")
          /\ UNCHANGED <<inboxVars, gateVars, portfolio, wave, launches>>
      BY <1>5, <2>2 DEF Recover
    <3>2. wf'.pc = "read" /\ (wf'.replay <=> wave.result # "none")
      BY <3>1 DEF TypeOK
    <3> QED BY <2>2, <3>1, <3>2 DEF TypeOK, Control
  <2> QED BY <2>1, <2>2
<1>6. CASE PlanRevision
  BY <1>6 DEF TypeOK, Control, PlanRevision, Plan
<1>7. CASE RaiseBlocker
  BY <1>7 DEF TypeOK, Control, RaiseBlocker
<1>8. CASE Stop
  BY <1>8 DEF TypeOK, Control, Stop
<1>9. CASE ReadInbox
  BY <1>9 DEF TypeOK, Control, ReadInbox, Unconsumed
<1>10. CASE Commit
  <2>1. wave' = NewWave /\ wf' = [wf EXCEPT !.pc = "prepare"]
    BY <1>10, CommitWave
  <2>2. UNCHANGED <<inboxVars, gateVars, portfolio, launches>> /\ wf.pc = "commit"
    BY <1>10 DEF Commit
  <2> QED BY <2>1, <2>2 DEF TypeOK, Control, NewWave
<1>11. CASE Prepare
  BY <1>11 DEF TypeOK, Control, Prepare, Unconsumed, Submitted
<1>12. CASE Deliver
  BY <1>12 DEF TypeOK, Control, Deliver, Unconsumed
<1>13. CASE BeginAlignment
  <2>1. /\ wf.pc = "begin" /\ UNCHANGED wave
        /\ wf' = [wf EXCEPT !.pc = IF wf.replay THEN "merge" ELSE "run"]
    BY <1>13 DEF BeginAlignment
  <2> QED BY <2>1 DEF TypeOK, Control
<1>14. CASE Return
  BY <1>14 DEF TypeOK, Control, Return
<1>15. CASE Merge
  BY <1>15 DEF TypeOK, Control, Merge, PolicyUnmoved
<1>16. CASE Link
  BY <1>16 DEF TypeOK, Control, Link
<1>17. CASE Consume
  BY <1>17 DEF TypeOK, Control, Consume, Taken, Unconsumed
<1>18. CASE CompleteAlignment
  BY <1>18 DEF TypeOK, Control, CompleteAlignment, Superseded
<1>19. CASE Crash
  BY <1>19 DEF TypeOK, Control, Crash
<1>20. CASE UNCHANGED vars
  BY <1>20 DEF TypeOK, Control, vars
<1> QED BY <1>1, <1>2, <1>3, <1>4, <1>5, <1>6, <1>7, <1>8, <1>9, <1>10, <1>11, <1>12,
   <1>13, <1>14, <1>15, <1>16, <1>17, <1>18, <1>19, <1>20 DEF Next, Submit, Step

\* What the step read stays in what its session was shown.
LEMMA KeptShown ==
  ASSUME IInv, [Next]_vars
  PROVE  Shown'
<1> USE DEF IInv, Waves, Locals, Kinds, Unconsumed, Superseded
<1>1. ASSUME NEW m \in Messages, NEW status \in Requests, Direct(m, status)
       PROVE  Shown'
  BY <1>1 DEF TypeOK, Control, Shown, Direct, Post, Requests
<1>2. ASSUME NEW m \in Messages, NEW status \in Requests, NEW r \in 0..MaxRounds,
              Answer(m, status, r)
       PROVE  Shown'
  BY <1>2 DEF TypeOK, Control, Shown, Answer, Post, Requests
<1>3. ASSUME NEW kind \in {"work", "align"}, Plan(kind)  PROVE Shown'
  BY <1>3 DEF TypeOK, Control, Shown, Plan
<1>4. CASE Launch
  BY <1>4 DEF TypeOK, Control, Shown, Launch
<1>5. CASE Recover
  <2>1. CASE wave.linked
    <3>1. /\ wave' = NoWave /\ wf' = [wf EXCEPT !.pc = "plan"] /\ At("recover")
          /\ UNCHANGED <<inboxVars, gateVars, portfolio, launches>>
      BY <1>5, <2>1 DEF Recover
    <3> QED BY <3>1 DEF TypeOK, Control, Shown
  <2>2. CASE ~wave.linked
    <3>1. /\ wf' = [wf EXCEPT !.pc = "read", !.replay = wave.result # "none"]
          /\ At("recover")
          /\ UNCHANGED <<inboxVars, gateVars, portfolio, wave, launches>>
      BY <1>5, <2>2 DEF Recover
    <3> QED BY <2>2, <3>1 DEF TypeOK, Control, Shown
  <2> QED BY <2>1, <2>2
<1>6. CASE PlanRevision
  BY <1>6 DEF TypeOK, Control, Shown, PlanRevision, Plan
<1>7. CASE RaiseBlocker
  BY <1>7 DEF TypeOK, Control, Shown, RaiseBlocker
<1>8. CASE Stop
  BY <1>8 DEF TypeOK, Control, Shown, Stop
<1>9. CASE ReadInbox
  BY <1>9 DEF TypeOK, Control, Shown, ReadInbox, Unconsumed
<1>10. CASE Commit
  <2>1. wave' = NewWave /\ wf' = [wf EXCEPT !.pc = "prepare"]
    BY <1>10, CommitWave
  <2>2. UNCHANGED <<inboxVars, gateVars, portfolio, launches>> /\ wf.pc = "commit"
    BY <1>10 DEF Commit
  <2> QED BY <2>1, <2>2 DEF TypeOK, Control, Shown, NewWave
<1>11. CASE Prepare
  BY <1>11 DEF TypeOK, Control, Shown, Prepare, Unconsumed, Submitted
<1>12. CASE Deliver
  BY <1>12 DEF TypeOK, Control, Shown, Deliver, Unconsumed
<1>13. CASE BeginAlignment
  <2>1. Unconsumed' = Unconsumed /\ UNCHANGED <<wave, portfolio>>
    BY <1>13 DEF BeginAlignment
  <2>2. /\ wf.pc = "begin"
        /\ wf' = [wf EXCEPT !.pc = IF wf.replay THEN "merge" ELSE "run"]
    BY <1>13 DEF BeginAlignment
  <2> QED BY <2>1, <2>2 DEF TypeOK, Control, Shown
<1>14. CASE Return
  BY <1>14 DEF TypeOK, Control, Shown, Return
<1>15. CASE Merge
  BY <1>15 DEF TypeOK, Control, Shown, Merge, PolicyUnmoved
<1>16. CASE Link
  <2>1. /\ wave'.knew = wave.knew /\ wave'.ids = wave.ids
        /\ wave'.supersedes = wave.supersedes /\ wave'.landed = wave.landed
        /\ ~wave.linked
    BY <1>16 DEF TypeOK, Waves, Control, Link
  <2>2. /\ wf' = [wf EXCEPT !.pc = "consume"]
        /\ UNCHANGED <<inbox, portfolio>>
        /\ wf.pc = "link"
    BY <1>16 DEF Link
  <2>3. /\ Superseded' = Superseded
        /\ wf'.pc = "consume" /\ wf'.pending = wf.pending
        /\ wf'.replay = wf.replay /\ wf'.won = wf.won
    BY <2>1, <2>2 DEF TypeOK, Locals, Superseded
  <2> QED BY <2>1, <2>2, <2>3 DEF Shown
<1>17. CASE Consume
  BY <1>17 DEF TypeOK, Control, Shown, Consume, Taken, Unconsumed
<1>18. CASE CompleteAlignment
  BY <1>18 DEF TypeOK, Control, Shown, CompleteAlignment, Superseded
<1>19. CASE Crash
  BY <1>19 DEF TypeOK, Control, Shown, Crash
<1>20. CASE UNCHANGED vars
  BY <1>20 DEF TypeOK, Control, Shown, vars
<1> QED BY <1>1, <1>2, <1>3, <1>4, <1>5, <1>6, <1>7, <1>8, <1>9, <1>10, <1>11, <1>12,
   <1>13, <1>14, <1>15, <1>16, <1>17, <1>18, <1>19, <1>20 DEF Next, Submit, Step

\* Contexts keep showing what waited when they were built.
LEMMA KeptJudged ==
  ASSUME IInv, [Next]_vars
  PROVE  Judged'
<1> USE DEF IInv, Waves, Locals, Kinds, Submitted, Unconsumed
<1>1. ASSUME NEW m \in Messages, NEW status \in Requests, Direct(m, status)
       PROVE  Judged'
  BY <1>1 DEF TypeOK, Control, Judged, Direct, Post, Requests
<1>2. ASSUME NEW m \in Messages, NEW status \in Requests, NEW r \in 0..MaxRounds,
              Answer(m, status, r)
       PROVE  Judged'
  BY <1>2 DEF TypeOK, Control, Judged, Answer, Post, Requests
<1>3. ASSUME NEW kind \in {"work", "align"}, Plan(kind)  PROVE Judged'
  BY <1>3 DEF TypeOK, Control, Judged, Plan
<1>4. CASE Launch
  BY <1>4 DEF TypeOK, Control, Judged, Launch
<1>5. CASE Recover
  <2>1. CASE wave.linked
    <3>1. /\ wave' = NoWave /\ wf' = [wf EXCEPT !.pc = "plan"] /\ At("recover")
          /\ UNCHANGED <<inboxVars, gateVars, portfolio, launches>>
      BY <1>5, <2>1 DEF Recover
    <3> QED BY <3>1 DEF TypeOK, Control, Judged
  <2>2. CASE ~wave.linked
    <3>1. /\ wf' = [wf EXCEPT !.pc = "read", !.replay = wave.result # "none"]
          /\ At("recover")
          /\ UNCHANGED <<inboxVars, gateVars, portfolio, wave, launches>>
      BY <1>5, <2>2 DEF Recover
    <3> QED BY <2>2, <3>1 DEF TypeOK, Control, Judged
  <2> QED BY <2>1, <2>2
<1>6. CASE PlanRevision
  BY <1>6 DEF TypeOK, Control, Judged, PlanRevision, Plan
<1>7. CASE RaiseBlocker
  BY <1>7 DEF TypeOK, Control, Judged, RaiseBlocker
<1>8. CASE Stop
  BY <1>8 DEF TypeOK, Control, Judged, Stop
<1>9. CASE ReadInbox
  BY <1>9 DEF TypeOK, Control, Judged, ReadInbox, Unconsumed
<1>10. CASE Commit
  <2>1. wave' = NewWave /\ wf' = [wf EXCEPT !.pc = "prepare"]
    BY <1>10, CommitWave
  <2>2. UNCHANGED <<inboxVars, gateVars, portfolio, launches>> /\ wf.pc = "commit"
    BY <1>10 DEF Commit
  <2> QED BY <2>1, <2>2 DEF TypeOK, Control, Judged, NewWave
<1>11. CASE Prepare
  BY <1>11 DEF TypeOK, Control, Judged, Prepare, Unconsumed, Submitted
<1>12. CASE Deliver
  BY <1>12 DEF TypeOK, Control, Judged, Deliver, Unconsumed
<1>13. CASE BeginAlignment
  BY <1>13 DEF TypeOK, Control, Judged, BeginAlignment, AlignmentCard
<1>14. CASE Return
  BY <1>14 DEF TypeOK, Control, Judged, Return
<1>15. CASE Merge
  BY <1>15 DEF TypeOK, Control, Judged, Merge, PolicyUnmoved
<1>16. CASE Link
  <2>1. /\ wave'.policy = wave.policy /\ wave'.knew = wave.knew
        /\ wave'.result = wave.result
    BY <1>16 DEF TypeOK, Link
  <2>2. /\ wf' = [wf EXCEPT !.pc = "consume"]
        /\ UNCHANGED <<inbox, gate>>
    BY <1>16 DEF Link
  <2>3. /\ Submitted' = Submitted /\ Unconsumed' = Unconsumed
        /\ wf'.policy = wf.policy /\ wf'.pc = "consume"
    BY <2>2 DEF TypeOK, Submitted, Unconsumed
  <2> QED BY <2>1, <2>3 DEF Judged
<1>17. CASE Consume
  BY <1>17 DEF TypeOK, Control, Judged, Consume, Taken, Unconsumed
<1>18. CASE CompleteAlignment
  BY <1>18 DEF TypeOK, Control, Judged, CompleteAlignment, Superseded
<1>19. CASE Crash
  BY <1>19 DEF TypeOK, Control, Judged, Crash
<1>20. CASE UNCHANGED vars
  BY <1>20 DEF TypeOK, Control, Judged, vars
<1> QED BY <1>1, <1>2, <1>3, <1>4, <1>5, <1>6, <1>7, <1>8, <1>9, <1>10, <1>11, <1>12,
   <1>13, <1>14, <1>15, <1>16, <1>17, <1>18, <1>19, <1>20 DEF Next, Submit, Step

\* Revisions stay paid for.
LEMMA KeptPaid ==
  ASSUME IInv, [Next]_vars
  PROVE  Paid'
<1> USE DEF IInv, Waves, Locals, Kinds, Unrecorded, Fingerprint
<1>1. ASSUME NEW m \in Messages, NEW status \in Requests, Direct(m, status)
       PROVE  Paid'
  BY <1>1 DEF TypeOK, Control, Paid, Direct, Post, Requests
<1>2. ASSUME NEW m \in Messages, NEW status \in Requests, NEW r \in 0..MaxRounds,
              Answer(m, status, r)
       PROVE  Paid'
  BY <1>2 DEF TypeOK, Control, Paid, Answer, Post, Requests
<1>3. ASSUME NEW kind \in {"work", "align"}, Plan(kind)  PROVE Paid'
  BY <1>3 DEF TypeOK, Control, Paid, Plan
<1>4. CASE Launch
  BY <1>4 DEF TypeOK, Control, Paid, Launch
<1>5. CASE Recover
  <2>1. CASE wave.linked
    <3>1. wave' = NoWave /\ wf'.pc = "plan" /\ UNCHANGED <<gate, rounds, revisions>>
      BY <1>5, <2>1 DEF TypeOK, Recover
    <3> QED BY <2>1, <3>1 DEF TypeOK, Paid
  <2>2. CASE ~wave.linked
    <3>1. /\ wf' = [wf EXCEPT !.pc = "read", !.replay = wave.result # "none"]
          /\ At("recover") /\ UNCHANGED <<gate, rounds, revisions, wave>>
      BY <1>5, <2>2 DEF Recover
    <3>2. wf.kind = "none" /\ wf'.kind = wf.kind
      BY <3>1 DEF TypeOK, Control
    <3> QED BY <3>1, <3>2 DEF Paid
  <2> QED BY <2>1, <2>2
<1>6. CASE PlanRevision
  BY <1>6 DEF TypeOK, Control, Paid, PlanRevision, Plan
<1>7. CASE RaiseBlocker
  BY <1>7 DEF TypeOK, Control, Paid, RaiseBlocker
<1>8. CASE Stop
  BY <1>8 DEF TypeOK, Control, Paid, Stop
<1>9. CASE ReadInbox
  BY <1>9 DEF TypeOK, Control, Paid, ReadInbox, Unconsumed
<1>10. CASE Commit
  <2>1. wave' = NewWave /\ wf' = [wf EXCEPT !.pc = "prepare"]
    BY <1>10, CommitWave
  <2>2. UNCHANGED <<inboxVars, gateVars, portfolio, launches>> /\ wf.pc = "commit"
    BY <1>10 DEF Commit
  <2> QED BY <2>1, <2>2 DEF TypeOK, Control, Paid, NewWave
<1>11. CASE Prepare
  BY <1>11 DEF TypeOK, Control, Paid, Prepare, Unconsumed, Submitted
<1>12. CASE Deliver
  BY <1>12 DEF TypeOK, Control, Paid, Deliver, Unconsumed
<1>13. CASE BeginAlignment
  BY <1>13 DEF TypeOK, Control, Paid, BeginAlignment, AlignmentCard
<1>14. CASE Return
  BY <1>14 DEF TypeOK, Control, Paid, Return
<1>15. CASE Merge
  BY <1>15 DEF TypeOK, Control, Paid, Merge, PolicyUnmoved
<1>16. CASE Link
  BY <1>16 DEF TypeOK, Control, Paid, Link
<1>17. CASE Consume
  BY <1>17 DEF TypeOK, Control, Paid, Consume, Taken, Unconsumed
<1>18. CASE CompleteAlignment
  BY <1>18 DEF TypeOK, Control, Paid, CompleteAlignment, Superseded
<1>19. CASE Crash
  BY <1>19 DEF TypeOK, Control, Paid, Crash
<1>20. CASE UNCHANGED vars
  BY <1>20 DEF TypeOK, Control, Paid, vars
<1> QED BY <1>1, <1>2, <1>3, <1>4, <1>5, <1>6, <1>7, <1>8, <1>9, <1>10, <1>11, <1>12,
   <1>13, <1>14, <1>15, <1>16, <1>17, <1>18, <1>19, <1>20 DEF Next, Submit, Step

\* The invariant is inductive.
LEMMA Inductive == Spec => []IInv
<1>1. Init => IInv
  BY DEF Init, IInv, TypeOK, Waves, Locals, Kinds, Control, Shown, Judged, Paid, Unrecorded, Submitted,
         Unconsumed, Superseded
<1>2. IInv /\ [Next]_vars => IInv'
  BY Typed, Controlled, KeptShown, KeptJudged, KeptPaid DEF IInv
<1> QED BY <1>1, <1>2, PTL DEF Spec
\* Every variable holds a value of its kind (TypeOK), for every set of messages and
\* every bound.
THEOREM TypeCorrect == Spec => []TypeOK
BY Inductive, PTL DEF IInv

\* An answer pays for one revision (OneRevisionPerAnswer), for every number of
\* messages, rounds and launches.
THEOREM PaidOnce == Spec => []OneRevisionPerAnswer
<1>1. IInv => OneRevisionPerAnswer
  BY DEF IInv, TypeOK, Waves, Kinds, Paid, Unrecorded, OneRevisionPerAnswer
<1> QED BY <1>1, Inductive, PTL

\* Only Consume makes a message consumed, and only CompleteAlignment completes an
\* alignment.
LEMMA OnlyConsume ==
  ASSUME IInv, [Next]_vars, ~Consume, NEW m \in Messages,
         inbox[m] # "consumed", inbox'[m] = "consumed"
  PROVE  FALSE
<1> USE DEF IInv, TypeOK
<1>1. CASE Submit
  BY <1>1 DEF Submit, Direct, Answer, Post, Requests
<1>2. CASE Deliver
  BY <1>2 DEF Deliver
<1>3. CASE UNCHANGED inbox
  BY <1>3
<1> QED
  BY <1>1, <1>2, <1>3 DEF Next, Step, vars, Launch, Recover, Plan, PlanRevision,
     RaiseBlocker, Stop, ReadInbox, Commit, Prepare, BeginAlignment, Return,
     Merge, Link, CompleteAlignment, Crash

LEMMA OnlyComplete ==
  ASSUME IInv, [Next]_vars, ~CompleteAlignment, NEW m \in Messages,
         alignment[m] # "completed", alignment'[m] = "completed"
  PROVE  FALSE
<1> USE DEF IInv, TypeOK
<1>1. CASE Submit
  BY <1>1 DEF Submit, Direct, Answer, Post, Requests
<1>2. CASE BeginAlignment
  BY <1>2 DEF BeginAlignment
<1>3. CASE Consume
  BY <1>3 DEF Consume
<1>4. CASE UNCHANGED alignment
  BY <1>4
<1> QED
  BY <1>1, <1>2, <1>3, <1>4 DEF Next, Step, vars, Launch, Recover, Plan, PlanRevision,
     RaiseBlocker, Stop, ReadInbox, Commit, Prepare, Deliver, Return,
     Merge, Link, Crash

\* What a step takes up was shown (Heard): outside a replay the step, its context
\* and the result agree on what was waiting.
THEOREM TakenWereHeard == Spec => Heard
<1> DEFINE P(m) ==
      /\ inbox[m] # "consumed" /\ inbox'[m] = "consumed"
           => m \in wave.knew \/ wf.replay
      /\ alignment[m] # "completed" /\ alignment'[m] = "completed"
           => m \in portfolio.knew \/ wf.replay
<1>1. ASSUME IInv, [Next]_vars, NEW m \in Messages  PROVE P(m)
  <2>1. ASSUME inbox[m] # "consumed", inbox'[m] = "consumed", ~wf.replay
        PROVE  m \in wave.knew
    <3>1. Consume
      BY <1>1, <2>1, OnlyConsume
    <3>2. wf.pending \subseteq wave.knew
      BY <1>1, <2>1, <3>1 DEF IInv, Shown, Consume
    <3> QED BY <2>1, <3>1, <3>2 DEF Consume, Taken
  <2>2. ASSUME alignment[m] # "completed", alignment'[m] = "completed", ~wf.replay
        PROVE  m \in portfolio.knew
    <3>1. CompleteAlignment
      BY <1>1, <2>2, OnlyComplete
    <3>2. /\ wave.kind = "align" /\ wf.won /\ Superseded
          /\ m \in wave.ids \cup wf.pending
      BY <2>2, <3>1 DEF CompleteAlignment
    <3>3. /\ wf.pending \subseteq wave.knew
          /\ portfolio.knew = wave.knew \cup wave.ids
      BY <1>1, <2>2, <3>1, <3>2 DEF IInv, Shown, CompleteAlignment
    <3> QED BY <3>2, <3>3
  <2> QED BY <2>1, <2>2
<1>2. IInv /\ [Next]_vars => [\A m \in Messages : P(m)]_vars
  BY <1>1
<1> QED BY <1>2, Inductive, PTL DEF Spec, Heard

\* Nothing unheard lands (NothingUnheardLands), in live runs and in replays alike.
THEOREM LandsHeard == Spec => NothingUnheardLands
<1>1. ASSUME IInv, [Next]_vars, ~wave.landed, wave'.landed
      PROVE  Unconsumed \subseteq wave.knew
  <2>1. Merge
    <3>1. CASE Commit
      BY <1>1, <3>1 DEF Commit, NoWave
    <3>2. CASE Return
      BY <1>1, <3>2 DEF IInv, TypeOK, Waves, Return
    <3>3. CASE Link
      BY <1>1, <3>3 DEF IInv, TypeOK, Waves, Link
    <3>4. CASE UNCHANGED wave
      BY <1>1, <3>4
    <3> QED
      BY <1>1, <3>1, <3>2, <3>3, <3>4 DEF Next, Step, Submit, vars, Direct, Answer,
         Post, Launch, Recover, Plan, PlanRevision, RaiseBlocker, Stop, ReadInbox,
         Prepare, Deliver, BeginAlignment, Consume, CompleteAlignment, Crash
  <2>2. wave.result # "none" /\ PolicyUnmoved
    BY <1>1, <2>1 DEF IInv, TypeOK, Control, Waves, Merge
  <2>3. Unconsumed \subseteq Submitted
    BY DEF Unconsumed, Submitted
  <2> QED BY <1>1, <2>2, <2>3 DEF IInv, Judged, PolicyUnmoved
<1>2. IInv /\ [Next]_vars => [~wave.landed /\ wave'.landed => Unconsumed \subseteq wave.knew]_vars
  BY <1>1
<1> QED BY <1>2, Inductive, PTL DEF Spec, NothingUnheardLands
===============================================================================
