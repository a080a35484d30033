-------------------------- MODULE PatchCommitProofs --------------------------
(***************************************************************************)
(* Proofs about concurrent patches, for every number of clients, patches,  *)
(* rows, retries and policy events, and with crashes and interrupts.       *)
(*                                                                         *)
(* The heart is RebaseSound: what the assessment finds for the operations  *)
(* of all missed patches taken together holds of every pair of operations. *)
(* Assessed then says that a patch is mergeable with everything between    *)
(* its session's context and its base, however it got there, and Locked    *)
(* that the base of an open transaction is the current revision.           *)
(***************************************************************************)
EXTENDS PatchCommit, TLAPS

Working  == {"apply", "stale", "window", "open", "written"}
Finished == {"idle", "accepted", "rejected", "gone"}

-----------------------------------------------------------------------------
(* The inductive invariant *)

\* A patch is assessed only while it has retries left.
RetriesLeft(c) == client[c].pc \in {"stale", "window"} => client[c].retries < MaxRetries

\* A context was read from a prefix of the history; a result as it came back
\* is based on its context.
ContextRead(c) ==
  /\ client[c].pc \notin Finished => client[c].context <= Revision /\ client[c].policy <= policy
  /\ client[c].pc = "returned" => client[c].base = client[c].context

\* The base of a patch being merged never runs ahead of what was assessed.
Assessed(c) ==
  client[c].pc \in Working =>
    /\ client[c].context <= client[c].base
    /\ client[c].base <= Revision
    /\ \A i \in (client[c].context + 1)..client[c].base :
         Log!Mergeable(log[i].patch, client[c].patch)

\* The revision an assessment has read lies between the base and the present.
WindowRead(c) ==
  client[c].pc = "window" =>
    client[c].base <= client[c].seen /\ client[c].seen <= Revision

\* Who is in a transaction is alone there, at the current revision and policy.
Locked(c) ==
  client[c].pc \in InTransaction =>
    /\ client[c].base = Revision
    /\ PolicyCurrent(c)
    /\ \A d \in Clients : client[d].pc \in InTransaction => d = c

\* Where a client's patch has landed or not.
Whereabouts(c) ==
  /\ client[c].pc \in Working \cup {"idle", "undo", "rejected"} => ~Landed(c)
  /\ c \notin Sessions /\ client[c].pc = "returned" => ~Landed(c)
  /\ client[c].pc \in {"committed", "accepted"} => Landed(c)

ClientInv(c) ==
  /\ RetriesLeft(c) /\ ContextRead(c) /\ Assessed(c)
  /\ WindowRead(c) /\ Locked(c) /\ Whereabouts(c)

PatchInv == TypeOK /\ \A c \in Clients : ClientInv(c)

-----------------------------------------------------------------------------
(* Types *)

\* A client outside of any call has well-typed locals.
LEMMA BlankType ==
  ASSUME NEW outcome \in Finished
  PROVE  Blank(outcome) \in Locals
<1>1. (CHOOSE p \in Patches : TRUE) \in Patches
  BY PatchesAssumption
<1> QED
  BY <1>1, BoundsAssumption DEF Blank, Locals, Finished

\* What is kept of a client across a restart is well-typed.
LEMMA RestartedType ==
  ASSUME TypeOK, NEW c \in Clients
  PROVE  Restarted(c) \in Locals
<1>1. client[c] \in Locals
  BY DEF TypeOK
<1>2. CASE c \in Sessions
  <2>1. 0 \in 0..MaxRetries /\ client[c].context \in Nat
    BY <1>1, BoundsAssumption DEF Locals
  <2>2. [client[c] EXCEPT !.pc = "returned", !.base = client[c].context,
           !.seen = client[c].context, !.retries = 0, !.backup = Untouched] \in Locals
    BY <1>1, <2>1 DEF Locals
  <2> QED
    BY <1>2, <2>2 DEF Restarted
<1>3. CASE c \notin Sessions
  BY <1>3, BlankType DEF Restarted, Finished
<1> QED
  BY <1>2, <1>3

\* Moving a client keeps types.
LEMMA GotoType ==
  ASSUME TypeOK, NEW c \in Clients,
         NEW pc \in Merging \cup Finished \cup {"returned"}, Goto(c, pc)
  PROVE  client' \in [Clients -> Locals]
<1>1. client[c] \in Locals
  BY DEF TypeOK
<1>2. [client[c] EXCEPT !.pc = pc] \in Locals
  BY <1>1 DEF Locals, Finished
<1> QED
  BY <1>2 DEF Goto, TypeOK

\* So does answering it.
LEMMA AnswerType ==
  ASSUME TypeOK, NEW c \in Clients, NEW outcome \in Finished, Answer(c, outcome)
  PROVE  client' \in [Clients -> Locals]
BY BlankType DEF Answer, TypeOK

\* Every step keeps types.
LEMMA TypeStep ==
  ASSUME TypeOK, \A c \in Clients : RetriesLeft(c), [Next]_vars
  PROVE  TypeOK'
<1>1. CASE UNCHANGED vars
  BY <1>1 DEF vars, TypeOK
<1>2. CASE ChangePolicy \/ RequestSoftly
  <2>1. CASE ChangePolicy
    BY <2>1 DEF ChangePolicy, TypeOK
  <2>2. CASE RequestSoftly
    <3>1. soft' \in BOOLEAN
      BY <2>2 DEF RequestSoftly
    <3> QED
      BY <2>2, <3>1 DEF RequestSoftly, TypeOK
  <2> QED
    BY <1>2, <2>1, <2>2
<1>3. ASSUME NEW c \in Clients,
             \/ BuildContext(c) \/ Merge(c) \/ RecognizeAccepted(c) \/ RefuseRecovery(c)
             \/ Attempt(c) \/ Interrupt(c) \/ Crash(c)
      PROVE  TypeOK'
  <2>0. client[c] \in Locals /\ Len(log) \in Nat /\ Revision \in Nat
    BY DEF TypeOK, Revision
  <2> USE DEF Merging, Finished, InTransaction
  <2>1. CASE BuildContext(c)
    <3>1. PICK p \in Answers[c], asks \in SUBSET (IF c \in Sessions THEN Pending ELSE {}) :
            client' = [client EXCEPT ![c] =
              [pc |-> "returned", patch |-> p, context |-> Revision, base |-> Revision,
               seen |-> Revision, policy |-> policy, soft |-> soft, asks |-> asks,
               retries |-> 0, backup |-> Untouched]]
      BY <2>1 DEF BuildContext
    <3>2. p \in Patches /\ asks \in SUBSET Requests
      BY PatchesAssumption DEF Pending
    <3>3. client' \in [Clients -> Locals]
      BY <2>0, <3>1, <3>2, BoundsAssumption DEF TypeOK, Locals
    <3> QED
      BY <2>1, <3>3 DEF BuildContext, TypeOK
  <2>2. CASE \/ ReadRevision(c) \/ Open(c) \/ Rollback(c) \/ Interrupt(c)
    <3>1. CASE ReadRevision(c)
      <4>1. [client[c] EXCEPT !.pc = "window", !.seen = Revision] \in Locals
        BY <2>0 DEF Locals
      <4>2. client' = [client EXCEPT ![c] = [client[c] EXCEPT !.pc = "window", !.seen = Revision]]
        BY <3>1 DEF ReadRevision, TypeOK
      <4> QED
        BY <3>1, <4>1, <4>2 DEF ReadRevision, TypeOK
    <3>2. CASE ~ReadRevision(c)
      <4>1. client' \in [Clients -> Locals]
        BY <2>2, <3>2, GotoType DEF Open, Rollback, Interrupt
      <4> QED
        BY <2>2, <3>2, <4>1 DEF Open, Rollback, Interrupt, TypeOK
    <3> QED
      BY <3>1, <3>2
  <2>3. CASE \/ RecognizeAccepted(c) \/ RefuseRecovery(c) \/ LockTimeout(c)
             \/ RefusePolicy(c) \/ DeclineRebase(c) \/ ForgetFiles(c)
    <3>1. client' \in [Clients -> Locals]
      BY <2>3, AnswerType
      DEF RecognizeAccepted, RefuseRecovery, LockTimeout, RefusePolicy, DeclineRebase,
          ForgetFiles
    <3> QED
      BY <2>3, <3>1
      DEF RecognizeAccepted, RefuseRecovery, LockTimeout, RefusePolicy, DeclineRebase,
          ForgetFiles, TypeOK
  <2>4. CASE RefuseStale(c)
    <3>1. client' \in [Clients -> Locals]
      BY <2>4, GotoType, AnswerType DEF RefuseStale
    <3> QED
      BY <2>4, <3>1 DEF RefuseStale, TypeOK
  <2>5. CASE Rebase(c)
    <3>1. client[c].retries + 1 \in 0..MaxRetries
      BY <2>0, <2>5, BoundsAssumption DEF Rebase, RetriesLeft, Locals
    <3>2. [client[c] EXCEPT !.pc = "apply", !.base = client[c].seen,
                            !.retries = client[c].retries + 1] \in Locals
      BY <2>0, <3>1 DEF Locals
    <3>3. client' = [client EXCEPT ![c] =
            [client[c] EXCEPT !.pc = "apply", !.base = client[c].seen,
                              !.retries = client[c].retries + 1]]
      BY <2>5 DEF Rebase, TypeOK
    <3> QED
      BY <2>5, <3>2, <3>3 DEF Rebase, TypeOK
  <2>6. CASE Operate(c)
    <3>1. CASE ArtifactOf(c) = NoArtifact
      <4>1. Goto(c, "written") /\ UNCHANGED <<log, policy, soft, recorded, files>>
        BY <2>6, <3>1 DEF Operate
      <4>2. client' \in [Clients -> Locals]
        BY <4>1, GotoType
      <4> QED
        BY <4>1, <4>2 DEF TypeOK
    <3>2. CASE ArtifactOf(c) # NoArtifact
      <4>1. ArtifactOf(c) \in Artifacts
        BY <2>0, <3>2, PatchesAssumption DEF ArtifactOf, Locals
      <4>2. [client[c] EXCEPT !.pc = "written", !.backup = files[ArtifactOf(c)]] \in Locals
        BY <2>0, <4>1 DEF Locals, TypeOK
      <4>3. /\ client' = [client EXCEPT ![c] =
                 [client[c] EXCEPT !.pc = "written", !.backup = files[ArtifactOf(c)]]]
            /\ files' = [files EXCEPT ![ArtifactOf(c)] = c]
            /\ UNCHANGED <<log, policy, soft, recorded>>
        BY <2>6, <3>2 DEF Operate, TypeOK
      <4> QED
        BY <4>2, <4>3 DEF TypeOK
    <3> QED
      BY <3>1, <3>2
  <2>7. CASE Commit(c)
    <3>1. client' \in [Clients -> Locals]
      BY <2>7, GotoType DEF Commit
    <3>2. [client |-> c, patch |-> client[c].patch, context |-> client[c].context,
           policy |-> client[c].policy, requests |-> client[c].asks,
           delivered |-> Revision] \in Entries
      BY <2>0 DEF Locals, Entries
    <3>3. log' \in Seq(Entries)
      BY <2>7, <3>2 DEF Commit, TypeOK
    <3>4. recorded' \in [Artifacts -> Clients \cup {Nobody}]
      BY <2>7 DEF Commit, TypeOK
    <3> QED
      BY <2>7, <3>1, <3>3, <3>4 DEF Commit, TypeOK
  <2>8. CASE UndoFiles(c)
    <3>1. Blank("rejected") \in Locals /\ Restarted(c) \in Locals
      BY BlankType, RestartedType
    <3>2. client' \in [Clients -> Locals]
      BY <2>8, <3>1 DEF UndoFiles, TypeOK
    <3>3. files' \in [Artifacts -> Clients \cup {Nobody}]
      BY <2>0, <2>8 DEF UndoFiles, TypeOK, Locals
    <3> QED
      BY <2>8, <3>2, <3>3 DEF UndoFiles, TypeOK
  <2>9. CASE Crash(c)
    <3>1. client' \in [Clients -> Locals]
      BY <2>9, RestartedType DEF Crash, TypeOK
    <3> QED
      BY <2>9, <3>1 DEF Crash, TypeOK
  <2>10. CASE Merge(c)
    <3>1. Authorized(c) \in Locals
      BY <2>0 DEF Authorized, Locals, TypeOK
    <3> QED
      BY <2>10, <3>1 DEF Merge, TypeOK
  <2> QED
    BY <1>3, <2>1, <2>2, <2>3, <2>4, <2>5, <2>6, <2>7, <2>8, <2>9, <2>10 DEF Attempt
<1> QED
  BY <1>1, <1>2, <1>3 DEF Next

-----------------------------------------------------------------------------
(* The assessment of a stale patch *)

\* Whatever the assessment lets pass commutes with the missed operations, one
\* pair at a time: _stale_rebase_assessment accumulates them over all patches.
LEMMA OverlapSound ==
  ASSUME NEW ops \in SUBSET Operation, NEW missed \in SUBSET Operation,
         Overlap(ops, missed) = {},
         NEW a \in missed, NEW b \in ops
  PROVE  Log!Commute(a, b)
<1>1. CASE a.rows \cap b.rows = {}
  BY <1>1 DEF Log!Commute
<1>2. CASE a.rows \cap b.rows # {}
  <2>1. PICK r : r \in a.rows /\ r \in b.rows
    BY <1>2
  <2>2. r \in RowsOf(ops) /\ r \in RowsOf(missed)
    BY <2>1 DEF RowsOf
  <2>3. \/ r \in AppendedRows(ops) \cap AppendedRows(missed)
        \/ \E to \in Statuses : OnlyTransition(ops, r, to) /\ OnlyTransition(missed, r, to)
    BY <2>2 DEF Overlap
  <2>4. CASE r \in AppendedRows(ops) \cap AppendedRows(missed)
    <3>1. b.mode = "append"
      BY <2>1, <2>4 DEF AppendedRows, RowsOf
    <3>2. a.mode = "append"
      BY <2>1, <2>4 DEF AppendedRows, RowsOf
    <3> QED
      BY <3>1, <3>2 DEF Log!Commute
  <2>5. CASE \E to \in Statuses : OnlyTransition(ops, r, to) /\ OnlyTransition(missed, r, to)
    <3>1. PICK to \in Statuses : OnlyTransition(ops, r, to) /\ OnlyTransition(missed, r, to)
      BY <2>5
    <3>2. /\ a.mode = "transition" /\ a.rows = {r} /\ a.to = to
          /\ b.mode = "transition" /\ b.rows = {r} /\ b.to = to
      BY <2>1, <3>1 DEF OnlyTransition
    <3> QED
      BY <2>1, <3>2 DEF Log!Commute
  <2> QED
    BY <2>3, <2>4, <2>5
<1> QED
  BY <1>1, <1>2

\* A journal row names a patch.
LEMMA EntryType ==
  ASSUME TypeOK, NEW i \in 1..Len(log)
  PROVE  log[i].patch \in Patches /\ log[i].requests \subseteq Requests
<1>1. log[i] \in Entries
  BY DEF TypeOK
<1> QED
  BY <1>1 DEF Entries

\* A patch that may be rebased is mergeable with every patch it has missed.
LEMMA RebaseSound ==
  ASSUME TypeOK, NEW p \in Patches, NEW base \in Nat, Rebasable(p, base),
         NEW i \in (base + 1)..Len(log)
  PROVE  Log!Mergeable(log[i].patch, p)
<1>1. Operations[log[i].patch] \subseteq Missed(base)
  BY DEF Missed
<1>2. Missed(base) \in SUBSET Operation
  <2>1. ASSUME NEW j \in (base + 1)..Len(log)
        PROVE  Operations[log[j].patch] \subseteq Operation
    <3>1. j \in 1..Len(log)
      BY DEF TypeOK
    <3> QED
      BY <3>1, EntryType, PatchesAssumption
  <2> QED
    BY <2>1 DEF Missed
<1>3. Operations[p] \in SUBSET Operation
  BY PatchesAssumption
<1>4. ASSUME NEW b \in Operations[p]
      PROVE  b.safe
  BY DEF Rebasable
<1>5. ASSUME NEW a \in Operations[log[i].patch], NEW b \in Operations[p]
      PROVE  a.mode # "other" /\ Log!Commute(a, b)
  BY <1>1, <1>2, <1>3, OverlapSound DEF Rebasable
<1> QED
  BY <1>4, <1>5 DEF Log!Mergeable

-----------------------------------------------------------------------------
(* Steps and the invariant *)

\* What a client does besides committing: nothing to the history.
Quiet(c) ==
  /\ log' = log /\ policy' = policy /\ soft' = soft
  /\ \A d \in Clients \ {c} : client'[d] = client[d]

\* Every step of a client but Commit is quiet.
LEMMA QuietStep ==
  ASSUME TypeOK, NEW c \in Clients,
         \/ BuildContext(c) \/ Merge(c) \/ RecognizeAccepted(c) \/ RefuseRecovery(c)
         \/ Attempt(c) /\ ~Commit(c)
         \/ Interrupt(c) \/ Crash(c)
  PROVE  Quiet(c)
<1> USE DEF Goto, Answer, TypeOK, Quiet
<1>1. CASE BuildContext(c) \/ Merge(c) \/ RecognizeAccepted(c) \/ RefuseRecovery(c)
  BY <1>1 DEF BuildContext, Merge, RecognizeAccepted, RefuseRecovery
<1>2. CASE Interrupt(c) \/ Crash(c)
  BY <1>2 DEF Interrupt, Crash
<1>3. CASE LockTimeout(c) \/ RefusePolicy(c) \/ RefuseStale(c)
  BY <1>3 DEF LockTimeout, RefusePolicy, RefuseStale
<1>4. CASE ReadRevision(c) \/ Rebase(c) \/ DeclineRebase(c)
  BY <1>4 DEF ReadRevision, Rebase, DeclineRebase
<1>5. CASE Open(c) \/ Operate(c) \/ Rollback(c) \/ ForgetFiles(c) \/ UndoFiles(c)
  BY <1>5 DEF Open, Operate, Rollback, ForgetFiles, UndoFiles
<1> QED
  BY <1>1, <1>2, <1>3, <1>4, <1>5 DEF Attempt

\* A commit appends one row for its client, at the end of the history.
LEMMA CommitStep ==
  ASSUME TypeOK, NEW c \in Clients, Commit(c)
  PROVE  /\ policy' = policy /\ soft' = soft
         /\ \A d \in Clients \ {c} : client'[d] = client[d]
         /\ client'[c] = [client[c] EXCEPT !.pc = "committed"]
         /\ Revision' = Revision + 1
         /\ \A i \in 1..Revision : log'[i] = log[i]
         /\ log'[Revision + 1].client = c
<1>1. Len(log) \in Nat /\ log \in Seq(Entries)
  BY DEF TypeOK
<1>2. /\ policy' = policy /\ soft' = soft
      /\ \A d \in Clients \ {c} : client'[d] = client[d]
      /\ client'[c] = [client[c] EXCEPT !.pc = "committed"]
  BY DEF Commit, Goto, TypeOK
<1> DEFINE e == [client |-> c, patch |-> client[c].patch,
                 context |-> client[c].context, policy |-> client[c].policy,
                 requests |-> client[c].asks, delivered |-> Revision]
<1>3. log' = Append(log, e) /\ e.client = c
  BY DEF Commit
<1> HIDE DEF e
<1>4. /\ Len(log') = Len(log) + 1
      /\ log'[Len(log) + 1] = e
      /\ \A i \in 1..Len(log) : log'[i] = log[i]
  BY <1>1, <1>3
<1> QED
  BY <1>2, <1>3, <1>4 DEF Revision

\* Whose patch has landed is changed by a commit, for its client alone.
LEMMA CommitLands ==
  ASSUME TypeOK, NEW c \in Clients, Commit(c)
  PROVE  Landed(c)' /\ \A d \in Clients \ {c} : Landed(d)' <=> Landed(d)
<1>1. Revision \in Nat /\ DOMAIN log = 1..Revision
  BY DEF TypeOK, Revision
<1>2. log' \in Seq(Entries)
  <2>1. client[c] \in Locals /\ Revision \in Nat
    BY <1>1 DEF TypeOK
  <2>2. [client |-> c, patch |-> client[c].patch, context |-> client[c].context,
         policy |-> client[c].policy, requests |-> client[c].asks,
         delivered |-> Revision] \in Entries
    BY <2>1 DEF Locals, Entries
  <2> QED
    BY <2>2 DEF Commit, TypeOK
<1>3. /\ Revision' = Revision + 1
      /\ \A i \in 1..Revision : log'[i] = log[i]
      /\ log'[Revision + 1].client = c
  BY CommitStep
<1>4. Len(log') = Revision + 1
  BY <1>3 DEF Revision
<1>5. DOMAIN log' = 1..(Revision + 1)
  BY <1>2, <1>4
<1>6. Landed(c)'
  <2>1. Revision + 1 \in DOMAIN log'
    BY <1>1, <1>5
  <2>2. \E i \in DOMAIN log' : log'[i].client = c
    BY <1>3, <2>1
  <2> QED
    BY <2>2 DEF Landed
<1>7. ASSUME NEW d \in Clients \ {c}
      PROVE  Landed(d)' <=> Landed(d)
  <2>1. ASSUME NEW i \in DOMAIN log', log'[i].client = d
        PROVE  i \in DOMAIN log /\ log[i].client = d
    <3>1. i \in 1..Revision \/ i = Revision + 1
      BY <1>1, <1>5
    <3>2. i # Revision + 1
      BY <1>3, <2>1
    <3> QED
      BY <1>1, <1>3, <2>1, <3>1, <3>2
  <2>2. ASSUME NEW i \in DOMAIN log, log[i].client = d
        PROVE  i \in DOMAIN log' /\ log'[i].client = d
    BY <1>1, <1>3, <1>5, <2>2
  <2> QED
    BY <2>1, <2>2 DEF Landed
<1> QED
  BY <1>6, <1>7

\* A quiet step disturbs no other client.
LEMMA QuietOthers ==
  ASSUME TypeOK, NEW c \in Clients, Quiet(c), NEW d \in Clients \ {c}
  PROVE  /\ RetriesLeft(d) => RetriesLeft(d)'
         /\ ContextRead(d) => ContextRead(d)'
         /\ Assessed(d) => Assessed(d)'
         /\ WindowRead(d) => WindowRead(d)'
         /\ Whereabouts(d) => Whereabouts(d)'
<1>1. log' = log /\ policy' = policy /\ client'[d] = client[d] /\ Revision' = Revision
  BY DEF Quiet, Revision
<1>2. Landed(d)' <=> Landed(d)
  BY <1>1 DEF Landed
<1> QED
  BY <1>1, <1>2 DEF RetriesLeft, ContextRead, Assessed, WindowRead, Whereabouts

\* Neither does a commit: every other client's base lies in the part of the
\* history that stays.
LEMMA CommitOthers ==
  ASSUME PatchInv, NEW c \in Clients, Commit(c), NEW d \in Clients \ {c}
  PROVE  ClientInv(d)'
<1>0. TypeOK
  BY DEF PatchInv
<1>1. /\ policy' = policy /\ soft' = soft /\ client'[d] = client[d] /\ Revision' = Revision + 1
      /\ \A i \in 1..Revision : log'[i] = log[i]
  BY <1>0, CommitStep
<1>2. Landed(d)' <=> Landed(d)
  BY <1>0, CommitLands
<1>3. client[d] \in Locals /\ Revision \in Nat
  BY <1>0 DEF TypeOK, Revision
<1>4. client[d].pc \notin InTransaction
  BY DEF PatchInv, ClientInv, Locked, Commit, InTransaction
<1>5. RetriesLeft(d)' /\ Whereabouts(d)' /\ Locked(d)'
  BY <1>1, <1>2, <1>4 DEF PatchInv, ClientInv, RetriesLeft, Whereabouts, Locked
<1>6. ContextRead(d)' /\ WindowRead(d)'
  BY <1>1, <1>3 DEF PatchInv, ClientInv, ContextRead, WindowRead, Locals
<1>7. Assessed(d)'
  <2> SUFFICES ASSUME client[d].pc \in Working
               PROVE  /\ client[d].context <= client[d].base
                      /\ client[d].base <= Revision + 1
                      /\ \A i \in (client[d].context + 1)..client[d].base :
                           Log!Mergeable(log'[i].patch, client[d].patch)
    BY <1>1 DEF Assessed
  <2>1. /\ client[d].context <= client[d].base
        /\ client[d].base <= Revision
        /\ \A i \in (client[d].context + 1)..client[d].base :
             Log!Mergeable(log[i].patch, client[d].patch)
    BY DEF PatchInv, ClientInv, Assessed
  <2>2. \A i \in (client[d].context + 1)..client[d].base : i \in 1..Revision
    BY <1>3, <2>1 DEF Locals
  <2> QED
    BY <1>1, <1>3, <2>1, <2>2 DEF Locals
<1> QED
  BY <1>5, <1>6, <1>7 DEF ClientInv

\* A quiet step of c that leaves c outside of a transaction, or finds it in one,
\* disturbs nobody's lock.
LEMMA QuietLocks ==
  ASSUME PatchInv, NEW c \in Clients, Quiet(c),
         client'[c].pc \in InTransaction => client[c].pc \in InTransaction,
         NEW d \in Clients \ {c}
  PROVE  Locked(d)'
<1>1. /\ log' = log /\ policy' = policy /\ soft' = soft /\ Revision' = Revision
      /\ \A e \in Clients \ {c} : client'[e] = client[e]
  BY DEF Quiet, Revision
<1> QED
  BY <1>1 DEF PatchInv, ClientInv, Locked, PolicyCurrent

\* Reading a context, and starting to merge a result.
LEMMA StartOwn ==
  ASSUME PatchInv, NEW c \in Clients, BuildContext(c) \/ Merge(c)
  PROVE  ClientInv(c)' /\ client'[c].pc \notin InTransaction
<1>1. TypeOK /\ ClientInv(c) /\ client[c] \in Locals /\ Revision \in Nat /\ policy \in Nat
  BY DEF PatchInv, TypeOK, Revision
<1>2. Quiet(c)
  BY <1>1, QuietStep
<1>3. Revision' = Revision /\ policy' = policy /\ (Landed(c)' <=> Landed(c)) /\ log' = log
  BY <1>2 DEF Quiet, Revision, Landed
<1>4. CASE BuildContext(c)
  <2>1. /\ client[c].pc = "idle" /\ client'[c].pc = "returned"
        /\ client'[c].context = Revision /\ client'[c].base = Revision
        /\ client'[c].policy = policy
    BY <1>1, <1>4 DEF BuildContext, TypeOK
  <2> QED
    BY <1>1, <1>3, <2>1 DEF ClientInv, RetriesLeft, ContextRead, Assessed, WindowRead, Locked,
         Whereabouts, Working, Finished, InTransaction
<1>5. CASE Merge(c)
  <2>1. client[c].pc = "returned" /\ client'[c] = Authorized(c) /\ ~Landed(c)
    BY <1>1, <1>5 DEF Merge, TakesUp, TypeOK, ClientInv, Whereabouts
  <2>2. client'[c].pc = "apply" /\ client'[c].context = client[c].context
        /\ client'[c].base = client[c].base /\ client'[c].policy = client[c].policy
    BY <1>1, <2>1 DEF Authorized, Locals
  <2>3. client[c].context <= Revision /\ client[c].base = client[c].context
        /\ client[c].policy <= policy
    BY <1>1, <2>1 DEF ClientInv, ContextRead, Finished
  <2>4. \A i \in (client[c].context + 1)..client[c].base : FALSE
    BY <1>1, <2>3 DEF Locals
  <2>5. Assessed(c)'
    BY <1>1, <1>3, <2>2, <2>3, <2>4 DEF Assessed, Locals
  <2>6. RetriesLeft(c)' /\ ContextRead(c)' /\ WindowRead(c)' /\ Locked(c)'
    BY <1>3, <2>2, <2>3 DEF RetriesLeft, ContextRead, WindowRead, Locked, Finished, InTransaction
  <2>7. Whereabouts(c)'
    BY <1>3, <2>1, <2>2 DEF Whereabouts
  <2> QED
    BY <2>2, <2>5, <2>6, <2>7 DEF ClientInv, InTransaction
<1> QED
  BY <1>4, <1>5

\* Coming to an outcome.
LEMMA AnswerOwn ==
  ASSUME PatchInv, NEW c \in Clients, Quiet(c), NEW outcome \in Finished,
         client'[c] = Blank(outcome),
         outcome \in {"idle", "rejected"} => ~Landed(c),
         outcome = "accepted" => Landed(c)
  PROVE  ClientInv(c)' /\ client'[c].pc \notin InTransaction
<1>1. client'[c].pc = outcome
  BY DEF Blank
<1>2. Landed(c)' <=> Landed(c)
  BY DEF Quiet, Landed
<1> QED
  BY <1>1, <1>2 DEF ClientInv, RetriesLeft, ContextRead, Assessed, WindowRead, Locked,
       Whereabouts, Working, Finished, InTransaction

\* A client goes on with the patch, context and base it has.
SameWork(c) ==
  /\ client'[c].patch = client[c].patch
  /\ client'[c].context = client[c].context
  /\ client'[c].base = client[c].base
  /\ client'[c].policy = client[c].policy /\ client'[c].soft = client[c].soft
  /\ client'[c].retries = client[c].retries

\* Goto does.
LEMMA GotoWork ==
  ASSUME TypeOK, NEW c \in Clients, NEW pc, Goto(c, pc)
  PROVE  SameWork(c) /\ client'[c].pc = pc
<1>1. client[c] \in Locals /\ client'[c] = [client[c] EXCEPT !.pc = pc]
  BY DEF TypeOK, Goto
<1> QED
  BY <1>1 DEF Locals, SameWork

\* Moving on with the same patch and base, inside the merge.
LEMMA GotoOwn ==
  ASSUME PatchInv, NEW c \in Clients, Quiet(c),
         NEW pc \in {"stale", "undo", "unwind", "written"},
         client[c].pc \in Merging,
         SameWork(c), client'[c].pc = pc,
         pc = "stale" => client[c].pc = "apply" /\ client[c].retries < MaxRetries,
         pc = "written" => client[c].pc = "open",
         pc = "undo" => client[c].pc \in InTransaction
  PROVE  ClientInv(c)'
<1>1. TypeOK /\ ClientInv(c)
  BY DEF PatchInv
<1>2. /\ Revision' = Revision /\ policy' = policy /\ soft' = soft
      /\ (Landed(c)' <=> Landed(c)) /\ log' = log
      /\ \A d \in Clients \ {c} : client'[d] = client[d]
  BY DEF Quiet, Revision, Landed
<1>3. /\ client'[c].pc = pc /\ client'[c].context = client[c].context
      /\ client'[c].base = client[c].base /\ client'[c].policy = client[c].policy
      /\ client'[c].soft = client[c].soft
      /\ client'[c].retries = client[c].retries /\ client'[c].patch = client[c].patch
  BY DEF SameWork
<1>4. RetriesLeft(c)' /\ WindowRead(c)'
  BY <1>3 DEF RetriesLeft, WindowRead
<1>5. ContextRead(c)'
  BY <1>1, <1>2, <1>3 DEF ClientInv, ContextRead, Finished, Merging
<1>6. Assessed(c)'
  BY <1>1, <1>2, <1>3 DEF ClientInv, Assessed, Working, InTransaction
<1>7. Locked(c)'
  BY <1>1, <1>2, <1>3 DEF ClientInv, Locked, InTransaction, PolicyCurrent
<1>8. Whereabouts(c)'
  BY <1>1, <1>2, <1>3 DEF ClientInv, Whereabouts, Working, InTransaction
<1> QED
  BY <1>4, <1>5, <1>6, <1>7, <1>8 DEF ClientInv

\* A restart: the durable result as it came back, or nothing.
LEMMA RestartOwn ==
  ASSUME PatchInv, NEW c \in Clients, Quiet(c), client[c].pc \in Merging,
         client'[c] = Restarted(c)
  PROVE  ClientInv(c)' /\ client'[c].pc \notin InTransaction
<1>1. CASE c \notin Sessions
  <2>1. client'[c] = Blank("gone")
    BY <1>1 DEF Restarted
  <2> QED
    BY <2>1, AnswerOwn DEF Finished
<1>2. CASE c \in Sessions
  <2>1. client[c] \in Locals /\ ClientInv(c)
    BY DEF PatchInv, TypeOK
  <2>2. /\ client'[c].pc = "returned" /\ client'[c].context = client[c].context
        /\ client'[c].base = client[c].context /\ client'[c].policy = client[c].policy
    BY <1>2, <2>1 DEF Restarted, Locals
  <2>3. Revision' = Revision /\ policy' = policy
    BY DEF Quiet, Revision
  <2>4. client[c].context <= Revision /\ client[c].policy <= policy
    BY <2>1 DEF ClientInv, ContextRead, Finished, Merging
  <2> QED
    BY <1>2, <2>2, <2>3, <2>4 DEF ClientInv, RetriesLeft, ContextRead, Assessed, WindowRead,
         Locked, Whereabouts, Working, Finished, InTransaction
<1> QED
  BY <1>1, <1>2

\* Reading the revision and rebasing.
LEMMA RebaseOwn ==
  ASSUME PatchInv, NEW c \in Clients, ReadRevision(c) \/ Rebase(c)
  PROVE  ClientInv(c)' /\ client'[c].pc \notin InTransaction
<1>1. /\ TypeOK /\ ClientInv(c) /\ client[c] \in Locals /\ Revision \in Nat
      /\ Revision = Len(log)
  BY DEF PatchInv, TypeOK, Revision
<1>2. Revision' = Revision /\ policy' = policy /\ (Landed(c)' <=> Landed(c)) /\ log' = log
  BY DEF ReadRevision, Rebase, Revision, Landed
<1>3. /\ client[c].pc \in {"stale", "window"}
      /\ client[c].context <= Revision /\ client[c].policy <= policy
      /\ client[c].context <= client[c].base /\ client[c].base <= Revision
      /\ \A i \in (client[c].context + 1)..client[c].base :
           Log!Mergeable(log[i].patch, client[c].patch)
      /\ ~Landed(c) /\ client[c].retries < MaxRetries
  BY <1>1 DEF ReadRevision, Rebase, ClientInv, RetriesLeft, ContextRead, Assessed, Whereabouts,
       Working, Finished
<1>4. CASE ReadRevision(c)
  <2>1. /\ client'[c].pc = "window" /\ client'[c].seen = Revision
        /\ client'[c].context = client[c].context /\ client'[c].base = client[c].base
        /\ client'[c].policy = client[c].policy /\ client'[c].patch = client[c].patch
        /\ client'[c].retries = client[c].retries
    BY <1>1, <1>4 DEF ReadRevision, TypeOK, Locals
  <2>2. Assessed(c)'
    BY <1>2, <1>3, <2>1 DEF Assessed
  <2>3. RetriesLeft(c)' /\ ContextRead(c)' /\ WindowRead(c)' /\ Locked(c)' /\ Whereabouts(c)'
    BY <1>1, <1>2, <1>3, <2>1 DEF RetriesLeft, ContextRead, WindowRead, Locked, Whereabouts,
         Working, Finished, InTransaction
  <2> QED
    BY <2>1, <2>2, <2>3 DEF ClientInv, InTransaction
<1>5. CASE Rebase(c)
  <2>1. /\ client'[c].pc = "apply" /\ client'[c].base = client[c].seen
        /\ client'[c].context = client[c].context /\ client'[c].policy = client[c].policy
        /\ client'[c].patch = client[c].patch
    BY <1>1, <1>5 DEF Rebase, TypeOK, Locals
  <2>2. client[c].base <= client[c].seen /\ client[c].seen <= Revision
    BY <1>1, <1>5 DEF Rebase, ClientInv, WindowRead
  <2>3. \A i \in (client[c].base + 1)..Len(log) : Log!Mergeable(log[i].patch, client[c].patch)
    BY <1>1, <1>5, RebaseSound DEF Rebase, Locals
  <2>4. \A i \in (client[c].context + 1)..client[c].seen :
          Log!Mergeable(log[i].patch, client[c].patch)
    <3> SUFFICES ASSUME NEW i \in (client[c].context + 1)..client[c].seen
                 PROVE  Log!Mergeable(log[i].patch, client[c].patch)
      OBVIOUS
    <3>1. \/ i \in (client[c].context + 1)..client[c].base
          \/ i \in (client[c].base + 1)..Len(log)
      BY <1>1, <1>3, <2>2 DEF Locals
    <3> QED
      BY <1>3, <2>3, <3>1
  <2>5. Assessed(c)'
    BY <1>1, <1>2, <1>3, <2>1, <2>2, <2>4 DEF Assessed, Locals
  <2>6. RetriesLeft(c)' /\ ContextRead(c)' /\ WindowRead(c)' /\ Locked(c)' /\ Whereabouts(c)'
    BY <1>1, <1>2, <1>3, <2>1 DEF RetriesLeft, ContextRead, WindowRead, Locked, Whereabouts,
         Working, Finished, InTransaction
  <2> QED
    BY <2>1, <2>5, <2>6 DEF ClientInv, InTransaction
<1> QED
  BY <1>4, <1>5

\* Entering the transaction: nobody else is in one, and the base is current.
LEMMA OpenOwn ==
  ASSUME PatchInv, NEW c \in Clients, Open(c)
  PROVE  /\ ClientInv(c)'
         /\ \A d \in Clients \ {c} : Locked(d)'
<1>1. TypeOK /\ ClientInv(c) /\ SameWork(c) /\ client'[c].pc = "open" /\ Quiet(c)
  BY GotoWork, QuietStep DEF PatchInv, Open, Attempt, Commit
<1>2. /\ Revision' = Revision /\ policy' = policy /\ soft' = soft
      /\ (Landed(c)' <=> Landed(c)) /\ log' = log
      /\ \A d \in Clients \ {c} : client'[d] = client[d]
  BY <1>1 DEF Quiet, Revision, Landed
<1>3. /\ client[c].pc = "apply" /\ client[c].base = Revision /\ PolicyCurrent(c)
      /\ \A d \in Clients : client[d].pc \notin InTransaction
  BY DEF Open, LockFree
<1>4. \A d \in Clients \ {c} : Locked(d)'
  BY <1>2, <1>3 DEF Locked
<1>5. Locked(c)'
  BY <1>1, <1>2, <1>3 DEF Locked, SameWork, PolicyCurrent
<1>6. RetriesLeft(c)' /\ WindowRead(c)'
  BY <1>1 DEF RetriesLeft, WindowRead
<1>7. ContextRead(c)' /\ Assessed(c)'
  BY <1>1, <1>2, <1>3 DEF SameWork, ClientInv, ContextRead, Assessed, Working, Finished
<1>8. Whereabouts(c)'
  BY <1>1, <1>2, <1>3 DEF ClientInv, Whereabouts, Working
<1> QED
  BY <1>4, <1>5, <1>6, <1>7, <1>8 DEF ClientInv

\* The commit itself.
LEMMA CommitOwn ==
  ASSUME PatchInv, NEW c \in Clients, Commit(c)
  PROVE  ClientInv(c)'
<1>1. /\ TypeOK /\ ClientInv(c) /\ client[c] \in Locals /\ Revision \in Nat
      /\ SameWork(c) /\ client'[c].pc = "committed" /\ client[c].pc = "written"
  BY GotoWork DEF PatchInv, TypeOK, Revision, Commit
<1>2. Revision' = Revision + 1 /\ policy' = policy /\ Landed(c)'
  BY <1>1, CommitStep, CommitLands
<1>3. client[c].context <= Revision /\ client[c].policy <= policy
  BY <1>1 DEF ClientInv, ContextRead, Finished
<1>4. ContextRead(c)'
  BY <1>1, <1>2, <1>3 DEF ContextRead, SameWork, Locals
<1> QED
  BY <1>1, <1>2, <1>4 DEF ClientInv, RetriesLeft, Assessed, WindowRead, Locked, Whereabouts,
       Working, InTransaction

\* A step of client c keeps the invariant.
LEMMA ClientStep ==
  ASSUME PatchInv, NEW c \in Clients,
         \/ BuildContext(c) \/ Merge(c) \/ RecognizeAccepted(c) \/ RefuseRecovery(c)
         \/ Attempt(c) \/ Interrupt(c) \/ Crash(c)
  PROVE  \A d \in Clients : ClientInv(d)'
<1>0. TypeOK /\ ClientInv(c)
  BY DEF PatchInv
<1>1. CASE Commit(c)
  BY <1>1, CommitOwn, CommitOthers
<1>2. CASE ~Commit(c)
  <2>1. Quiet(c)
    BY <1>0, <1>2, QuietStep
  <2>2. ASSUME NEW d \in Clients \ {c}
        PROVE  RetriesLeft(d)' /\ ContextRead(d)' /\ Assessed(d)' /\ WindowRead(d)' /\ Whereabouts(d)'
    BY <1>0, <2>1, QuietOthers DEF PatchInv, ClientInv
  <2>3. /\ ClientInv(c)'
        /\ \/ Open(c)
           \/ client'[c].pc \in InTransaction => client[c].pc \in InTransaction
    <3>1. CASE BuildContext(c) \/ Merge(c)
      BY <3>1, StartOwn
    <3>2. CASE ReadRevision(c) \/ Rebase(c)
      BY <3>2, RebaseOwn
    <3>3. CASE Open(c)
      BY <3>3, OpenOwn
    <3>4. CASE RecognizeAccepted(c) \/ ForgetFiles(c)
      <4>1. client'[c] = Blank("accepted") /\ Landed(c)
        BY <1>0, <3>4 DEF RecognizeAccepted, ForgetFiles, Answer, TypeOK, ClientInv, Whereabouts
      <4> QED
        BY <2>1, <4>1, AnswerOwn DEF Finished
    <3>5. CASE \/ RefuseRecovery(c) \/ LockTimeout(c) \/ RefusePolicy(c) \/ DeclineRebase(c)
               \/ RefuseStale(c) /\ Answer(c, "rejected")
               \/ UndoFiles(c) /\ client[c].pc = "undo"
      <4>1. client'[c] = Blank("rejected")
        BY <1>0, <3>5
        DEF RefuseRecovery, LockTimeout, RefusePolicy, DeclineRebase, UndoFiles, Answer, TypeOK
      <4>2. ~Landed(c)
        BY <1>0, <3>5
        DEF RefuseRecovery, LockTimeout, RefusePolicy, DeclineRebase, RefuseStale, ClientInv,
            Whereabouts, Working
      <4> QED
        BY <2>1, <4>1, <4>2, AnswerOwn DEF Finished
    <3>6. CASE RefuseStale(c) /\ ~Answer(c, "rejected")
      <4>1. /\ SameWork(c) /\ client'[c].pc = "stale" /\ client[c].pc = "apply"
            /\ client[c].retries < MaxRetries
        BY <1>0, <3>6, GotoWork DEF RefuseStale
      <4> QED
        BY <2>1, <4>1, GotoOwn DEF Merging, InTransaction
    <3>7. CASE Operate(c)
      <4>1. SameWork(c) /\ client'[c].pc = "written" /\ client[c].pc = "open"
        <5>1. CASE Goto(c, "written")
          BY <1>0, <3>7, <5>1, GotoWork DEF Operate
        <5>2. CASE client' = [client EXCEPT ![c].pc = "written", ![c].backup = files[ArtifactOf(c)]]
          <6>1. client[c] \in Locals
            BY <1>0 DEF TypeOK
          <6>2. client'[c] = [client[c] EXCEPT !.pc = "written", !.backup = files[ArtifactOf(c)]]
            BY <1>0, <5>2 DEF TypeOK
          <6> QED
            BY <3>7, <6>1, <6>2 DEF Operate, Locals, SameWork
        <5> QED
          BY <3>7, <5>1, <5>2 DEF Operate
      <4> QED
        BY <2>1, <4>1, GotoOwn DEF Merging, InTransaction
    <3>8. CASE Rollback(c) \/ Interrupt(c)
      <4>1. /\ SameWork(c) /\ client'[c].pc \in {"undo", "unwind"}
            /\ client'[c].pc = "undo" => client[c].pc \in InTransaction
            /\ client[c].pc \in Merging
        BY <1>0, <3>8, GotoWork DEF Rollback, Interrupt, Merging, InTransaction
      <4> QED
        BY <2>1, <4>1, GotoOwn DEF Merging, InTransaction
    <3>9. CASE Crash(c) \/ (UndoFiles(c) /\ client[c].pc # "undo")
      <4>1. client'[c] = Restarted(c) /\ client[c].pc \in Merging
        BY <1>0, <3>9 DEF Crash, UndoFiles, TypeOK, Merging
      <4> QED
        BY <2>1, <4>1, RestartOwn
    <3> QED
      BY <1>2, <3>1, <3>2, <3>3, <3>4, <3>5, <3>6, <3>7, <3>8, <3>9 DEF Attempt
  <2>4. ASSUME NEW d \in Clients \ {c}
        PROVE  Locked(d)'
    BY <2>1, <2>3, OpenOwn, QuietLocks
  <2> QED
    BY <2>2, <2>3, <2>4 DEF ClientInv
<1> QED
  BY <1>1, <1>2

-----------------------------------------------------------------------------
(* Theorems *)

LEMMA PatchInit == Init => PatchInv
<1> SUFFICES ASSUME Init PROVE PatchInv
  OBVIOUS
<1>1. \A c \in Clients : client[c] = Blank("idle") /\ client[c].pc = "idle"
  BY DEF Init, Blank
<1>2. TypeOK
  <2>1. client \in [Clients -> Locals]
    BY <1>1, BlankType DEF Init, Finished
  <2>2. soft \in BOOLEAN
    BY DEF Init
  <2> QED
    BY <2>1, <2>2 DEF Init, TypeOK
<1>3. \A c \in Clients : ~Landed(c)
  <2>1. DOMAIN log = {}
    BY DEF Init
  <2> QED
    BY <2>1 DEF Landed
<1>4. \A c \in Clients : ClientInv(c)
  BY <1>1, <1>3 DEF ClientInv, RetriesLeft, ContextRead, Assessed, WindowRead, Locked,
       Whereabouts, Working, Finished, InTransaction
<1> QED
  BY <1>2, <1>4 DEF PatchInv

LEMMA PatchStep == PatchInv /\ [Next]_vars => PatchInv'
<1> SUFFICES ASSUME PatchInv, [Next]_vars PROVE PatchInv'
  OBVIOUS
<1>1. TypeOK'
  BY TypeStep DEF PatchInv, ClientInv
<1>2. \A d \in Clients : ClientInv(d)'
  <2>1. CASE UNCHANGED vars
    <3>1. log' = log /\ policy' = policy /\ soft' = soft /\ client' = client
      BY <2>1 DEF vars
    <3> QED
      BY <3>1 DEF PatchInv, ClientInv, RetriesLeft, ContextRead, Assessed, WindowRead, Locked,
           Whereabouts, Landed, Revision, PolicyCurrent
  <2>2. CASE ChangePolicy
    <3>1. log' = log /\ policy' = policy + 1 /\ client' = client /\ policy \in Nat
      BY <2>2 DEF ChangePolicy, PatchInv, TypeOK
    <3>2. \A d \in Clients : client[d].pc \notin InTransaction /\ client[d].policy \in Nat
      BY <2>2 DEF ChangePolicy, LockFree, PatchInv, TypeOK, Locals
    <3>3. Revision' = Revision /\ \A d \in Clients : Landed(d)' <=> Landed(d)
      BY <3>1 DEF Revision, Landed
    <3>4. ASSUME NEW d \in Clients
          PROVE  RetriesLeft(d)' /\ Assessed(d)' /\ WindowRead(d)' /\ Whereabouts(d)'
      BY <3>1, <3>3 DEF PatchInv, ClientInv, RetriesLeft, Assessed, WindowRead, Whereabouts
    <3>5. ASSUME NEW d \in Clients
          PROVE  ContextRead(d)' /\ Locked(d)'
      BY <3>1, <3>2, <3>3 DEF PatchInv, ClientInv, ContextRead, Locked
    <3> QED
      BY <3>4, <3>5 DEF ClientInv
  <2>3. CASE RequestSoftly
    <3>1. log' = log /\ policy' = policy /\ client' = client
      BY <2>3 DEF RequestSoftly
    <3>2. \A d \in Clients : client[d].pc \notin InTransaction
      BY <2>3 DEF RequestSoftly, LockFree
    <3>3. Revision' = Revision /\ \A d \in Clients : Landed(d)' <=> Landed(d)
      BY <3>1 DEF Revision, Landed
    <3> QED
      BY <3>1, <3>2, <3>3 DEF PatchInv, ClientInv, RetriesLeft, ContextRead, Assessed,
           WindowRead, Locked, Whereabouts
  <2>4. ASSUME NEW c \in Clients,
               \/ BuildContext(c) \/ Merge(c) \/ RecognizeAccepted(c) \/ RefuseRecovery(c)
               \/ Attempt(c) \/ Interrupt(c) \/ Crash(c)
        PROVE  \A d \in Clients : ClientInv(d)'
    BY <2>4, ClientStep
  <2> QED
    BY <2>1, <2>2, <2>3, <2>4 DEF Next
<1> QED
  BY <1>1, <1>2 DEF PatchInv

\* Every state has the types of the store and of apply_patch's locals; in
\* particular no patch is retried more often than max_retries.
THEOREM TypeCorrect == Spec => []TypeOK
<1>1. PatchInv => TypeOK
  BY DEF PatchInv
<1> QED
  BY PatchInit, PatchStep, <1>1, PTL DEF Spec

\* A client told `accepted` has its patch in the journal and one told
\* `rejected` has not, with crashes and interrupts anywhere in apply_patch.
THEOREM TruthfulAnswers == Spec => []AnsweredTruthfully
<1>1. PatchInv => AnsweredTruthfully
  BY DEF PatchInv, ClientInv, Whereabouts, AnsweredTruthfully
<1> QED
  BY PatchInit, PatchStep, <1>1, PTL DEF Spec

\* A commit is a step of the serial log: the base of the open patch is the
\* current revision, and everything up to the base was assessed.
LEMMA CommitImplements ==
  ASSUME PatchInv, NEW c \in Clients, Commit(c)
  PROVE  Log!Land(c)
<1>1. /\ TypeOK /\ ClientInv(c) /\ client[c] \in Locals /\ Revision \in Nat
      /\ client[c].pc = "written" /\ Revision = Len(log)
  BY DEF PatchInv, TypeOK, Revision, Commit
<1>2. ~Log!Landed(c)
  BY DEF Commit, Landed, Log!Landed
<1>3. Log!Landed(c)'
  BY <1>1, CommitLands DEF Landed, Log!Landed
<1>4. /\ client[c].patch \in Patches
      /\ client[c].context \in 0..Len(log)
      /\ client[c].policy \in 0..policy
      /\ client[c].asks \in SUBSET (Requests \ Log!Delivered)
  <2>1. client[c].asks \subseteq Pending
    BY DEF Commit
  <2>2. client[c].context <= Revision /\ client[c].policy <= policy
    BY <1>1 DEF ClientInv, ContextRead, Finished
  <2>3. policy \in Nat /\ client[c].policy \in Nat /\ client[c].context \in Nat
    BY <1>1 DEF TypeOK, Locals
  <2> QED
    BY <1>1, <2>1, <2>2, <2>3 DEF Pending, Log!Delivered, Locals
<1>5. c \in Sessions => client[c].policy = policy
  BY <1>1 DEF ClientInv, Locked, InTransaction, PolicyCurrent
<1>6. \A i \in (client[c].context + 1)..Len(log) :
        Log!Mergeable(log[i].patch, client[c].patch)
  BY <1>1 DEF ClientInv, Locked, Assessed, InTransaction, Working
<1>7. /\ log' = Append(log, [client |-> c, patch |-> client[c].patch,
                             context |-> client[c].context, policy |-> client[c].policy,
                             requests |-> client[c].asks, delivered |-> Len(log)])
      /\ policy' = policy
  BY <1>1 DEF Commit
<1> QED
  BY <1>2, <1>3, <1>4, <1>5, <1>6, <1>7 DEF Log!Land

\* apply_patch with its stale retry implements the serial log: every patch that
\* lands was mergeable with all that landed since its session read the store.
THEOREM SerialHistoryHolds == Spec => SerialHistory
<1>1. Init => Log!Init
  BY DEF Init, Log!Init
<1>2. PatchInv /\ [Next]_vars => [Log!Next]_(Log!vars)
  <2> SUFFICES ASSUME PatchInv, [Next]_vars PROVE [Log!Next]_(Log!vars)
    OBVIOUS
  <2>1. CASE UNCHANGED vars
    BY <2>1 DEF vars, Log!vars
  <2>2. CASE ChangePolicy
    BY <2>2 DEF ChangePolicy, Log!Next, Log!ChangePolicy
  <2>3. CASE RequestSoftly
    BY <2>3 DEF RequestSoftly, Log!vars
  <2>4. ASSUME NEW c \in Clients,
               \/ BuildContext(c) \/ Merge(c) \/ RecognizeAccepted(c) \/ RefuseRecovery(c)
               \/ Attempt(c) \/ Interrupt(c) \/ Crash(c)
        PROVE  [Log!Next]_(Log!vars)
    <3>1. CASE Commit(c)
      BY <3>1, CommitImplements DEF Log!Next
    <3>2. CASE ~Commit(c)
      BY <2>4, <3>2, QuietStep DEF PatchInv, Quiet, Log!vars
    <3> QED
      BY <3>1, <3>2
  <2> QED
    BY <2>1, <2>2, <2>3, <2>4 DEF Next
<1> QED
  BY PatchInit, PatchStep, <1>1, <1>2, PTL DEF Spec, SerialHistory, Log!Spec

-----------------------------------------------------------------------------
(* The files of the recorded artifacts.  The file journal is undone after the
   database has let go of its lock, so this needs more than the lock. *)

\* The artifact at `a` was recorded by a patch after revision `base`.
RecordedSince(a, base) ==
  \E i \in (base + 1)..Revision : log[i].client = recorded[a]

\* What a file is to be put back over was not recorded when the patch that holds
\* its backup opened its transaction.
Captured(c) ==
  client[c].backup # Untouched =>
    /\ client[c].pc \in {"written", "committed", "undo", "unwind"}
    /\ ArtifactOf(c) \in Artifacts
    /\ client[c].base <= Revision
    /\ recorded[ArtifactOf(c)] = Nobody \/ RecordedSince(ArtifactOf(c), client[c].base)

FileInv == \A c \in Clients : Captured(c)

\* A quiet step that leaves the records alone owes its own client.
LEMMA CapturedQuiet ==
  ASSUME FileInv, NEW c \in Clients, Quiet(c), recorded' = recorded, Captured(c)'
  PROVE  FileInv'
<1>1. ASSUME NEW d \in Clients \ {c}
      PROVE  Captured(d)'
  <2>1. client'[d] = client[d] /\ log' = log /\ Captured(d)
    BY DEF Quiet, FileInv
  <2> QED
    BY <2>1 DEF Captured, ArtifactOf, RecordedSince, Revision
<1> QED
  BY <1>1 DEF FileInv

\* It does, if it drops the backup or keeps it on the way from the commit or the
\* operations to the undo.
LEMMA CapturedKept ==
  ASSUME FileInv, NEW c \in Clients, Quiet(c), recorded' = recorded,
         \/ client'[c].backup = Untouched
         \/ /\ client'[c].patch = client[c].patch /\ client'[c].backup = client[c].backup
            /\ client'[c].base = client[c].base
            /\ client[c].backup = Untouched \/ client'[c].pc \in {"undo", "unwind"}
  PROVE  FileInv'
<1>1. Captured(c) /\ log' = log
  BY DEF FileInv, Quiet
<1>2. Captured(c)'
  BY <1>1 DEF Captured, ArtifactOf, RecordedSince, Revision
<1> QED
  BY <1>2, CapturedQuiet

\* A file is replaced only if its artifact is not recorded.
LEMMA CapturedByOperate ==
  ASSUME PatchInv, FileInv, NEW c \in Clients, Operate(c)
  PROVE  FileInv'
<1>1. /\ TypeOK /\ ClientInv(c) /\ client[c] \in Locals /\ client[c].pc = "open"
      /\ Revision \in Nat /\ Captured(c)
  BY DEF PatchInv, TypeOK, Operate, FileInv, Revision
<1>2. Quiet(c) /\ recorded' = recorded
  BY <1>1, QuietStep DEF Attempt, Operate, Commit
<1>3. client[c].backup = Untouched /\ client[c].base = Revision
  BY <1>1 DEF Captured, ClientInv, Locked, InTransaction
<1>4. CASE ArtifactOf(c) = NoArtifact
  <2>1. client'[c] = [client[c] EXCEPT !.pc = "written"]
    BY <1>1, <1>4 DEF Operate, Goto, TypeOK
  <2>2. client'[c].backup = Untouched
    BY <1>1, <1>3, <2>1 DEF Locals
  <2> QED
    BY <1>2, <2>2, CapturedKept
<1>5. CASE ArtifactOf(c) # NoArtifact
  <2>1. ArtifactOf(c) \in Artifacts /\ recorded[ArtifactOf(c)] = Nobody
    BY <1>1, <1>5, PatchesAssumption DEF ArtifactOf, Locals, Operate
  <2>2. client'[c] = [client[c] EXCEPT !.pc = "written", !.backup = files[ArtifactOf(c)]]
    BY <1>1, <1>5 DEF Operate, TypeOK
  <2>3. /\ client'[c].pc = "written" /\ client'[c].patch = client[c].patch
        /\ client'[c].base = Revision
    BY <1>1, <1>3, <2>2 DEF Locals
  <2>4. Revision' = Revision
    BY <1>2 DEF Quiet, Revision
  <2>5. Captured(c)'
    BY <1>1, <1>2, <2>1, <2>3, <2>4 DEF Captured, ArtifactOf
  <2> QED
    BY <1>2, <2>5, CapturedQuiet
<1> QED
  BY <1>4, <1>5

\* What a commit records, it records after every backup that is still held.
LEMMA CapturedByCommit ==
  ASSUME PatchInv, FileInv, NEW c \in Clients, Commit(c)
  PROVE  FileInv'
<1>1. /\ TypeOK /\ ClientInv(c) /\ client[c] \in Locals /\ client[c].pc = "written"
      /\ Revision \in Nat
  BY DEF PatchInv, TypeOK, Commit, Revision
<1>2. /\ \A d \in Clients \ {c} : client'[d] = client[d]
      /\ client'[c] = [client[c] EXCEPT !.pc = "committed"]
      /\ Revision' = Revision + 1
      /\ \A i \in 1..Revision : log'[i] = log[i]
      /\ log'[Revision + 1].client = c
  BY <1>1, CommitStep
<1>3. recorded' = IF ArtifactOf(c) = NoArtifact THEN recorded
                  ELSE [recorded EXCEPT ![ArtifactOf(c)] = c]
  BY DEF Commit
<1>4. ASSUME NEW d \in Clients
      PROVE  Captured(d)'
  <2>1. /\ client[d] \in Locals /\ client[d].base \in Nat /\ Captured(d)
        /\ client'[d].backup = client[d].backup /\ client'[d].base = client[d].base
        /\ client'[d].patch = client[d].patch
        /\ client'[d].pc = IF d = c THEN "committed" ELSE client[d].pc
    BY <1>1, <1>2 DEF TypeOK, Locals, FileInv
  <2> SUFFICES ASSUME client[d].backup # Untouched
               PROVE  Captured(d)'
    BY <2>1 DEF Captured
  <2> DEFINE a == ArtifactOf(d)
             base == client[d].base
  <2>2. /\ client[d].pc \in {"written", "committed", "undo", "unwind"}
        /\ a \in Artifacts /\ base \in Nat /\ base <= Revision
        /\ recorded[a] = Nobody \/ RecordedSince(a, base)
    BY <2>1 DEF Captured
  <2>3. ArtifactOf(d)' = a
    BY <2>1 DEF ArtifactOf
  <2> HIDE DEF a, base
  <2>4. ASSUME recorded'[a] = c
        PROVE  \E i \in (base + 1)..Revision' : log'[i].client = recorded'[a]
    <3>1. Revision + 1 \in (base + 1)..(Revision + 1)
      BY <1>1, <2>2
    <3> QED
      BY <1>2, <2>4, <3>1
  <2>5. ASSUME recorded'[a] = recorded[a], RecordedSince(a, base)
        PROVE  \E i \in (base + 1)..Revision' : log'[i].client = recorded'[a]
    <3>1. PICK i \in (base + 1)..Revision : log[i].client = recorded[a]
      BY <2>5 DEF RecordedSince
    <3>2. i \in 1..Revision /\ i \in (base + 1)..(Revision + 1)
      BY <1>1, <2>2
    <3> QED
      BY <1>2, <2>5, <3>1, <3>2
  <2>6. recorded'[a] = c \/ recorded'[a] = recorded[a]
    BY <1>1, <1>3, <2>2 DEF TypeOK
  <2>7. recorded'[a] = Nobody \/ \E i \in (base + 1)..Revision' : log'[i].client = recorded'[a]
    BY <2>2, <2>4, <2>5, <2>6
  <2>8. base <= Revision'
    BY <1>1, <1>2, <2>2
  <2>9. client'[d].base = base /\ client'[d].pc \in {"written", "committed", "undo", "unwind"}
    BY <2>1, <2>2 DEF base
  <2> QED
    BY <2>2, <2>3, <2>7, <2>8, <2>9 DEF Captured, RecordedSince
<1> QED
  BY <1>4 DEF FileInv

\* Neither a restart nor an answer leaves a backup behind.
LEMMA Released ==
  ASSUME NEW c \in Clients, client[c] \in Locals,
         NEW next \in {Restarted(c), Blank("rejected")}
  PROVE  next.backup = Untouched /\ next.pc \in {"returned", "gone", "rejected"}
<1>1. CASE next = Restarted(c) /\ c \in Sessions
  BY <1>1 DEF Restarted, Locals
<1>2. CASE next = Restarted(c) /\ c \notin Sessions
  BY <1>2 DEF Restarted, Blank
<1>3. CASE next = Blank("rejected")
  BY <1>3 DEF Blank
<1> QED
  BY <1>1, <1>2, <1>3

\* Every step of a client keeps its backup accounted for.
LEMMA CapturedStep ==
  ASSUME PatchInv, FileInv, NEW c \in Clients,
         \/ BuildContext(c) \/ Merge(c) \/ RecognizeAccepted(c) \/ RefuseRecovery(c)
         \/ Attempt(c) \/ Interrupt(c) \/ Crash(c)
  PROVE  FileInv'
<1>0. TypeOK /\ client[c] \in Locals /\ Captured(c)
  BY DEF PatchInv, TypeOK, FileInv
<1>1. CASE Operate(c) \/ Commit(c)
  BY <1>1, CapturedByOperate, CapturedByCommit
<1>2. CASE ~Operate(c) /\ ~Commit(c)
  <2>1. Quiet(c)
    BY <1>0, <1>2, QuietStep
  <2>2. recorded' = recorded
    BY <1>2 DEF BuildContext, Merge, RecognizeAccepted, RefuseRecovery, Attempt, LockTimeout,
         RefusePolicy, RefuseStale, ReadRevision, Rebase, DeclineRebase, Open, Rollback,
         ForgetFiles, UndoFiles, Interrupt, Crash
  <2>3. CASE BuildContext(c)
    <3>1. client'[c].backup = Untouched
      BY <1>0, <2>3 DEF BuildContext, TypeOK
    <3> QED
      BY <2>1, <2>2, <3>1, CapturedKept
  <2>4. CASE \E outcome : Answer(c, outcome)
    <3>1. client'[c].backup = Untouched
      BY <1>0, <2>4 DEF Answer, Blank, TypeOK
    <3> QED
      BY <2>1, <2>2, <3>1, CapturedKept
  <2>5. CASE \/ RecognizeAccepted(c) \/ RefuseRecovery(c) \/ LockTimeout(c) \/ RefusePolicy(c)
             \/ DeclineRebase(c) \/ ForgetFiles(c) \/ (RefuseStale(c) /\ Answer(c, "rejected"))
    BY <2>4, <2>5 DEF RecognizeAccepted, RefuseRecovery, LockTimeout, RefusePolicy,
         DeclineRebase, ForgetFiles
  <2>6. CASE UndoFiles(c) \/ Crash(c)
    <3>1. client'[c] \in {Restarted(c), Blank("rejected")}
      BY <1>0, <2>6 DEF UndoFiles, Crash, TypeOK
    <3>2. client'[c].backup = Untouched
      BY <1>0, <3>1, Released
    <3> QED
      BY <2>1, <2>2, <3>2, CapturedKept
  <2>7. CASE Merge(c) \/ Open(c) \/ ReadRevision(c) \/ Rebase(c)
             \/ (RefuseStale(c) /\ Goto(c, "stale"))
    <3>1. client[c].backup = Untouched
      BY <1>0, <2>7 DEF Captured, Merge, TakesUp, Open, ReadRevision, Rebase, RefuseStale
    <3>2. client'[c].backup = Untouched
      <4>1. CASE Merge(c)
        <5>1. client'[c] = Authorized(c)
          BY <1>0, <4>1 DEF Merge, TypeOK
        <5>2. Authorized(c).backup = client[c].backup
          BY <1>0 DEF Authorized, Locals
        <5> QED
          BY <3>1, <5>1, <5>2
      <4>2. CASE Open(c) \/ (RefuseStale(c) /\ Goto(c, "stale"))
        <5>1. \E pc \in {"open", "stale"} : client'[c] = [client[c] EXCEPT !.pc = pc]
          BY <1>0, <4>2 DEF Open, RefuseStale, Goto, TypeOK
        <5> QED
          BY <1>0, <3>1, <5>1 DEF Locals
      <4>3. CASE ReadRevision(c)
        <5>1. client'[c] = [client[c] EXCEPT !.pc = "window", !.seen = Revision]
          BY <1>0, <4>3 DEF ReadRevision, TypeOK
        <5> QED
          BY <1>0, <3>1, <5>1 DEF Locals
      <4>4. CASE Rebase(c)
        <5>1. client'[c] = [client[c] EXCEPT !.pc = "apply", !.base = client[c].seen,
                                             !.retries = @ + 1]
          BY <1>0, <4>4 DEF Rebase, TypeOK
        <5> QED
          BY <1>0, <3>1, <5>1 DEF Locals
      <4> QED
        BY <2>7, <4>1, <4>2, <4>3, <4>4
    <3> QED
      BY <2>1, <2>2, <3>2, CapturedKept
  <2>8. CASE Rollback(c) \/ Interrupt(c)
    <3>1. \E pc \in {"undo", "unwind"} : client'[c] = [client[c] EXCEPT !.pc = pc]
      BY <1>0, <2>8 DEF Rollback, Interrupt, Goto, TypeOK
    <3>2. /\ client'[c].patch = client[c].patch /\ client'[c].backup = client[c].backup
          /\ client'[c].base = client[c].base /\ client'[c].pc \in {"undo", "unwind"}
      BY <1>0, <3>1 DEF Locals
    <3> QED
      BY <2>1, <2>2, <3>2, CapturedKept
  <2>9. \/ BuildContext(c) \/ RecognizeAccepted(c) \/ RefuseRecovery(c) \/ LockTimeout(c)
        \/ RefusePolicy(c) \/ DeclineRebase(c) \/ ForgetFiles(c) \/ UndoFiles(c) \/ Crash(c)
        \/ Merge(c) \/ Open(c) \/ ReadRevision(c) \/ Rebase(c)
        \/ (RefuseStale(c) /\ Goto(c, "stale")) \/ (RefuseStale(c) /\ Answer(c, "rejected"))
        \/ Rollback(c) \/ Interrupt(c)
    BY <1>2 DEF Attempt, RefuseStale
  <2> QED
    BY <2>3, <2>5, <2>6, <2>7, <2>8, <2>9
<1> QED
  BY <1>1, <1>2

\* What was recorded before a patch opened its transaction keeps its file against
\* that patch: a recorded artifact loses its file to an undo of the file journal
\* only, and to that of a patch opened before the artifact was recorded
\* (_ArtifactFileJournal, patches.py), with signals and crashes anywhere.
THEOREM OldRecordsKept == Spec => OldRecordsSurvive
<1>1. Init => FileInv
  BY DEF Init, FileInv, Captured, Blank
<1>2. PatchInv /\ FileInv /\ [Next]_vars => FileInv'
  <2> SUFFICES ASSUME PatchInv, FileInv, [Next]_vars PROVE FileInv'
    OBVIOUS
  <2>1. CASE UNCHANGED vars \/ ChangePolicy \/ RequestSoftly
    <3>1. client' = client /\ log' = log /\ recorded' = recorded
      BY <2>1 DEF vars, ChangePolicy, RequestSoftly
    <3> QED
      BY <3>1 DEF FileInv, Captured, ArtifactOf, RecordedSince, Revision
  <2>2. ASSUME NEW c \in Clients,
               \/ BuildContext(c) \/ Merge(c) \/ RecognizeAccepted(c) \/ RefuseRecovery(c)
               \/ Attempt(c) \/ Interrupt(c) \/ Crash(c)
        PROVE  FileInv'
    BY <2>2, CapturedStep
  <2> QED
    BY <2>1, <2>2 DEF Next
<1>3. ASSUME PatchInv, FileInv, [Next]_vars, NEW a \in Artifacts,
             recorded[a] # Nobody, files[a] = recorded[a], files'[a] # recorded'[a]
      PROVE  \E c \in Clients : Undoing(c) /\ RecordedSince(a, client[c].base)
  <2>1. ASSUME NEW c \in Clients, Commit(c)
        PROVE  FALSE
    <3>1. files' = files /\ Intact(recorded')
      BY <2>1 DEF Commit
    <3>2. recorded'[a] # Nobody
      <4>1. TypeOK /\ Nobody \notin Clients
        BY <1>3, NamesAssumption DEF PatchInv
      <4> QED
        BY <1>3, <2>1, <4>1 DEF Commit, TypeOK
    <3> QED
      BY <1>3, <3>1, <3>2 DEF Intact
  <2>2. ASSUME NEW c \in Clients, Operate(c)
        PROVE  FALSE
    <3>1. recorded' = recorded /\ files \in [Artifacts -> Clients \cup {Nobody}]
      BY <1>3, <2>2 DEF Operate, PatchInv, TypeOK
    <3>2. \/ files' = files
          \/ recorded[ArtifactOf(c)] = Nobody /\ files' = [files EXCEPT ![ArtifactOf(c)] = c]
      BY <2>2 DEF Operate
    <3> QED
      BY <1>3, <3>1, <3>2
  <2>3. ASSUME UNCHANGED <<files, recorded>>
        PROVE  FALSE
    BY <1>3, <2>3
  <2>4. CASE \E c \in Clients : UndoFiles(c)
    <3>1. PICK c \in Clients : UndoFiles(c)
      BY <2>4
    <3>2. TypeOK /\ client[c] \in Locals /\ Captured(c)
          /\ client[c].pc \in {"undo", "unwind"} /\ recorded' = recorded
      BY <1>3, <3>1 DEF PatchInv, TypeOK, FileInv, UndoFiles
    <3>3. client[c].backup # Untouched /\ a = ArtifactOf(c)
      BY <1>3, <3>1, <3>2 DEF UndoFiles, TypeOK
    <3>4. RecordedSince(a, client[c].base)
      BY <1>3, <3>2, <3>3 DEF Captured
    <3>5. client'[c] \in {Restarted(c), Blank("rejected")}
      BY <3>1, <3>2 DEF UndoFiles, TypeOK
    <3>6. client'[c].pc \in {"returned", "gone", "rejected"}
      BY <3>2, <3>5, Released
    <3>7. Undoing(c)
      BY <3>2, <3>6 DEF Undoing
    <3> QED
      BY <3>4, <3>7
  <2>5. \/ \E c \in Clients : Commit(c) \/ Operate(c) \/ UndoFiles(c)
        \/ UNCHANGED <<files, recorded>>
    BY <1>3 DEF Next, vars, ChangePolicy, RequestSoftly, BuildContext, Merge, RecognizeAccepted,
         RefuseRecovery, Attempt, LockTimeout, RefusePolicy, RefuseStale, ReadRevision, Rebase,
         DeclineRebase, Open, Rollback, ForgetFiles, Interrupt, Crash
  <2> QED
    BY <2>1, <2>2, <2>3, <2>4, <2>5
<1>4. PatchInv /\ FileInv /\ [Next]_vars =>
        [\A a \in Artifacts :
           recorded[a] # Nobody /\ files[a] = recorded[a] /\ files'[a] # recorded'[a]
           => \E c \in Clients :
                /\ Undoing(c)
                /\ \E i \in (client[c].base + 1)..Revision : log[i].client = recorded[a]]_vars
  BY <1>3 DEF RecordedSince
<1> QED
  BY PatchInit, PatchStep, <1>1, <1>2, <1>4, PTL DEF Spec, OldRecordsSurvive
=============================================================================
