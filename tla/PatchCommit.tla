----------------------------- MODULE PatchCommit -----------------------------
(***************************************************************************)
(* Concurrent patches on one store: sessions read a context, answer with a *)
(* patch much later, and the workflow merges the answers one at a time,    *)
(* rebasing those that went stale; operators submit patches from other     *)
(* processes.  Artifact files are installed before the database commit and *)
(* undone by a journal of their own.                                       *)
(***************************************************************************)
EXTENDS Naturals, Sequences

CONSTANTS
  Clients,      \* whoever submits a patch: one per patch
  Sessions,     \* the clients merged by the workflow with a session authority
  Patches,
  Answers,      \* the patches a client may come back with
  Operations,   \* the operations of a patch
  Artifact,     \* the artifact a patch attaches, or NoArtifact
  Artifacts,
  NoArtifact,
  Rows, Statuses,
  Requests,     \* context requests pending at the start
  Nobody, Untouched,
  Interrupted,  \* the clients a signal may reach inside apply_patch
  MaxRetries,   \* max_retries of apply_patch_with_stale_retry
  MaxPolicy     \* bound: policy events

\* An operation as the conflict check sees it: the rows _op_touched_ids
\* attributes to it, and whether it is rebase-safe for its patch's role.
Operation == [mode : {"append", "transition", "write", "other"},
              rows : SUBSET Rows, to : Statuses, safe : BOOLEAN]

ASSUME SessionsAssumption == Sessions \subseteq Clients
ASSUME PatchesAssumption ==
  /\ Patches # {}
  /\ Answers \in [Clients -> SUBSET Patches]
  /\ Operations \in [Patches -> SUBSET Operation]
  /\ Artifact \in [Patches -> Artifacts \cup {NoArtifact}]
ASSUME NamesAssumption ==
  NoArtifact \notin Artifacts /\ Nobody \notin Clients /\ Untouched \notin Clients \cup {Nobody}
ASSUME BoundsAssumption == MaxRetries \in Nat /\ MaxPolicy \in Nat /\ Interrupted \subseteq Clients

VARIABLES
  log,        \* applied patches in order of revision; current_revision is its length
  policy,     \* policy_event_head, as the number of policy events so far but for
  soft,       \* whether a soft pause or stop has been requested
  recorded,   \* artifact row -> the client whose bytes its digest describes
  files,      \* artifact file -> the client whose bytes it holds
  client      \* the program counter and locals of every client

vars == <<log, policy, soft, recorded, files, client>>

Revision == Len(log)
Landed(c) == \E i \in DOMAIN log : log[i].client = c
Pending == Requests \ UNION {log[i].requests : i \in DOMAIN log}

Merging == {"apply", "stale", "window", "open", "written", "committed", "undo", "unwind"}
InTransaction == {"open", "written"}
LockFree == \A c \in Clients : client[c].pc \notin InTransaction

Entries == [client : Clients, patch : Patches, context : Nat, policy : Nat,
            requests : SUBSET Requests, delivered : Nat]

Locals == [pc : Merging \cup {"idle", "returned", "accepted", "rejected", "gone"},
           patch : Patches, context : Nat, base : Nat, seen : Nat, policy : Nat,
           soft : BOOLEAN, asks : SUBSET Requests, retries : 0..MaxRetries,
           backup : Clients \cup {Nobody, Untouched}]

TypeOK ==
  /\ log \in Seq(Entries)
  /\ policy \in Nat /\ soft \in BOOLEAN
  /\ recorded \in [Artifacts -> Clients \cup {Nobody}]
  /\ files \in [Artifacts -> Clients \cup {Nobody}]
  /\ client \in [Clients -> Locals]

-----------------------------------------------------------------------------
\* The assessment of a stale patch against the patches it has missed.

RowsOf(ops) == UNION {o.rows : o \in ops}

AppendedRows(ops) ==
  RowsOf({o \in ops : o.mode = "append"}) \ RowsOf({o \in ops : o.mode # "append"})

\* Row r is written by transitions of it and nothing else.
OnlyTransitions(ops, r, to) ==
  \A o \in ops : r \in o.rows => o.mode = "transition" /\ o.rows = {r}

\* Row r is written by this one transition and nothing else.
OnlyTransition(ops, r, to) ==
  \A o \in ops : r \in o.rows => o.mode = "transition" /\ o.rows = {r} /\ o.to = to

Overlap(ops, missed) ==
  {r \in RowsOf(ops) \cap RowsOf(missed) :
     /\ r \notin AppendedRows(ops) \cap AppendedRows(missed)
     /\ ~\E to \in Statuses : OnlyTransition(ops, r, to) /\ OnlyTransition(missed, r, to)}

\* The operations applied after revision `base`.
Missed(base) == UNION {Operations[log[i].patch] : i \in (base + 1)..Len(log)}

Rebasable(p, base) ==
  /\ \A o \in Operations[p] : o.safe /\ o.mode # "other"
  /\ \A o \in Missed(base) : o.mode # "other"
  /\ Overlap(Operations[p], Missed(base)) = {}

-----------------------------------------------------------------------------
\* A client outside of any call, which has come to `outcome`.
Blank(outcome) ==
  [pc |-> outcome, patch |-> CHOOSE p \in Patches : TRUE, context |-> 0, base |-> 0,
   seen |-> 0, policy |-> 0, soft |-> FALSE, asks |-> {}, retries |-> 0,
   backup |-> Untouched]

Goto(c, pc)        == client' = [client EXCEPT ![c].pc = pc]
Answer(c, outcome) == client' = [client EXCEPT ![c] = Blank(outcome)]

\* The host dispatches a session, or an operator starts to write a patch:
\* revision, policy head and pending requests of one snapshot of the store.
BuildContext(c) ==
  /\ client[c].pc = "idle"
  /\ \E p \in Answers[c], asks \in SUBSET (IF c \in Sessions THEN Pending ELSE {}) :
       client' = [client EXCEPT ![c] =
         [pc |-> "returned", patch |-> p, context |-> Revision, base |-> Revision,
          seen |-> Revision, policy |-> policy, soft |-> soft, asks |-> asks,
          retries |-> 0, backup |-> Untouched]]
  /\ UNCHANGED <<log, policy, soft, recorded, files>>

\* The workflow takes up one returned result at a time.
TakesUp(c) ==
  /\ client[c].pc = "returned"
  /\ c \in Sessions => \A d \in Sessions : client[d].pc \notin Merging

\* A result that meets no policy event but a soft request is given the policy
\* head of the moment, before the lock is taken.
Authorized(c) ==
  IF c \in Sessions THEN [client[c] EXCEPT !.pc = "apply", !.soft = soft]
                    ELSE [client[c] EXCEPT !.pc = "apply"]

\* The workflow merges a result without looking in the journal.
MergeAnew(c) ==
  /\ TakesUp(c)
  /\ c \in Sessions => client[c].policy = policy
  /\ client' = [client EXCEPT ![c] = Authorized(c)]
  /\ UNCHANGED <<log, policy, soft, recorded, files>>

\* It first looks in the journal whether the patch landed before a crash.
Merge(c) ==
  /\ TakesUp(c)
  /\ c \in Sessions => ~Landed(c) /\ client[c].policy = policy
  /\ client' = [client EXCEPT ![c] = Authorized(c)]
  /\ UNCHANGED <<log, policy, soft, recorded, files>>

RecognizeAccepted(c) ==
  /\ TakesUp(c)
  /\ c \in Sessions /\ Landed(c)
  /\ Answer(c, "accepted")
  /\ UNCHANGED <<log, policy, soft, recorded, files>>

RefuseRecovery(c) ==
  /\ TakesUp(c)
  /\ c \in Sessions /\ ~Landed(c) /\ client[c].policy # policy
  /\ Answer(c, "rejected")
  /\ UNCHANGED <<log, policy, soft, recorded, files>>

\* BEGIN IMMEDIATE finds the write lock taken for too long.
LockTimeout(c) ==
  /\ client[c].pc = "apply"
  /\ ~LockFree
  /\ Answer(c, "rejected")
  /\ UNCHANGED <<log, policy, soft, recorded, files>>

PolicyCurrent(c) ==
  c \in Sessions => client[c].policy = policy /\ client[c].soft = soft

RefusePolicy(c) ==
  /\ client[c].pc = "apply"
  /\ LockFree
  /\ ~PolicyCurrent(c)
  /\ Answer(c, "rejected")
  /\ UNCHANGED <<log, policy, soft, recorded, files>>

\* A stale session patch is assessed unless its retries are used up.
RefuseStale(c) ==
  /\ client[c].pc = "apply"
  /\ LockFree
  /\ PolicyCurrent(c)
  /\ client[c].base # Revision
  /\ IF c \in Sessions /\ client[c].retries < MaxRetries
     THEN Goto(c, "stale") ELSE Answer(c, "rejected")
  /\ UNCHANGED <<log, policy, soft, recorded, files>>

\* The assessment reads the revision and then, in a second query without a
\* transaction around both, the patches applied after the base.
ReadRevision(c) ==
  /\ client[c].pc = "stale"
  /\ client' = [client EXCEPT ![c].pc = "window", ![c].seen = Revision]
  /\ UNCHANGED <<log, policy, soft, recorded, files>>

Rebase(c) ==
  /\ client[c].pc = "window"
  /\ Rebasable(client[c].patch, client[c].base)
  /\ client' = [client EXCEPT ![c].pc = "apply", ![c].base = client[c].seen,
                              ![c].retries = @ + 1]
  /\ UNCHANGED <<log, policy, soft, recorded, files>>

DeclineRebase(c) ==
  /\ client[c].pc = "window"
  /\ ~Rebasable(client[c].patch, client[c].base)
  /\ Answer(c, "rejected")
  /\ UNCHANGED <<log, policy, soft, recorded, files>>

Open(c) ==
  /\ client[c].pc = "apply"
  /\ LockFree
  /\ PolicyCurrent(c)
  /\ client[c].base = Revision
  /\ Goto(c, "open")
  /\ UNCHANGED <<log, policy, soft, recorded, files>>

ArtifactOf(c) == Artifact[client[c].patch]

\* The file is installed whether or not the artifact exists already.
OperateUnchecked(c) ==
  /\ client[c].pc = "open"
  /\ IF ArtifactOf(c) = NoArtifact
     THEN Goto(c, "written") /\ UNCHANGED files
     ELSE /\ client' = [client EXCEPT ![c].pc = "written", ![c].backup = files[ArtifactOf(c)]]
          /\ files' = [files EXCEPT ![ArtifactOf(c)] = c]
  /\ UNCHANGED <<log, policy, soft, recorded>>

\* The operations run; attaching an artifact installs its file at once, with
\* what it replaces kept in the file journal.
Operate(c) ==
  /\ client[c].pc = "open"
  /\ IF ArtifactOf(c) = NoArtifact
     THEN /\ Goto(c, "written")
          /\ UNCHANGED files
     ELSE /\ recorded[ArtifactOf(c)] = Nobody
          /\ client' = [client EXCEPT ![c].pc = "written", ![c].backup = files[ArtifactOf(c)]]
          /\ files' = [files EXCEPT ![ArtifactOf(c)] = c]
  /\ UNCHANGED <<log, policy, soft, recorded>>

\* A guard fails, the store is found invalid, or an exception is raised: the
\* database rolls back, which frees the lock; the files are undone afterwards.
Rollback(c) ==
  /\ client[c].pc \in InTransaction
  /\ Goto(c, "undo")
  /\ UNCHANGED <<log, policy, soft, recorded, files>>

\* Every recorded artifact's file holds the bytes its digest describes.
Intact(rows) == \A a \in Artifacts : rows[a] # Nobody => files[a] = rows[a]

\* The patch identifier is new, the requests the context answered are pending,
\* the whole store is valid: the patch gets the next revision.
Commit(c) ==
  /\ client[c].pc = "written"
  /\ ~Landed(c)
  /\ client[c].asks \subseteq Pending
  /\ recorded' = IF ArtifactOf(c) = NoArtifact THEN recorded
                 ELSE [recorded EXCEPT ![ArtifactOf(c)] = c]
  /\ Intact(recorded')
  /\ log' = Append(log, [client |-> c, patch |-> client[c].patch,
                         context |-> client[c].context, policy |-> client[c].policy,
                         requests |-> client[c].asks, delivered |-> Revision])
  /\ Goto(c, "committed")
  /\ UNCHANGED <<policy, soft, files>>

\* The file journal forgets what it replaced; the outcome is returned.
ForgetFiles(c) ==
  /\ client[c].pc = "committed"
  /\ Answer(c, "accepted")
  /\ UNCHANGED <<log, policy, soft, recorded, files>>

\* A result is durable before it is merged: after a restart the workflow
\* merges it again, from the patch as the session returned it.
Restarted(c) ==
  IF c \in Sessions
  THEN [client[c] EXCEPT !.pc = "returned", !.base = client[c].context,
          !.seen = client[c].context, !.retries = 0, !.backup = Untouched]
  ELSE Blank("gone")

\* The file is put back whether or not anything was captured.
UndoFilesAlways(c) ==
  /\ client[c].pc \in {"undo", "unwind"}
  /\ files' = [files EXCEPT ![ArtifactOf(c)] = client[c].backup]
  /\ client' = [client EXCEPT ![c] =
       IF client[c].pc = "unwind" THEN Restarted(c) ELSE Blank("rejected")]
  /\ UNCHANGED <<log, policy, soft, recorded>>

\* The file journal puts back what it has captured.
UndoFiles(c) ==
  /\ client[c].pc \in {"undo", "unwind"}
  /\ files' = IF client[c].backup = Untouched THEN files
              ELSE [files EXCEPT ![ArtifactOf(c)] = client[c].backup]
  /\ client' = [client EXCEPT ![c] =
       IF client[c].pc = "unwind" THEN Restarted(c) ELSE Blank("rejected")]
  /\ UNCHANGED <<log, policy, soft, recorded>>

\* A signal raises KeyboardInterrupt between two statements of apply_patch.
Interrupt(c) ==
  /\ c \in Interrupted
  /\ client[c].pc \in InTransaction \cup {"committed"}
  /\ Goto(c, "unwind")
  /\ UNCHANGED <<log, policy, soft, recorded, files>>

\* The process dies: its transaction is rolled back, its files stay.
Crash(c) ==
  /\ client[c].pc \in Merging
  /\ client' = [client EXCEPT ![c] = Restarted(c)]
  /\ UNCHANGED <<log, policy, soft, recorded, files>>

\* A steering note, a hard stop, a resumption or another policy event.
ChangePolicy ==
  /\ LockFree
  /\ policy < MaxPolicy
  /\ policy' = policy + 1
  /\ UNCHANGED <<log, soft, recorded, files, client>>

\* A soft pause or stop is requested; it lets the dispatched sessions finish.
RequestSoftly ==
  /\ LockFree
  /\ ~soft
  /\ soft' = TRUE
  /\ UNCHANGED <<log, policy, recorded, files, client>>

Init ==
  /\ log = <<>>
  /\ policy = 0 /\ soft = FALSE
  /\ recorded = [a \in Artifacts |-> Nobody]
  /\ files = [a \in Artifacts |-> Nobody]
  /\ client = [c \in Clients |-> Blank("idle")]

Attempt(c) ==
  \/ LockTimeout(c) \/ RefusePolicy(c) \/ RefuseStale(c)
  \/ ReadRevision(c) \/ Rebase(c) \/ DeclineRebase(c)
  \/ Open(c) \/ Operate(c) \/ Rollback(c) \/ Commit(c)
  \/ ForgetFiles(c) \/ UndoFiles(c)

Next ==
  \/ ChangePolicy \/ RequestSoftly
  \/ \E c \in Clients :
       \/ BuildContext(c)
       \/ Merge(c) \/ RecognizeAccepted(c) \/ RefuseRecovery(c)
       \/ Attempt(c)
       \/ Interrupt(c) \/ Crash(c)

Spec == Init /\ [][Next]_vars

-----------------------------------------------------------------------------
(***************************************************************************)
(* Properties.                                                             *)
(***************************************************************************)

\* apply_patch and its stale retry implement the serial log of PatchLog: a
\* patch that lands was mergeable with everything that landed since its own
\* session read the store, however many rebases and crashes lie between; no
\* session's patch lands under a policy it has not seen; no patch lands twice
\* and no context request is delivered twice.
Log == INSTANCE PatchLog WITH log <- log, policy <- policy
SerialHistory == Log!Spec

\* Every artifact the store has recorded has its file, with the bytes the
\* record describes: the file journal undoes a patch when, and only when, the
\* database rolls it back ("Undo filesystem mutations when the enclosing SQLite
\* patch rolls back", patches.py:132).
ArtifactsIntact == Intact(recorded)

Undoing(c) == client[c].pc \in {"undo", "unwind"} /\ client'[c] # client[c]

\* A recorded artifact loses its file to nothing but the undo of a file journal,
\* and then only if it was recorded after that patch had opened its transaction:
\* by the patch itself, before a signal, or by another once the lock was free.
\* What was on record before survives crashes, the orphaned files they leave,
\* patches over those files and their refusal (_ArtifactFileJournal, and the
\* refusal of an artifact_id that is already recorded).
OldRecordsSurvive ==
  [][\A a \in Artifacts :
       recorded[a] # Nobody /\ files[a] = recorded[a] /\ files'[a] # recorded'[a]
       => \E c \in Clients :
            /\ Undoing(c)
            /\ \E i \in (client[c].base + 1)..Revision : log[i].client = recorded[a]]_vars

\* The answer a client gets is true, also after a crash between the commit and
\* the answer: `accepted` only if its patch is in the journal, `rejected` only if not.
AnsweredTruthfully ==
  \A c \in Clients : /\ client[c].pc = "accepted" => Landed(c)
                     /\ client[c].pc = "rejected" => ~Landed(c)
=============================================================================
