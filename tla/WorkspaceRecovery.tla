--------------------------- MODULE WorkspaceRecovery ---------------------------
(***************************************************************************)
(* Recovery of the workspace of PointSite Builder                          *)
(* (src/server/maintenance: recovery-control, deletion-receipts and        *)
(* workspace-recovery; server/restore.ts and server/backups.ts).           *)
(*                                                                         *)
(* There are two databases.  The workspace holds drafts and publications   *)
(* and can be put back to an earlier copy.  The control database cannot:   *)
(* it holds the epoch, the latest lease and a receipt for every deletion.  *)
(* No transaction spans both, so each awaited call is an action of its     *)
(* own, and whoever makes the calls may die between any two of them.       *)
(*                                                                         *)
(* A world chooses how the workspace is put back: by the provider, to a    *)
(* bookmark ("bookmark"), or by the host, from a backup ("native").        *)
(***************************************************************************)
EXTENDS Naturals, FiniteSets

CONSTANTS
  Drafts,        \* drafts that can exist
  Born,          \* those that exist at the start
  Invocations,   \* requests and scheduled jobs under way at a time
  Receipts,      \* ids of receipts, in the order of the database (they are random)
  Copies,        \* backups or bookmarks that can be taken
  Lease,         \* leaseSeconds (60)
  Window,        \* how old a copy may be that is restored (35 days; the provider's own limit)
  Retention,     \* how long a resolved receipt is kept (90 days)
  MaxEpoch,      \* bound: quarantines and invocations begin before it
  Worlds         \* how copies are restored, which jobs run, and (bound) until which time

VARIABLES
  world,      \* fixed: the world of this behaviour
  now,        \* the clock of the workspace database
  workspace,  \* the workspace database
  control,    \* table workspace_recovery: epoch, mode and the latest lease
  receipts,   \* table deletion_receipts
  run,        \* the row of workspace_recovery_runs or native_restore_runs of this epoch
  copies,     \* bookmarks, or the backup directory
  calls,      \* invocations of the runtime
  operator,   \* what the operator's process has done since it was started
  deleted,    \* history: drafts whose deletion committed, and the receipts of it
  authority   \* history: the drafts that publications hold, as the runtime last wrote it

history == <<deleted, authority>>
vars == <<world, now, workspace, control, receipts, run, copies, calls, operator, history>>

\* What the bounds have to be; the module that chooses them assumes it.  A receipt outlives
\* every copy that could bring back what it deleted.
RecoveryAssumption ==
  /\ Drafts # {} /\ Born \subseteq Drafts /\ Receipts \subseteq Nat \ {0}
  /\ Lease \in Nat /\ Window \in Nat /\ Retention \in Nat /\ Window =< Retention

None == 0
Kinds == {"delete", "publish", "release", "retire"}
States == {"none", "pending", "committed", "cancelled", "retired"}
Phases == {"none", "prepared", "restoring", "restored", "complete"}

NoCall == [kind |-> "delete", stage |-> "idle"]
NoCopy == [at |-> "none"]
NoRun == [phase |-> "none", copy |-> None, held |-> {}, cursor |-> None]
Rest == [step |-> "rest", receipt |-> None, workspace |-> {}]
Unused == [state |-> "none", draft |-> CHOOSE d \in Drafts : TRUE, resolved |-> 0]

Active == control.mode = "active"
InState(s) == {r \in Receipts : receipts[r].state = s}
Copied(c) == copies[c].at # "none"
Native == world.restore = "native"

-----------------------------------------------------------------------------
(* An invocation: one lease that is never renewed, and checked in the same   *)
(* transaction as everything the invocation does to the workspace.           *)

Goes(i, call) == calls' = [calls EXCEPT ![i] = call]
Ends(i) == Goes(i, NoCall)
At(i, stage) == calls[i].stage = stage
Server == <<world, now, copies, run, operator>>

\* Access is closed in a quarantine; otherwise the epoch is remembered, and the workspace's
\* clock is read when the invocation first needs the workspace.  (One action for both: what
\* happens between them is found by TakeLease, which asks for the epoch again.)
Open(i, kind, d) ==
  /\ At(i, "idle") /\ Active /\ <<kind, d>> \in world.jobs
  /\ control.epoch < MaxEpoch
  /\ Goes(i, [kind |-> kind, epoch |-> control.epoch, draft |-> d, stage |-> "clocked",
              deadline |-> now + Lease, receipt |-> None, plan |-> {}])
  /\ UNCHANGED <<Server, workspace, control, receipts, history>>

\* (mutant) the lease is written over a longer one
LongestSet(t) == t
Longest(t) == IF t > control.leased THEN t ELSE control.leased

TakeLease(i) ==
  /\ At(i, "clocked")
  /\ IF Active /\ control.epoch = calls[i].epoch
       THEN /\ control' = [control EXCEPT !.leased = Longest(calls[i].deadline)]
            /\ Goes(i, [calls[i] EXCEPT !.stage = "leased"])
       ELSE Ends(i) /\ UNCHANGED control
  /\ UNCHANGED <<Server, workspace, receipts, history>>

Leased(i) == now < calls[i].deadline

\* Other writes of the runtime: a publication begins to hold a draft, or is retired.
WriteBatch(i) ==
  LET d == calls[i].draft IN
  /\ At(i, "leased")
  /\ workspace' =
       CASE calls[i].kind = "publish" /\ Leased(i) /\ d \in workspace.alive ->
              [workspace EXCEPT !.held = @ \cup {d}]
         [] calls[i].kind = "release" /\ Leased(i) -> [workspace EXCEPT !.held = @ \ {d}]
         [] OTHER -> workspace
  /\ calls[i].kind \in {"publish", "release"}
  /\ authority' = IF workspace' = workspace THEN authority ELSE workspace'.held
  /\ Ends(i)
  /\ UNCHANGED <<Server, control, receipts, deleted>>

-----------------------------------------------------------------------------
(* A deletion: a receipt is prepared in the control database, the batch      *)
(* leaves a proof in the workspace, and the receipt is confirmed.            *)

Prepare(i, r) ==
  /\ At(i, "leased") /\ calls[i].kind = "delete"
  /\ IF Active
       THEN /\ receipts[r].state = "none"
            /\ receipts' = [receipts EXCEPT ![r] =
                 [state |-> "pending", draft |-> calls[i].draft, resolved |-> 0]]
            /\ Goes(i, [calls[i] EXCEPT !.stage = "prepared", !.receipt = r])
       ELSE Ends(i) /\ UNCHANGED receipts
  /\ UNCHANGED <<Server, workspace, control, history>>

Deletable(i) == Leased(i)

DeleteBatch(i) ==
  LET d == calls[i].draft   r == calls[i].receipt IN
  /\ At(i, "prepared")
  /\ IF Deletable(i) /\ d \in workspace.alive \ workspace.held
       THEN /\ workspace' = [workspace EXCEPT !.alive = @ \ {d}, !.proofs = @ \cup {r}]
            /\ deleted' = [drafts |-> deleted.drafts \cup {d}, receipts |-> deleted.receipts \cup {r}]
            /\ Goes(i, [calls[i] EXCEPT !.stage = "deleted"])
       ELSE Ends(i) /\ UNCHANGED <<workspace, deleted>>
  /\ UNCHANGED <<Server, control, receipts, authority>>

ConfirmRead(i) ==
  /\ At(i, "deleted")
  /\ IF Leased(i) /\ calls[i].receipt \in workspace.proofs
       THEN Goes(i, [calls[i] EXCEPT !.stage = "proved"])
       ELSE Ends(i)
  /\ UNCHANGED <<Server, workspace, control, receipts, history>>

Resolved(r, state) == [receipts[r] EXCEPT !.state = state, !.resolved = now]

ConfirmWrite(i) ==
  LET r == calls[i].receipt IN
  /\ At(i, "proved")
  /\ receipts' = IF receipts[r].state = "pending"
                 THEN [receipts EXCEPT ![r] = Resolved(r, "committed")] ELSE receipts
  /\ Ends(i)
  /\ UNCHANGED <<Server, workspace, control, history>>

\* Receipts are retired when no copy that could be restored is as old as they are.
Expired(r, t) == receipts[r].state \in {"committed", "cancelled"} /\ receipts[r].resolved + Retention < t

RetireSelect(i) ==
  /\ At(i, "leased") /\ calls[i].kind = "retire"
  /\ IF Active /\ \E r \in Receipts : Expired(r, now)
       THEN Goes(i, [calls[i] EXCEPT !.stage = "selected", !.epoch = control.epoch,
                                     !.plan = {r \in Receipts : Expired(r, now)}])
       ELSE Ends(i)
  /\ UNCHANGED <<Server, workspace, control, receipts, history>>

RetireProofs(i) ==
  LET plan == calls[i].plan IN
  /\ At(i, "selected")
  /\ IF Leased(i)
       THEN /\ workspace' = [workspace EXCEPT !.proofs = @ \ plan,
                               !.replays = {p \in @ : p[2] \notin plan}]
            /\ Goes(i, [calls[i] EXCEPT !.stage = "unproved"])
       ELSE Ends(i) /\ UNCHANGED workspace
  /\ UNCHANGED <<Server, control, receipts, history>>

RetireReceipts(i) ==
  /\ At(i, "unproved")
  /\ receipts' = IF Active /\ control.epoch = calls[i].epoch
                 THEN [r \in Receipts |-> IF r \in calls[i].plan
                                          THEN [receipts[r] EXCEPT !.state = "retired"]
                                          ELSE receipts[r]]
                 ELSE receipts
  /\ Ends(i)
  /\ UNCHANGED <<Server, workspace, control, history>>

\* The process of an invocation dies, or a call of it fails.
Lose(i) ==
  /\ calls[i].stage # "idle"
  /\ Ends(i)
  /\ UNCHANGED <<Server, workspace, control, receipts, history>>

-----------------------------------------------------------------------------
(* Copies of the workspace.                                                  *)

\* The host copies the workspace while it runs; a bookmark of the provider is always there.
CopyWorkspace(c) ==
  /\ ~Copied(c) /\ \A b \in Copies : b < c => Copied(b)
  /\ copies' = [copies EXCEPT ![c] = [at |-> "kept", started |-> now, workspace |-> workspace]]
  /\ UNCHANGED <<world, now, workspace, control, receipts, run, calls, operator, history>>

-----------------------------------------------------------------------------
(* The operator.                                                             *)

Process == <<world, now, copies, calls, history>>

Quarantine ==
  /\ Active /\ control.epoch + 1 < MaxEpoch
  /\ control' = [control EXCEPT !.mode = "quarantined", !.epoch = @ + 1]
  /\ run' = NoRun
  /\ UNCHANGED <<Process, workspace, receipts, operator>>

Drained == control.mode = "quarantined" /\ now >= control.leased

\* settlePending: what the proofs say, for every receipt that nobody confirmed.  In a
\* drained quarantine nothing it reads can change before it writes.
Settled ==
  [r \in Receipts |->
     IF receipts[r].state # "pending" THEN receipts[r]
     ELSE Resolved(r, IF r \in workspace.proofs THEN "committed" ELSE "cancelled")]

Settle ==
  /\ operator = Rest /\ Drained
  /\ InState("pending") # {}
  /\ receipts' = Settled
  /\ UNCHANGED <<Process, workspace, control, run, operator>>

\* A replay is remembered; publications that hold the draft again stop the recovery.
Replayable(r, ws) == <<control.epoch, r>> \in ws.replays \/ receipts[r].draft \notin ws.held
Replayed(r, ws) ==
  IF <<control.epoch, r>> \in ws.replays THEN ws
  ELSE [ws EXCEPT !.alive = @ \ {receipts[r].draft}, !.replays = @ \cup {<<control.epoch, r>>}]

(* At the provider: prepare, restore, replay and reopen are commands of their own. *)
PrepareRun(c) ==
  /\ ~Native /\ operator = Rest /\ Drained
  /\ run.phase = "none" /\ InState("pending") = {}
  /\ Copied(c) /\ now - copies[c].started <= Window
  /\ run' = [phase |-> "prepared", copy |-> c, held |-> workspace.held, cursor |-> None]
  /\ UNCHANGED <<Process, workspace, control, receipts, operator>>

\* The row is claimed before the only call of the provider.
ClaimRestore ==
  /\ ~Native /\ operator = Rest /\ Drained /\ run.phase = "prepared"
  /\ run' = [run EXCEPT !.phase = "restoring"]
  /\ operator' = [Rest EXCEPT !.step = "restore"]
  /\ UNCHANGED <<Process, workspace, control, receipts>>

RestoreBookmark ==
  /\ operator.step = "restore"
  /\ workspace' = copies[run.copy].workspace
  /\ operator' = [Rest EXCEPT !.step = "restored"]
  /\ UNCHANGED <<Process, control, receipts, run>>

RecordRestore ==
  /\ operator.step = "restored" /\ run.phase = "restoring"
  /\ run' = [run EXCEPT !.phase = "restored"]
  /\ operator' = Rest
  /\ UNCHANGED <<Process, workspace, control, receipts>>

Unreplayed == {r \in InState("committed") : r > run.cursor}

ReplayNext(r) ==
  /\ ~Native /\ operator = Rest /\ Drained /\ run.phase = "restored"
  /\ r \in Unreplayed /\ \A q \in Unreplayed : r <= q
  /\ Replayable(r, workspace)
  /\ workspace' = Replayed(r, workspace)
  /\ operator' = [Rest EXCEPT !.step = "replayed", !.receipt = r]
  /\ UNCHANGED <<Process, control, receipts, run>>

MoveCursor ==
  /\ operator.step = "replayed"
  /\ run' = [run EXCEPT !.cursor = operator.receipt]
  /\ operator' = Rest
  /\ UNCHANGED <<Process, workspace, control, receipts>>

\* (mutant) reopening asks for pending receipts only
UnfinishedPending == InState("pending")
Unfinished == InState("pending") \cup Unreplayed

\* (mutant) what publications hold is not compared
SameIgnored(ws, held) == TRUE
SameAuthority(ws, held) == ws.held = held

Reopened == control' = [control EXCEPT !.mode = "active", !.epoch = @ + 1]

Reopen ==
  /\ ~Native /\ operator = Rest /\ Drained /\ run.phase = "restored"
  /\ Unfinished = {} /\ SameAuthority(workspace, run.held)
  /\ run' = [run EXCEPT !.phase = "complete"]
  /\ Reopened
  /\ UNCHANGED <<Process, workspace, receipts, operator>>

(* On the host: one command, which can be given again as long as the run lasts. *)
BeginNative(c) ==
  /\ Native /\ operator = Rest /\ Drained
  /\ Copied(c) /\ now - copies[c].started <= Window
  /\ receipts' = Settled
  /\ run.phase = "prepared" => run.copy = c
  /\ run' = [NoRun EXCEPT !.phase = "prepared", !.copy = c]
  /\ operator' = [Rest EXCEPT !.step = "build"]
  /\ UNCHANGED <<Process, workspace, control>>

\* Every committed deletion is replayed on a private copy before anything is replaced.
AllReplayed(ws) ==
  [ws EXCEPT !.alive = @ \ {receipts[r].draft : r \in InState("committed")},
             !.replays = @ \cup {<<control.epoch, r>> : r \in InState("committed")}]

BuildNative ==
  LET copy == copies[run.copy].workspace IN
  /\ operator.step = "build"
  /\ \A r \in InState("committed") : Replayable(r, copy)
  /\ SameAuthority(AllReplayed(copy), workspace.held)
  /\ operator' = [Rest EXCEPT !.step = "built", !.workspace = {AllReplayed(copy)}]
  /\ UNCHANGED <<Process, workspace, control, receipts, run>>

ReplaceNative ==
  /\ operator.step = "built" /\ Drained
  /\ workspace' \in operator.workspace
  /\ operator' = [Rest EXCEPT !.step = "replaced"]
  /\ UNCHANGED <<Process, control, receipts, run>>

FinishNative ==
  /\ operator.step = "replaced" /\ control.mode = "quarantined"
  /\ run' = [run EXCEPT !.phase = "complete"]
  /\ Reopened
  /\ operator' = Rest
  /\ UNCHANGED <<Process, workspace, receipts>>

\* The operator's process dies; what it had in memory is gone, and a call may be cut short.
Interrupt ==
  /\ operator # Rest
  /\ operator' = Rest
  /\ UNCHANGED <<Process, workspace, control, receipts, run>>

Tick ==
  /\ now < world.time
  /\ now' = now + 1
  /\ UNCHANGED <<world, workspace, control, receipts, run, copies, calls, operator, history>>

-----------------------------------------------------------------------------
Init ==
  /\ world \in Worlds
  /\ now = 0
  /\ workspace = [alive |-> Born, held |-> {}, proofs |-> {}, replays |-> {}]
  /\ control = [epoch |-> 1, mode |-> "active", leased |-> 0]
  /\ receipts = [r \in Receipts |-> Unused]
  /\ run = NoRun
  /\ copies = [c \in Copies |-> NoCopy]
  /\ calls = [i \in Invocations |-> NoCall]
  /\ operator = Rest
  /\ deleted = [drafts |-> {}, receipts |-> {}]
  /\ authority = {}

Invocation(i) ==
  \/ \E kind \in Kinds, d \in Drafts : Open(i, kind, d)
  \/ TakeLease(i) \/ WriteBatch(i)
  \/ \E r \in Receipts : Prepare(i, r)
  \/ DeleteBatch(i) \/ ConfirmRead(i) \/ ConfirmWrite(i)
  \/ RetireSelect(i) \/ RetireProofs(i) \/ RetireReceipts(i) \/ Lose(i)

Operator ==
  \/ Quarantine \/ Settle \/ \E c \in Copies : PrepareRun(c) \/ BeginNative(c)
  \/ \E r \in Receipts : ReplayNext(r)
  \/ ClaimRestore \/ RestoreBookmark \/ RecordRestore \/ MoveCursor \/ Reopen
  \/ BuildNative \/ ReplaceNative \/ FinishNative \/ Interrupt

Next ==
  \/ \E i \in Invocations : Invocation(i)
  \/ \E c \in Copies : CopyWorkspace(c)
  \/ Operator \/ Tick

Spec == Init /\ [][Next]_vars

-----------------------------------------------------------------------------
(* Properties *)

\* What was deleted stays deleted: whenever the workspace is open, no draft is there whose
\* deletion committed - although copies that hold it are restored, confirmations are lost and
\* receipts are retired.
DeletedStaysDeleted == Active => workspace.alive \cap deleted.drafts = {}

\* A receipt says what happened: a cancelled one belongs to a deletion that did not and never
\* will commit, a committed one to a deletion that did (settlePending against slow batches).
ReceiptTruth ==
  \A r \in Receipts :
    /\ receipts[r].state = "cancelled" => r \notin deleted.receipts
    /\ receipts[r].state = "committed" => r \in deleted.receipts

\* Authority never moves backwards: what publications hold is what the runtime last wrote, in
\* every open workspace ("role, publication and schema authority must never move backwards").
AuthorityKept == Active => workspace.held = authority

=============================================================================
