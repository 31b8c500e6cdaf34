--------------------------- MODULE RecoveryProofs ---------------------------
(***************************************************************************)
(* Proofs about WorkspaceRecovery for every number of drafts, invocations, *)
(* receipts and copies, for every lease, and in every world.               *)
(*                                                                         *)
(* Two databases without a common transaction stay together because of     *)
(* what nobody wrote down in one place: in a drained quarantine no lease   *)
(* is left, a recovery has begun only in one, and then no receipt is       *)
(* pending; a receipt that is pending although its deletion committed has  *)
(* its proof in the workspace; and whatever a copy could bring back has a  *)
(* receipt that is not older than the copy.                                *)
(***************************************************************************)
EXTENDS AfterLoss, TLAPS

Databases ==
  [alive : SUBSET Drafts, held : SUBSET Drafts, proofs : SUBSET Receipts,
   replays : SUBSET (Nat \X Receipts)]
ReceiptRow == [state : States, draft : Drafts, resolved : Nat]
Kept == [at : {"kept"}, started : Nat, workspace : Databases]
Stages == {"clocked", "leased", "prepared", "deleted", "proved", "selected", "unproved"}
Under ==
  [kind : Kinds, epoch : Nat, draft : Drafts, stage : Stages, deadline : Nat,
   receipt : Receipts \cup {None}, plan : SUBSET Receipts]
Steps == {"rest", "restore", "restored", "replayed", "build", "built", "replaced"}
OperatorRow == [step : Steps, receipt : Receipts \cup {None}, workspace : SUBSET Databases]
RunRow == [phase : Phases, copy : Copies \cup {None}, held : SUBSET Drafts, cursor : Nat]

TypeOK ==
  /\ now \in Nat
  /\ workspace \in Databases
  /\ control \in [epoch : Nat, mode : {"active", "quarantined"}, leased : Nat]
  /\ receipts \in [Receipts -> ReceiptRow]
  /\ run \in RunRow
  /\ copies \in [Copies -> {NoCopy} \cup Kept]
  /\ calls \in [Invocations -> {NoCall} \cup Under]
  /\ operator \in OperatorRow
  /\ deleted \in [drafts : SUBSET Drafts, receipts : SUBSET Receipts]
  /\ authority \subseteq Drafts

\* the invocations: whoever got past its lease has one that the control database knows, whoever
\* deletes has a receipt of its own, and a plan holds receipts that have expired
Past(i) == calls[i].stage \in Stages \ {"clocked"}
LeaseKnown(i) == Past(i) => calls[i].deadline =< control.leased
Holds(i) == calls[i].stage \in {"prepared", "deleted", "proved"}
ReceiptHeld(i) ==
  Holds(i) =>
    LET r == calls[i].receipt IN
    /\ r \in Receipts /\ receipts[r].state # "none" /\ receipts[r].draft = calls[i].draft
    /\ IF At(i, "prepared") THEN receipts[r].state = "pending" \/ ~ Leased(i)
       ELSE r \in deleted.receipts
Over == {"committed", "cancelled", "retired"}
PlanExpired(i) ==
  calls[i].stage \in {"selected", "unproved"} =>
    \A r \in calls[i].plan :
      receipts[r].state \in Over /\ receipts[r].resolved + Retention < now
OwnReceipt ==
  \A i, j \in Invocations :
    Holds(i) /\ Holds(j) /\ calls[i].receipt = calls[j].receipt => i = j

\* the operator: it works in a drained quarantine, after every receipt was settled
Recovering == run.phase \in {"prepared", "restoring", "restored"}
PhaseFits ==
  /\ Active => operator = Rest /\ ~ Recovering
  /\ ~ Active => run.phase # "complete"
  /\ operator.step # "rest" => Recovering
  /\ Recovering => /\ Drained /\ InState("pending") = {}
                   /\ run.copy \in Copies /\ Copied(run.copy)
  /\ operator.step \in {"restore", "restored"} => ~ Native /\ run.phase = "restoring"
  /\ operator.step = "replayed" => ~ Native /\ run.phase = "restored" /\ operator.receipt \in Receipts
  /\ operator.step \in {"build", "built", "replaced"} => Native
  /\ Native => run.phase \notin {"restoring", "restored"}
  /\ run.phase \in {"prepared", "restoring"} => run.cursor = None

\* the receipts: one whose deletion committed without a confirmation has its proof
ProofLeft ==
  \A r \in deleted.receipts :
    /\ receipts[r].state # "none"
    /\ receipts[r].state = "pending" => r \in workspace.proofs

\* and no database has a proof of a deletion that did not commit
Taken == {c \in Copies : Copied(c)}
ProofsTrue ==
  /\ workspace.proofs \subseteq deleted.receipts
  /\ \A c \in Taken : copies[c].workspace.proofs \subseteq deleted.receipts
  /\ \A ws \in operator.workspace : ws.proofs \subseteq deleted.receipts

\* what publications hold: a recovery that may be at the copy compares it with what was
AuthorityBound ==
  /\ ~ (Recovering /\ run.phase \in {"restoring", "restored"}) => workspace.held = authority
  /\ Recovering /\ ~ Native => run.held = authority
  /\ operator.step = "built" => \A ws \in operator.workspace : ws.held = authority

CallsInv ==
  OwnReceipt /\ \A i \in Invocations : LeaseKnown(i) /\ ReceiptHeld(i) /\ PlanExpired(i)
RecoveryInv ==
  /\ RecoveryAssumption /\ TypeOK
  /\ CallsInv /\ PhaseFits /\ ProofLeft /\ ProofsTrue /\ ReceiptTruth /\ AuthorityBound

-----------------------------------------------------------------------------
(* The deletions. *)

\* No bookmark is taken between the restoration of an older one and the last replay.
CopiesAreWhole ==
  Native \/ \A c \in Copies : copies'[c] # copies[c] => workspace.alive \cap deleted.drafts = {}

TakenBefore == \A c \in Taken : copies[c].started =< now
Marks(d) == {r \in deleted.receipts : receipts[r].draft = d}

\* a receipt that a copy of that time cannot get around
Covers(r, t) ==
  \/ receipts[r].state = "pending"
  \/ receipts[r].state = "committed" /\ t =< receipts[r].resolved
  \/ receipts[r].state = "retired" /\ t + Window < now
CopiesCovered ==
  \A c \in Taken : \A d \in copies[c].workspace.alive \cap deleted.drafts :
    \E r \in Marks(d) : Covers(r, copies[c].started)

\* the copy that is restored, and the workspace after it
Back == workspace.alive \cap deleted.drafts
TargetCovered ==
  run.phase \in {"prepared", "restoring"} =>
    \A d \in copies[run.copy].workspace.alive \cap deleted.drafts :
      \E r \in Marks(d) : receipts[r].state = "committed"
BackIsUnreplayed ==
  /\ ~ (run.phase \in {"restoring", "restored"}) => Back = {}
  /\ \A d \in Back : \E r \in Marks(d) : r \in Unreplayed
BuiltIsWhole ==
  operator.step = "built" => \A ws \in operator.workspace : ws.alive \cap deleted.drafts = {}

\* replays are remembered with the epoch of their recovery
Before(ws, e) == \A p \in ws.replays : p[1] < e
ReplaysAged ==
  Native \/
  /\ \A c \in Taken : Before(copies[c].workspace, control.epoch + 1)
  /\ Before(workspace, control.epoch + 1)
  /\ ~ Recovering => Before(workspace, control.epoch)
                     /\ \A c \in Taken : Before(copies[c].workspace, control.epoch)
  /\ run.phase \in {"prepared", "restoring"} =>
       Before(workspace, control.epoch) /\ Before(copies[run.copy].workspace, control.epoch)
ReplayedIsGone ==
  run.phase = "restored" =>
    \A r \in Receipts : <<control.epoch, r>> \in workspace.replays =>
      receipts[r].draft \notin workspace.alive
ReplayedNext ==
  operator.step = "replayed" =>
    /\ receipts[operator.receipt].draft \notin workspace.alive
    /\ \A q \in Unreplayed : operator.receipt =< q

DeletionInv ==
  /\ TakenBefore /\ CopiesCovered /\ TargetCovered /\ BackIsUnreplayed /\ BuiltIsWhole
  /\ ReplaysAged /\ ReplayedIsGone /\ ReplayedNext

-----------------------------------------------------------------------------
(* Types.                                                                  *)

LEMMA DatabaseType ==
  ASSUME TypeOK
  PROVE  /\ workspace.alive \subseteq Drafts /\ workspace.held \subseteq Drafts
         /\ workspace.proofs \subseteq Receipts /\ workspace.replays \subseteq Nat \X Receipts
         /\ \A h \in SUBSET Drafts : [workspace EXCEPT !.held = h] \in Databases
         /\ \A a \in SUBSET Drafts, q \in SUBSET Receipts :
              [workspace EXCEPT !.alive = a, !.proofs = q] \in Databases
         /\ \A q \in SUBSET Receipts, p \in SUBSET (Nat \X Receipts) :
              [workspace EXCEPT !.proofs = q, !.replays = p] \in Databases
         /\ \A a \in SUBSET Drafts, p \in SUBSET (Nat \X Receipts) :
              [workspace EXCEPT !.alive = a, !.replays = p] \in Databases
  BY DEF TypeOK, Databases

LEMMA ControlType ==
  ASSUME TypeOK
  PROVE  /\ control.epoch \in Nat /\ control.leased \in Nat
         /\ control.mode \in {"active", "quarantined"}
         /\ \A n \in Nat : [control EXCEPT !.leased = n]
                             \in [epoch : Nat, mode : {"active", "quarantined"}, leased : Nat]
         /\ \A n \in Nat, m \in {"active", "quarantined"} :
              [control EXCEPT !.mode = m, !.epoch = n]
                \in [epoch : Nat, mode : {"active", "quarantined"}, leased : Nat]
  BY DEF TypeOK

LEMMA ReceiptType ==
  ASSUME TypeOK, NEW r \in Receipts
  PROVE  /\ receipts[r] \in ReceiptRow /\ receipts[r].state \in States
         /\ receipts[r].draft \in Drafts /\ receipts[r].resolved \in Nat
<1>1. receipts[r] \in ReceiptRow
  BY DEF TypeOK
<1> QED BY <1>1 DEF ReceiptRow

LEMMA UnderWay ==
  ASSUME TypeOK, NEW i \in Invocations, calls[i].stage # "idle"
  PROVE  /\ calls[i] \in Under /\ calls[i].stage \in Stages /\ calls[i].kind \in Kinds
         /\ calls[i].draft \in Drafts /\ calls[i].deadline \in Nat /\ calls[i].epoch \in Nat
         /\ calls[i].receipt \in Receipts \cup {None} /\ calls[i].plan \subseteq Receipts
         /\ \A s \in Stages : [calls[i] EXCEPT !.stage = s] \in Under
         /\ \A s \in Stages, r \in Receipts : [calls[i] EXCEPT !.stage = s, !.receipt = r] \in Under
         /\ \A s \in Stages, e \in Nat, q \in SUBSET Receipts :
              [calls[i] EXCEPT !.stage = s, !.epoch = e, !.plan = q] \in Under
<1>1. calls[i] \in Under
  <2>1. calls[i] \in {NoCall} \cup Under
    BY DEF TypeOK
  <2> QED BY <2>1 DEF NoCall
<1> QED BY <1>1 DEF Under

LEMMA Idle ==
  NoCall.stage = "idle" /\ "idle" \notin Stages /\ ~ (NoCall.stage \in Stages)
  BY DEF NoCall, Stages

LEMMA CopyType ==
  ASSUME TypeOK, NEW c \in Taken
  PROVE  /\ copies[c] \in Kept /\ copies[c].started \in Nat /\ copies[c].workspace \in Databases
         /\ copies[c].workspace.alive \subseteq Drafts
         /\ copies[c].workspace.replays \subseteq Nat \X Receipts
<1>1. copies[c] \in Kept
  BY DEF TypeOK, Taken, Copied, NoCopy
<1>2. copies[c].workspace \in Databases /\ copies[c].started \in Nat
  BY <1>1 DEF Kept
<1> QED BY <1>1, <1>2 DEF Databases

LEMMA NoneIsNone == None \in Nat /\ None = 0
  BY DEF None

\* one invocation goes on
LEMMA Gone ==
  ASSUME TypeOK, NEW i \in Invocations, NEW row \in {NoCall} \cup Under, Goes(i, row)
  PROVE  /\ calls' \in [Invocations -> {NoCall} \cup Under] /\ calls'[i] = row
         /\ \A j \in Invocations : j # i => calls'[j] = calls[j]
  BY DEF TypeOK, Goes

-----------------------------------------------------------------------------
(* What a step may change.                                                 *)

\* no step goes back behind these
Forward ==
  /\ now' \in Nat /\ now =< now' /\ control'.leased \in Nat /\ control.leased =< control'.leased
  /\ deleted.receipts \subseteq deleted'.receipts
  /\ \A r \in Receipts :
       /\ receipts[r].state # "none" =>
            receipts'[r].state # "none" /\ receipts'[r].draft = receipts[r].draft
       /\ receipts[r].state \in Over =>
            receipts'[r].state \in Over /\ receipts'[r].resolved = receipts[r].resolved

\* what an invocation stands on stays true
LEMMA InvocationKept ==
  ASSUME RecoveryInv, Forward, NEW i \in Invocations, calls'[i] = calls[i],
         LET r == calls[i].receipt IN
           At(i, "prepared") /\ receipts[r].state = "pending" =>
             receipts'[r].state = "pending" \/ ~ (now' < calls[i].deadline)
  PROVE  LeaseKnown(i)' /\ ReceiptHeld(i)' /\ PlanExpired(i)'
<1>1. LeaseKnown(i) /\ ReceiptHeld(i) /\ PlanExpired(i) /\ TypeOK /\ Retention \in Nat
  BY DEF RecoveryInv, CallsInv, RecoveryAssumption
<1>2. LeaseKnown(i)'
  <2>1. Past(i) => calls[i].deadline \in Nat
    BY <1>1, UnderWay, Idle DEF Past, Stages
  <2>2. control.leased \in Nat /\ control'.leased \in Nat /\ control.leased =< control'.leased
    BY <1>1, ControlType DEF Forward
  <2>3. Past(i)' = Past(i) /\ calls'[i].deadline = calls[i].deadline
    BY DEF Past
  <2> QED BY <1>1, <2>1, <2>2, <2>3 DEF LeaseKnown
<1>3. ReceiptHeld(i)'
  <2>1. SUFFICES ASSUME Holds(i) PROVE ReceiptHeld(i)'
    BY DEF ReceiptHeld, Holds
  <2>2. calls[i].deadline \in Nat /\ now \in Nat
    BY <1>1, <2>1, UnderWay DEF Holds, TypeOK
  <2>3. calls[i].receipt \in Receipts
    BY <1>1, <2>1 DEF ReceiptHeld
  <2>4. CASE At(i, "prepared")
    BY <1>1, <2>1, <2>2, <2>3, <2>4 DEF ReceiptHeld, Forward, At, Leased
  <2>5. CASE ~ At(i, "prepared")
    BY <1>1, <2>1, <2>3, <2>5 DEF ReceiptHeld, Forward, At
  <2> QED BY <2>4, <2>5
<1>4. PlanExpired(i)'
  <2>1. SUFFICES ASSUME calls[i].stage \in {"selected", "unproved"}, NEW r \in calls[i].plan
                 PROVE  receipts'[r].state \in Over /\ receipts'[r].resolved + Retention < now'
    BY DEF PlanExpired
  <2>2. receipts[r].state \in Over /\ receipts[r].resolved + Retention < now /\ r \in Receipts
    BY <1>1, <2>1, UnderWay DEF PlanExpired
  <2>3. receipts[r].resolved \in Nat /\ now \in Nat
    BY <1>1, <2>2, ReceiptType DEF TypeOK
  <2> QED BY <1>1, <2>2, <2>3 DEF Forward
<1> QED BY <1>2, <1>3, <1>4

\* one invocation goes on, the others stay
LEMMA CallsMove ==
  ASSUME RecoveryInv, Forward, NEW i \in Invocations, NEW row \in {NoCall} \cup Under, Goes(i, row),
         \A j \in Invocations : j # i =>
           LET r == calls[j].receipt IN
             At(j, "prepared") /\ receipts[r].state = "pending" =>
               receipts'[r].state = "pending" \/ ~ (now' < calls[j].deadline),
         LeaseKnown(i)' /\ ReceiptHeld(i)' /\ PlanExpired(i)',
         Holds(i)' => \A j \in Invocations : j # i /\ Holds(j) => calls[j].receipt # row.receipt
  PROVE  CallsInv' /\ calls' \in [Invocations -> {NoCall} \cup Under]
<1>1. calls' \in [Invocations -> {NoCall} \cup Under] /\ calls'[i] = row
      /\ \A j \in Invocations : j # i => calls'[j] = calls[j]
  BY Gone DEF RecoveryInv
<1>2. \A j \in Invocations : LeaseKnown(j)' /\ ReceiptHeld(j)' /\ PlanExpired(j)'
  BY <1>1, InvocationKept
<1>3. OwnReceipt'
  BY <1>1 DEF OwnReceipt, Holds, RecoveryInv, CallsInv
<1> QED BY <1>1, <1>2, <1>3 DEF CallsInv

LEMMA CallEnds ==
  ASSUME RecoveryInv, Forward, NEW i \in Invocations, Ends(i),
         \A j \in Invocations : j # i =>
           LET r == calls[j].receipt IN
             At(j, "prepared") /\ receipts[r].state = "pending" =>
               receipts'[r].state = "pending" \/ ~ (now' < calls[j].deadline)
  PROVE  CallsInv' /\ calls' \in [Invocations -> {NoCall} \cup Under]
<1>1. calls'[i] = NoCall /\ Goes(i, NoCall)
  BY Gone DEF RecoveryInv, Ends
<1>2. LeaseKnown(i)' /\ ReceiptHeld(i)' /\ PlanExpired(i)' /\ ~ Holds(i)'
  BY <1>1, Idle DEF LeaseKnown, ReceiptHeld, PlanExpired, Holds, Past, NoCall
<1> QED BY <1>1, <1>2, CallsMove

LEMMA CallsStay ==
  ASSUME RecoveryInv, Forward, calls' = calls,
         \A j \in Invocations :
           LET r == calls[j].receipt IN
             At(j, "prepared") /\ receipts[r].state = "pending" =>
               receipts'[r].state = "pending" \/ ~ (now' < calls[j].deadline)
  PROVE  CallsInv' /\ calls' \in [Invocations -> {NoCall} \cup Under]
<1>1. \A j \in Invocations : LeaseKnown(j)' /\ ReceiptHeld(j)' /\ PlanExpired(j)'
  BY InvocationKept
<1>2. OwnReceipt'
  BY DEF OwnReceipt, Holds, RecoveryInv, CallsInv
<1> QED BY <1>1, <1>2 DEF CallsInv, RecoveryInv, TypeOK

\* in a drained quarantine no lease is left
LEMMA NoLeaseLeft ==
  ASSUME RecoveryInv, Drained, NEW i \in Invocations, Past(i)
  PROVE  ~ Leased(i)
<1>1. calls[i].deadline \in Nat /\ now \in Nat /\ control.leased \in Nat
  BY UnderWay, Idle, ControlType DEF RecoveryInv, TypeOK, Past
<1> QED BY <1>1 DEF RecoveryInv, CallsInv, LeaseKnown, Drained, Leased

\* the receipts, when neither they nor the deletions change and no proof is lost
LEMMA ReceiptsKept ==
  ASSUME RecoveryInv, UNCHANGED <<receipts, deleted>>, workspace.proofs \subseteq workspace'.proofs
  PROVE  ProofLeft' /\ ReceiptTruth'
  BY DEF RecoveryInv, ProofLeft, ReceiptTruth

LEMMA ProofsKept ==
  ASSUME RecoveryInv, UNCHANGED <<copies, operator>>, deleted.receipts \subseteq deleted'.receipts,
         workspace'.proofs \subseteq deleted'.receipts
  PROVE  ProofsTrue'
<1>1. Taken' = Taken
  BY DEF Taken, Copied
<1> QED BY <1>1 DEF RecoveryInv, ProofsTrue

\* the operator's part, when the server works
LEMMA PhaseKept ==
  ASSUME RecoveryInv, UNCHANGED <<world, copies, run, operator>>, now' \in Nat, now =< now',
         control'.mode = control.mode,
         Active \/ (control'.leased = control.leased /\ InState("pending")' \subseteq InState("pending"))
  PROVE  PhaseFits'
<1>1. PhaseFits /\ now \in Nat /\ control.leased \in Nat
  BY ControlType DEF RecoveryInv, TypeOK
<1>2. Active' = Active /\ Recovering' = Recovering /\ Native' = Native
  BY DEF Active, Recovering, Native
<1>3. Recovering => Drained' /\ InState("pending")' = {} /\ run.copy \in Copies /\ Copied(run.copy)'
  BY <1>1, <1>2 DEF PhaseFits, Drained, Active, Copied
<1> QED BY <1>1, <1>2, <1>3 DEF PhaseFits

LEMMA AuthorityKeptBy ==
  ASSUME RecoveryInv, UNCHANGED <<world, run, operator, authority>>, workspace'.held = workspace.held
  PROVE  AuthorityBound'
  BY DEF RecoveryInv, AuthorityBound, Recovering, Native

LEMMA Assembled ==
  ASSUME RecoveryAssumption, TypeOK', CallsInv', PhaseFits', ProofLeft', ProofsTrue', ReceiptTruth',
         AuthorityBound'
  PROVE  RecoveryInv'
  BY DEF RecoveryInv, RecoveryAssumption

-----------------------------------------------------------------------------
(* Invocations.                                                            *)

LEMMA Still ==
  ASSUME TypeOK, UNCHANGED <<now, control, receipts>>, deleted.receipts \subseteq deleted'.receipts
  PROVE  Forward
<1>1. control.leased \in Nat /\ now \in Nat
  BY ControlType DEF TypeOK
<1> QED BY <1>1 DEF Forward

\* an invocation goes on and changes nothing but itself and, maybe, its lease
LEMMA Proceeds ==
  ASSUME RecoveryInv, NEW i \in Invocations, NEW row \in {NoCall} \cup Under, Goes(i, row), Forward,
         UNCHANGED <<world, now, workspace, receipts, run, copies, operator, history>>,
         control = control' \/ (Active /\ control'.mode = control.mode),
         control' \in [epoch : Nat, mode : {"active", "quarantined"}, leased : Nat],
         LeaseKnown(i)' /\ ReceiptHeld(i)' /\ PlanExpired(i)',
         Holds(i)' => \A j \in Invocations : j # i /\ Holds(j) => calls[j].receipt # row.receipt
  PROVE  RecoveryInv'
<1>1. CallsInv' /\ calls' \in [Invocations -> {NoCall} \cup Under]
  BY CallsMove
<1>2. TypeOK'
  BY <1>1 DEF TypeOK, history, RecoveryInv
<1>3. PhaseFits'
  <2>1. InState("pending")' = InState("pending")
    BY DEF InState
  <2>2. now \in Nat /\ control'.leased \in Nat
    BY DEF RecoveryInv, TypeOK
  <2> QED BY <2>1, <2>2, PhaseKept DEF Active
<1>4. ProofLeft' /\ ReceiptTruth' /\ AuthorityBound'
  BY ReceiptsKept, AuthorityKeptBy DEF history
<1>5. ProofsTrue'
  BY ProofsKept DEF history, RecoveryInv, ProofsTrue
<1> QED BY <1>1, <1>2, <1>3, <1>4, <1>5, Assembled DEF RecoveryInv

\* an invocation that gives up
LEMMA GivesUp ==
  ASSUME RecoveryInv, NEW i \in Invocations, Ends(i),
         UNCHANGED <<Server, workspace, control, receipts, history>>
  PROVE  RecoveryInv'
<1>1. calls'[i] = NoCall /\ Goes(i, NoCall)
  BY Gone DEF RecoveryInv, Ends
<1>2. LeaseKnown(i)' /\ ReceiptHeld(i)' /\ PlanExpired(i)' /\ ~ Holds(i)'
  BY <1>1, Idle DEF LeaseKnown, ReceiptHeld, PlanExpired, Holds, Past, NoCall
<1>3. Forward
  BY Still DEF RecoveryInv, Server, history
<1>4. control' \in [epoch : Nat, mode : {"active", "quarantined"}, leased : Nat]
  BY DEF RecoveryInv, TypeOK
<1> QED BY <1>1, <1>2, <1>3, <1>4, Proceeds DEF Server, history

LEMMA Opens ==
  ASSUME RecoveryInv, NEW i \in Invocations, NEW kind \in Kinds, NEW d \in Drafts, Open(i, kind, d)
  PROVE  RecoveryInv'
<1>0. TypeOK /\ Lease \in Nat /\ now \in Nat /\ control.epoch \in Nat
  BY ControlType DEF RecoveryInv, TypeOK, RecoveryAssumption
<1>1. PICK row : row = [kind |-> kind, epoch |-> control.epoch, draft |-> d, stage |-> "clocked",
                        deadline |-> now + Lease, receipt |-> None, plan |-> {}]
  OBVIOUS
<1>2. row \in Under /\ row.stage = "clocked"
  BY <1>0, <1>1 DEF Under, Stages
<1>3. Goes(i, row)
  BY <1>1 DEF Open
<1>4. calls'[i] = row
  BY <1>0, <1>2, <1>3, Gone
<1>5. LeaseKnown(i)' /\ ReceiptHeld(i)' /\ PlanExpired(i)' /\ ~ Holds(i)'
  BY <1>2, <1>4 DEF LeaseKnown, ReceiptHeld, PlanExpired, Holds, Past
<1>6. Forward
  BY <1>0, Still DEF Open, Server, history
<1>7. control' \in [epoch : Nat, mode : {"active", "quarantined"}, leased : Nat]
  BY <1>0 DEF Open, TypeOK
<1> QED BY <1>2, <1>3, <1>5, <1>6, <1>7, Proceeds DEF Open, Server, history

LEMMA TakesLease ==
  ASSUME RecoveryInv, NEW i \in Invocations, TakeLease(i)
  PROVE  RecoveryInv'
<1>1. CASE ~ (Active /\ control.epoch = calls[i].epoch)
  BY <1>1, GivesUp DEF TakeLease
<1>2. CASE Active /\ control.epoch = calls[i].epoch
  <2>a. TypeOK /\ calls[i] \in Under /\ calls[i].deadline \in Nat /\ control.leased \in Nat
    BY UnderWay, ControlType DEF TakeLease, At, RecoveryInv
  <2>0. TypeOK /\ calls[i] \in Under
        /\ control.leased \in Nat /\ Longest(calls[i].deadline) \in Nat
        /\ control.leased =< Longest(calls[i].deadline)
        /\ calls[i].deadline =< Longest(calls[i].deadline)
    BY <2>a DEF Longest
  <2>1. PICK row : row = [calls[i] EXCEPT !.stage = "leased"]
    OBVIOUS
  <2>2. row \in Under /\ row.stage = "leased" /\ row.deadline = calls[i].deadline
    BY <2>0, <2>1 DEF Under, Stages
  <2>3. Goes(i, row) /\ control' = [control EXCEPT !.leased = Longest(calls[i].deadline)]
    BY <1>2, <2>1 DEF TakeLease
  <2>4. calls'[i] = row
    BY <2>0, <2>2, <2>3, Gone
  <2>5. control' \in [epoch : Nat, mode : {"active", "quarantined"}, leased : Nat]
        /\ control'.leased = Longest(calls[i].deadline) /\ control'.mode = control.mode
    BY <2>0, <2>3, ControlType DEF TypeOK
  <2>6. LeaseKnown(i)' /\ ReceiptHeld(i)' /\ PlanExpired(i)' /\ ~ Holds(i)'
    BY <2>0, <2>2, <2>4, <2>5 DEF LeaseKnown, ReceiptHeld, PlanExpired, Holds, Past
  <2>7. Forward
    BY <2>0, <2>5 DEF TakeLease, Server, history, Forward, TypeOK
  <2> QED BY <1>2, <2>2, <2>3, <2>5, <2>6, <2>7, Proceeds DEF TakeLease, Server, history
<1> QED BY <1>1, <1>2

LEMMA Writes ==
  ASSUME RecoveryInv, NEW i \in Invocations, WriteBatch(i)
  PROVE  RecoveryInv'
<1>0. TypeOK /\ calls[i].draft \in Drafts /\ workspace \in Databases /\ authority \subseteq Drafts
  BY UnderWay DEF WriteBatch, At, RecoveryInv, TypeOK
<1>1. PICK held \in SUBSET Drafts : workspace' = [workspace EXCEPT !.held = held]
  <2>1. workspace.held \cup {calls[i].draft} \in SUBSET Drafts
        /\ workspace.held \ {calls[i].draft} \in SUBSET Drafts /\ workspace.held \in SUBSET Drafts
    BY <1>0, DatabaseType
  <2>2. workspace = [workspace EXCEPT !.held = workspace.held]
    BY <1>0 DEF Databases
  <2> QED BY <2>1, <2>2 DEF WriteBatch
<1>2. workspace' \in Databases /\ workspace'.held = held /\ workspace'.proofs = workspace.proofs
  BY <1>0, <1>1, DatabaseType DEF Databases
<1>3. authority' = IF workspace' = workspace THEN authority ELSE workspace'.held
  BY DEF WriteBatch
<1>4. Forward
  BY <1>0, Still DEF WriteBatch, Server
<1>5. CallsInv' /\ calls' \in [Invocations -> {NoCall} \cup Under]
  BY <1>4, CallEnds DEF WriteBatch
<1>6. TypeOK'
  BY <1>0, <1>2, <1>3, <1>5 DEF TypeOK, WriteBatch, Server
<1>7. PhaseFits'
  <2>1. InState("pending")' = InState("pending") /\ now \in Nat
    BY <1>0 DEF InState, WriteBatch, TypeOK
  <2> QED BY <2>1, PhaseKept DEF WriteBatch, Server
<1>8. ProofLeft' /\ ReceiptTruth'
  BY <1>2, ReceiptsKept DEF WriteBatch
<1>9. AuthorityBound'
  <2>1. CASE workspace' = workspace
    BY <1>3, <2>1, AuthorityKeptBy DEF WriteBatch, Server
  <2>2. CASE workspace' # workspace
    <3>1. Leased(i) /\ Past(i)
      BY <2>2 DEF WriteBatch, At, Past, Stages
    <3>2. ~ Drained
      BY <3>1, NoLeaseLeft
    <3>3. ~ Recovering /\ operator.step = "rest"
      BY <3>2 DEF RecoveryInv, PhaseFits
    <3> QED BY <1>3, <2>2, <3>3 DEF AuthorityBound, WriteBatch, Server, Recovering
  <2> QED BY <2>1, <2>2
<1>10. ProofsTrue'
  BY <1>2, ProofsKept DEF WriteBatch, Server, RecoveryInv, ProofsTrue
<1> QED BY <1>5, <1>6, <1>7, <1>8, <1>9, <1>10, Assembled DEF RecoveryInv

-----------------------------------------------------------------------------
(* A deletion, and the receipts that are retired.                          *)

LEMMA Prepares ==
  ASSUME RecoveryInv, NEW i \in Invocations, NEW r \in Receipts, Prepare(i, r)
  PROVE  RecoveryInv'
<1>1. CASE ~ Active
  BY <1>1, GivesUp DEF Prepare
<1>2. CASE Active
  <2>0. TypeOK /\ calls[i] \in Under /\ calls[i].draft \in Drafts /\ receipts[r].state = "none"
        /\ calls[i].deadline =< control.leased
    BY <1>2, UnderWay DEF Prepare, At, RecoveryInv, CallsInv, LeaseKnown, Past, Stages
  <2>1. PICK row : row = [calls[i] EXCEPT !.stage = "prepared", !.receipt = r]
    OBVIOUS
  <2>2. row \in Under /\ row.stage = "prepared" /\ row.receipt = r /\ row.draft = calls[i].draft
        /\ row.deadline = calls[i].deadline
    BY <2>0, <2>1 DEF Under, Stages
  <2>3. Goes(i, row)
    BY <1>2, <2>1 DEF Prepare
  <2>4. calls'[i] = row
    BY <2>0, <2>2, <2>3, Gone
  <2>5. PICK new : new = [state |-> "pending", draft |-> calls[i].draft, resolved |-> 0]
    OBVIOUS
  <2>6. new \in ReceiptRow /\ new.state = "pending" /\ new.draft = calls[i].draft
    BY <2>0, <2>5 DEF ReceiptRow, States
  <2>7. receipts' = [receipts EXCEPT ![r] = new]
    BY <1>2, <2>5 DEF Prepare
  <2>8. receipts' \in [Receipts -> ReceiptRow] /\ receipts'[r] = new
        /\ \A q \in Receipts : q # r => receipts'[q] = receipts[q]
    BY <2>0, <2>6, <2>7 DEF TypeOK
  <2>9. Forward
    <3>1. now \in Nat /\ control.leased \in Nat
      BY <2>0, ControlType DEF TypeOK
    <3> QED BY <2>0, <2>8, <3>1 DEF Forward, Prepare, Server, history, Over
  <2>10. LeaseKnown(i)' /\ ReceiptHeld(i)' /\ PlanExpired(i)'
    BY <2>0, <2>2, <2>4, <2>6, <2>8 DEF LeaseKnown, ReceiptHeld, PlanExpired, Holds, At, Prepare
  <2>11. \A j \in Invocations : Holds(j) => calls[j].receipt # r
    BY <2>0 DEF RecoveryInv, CallsInv, ReceiptHeld
  <2>12. \A j \in Invocations : j # i =>
           LET q == calls[j].receipt IN
             At(j, "prepared") /\ receipts[q].state = "pending" =>
               receipts'[q].state = "pending" \/ ~ (now' < calls[j].deadline)
    <3>1. SUFFICES ASSUME NEW j \in Invocations, At(j, "prepared")
                   PROVE  receipts'[calls[j].receipt] = receipts[calls[j].receipt]
      OBVIOUS
    <3>2. calls[j].receipt \in Receipts
      BY <3>1 DEF RecoveryInv, CallsInv, ReceiptHeld, Holds, At
    <3> QED BY <2>8, <2>11, <3>1, <3>2 DEF Holds, At
  <2>13. CallsInv' /\ calls' \in [Invocations -> {NoCall} \cup Under]
    BY <2>2, <2>3, <2>9, <2>10, <2>11, <2>12, CallsMove
  <2>14. TypeOK'
    BY <2>0, <2>8, <2>13 DEF TypeOK, Prepare, Server, history
  <2>15. PhaseFits'
    BY <1>2, <2>0, PhaseKept DEF Prepare, Server, TypeOK
  <2>16. ProofLeft' /\ ReceiptTruth'
    BY <2>0, <2>6, <2>8 DEF ProofLeft, ReceiptTruth, RecoveryInv, Prepare, history, TypeOK
  <2>17. AuthorityBound'
    BY AuthorityKeptBy DEF Prepare, Server, history
  <2>18. ProofsTrue'
    BY ProofsKept DEF Prepare, Server, history, RecoveryInv, ProofsTrue
  <2> QED BY <2>13, <2>14, <2>15, <2>16, <2>17, <2>18, Assembled DEF RecoveryInv
<1> QED BY <1>1, <1>2

LEMMA Deletes ==
  ASSUME RecoveryInv, NEW i \in Invocations, DeleteBatch(i)
  PROVE  RecoveryInv'
<1> DEFINE d == calls[i].draft
           r == calls[i].receipt
<1>1. CASE ~ (Deletable(i) /\ d \in workspace.alive \ workspace.held)
  BY <1>1, GivesUp DEF DeleteBatch, history
<1>2. CASE Deletable(i) /\ d \in workspace.alive \ workspace.held
  <2>0. TypeOK /\ calls[i] \in Under /\ d \in Drafts /\ r \in Receipts
        /\ receipts[r].state = "pending" /\ receipts[r].draft = d
        /\ calls[i].deadline =< control.leased
    BY <1>2, UnderWay DEF DeleteBatch, At, RecoveryInv, CallsInv, LeaseKnown, Past, Stages,
       ReceiptHeld, Holds, Deletable
  <2>1. PICK row : row = [calls[i] EXCEPT !.stage = "deleted"]
    OBVIOUS
  <2>2. row \in Under /\ row.stage = "deleted" /\ row.receipt = r /\ row.draft = d
        /\ row.deadline = calls[i].deadline
    BY <2>0, <2>1 DEF Under, Stages
  <2>3. Goes(i, row)
    BY <1>2, <2>1 DEF DeleteBatch
  <2>4. calls'[i] = row
    BY <2>0, <2>2, <2>3, Gone
  <2>5. workspace' = [workspace EXCEPT !.alive = workspace.alive \ {d},
                                       !.proofs = workspace.proofs \cup {r}]
    BY <1>2 DEF DeleteBatch
  <2>6. workspace' \in Databases /\ workspace'.held = workspace.held
        /\ workspace'.proofs = workspace.proofs \cup {r}
    BY <2>0, <2>5, DatabaseType DEF TypeOK, Databases
  <2>7. deleted' \in [drafts : SUBSET Drafts, receipts : SUBSET Receipts]
        /\ deleted'.receipts = deleted.receipts \cup {r}
    BY <1>2, <2>0 DEF DeleteBatch, TypeOK
  <2>8. UNCHANGED <<now, control, receipts, authority>>
    BY DEF DeleteBatch, Server
  <2>9. Forward
    BY <2>0, <2>7, <2>8, Still
  <2>10. LeaseKnown(i)' /\ ReceiptHeld(i)' /\ PlanExpired(i)'
    BY <2>0, <2>2, <2>4, <2>7, <2>8 DEF LeaseKnown, ReceiptHeld, PlanExpired, Holds, At
  <2>11. \A j \in Invocations : j # i /\ Holds(j) => calls[j].receipt # row.receipt
    BY <2>2 DEF RecoveryInv, CallsInv, OwnReceipt, Holds, DeleteBatch, At
  <2>12. CallsInv' /\ calls' \in [Invocations -> {NoCall} \cup Under]
    BY <2>2, <2>3, <2>8, <2>9, <2>10, <2>11, CallsMove
  <2>13. TypeOK'
    BY <2>0, <2>6, <2>7, <2>8, <2>12 DEF TypeOK, DeleteBatch, Server
  <2>14. PhaseFits'
    <3>1. InState("pending")' = InState("pending") /\ now \in Nat
      BY <2>0, <2>8 DEF InState, TypeOK
    <3> QED BY <2>8, <3>1, PhaseKept DEF DeleteBatch, Server
  <2>15. ProofLeft' /\ ReceiptTruth'
    BY <2>0, <2>6, <2>7, <2>8 DEF ProofLeft, ReceiptTruth, RecoveryInv
  <2>16. AuthorityBound'
    BY <2>6, <2>8, AuthorityKeptBy DEF DeleteBatch, Server
  <2>17. ProofsTrue'
    <3>1. workspace'.proofs \subseteq deleted'.receipts /\ deleted.receipts \subseteq deleted'.receipts
      BY <2>6, <2>7 DEF RecoveryInv, ProofsTrue
    <3> QED BY <3>1, ProofsKept DEF DeleteBatch, Server
  <2> QED BY <2>12, <2>13, <2>14, <2>15, <2>16, <2>17, Assembled DEF RecoveryInv
<1> QED BY <1>1, <1>2

LEMMA ReadsProof ==
  ASSUME RecoveryInv, NEW i \in Invocations, ConfirmRead(i)
  PROVE  RecoveryInv'
<1>1. CASE ~ (Leased(i) /\ calls[i].receipt \in workspace.proofs)
  BY <1>1, GivesUp DEF ConfirmRead
<1>2. CASE Leased(i) /\ calls[i].receipt \in workspace.proofs
  <2>0. TypeOK /\ calls[i] \in Under /\ Holds(i) /\ ReceiptHeld(i) /\ At(i, "deleted")
        /\ calls[i].deadline =< control.leased
    BY UnderWay DEF ConfirmRead, At, RecoveryInv, CallsInv, LeaseKnown, Past, Stages, Holds
  <2>1. PICK row : row = [calls[i] EXCEPT !.stage = "proved"]
    OBVIOUS
  <2>2. row \in Under /\ row.stage = "proved" /\ row.receipt = calls[i].receipt
        /\ row.draft = calls[i].draft /\ row.deadline = calls[i].deadline
    BY <2>0, <2>1 DEF Under, Stages
  <2>3. Goes(i, row)
    BY <1>2, <2>1 DEF ConfirmRead
  <2>4. calls'[i] = row
    BY <2>0, <2>2, <2>3, Gone
  <2>5. LeaseKnown(i)' /\ ReceiptHeld(i)' /\ PlanExpired(i)'
    BY <2>0, <2>2, <2>4 DEF LeaseKnown, ReceiptHeld, PlanExpired, Holds, At, ConfirmRead, history
  <2>6. \A j \in Invocations : j # i /\ Holds(j) => calls[j].receipt # row.receipt
    BY <2>0, <2>2 DEF RecoveryInv, CallsInv, OwnReceipt
  <2>7. Forward
    BY <2>0, Still DEF ConfirmRead, Server, history
  <2>8. control' \in [epoch : Nat, mode : {"active", "quarantined"}, leased : Nat]
    BY <2>0 DEF ConfirmRead, TypeOK
  <2> QED BY <2>2, <2>3, <2>5, <2>6, <2>7, <2>8, Proceeds DEF ConfirmRead, Server, history
<1> QED BY <1>1, <1>2

\* a receipt that becomes committed, cancelled or retired, and who is left untouched by it
LEMMA Confirms ==
  ASSUME RecoveryInv, NEW i \in Invocations, ConfirmWrite(i)
  PROVE  RecoveryInv'
<1> DEFINE r == calls[i].receipt
<1>0. TypeOK /\ r \in Receipts /\ r \in deleted.receipts /\ Holds(i) /\ now \in Nat
      /\ receipts[r].state # "none" /\ control.leased \in Nat
  BY ControlType DEF ConfirmWrite, At, RecoveryInv, CallsInv, ReceiptHeld, Holds, TypeOK
<1>1. CASE receipts[r].state # "pending"
  BY <1>1, GivesUp DEF ConfirmWrite
<1>2. CASE receipts[r].state = "pending"
  <2>1. PICK new : new = Resolved(r, "committed")
    OBVIOUS
  <2>2. new \in ReceiptRow /\ new.state = "committed" /\ new.draft = receipts[r].draft
    BY <1>0, <2>1, ReceiptType DEF ReceiptRow, States, Resolved
  <2>3. receipts' \in [Receipts -> ReceiptRow] /\ receipts'[r] = new
        /\ \A q \in Receipts : q # r => receipts'[q] = receipts[q]
    BY <1>0, <1>2, <2>1, <2>2 DEF TypeOK, ConfirmWrite
  <2>4. Forward
    BY <1>0, <1>2, <2>2, <2>3 DEF Forward, ConfirmWrite, Server, history, Over
  <2>5. \A j \in Invocations : j # i =>
          LET q == calls[j].receipt IN
            At(j, "prepared") /\ receipts[q].state = "pending" =>
              receipts'[q].state = "pending" \/ ~ (now' < calls[j].deadline)
    <3>1. SUFFICES ASSUME NEW j \in Invocations, j # i, At(j, "prepared")
                   PROVE  receipts'[calls[j].receipt] = receipts[calls[j].receipt]
      OBVIOUS
    <3>2. calls[j].receipt \in Receipts /\ calls[j].receipt # r
      BY <1>0, <3>1 DEF RecoveryInv, CallsInv, ReceiptHeld, Holds, At, OwnReceipt
    <3> QED BY <2>3, <3>1, <3>2
  <2>6. CallsInv' /\ calls' \in [Invocations -> {NoCall} \cup Under]
    BY <2>4, <2>5, CallEnds DEF ConfirmWrite
  <2>7. TypeOK'
    BY <1>0, <2>3, <2>6 DEF TypeOK, ConfirmWrite, Server, history
  <2>8. PhaseFits'
    <3>1. InState("pending")' \subseteq InState("pending")
      BY <2>2, <2>3 DEF InState
    <3> QED BY <1>0, <3>1, PhaseKept DEF ConfirmWrite, Server
  <2>9. ProofLeft' /\ ReceiptTruth'
    BY <1>0, <2>2, <2>3 DEF ProofLeft, ReceiptTruth, RecoveryInv, ConfirmWrite, history, TypeOK
  <2>10. AuthorityBound'
    BY AuthorityKeptBy DEF ConfirmWrite, Server, history
  <2>11. ProofsTrue'
    BY ProofsKept DEF ConfirmWrite, Server, history, RecoveryInv, ProofsTrue
  <2> QED BY <2>6, <2>7, <2>8, <2>9, <2>10, <2>11, Assembled DEF RecoveryInv
<1> QED BY <1>1, <1>2

LEMMA SelectsExpired ==
  ASSUME RecoveryInv, NEW i \in Invocations, RetireSelect(i)
  PROVE  RecoveryInv'
<1>1. CASE ~ (Active /\ \E r \in Receipts : Expired(r, now))
  BY <1>1, GivesUp DEF RetireSelect
<1>2. CASE Active /\ \E r \in Receipts : Expired(r, now)
  <2>0. TypeOK /\ calls[i] \in Under /\ control.epoch \in Nat /\ calls[i].deadline =< control.leased
    BY UnderWay, ControlType DEF RetireSelect, At, RecoveryInv, CallsInv, LeaseKnown, Past, Stages
  <2>1. PICK row : row = [calls[i] EXCEPT !.stage = "selected", !.epoch = control.epoch,
                                         !.plan = {r \in Receipts : Expired(r, now)}]
    OBVIOUS
  <2>2. row \in Under /\ row.stage = "selected" /\ row.deadline = calls[i].deadline
        /\ row.plan = {r \in Receipts : Expired(r, now)}
    <3>1. {r \in Receipts : Expired(r, now)} \in SUBSET Receipts /\ "selected" \in Stages
      BY DEF Stages
    <3> QED BY <2>0, <2>1, <3>1 DEF Under
  <2>3. Goes(i, row)
    BY <1>2, <2>1 DEF RetireSelect
  <2>4. calls'[i] = row
    BY <2>0, <2>2, <2>3, Gone
  <2>5. LeaseKnown(i)' /\ ReceiptHeld(i)' /\ ~ Holds(i)'
    BY <2>0, <2>2, <2>4 DEF LeaseKnown, ReceiptHeld, Holds, RetireSelect
  <2>6. PlanExpired(i)'
    BY <2>2, <2>4 DEF PlanExpired, Expired, Over, RetireSelect, Server
  <2>7. Forward
    BY <2>0, Still DEF RetireSelect, Server, history
  <2>8. control' \in [epoch : Nat, mode : {"active", "quarantined"}, leased : Nat]
    BY <2>0 DEF RetireSelect, TypeOK
  <2> QED BY <2>2, <2>3, <2>5, <2>6, <2>7, <2>8, Proceeds DEF RetireSelect, Server, history
<1> QED BY <1>1, <1>2

LEMMA RetiresProofs ==
  ASSUME RecoveryInv, NEW i \in Invocations, RetireProofs(i)
  PROVE  RecoveryInv'
<1>1. CASE ~ Leased(i)
  BY <1>1, GivesUp DEF RetireProofs
<1>2. CASE Leased(i)
  <2> DEFINE plan == calls[i].plan
  <2>0. TypeOK /\ calls[i] \in Under /\ PlanExpired(i) /\ At(i, "selected")
        /\ calls[i].deadline =< control.leased
    BY UnderWay DEF RetireProofs, At, RecoveryInv, CallsInv, LeaseKnown, Past, Stages
  <2>1. PICK row : row = [calls[i] EXCEPT !.stage = "unproved"]
    OBVIOUS
  <2>2. row \in Under /\ row.stage = "unproved" /\ row.deadline = calls[i].deadline /\ row.plan = plan
    BY <2>0, <2>1 DEF Under, Stages
  <2>3. Goes(i, row)
    BY <1>2, <2>1 DEF RetireProofs
  <2>4. calls'[i] = row
    BY <2>0, <2>2, <2>3, Gone
  <2>5. LeaseKnown(i)' /\ ReceiptHeld(i)' /\ ~ Holds(i)'
    BY <2>0, <2>2, <2>4 DEF LeaseKnown, ReceiptHeld, Holds, RetireProofs
  <2>6. PlanExpired(i)'
    BY <2>0, <2>2, <2>4 DEF PlanExpired, At, RetireProofs, Server
  <2>7. UNCHANGED <<now, control, receipts, deleted, authority>>
    BY DEF RetireProofs, Server, history
  <2>8. Forward
    BY <2>0, <2>7, Still
  <2>9. CallsInv' /\ calls' \in [Invocations -> {NoCall} \cup Under]
    BY <2>2, <2>3, <2>5, <2>6, <2>7, <2>8, CallsMove
  <2>10. workspace' = [workspace EXCEPT !.proofs = workspace.proofs \ plan,
                         !.replays = {p \in workspace.replays : p[2] \notin plan}]
    BY <1>2 DEF RetireProofs
  <2>11. workspace' \in Databases /\ workspace'.held = workspace.held
         /\ workspace'.proofs = workspace.proofs \ plan
    BY <2>0, <2>10, DatabaseType DEF TypeOK, Databases
  <2>12. TypeOK'
    BY <2>0, <2>7, <2>9, <2>11 DEF TypeOK, RetireProofs, Server
  <2>13. PhaseFits'
    <3>1. InState("pending")' = InState("pending") /\ now \in Nat
      BY <2>0, <2>7 DEF InState, TypeOK
    <3> QED BY <2>7, <3>1, PhaseKept DEF RetireProofs, Server
  <2>14. ProofLeft' /\ ReceiptTruth'
    <3>1. \A r \in Receipts : receipts[r].state = "pending" => r \notin plan
      BY <2>0 DEF PlanExpired, At, Over
    <3>2. deleted.receipts \subseteq Receipts
      BY <2>0 DEF TypeOK
    <3> QED BY <2>7, <2>11, <3>1, <3>2 DEF ProofLeft, ReceiptTruth, RecoveryInv
  <2>15. AuthorityBound'
    BY <2>7, <2>11, AuthorityKeptBy DEF RetireProofs, Server
  <2>16. ProofsTrue'
    <3>1. workspace'.proofs \subseteq deleted'.receipts
      BY <2>7, <2>11 DEF RecoveryInv, ProofsTrue
    <3> QED BY <2>7, <3>1, ProofsKept DEF RetireProofs, Server
  <2> QED BY <2>9, <2>12, <2>13, <2>14, <2>15, <2>16, Assembled DEF RecoveryInv
<1> QED BY <1>1, <1>2

LEMMA RetiresReceipts ==
  ASSUME RecoveryInv, NEW i \in Invocations, RetireReceipts(i)
  PROVE  RecoveryInv'
<1> DEFINE plan == calls[i].plan
<1>0. TypeOK /\ \A r \in plan : r \in Receipts /\ receipts[r].state \in Over
  <2>1. TypeOK /\ PlanExpired(i) /\ calls[i].stage = "unproved" /\ plan \subseteq Receipts
    BY UnderWay DEF RetireReceipts, At, RecoveryInv, CallsInv
  <2> QED BY <2>1 DEF PlanExpired
<1>1. CASE ~ (Active /\ control.epoch = calls[i].epoch)
  BY <1>1, GivesUp DEF RetireReceipts
<1>2. CASE Active /\ control.epoch = calls[i].epoch
  <2>1. receipts' = [r \in Receipts |-> IF r \in plan THEN [receipts[r] EXCEPT !.state = "retired"]
                                        ELSE receipts[r]]
    BY <1>2 DEF RetireReceipts
  <2>2. \A r \in Receipts :
          [receipts[r] EXCEPT !.state = "retired"] \in ReceiptRow
          /\ [receipts[r] EXCEPT !.state = "retired"].state = "retired"
          /\ [receipts[r] EXCEPT !.state = "retired"].draft = receipts[r].draft
          /\ [receipts[r] EXCEPT !.state = "retired"].resolved = receipts[r].resolved
    BY <1>0, ReceiptType DEF ReceiptRow, States
  <2>3. \A r \in Receipts : receipts[r] \in ReceiptRow
    BY <1>0, ReceiptType
  <2>4. receipts' \in [Receipts -> ReceiptRow]
    BY <2>1, <2>2, <2>3
  <2>5. \A r \in Receipts :
          /\ receipts'[r].draft = receipts[r].draft /\ receipts'[r].resolved = receipts[r].resolved
          /\ receipts'[r].state = IF r \in plan THEN "retired" ELSE receipts[r].state
    BY <2>1, <2>2
  <2>6. now \in Nat /\ control.leased \in Nat
    BY <1>0, ControlType DEF TypeOK
  <2>7. Forward
    BY <1>0, <2>5, <2>6 DEF Forward, RetireReceipts, Server, history, Over
  <2>8. CallsInv' /\ calls' \in [Invocations -> {NoCall} \cup Under]
    <3>1. \A j \in Invocations : j # i =>
            LET q == calls[j].receipt IN
              At(j, "prepared") /\ receipts[q].state = "pending" =>
                receipts'[q].state = "pending" \/ ~ (now' < calls[j].deadline)
      <4>1. \A j \in Invocations : At(j, "prepared") => calls[j].receipt \in Receipts
        BY DEF RecoveryInv, CallsInv, ReceiptHeld, Holds, At
      <4>2. \A r \in Receipts : receipts[r].state = "pending" => r \notin plan
        BY <1>0 DEF Over
      <4> QED BY <2>5, <4>1, <4>2
    <3> QED BY <2>7, <3>1, CallEnds DEF RetireReceipts
  <2>9. TypeOK'
    BY <1>0, <2>4, <2>8 DEF TypeOK, RetireReceipts, Server, history
  <2>10. PhaseFits'
    BY <1>2, <2>6, PhaseKept DEF RetireReceipts, Server
  <2>11. ProofLeft' /\ ReceiptTruth'
    <3>1. deleted.receipts \subseteq Receipts
      BY <1>0 DEF TypeOK
    <3> QED BY <2>5, <3>1 DEF ProofLeft, ReceiptTruth, RecoveryInv, RetireReceipts, history
  <2>12. AuthorityBound'
    BY AuthorityKeptBy DEF RetireReceipts, Server, history
  <2>13. ProofsTrue'
    BY ProofsKept DEF RetireReceipts, Server, history, RecoveryInv, ProofsTrue
  <2> QED BY <2>8, <2>9, <2>10, <2>11, <2>12, <2>13, Assembled DEF RecoveryInv
<1> QED BY <1>1, <1>2

LEMMA Loses ==
  ASSUME RecoveryInv, NEW i \in Invocations, Lose(i)
  PROVE  RecoveryInv'
BY GivesUp DEF Lose

LEMMA InvocationSafe ==
  ASSUME RecoveryInv, NEW i \in Invocations, Invocation(i)
  PROVE  RecoveryInv'
BY Opens, TakesLease, Writes, Prepares, Deletes, ReadsProof, Confirms, SelectsExpired,
   RetiresProofs, RetiresReceipts, Loses DEF Invocation

-----------------------------------------------------------------------------
(* Copies, the clock and the operator.                                     *)

LEMMA Copying ==
  ASSUME RecoveryInv, NEW c \in Copies, CopyWorkspace(c)
  PROVE  RecoveryInv'
<1>0. TypeOK /\ now \in Nat /\ workspace \in Databases /\ control.leased \in Nat
  BY ControlType DEF RecoveryInv, TypeOK
<1>1. PICK row : row = [at |-> "kept", started |-> now, workspace |-> workspace]
  OBVIOUS
<1>2. row \in Kept /\ row.at = "kept"
  BY <1>0, <1>1 DEF Kept
<1>3. copies' \in [Copies -> {NoCopy} \cup Kept] /\ \A b \in Copies : Copied(b) => Copied(b)'
  BY <1>0, <1>1, <1>2 DEF TypeOK, CopyWorkspace, Copied
<1>4. Forward
  BY <1>0, Still DEF CopyWorkspace, history
<1>5. CallsInv' /\ calls' \in [Invocations -> {NoCall} \cup Under]
  BY <1>4, CallsStay DEF CopyWorkspace
<1>6. TypeOK'
  BY <1>0, <1>3 DEF TypeOK, CopyWorkspace, history
<1>7. PhaseFits'
  BY <1>0, <1>3 DEF RecoveryInv, PhaseFits, CopyWorkspace, Active, Recovering, Drained, Native, InState
<1>8. ProofLeft' /\ ReceiptTruth'
  BY ReceiptsKept DEF CopyWorkspace, history
<1>9. AuthorityBound'
  BY AuthorityKeptBy DEF CopyWorkspace, history
<1>10. ProofsTrue'
  <2>1. \A b \in Taken' :
          (b \in Taken /\ copies'[b] = copies[b]) \/ copies'[b].workspace.proofs = workspace.proofs
    BY <1>0, <1>1 DEF Taken, Copied, CopyWorkspace, TypeOK
  <2> QED BY <2>1 DEF ProofsTrue, RecoveryInv, CopyWorkspace, history
<1> QED BY <1>5, <1>6, <1>7, <1>8, <1>9, <1>10, Assembled DEF RecoveryInv

LEMMA Ticks ==
  ASSUME RecoveryInv, Tick
  PROVE  RecoveryInv'
<1>a. TypeOK /\ now \in Nat /\ control.leased \in Nat
  BY ControlType DEF RecoveryInv, TypeOK
<1>0. TypeOK /\ now \in Nat /\ control.leased \in Nat /\ now' \in Nat /\ now =< now'
  BY <1>a DEF Tick
<1>1. Forward
  BY <1>0 DEF Forward, Tick, history
<1>2. CallsInv' /\ calls' \in [Invocations -> {NoCall} \cup Under]
  BY <1>1, CallsStay DEF Tick
<1>3. TypeOK'
  BY <1>0 DEF TypeOK, Tick, history
<1>4. PhaseFits'
  BY <1>0, PhaseKept DEF Tick, InState
<1>5. ProofLeft' /\ ReceiptTruth'
  BY ReceiptsKept DEF Tick, history
<1>6. AuthorityBound'
  BY AuthorityKeptBy DEF Tick, history
<1>7. ProofsTrue'
  BY ProofsKept DEF Tick, history, RecoveryInv, ProofsTrue
<1> QED BY <1>2, <1>3, <1>4, <1>5, <1>6, <1>7, Assembled DEF RecoveryInv

LEMMA Quarantines ==
  ASSUME RecoveryInv, Quarantine
  PROVE  RecoveryInv'
<1>a. TypeOK /\ PhaseFits /\ Active
  BY DEF RecoveryInv, Quarantine
<1>b. control.epoch \in Nat /\ control.leased \in Nat
  BY <1>a, ControlType
<1>c. operator = Rest /\ ~ Recovering
  BY <1>a DEF PhaseFits
<1>0. TypeOK /\ control.epoch + 1 \in Nat /\ control.leased \in Nat /\ Active /\ operator = Rest
      /\ ~ Recovering
  BY <1>a, <1>b, <1>c
<1>1. control' = [control EXCEPT !.mode = "quarantined", !.epoch = control.epoch + 1]
  BY DEF Quarantine
<1>2. control' \in [epoch : Nat, mode : {"active", "quarantined"}, leased : Nat]
      /\ control'.leased = control.leased /\ control'.mode = "quarantined"
  BY <1>0, <1>1, ControlType DEF TypeOK
<1>3. run' \in RunRow
      /\ run'.phase = "none"
  BY NoneIsNone DEF Quarantine, NoRun, Phases, RunRow
<1>4. Forward
  BY <1>0, <1>2 DEF Forward, Quarantine, Process, history, TypeOK
<1>5. CallsInv' /\ calls' \in [Invocations -> {NoCall} \cup Under]
  BY <1>4, CallsStay DEF Quarantine, Process
<1>6. TypeOK'
  BY <1>0, <1>2, <1>3, <1>5 DEF TypeOK, Quarantine, Process, history
<1>7. PhaseFits'
  BY <1>0, <1>2, <1>3 DEF PhaseFits, Quarantine, Active, Recovering, Rest, RecoveryInv, Process, Native
<1>8. ProofLeft' /\ ReceiptTruth'
  BY ReceiptsKept DEF Quarantine, Process, history
<1>9. AuthorityBound'
  BY <1>0, <1>3 DEF RecoveryInv, AuthorityBound, Quarantine, Process, Recovering, Rest, history
<1>10. ProofsTrue'
  BY ProofsKept DEF Quarantine, Process, history, RecoveryInv, ProofsTrue
<1> QED BY <1>5, <1>6, <1>7, <1>8, <1>9, <1>10, Assembled DEF RecoveryInv

\* what settling does to a receipt
LEMMA SettledRows ==
  ASSUME TypeOK
  PROVE  /\ Settled \in [Receipts -> ReceiptRow]
         /\ \A r \in Receipts :
              /\ Settled[r].draft = receipts[r].draft
              /\ receipts[r].state # "pending" => Settled[r] = receipts[r]
              /\ receipts[r].state = "pending" =>
                   /\ Settled[r].state = IF r \in workspace.proofs THEN "committed" ELSE "cancelled"
                   /\ Settled[r].resolved = now
<1>1. ASSUME NEW r \in Receipts, NEW s \in {"committed", "cancelled"}
      PROVE  /\ Resolved(r, s) \in ReceiptRow /\ Resolved(r, s).draft = receipts[r].draft
             /\ Resolved(r, s).state = s /\ Resolved(r, s).resolved = now
  BY <1>1, ReceiptType DEF Resolved, ReceiptRow, States, TypeOK
<1>2. \A r \in Receipts : receipts[r] \in ReceiptRow
  BY ReceiptType
<1> QED BY <1>1, <1>2 DEF Settled

\* settling in a drained quarantine, whatever the operator does next
LEMMA Settling ==
  ASSUME RecoveryInv, Drained, receipts' = Settled,
         UNCHANGED <<world, now, workspace, control, copies, calls, history>>
  PROVE  /\ Forward /\ CallsInv' /\ ProofLeft' /\ ReceiptTruth'
         /\ receipts' \in [Receipts -> ReceiptRow] /\ InState("pending")' = {}
<1>0. TypeOK /\ now \in Nat /\ control.leased \in Nat /\ deleted.receipts \subseteq Receipts
  BY ControlType DEF RecoveryInv, TypeOK
<1>1. \A r \in Receipts :
        /\ receipts'[r].draft = receipts[r].draft
        /\ receipts[r].state # "pending" => receipts'[r] = receipts[r]
        /\ receipts[r].state = "pending" =>
             receipts'[r].state = IF r \in workspace.proofs THEN "committed" ELSE "cancelled"
  BY <1>0, SettledRows
<1>2. Forward
  BY <1>0, <1>1 DEF Forward, history, Over
<1>3. \A j \in Invocations : At(j, "prepared") => ~ (now' < calls[j].deadline)
  <2>1. \A j \in Invocations : At(j, "prepared") => Past(j)
    BY DEF At, Past, Stages
  <2> QED BY <2>1, NoLeaseLeft DEF Leased
<1>4. CallsInv'
  BY <1>2, <1>3, CallsStay
<1>5. InState("pending")' = {}
  BY <1>1 DEF InState
<1>6. ProofLeft' /\ ReceiptTruth'
  <2>1. ReceiptTruth /\ ProofLeft
    BY DEF RecoveryInv
  <2>2. \A r \in Receipts : receipts[r].state = "pending" /\ r \notin workspace.proofs
                              => r \notin deleted.receipts
    BY <2>1 DEF ProofLeft
  <2>3. workspace.proofs \subseteq deleted.receipts
    BY DEF RecoveryInv, ProofsTrue
  <2> QED BY <1>0, <1>1, <2>1, <2>2, <2>3 DEF ProofLeft, ReceiptTruth, history, InState
<1> QED BY <1>0, <1>2, <1>4, <1>5, <1>6, SettledRows

LEMMA Settles ==
  ASSUME RecoveryInv, Settle
  PROVE  RecoveryInv'
<1>1. /\ CallsInv' /\ ProofLeft' /\ ReceiptTruth' /\ receipts' \in [Receipts -> ReceiptRow]
      /\ InState("pending")' = {}
  BY Settling DEF Settle, Process
<1>2. TypeOK'
  BY <1>1 DEF RecoveryInv, TypeOK, Settle, Process, history
<1>3. PhaseFits'
  BY <1>1 DEF RecoveryInv, PhaseFits, Settle, Process, Active, Recovering, Drained, Native, Copied
<1>4. AuthorityBound'
  BY AuthorityKeptBy DEF Settle, Process, history
<1>5. ProofsTrue'
  BY ProofsKept DEF Settle, Process, history, RecoveryInv, ProofsTrue
<1> QED BY <1>1, <1>2, <1>3, <1>4, <1>5, Assembled DEF RecoveryInv

\* the operator works on the run and the workspace; leases, receipts and deletions stay
LEMMA OperatorWorks ==
  ASSUME RecoveryInv, UNCHANGED <<Process, control, receipts>>,
         workspace' \in Databases, workspace.proofs \subseteq workspace'.proofs \/ InState("pending") = {},
         workspace'.proofs \subseteq deleted.receipts,
         run' \in RunRow,
         operator' \in OperatorRow,
         \A ws \in operator'.workspace : ws.proofs \subseteq deleted.receipts,
         PhaseFits', AuthorityBound'
  PROVE  RecoveryInv'
<1>1. Forward
  BY Still DEF RecoveryInv, Process, history
<1>2. CallsInv' /\ calls' \in [Invocations -> {NoCall} \cup Under]
  BY <1>1, CallsStay DEF Process
<1>3. TypeOK'
  BY <1>2 DEF RecoveryInv, TypeOK, Process, history
<1>4. ProofLeft' /\ ReceiptTruth'
  <2>1. \A r \in Receipts : receipts[r].state = "pending" => workspace.proofs \subseteq workspace'.proofs
    BY DEF InState
  <2>2. deleted.receipts \subseteq Receipts
    BY DEF RecoveryInv, TypeOK
  <2> QED BY <2>1, <2>2 DEF RecoveryInv, ProofLeft, ReceiptTruth, Process, history
<1>5. ProofsTrue'
  <2>1. Taken' = Taken
    BY DEF Taken, Copied, Process
  <2> QED BY <2>1 DEF RecoveryInv, ProofsTrue, Process, history
<1> QED BY <1>2, <1>3, <1>4, <1>5, Assembled DEF RecoveryInv

\* what the operator finds when it begins a step
LEMMA AtWork ==
  ASSUME RecoveryInv
  PROVE  /\ TypeOK /\ PhaseFits /\ AuthorityBound /\ ProofsTrue
         /\ workspace \in Databases /\ workspace.held \in SUBSET Drafts
         /\ workspace.proofs \subseteq deleted.receipts
         /\ run \in RunRow /\ operator \in OperatorRow
BY DatabaseType DEF RecoveryInv, TypeOK, ProofsTrue

\* and what it leaves behind it
LEMMA OperatorAt ==
  /\ Rest \in OperatorRow /\ Rest.step = "rest" /\ Rest.workspace = {}
  /\ \A s \in Steps : /\ [Rest EXCEPT !.step = s] \in OperatorRow
                      /\ [Rest EXCEPT !.step = s].step = s
                      /\ [Rest EXCEPT !.step = s].workspace = {}
  /\ \A s \in Steps, r \in Receipts : /\ [Rest EXCEPT !.step = s, !.receipt = r] \in OperatorRow
                      /\ [Rest EXCEPT !.step = s, !.receipt = r].step = s
                      /\ [Rest EXCEPT !.step = s, !.receipt = r].receipt = r
                      /\ [Rest EXCEPT !.step = s, !.receipt = r].workspace = {}
BY DEF Rest, Steps, OperatorRow

LEMMA RunAt ==
  ASSUME TypeOK, NEW p \in Phases
  PROVE  /\ [run EXCEPT !.phase = p] \in RunRow
         /\ [run EXCEPT !.phase = p].phase = p /\ [run EXCEPT !.phase = p].copy = run.copy
         /\ [run EXCEPT !.phase = p].held = run.held /\ [run EXCEPT !.phase = p].cursor = run.cursor
BY DEF TypeOK, RunRow

LEMMA PreparesRun ==
  ASSUME RecoveryInv, NEW c \in Copies, PrepareRun(c)
  PROVE  RecoveryInv'
<1>1. PICK new : new = [phase |-> "prepared", copy |-> c, held |-> workspace.held, cursor |-> None]
  OBVIOUS
<1>2. /\ new \in RunRow
      /\ new.phase = "prepared" /\ new.copy = c /\ new.held = workspace.held /\ new.cursor = None
  BY <1>1, AtWork, NoneIsNone DEF Phases, RunRow
<1>3. run' = new /\ run.phase = "none"
  BY <1>1 DEF PrepareRun
<1>a. Drained /\ InState("pending") = {} /\ Copied(c) /\ ~ Native /\ operator = Rest /\ ~ Active
  BY DEF PrepareRun, Drained, Active
<1>b. UNCHANGED <<Drained, InState("pending"), Copied(c), Native, Active, operator>>
  BY DEF PrepareRun, Process, Drained, InState, Copied, Native, Active
<1>4. PhaseFits'
  BY <1>2, <1>3, <1>a, <1>b, OperatorAt DEF PhaseFits, Recovering, Rest
<1>5. AuthorityBound'
  BY <1>2, <1>3, AtWork, OperatorAt DEF AuthorityBound, PrepareRun, Process, Recovering, Native, history
<1> QED BY <1>2, <1>3, <1>4, <1>5, AtWork, OperatorWorks DEF PrepareRun, Process, ProofsTrue

LEMMA Claims ==
  ASSUME RecoveryInv, ClaimRestore
  PROVE  RecoveryInv'
<1>1. /\ run' \in RunRow
      /\ run'.phase = "restoring" /\ run'.copy = run.copy /\ run'.held = run.held
      /\ run'.cursor = run.cursor /\ run.phase = "prepared"
  BY AtWork, RunAt DEF ClaimRestore, Phases
<1>2. /\ operator' \in OperatorRow
      /\ operator'.step = "restore" /\ operator'.workspace = {}
  BY OperatorAt DEF ClaimRestore, Steps
<1>a. ~ Native /\ ~ Active /\ Recovering
  BY <1>1 DEF ClaimRestore, Drained, Active, Recovering
<1>b. UNCHANGED <<Drained, InState("pending"), Native, Active, copies>>
  BY DEF ClaimRestore, Process, Drained, InState, Native, Active
<1>3. PhaseFits'
  BY <1>1, <1>2, <1>a, <1>b, AtWork DEF PhaseFits, Recovering, Copied
<1>4. AuthorityBound'
  BY <1>1, <1>2, AtWork DEF AuthorityBound, ClaimRestore, Process, Recovering, Native, history
<1> QED BY <1>1, <1>2, <1>3, <1>4, AtWork, OperatorWorks DEF ClaimRestore, Process, ProofsTrue

LEMMA RestoresBookmark ==
  ASSUME RecoveryInv, RestoreBookmark
  PROVE  RecoveryInv'
<1>1. Recovering /\ ~ Native /\ run.phase = "restoring" /\ run.copy \in Taken /\ InState("pending") = {}
  BY AtWork DEF PhaseFits, RestoreBookmark, Taken
<1>2. workspace' \in Databases /\ workspace'.proofs \subseteq deleted.receipts
  BY <1>1, AtWork, CopyType DEF RestoreBookmark, ProofsTrue
<1>3. /\ operator' \in OperatorRow
      /\ operator'.step = "restored" /\ operator'.workspace = {}
  BY OperatorAt DEF RestoreBookmark, Steps
<1>4. PhaseFits'
  BY <1>1, <1>3, AtWork DEF PhaseFits, RestoreBookmark, Process, Active, Recovering, Drained, Native,
     InState, Copied
<1>5. AuthorityBound'
  BY <1>1, <1>3, AtWork DEF AuthorityBound, RestoreBookmark, Process, Recovering, Native, history
<1> QED BY <1>1, <1>2, <1>3, <1>4, <1>5, AtWork, OperatorWorks DEF RestoreBookmark

LEMMA RecordsRestore ==
  ASSUME RecoveryInv, RecordRestore
  PROVE  RecoveryInv'
<1>1. /\ run' \in RunRow
      /\ run'.phase = "restored" /\ run'.copy = run.copy /\ run'.held = run.held
      /\ run'.cursor = run.cursor /\ run.phase = "restoring"
  BY AtWork, RunAt DEF RecordRestore, Phases
<1>2. operator' = Rest
  BY DEF RecordRestore
<1>a. ~ Native /\ ~ Active /\ Recovering
  BY <1>1, AtWork DEF RecordRestore, Drained, Active, Recovering, PhaseFits
<1>b. UNCHANGED <<Drained, InState("pending"), Native, Active, copies>>
  BY DEF RecordRestore, Process, Drained, InState, Native, Active
<1>3. PhaseFits'
  BY <1>1, <1>2, <1>a, <1>b, AtWork, OperatorAt DEF PhaseFits, Recovering, Copied
<1>4. AuthorityBound'
  BY <1>1, <1>2, AtWork, OperatorAt DEF AuthorityBound, RecordRestore, Process, Recovering, Native, history
<1> QED BY <1>1, <1>2, <1>3, <1>4, AtWork, OperatorAt, OperatorWorks DEF RecordRestore, Process

\* replaying touches neither the proofs nor what publications hold
LEMMA ReplayedType ==
  ASSUME NEW ws \in Databases, NEW r \in Receipts, TypeOK
  PROVE  /\ Replayed(r, ws) \in Databases /\ Replayed(r, ws).proofs = ws.proofs
         /\ Replayed(r, ws).held = ws.held
<1>1. control.epoch \in Nat
  BY ControlType
<1>2. ws.alive \ {receipts[r].draft} \in SUBSET Drafts
      /\ ws.replays \cup {<<control.epoch, r>>} \in SUBSET (Nat \X Receipts)
  BY <1>1 DEF Databases
<1>3. \A a \in SUBSET Drafts, p \in SUBSET (Nat \X Receipts) :
        /\ [ws EXCEPT !.alive = a, !.replays = p] \in Databases
        /\ [ws EXCEPT !.alive = a, !.replays = p].proofs = ws.proofs
        /\ [ws EXCEPT !.alive = a, !.replays = p].held = ws.held
  BY DEF Databases
<1> QED BY <1>2, <1>3 DEF Replayed

LEMMA AllReplayedType ==
  ASSUME NEW ws \in Databases, TypeOK
  PROVE  /\ AllReplayed(ws) \in Databases /\ AllReplayed(ws).proofs = ws.proofs
         /\ AllReplayed(ws).held = ws.held
         /\ AllReplayed(ws).alive = ws.alive \ {receipts[r].draft : r \in InState("committed")}
<1>1. control.epoch \in Nat
  BY ControlType
<1>2. ws.alive \ {receipts[r].draft : r \in InState("committed")} \in SUBSET Drafts
      /\ ws.replays \cup {<<control.epoch, r>> : r \in InState("committed")}
           \in SUBSET (Nat \X Receipts)
  BY <1>1 DEF Databases, InState
<1>3. \A a \in SUBSET Drafts, p \in SUBSET (Nat \X Receipts) :
        /\ [ws EXCEPT !.alive = a, !.replays = p] \in Databases
        /\ [ws EXCEPT !.alive = a, !.replays = p].proofs = ws.proofs
        /\ [ws EXCEPT !.alive = a, !.replays = p].held = ws.held
        /\ [ws EXCEPT !.alive = a, !.replays = p].alive = a
  BY DEF Databases
<1> QED BY <1>2, <1>3 DEF AllReplayed

LEMMA Replays ==
  ASSUME RecoveryInv, NEW r \in Receipts, ReplayNext(r)
  PROVE  RecoveryInv'
<1>0. Recovering /\ ~ Native /\ ~ Active /\ run.phase = "restored"
  BY DEF ReplayNext, Recovering, Drained, Active
<1>1. workspace' \in Databases /\ workspace'.proofs = workspace.proofs
  BY AtWork, ReplayedType DEF ReplayNext
<1>2. operator' \in OperatorRow /\ operator'.step = "replayed" /\ operator'.receipt = r
      /\ operator'.workspace = {}
  BY OperatorAt DEF ReplayNext, Steps
<1>3. PhaseFits'
  <2>1. UNCHANGED <<Drained, InState("pending"), Native, Active, copies, run>>
    BY DEF ReplayNext, Process, Drained, InState, Native, Active
  <2> QED BY <1>0, <1>2, <2>1, AtWork DEF PhaseFits, Recovering, Copied
<1>4. AuthorityBound'
  BY <1>0, <1>2, AtWork DEF AuthorityBound, ReplayNext, Process, Recovering, Native, history
<1> QED BY <1>1, <1>2, <1>3, <1>4, AtWork, OperatorWorks DEF ReplayNext

LEMMA MovesCursor ==
  ASSUME RecoveryInv, MoveCursor
  PROVE  RecoveryInv'
<1>0. Recovering /\ ~ Native /\ ~ Active /\ run.phase = "restored" /\ operator.receipt \in Receipts
      /\ operator.receipt \in Nat
  BY AtWork DEF MoveCursor, Recovering, Drained, Active, PhaseFits, RecoveryInv, RecoveryAssumption
<1>1. /\ run' \in RunRow /\ run'.phase = run.phase /\ run'.copy = run.copy /\ run'.held = run.held
  BY <1>0, AtWork DEF MoveCursor, RunRow
<1>2. operator' = Rest
  BY DEF MoveCursor
<1>3. PhaseFits'
  <2>1. UNCHANGED <<Drained, InState("pending"), Native, Active, copies>>
    BY DEF MoveCursor, Process, Drained, InState, Native, Active
  <2> QED BY <1>0, <1>1, <1>2, <2>1, AtWork, OperatorAt DEF PhaseFits, Recovering, Copied
<1>4. AuthorityBound'
  BY <1>0, <1>1, <1>2, AtWork, OperatorAt DEF AuthorityBound, MoveCursor, Process, Recovering, Native,
     history
<1> QED BY <1>1, <1>2, <1>3, <1>4, AtWork, OperatorAt, OperatorWorks DEF MoveCursor, Process

LEMMA BeginsNative ==
  ASSUME RecoveryInv, NEW c \in Copies, BeginNative(c)
  PROVE  RecoveryInv'
<1>0. Native /\ ~ Active /\ Drained /\ Copied(c)
  BY DEF BeginNative, Drained, Active
<1>1. /\ CallsInv' /\ ProofLeft' /\ ReceiptTruth' /\ receipts' \in [Receipts -> ReceiptRow]
      /\ InState("pending")' = {}
  BY Settling DEF BeginNative, Process
<1>2. run' \in RunRow /\ run'.phase = "prepared" /\ run'.copy = c /\ run'.cursor = None
  BY NoneIsNone DEF BeginNative, NoRun, Phases, RunRow
<1>3. operator' \in OperatorRow /\ operator'.step = "build" /\ operator'.workspace = {}
  BY OperatorAt DEF BeginNative, Steps
<1>4. TypeOK'
  BY <1>1, <1>2, <1>3 DEF RecoveryInv, TypeOK, BeginNative, Process, history
<1>5. PhaseFits'
  <2>1. UNCHANGED <<Drained, Native, Active, Copied(c)>>
    BY DEF BeginNative, Process, Drained, Native, Active, Copied
  <2> QED BY <1>0, <1>1, <1>2, <1>3, <2>1 DEF PhaseFits, Recovering
<1>6. AuthorityBound'
  <2>1. run.phase \notin {"restoring", "restored"}
    BY <1>0, AtWork DEF PhaseFits
  <2> QED BY <1>0, <1>2, <1>3, <2>1, AtWork DEF AuthorityBound, BeginNative, Process, Recovering,
          Native, history
<1>7. ProofsTrue'
  <2>1. Taken' = Taken
    BY DEF Taken, Copied, BeginNative, Process
  <2> QED BY <1>3, <2>1, AtWork DEF ProofsTrue, BeginNative, Process, history
<1> QED BY <1>1, <1>4, <1>5, <1>6, <1>7, Assembled DEF RecoveryInv

LEMMA BuildsNative ==
  ASSUME RecoveryInv, BuildNative
  PROVE  RecoveryInv'
<1> DEFINE copy == copies[run.copy].workspace
           new == AllReplayed(copy)
<1>0. Native /\ Recovering /\ run.copy \in Taken /\ run.phase = "prepared"
  BY AtWork DEF BuildNative, PhaseFits, Taken, Recovering
<1>1. new \in Databases /\ new.proofs \subseteq deleted.receipts
  BY <1>0, AtWork, CopyType, AllReplayedType DEF ProofsTrue
<1>2. new.held = authority
  BY <1>0, AtWork DEF BuildNative, SameAuthority, AuthorityBound
<1>3. operator' = [Rest EXCEPT !.step = "built", !.workspace = {new}]
  BY DEF BuildNative
<1>4. operator' \in OperatorRow /\ operator'.step = "built" /\ operator'.workspace = {new}
  BY <1>1, <1>3 DEF OperatorRow, Rest, Steps
<1>5. PhaseFits'
  <2>1. UNCHANGED <<Drained, InState("pending"), Native, Active, copies, run>>
    BY DEF BuildNative, Process, Drained, InState, Native, Active
  <2> QED BY <1>0, <1>4, <2>1, AtWork DEF PhaseFits, Recovering, Copied, Drained, Active
<1>6. AuthorityBound'
  BY <1>0, <1>2, <1>4, AtWork DEF AuthorityBound, BuildNative, Process, Recovering, Native, history
<1> QED BY <1>1, <1>4, <1>5, <1>6, AtWork, OperatorWorks DEF BuildNative

LEMMA ReplacesNative ==
  ASSUME RecoveryInv, ReplaceNative
  PROVE  RecoveryInv'
<1>0. Native /\ Recovering /\ run.phase = "prepared" /\ ~ Active /\ InState("pending") = {}
  BY AtWork DEF ReplaceNative, PhaseFits, Recovering, Drained, Active
<1>1. workspace' \in Databases /\ workspace'.proofs \subseteq deleted.receipts
      /\ workspace'.held = authority
  BY AtWork DEF ReplaceNative, ProofsTrue, AuthorityBound, OperatorRow
<1>2. operator' \in OperatorRow /\ operator'.step = "replaced" /\ operator'.workspace = {}
  BY OperatorAt DEF ReplaceNative, Steps
<1>3. PhaseFits'
  <2>1. UNCHANGED <<Drained, InState("pending"), Native, Active, copies, run>>
    BY DEF ReplaceNative, Process, Drained, InState, Native, Active
  <2> QED BY <1>0, <1>2, <2>1, AtWork DEF PhaseFits, Recovering, Copied
<1>4. AuthorityBound'
  BY <1>0, <1>1, <1>2 DEF AuthorityBound, ReplaceNative, Process, Recovering, Native, history
<1> QED BY <1>0, <1>1, <1>2, <1>3, <1>4, AtWork, OperatorWorks DEF ReplaceNative

LEMMA Interrupts ==
  ASSUME RecoveryInv, Interrupt
  PROVE  RecoveryInv'
<1>1. operator' = Rest
  BY DEF Interrupt
<1>2. PhaseFits'
  <2>1. UNCHANGED <<Drained, InState("pending"), Native, Active, copies, run>>
    BY DEF Interrupt, Process, Drained, InState, Native, Active
  <2> QED BY <1>1, <2>1, AtWork, OperatorAt DEF PhaseFits, Recovering, Copied
<1>3. AuthorityBound'
  BY <1>1, AtWork, OperatorAt DEF AuthorityBound, Interrupt, Process, Recovering, Native, history
<1> QED BY <1>1, <1>2, <1>3, AtWork, OperatorAt, OperatorWorks DEF Interrupt

\* the workspace opens again
LEMMA OpensAgain ==
  ASSUME RecoveryInv, Reopened, UNCHANGED <<Process, workspace, receipts>>,
         run' = [run EXCEPT !.phase = "complete"], operator' = Rest, workspace.held = authority
  PROVE  RecoveryInv'
<1>0. TypeOK /\ control.epoch \in Nat /\ control.leased \in Nat /\ control.epoch + 1 \in Nat
  <2>1. TypeOK
    BY DEF RecoveryInv
  <2>2. control.epoch \in Nat /\ control.leased \in Nat
    BY <2>1, ControlType
  <2> QED BY <2>1, <2>2
<1>1. control' = [control EXCEPT !.mode = "active", !.epoch = control.epoch + 1]
  BY DEF Reopened
<1>2. control' \in [epoch : Nat, mode : {"active", "quarantined"}, leased : Nat]
      /\ control'.leased = control.leased /\ control'.mode = "active"
  BY <1>0, <1>1, ControlType DEF TypeOK
<1>3. run' \in RunRow /\ run'.phase = "complete"
  BY <1>0, RunAt DEF Phases
<1>4. Forward
  BY <1>0, <1>2 DEF Forward, Process, history, TypeOK
<1>5. CallsInv' /\ calls' \in [Invocations -> {NoCall} \cup Under]
  BY <1>4, CallsStay DEF Process
<1>6. TypeOK'
  BY <1>0, <1>2, <1>3, <1>5, OperatorAt DEF TypeOK, Process, history
<1>7. PhaseFits'
  BY <1>2, <1>3, OperatorAt DEF PhaseFits, Active, Recovering
<1>8. ProofLeft' /\ ReceiptTruth'
  BY ReceiptsKept DEF Process, history
<1>9. AuthorityBound'
  BY <1>3, OperatorAt DEF AuthorityBound, Process, Recovering, history
<1>10. ProofsTrue'
  <2>1. Taken' = Taken
    BY DEF Taken, Copied, Process
  <2> QED BY <2>1, OperatorAt DEF ProofsTrue, RecoveryInv, Process, history
<1> QED BY <1>5, <1>6, <1>7, <1>8, <1>9, <1>10, Assembled DEF RecoveryInv

LEMMA Reopens ==
  ASSUME RecoveryInv, Reopen
  PROVE  RecoveryInv'
<1>1. workspace.held = authority
  BY AtWork DEF Reopen, SameAuthority, AuthorityBound, Recovering
<1> QED BY <1>1, OpensAgain DEF Reopen

LEMMA FinishesNative ==
  ASSUME RecoveryInv, FinishNative
  PROVE  RecoveryInv'
<1>1. workspace.held = authority
  BY AtWork DEF FinishNative, AuthorityBound, PhaseFits
<1> QED BY <1>1, OpensAgain DEF FinishNative

-----------------------------------------------------------------------------
LEMMA RecoveryInit ==
  ASSUME RecoveryAssumption, Init
  PROVE  RecoveryInv
<1>1. workspace \in Databases /\ workspace.held = {} /\ workspace.proofs = {}
  BY DEF Init, RecoveryAssumption, Databases
<1>2. control \in [epoch : Nat, mode : {"active", "quarantined"}, leased : Nat]
      /\ control.mode = "active" /\ Active
  BY DEF Init, Active
<1>3. receipts \in [Receipts -> ReceiptRow] /\ \A r \in Receipts : receipts[r].state = "none"
  <2>1. Unused \in ReceiptRow /\ Unused.state = "none"
    BY DEF Unused, ReceiptRow, States, RecoveryAssumption
  <2> QED BY <2>1 DEF Init
<1>4. run \in RunRow /\ run.phase = "none"
  BY NoneIsNone DEF Init, NoRun, RunRow, Phases
<1>5. copies \in [Copies -> {NoCopy} \cup Kept] /\ Taken = {}
  BY DEF Init, Taken, Copied, NoCopy
<1>6. calls \in [Invocations -> {NoCall} \cup Under] /\ \A i \in Invocations : calls[i] = NoCall
  BY DEF Init
<1>7. operator \in OperatorRow /\ operator = Rest
  BY OperatorAt DEF Init
<1>8. deleted \in [drafts : SUBSET Drafts, receipts : SUBSET Receipts] /\ deleted.receipts = {}
      /\ authority = {} /\ now = 0
  BY DEF Init
<1>9. TypeOK
  BY <1>1, <1>2, <1>3, <1>4, <1>5, <1>6, <1>7, <1>8 DEF TypeOK
<1>10. CallsInv
  BY <1>6, Idle DEF CallsInv, OwnReceipt, LeaseKnown, ReceiptHeld, PlanExpired, Holds, Past, NoCall
<1>11. PhaseFits
  BY <1>2, <1>4, <1>7, OperatorAt DEF PhaseFits, Recovering
<1>12. ProofLeft /\ ProofsTrue /\ ReceiptTruth
  BY <1>1, <1>3, <1>5, <1>7, <1>8, OperatorAt DEF ProofLeft, ProofsTrue, ReceiptTruth
<1>13. AuthorityBound
  BY <1>1, <1>4, <1>7, <1>8, OperatorAt DEF AuthorityBound, Recovering
<1> QED BY <1>9, <1>10, <1>11, <1>12, <1>13 DEF RecoveryInv

LEMMA RecoveryStep ==
  ASSUME RecoveryInv, [Next]_vars
  PROVE  RecoveryInv'
<1>1. CASE \E i \in Invocations : Invocation(i)
  BY <1>1, InvocationSafe
<1>2. CASE \E c \in Copies : CopyWorkspace(c)
  BY <1>2, Copying
<1>3. CASE Tick
  BY <1>3, Ticks
<1>4. CASE Operator
  BY <1>4, Quarantines, Settles, PreparesRun, BeginsNative, Replays, Claims, RestoresBookmark,
     RecordsRestore, MovesCursor, Reopens, BuildsNative, ReplacesNative, FinishesNative, Interrupts
     DEF Operator
<1>5. CASE UNCHANGED vars
  <2>1. UNCHANGED <<world, now, workspace, control, receipts, run, copies, calls, operator, deleted,
                    authority>>
    BY <1>5 DEF vars, history
  <2>2. TypeOK' /\ CallsInv' /\ PhaseFits' /\ ProofLeft' /\ ProofsTrue' /\ ReceiptTruth' /\ AuthorityBound'
    <3>1. TypeOK'
      BY <2>1 DEF RecoveryInv, TypeOK
    <3>2. CallsInv'
      BY <2>1 DEF RecoveryInv, CallsInv, OwnReceipt, LeaseKnown, ReceiptHeld, PlanExpired, Holds, Past,
         At, Leased
    <3>3. PhaseFits'
      BY <2>1 DEF RecoveryInv, PhaseFits, Active, Recovering, Drained, InState, Copied, Native
    <3>4. ProofLeft' /\ ReceiptTruth'
      BY <2>1, ReceiptsKept
    <3>5. ProofsTrue' /\ AuthorityBound'
      BY <2>1, ProofsKept, AuthorityKeptBy DEF RecoveryInv, ProofsTrue
    <3> QED BY <3>1, <3>2, <3>3, <3>4, <3>5
  <2> QED BY <2>2, Assembled DEF RecoveryInv
<1> QED BY <1>1, <1>2, <1>3, <1>4, <1>5 DEF Next

\* whatever is taken to be true of every step holds of it together with the invariant
LEMMA RecoveryAlways ==
  ASSUME RecoveryAssumption
  PROVE  Spec => []RecoveryInv
BY RecoveryInit, RecoveryStep, PTL DEF Spec

(* Receipts never lie: a receipt is cancelled only when the deletion it was prepared for did   *)
(* not and never will commit, and committed only when it did - although no transaction spans   *)
(* the two databases, confirmations are lost and restores put the workspace back               *)
(* (deletion-receipts.ts and recovery-control.ts).                                             *)
THEOREM ReceiptsTellTruth ==
  ASSUME RecoveryAssumption
  PROVE  Spec => []ReceiptTruth
<1>1. RecoveryInv => ReceiptTruth
  BY DEF RecoveryInv
<1> QED BY <1>1, RecoveryAlways, PTL

(* What publications hold never moves backwards: in every open workspace, restored or not, it  *)
(* is what the runtime last wrote (workspace-recovery.ts and server/restore.ts).               *)
THEOREM AuthorityNeverMovesBack ==
  ASSUME RecoveryAssumption
  PROVE  Spec => []AuthorityKept
<1>1. RecoveryInv => AuthorityKept
  BY DEF RecoveryInv, AuthorityBound, PhaseFits, AuthorityKept
<1> QED BY <1>1, RecoveryAlways, PTL

-----------------------------------------------------------------------------
(* What was deleted stays deleted.                                         *)

LEMMA DeletionTypes ==
  ASSUME RecoveryInv
  PROVE  /\ TypeOK /\ PhaseFits /\ now \in Nat /\ control.epoch \in Nat
         /\ deleted.receipts \subseteq Receipts /\ Receipts \subseteq Nat \ {0}
         /\ Window \in Nat /\ Retention \in Nat /\ Window =< Retention
         /\ run.cursor \in Nat
         /\ \A d : Marks(d) \subseteq Receipts /\ Marks(d) \subseteq deleted.receipts
         /\ \A r \in Receipts : receipts[r].resolved \in Nat
BY ControlType, ReceiptType DEF RecoveryInv, RecoveryAssumption, TypeOK, Marks, RunRow

\* a receipt that covers a copy goes on to do so
CoversNext(r, t) ==
  \/ receipts'[r].state = "pending"
  \/ receipts'[r].state = "committed" /\ t =< receipts'[r].resolved
  \/ receipts'[r].state = "retired" /\ t + Window < now'
\* what the server does to the receipts of deletions, and to the drafts that it deletes
ReceiptsGoOn ==
  \A r \in deleted.receipts :
    /\ receipts[r].state = "pending" =>
         \/ receipts'[r].state = "pending"
         \/ receipts'[r].state = "committed" /\ receipts'[r].resolved = now
    /\ receipts[r].state = "committed" =>
         \/ receipts'[r].state = "committed"
         \/ receipts'[r].state = "retired" /\ receipts[r].resolved + Retention < now
    /\ receipts[r].state = "retired" => receipts'[r].state = "retired"
DeletesByReceipt ==
  \A d \in deleted'.drafts :
    \/ d \in deleted.drafts
    \/ /\ d \notin workspace'.alive
       /\ \E r \in deleted'.receipts : receipts'[r].draft = d /\ receipts'[r].state = "pending"

LEMMA CoversOn ==
  ASSUME RecoveryInv, NEW r \in deleted.receipts, NEW t \in Nat, t =< now, Covers(r, t), Forward,
         ReceiptsGoOn
  PROVE  CoversNext(r, t)
<1>1. r \in Receipts /\ now \in Nat /\ now' \in Nat /\ now =< now' /\ receipts[r].resolved \in Nat
      /\ Window \in Nat /\ Retention \in Nat /\ Window =< Retention
  BY DeletionTypes DEF Forward
<1>2. CASE receipts[r].state = "pending"
  BY <1>1, <1>2 DEF Covers, CoversNext, ReceiptsGoOn
<1>3. CASE receipts[r].state = "committed"
  <2>1. t =< receipts[r].resolved /\ receipts'[r].resolved = receipts[r].resolved
    BY <1>1, <1>3 DEF Covers, Forward, Over, ReceiptsGoOn
  <2> QED BY <1>1, <1>3, <2>1 DEF Covers, CoversNext, ReceiptsGoOn
<1>4. CASE receipts[r].state = "retired"
  BY <1>1, <1>4 DEF Covers, CoversNext, ReceiptsGoOn
<1> QED BY <1>2, <1>3, <1>4 DEF Covers

LEMMA CopiesStayCovered ==
  ASSUME RecoveryInv, TakenBefore, CopiesCovered, Forward, UNCHANGED copies,
         ReceiptsGoOn, DeletesByReceipt, deleted.drafts \subseteq deleted'.drafts
  PROVE  TakenBefore' /\ CopiesCovered'
<1>0. Taken' = Taken /\ now \in Nat /\ now' \in Nat /\ now =< now'
  BY DeletionTypes DEF Taken, Copied, Forward
<1>1. \A c \in Taken : copies[c].started \in Nat /\ copies[c].started =< now
  BY CopyType DEF RecoveryInv, TakenBefore
<1>2. TakenBefore'
  BY <1>0, <1>1 DEF TakenBefore
<1>3. ASSUME NEW c \in Taken, NEW d \in copies[c].workspace.alive \cap deleted'.drafts
      PROVE  \E r \in Marks(d)' : Covers(r, copies[c].started)'
  <2>1. CASE \E r \in deleted'.receipts : receipts'[r].draft = d /\ receipts'[r].state = "pending"
    BY <2>1 DEF Covers, Marks
  <2>2. CASE d \in deleted.drafts
    <3>1. PICK r \in Marks(d) : Covers(r, copies[c].started)
      BY <1>3, <2>2 DEF CopiesCovered
    <3>2. r \in deleted.receipts /\ r \in Receipts /\ receipts[r].draft = d /\ receipts[r].state # "none"
      BY <3>1, DeletionTypes DEF Marks, RecoveryInv, ProofLeft
    <3>3. r \in Marks(d)'
      BY <3>2 DEF Marks, Forward
    <3>4. CoversNext(r, copies[c].started)
      BY <1>1, <3>1, <3>2, CoversOn
    <3> QED BY <3>3, <3>4 DEF Covers, CoversNext
  <2> QED BY <1>3, <2>1, <2>2 DEF DeletesByReceipt
<1> QED BY <1>0, <1>2, <1>3 DEF CopiesCovered, Covers

\* the server, the clock and settling: they bring no draft back, and while a recovery is under
\* way they neither delete nor touch a receipt
LEMMA DeletionKept ==
  ASSUME RecoveryInv, DeletionInv, Forward, UNCHANGED <<world, run, copies, operator>>,
         control'.epoch = control.epoch,
         workspace'.alive \subseteq workspace.alive, workspace'.replays \subseteq workspace.replays,
         ReceiptsGoOn, DeletesByReceipt, deleted.drafts \subseteq deleted'.drafts,
         Recovering => UNCHANGED <<receipts, deleted>>
  PROVE  DeletionInv'
<1>0. UNCHANGED <<Recovering, Native, Taken>>
  BY DEF Recovering, Native, Taken, Copied
<1>1. TakenBefore' /\ CopiesCovered'
  BY CopiesStayCovered DEF DeletionInv
<1>2. Back' \subseteq Back
  BY DEF Back, DeletesByReceipt
<1>3. ASSUME Recovering
      PROVE  UNCHANGED <<receipts, deleted, Unreplayed>> /\ \A d : Marks(d)' = Marks(d)
  BY <1>3 DEF Unreplayed, InState, Marks
<1>4. TargetCovered'
  BY <1>0, <1>3 DEF TargetCovered, DeletionInv, Recovering
<1>5. BackIsUnreplayed'
  <2>1. ~ (run.phase \in {"restoring", "restored"}) => Back' = {}
    BY <1>2 DEF BackIsUnreplayed, DeletionInv
  <2>2. ASSUME NEW d \in Back', run.phase \in {"restoring", "restored"}
        PROVE  \E r \in Marks(d)' : r \in Unreplayed'
    BY <1>2, <1>3, <2>2 DEF BackIsUnreplayed, DeletionInv, Recovering
  <2> QED BY <2>1, <2>2 DEF BackIsUnreplayed
<1>6. BuiltIsWhole'
  <2>1. operator.step = "built" => Recovering
    BY DEF RecoveryInv, PhaseFits
  <2> QED BY <1>3, <2>1 DEF BuiltIsWhole, DeletionInv
<1>7. ReplaysAged'
  BY <1>0 DEF ReplaysAged, DeletionInv, Before
<1>8. ReplayedIsGone'
  BY <1>3 DEF ReplayedIsGone, DeletionInv, Recovering
<1>9. ReplayedNext'
  <2>1. operator.step = "replayed" => Recovering
    BY DEF RecoveryInv, PhaseFits
  <2> QED BY <1>3, <2>1 DEF ReplayedNext, DeletionInv
<1> QED BY <1>1, <1>4, <1>5, <1>6, <1>7, <1>8, <1>9 DEF DeletionInv

\* no receipt and no deletion changes
LEMMA DeletionQuiet ==
  ASSUME RecoveryInv, DeletionInv, Forward,
         UNCHANGED <<world, run, copies, operator, receipts, deleted>>, control'.epoch = control.epoch,
         workspace'.alive \subseteq workspace.alive, workspace'.replays \subseteq workspace.replays
  PROVE  DeletionInv'
<1>1. ReceiptsGoOn /\ DeletesByReceipt
  BY DEF ReceiptsGoOn, DeletesByReceipt
<1> QED BY <1>1, DeletionKept

LEMMA InvocationKeepsDeleted ==
  ASSUME RecoveryInv, DeletionInv, NEW i \in Invocations, Invocation(i)
  PROVE  DeletionInv'
<1>0. TypeOK /\ control.epoch \in Nat
  BY DeletionTypes
<1>a. UNCHANGED <<world, now, copies, run, operator>>
  BY DEF Invocation, Open, TakeLease, WriteBatch, Prepare, DeleteBatch, ConfirmRead, ConfirmWrite,
     RetireSelect, RetireProofs, RetireReceipts, Lose, Server
<1>b. control'.epoch = control.epoch /\ control'.leased \in Nat /\ control.leased =< control'.leased
  <2>1. CASE TakeLease(i)
    <3>1. calls[i].deadline \in Nat /\ control.leased \in Nat
      BY <1>0, <2>1, UnderWay, ControlType DEF TakeLease, At
    <3>2. Longest(calls[i].deadline) \in Nat /\ control.leased =< Longest(calls[i].deadline)
      BY <3>1 DEF Longest
    <3> QED BY <1>0, <2>1, <3>1, <3>2 DEF TakeLease, TypeOK
  <2>2. CASE control' = control
    <3>1. control.leased \in Nat
      BY <1>0, ControlType
    <3> QED BY <2>2, <3>1
  <2>3. TakeLease(i) \/ control' = control
    BY DEF Invocation, Open, WriteBatch, Prepare, DeleteBatch, ConfirmRead, ConfirmWrite,
       RetireSelect, RetireProofs, RetireReceipts, Lose
  <2> QED BY <2>1, <2>2, <2>3
<1>c. ASSUME UNCHANGED <<receipts, deleted>>
      PROVE  Forward
  BY <1>0, <1>a, <1>b, <1>c DEF Forward, TypeOK
<1>1. CASE (\E kind \in Kinds, d \in Drafts : Open(i, kind, d)) \/ TakeLease(i) \/ ConfirmRead(i)
           \/ RetireSelect(i) \/ Lose(i)
  <2>1. UNCHANGED <<workspace, receipts, deleted>>
    BY <1>1 DEF Open, TakeLease, ConfirmRead, RetireSelect, Lose, history
  <2> QED BY <1>a, <1>b, <1>c, <2>1, DeletionQuiet
<1>2. CASE WriteBatch(i) \/ RetireProofs(i)
  <2>1. UNCHANGED <<receipts, deleted>>
    BY <1>2 DEF WriteBatch, RetireProofs, history
  <2>2. workspace'.alive \subseteq workspace.alive /\ workspace'.replays \subseteq workspace.replays
    BY <1>0, <1>2 DEF WriteBatch, RetireProofs, TypeOK, Databases
  <2> QED BY <1>a, <1>b, <1>c, <2>1, <2>2, DeletionQuiet
<1>3. CASE \E r \in Receipts : Prepare(i, r)
  <2>1. PICK r \in Receipts : Prepare(i, r)
    BY <1>3
  <2>2. CASE ~ Active
    BY <1>a, <1>b, <1>c, <2>1, <2>2, DeletionQuiet DEF Prepare, history
  <2>3. CASE Active
    <3>1. receipts[r].state = "none" /\ (\A q \in Receipts : q # r => receipts'[q] = receipts[q])
          /\ UNCHANGED <<workspace, deleted>>
      BY <1>0, <2>1, <2>3 DEF Prepare, TypeOK, history
    <3>2. Forward
      BY <1>0, <1>a, <1>b, <3>1 DEF Forward, TypeOK, Over
    <3>3. \A q \in deleted.receipts : q # r /\ q \in Receipts
      BY <3>1, DeletionTypes DEF RecoveryInv, ProofLeft
    <3>4. ReceiptsGoOn /\ DeletesByReceipt
      BY <3>1, <3>3 DEF ReceiptsGoOn, DeletesByReceipt
    <3>5. ~ Recovering
      BY <2>3, DeletionTypes DEF PhaseFits
    <3> QED BY <1>a, <1>b, <3>1, <3>2, <3>4, <3>5, DeletionKept
  <2> QED BY <2>2, <2>3
<1>4. CASE DeleteBatch(i)
  <2> DEFINE d == calls[i].draft
             r == calls[i].receipt
  <2>1. CASE ~ (Deletable(i) /\ d \in workspace.alive \ workspace.held)
    BY <1>4, <1>a, <1>b, <1>c, <2>1, DeletionQuiet DEF DeleteBatch
  <2>2. CASE Deletable(i) /\ d \in workspace.alive \ workspace.held
    <3>1. r \in Receipts /\ receipts[r].state = "pending" /\ receipts[r].draft = d /\ Past(i)
      BY <1>4, <2>2 DEF DeleteBatch, At, RecoveryInv, CallsInv, ReceiptHeld, Holds, Deletable, Past, Stages
    <3>2. workspace'.alive = workspace.alive \ {d} /\ workspace'.replays = workspace.replays
          /\ deleted'.drafts = deleted.drafts \cup {d}
          /\ deleted'.receipts = deleted.receipts \cup {r} /\ receipts' = receipts
      <4>1. /\ workspace' = [workspace EXCEPT !.alive = workspace.alive \ {d},
                                              !.proofs = workspace.proofs \cup {r}]
            /\ deleted' = [drafts |-> deleted.drafts \cup {d}, receipts |-> deleted.receipts \cup {r}]
            /\ receipts' = receipts
        BY <1>4, <2>2 DEF DeleteBatch
      <4>2. workspace \in Databases
        BY <1>0 DEF TypeOK
      <4> QED BY <4>1, <4>2 DEF Databases
    <3>3. Forward
      BY <1>0, <1>a, <1>b, <3>2 DEF Forward, TypeOK
    <3>4. ReceiptsGoOn
      BY <3>2 DEF ReceiptsGoOn
    <3>5. ~ Recovering
      BY <2>2, <3>1, NoLeaseLeft, DeletionTypes DEF PhaseFits, Deletable
    <3>6. DeletesByReceipt
      BY <3>1, <3>2 DEF DeletesByReceipt
    <3> QED BY <1>a, <1>b, <3>2, <3>3, <3>4, <3>5, <3>6, DeletionKept
  <2> QED BY <2>1, <2>2
<1>5. CASE ConfirmWrite(i)
  <2> DEFINE r == calls[i].receipt
  <2>1. CASE receipts[r].state # "pending"
    BY <1>5, <1>a, <1>b, <1>c, <2>1, DeletionQuiet DEF ConfirmWrite, history
  <2>2. CASE receipts[r].state = "pending"
    <3>1. r \in Receipts
      BY <1>5 DEF ConfirmWrite, At, RecoveryInv, CallsInv, ReceiptHeld, Holds
    <3>2. /\ \A q \in Receipts : q # r => receipts'[q] = receipts[q]
          /\ receipts'[r].state = "committed" /\ receipts'[r].resolved = now
          /\ receipts'[r].draft = receipts[r].draft
          /\ UNCHANGED <<workspace, deleted>>
      <4>1. receipts' = [receipts EXCEPT ![r] = Resolved(r, "committed")]
        BY <1>5, <2>2 DEF ConfirmWrite
      <4>2. receipts[r] \in ReceiptRow
        BY <1>0, <3>1, ReceiptType
      <4>3. /\ Resolved(r, "committed").state = "committed" /\ Resolved(r, "committed").resolved = now
            /\ Resolved(r, "committed").draft = receipts[r].draft
        BY <4>2 DEF Resolved, ReceiptRow
      <4>4. receipts \in [Receipts -> ReceiptRow] /\ UNCHANGED <<workspace, deleted>>
        BY <1>0, <1>5 DEF TypeOK, ConfirmWrite, history
      <4> QED BY <3>1, <4>1, <4>3, <4>4
    <3>3. Forward
      BY <1>0, <1>a, <1>b, <2>2, <3>2 DEF Forward, TypeOK, Over
    <3>4. ReceiptsGoOn /\ DeletesByReceipt
      BY <2>2, <3>2, DeletionTypes DEF ReceiptsGoOn, DeletesByReceipt
    <3>5. ~ Recovering
      BY <2>2, <3>1, DeletionTypes DEF PhaseFits, InState
    <3> QED BY <1>a, <1>b, <3>2, <3>3, <3>4, <3>5, DeletionKept
  <2> QED BY <2>1, <2>2
<1>6. CASE RetireReceipts(i)
  <2> DEFINE plan == calls[i].plan
  <2>1. CASE ~ (Active /\ control.epoch = calls[i].epoch)
    BY <1>6, <1>a, <1>b, <1>c, <2>1, DeletionQuiet DEF RetireReceipts, history
  <2>2. CASE Active /\ control.epoch = calls[i].epoch
    <3>1. \A r \in plan : r \in Receipts /\ receipts[r].state \in Over
                          /\ receipts[r].resolved + Retention < now
      <4>1. PlanExpired(i) /\ calls[i].stage = "unproved" /\ plan \subseteq Receipts
        BY <1>0, <1>6, UnderWay DEF RetireReceipts, At, RecoveryInv, CallsInv
      <4> QED BY <4>1 DEF PlanExpired
    <3>2. \A r \in Receipts :
            /\ r \in plan => receipts'[r].state = "retired" /\ receipts'[r].draft = receipts[r].draft
                             /\ receipts'[r].resolved = receipts[r].resolved
            /\ r \notin plan => receipts'[r] = receipts[r]
      <4>1. receipts' = [r \in Receipts |-> IF r \in plan THEN [receipts[r] EXCEPT !.state = "retired"]
                                            ELSE receipts[r]]
        BY <1>6, <2>2 DEF RetireReceipts
      <4>2. \A r \in Receipts : receipts[r] \in ReceiptRow
        BY <1>0, ReceiptType
      <4> QED BY <4>1, <4>2 DEF ReceiptRow
    <3>3. UNCHANGED <<workspace, deleted>>
      BY <1>6 DEF RetireReceipts, history
    <3>4. Forward
      BY <1>0, <1>a, <1>b, <3>1, <3>2, <3>3 DEF Forward, TypeOK, Over
    <3>5. ReceiptsGoOn /\ DeletesByReceipt
      BY <3>1, <3>2, <3>3, DeletionTypes DEF Over, ReceiptsGoOn, DeletesByReceipt
    <3>6. ~ Recovering
      BY <2>2, DeletionTypes DEF PhaseFits
    <3> QED BY <1>a, <1>b, <3>3, <3>4, <3>5, <3>6, DeletionKept
  <2> QED BY <2>1, <2>2
<1> QED BY <1>1, <1>2, <1>3, <1>4, <1>5, <1>6 DEF Invocation

LEMMA TickKeepsDeleted ==
  ASSUME RecoveryInv, DeletionInv, Tick
  PROVE  DeletionInv'
<1>1. now \in Nat /\ control.leased \in Nat /\ now' = now + 1
  BY DeletionTypes, ControlType DEF Tick
<1>2. Forward
  BY <1>1 DEF Forward, Tick, history
<1> QED BY <1>2, DeletionQuiet DEF Tick, history

\* settling finds the proof of every deletion that committed
LEMMA SettledGoOn ==
  ASSUME RecoveryInv, receipts' = Settled
  PROVE  /\ ReceiptsGoOn
         /\ \A r \in deleted.receipts :
              receipts'[r].draft = receipts[r].draft
              /\ (receipts[r].state \in {"pending", "committed"} => receipts'[r].state = "committed")
<1>1. TypeOK /\ deleted.receipts \subseteq Receipts
  BY DeletionTypes
<1>2. \A r \in deleted.receipts : receipts[r].state = "pending" => r \in workspace.proofs
  BY DEF RecoveryInv, ProofLeft
<1>3. \A r \in deleted.receipts :
        /\ receipts'[r].draft = receipts[r].draft
        /\ receipts[r].state # "pending" => receipts'[r] = receipts[r]
        /\ receipts[r].state = "pending" =>
             receipts'[r].state = "committed" /\ receipts'[r].resolved = now
  BY <1>1, <1>2, SettledRows
<1> QED BY <1>3 DEF ReceiptsGoOn

LEMMA SettleKeepsDeleted ==
  ASSUME RecoveryInv, DeletionInv, Settle
  PROVE  DeletionInv'
<1>1. Forward
  BY Settling DEF Settle, Process
<1>2. ReceiptsGoOn
  BY SettledGoOn DEF Settle
<1>3. ~ Recovering
  BY DeletionTypes DEF PhaseFits, Settle
<1>4. DeletesByReceipt
  BY DEF DeletesByReceipt, Settle, Process, history
<1> QED BY <1>1, <1>2, <1>3, <1>4, DeletionKept DEF Settle, Process, history

LEMMA CopyKeepsDeleted ==
  ASSUME RecoveryInv, DeletionInv, NEW c \in Copies, CopyWorkspace(c), CopiesAreWhole
  PROVE  DeletionInv'
<1>0. TypeOK /\ PhaseFits /\ now \in Nat /\ control.epoch \in Nat
  BY DeletionTypes
<1>1. PICK row : row = [at |-> "kept", started |-> now, workspace |-> workspace]
  OBVIOUS
<1>2. copies' = [copies EXCEPT ![c] = row] /\ ~ Copied(c)
      /\ UNCHANGED <<world, now, workspace, control, receipts, run, operator, deleted>>
  BY <1>1 DEF CopyWorkspace, history
<1>3. row.at = "kept" /\ row.started = now /\ row.workspace = workspace
  BY <1>1
<1>4. copies'[c] = row /\ (\A b \in Copies : b # c => copies'[b] = copies[b])
      /\ copies'[c] # copies[c]
  BY <1>0, <1>2, <1>3 DEF TypeOK, Copied
<1>5. Taken' = Taken \cup {c} /\ c \notin Taken
  BY <1>2, <1>3, <1>4 DEF Taken, Copied
<1>6. Back = {}
  BY <1>0, <1>4 DEF CopiesAreWhole, Back, PhaseFits, DeletionInv, BackIsUnreplayed
<1>7. \A b \in Taken : b # c /\ copies'[b] = copies[b]
  BY <1>4, <1>5 DEF Taken
<1>8. TakenBefore'
  BY <1>0, <1>2, <1>3, <1>4, <1>5, <1>7 DEF TakenBefore, DeletionInv
<1>9. CopiesCovered'
  <2>1. ASSUME NEW b \in Taken, NEW d \in copies[b].workspace.alive \cap deleted.drafts
        PROVE  \E r \in Marks(d) : Covers(r, copies[b].started)
    BY <2>1 DEF DeletionInv, CopiesCovered
  <2>2. copies'[c].workspace.alive \cap deleted.drafts = {}
    BY <1>3, <1>4, <1>6 DEF Back
  <2> QED BY <1>2, <1>5, <1>7, <2>1, <2>2 DEF CopiesCovered, Marks, Covers
<1>10. TargetCovered'
  <2>1. run.phase \in {"prepared", "restoring"} => run.copy \in Taken
    BY <1>0 DEF PhaseFits, Recovering, Taken
  <2> QED BY <1>2, <1>7, <2>1 DEF TargetCovered, DeletionInv, Marks
<1>11. BackIsUnreplayed' /\ BuiltIsWhole' /\ ReplayedIsGone' /\ ReplayedNext'
  BY <1>2 DEF DeletionInv, BackIsUnreplayed, BuiltIsWhole, ReplayedIsGone, ReplayedNext, Back, Marks,
     Unreplayed, InState
<1>12. ReplaysAged'
  <2>1. run.phase \in {"prepared", "restoring"} => run.copy \in Taken /\ Recovering
    BY <1>0 DEF PhaseFits, Recovering, Taken
  <2>2. ASSUME ~ Native, NEW b \in Taken'
        PROVE  /\ Before(copies[b].workspace, control.epoch + 1)'
               /\ ~ Recovering => Before(copies[b].workspace, control.epoch)'
    <3>1. CASE b = c
      BY <1>2, <1>3, <1>4, <2>2, <3>1 DEF DeletionInv, ReplaysAged, Before
    <3>2. CASE b # c
      BY <1>2, <1>5, <1>7, <2>2, <3>2 DEF DeletionInv, ReplaysAged, Before
    <3> QED BY <3>1, <3>2
  <2> QED BY <1>2, <1>7, <2>1, <2>2 DEF ReplaysAged, DeletionInv, Before, Native, Recovering
<1> QED BY <1>8, <1>9, <1>10, <1>11, <1>12 DEF DeletionInv

\* what the operator finds of the deletions, and what stays when no receipt changes
LEMMA OperatorFinds ==
  ASSUME RecoveryInv, DeletionInv, UNCHANGED <<Process, receipts>>
  PROVE  /\ TakenBefore' /\ CopiesCovered' /\ Taken' = Taken /\ Native' = Native
         /\ receipts' = receipts /\ deleted' = deleted /\ copies' = copies
         /\ InState("committed")' = InState("committed")
         /\ \A d : Marks(d)' = Marks(d)
BY DEF Process, history, DeletionInv, TakenBefore, CopiesCovered, Taken, Copied, Native, Marks, Covers,
   InState

LEMMA QuarantineKeepsDeleted ==
  ASSUME RecoveryInv, DeletionInv, Quarantine
  PROVE  DeletionInv'
<1>0. TypeOK /\ control.epoch \in Nat /\ ~ Recovering /\ operator = Rest
  BY DeletionTypes DEF PhaseFits, Quarantine
<1>1. control'.epoch = control.epoch + 1 /\ run' = NoRun /\ UNCHANGED <<workspace, operator>>
  BY <1>0 DEF Quarantine, TypeOK
<1>2. NoRun.phase = "none"
  BY DEF NoRun
<1>3. UNCHANGED <<Process, receipts>>
  BY DEF Quarantine
<1>4. Back = {}
  BY <1>0 DEF DeletionInv, BackIsUnreplayed, Recovering
<1>5. TargetCovered' /\ BackIsUnreplayed' /\ BuiltIsWhole' /\ ReplayedIsGone' /\ ReplayedNext'
  BY <1>0, <1>1, <1>2, <1>3, <1>4, OperatorFinds, OperatorAt DEF TargetCovered, BackIsUnreplayed,
     BuiltIsWhole, ReplayedIsGone, ReplayedNext, Back
<1>6. ReplaysAged'
  <2>1. SUFFICES ASSUME ~ Native PROVE ReplaysAged'
    BY <1>3, OperatorFinds DEF ReplaysAged
  <2>2. \A c \in Taken : \A p \in copies[c].workspace.replays : p[1] \in Nat /\ p[1] < control.epoch
    BY <1>0, <2>1, CopyType DEF DeletionInv, ReplaysAged, Before
  <2>3. \A p \in workspace.replays : p[1] \in Nat /\ p[1] < control.epoch
    BY <1>0, <2>1, DatabaseType DEF DeletionInv, ReplaysAged, Before
  <2> QED BY <1>0, <1>1, <1>2, <1>3, <2>2, <2>3, OperatorFinds DEF ReplaysAged, Before
<1> QED BY <1>3, <1>5, <1>6, OperatorFinds DEF DeletionInv

\* of whatever copy is young enough to be restored, the receipts are all there
LEMMA YoungIsCommitted ==
  ASSUME RecoveryInv, DeletionInv, NEW c \in Taken, now - copies[c].started =< Window,
         NEW d \in copies[c].workspace.alive \cap deleted.drafts
  PROVE  \E r \in Marks(d) : receipts[r].state \in {"pending", "committed"}
<1>1. PICK r \in Marks(d) : Covers(r, copies[c].started)
  BY DEF DeletionInv, CopiesCovered
<1>2. copies[c].started \in Nat /\ now \in Nat /\ Window \in Nat
  BY DeletionTypes, CopyType
<1> QED BY <1>1, <1>2 DEF Covers

LEMMA PrepareKeepsDeleted ==
  ASSUME RecoveryInv, DeletionInv, NEW c \in Copies, PrepareRun(c)
  PROVE  DeletionInv'
<1>1. /\ run' = [phase |-> "prepared", copy |-> c, held |-> workspace.held, cursor |-> None]
      /\ UNCHANGED <<workspace, operator, control>>
      /\ run.phase = "none" /\ InState("pending") = {} /\ c \in Taken /\ operator = Rest /\ ~ Native
      /\ now - copies[c].started =< Window
  BY DEF PrepareRun, Taken
<1>2. run'.phase = "prepared" /\ run'.copy = c
  BY <1>1
<1>3. UNCHANGED <<Process, receipts>>
  BY DEF PrepareRun
<1>4. Back = {} /\ ~ Recovering
  BY <1>1 DEF DeletionInv, BackIsUnreplayed, Recovering
<1>5. TargetCovered'
  <2>1. \A d \in copies[c].workspace.alive \cap deleted.drafts :
          \E r \in Marks(d) : receipts[r].state = "committed"
    BY <1>1, YoungIsCommitted, DeletionTypes DEF InState
  <2> QED BY <1>2, <1>3, <2>1, OperatorFinds DEF TargetCovered
<1>6. BackIsUnreplayed' /\ BuiltIsWhole' /\ ReplayedIsGone' /\ ReplayedNext'
  BY <1>1, <1>2, <1>3, <1>4, OperatorFinds, OperatorAt DEF BackIsUnreplayed, BuiltIsWhole,
     ReplayedIsGone, ReplayedNext, Back
<1>7. ReplaysAged'
  <2>1. Recovering'
    BY <1>2 DEF Recovering
  <2> QED BY <1>1, <1>2, <1>3, <1>4, <2>1, OperatorFinds DEF DeletionInv, ReplaysAged, Before
<1> QED BY <1>3, <1>5, <1>6, <1>7, OperatorFinds DEF DeletionInv

LEMMA ClaimKeepsDeleted ==
  ASSUME RecoveryInv, DeletionInv, ClaimRestore
  PROVE  DeletionInv'
<1>1. /\ run.phase = "prepared" /\ run'.phase = "restoring" /\ run'.copy = run.copy
      /\ run'.cursor = run.cursor /\ operator'.step = "restore"
      /\ UNCHANGED <<workspace, control>> /\ ~ Native
  BY AtWork, RunAt, OperatorAt DEF ClaimRestore, Phases, Steps
<1>2. UNCHANGED <<Process, receipts>>
  BY DEF ClaimRestore
<1>3. Recovering /\ Recovering' /\ Back = {}
  BY <1>1 DEF Recovering, DeletionInv, BackIsUnreplayed
<1>4. TargetCovered'
  BY <1>1, <1>2, OperatorFinds DEF TargetCovered, DeletionInv
<1>5. BackIsUnreplayed' /\ BuiltIsWhole' /\ ReplayedIsGone' /\ ReplayedNext'
  BY <1>1, <1>2, <1>3, OperatorFinds DEF BackIsUnreplayed, BuiltIsWhole, ReplayedIsGone, ReplayedNext,
     Back
<1>6. ReplaysAged'
  BY <1>1, <1>2, <1>3, OperatorFinds DEF DeletionInv, ReplaysAged, Before
<1> QED BY <1>2, <1>4, <1>5, <1>6, OperatorFinds DEF DeletionInv

LEMMA RestoreKeepsDeleted ==
  ASSUME RecoveryInv, DeletionInv, RestoreBookmark
  PROVE  DeletionInv'
<1>1. /\ run.phase = "restoring" /\ ~ Native /\ operator'.step = "restored"
      /\ workspace' = copies[run.copy].workspace /\ UNCHANGED <<run, control>>
  BY AtWork, OperatorAt DEF RestoreBookmark, Steps, PhaseFits
<1>2. UNCHANGED <<Process, receipts>>
  BY DEF RestoreBookmark
<1>3. run.copy \in Taken /\ run.cursor = None /\ Recovering
  BY <1>1, AtWork DEF PhaseFits, Recovering, Taken
<1>4. TargetCovered' /\ BuiltIsWhole' /\ ReplayedIsGone' /\ ReplayedNext'
  BY <1>1, <1>2, OperatorFinds DEF TargetCovered, DeletionInv, BuiltIsWhole, ReplayedIsGone, ReplayedNext
<1>5. BackIsUnreplayed'
  <2>1. ASSUME NEW d \in copies[run.copy].workspace.alive \cap deleted.drafts
        PROVE  \E r \in Marks(d) : r \in Unreplayed
    <3>1. PICK r \in Marks(d) : receipts[r].state = "committed"
      BY <1>1 DEF DeletionInv, TargetCovered
    <3>2. r \in Receipts /\ r > None
      BY DeletionTypes, NoneIsNone
    <3> QED BY <1>3, <3>1, <3>2 DEF Unreplayed, InState
  <2>2. Unreplayed' = Unreplayed
    BY <1>1, <1>2 DEF Unreplayed, InState
  <2> QED BY <1>1, <1>2, <2>1, <2>2, OperatorFinds DEF BackIsUnreplayed, Back
<1>6. ReplaysAged'
  <2>1. UNCHANGED Recovering
    BY <1>1 DEF Recovering
  <2>2. Before(copies[run.copy].workspace, control.epoch)
        /\ Before(copies[run.copy].workspace, control.epoch + 1)
    BY <1>1, <1>3 DEF DeletionInv, ReplaysAged
  <2> QED BY <1>1, <1>2, <1>3, <2>1, <2>2, OperatorFinds DEF DeletionInv, ReplaysAged, Before
<1> QED BY <1>2, <1>4, <1>5, <1>6, OperatorFinds DEF DeletionInv

LEMMA RecordKeepsDeleted ==
  ASSUME RecoveryInv, DeletionInv, RecordRestore
  PROVE  DeletionInv'
<1>1. /\ run.phase = "restoring" /\ run'.phase = "restored" /\ run'.copy = run.copy
      /\ run'.cursor = run.cursor /\ operator' = Rest /\ ~ Native
      /\ UNCHANGED <<workspace, control>>
  BY AtWork, RunAt DEF RecordRestore, Phases, PhaseFits
<1>2. UNCHANGED <<Process, receipts>>
  BY DEF RecordRestore
<1>3. Before(workspace, control.epoch) /\ control.epoch \in Nat
  BY <1>1, DeletionTypes DEF DeletionInv, ReplaysAged
<1>4. TargetCovered' /\ BuiltIsWhole' /\ ReplayedNext'
  BY <1>1, <1>2, OperatorAt DEF TargetCovered, BuiltIsWhole, ReplayedNext
<1>5. BackIsUnreplayed'
  <2>1. Unreplayed' = Unreplayed
    BY <1>1, <1>2 DEF Unreplayed, InState
  <2> QED BY <1>1, <1>2, <2>1, OperatorFinds DEF DeletionInv, BackIsUnreplayed, Back
<1>6. ReplayedIsGone'
  <2>1. \A r \in Receipts : <<control.epoch, r>> \notin workspace.replays
    BY <1>3 DEF Before
  <2> QED BY <1>1, <1>2, <2>1 DEF ReplayedIsGone
<1>7. ReplaysAged'
  <2>1. Recovering /\ Recovering'
    BY <1>1 DEF Recovering
  <2> QED BY <1>1, <1>2, <2>1, OperatorFinds DEF DeletionInv, ReplaysAged, Before
<1> QED BY <1>2, <1>4, <1>5, <1>6, <1>7, OperatorFinds DEF DeletionInv

LEMMA ReplayKeepsDeleted ==
  ASSUME RecoveryInv, DeletionInv, NEW r \in Receipts, ReplayNext(r)
  PROVE  DeletionInv'
<1> DEFINE draft == receipts[r].draft
           mark == <<control.epoch, r>>
<1>1. /\ run.phase = "restored" /\ ~ Native /\ operator'.step = "replayed" /\ operator'.receipt = r
      /\ r \in Unreplayed /\ (\A q \in Unreplayed : r <= q) /\ UNCHANGED <<run, control>>
      /\ workspace' = Replayed(r, workspace)
  BY OperatorAt DEF ReplayNext, Steps
<1>2. UNCHANGED <<Process, receipts>>
  BY DEF ReplayNext
<1>3. workspace \in Databases /\ control.epoch \in Nat /\ draft \in Drafts /\ Recovering
  BY <1>1, AtWork, DeletionTypes, ReceiptType DEF Recovering
<1>4. draft \notin workspace'.alive /\ workspace'.alive \subseteq workspace.alive
      /\ workspace'.replays \subseteq workspace.replays \cup {mark}
  <2>1. CASE mark \in workspace.replays
    BY <1>1, <2>1 DEF Replayed, DeletionInv, ReplayedIsGone
  <2>2. CASE mark \notin workspace.replays
    <3>1. workspace' = [workspace EXCEPT !.alive = workspace.alive \ {draft},
                                         !.replays = workspace.replays \cup {mark}]
      BY <1>1, <2>2 DEF Replayed
    <3> QED BY <1>3, <3>1 DEF Databases
  <2> QED BY <2>1, <2>2
<1>5. Unreplayed' = Unreplayed /\ Recovering' = Recovering
  BY <1>1, <1>2 DEF Unreplayed, InState, Recovering
<1>6. TargetCovered' /\ BuiltIsWhole'
  BY <1>1 DEF TargetCovered, BuiltIsWhole
<1>7. BackIsUnreplayed'
  BY <1>1, <1>2, <1>4, <1>5, OperatorFinds DEF DeletionInv, BackIsUnreplayed, Back
<1>8. ReplayedIsGone'
  <2>1. SUFFICES ASSUME NEW q \in Receipts, <<control.epoch, q>> \in workspace'.replays
                 PROVE  receipts[q].draft \notin workspace'.alive
    BY <1>1, <1>2 DEF ReplayedIsGone
  <2>2. CASE <<control.epoch, q>> \in workspace.replays
    BY <1>1, <1>4, <2>2 DEF DeletionInv, ReplayedIsGone
  <2>3. CASE <<control.epoch, q>> = mark
    BY <1>4, <2>3
  <2> QED BY <1>4, <2>1, <2>2, <2>3
<1>9. ReplayedNext'
  BY <1>1, <1>2, <1>4, <1>5 DEF ReplayedNext
<1>10. ReplaysAged'
  <2>1. Before(workspace, control.epoch + 1)
    BY <1>1 DEF DeletionInv, ReplaysAged
  <2>2. \A p \in workspace'.replays : p \in workspace.replays \/ p[1] = control.epoch
    BY <1>4
  <2>3. \A p \in workspace'.replays : p[1] < control.epoch + 1
    BY <1>3, <2>1, <2>2 DEF Before
  <2> QED BY <1>1, <1>2, <1>3, <1>5, <2>3, OperatorFinds DEF DeletionInv, ReplaysAged, Before
<1> QED BY <1>2, <1>6, <1>7, <1>8, <1>9, <1>10, OperatorFinds DEF DeletionInv

LEMMA CursorKeepsDeleted ==
  ASSUME RecoveryInv, DeletionInv, MoveCursor
  PROVE  DeletionInv'
<1> DEFINE r == operator.receipt
<1>1. /\ run.phase = "restored" /\ ~ Native /\ r \in Receipts /\ operator' = Rest
      /\ operator.step = "replayed" /\ UNCHANGED <<workspace, control>>
      /\ run' = [run EXCEPT !.cursor = r]
  BY AtWork DEF MoveCursor, PhaseFits
<1>2. UNCHANGED <<Process, receipts>>
  BY DEF MoveCursor
<1>3. run'.phase = run.phase /\ run'.copy = run.copy /\ run'.cursor = r
  BY <1>1, AtWork DEF RunRow
<1>4. receipts[r].draft \notin workspace.alive /\ \A q \in Unreplayed : r =< q
  BY <1>1 DEF DeletionInv, ReplayedNext
<1>5. BackIsUnreplayed'
  <2>1. ASSUME NEW d \in Back
        PROVE  \E q \in Marks(d) : q \in Unreplayed'
    <3>1. PICK q \in Marks(d) : q \in Unreplayed
      BY DEF DeletionInv, BackIsUnreplayed
    <3>2. q # r /\ r =< q /\ q \in Nat /\ r \in Nat /\ q \in InState("committed")
      BY <1>1, <1>4, <2>1, <3>1, DeletionTypes DEF Back, Marks, Unreplayed
    <3>3. q \in InState("committed")' /\ q > r
      BY <1>2, <3>2, OperatorFinds
    <3> QED BY <1>3, <3>1, <3>3 DEF Unreplayed
  <2>2. Back' = Back
    BY <1>1, <1>2, OperatorFinds DEF Back
  <2> QED BY <1>1, <1>2, <1>3, <2>1, <2>2, OperatorFinds DEF BackIsUnreplayed
<1>6. TargetCovered' /\ BuiltIsWhole' /\ ReplayedNext' /\ ReplayedIsGone'
  BY <1>1, <1>2, <1>3, OperatorAt DEF TargetCovered, BuiltIsWhole, ReplayedNext, ReplayedIsGone, DeletionInv
<1>7. ReplaysAged'
  <2>1. UNCHANGED Recovering
    BY <1>3 DEF Recovering
  <2> QED BY <1>1, <1>2, <1>3, <2>1, OperatorFinds DEF DeletionInv, ReplaysAged, Before
<1> QED BY <1>2, <1>5, <1>6, <1>7, OperatorFinds DEF DeletionInv

\* the workspace opens again, and nothing is back
LEMMA OpeningKeepsDeleted ==
  ASSUME RecoveryInv, DeletionInv, Reopened, UNCHANGED <<Process, workspace, receipts>>,
         run' = [run EXCEPT !.phase = "complete"], operator' = Rest, Back = {}
  PROVE  DeletionInv'
<1>1. run'.phase = "complete" /\ UNCHANGED <<Process, receipts>>
  BY AtWork, RunAt DEF Phases
<1>2. control'.epoch = control.epoch + 1 /\ control.epoch \in Nat
  BY AtWork, DeletionTypes DEF Reopened, TypeOK
<1>3. TargetCovered' /\ BackIsUnreplayed' /\ BuiltIsWhole' /\ ReplayedIsGone' /\ ReplayedNext'
  BY <1>1, OperatorFinds, OperatorAt DEF TargetCovered, BackIsUnreplayed, BuiltIsWhole, ReplayedIsGone,
     ReplayedNext, Back
<1>4. ReplaysAged'
  <2>1. SUFFICES ASSUME ~ Native PROVE ReplaysAged'
    BY <1>1, OperatorFinds DEF ReplaysAged
  <2>2. \A c \in Taken : \A p \in copies[c].workspace.replays : p[1] \in Nat /\ p[1] < control.epoch + 1
    BY <2>1, AtWork, CopyType DEF DeletionInv, ReplaysAged, Before
  <2>3. \A p \in workspace.replays : p[1] \in Nat /\ p[1] < control.epoch + 1
    BY <2>1, AtWork, DatabaseType DEF DeletionInv, ReplaysAged, Before
  <2> QED BY <1>1, <1>2, <2>2, <2>3, OperatorFinds DEF ReplaysAged, Before
<1> QED BY <1>1, <1>3, <1>4, OperatorFinds DEF DeletionInv

LEMMA ReopenKeepsDeleted ==
  ASSUME RecoveryInv, DeletionInv, Reopen
  PROVE  DeletionInv'
<1>1. Back = {}
  BY DEF Reopen, Unfinished, DeletionInv, BackIsUnreplayed
<1> QED BY <1>1, OpeningKeepsDeleted DEF Reopen

LEMMA FinishKeepsDeleted ==
  ASSUME RecoveryInv, DeletionInv, FinishNative
  PROVE  DeletionInv'
<1>1. Back = {}
  BY AtWork DEF FinishNative, DeletionInv, BackIsUnreplayed, PhaseFits
<1> QED BY <1>1, OpeningKeepsDeleted DEF FinishNative

LEMMA BeginKeepsDeleted ==
  ASSUME RecoveryInv, DeletionInv, NEW c \in Copies, BeginNative(c)
  PROVE  DeletionInv'
<1>1. /\ Native /\ c \in Taken /\ now - copies[c].started =< Window /\ receipts' = Settled /\ Drained
      /\ run' = [NoRun EXCEPT !.phase = "prepared", !.copy = c]
      /\ operator' = [Rest EXCEPT !.step = "build"] /\ operator = Rest
      /\ UNCHANGED <<world, now, copies, deleted, workspace, control, calls, authority>>
  BY DEF BeginNative, Process, history, Taken
<1>2. run'.phase = "prepared" /\ run'.copy = c /\ operator'.step = "build"
  BY <1>1 DEF NoRun, Rest
<1>3. Forward
  BY <1>1, Settling DEF history
<1>4. ReceiptsGoOn /\ \A r \in deleted.receipts :
        receipts'[r].draft = receipts[r].draft
        /\ (receipts[r].state \in {"pending", "committed"} => receipts'[r].state = "committed")
  BY <1>1, SettledGoOn
<1>5. Back = {} /\ Back' = Back
  BY <1>1, AtWork DEF DeletionInv, BackIsUnreplayed, PhaseFits, Back
<1>6. TakenBefore' /\ CopiesCovered'
  <2>1. DeletesByReceipt
    BY <1>1 DEF DeletesByReceipt
  <2> QED BY <1>1, <1>3, <1>4, <2>1, CopiesStayCovered DEF DeletionInv
<1>7. TargetCovered'
  <2>1. ASSUME NEW d \in copies[c].workspace.alive \cap deleted.drafts
        PROVE  \E r \in deleted.receipts : receipts'[r].draft = d /\ receipts'[r].state = "committed"
    <3>1. PICK r \in Marks(d) : receipts[r].state \in {"pending", "committed"}
      BY <1>1, YoungIsCommitted
    <3> QED BY <1>4, <3>1 DEF Marks
  <2> QED BY <1>1, <1>2, <2>1 DEF TargetCovered, Marks
<1>8. BackIsUnreplayed' /\ BuiltIsWhole' /\ ReplayedIsGone' /\ ReplayedNext'
  BY <1>2, <1>5 DEF BackIsUnreplayed, BuiltIsWhole, ReplayedIsGone, ReplayedNext
<1>9. ReplaysAged'
  BY <1>1 DEF ReplaysAged, Native
<1> QED BY <1>6, <1>7, <1>8, <1>9 DEF DeletionInv

LEMMA BuildKeepsDeleted ==
  ASSUME RecoveryInv, DeletionInv, BuildNative
  PROVE  DeletionInv'
<1> DEFINE copy == copies[run.copy].workspace
           new == AllReplayed(copy)
<1>1. /\ operator' = [Rest EXCEPT !.step = "built", !.workspace = {new}]
      /\ UNCHANGED <<Process, receipts>> /\ UNCHANGED <<workspace, control, run>>
      /\ Native /\ run.phase = "prepared" /\ run.copy \in Taken
  BY AtWork DEF BuildNative, PhaseFits, Taken, Recovering
<1>2. operator'.step = "built" /\ operator'.workspace = {new}
  BY <1>1 DEF Rest
<1>3. new.alive = copy.alive \ {receipts[r].draft : r \in InState("committed")}
  BY <1>1, AtWork, CopyType, AllReplayedType
<1>4. new.alive \cap deleted.drafts = {}
  <2>1. ASSUME NEW d \in copy.alive \cap deleted.drafts
        PROVE  \E r \in InState("committed") : receipts[r].draft = d
    <3>1. PICK r \in Marks(d) : receipts[r].state = "committed"
      BY <1>1 DEF DeletionInv, TargetCovered
    <3> QED BY <3>1, DeletionTypes DEF Marks, InState
  <2> QED BY <1>3, <2>1
<1>5. BuiltIsWhole'
  BY <1>1, <1>2, <1>4, OperatorFinds DEF BuiltIsWhole
<1>a. UNCHANGED <<Back, Unreplayed>>
  <2>1. UNCHANGED <<deleted, receipts, workspace, run>>
    BY <1>1, OperatorFinds
  <2> QED BY <2>1 DEF Back, Unreplayed, InState
<1>6. TargetCovered' /\ BackIsUnreplayed' /\ ReplayedIsGone' /\ ReplayedNext'
  <2>1. TargetCovered'
    BY <1>1, OperatorFinds DEF DeletionInv, TargetCovered
  <2>2. BackIsUnreplayed'
    BY <1>1, <1>a, OperatorFinds DEF DeletionInv, BackIsUnreplayed
  <2>3. ReplayedIsGone' /\ ReplayedNext'
    BY <1>1, <1>2 DEF ReplayedIsGone, ReplayedNext
  <2> QED BY <2>1, <2>2, <2>3
<1>7. ReplaysAged'
  BY <1>1, OperatorFinds DEF ReplaysAged
<1> QED BY <1>1, <1>5, <1>6, <1>7, OperatorFinds DEF DeletionInv

LEMMA ReplaceKeepsDeleted ==
  ASSUME RecoveryInv, DeletionInv, ReplaceNative
  PROVE  DeletionInv'
<1>1. /\ workspace' \in operator.workspace /\ operator.step = "built" /\ operator'.step = "replaced"
      /\ UNCHANGED <<Process, receipts>> /\ UNCHANGED <<control, run>>
      /\ Native /\ run.phase = "prepared"
  BY AtWork, OperatorAt DEF ReplaceNative, PhaseFits, Recovering, Steps
<1>2. Back' = {}
  BY <1>1, OperatorFinds DEF DeletionInv, BuiltIsWhole, Back
<1>3. BackIsUnreplayed' /\ BuiltIsWhole' /\ ReplayedIsGone' /\ ReplayedNext'
  BY <1>1, <1>2 DEF BackIsUnreplayed, BuiltIsWhole, ReplayedIsGone, ReplayedNext
<1>4. TargetCovered' /\ ReplaysAged'
  BY <1>1, OperatorFinds DEF DeletionInv, TargetCovered, ReplaysAged
<1> QED BY <1>1, <1>3, <1>4, OperatorFinds DEF DeletionInv

LEMMA InterruptKeepsDeleted ==
  ASSUME RecoveryInv, DeletionInv, Interrupt
  PROVE  DeletionInv'
<1>1. operator' = Rest /\ UNCHANGED <<Process, receipts>> /\ UNCHANGED <<workspace, control, run>>
  BY DEF Interrupt
<1>2. UNCHANGED <<Recovering, Back, Unreplayed>>
  BY <1>1, OperatorFinds DEF Recovering, Back, Unreplayed
<1>3. TargetCovered' /\ BackIsUnreplayed' /\ ReplaysAged' /\ ReplayedIsGone'
  BY <1>1, <1>2, OperatorFinds DEF DeletionInv, TargetCovered, BackIsUnreplayed, ReplaysAged,
     ReplayedIsGone, Before
<1>4. BuiltIsWhole' /\ ReplayedNext'
  BY <1>1, OperatorAt DEF BuiltIsWhole, ReplayedNext
<1> QED BY <1>1, <1>3, <1>4, OperatorFinds DEF DeletionInv

LEMMA DeletionInit ==
  ASSUME RecoveryAssumption, Init
  PROVE  DeletionInv
<1>1. /\ Taken = {} /\ deleted.drafts = {} /\ workspace.replays = {} /\ run.phase = "none"
      /\ operator.step = "rest"
  BY OperatorAt DEF Init, Taken, Copied, NoCopy, NoRun
<1> QED BY <1>1 DEF DeletionInv, TakenBefore, CopiesCovered, TargetCovered, BackIsUnreplayed, Back,
        BuiltIsWhole, ReplaysAged, Before, ReplayedIsGone, ReplayedNext

LEMMA DeletionStep ==
  ASSUME RecoveryInv, DeletionInv, [Next]_vars, CopiesAreWhole
  PROVE  DeletionInv'
<1>1. CASE \E i \in Invocations : Invocation(i)
  BY <1>1, InvocationKeepsDeleted
<1>2. CASE \E c \in Copies : CopyWorkspace(c)
  BY <1>2, CopyKeepsDeleted
<1>3. CASE Tick
  BY <1>3, TickKeepsDeleted
<1>4. CASE Operator
  BY <1>4, QuarantineKeepsDeleted, SettleKeepsDeleted, PrepareKeepsDeleted, BeginKeepsDeleted,
     ReplayKeepsDeleted, ClaimKeepsDeleted, RestoreKeepsDeleted, RecordKeepsDeleted,
     CursorKeepsDeleted, ReopenKeepsDeleted, BuildKeepsDeleted, ReplaceKeepsDeleted,
     FinishKeepsDeleted, InterruptKeepsDeleted DEF Operator
<1>5. CASE UNCHANGED vars
  <2>1. UNCHANGED <<world, now, workspace, control, receipts, run, copies, operator, deleted>>
    BY <1>5 DEF vars, history
  <2>2. Forward
    BY <2>1, AtWork, Still
  <2> QED BY <2>1, <2>2, DeletionQuiet
<1> QED BY <1>1, <1>2, <1>3, <1>4, <1>5 DEF Next

\* on the host a copy is always whole: a backup that is put back is replayed before
LEMMA NativeStep ==
  ASSUME RecoveryInv, Native => DeletionInv, [Next]_vars
  PROVE  Native' => DeletionInv'
<1>1. Native' = Native
  BY DEF Native, Next, vars, Invocation, Open, TakeLease, WriteBatch, Prepare, DeleteBatch, ConfirmRead,
     ConfirmWrite, RetireSelect, RetireProofs, RetireReceipts, Lose, Server, CopyWorkspace, Operator,
     Quarantine, Settle, PrepareRun, BeginNative, ReplayNext, ClaimRestore, RestoreBookmark,
     RecordRestore, MoveCursor, Reopen, BuildNative, ReplaceNative, FinishNative, Interrupt, Process, Tick
<1> QED BY <1>1, DeletionStep DEF CopiesAreWhole

(* What was deleted stays deleted, in every open workspace and for any number of drafts,      *)
(* deletions, copies and recoveries: although copies that hold a draft are restored, the      *)
(* confirmation of its deletion is lost, its receipt is retired, and the operator's command   *)
(* dies between any two of its calls (workspace-recovery.ts and deletion-receipts.ts).  One   *)
(* thing is asked of the operator: no bookmark that is restored later lies between an earlier *)
(* restoration and its last replay; workspace-recovery.ts does not check it.                  *)
THEOREM DeletionsLast ==
  ASSUME RecoveryAssumption
  PROVE  Spec /\ [][CopiesAreWhole]_vars => []DeletedStaysDeleted
<1>1. ASSUME RecoveryInv, DeletionInv, [Next]_vars, [CopiesAreWhole]_vars
      PROVE  DeletionInv'
  <2>1. CASE CopiesAreWhole
    BY <1>1, <2>1, DeletionStep
  <2>2. CASE UNCHANGED vars
    <3>1. CopiesAreWhole
      BY <2>2 DEF vars, CopiesAreWhole
    <3> QED BY <1>1, <3>1, DeletionStep
  <2> QED BY <1>1, <2>1, <2>2
<1>2. RecoveryInv /\ DeletionInv => DeletedStaysDeleted
  BY DEF DeletionInv, BackIsUnreplayed, Back, RecoveryInv, PhaseFits, Recovering, DeletedStaysDeleted
<1> QED BY <1>1, <1>2, RecoveryAlways, DeletionInit, PTL DEF Spec

(* On the host nothing has to be asked: every committed deletion is replayed on a private      *)
(* copy before the workspace is replaced (server/restore.ts).                                  *)
THEOREM NativeDeletionsLast ==
  ASSUME RecoveryAssumption
  PROVE  Spec => [](Native => DeletedStaysDeleted)
<1>1. RecoveryInv /\ DeletionInv => DeletedStaysDeleted
  BY DEF DeletionInv, BackIsUnreplayed, Back, RecoveryInv, PhaseFits, Recovering, DeletedStaysDeleted
<1> QED BY <1>1, NativeStep, RecoveryAlways, DeletionInit, PTL DEF Spec

-----------------------------------------------------------------------------
(* A behaviour of AfterLoss is one of each part.                           *)

LEMMA WorkspaceBehaves == LossSpec => Spec
<1>1. LossInit => Init
  BY DEF LossInit
<1>2. [LossNext]_<<part, vars, editorVars>> => [Next]_vars
  BY DEF LossNext
<1> QED BY <1>1, <1>2, PTL DEF LossSpec, Spec

LEMMA EditorBehaves == LossSpec => E!Spec
<1>1. LossInit => E!Init
  BY DEF LossInit
<1>2. [LossNext]_<<part, vars, editorVars>> => [E!Next]_(E!vars)
  BY DEF LossNext, editorVars, E!vars, E!server, E!counters, E!ghosts
<1> QED BY <1>1, <1>2, PTL DEF LossSpec, E!Spec

(* "Stale saves MUST NOT overwrite newer work": no revision of the draft loses what an earlier *)
(* one held, where a commit is read back before another client saves, and as long as           *)
(* corrections replace a document that nothing waits behind (action-autosave.ts).              *)
THEOREM NewerWorkSurvives ==
  ASSUME E!PromptReads
  PROVE  LossSpec /\ []E!CorrectionsAreSafe => []NothingOverwritten
<1>1. E!Spec /\ []E!CorrectionsAreSafe => []E!NothingOverwritten
  BY EditorBounded, E!WorkIsNotOverwritten
<1> QED BY <1>1, EditorBehaves, PTL DEF NothingOverwritten

(* "Zero lost ... actions" (specs/016-action-autosave, SC-016-005): an edit that the editor     *)
(* accepted is in the latest revision, in the queue of an open page, in the journal, or was     *)
(* dropped with a word to the user, as long as corrections replace a document that nothing      *)
(* waits behind, and a page that leaves with work in its queue owns the journal                 *)
(* (action-autosave.ts, pending-journal.ts).                                                    *)
THEOREM AcceptedEditsSurvive ==
  ASSUME E!PromptReads
  PROVE  LossSpec /\ []E!CorrectionsAreSafe /\ [][E!LeavesItsWork]_(E!vars) => []Accounted
<1>1. E!Spec /\ []E!CorrectionsAreSafe /\ [][E!LeavesItsWork]_(E!vars) => []E!Accounted
  BY EditorBounded, E!EditsAreAccounted
<1> QED BY <1>1, EditorBehaves, PTL DEF Accounted

(* Where no page is duplicated, the second of these conditions holds.                           *)
THEOREM AcceptedEditsOfOnePageSurvive ==
  ASSUME E!PromptReads, E!OnePage
  PROVE  LossSpec /\ []E!CorrectionsAreSafe => []Accounted
<1>1. E!Spec /\ []E!CorrectionsAreSafe => []E!Accounted
  BY EditorBounded, E!EditsOfOnePageAreAccounted
<1> QED BY <1>1, EditorBehaves, PTL DEF Accounted
=============================================================================
