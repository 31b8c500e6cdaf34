--------------------------- MODULE DraftStoreProofs ---------------------------
(***************************************************************************)
(* Proofs about DraftStore for every number of people, tabs, drafts,       *)
(* documents, keys, handlers and bounds.                                   *)
(*                                                                         *)
(* The types alone are not inductive: getDraft reads the sequence number   *)
(* of the latest revision, so that revision has to be stored, and a batch  *)
(* writes what its handler has filled in.  Inv adds what keeps both true:  *)
(* revision ids at or above nextRev are unused, the latest revision of a   *)
(* draft is the newest one it has, and a slot is filled as its stage says. *)
(*                                                                         *)
(* Each later section strengthens Inv by what one promise needs, shows     *)
(* that the statements that write the tables it speaks of keep it, and     *)
(* leaves every other step to the frame lemmas.  The last section shows    *)
(* that the repository implements DraftRegister, step by step.             *)
(***************************************************************************)
EXTENDS DraftStoreRefinement, FiniteSetTheorems, TLAPS

IdsUnused == \A r \in RevIds : r >= nextRev => revs[r] = Missing

CreateStages == {"createReplay", "createCommit", "createRace"}
SaveStages == {"saveRead", "saveAuthorize", "saveReplay", "savePayload", "saveCommit",
               "saveRace", "saveRaceReplay"}
OnRevision == {"restoreSource", "label"}

\* what a handler has filled in by the time it reaches a stage
Full(rec) ==
  /\ rec.stage \notin {"idle", "retain"} => rec.client \in Clients
  /\ rec.stage \notin {"idle", "retain"} \cup CreateStages => rec.draft \in Drafts
  /\ rec.stage \in CreateStages \cup SaveStages \cup {"restoreSource", "answer"} => rec.key \in Keys
  /\ rec.stage \in SaveStages => rec.doc \in Docs
  /\ rec.stage \in OnRevision => rec.base \in RevIds

SlotsFull == \A q \in Requests : Full(reqs[q])

Inv == TypeOK /\ SlotsFull /\ IdsUnused /\ LatestIsNewest

USE DraftStoreAssumption

LEMMA IdleIsRequest == Idle \in Request
  BY DEF Idle, Request, Stages, Scopes, RevIds

\* a slot stays well typed when a few of its fields are replaced
LEMMA Placed ==
  ASSUME NEW rec \in Request, NEW s \in Stages, NEW c \in Clients, NEW d \in Drafts \cup {None}
  PROVE  [rec EXCEPT !.stage = s, !.client = c, !.draft = d] \in Request
  BY DEF Request

LEMMA Owned ==
  ASSUME NEW rec \in Request, NEW c \in Clients, NEW d \in Drafts
  PROVE  [rec EXCEPT !.client = c, !.draft = d] \in Request
  BY DEF Request

LEMMA Staged ==
  ASSUME NEW rec \in Request, NEW s \in Stages
  PROVE  [rec EXCEPT !.stage = s] \in Request
  BY DEF Request

LEMMA Filled ==
  ASSUME NEW rec \in Request, NEW k \in Keys
  PROVE  /\ \A x \in Docs \cup {None} : [rec EXCEPT !.key = k, !.doc = x] \in Request
         /\ [rec EXCEPT !.key = k] \in Request
  BY DEF Request

LEMMA Scoped ==
  ASSUME NEW rec \in Request
  PROVE  /\ \A n \in Names \cup {None} : [rec EXCEPT !.name = n] \in Request
         /\ \A o \in Scopes : [rec EXCEPT !.scope = o] \in Request
         /\ \A o \in Scopes, n \in Names : [rec EXCEPT !.scope = o, !.name = n] \in Request
  BY DEF Request

LEMMA Aimed ==
  ASSUME NEW rec \in Request
  PROVE  /\ \A s \in {"active", "archived"} : [rec EXCEPT !.status = s] \in Request
         /\ \A s \in {"active", "archived"} : [rec EXCEPT !.aim = s] \in Request
         /\ \A b \in BOOLEAN : [rec EXCEPT !.same = b] \in Request
  BY DEF Request

LEMMA Numbered ==
  ASSUME NEW rec \in Request
  PROVE  /\ \A r \in 0..MaxRevs : [rec EXCEPT !.exp = r] \in Request
         /\ \A r \in 0..MaxRevs : [rec EXCEPT !.cur = r] \in Request
         /\ \A r \in 0..MaxRevs : [rec EXCEPT !.base = r] \in Request
         /\ \A n \in Nat : [rec EXCEPT !.seq = n] \in Request
         /\ \A n \in Nat : [rec EXCEPT !.at = n] \in Request
         /\ \A t \in 0..MaxTokens : [rec EXCEPT !.token = t] \in Request
  BY DEF Request

LEMMA Planned ==
  ASSUME NEW rec \in Request, NEW plan \in SUBSET RevIds
  PROVE  [rec EXCEPT !.plan = plan] \in Request
  BY DEF Request

LEMMA IdleIsFull == Full(Idle)
  BY DEF Full, Idle, CreateStages, SaveStages, OnRevision

SlotsOK == reqs \in [Requests -> Request] /\ SlotsFull

\* what a handler does to its own slot keeps the slots in order
LEMMA SlotType ==
  ASSUME Inv, NEW q \in Requests, NEW rec \in Request, Full(rec),
         reqs' = [reqs EXCEPT ![q] = rec]
  PROVE  SlotsOK'
<1>1. reqs' \in [Requests -> Request]
  BY DEF Inv, TypeOK
<1>2. \A p \in Requests : reqs'[p] = IF p = q THEN rec ELSE reqs[p]
  BY DEF Inv, TypeOK
<1>3. \A p \in Requests : Full(reqs'[p])
  BY <1>2 DEF Inv, SlotsFull
<1> QED BY <1>1, <1>3 DEF SlotsOK, SlotsFull

LEMMA FinishType ==
  ASSUME Inv, NEW q \in Requests, Finish(q)
  PROVE  SlotsOK'
  BY IdleIsRequest, IdleIsFull, SlotType DEF Finish

LEMMA GotoType ==
  ASSUME Inv, NEW q \in Requests, NEW stage \in Stages, Goto(q, stage),
         Full([reqs[q] EXCEPT !.stage = stage])
  PROVE  SlotsOK'
<1>1. [reqs[q] EXCEPT !.stage = stage] \in Request
  BY Staged DEF Inv, TypeOK
<1>2. reqs' = [reqs EXCEPT ![q] = [reqs[q] EXCEPT !.stage = stage]]
  BY DEF Goto
<1> QED BY <1>1, <1>2, SlotType

THEOREM InitInv == Init => Inv
<1> SUFFICES ASSUME Init PROVE Inv
  OBVIOUS
<1> USE DEF Init
<1>1. drafts \in [Drafts -> Draft]
  BY DEF Draft
<1>2. revs \in [RevIds -> Rev \cup {Missing}]
  BY DEF Rev, RevIds, FirstRevision
<1>3. TypeOK
  BY <1>1, <1>2, IdleIsRequest DEF TypeOK, RevIds, Missing
<1>4. IdsUnused
  BY DEF IdsUnused, RevIds
<1>5. LatestIsNewest
  BY NoneIsNoValue DEF LatestIsNewest, Exists, Latest, RevsOf, RevIds, FirstRevision, Missing
<1>6. SlotsFull
  BY IdleIsFull DEF SlotsFull
<1> QED BY <1>3, <1>4, <1>5, <1>6 DEF Inv

-----------------------------------------------------------------------------
(* Steps that leave the tables alone.                                      *)

LEMMA TablesKept ==
  ASSUME Inv, UNCHANGED Tables, SlotsOK',
         acks' \in [Idents -> 0..MaxRevs],
         editors' \subseteq Actors, pins' \subseteq RevIds, now' \in Nat
  PROVE  Inv'
<1>1. UNCHANGED <<drafts, revs, labels, nextRev, ledger, checkouts, views, tokens, receipts>>
  BY DEF Tables, history, leases
<1>2. TypeOK'
  BY <1>1 DEF Inv, TypeOK, SlotsOK
<1>3. IdsUnused' /\ LatestIsNewest'
  BY <1>1 DEF Inv, IdsUnused, LatestIsNewest, Exists, Latest, RevsOf
<1> QED BY <1>2, <1>3 DEF Inv, SlotsOK

LEMMA EnvironmentType ==
  ASSUME Inv, UNCHANGED environment
  PROVE  editors' \subseteq Actors /\ pins' \subseteq RevIds /\ now' \in Nat
  BY DEF Inv, TypeOK, environment

LEMMA SlotOnly ==
  ASSUME Inv, UNCHANGED <<Tables, environment, acks>>, SlotsOK'
  PROVE  Inv'
<1>1. acks' \in [Idents -> 0..MaxRevs]
  BY DEF Inv, TypeOK
<1> QED BY <1>1, TablesKept, EnvironmentType

LEMMA StartInv ==
  ASSUME Inv, NEW q \in Requests, NEW rec \in Request, Full(rec), Start(q, rec)
  PROVE  Inv'
<1>1. SlotsOK'
  BY SlotType DEF Start
<1> QED BY <1>1, SlotOnly DEF Start

LEMMA FinishInv ==
  ASSUME Inv, NEW q \in Requests, Finish(q), UNCHANGED <<Tables, environment, acks>>
  PROVE  Inv'
  BY FinishType, SlotOnly

LEMMA AnswerInv ==
  ASSUME Inv, NEW q \in Requests, NEW r \in 0..MaxRevs, Answer(q, r),
         UNCHANGED <<Tables, environment>>
  PROVE  Inv'
<1>1. SlotsOK'
  BY FinishType DEF Answer
<1>2. acks' \in [Idents -> 0..MaxRevs]
  BY DEF Answer, Inv, TypeOK
<1> QED BY <1>1, <1>2, TablesKept, EnvironmentType

LEMMA ReceiptType ==
  ASSUME TypeOK, NEW i \in Idents, receipts[i] \notin {Missing, Gone}
  PROVE  receipts[i] \in Receipt
  BY DEF TypeOK

LEMMA ReplayType ==
  ASSUME TypeOK, NEW q \in Requests, Replays(reqs[q])
  PROVE  receipts[Ident(reqs[q])].rev \in RevIds
  BY DEF Replays, Stored

LEMMA RevType ==
  ASSUME TypeOK, NEW r \in RevIds, revs[r] # Missing
  PROVE  revs[r] \in Rev
  BY DEF TypeOK

LEMMA LatestType ==
  ASSUME Inv, NEW d \in Drafts, Exists(d)
  PROVE  /\ Latest(d) \in RevIds
         /\ revs[Latest(d)] \in Rev
         /\ revs[Latest(d)].draft = d
         /\ Latest(d) < nextRev
<1>1. Latest(d) \in RevIds /\ revs[Latest(d)] # Missing /\ revs[Latest(d)].draft = d
  BY DEF Inv, LatestIsNewest, RevsOf
<1>2. revs[Latest(d)] \in Rev
  BY <1>1, RevType DEF Inv
<1>3. Latest(d) < nextRev
  BY <1>1 DEF Inv, IdsUnused, TypeOK, RevIds
<1> QED BY <1>1, <1>2, <1>3

-----------------------------------------------------------------------------
(* The first step of each handler.                                         *)

LEMMA CreateBeginInv == ASSUME Inv, NEW q \in Requests, CreateBegin(q) PROVE Inv'
<1>1. PICK c \in Clients, k \in Keys, n \in Names, r \in {0} \cup RevIds :
        /\ r # 0 => revs[r] # Missing
        /\ Start(q,
             [Idle EXCEPT !.stage = "createReplay", !.client = c, !.scope = "create",
                          !.key = k, !.name = n, !.at = now,
                          !.draft = IF r = 0 THEN None ELSE revs[r].draft,
                          !.doc = IF r = 0 THEN None ELSE revs[r].doc])
  BY DEF CreateBegin
<1> DEFINE d == IF r = 0 THEN None ELSE revs[r].draft
           x == IF r = 0 THEN None ELSE revs[r].doc
<1>2. d \in Drafts \cup {None} /\ x \in Docs \cup {None}
  BY <1>1, RevType DEF Inv, Rev
<1>3. now \in Nat
  BY DEF Inv, TypeOK
<1> HIDE DEF d, x
<1> DEFINE r1 == [Idle EXCEPT !.stage = "createReplay", !.client = c, !.draft = d]
           r2 == [r1 EXCEPT !.scope = "create", !.name = n]
           r3 == [r2 EXCEPT !.key = k, !.doc = x]
           r4 == [r3 EXCEPT !.at = now]
<1>r1. r1 \in Request
  BY IdleIsRequest, <1>2, Placed DEF Stages
<1>r2. r2 \in Request
  <2> HIDE DEF r1
  <2> QED BY <1>r1, Scoped DEF Scopes
<1>r3. r3 \in Request
  <2> HIDE DEF r2
  <2> QED BY <1>r2, <1>2, Filled
<1>r4. r4 \in Request
  <2> HIDE DEF r3
  <2> QED BY <1>r3, <1>3, Numbered
<1>full. Full(r4)
  BY DEF Full, Idle, CreateStages, SaveStages, OnRevision
<1> QED BY <1>1, <1>r4, <1>full, StartInv DEF d, x

LEMMA SaveBeginInv == ASSUME Inv, NEW q \in Requests, SaveBegin(q) PROVE Inv'
<1>1. PICK c \in Clients, t \in Tokens, k \in Keys, d \in Drafts, doc \in Docs, e \in RevIds :
        Start(q, [Idle EXCEPT !.stage = "saveRead", !.client = c, !.token = t, !.key = k,
                              !.draft = d, !.doc = doc, !.exp = e])
  BY DEF SaveBegin
<1> DEFINE r1 == [Idle EXCEPT !.stage = "saveRead", !.client = c, !.draft = d]
           r2 == [r1 EXCEPT !.key = k, !.doc = doc]
           r3 == [r2 EXCEPT !.token = t]
           r4 == [r3 EXCEPT !.exp = e]
<1>r1. r1 \in Request
  BY IdleIsRequest, Placed DEF Stages
<1>r2. r2 \in Request
  <2> HIDE DEF r1
  <2> QED BY <1>r1, Filled
<1>r3. r3 \in Request
  <2> HIDE DEF r2
  <2> QED BY <1>r2, Numbered DEF Tokens
<1>r4. r4 \in Request
  <2> HIDE DEF r3
  <2> QED BY <1>r3, Numbered DEF RevIds
<1>full. Full(r4)
  BY DEF Full, Idle, CreateStages, SaveStages, OnRevision
<1> QED BY <1>1, <1>r4, <1>full, StartInv

LEMMA RestoreBeginInv == ASSUME Inv, NEW q \in Requests, RestoreBegin(q) PROVE Inv'
<1>1. PICK c \in Clients, t \in Tokens, k \in Keys, d \in Drafts, e \in RevIds, src \in RevIds :
        Start(q, [Idle EXCEPT !.stage = "restoreSource", !.client = c, !.token = t, !.key = k,
                              !.scope = "restore", !.draft = d, !.exp = e, !.base = src])
  BY DEF RestoreBegin
<1> DEFINE r1 == [Idle EXCEPT !.stage = "restoreSource", !.client = c, !.draft = d]
           r2 == [r1 EXCEPT !.key = k]
           r3 == [r2 EXCEPT !.scope = "restore"]
           r4 == [r3 EXCEPT !.token = t]
           r5 == [r4 EXCEPT !.exp = e]
           r6 == [r5 EXCEPT !.base = src]
<1>r1. r1 \in Request
  BY IdleIsRequest, Placed DEF Stages
<1>r2. r2 \in Request
  <2> HIDE DEF r1
  <2> QED BY <1>r1, Filled
<1>r3. r3 \in Request
  <2> HIDE DEF r2
  <2> QED BY <1>r2, Scoped DEF Scopes
<1>r4. r4 \in Request
  <2> HIDE DEF r3
  <2> QED BY <1>r3, Numbered DEF Tokens
<1>r5. r5 \in Request
  <2> HIDE DEF r4
  <2> QED BY <1>r4, Numbered DEF RevIds
<1>r6. r6 \in Request
  <2> HIDE DEF r5
  <2> QED BY <1>r5, Numbered DEF RevIds
<1>full. Full(r6)
  BY DEF Full, Idle, CreateStages, SaveStages, OnRevision
<1> QED BY <1>1, <1>r6, <1>full, StartInv

\* the four operations on metadata differ in what they aim at
LEMMA MetaBeginInv ==
  ASSUME Inv, NEW q \in Requests, NEW d \in Drafts, NEW rec \in Request,
         NEW allowed \in SUBSET {"active", "archived"}, MetaBegin(q, d, allowed, rec),
         rec.stage \in {"label", "rename", "status", "purgeCheck"},
         rec.stage = "label" => rec.base \in RevIds
  PROVE  Inv'
<1>1. PICK c \in Clients, t \in Tokens :
        Start(q, [rec EXCEPT !.client = c, !.token = t, !.draft = d,
                             !.cur = Latest(d), !.status = drafts[d].status])
  BY DEF MetaBegin
<1> DEFINE l == Latest(d)
           s == drafts[d].status
<1>2. s \in {"active", "archived"} /\ l \in 0..MaxRevs
  BY DEF MetaBegin, Inv, TypeOK, Draft, Latest
<1> HIDE DEF l, s
<1> DEFINE r1 == [rec EXCEPT !.client = c, !.draft = d]
           r2 == [r1 EXCEPT !.token = t]
           r3 == [r2 EXCEPT !.cur = l]
           r4 == [r3 EXCEPT !.status = s]
<1>r1. r1 \in Request
  BY rec \in Request, Owned
<1>r2. r2 \in Request
  <2> HIDE DEF r1
  <2> QED BY <1>r1, Numbered DEF Tokens
<1>r3. r3 \in Request
  <2> HIDE DEF r2
  <2> QED BY <1>r2, <1>2, Numbered
<1>r4. r4 \in Request
  <2> HIDE DEF r3
  <2> QED BY <1>r3, <1>2, Aimed
<1>full. Full(r4)
  BY DEF Full, Idle, CreateStages, SaveStages, OnRevision
<1> QED BY <1>1, <1>r4, <1>full, StartInv DEF l, s

LEMMA LabelBeginInv == ASSUME Inv, NEW q \in Requests, LabelBegin(q) PROVE Inv'
<1>1. PICK d \in Drafts, r \in RevIds :
        MetaBegin(q, d, {"active"}, [Idle EXCEPT !.stage = "label", !.base = r])
  BY DEF LabelBegin, RevsOf
<1> DEFINE r1 == [Idle EXCEPT !.stage = "label"]
           r2 == [r1 EXCEPT !.base = r]
<1>r1. r1 \in Request
  BY IdleIsRequest, Staged DEF Stages
<1>r2. r2 \in Request
  <2> HIDE DEF r1
  <2> QED BY <1>r1, Numbered DEF RevIds
<1>2. r2.stage \in {"label", "rename", "status", "purgeCheck"} /\ (r2.stage = "label" => r2.base \in RevIds)
  BY DEF Idle
<1> HIDE DEF r2
<1> QED BY <1>1, <1>2, <1>r2, MetaBeginInv DEF r2

LEMMA RenameBeginInv == ASSUME Inv, NEW q \in Requests, RenameBegin(q) PROVE Inv'
<1>1. PICK d \in Drafts, n \in Names :
        MetaBegin(q, d, {"active"}, [Idle EXCEPT !.stage = "rename", !.name = n])
  BY DEF RenameBegin
<1> DEFINE r1 == [Idle EXCEPT !.stage = "rename"]
           r2 == [r1 EXCEPT !.name = n]
<1>r1. r1 \in Request
  BY IdleIsRequest, Staged DEF Stages
<1>r2. r2 \in Request
  <2> HIDE DEF r1
  <2> QED BY <1>r1, Scoped
<1>2. r2.stage \in {"label", "rename", "status", "purgeCheck"} /\ (r2.stage = "label" => r2.base \in RevIds)
  BY DEF Idle
<1> HIDE DEF r2
<1> QED BY <1>1, <1>2, <1>r2, MetaBeginInv DEF r2

LEMMA StatusBeginInv == ASSUME Inv, NEW q \in Requests, StatusBegin(q) PROVE Inv'
<1>1. PICK d \in Drafts, to \in {"active", "archived"} :
        MetaBegin(q, d, {"active", "archived"}, [Idle EXCEPT !.stage = "status", !.aim = to])
  BY DEF StatusBegin
<1> DEFINE r1 == [Idle EXCEPT !.stage = "status"]
           r2 == [r1 EXCEPT !.aim = to]
<1>r1. r1 \in Request
  BY IdleIsRequest, Staged DEF Stages
<1>r2. r2 \in Request
  <2> HIDE DEF r1
  <2> QED BY <1>r1, Aimed
<1>2. r2.stage \in {"label", "rename", "status", "purgeCheck"} /\ (r2.stage = "label" => r2.base \in RevIds)
  BY DEF Idle
<1> HIDE DEF r2
<1> QED BY <1>1, <1>2, <1>r2, MetaBeginInv DEF r2

LEMMA PurgeBeginInv == ASSUME Inv, NEW q \in Requests, PurgeBegin(q) PROVE Inv'
<1>1. PICK d \in Drafts : MetaBegin(q, d, {"archived"}, [Idle EXCEPT !.stage = "purgeCheck"])
  BY DEF PurgeBegin
<1> DEFINE r1 == [Idle EXCEPT !.stage = "purgeCheck"]
<1>r1. r1 \in Request
  BY IdleIsRequest, Staged DEF Stages
<1>2. r1.stage \in {"label", "rename", "status", "purgeCheck"} /\ (r1.stage = "label" => r1.base \in RevIds)
  BY DEF Idle
<1> HIDE DEF r1
<1> QED BY <1>1, <1>2, <1>r1, MetaBeginInv DEF r1

LEMMA RetainBeginInv == ASSUME Inv, NEW q \in Requests, RetainBegin(q) PROVE Inv'
<1> DEFINE old == {r \in RevIds : Eligible(r)}
<1>1. Start(q, [Idle EXCEPT !.stage = "retain", !.plan = old])
  BY DEF RetainBegin
<1>2. old \in SUBSET RevIds
  OBVIOUS
<1> HIDE DEF old
<1> DEFINE r1 == [Idle EXCEPT !.stage = "retain"]
           r2 == [r1 EXCEPT !.plan = old]
<1>r1. r1 \in Request
  BY IdleIsRequest, Staged DEF Stages
<1>r2. r2 \in Request
  <2> HIDE DEF r1
  <2> QED BY <1>r1, <1>2, Planned
<1>full. Full(r2)
  BY DEF Full, Idle, CreateStages, SaveStages, OnRevision
<1> QED BY <1>1, <1>r2, <1>full, StartInv

LEMMA AcquireBeginInv == ASSUME Inv, NEW q \in Requests, AcquireBegin(q) PROVE Inv'
<1>1. PICK c \in Clients, d \in Drafts :
        /\ Exists(d)
        /\ Start(q, [Idle EXCEPT !.stage = "acquireCommit", !.client = c, !.draft = d,
                                 !.status = drafts[d].status, !.at = now])
  BY DEF AcquireBegin
<1> DEFINE s == drafts[d].status
<1>2. s \in {"active", "archived"} /\ now \in Nat
  BY <1>1 DEF Exists, Inv, TypeOK
<1> HIDE DEF s
<1> DEFINE r1 == [Idle EXCEPT !.stage = "acquireCommit", !.client = c, !.draft = d]
           r2 == [r1 EXCEPT !.status = s]
           r3 == [r2 EXCEPT !.at = now]
<1>r1. r1 \in Request
  BY IdleIsRequest, Placed DEF Stages
<1>r2. r2 \in Request
  <2> HIDE DEF r1
  <2> QED BY <1>r1, <1>2, Aimed
<1>r3. r3 \in Request
  <2> HIDE DEF r2
  <2> QED BY <1>r2, <1>2, Numbered
<1>full. Full(r3)
  BY DEF Full, Idle, CreateStages, SaveStages, OnRevision
<1> QED BY <1>1, <1>r3, <1>full, StartInv DEF s

LEMMA ResumeBeginInv == ASSUME Inv, NEW q \in Requests, ResumeBegin(q) PROVE Inv'
<1>1. PICK c \in Clients, d \in Drafts :
        Start(q, [Idle EXCEPT !.stage = "acquireRow", !.client = c, !.draft = d])
  BY DEF ResumeBegin
<1> DEFINE r1 == [Idle EXCEPT !.stage = "acquireRow", !.client = c, !.draft = d]
<1>r1. r1 \in Request
  BY IdleIsRequest, Placed DEF Stages
<1>full. Full(r1)
  BY DEF Full, Idle, CreateStages, SaveStages, OnRevision
<1> QED BY <1>1, <1>r1, <1>full, StartInv

LEMMA TouchBeginInv == ASSUME Inv, NEW q \in Requests, TouchBegin(q) PROVE Inv'
<1>1. PICK c \in Clients, t \in Tokens, d \in Drafts :
        Start(q, [Idle EXCEPT !.stage = "touch", !.client = c, !.token = t,
                              !.draft = d, !.at = now])
  BY DEF TouchBegin
<1>2. now \in Nat
  BY DEF Inv, TypeOK
<1> DEFINE r1 == [Idle EXCEPT !.stage = "touch", !.client = c, !.draft = d]
           r2 == [r1 EXCEPT !.token = t]
           r3 == [r2 EXCEPT !.at = now]
<1>r1. r1 \in Request
  BY IdleIsRequest, Placed DEF Stages
<1>r2. r2 \in Request
  <2> HIDE DEF r1
  <2> QED BY <1>r1, Numbered DEF Tokens
<1>r3. r3 \in Request
  <2> HIDE DEF r2
  <2> QED BY <1>r2, <1>2, Numbered
<1>full. Full(r3)
  BY DEF Full, Idle, CreateStages, SaveStages, OnRevision
<1> QED BY <1>1, <1>r3, <1>full, StartInv

-----------------------------------------------------------------------------
(* The steps between the first and the last one of a handler.              *)

LEMMA SlotFull ==
  ASSUME Inv, NEW q \in Requests
  PROVE  reqs[q] \in Request /\ Full(reqs[q]) /\ reqs[q].stage \in Stages
  BY DEF Inv, TypeOK, SlotsFull, Request

\* moving on within the same group of stages asks for nothing new
LEMMA GotoInv ==
  ASSUME Inv, NEW q \in Requests, NEW stage \in Stages, Goto(q, stage),
         \/ reqs[q].stage \in CreateStages /\ stage \in CreateStages
         \/ reqs[q].stage \in SaveStages /\ stage \in SaveStages
         \/ reqs[q].stage = "purgeCheck" /\ stage = "purgeCommit",
         UNCHANGED <<Tables, environment, acks>>
  PROVE  Inv'
<1>1. Full([reqs[q] EXCEPT !.stage = stage])
  BY SlotFull DEF Full, CreateStages, SaveStages, OnRevision, Request
<1> QED BY <1>1, GotoType, SlotOnly

LEMMA CreateReplayInv == ASSUME Inv, NEW q \in Requests, CreateReplay(q) PROVE Inv'
<1>1. CASE Replays(reqs[q]) /\ Answer(q, receipts[Ident(reqs[q])].rev)
  BY <1>1, ReplayType, AnswerInv DEF Inv, CreateReplay, RevIds
<1>2. CASE Finish(q) /\ UNCHANGED acks
  BY <1>2, FinishInv DEF CreateReplay
<1>3. CASE /\ reqs' = [reqs EXCEPT ![q].stage = "createCommit", ![q].at = now]
           /\ UNCHANGED acks
  <2> DEFINE r1 == [reqs[q] EXCEPT !.stage = "createCommit"]
             r2 == [r1 EXCEPT !.at = now]
  <2>1. r1 \in Request
    BY SlotFull, Staged DEF Stages
  <2>2. r2 \in Request
    <3> HIDE DEF r1
    <3> QED BY <2>1, Numbered DEF Inv, TypeOK
  <2>3. Full(r2)
    BY SlotFull DEF Full, CreateStages, SaveStages, OnRevision, Request, CreateReplay
  <2>4. reqs' = [reqs EXCEPT ![q] = r2]
    BY <1>3
  <2> HIDE DEF r2
  <2> QED BY <1>3, <2>2, <2>3, <2>4, SlotType, SlotOnly DEF CreateReplay
<1> QED BY <1>1, <1>2, <1>3 DEF CreateReplay

LEMMA CreateAbortInv == ASSUME Inv, NEW q \in Requests, CreateAbort(q) PROVE Inv'
<1>1. CASE Goto(q, "createRace")
  BY <1>1, GotoInv DEF CreateAbort, CreateStages, Stages
<1>2. CASE Finish(q)
  BY <1>2, FinishInv DEF CreateAbort
<1> QED BY <1>1, <1>2 DEF CreateAbort

LEMMA CreateRaceInv == ASSUME Inv, NEW q \in Requests, CreateRace(q) PROVE Inv'
<1>1. CASE Replays(reqs[q]) /\ Answer(q, receipts[Ident(reqs[q])].rev)
  BY <1>1, ReplayType, AnswerInv DEF Inv, CreateRace, RevIds
<1>2. CASE Finish(q) /\ UNCHANGED acks
  BY <1>2, FinishInv DEF CreateRace
<1> QED BY <1>1, <1>2 DEF CreateRace

LEMMA RestoreSourceInv == ASSUME Inv, NEW q \in Requests, RestoreSource(q) PROVE Inv'
<1>1. CASE Finish(q)
  BY <1>1, FinishInv DEF RestoreSource
<1>2. CASE /\ reqs[q].base \in RevsOf(reqs[q].draft)
           /\ reqs' = [reqs EXCEPT ![q].stage = "saveRead", ![q].base = 0,
                                   ![q].doc = revs[reqs[q].base].doc]
  <2> DEFINE x == revs[reqs[q].base].doc
             r1 == [reqs[q] EXCEPT !.stage = "saveRead"]
             r2 == [r1 EXCEPT !.base = 0]
             r3 == [r2 EXCEPT !.doc = x]
  <2>x. x \in Docs
    BY <1>2, RevType DEF RevsOf, Rev, Inv
  <2> HIDE DEF x
  <2>1. r1 \in Request
    BY SlotFull, Staged DEF Stages
  <2>2. r2 \in Request
    <3> HIDE DEF r1
    <3> QED BY <2>1, Numbered
  <2>3. r3 \in Request
    <3> HIDE DEF r2
    <3> QED BY <2>2, <2>x DEF Request
  <2>4. Full(r3)
    BY SlotFull, <2>x DEF Full, CreateStages, SaveStages, OnRevision, Request, RestoreSource
  <2>5. reqs' = [reqs EXCEPT ![q] = r3]
    BY <1>2 DEF x
  <2> HIDE DEF r3
  <2> QED BY <2>3, <2>4, <2>5, SlotType, SlotOnly DEF RestoreSource
<1> QED BY <1>1, <1>2 DEF RestoreSource

LEMMA SaveReadInv == ASSUME Inv, NEW q \in Requests, SaveRead(q) PROVE Inv'
<1>1. CASE Finish(q)
  BY <1>1, FinishInv DEF SaveRead
<1>2. CASE drafts[reqs[q].draft].status = "active"
  <2> DEFINE l == Latest(reqs[q].draft)
             n == revs[l].seq + 1
             b == (revs[l].doc = reqs[q].doc)
             r1 == [reqs[q] EXCEPT !.stage = "saveAuthorize"]
             r2 == [r1 EXCEPT !.cur = l]
             r3 == [r2 EXCEPT !.seq = n]
             r4 == [r3 EXCEPT !.same = b]
  <2>d. reqs[q].draft \in Drafts
    BY SlotFull DEF Full, SaveRead, CreateStages
  <2>l. l \in 0..MaxRevs /\ n \in Nat
    BY <1>2, <2>d, LatestType DEF Exists, Rev, RevIds
  <2>b. b \in BOOLEAN
    OBVIOUS
  <2> HIDE DEF n, b, l
  <2>1. r1 \in Request
    BY SlotFull, Staged DEF Stages
  <2>2. r2 \in Request
    <3> HIDE DEF r1
    <3> QED BY <2>1, <2>l, Numbered
  <2>3. r3 \in Request
    <3> HIDE DEF r2
    <3> QED BY <2>2, <2>l, Numbered
  <2>4. r4 \in Request
    <3> HIDE DEF r3
    <3> QED BY <2>3, <2>b, Aimed
  <2>5. Full(r4)
    BY SlotFull DEF Full, CreateStages, SaveStages, OnRevision, Request, SaveRead
  <2>6. reqs' = [reqs EXCEPT ![q] = r4]
    BY <1>2 DEF SaveRead, l, n, b
  <2> HIDE DEF r4
  <2> QED BY <2>4, <2>5, <2>6, SlotType, SlotOnly DEF SaveRead
<1> QED BY <1>1, <1>2 DEF SaveRead

LEMMA SaveAuthorizeInv == ASSUME Inv, NEW q \in Requests, SaveAuthorize(q) PROVE Inv'
<1>1. CASE Goto(q, "saveReplay")
  BY <1>1, GotoInv DEF SaveAuthorize, SaveStages, Stages
<1>2. CASE Finish(q)
  BY <1>2, FinishInv DEF SaveAuthorize
<1> QED BY <1>1, <1>2 DEF SaveAuthorize

LEMMA SaveRaceInv == ASSUME Inv, NEW q \in Requests, SaveRace(q) PROVE Inv'
<1>1. CASE Goto(q, "saveRaceReplay")
  BY <1>1, GotoInv DEF SaveRace, SaveStages, Stages
<1>2. CASE Finish(q)
  BY <1>2, FinishInv DEF SaveRace
<1> QED BY <1>1, <1>2 DEF SaveRace

LEMMA SaveReplayInv == ASSUME Inv, NEW q \in Requests, SaveReplay(q) PROVE Inv'
<1>1. CASE Replays(reqs[q]) /\ Answer(q, receipts[Ident(reqs[q])].rev)
  BY <1>1, ReplayType, AnswerInv DEF Inv, SaveReplay, RevIds
<1>2. CASE Finish(q) /\ UNCHANGED acks
  BY <1>2, FinishInv DEF SaveReplay
<1>3. CASE /\ reqs' = [reqs EXCEPT ![q].at = now,
                ![q].stage = IF reqs[q].same THEN "saveCommit" ELSE "savePayload"]
           /\ UNCHANGED acks
  <2> DEFINE st == IF reqs[q].same THEN "saveCommit" ELSE "savePayload"
             r1 == [reqs[q] EXCEPT !.at = now]
             r2 == [r1 EXCEPT !.stage = st]
  <2>s. st \in {"saveCommit", "savePayload"}
    OBVIOUS
  <2> HIDE DEF st
  <2>1. r1 \in Request
    BY SlotFull, Numbered DEF Inv, TypeOK
  <2>2. r2 \in Request
    <3> HIDE DEF r1
    <3> QED BY <2>1, <2>s, Staged DEF Stages
  <2>3. Full(r2)
    BY SlotFull, <2>s DEF Full, CreateStages, SaveStages, OnRevision, Request, SaveReplay
  <2>4. reqs' = [reqs EXCEPT ![q] = r2]
    BY <1>3 DEF st
  <2> HIDE DEF r2
  <2> QED BY <1>3, <2>2, <2>3, <2>4, SlotType, SlotOnly DEF SaveReplay
<1> QED BY <1>1, <1>2, <1>3 DEF SaveReplay

LEMMA SavePayloadInv == ASSUME Inv, NEW q \in Requests, SavePayload(q) PROVE Inv'
<1>1. PICK b \in {0} \cup NewestCheckpoint(reqs[q].draft, reqs[q].seq) :
        reqs' = [reqs EXCEPT ![q].stage = "saveCommit", ![q].base = b]
  BY DEF SavePayload
<1>2. b \in 0..MaxRevs
  BY DEF NewestCheckpoint, Checkpoints, RevsOf, RevIds
<1> DEFINE r1 == [reqs[q] EXCEPT !.stage = "saveCommit"]
           r2 == [r1 EXCEPT !.base = b]
<1>3. r1 \in Request
  BY SlotFull, Staged DEF Stages
<1>4. r2 \in Request
  <2> HIDE DEF r1
  <2> QED BY <1>2, <1>3, Numbered
<1>5. Full(r2)
  BY SlotFull DEF Full, CreateStages, SaveStages, OnRevision, Request, SavePayload
<1>6. reqs' = [reqs EXCEPT ![q] = r2]
  BY <1>1
<1> HIDE DEF r2
<1> QED BY <1>4, <1>5, <1>6, SlotType, SlotOnly DEF SavePayload

LEMMA SaveAbortInv == ASSUME Inv, NEW q \in Requests, SaveAbort(q) PROVE Inv'
<1>1. CASE Goto(q, "saveRace")
  BY <1>1, GotoInv DEF SaveAbort, SaveStages, Stages
<1>2. CASE Finish(q)
  BY <1>2, FinishInv DEF SaveAbort
<1> QED BY <1>1, <1>2 DEF SaveAbort

LEMMA SaveRaceReplayInv == ASSUME Inv, NEW q \in Requests, SaveRaceReplay(q) PROVE Inv'
<1>1. CASE Replays(reqs[q]) /\ Answer(q, receipts[Ident(reqs[q])].rev)
  BY <1>1, ReplayType, AnswerInv DEF Inv, SaveRaceReplay, RevIds
<1>2. CASE Finish(q) /\ UNCHANGED acks
  BY <1>2, FinishInv DEF SaveRaceReplay
<1> QED BY <1>1, <1>2 DEF SaveRaceReplay

LEMMA AnswerCommittedInv == ASSUME Inv, NEW q \in Requests, AnswerCommitted(q) PROVE Inv'
<1>1. CASE Exists(reqs[q].draft) /\ Answer(q, Latest(reqs[q].draft))
  <2>1. reqs[q].draft \in Drafts
    BY SlotFull DEF Full, AnswerCommitted, CreateStages
  <2>2. Latest(reqs[q].draft) \in 0..MaxRevs
    BY <1>1, <2>1, LatestType DEF RevIds
  <2> QED BY <1>1, <2>2, AnswerInv DEF AnswerCommitted
<1>2. CASE Finish(q) /\ UNCHANGED acks
  BY <1>2, FinishInv DEF AnswerCommitted
<1> QED BY <1>1, <1>2 DEF AnswerCommitted

LEMMA PurgeCheckInv == ASSUME Inv, NEW q \in Requests, PurgeCheck(q) PROVE Inv'
<1>1. CASE Goto(q, "purgeCommit")
  BY <1>1, GotoInv DEF PurgeCheck, Stages
<1>2. CASE Finish(q)
  BY <1>2, FinishInv DEF PurgeCheck
<1> QED BY <1>1, <1>2 DEF PurgeCheck

LEMMA AcquireRowInv == ASSUME Inv, NEW q \in Requests, AcquireRow(q) PROVE Inv'
<1>1. CASE Finish(q)
  BY <1>1, FinishInv DEF AcquireRow
<1>2. CASE /\ checkouts[reqs[q].draft] # Missing
           /\ reqs' = [reqs EXCEPT ![q].stage = "acquireCommit",
                                   ![q].token = checkouts[reqs[q].draft].token]
  <2> DEFINE t == checkouts[reqs[q].draft].token
             r1 == [reqs[q] EXCEPT !.stage = "acquireCommit"]
             r2 == [r1 EXCEPT !.token = t]
  <2>d. reqs[q].draft \in Drafts
    BY SlotFull DEF Full, AcquireRow, CreateStages
  <2>t. t \in 0..MaxTokens
    <3>1. checkouts[reqs[q].draft] \in Checkout
      BY <1>2, <2>d DEF Inv, TypeOK
    <3> QED BY <3>1 DEF Checkout, Tokens
  <2> HIDE DEF t
  <2>1. r1 \in Request
    BY SlotFull, Staged DEF Stages
  <2>2. r2 \in Request
    <3> HIDE DEF r1
    <3> QED BY <2>1, <2>t, Numbered
  <2>3. Full(r2)
    BY SlotFull DEF Full, CreateStages, SaveStages, OnRevision, Request, AcquireRow
  <2>4. reqs' = [reqs EXCEPT ![q] = r2]
    BY <1>2 DEF t
  <2> HIDE DEF r2
  <2> QED BY <2>2, <2>3, <2>4, SlotType, SlotOnly DEF AcquireRow
<1> QED BY <1>1, <1>2 DEF AcquireRow

LEMMA AbandonInv == ASSUME Inv, NEW q \in Requests, Abandon(q) PROVE Inv'
  BY FinishInv DEF Abandon
-----------------------------------------------------------------------------
(* The batches that write.                                                 *)

\* revisions are not written, and nothing becomes a draft or gets another latest revision
LEMMA RevisionsKept ==
  ASSUME Inv, TypeOK', SlotsFull', UNCHANGED <<revs, nextRev>>,
         \A d \in Drafts : Exists(d)' => Exists(d) /\ Latest(d)' = Latest(d)
  PROVE  Inv'
<1>1. IdsUnused'
  BY DEF Inv, IdsUnused
<1>2. LatestIsNewest'
  BY DEF Inv, LatestIsNewest, RevsOf
<1> QED BY <1>1, <1>2 DEF Inv

\* ... and when the table of drafts is not written either
LEMMA DraftsKept ==
  ASSUME Inv, TypeOK', SlotsFull', UNCHANGED <<drafts, revs, nextRev>>
  PROVE  Inv'
  BY RevisionsKept DEF Exists, Latest

\* replacing a field of a draft
LEMMA DraftType ==
  ASSUME TypeOK, NEW e \in Draft
  PROVE  /\ \A n \in Names \cup {None} : [e EXCEPT !.name = n] \in Draft
         /\ \A s \in {"active", "archived"} : [e EXCEPT !.status = s] \in Draft
         /\ \A r \in 0..MaxRevs : [e EXCEPT !.latest = r] \in Draft
  BY DEF Draft

LEMMA LabelCommitInv == ASSUME Inv, NEW q \in Requests, LabelCommit(q) PROVE Inv'
<1>1. SlotsOK'
  BY FinishType DEF LabelCommit
<1>2. labels' \subseteq RevIds
  BY SlotFull DEF Inv, TypeOK, LabelCommit, Full, OnRevision
<1>3. TypeOK'
  BY <1>1, <1>2 DEF LabelCommit, Inv, TypeOK, SlotsOK, leases, environment
<1> QED BY <1>1, <1>3, DraftsKept DEF LabelCommit, SlotsOK

LEMMA RenameCommitInv == ASSUME Inv, NEW q \in Requests, RenameCommit(q) PROVE Inv'
<1>1. SlotsOK'
  BY FinishType DEF RenameCommit
<1>2. drafts' \in [Drafts -> Draft]
  <2> DEFINE n == reqs[q].name
             d == reqs[q].draft
  <2>1. n \in Names \cup {None}
    BY SlotFull DEF Request
  <2>2. drafts' = drafts \/ drafts' = [drafts EXCEPT ![d] = [drafts[d] EXCEPT !.name = n]]
    BY DEF RenameCommit, Inv, TypeOK
  <2>3. d \in Drafts
    BY SlotFull DEF Full, RenameCommit, CreateStages
  <2> HIDE DEF n, d
  <2>4. [drafts[d] EXCEPT !.name = n] \in Draft
    BY <2>1, <2>3, DraftType DEF Inv, TypeOK
  <2> QED BY <2>2, <2>4 DEF Inv, TypeOK
<1>3. TypeOK'
  BY <1>1, <1>2 DEF RenameCommit, Inv, TypeOK, SlotsOK, history, leases, environment
<1>4. \A d \in Drafts : Exists(d)' => Exists(d) /\ Latest(d)' = Latest(d)
  BY DEF RenameCommit, Exists, Latest, Inv, TypeOK, Draft
<1> QED BY <1>1, <1>3, <1>4, RevisionsKept DEF RenameCommit, SlotsOK, history

LEMMA NoViewsType == ASSUME TypeOK, NEW d PROVE NoViewsOf(d) \in [Actors -> Drafts \cup {None}]
  BY DEF TypeOK, NoViewsOf

LEMMA StatusCommitInv == ASSUME Inv, NEW q \in Requests, StatusCommit(q) PROVE Inv'
<1> DEFINE d == reqs[q].draft
<1>1. SlotsOK'
  BY FinishType DEF StatusCommit
<1>2. reqs[q].aim \in {"active", "archived"}
  BY SlotFull DEF Request
<1>3. drafts' \in [Drafts -> Draft]
  <2> DEFINE to == reqs[q].aim
  <2>2. drafts' = drafts \/ drafts' = [drafts EXCEPT ![d] = [drafts[d] EXCEPT !.status = to]]
    BY DEF StatusCommit, Inv, TypeOK
  <2>3. to \in {"active", "archived"}
    BY <1>2
  <2>4. d \in Drafts
    BY SlotFull DEF Full, StatusCommit, CreateStages
  <2> HIDE DEF to, d
  <2>5. [drafts[d] EXCEPT !.status = to] \in Draft
    BY <2>3, <2>4, DraftType DEF Inv, TypeOK
  <2> QED BY <2>2, <2>5 DEF Inv, TypeOK
<1>4. checkouts' \in [Drafts -> Checkout \cup {Missing}] /\ views' \in [Actors -> Drafts \cup {None}]
  BY NoViewsType DEF Inv, TypeOK, StatusCommit
<1>5. TypeOK'
  BY <1>1, <1>3, <1>4 DEF StatusCommit, Inv, TypeOK, SlotsOK, history, environment
<1>6. \A e \in Drafts : Exists(e)' => Exists(e) /\ Latest(e)' = Latest(e)
  <2>1. MutationGuard(reqs[q]) => Exists(d)
    BY SlotFull DEF MutationGuard, Exists, Request
  <2> QED BY <2>1 DEF StatusCommit, Exists, Latest, Inv, TypeOK, Draft
<1> QED BY <1>1, <1>5, <1>6, RevisionsKept DEF StatusCommit, SlotsOK, history

\* what is left after a set of revisions has been deleted
LEMMA WithoutType ==
  ASSUME TypeOK, NEW S
  PROVE  /\ Without(S) \in [RevIds -> Rev \cup {Missing}]
         /\ \A r \in RevIds : Without(S)[r] # Missing =>
              /\ r \notin S
              /\ revs[r] # Missing
              /\ Without(S)[r].draft = revs[r].draft
         /\ \A r \in RevIds : r \notin S /\ revs[r] # Missing => Without(S)[r] # Missing
<1> SUFFICES ASSUME NEW r \in RevIds
             PROVE  /\ Without(S)[r] \in Rev \cup {Missing}
                    /\ Without(S)[r] # Missing => /\ r \notin S
                                                  /\ revs[r] # Missing
                                                  /\ Without(S)[r].draft = revs[r].draft
                    /\ r \notin S /\ revs[r] # Missing => Without(S)[r] # Missing
  BY DEF Without
<1>1. CASE r \in S \/ revs[r] = Missing
  BY <1>1 DEF Without
<1>2. CASE ~(r \in S \/ revs[r] = Missing)
  <2> DEFINE p == IF revs[r].parent \in S THEN 0 ELSE revs[r].parent
             e == [revs[r] EXCEPT !.parent = p]
  <2>1. revs[r] \in Rev
    BY <1>2, RevType
  <2>2. p \in 0..MaxRevs
    BY <2>1 DEF Rev
  <2>3. Without(S)[r] = e
    BY <1>2 DEF Without
  <2> HIDE DEF p
  <2>4. e \in Rev /\ e.draft = revs[r].draft /\ e.kind = "rev"
    BY <2>1, <2>2 DEF Rev
  <2>5. e # Missing
    BY <2>4 DEF Missing
  <2> HIDE DEF e
  <2> QED BY <1>2, <2>3, <2>4, <2>5
<1> QED BY <1>1, <1>2

\* deleting revisions that are nobody's latest
LEMMA DeletedInv ==
  ASSUME Inv, TypeOK', SlotsFull', NEW S, revs' = Without(S), UNCHANGED nextRev,
         \A d \in Drafts : Exists(d)' => /\ Exists(d)
                                         /\ Latest(d)' = Latest(d)
                                         /\ Latest(d) \notin S
  PROVE  Inv'
<1>1. IdsUnused'
  BY WithoutType DEF Inv, IdsUnused
<1>2. ASSUME NEW d \in Drafts, Exists(d)'
      PROVE  Latest(d)' \in RevsOf(d)' /\ \A r \in RevsOf(d)' : r <= Latest(d)'
  <2>1. Latest(d) \in RevsOf(d) /\ \A r \in RevsOf(d) : r <= Latest(d)
    BY <1>2 DEF Inv, LatestIsNewest
  <2>2. RevsOf(d)' = RevsOf(d) \ S
    BY WithoutType DEF Inv, RevsOf
  <2> QED BY <1>2, <2>1, <2>2
<1>3. LatestIsNewest'
  BY <1>2 DEF LatestIsNewest
<1> QED BY <1>1, <1>3 DEF Inv

LEMMA RetainApplyInv == ASSUME Inv, NEW q \in Requests, RetainApply(q) PROVE Inv'
<1>1. SlotsOK'
  BY FinishType DEF RetainApply
<1>2. revs' \in [RevIds -> Rev \cup {Missing}]
  BY WithoutType DEF RetainApply, Inv, TypeOK
<1>3. TypeOK'
  BY <1>1, <1>2 DEF RetainApply, Inv, TypeOK, SlotsOK, leases, environment
<1>4. CASE UNCHANGED revs
  BY <1>1, <1>3, <1>4, DraftsKept DEF RetainApply, SlotsOK
<1>5. CASE /\ \A r \in reqs[q].plan : Eligible(r)
           /\ revs' = Without(reqs[q].plan)
  <2>1. ASSUME NEW d \in Drafts, Exists(d) PROVE Latest(d) \notin reqs[q].plan
    BY <1>5, <2>1, LatestType DEF Eligible
  <2>2. UNCHANGED drafts
    BY DEF RetainApply
  <2> QED BY <1>1, <1>3, <1>5, <2>1, <2>2, DeletedInv DEF RetainApply, SlotsOK, Exists, Latest
<1> QED BY <1>4, <1>5 DEF RetainApply

LEMMA PurgeCommitInv == ASSUME Inv, NEW q \in Requests, PurgeCommit(q) PROVE Inv'
<1> DEFINE d == reqs[q].draft
<1>1. SlotsOK'
  BY FinishType DEF PurgeCommit
<1>2. CASE UNCHANGED <<drafts, revs, labels, checkouts, views, receipts>>
  <2>1. TypeOK'
    BY <1>1, <1>2 DEF PurgeCommit, Inv, TypeOK, SlotsOK, environment
  <2> QED BY <1>1, <1>2, <2>1, DraftsKept DEF PurgeCommit, SlotsOK
<1>3. CASE Destroy(d)
  <2>1. /\ labels' \subseteq RevIds
        /\ checkouts' \in [Drafts -> Checkout \cup {Missing}]
        /\ views' \in [Actors -> Drafts \cup {None}]
        /\ revs' \in [RevIds -> Rev \cup {Missing}]
    BY <1>3, NoViewsType, WithoutType DEF Destroy, Inv, TypeOK
  <2>2. receipts' \in [Idents -> Receipt \cup {Missing, Gone}]
    BY <1>3 DEF Destroy, Inv, TypeOK
  <2>3. drafts' \in [Drafts -> Draft]
    <3>1. [status |-> "purged", latest |-> 0, name |-> None] \in Draft
      BY DEF Draft
    <3> QED BY <1>3, <3>1 DEF Destroy, Inv, TypeOK
  <2>4. TypeOK'
    BY <1>1, <2>1, <2>2, <2>3 DEF PurgeCommit, Inv, TypeOK, SlotsOK, environment
  <2>5. ASSUME NEW e \in Drafts, Exists(e)'
        PROVE  Exists(e) /\ Latest(e)' = Latest(e) /\ Latest(e) \notin RevsOf(d)
    <3>1. e # d
      BY <1>3, <2>5 DEF Destroy, Exists, Inv, TypeOK
    <3>2. drafts'[e] = drafts[e]
      BY <1>3, <3>1 DEF Destroy, Inv, TypeOK
    <3>3. Exists(e) /\ Latest(e)' = Latest(e)
      BY <2>5, <3>2 DEF Exists, Latest
    <3> QED BY <3>1, <3>3, LatestType DEF RevsOf
  <2> QED BY <1>1, <1>3, <2>4, <2>5, DeletedInv DEF PurgeCommit, Destroy, SlotsOK
<1> QED BY <1>2, <1>3 DEF PurgeCommit

\* tokens and checkouts after a lease was written
LEMMA LeaseType ==
  ASSUME TypeOK, NEW q \in Request, q.client \in Clients, NEW t \in FreshToken,
         NEW until \in Nat, Lease(q, t, until)
  PROVE  /\ checkouts' \in [Drafts -> Checkout \cup {Missing}]
         /\ tokens' \in [Tokens -> Clients \cup {None}]
<1>1. t \in Tokens
  BY DEF FreshToken
<1>2. [kind |-> "lease", client |-> q.client, token |-> t, expires |-> until] \in Checkout
  BY <1>1 DEF Checkout
<1> QED BY <1>1, <1>2 DEF Lease, TypeOK

LEMMA ResumeCommitInv == ASSUME Inv, NEW q \in Requests, ResumeCommit(q) PROVE Inv'
<1>1. SlotsOK'
  BY FinishType DEF ResumeCommit
<1>2. CASE MayResume(reqs[q])
  <2>1. PICK t \in FreshToken : Lease(reqs[q], t, checkouts[reqs[q].draft].expires)
    BY <1>2 DEF ResumeCommit
  <2>2. checkouts[reqs[q].draft].expires \in Nat
    <3>1. reqs[q].draft \in Drafts
      BY SlotFull DEF Full, ResumeCommit, CreateStages
    <3>2. checkouts[reqs[q].draft] \in Checkout
      BY <1>2, <3>1 DEF MayResume, HoldsToken, Inv, TypeOK
    <3> QED BY <3>2 DEF Checkout
  <2>3. reqs[q].client \in Clients
    BY SlotFull DEF Full, ResumeCommit
  <2>4. /\ checkouts' \in [Drafts -> Checkout \cup {Missing}]
        /\ tokens' \in [Tokens -> Clients \cup {None}]
    BY <2>1, <2>2, <2>3, SlotFull, LeaseType DEF Inv
  <2>5. TypeOK'
    BY <1>1, <2>4 DEF ResumeCommit, Inv, TypeOK, SlotsOK, history, environment
  <2> QED BY <1>1, <2>5, DraftsKept DEF ResumeCommit, SlotsOK, history
<1>3. CASE UNCHANGED <<checkouts, tokens>>
  <2>1. TypeOK'
    BY <1>1, <1>3 DEF ResumeCommit, Inv, TypeOK, SlotsOK, history, environment
  <2> QED BY <1>1, <2>1, DraftsKept DEF ResumeCommit, SlotsOK, history
<1> QED BY <1>2, <1>3 DEF ResumeCommit

LEMMA AcquireCommitInv == ASSUME Inv, NEW q \in Requests, AcquireCommit(q) PROVE Inv'
<1>1. SlotsOK'
  BY FinishType DEF AcquireCommit
<1>2. CASE MayTake(reqs[q])
  <2>1. PICK t \in FreshToken : Lease(reqs[q], t, reqs[q].at + CheckoutTtl)
    BY <1>2 DEF AcquireCommit
  <2>2. reqs[q].at + CheckoutTtl \in Nat
    BY SlotFull DEF Request
  <2>3. reqs[q].client \in Clients
    BY SlotFull DEF Full, AcquireCommit
  <2>4. /\ checkouts' \in [Drafts -> Checkout \cup {Missing}]
        /\ tokens' \in [Tokens -> Clients \cup {None}]
    BY <2>1, <2>2, <2>3, SlotFull, LeaseType DEF Inv
  <2>5. TypeOK'
    BY <1>1, <2>4 DEF AcquireCommit, Inv, TypeOK, SlotsOK, history, environment
  <2> QED BY <1>1, <2>5, DraftsKept DEF AcquireCommit, SlotsOK, history
<1>3. CASE UNCHANGED <<checkouts, tokens>>
  <2>1. TypeOK'
    BY <1>1, <1>3 DEF AcquireCommit, Inv, TypeOK, SlotsOK, history, environment
  <2> QED BY <1>1, <2>1, DraftsKept DEF AcquireCommit, SlotsOK, history
<1> QED BY <1>2, <1>3 DEF AcquireCommit

LEMMA TouchCommitInv == ASSUME Inv, NEW q \in Requests, TouchCommit(q) PROVE Inv'
<1> DEFINE d == reqs[q].draft
<1>1. SlotsOK'
  BY FinishType DEF TouchCommit
<1>2. CASE MayResume(reqs[q])
  <2>1. d \in Drafts /\ reqs[q].at + CheckoutTtl \in Nat
    BY SlotFull DEF Full, TouchCommit, CreateStages, Request
  <2>2. checkouts[d] \in Checkout
    BY <1>2, <2>1 DEF MayResume, HoldsToken, Inv, TypeOK
  <2>3. \A n \in Nat : [checkouts[d] EXCEPT !.expires = n] \in Checkout
    BY <2>2 DEF Checkout
  <2>4. checkouts' \in [Drafts -> Checkout \cup {Missing}]
    <3> DEFINE n == reqs[q].at + CheckoutTtl
    <3>1. \/ checkouts' = checkouts
          \/ checkouts' = [checkouts EXCEPT ![d] = [checkouts[d] EXCEPT !.expires = n]]
      BY <1>2, <2>1 DEF TouchCommit, Inv, TypeOK
    <3> HIDE DEF n, d
    <3> QED BY <2>1, <2>3, <3>1 DEF Inv, TypeOK, n
  <2>5. views' \in [Actors -> Drafts \cup {None}]
    BY <1>2, <2>1 DEF TouchCommit, Inv, TypeOK
  <2>6. TypeOK'
    BY <1>1, <2>4, <2>5 DEF TouchCommit, Inv, TypeOK, SlotsOK, history, environment
  <2> QED BY <1>1, <2>6, DraftsKept DEF TouchCommit, SlotsOK, history
<1>3. CASE UNCHANGED <<checkouts, views>>
  <2>1. TypeOK'
    BY <1>1, <1>3 DEF TouchCommit, Inv, TypeOK, SlotsOK, history, environment
  <2> QED BY <1>1, <2>1, DraftsKept DEF TouchCommit, SlotsOK, history
<1> QED BY <1>2, <1>3 DEF TouchCommit

\* the newest revision is written under the next id
LEMMA WrittenInv ==
  ASSUME Inv, TypeOK', SlotsFull', NEW d \in Drafts, NEW e \in Rev, e.draft = d,
         nextRev <= MaxRevs, nextRev' = nextRev + 1,
         revs' = [revs EXCEPT ![nextRev] = e],
         Latest(d)' = nextRev,
         \A x \in Drafts : x # d => drafts'[x] = drafts[x]
  PROVE  Inv'
<1>0. nextRev \in RevIds /\ e # Missing
  BY DEF Inv, TypeOK, RevIds, Rev, Missing
<1>1. \A r \in RevIds : revs'[r] = IF r = nextRev THEN e ELSE revs[r]
  BY DEF Inv, TypeOK
<1>2. IdsUnused'
  BY <1>1 DEF Inv, IdsUnused, TypeOK, RevIds
<1>3. ASSUME NEW x \in Drafts, Exists(x)'
      PROVE  Latest(x)' \in RevsOf(x)' /\ \A r \in RevsOf(x)' : r <= Latest(x)'
  <2>1. CASE x = d
    <3>1. nextRev \in RevsOf(d)'
      BY <1>0, <1>1 DEF RevsOf
    <3>2. \A r \in RevsOf(d)' : r <= nextRev
      BY <1>0, <1>1 DEF RevsOf, Inv, IdsUnused, TypeOK, RevIds
    <3> QED BY <2>1, <3>1, <3>2
  <2>2. CASE x # d
    <3>1. Exists(x) /\ Latest(x)' = Latest(x)
      BY <1>3, <2>2 DEF Exists, Latest
    <3>2. Latest(x) \in RevsOf(x) /\ \A r \in RevsOf(x) : r <= Latest(x)
      BY <3>1 DEF Inv, LatestIsNewest
    <3>3. RevsOf(x)' = RevsOf(x)
      BY <1>0, <1>1, <2>2 DEF RevsOf, Inv, IdsUnused, TypeOK, RevIds
    <3> QED BY <3>1, <3>2, <3>3
  <2> QED BY <2>1, <2>2
<1>4. LatestIsNewest'
  BY <1>3 DEF LatestIsNewest
<1> QED BY <1>2, <1>4 DEF Inv

LEMMA IdentType ==
  ASSUME Inv, NEW q \in Requests, reqs[q].client \in Clients, reqs[q].key \in Keys
  PROVE  Ident(reqs[q]) \in Idents
  BY SlotFull DEF Ident, Idents, Request

LEMMA ReceiptForType ==
  ASSUME NEW q \in Request, NEW r \in 0..MaxRevs, NEW d \in Drafts
  PROVE  ReceiptFor(q, r, d) \in Receipt
<1>1. InputOf(q) \in Input
  BY DEF InputOf, Input, Request
<1>2. q.at + RetentionAge \in Nat
  BY DEF Request
<1> QED BY <1>1, <1>2 DEF ReceiptFor, Receipt

LEMMA CreateCommitInv == ASSUME Inv, NEW q \in Requests, CreateCommit(q) PROVE Inv'
<1> DEFINE i == Ident(reqs[q])
           R == nextRev
<1>1. PICK d \in Drafts, doc \in Docs :
        /\ InsertDraft(reqs[q], d, doc)
        /\ reqs' = [reqs EXCEPT ![q].stage = "answer", ![q].draft = d]
  BY DEF CreateCommit
<1>2. reqs[q].client \in Clients /\ reqs[q].key \in Keys /\ reqs[q] \in Request
  BY SlotFull DEF Full, CreateCommit, CreateStages
<1>3. i \in Idents
  BY <1>2, IdentType
<1>4. R \in RevIds
  BY <1>1 DEF InsertDraft, Inv, TypeOK, RevIds
<1>5. SlotsOK'
  <2> DEFINE r1 == [reqs[q] EXCEPT !.stage = "answer", !.client = @, !.draft = d]
             r2 == [reqs[q] EXCEPT !.stage = "answer", !.draft = d]
  <2>1. r1 \in Request
    BY <1>2, Placed DEF Stages
  <2>2. r1 = r2
    BY <1>2 DEF Request
  <2>3. Full(r2)
    BY <1>2 DEF Full, CreateStages, SaveStages, OnRevision, Request
  <2>4. reqs' = [reqs EXCEPT ![q] = r2]
    BY <1>1 DEF Inv, TypeOK
  <2> HIDE DEF r1, r2
  <2> QED BY <2>1, <2>2, <2>3, <2>4, SlotType
<1> DEFINE e == FirstRevision(d, doc, reqs[q].at, i)
           f == [status |-> "active", latest |-> R, name |-> reqs[q].name]
<1>6. e \in Rev /\ e.draft = d
  BY <1>2, <1>3 DEF FirstRevision, Rev, Request
<1>7. f \in Draft /\ f.latest = R
  BY <1>2, <1>4 DEF Draft, Request, RevIds
<1>8. ReceiptFor(reqs[q], R, d) \in Receipt
  BY <1>2, <1>4, ReceiptForType DEF RevIds
<1>9. /\ drafts' = [drafts EXCEPT ![d] = f]
      /\ revs' = [revs EXCEPT ![R] = e]
      /\ labels' = labels \cup {R}
      /\ nextRev' = R + 1
      /\ receipts' = [receipts EXCEPT ![i] = ReceiptFor(reqs[q], R, d)]
      /\ ledger' = ledger \cup {[ident |-> i, rev |-> R, draft |-> d]}
      /\ R <= MaxRevs
  BY <1>1 DEF InsertDraft
<1>10. UNCHANGED <<checkouts, views, tokens, editors, pins, now, acks>>
  BY DEF CreateCommit, leases, environment
<1> HIDE DEF e, f, i
<1>11. /\ drafts' \in [Drafts -> Draft]
       /\ revs' \in [RevIds -> Rev \cup {Missing}]
       /\ labels' \subseteq RevIds
       /\ receipts' \in [Idents -> Receipt \cup {Missing, Gone}]
  BY <1>4, <1>6, <1>7, <1>8, <1>9 DEF Inv, TypeOK
<1>12. nextRev' \in 1..(MaxRevs + 1)
  BY <1>4, <1>9 DEF RevIds
<1>13. ledger' \subseteq Entry
  BY <1>3, <1>4, <1>9 DEF Inv, TypeOK, Entry
<1>14. TypeOK'
  BY <1>5, <1>10, <1>11, <1>12, <1>13 DEF Inv, TypeOK, SlotsOK
<1>15. Latest(d)' = R /\ \A x \in Drafts : x # d => drafts'[x] = drafts[x]
  BY <1>7, <1>9 DEF Latest, Inv, TypeOK
<1> QED BY <1>5, <1>6, <1>9, <1>14, <1>15, WrittenInv DEF SlotsOK

LEMMA SaveCommitInv == ASSUME Inv, NEW q \in Requests, SaveCommit(q) PROVE Inv'
<1> DEFINE i == Ident(reqs[q])
           R == nextRev
<1>0. PICK d \in Drafts : d = reqs[q].draft
  BY SlotFull DEF Full, SaveCommit, CreateStages
<1>1. InsertRevision(reqs[q]) /\ Goto(q, "answer")
  BY DEF SaveCommit
<1>2. /\ reqs[q].client \in Clients /\ reqs[q].key \in Keys /\ reqs[q] \in Request
      /\ reqs[q].doc \in Docs
  BY SlotFull DEF Full, SaveCommit, SaveStages
<1>3. i \in Idents
  BY <1>2, IdentType
<1>4. R \in RevIds
  BY <1>1 DEF InsertRevision, Inv, TypeOK, RevIds
<1>5. SlotsOK'
  <2>1. Full([reqs[q] EXCEPT !.stage = "answer"])
    BY <1>0, <1>2 DEF Full, CreateStages, SaveStages, OnRevision, Request
  <2> QED BY <1>1, <2>1, GotoType DEF Stages
<1> DEFINE e == [kind |-> "rev", draft |-> d, seq |-> reqs[q].seq, parent |-> reqs[q].cur,
                 doc |-> reqs[q].doc, born |-> reqs[q].at, base |-> reqs[q].base,
                 ident |-> i, token |-> reqs[q].token]
           f == [drafts[d] EXCEPT !.latest = R]
<1>6. e \in Rev /\ e.draft = d
  BY <1>2, <1>3 DEF Rev, Request
<1>7. f \in Draft /\ f.latest = R
  <2>1. drafts[d] \in Draft /\ R \in 0..MaxRevs
    BY <1>4 DEF Inv, TypeOK, RevIds
  <2> QED BY <2>1, DraftType DEF Draft, Inv
<1>8. ReceiptFor(reqs[q], R, d) \in Receipt
  BY <1>2, <1>4, ReceiptForType DEF RevIds
<1>9. /\ drafts' = [drafts EXCEPT ![d] = f]
      /\ revs' = [revs EXCEPT ![R] = e]
      /\ labels' \subseteq labels \cup {R}
      /\ nextRev' = R + 1
      /\ receipts' = [receipts EXCEPT ![i] = ReceiptFor(reqs[q], R, d)]
      /\ ledger' = ledger \cup {[ident |-> i, rev |-> R, draft |-> d]}
      /\ R <= MaxRevs
  BY <1>0, <1>1 DEF InsertRevision, Inv, TypeOK
<1>10. UNCHANGED <<checkouts, views, tokens, editors, pins, now, acks>>
  BY DEF SaveCommit, leases, environment
<1> HIDE DEF e, f, i
<1>11. /\ drafts' \in [Drafts -> Draft]
       /\ revs' \in [RevIds -> Rev \cup {Missing}]
       /\ labels' \subseteq RevIds
       /\ receipts' \in [Idents -> Receipt \cup {Missing, Gone}]
  BY <1>4, <1>6, <1>7, <1>8, <1>9 DEF Inv, TypeOK
<1>12. nextRev' \in 1..(MaxRevs + 1)
  BY <1>4, <1>9 DEF RevIds
<1>13. ledger' \subseteq Entry
  BY <1>2, <1>3, <1>4, <1>9 DEF Inv, TypeOK, Entry
<1>14. TypeOK'
  BY <1>5, <1>10, <1>11, <1>12, <1>13 DEF Inv, TypeOK, SlotsOK
<1>15. Latest(d)' = R /\ \A x \in Drafts : x # d => drafts'[x] = drafts[x]
  BY <1>2, <1>7, <1>9 DEF Latest, Inv, TypeOK
<1> QED BY <1>2, <1>5, <1>6, <1>9, <1>14, <1>15, WrittenInv DEF SlotsOK

LEMMA SaveNoopInv == ASSUME Inv, NEW q \in Requests, SaveNoop(q) PROVE Inv'
<1> DEFINE i == Ident(reqs[q])
<1>1. /\ reqs[q].client \in Clients /\ reqs[q].key \in Keys /\ reqs[q] \in Request
      /\ reqs[q].draft \in Drafts /\ reqs[q].cur \in 0..MaxRevs
  BY SlotFull DEF Full, SaveNoop, SaveStages, CreateStages, Request
<1>2. i \in Idents
  BY <1>1, IdentType
<1>3. SlotsOK' /\ acks' \in [Idents -> 0..MaxRevs]
  BY <1>1, FinishType DEF SaveNoop, Answer, Inv, TypeOK
<1>4. ReceiptFor(reqs[q], reqs[q].cur, reqs[q].draft) \in Receipt
  BY <1>1, ReceiptForType
<1>5. receipts' \in [Idents -> Receipt \cup {Missing, Gone}]
  BY <1>4 DEF SaveNoop, Inv, TypeOK
<1>6. TypeOK'
  BY <1>3, <1>5 DEF SaveNoop, Inv, TypeOK, SlotsOK, history, leases, environment
<1> QED BY <1>3, <1>6, DraftsKept DEF SaveNoop, SlotsOK, history

-----------------------------------------------------------------------------
(* Every step, and the theorems.                                           *)

LEMMA HandlerInv == ASSUME Inv, NEW q \in Requests, Handler(q) PROVE Inv'
  BY CreateBeginInv, CreateReplayInv, CreateCommitInv, CreateAbortInv, CreateRaceInv,
     SaveBeginInv, RestoreBeginInv, RestoreSourceInv, SaveReadInv, SaveAuthorizeInv,
     SaveReplayInv, SavePayloadInv, SaveCommitInv, SaveNoopInv, SaveAbortInv,
     SaveRaceInv, SaveRaceReplayInv, AnswerCommittedInv, LabelBeginInv, LabelCommitInv,
     RenameBeginInv, RenameCommitInv, StatusBeginInv, StatusCommitInv, PurgeBeginInv,
     PurgeCheckInv, PurgeCommitInv, RetainBeginInv, RetainApplyInv, AcquireBeginInv,
     ResumeBeginInv, AcquireRowInv, AcquireCommitInv, ResumeCommitInv, TouchBeginInv,
     TouchCommitInv, AbandonInv
  DEF Handler

LEMMA ReleaseInv == ASSUME Inv, NEW c \in Clients, NEW d \in Drafts, Release(c, d) PROVE Inv'
<1>1. TypeOK'
  BY DEF Release, Inv, TypeOK, history, environment
<1>2. SlotsFull'
  BY DEF Release, Inv, SlotsFull
<1> QED BY <1>1, <1>2, DraftsKept DEF Release, history

LEMMA SlotsKept == ASSUME Inv, UNCHANGED reqs PROVE SlotsOK'
  BY DEF Inv, TypeOK, SlotsFull, SlotsOK

LEMMA EnvironmentInv ==
  ASSUME Inv,
         \/ Tick
         \/ \E a \in Actors : RoleChange(a)
         \/ \E d \in Drafts : Publish(d)
         \/ \E r \in RevIds : Retire(r)
  PROVE  Inv'
<1>1. SlotsOK' /\ acks' \in [Idents -> 0..MaxRevs] /\ UNCHANGED Tables
  BY SlotsKept DEF Tick, RoleChange, Publish, Retire, Inv, TypeOK
<1>2. CASE Tick
  BY <1>1, <1>2, TablesKept DEF Tick, Inv, TypeOK
<1>3. ASSUME NEW a \in Actors, RoleChange(a) PROVE Inv'
  BY <1>1, <1>3, TablesKept DEF RoleChange, Inv, TypeOK
<1>4. ASSUME NEW d \in Drafts, Publish(d) PROVE Inv'
  <2>1. Latest(d) \in RevIds
    BY <1>4, LatestType DEF Publish, Exists
  <2> QED BY <1>1, <1>4, <2>1, TablesKept DEF Publish, Inv, TypeOK
<1>5. ASSUME NEW r \in RevIds, Retire(r) PROVE Inv'
  BY <1>1, <1>5, TablesKept DEF Retire, Inv, TypeOK
<1> QED BY <1>2, <1>3, <1>4, <1>5

LEMMA StutterInv == ASSUME Inv, UNCHANGED vars PROVE Inv'
<1>1. SlotsOK' /\ UNCHANGED <<Tables, environment, acks>>
  BY SlotsKept DEF vars, Tables
<1> QED BY <1>1, SlotOnly

LEMMA NextInv == Inv /\ [Next]_vars => Inv'
  BY HandlerInv, ReleaseInv, EnvironmentInv, StutterInv DEF Next

\* The invariant that carries every other proof of this module: slots filled as their stage
\* says, unused revision ids, and the latest revision of a draft stored and newest.
THEOREM Invariant == Spec => []Inv
  BY InitInv, NextInv, PTL DEF Spec

\* Whatever handlers interleave, every table and every slot keeps its type: a receipt names a
\* draft, a lease a client, and no statement runs with a client, a key or a document missing.
THEOREM TypeCorrect == Spec => []TypeOK
  BY Invariant, PTL DEF Inv

\* A draft that exists always has its latest revision, and it is the newest one: neither a save
\* that races a purge nor retention leaves drafts.latest_revision_id dangling or behind.
THEOREM LatestStaysNewest == Spec => []LatestIsNewest
  BY Invariant, PTL DEF Inv

-----------------------------------------------------------------------------
(* One write per idempotency key.  A ledger entry is made together with    *)
(* its receipt, and the primary key of idempotency_keys refuses a second   *)
(* one; no statement ever deletes a receipt, the purge only blanks it.     *)

Receipted == \A x \in ledger : receipts[x.ident] # Missing

OnceInv == Inv /\ Receipted /\ AtMostOncePerKey

ReceiptsStay == \A i \in Idents : receipts[i] # Missing => receipts'[i] # Missing

LEMMA ReceiptExists ==
  ASSUME NEW q, NEW r, NEW d
  PROVE  ReceiptFor(q, r, d) # Missing
  BY DEF ReceiptFor, Missing

\* nothing is written
LEMMA LedgerKept ==
  ASSUME OnceInv, Inv', UNCHANGED ledger, ReceiptsStay
  PROVE  OnceInv'
<1>1. Receipted'
  BY DEF OnceInv, Receipted, ReceiptsStay, Inv, TypeOK, Entry
<1>2. AtMostOncePerKey'
  BY DEF OnceInv, AtMostOncePerKey
<1> QED BY <1>1, <1>2 DEF OnceInv

\* a revision and its receipt are written together, where there was no receipt
LEMMA LedgerWritten ==
  ASSUME OnceInv, Inv', NEW i \in Idents, NEW r, NEW d, NEW rc,
         receipts[i] = Missing, rc # Missing,
         receipts' = [receipts EXCEPT ![i] = rc],
         ledger' = ledger \cup {[ident |-> i, rev |-> r, draft |-> d]}
  PROVE  OnceInv'
<1>1. \A x \in ledger : x.ident # i /\ x.ident \in Idents
  BY DEF OnceInv, Receipted, Inv, TypeOK, Entry
<1>2. Receipted'
  BY <1>1 DEF OnceInv, Receipted, Inv, TypeOK
<1>3. AtMostOncePerKey'
  BY <1>1 DEF OnceInv, AtMostOncePerKey
<1> QED BY <1>2, <1>3 DEF OnceInv

LEMMA OnceStep ==
  ASSUME OnceInv, [Next]_vars
  PROVE  OnceInv'
<1>0. Inv'
  BY NextInv DEF OnceInv
<1>1. CASE UNCHANGED <<receipts, ledger>>
  BY <1>0, <1>1, LedgerKept DEF ReceiptsStay
<1>2. ASSUME NEW q \in Requests, CreateCommit(q) PROVE OnceInv'
  <2>1. PICK d \in Drafts, doc \in Docs : InsertDraft(reqs[q], d, doc)
    BY <1>2 DEF CreateCommit
  <2>2. Ident(reqs[q]) \in Idents
    BY <1>2, SlotFull, IdentType DEF Full, CreateCommit, CreateStages, OnceInv
  <2>3. receipts[Ident(reqs[q])] = Missing
    BY <1>2 DEF CreateCommit
  <2> QED BY <1>0, <2>1, <2>2, <2>3, ReceiptExists, LedgerWritten DEF InsertDraft
<1>3. ASSUME NEW q \in Requests, SaveCommit(q) PROVE OnceInv'
  <2>1. InsertRevision(reqs[q]) /\ receipts[Ident(reqs[q])] = Missing
    BY <1>3 DEF SaveCommit
  <2>2. Ident(reqs[q]) \in Idents
    BY <1>3, SlotFull, IdentType DEF Full, SaveCommit, SaveStages, OnceInv
  <2> QED BY <1>0, <2>1, <2>2, ReceiptExists, LedgerWritten DEF InsertRevision
<1>4. ASSUME NEW q \in Requests, SaveNoop(q) PROVE OnceInv'
  <2>1. ReceiptsStay
    BY <1>4, ReceiptExists DEF SaveNoop, ReceiptsStay, OnceInv, Inv, TypeOK
  <2> QED BY <1>0, <1>4, <2>1, LedgerKept DEF SaveNoop, history
<1>5. ASSUME NEW q \in Requests, PurgeCommit(q) PROVE OnceInv'
  <2>1. ReceiptsStay
    BY <1>5 DEF PurgeCommit, Destroy, ReceiptsStay, Missing, Gone
  <2> QED BY <1>0, <1>5, <2>1, LedgerKept DEF PurgeCommit
<1>6. ASSUME NEW q \in Requests, Handler(q),
             ~CreateCommit(q), ~SaveCommit(q), ~SaveNoop(q), ~PurgeCommit(q)
      PROVE  UNCHANGED <<receipts, ledger>>
  BY <1>6 DEF Handler, Tables, history, Start, CreateBegin, CreateReplay, CreateAbort, CreateRace,
     SaveBegin, RestoreBegin, RestoreSource, SaveRead, SaveAuthorize, SaveReplay, SavePayload,
     SaveAbort, SaveRace, SaveRaceReplay, AnswerCommitted, MetaBegin, LabelBegin, LabelCommit,
     RenameBegin, RenameCommit, StatusBegin, StatusCommit, PurgeBegin, PurgeCheck,
     RetainBegin, RetainApply, AcquireBegin, ResumeBegin, AcquireRow, AcquireCommit,
     ResumeCommit, TouchBegin, TouchCommit, Abandon
<1>7. ASSUME ~\E q \in Requests : Handler(q)
      PROVE  UNCHANGED <<receipts, ledger>>
  BY <1>7 DEF Next, Release, Tick, RoleChange, Publish, Retire, Tables, history, vars
<1> QED BY <1>1, <1>2, <1>3, <1>4, <1>5, <1>6, <1>7

\* One idempotency key of one actor writes at most one revision, in any number of retries,
\* races and purges.
THEOREM AtMostOnce == Spec => []AtMostOncePerKey
<1>1. Init => OnceInv
  BY InitInv DEF Init, OnceInv, Receipted, AtMostOncePerKey
<1>2. OnceInv /\ [Next]_vars => OnceInv'
  BY OnceStep
<1>3. OnceInv => AtMostOncePerKey
  BY DEF OnceInv
<1> QED BY <1>1, <1>2, <1>3, PTL DEF Spec


HIDE DraftStoreAssumption

-----------------------------------------------------------------------------
(* Which steps write the tables, and what a step may do to a slot.         *)

\* the handlers' statements that write; every other one only reads and moves its own slot
Writes(q) ==
  \/ CreateCommit(q) \/ SaveCommit(q) \/ SaveNoop(q)
  \/ LabelCommit(q) \/ RenameCommit(q) \/ StatusCommit(q) \/ PurgeCommit(q) \/ RetainApply(q)
  \/ AcquireCommit(q) \/ ResumeCommit(q) \/ TouchCommit(q)

LEMMA Readers ==
  ASSUME NEW q \in Requests, Handler(q), ~Writes(q)
  PROVE  UNCHANGED <<Tables, environment>>
  BY DEF Handler, Writes, Start, CreateBegin, CreateReplay, CreateAbort, CreateRace,
     SaveBegin, RestoreBegin, RestoreSource, SaveRead, SaveAuthorize, SaveReplay, SavePayload,
     SaveAbort, SaveRace, SaveRaceReplay, AnswerCommitted, MetaBegin, LabelBegin,
     RenameBegin, StatusBegin, PurgeBegin, PurgeCheck,
     RetainBegin, AcquireBegin, ResumeBegin, AcquireRow, TouchBegin, Abandon

LEMMA WritersKeep ==
  ASSUME NEW q \in Requests, Writes(q)
  PROVE  UNCHANGED environment
  BY DEF Writes, CreateCommit, SaveCommit, SaveNoop, LabelCommit, RenameCommit, StatusCommit,
     PurgeCommit, RetainApply, AcquireCommit, ResumeCommit, TouchCommit

\* what a step is to the tables
LEMMA TableSteps ==
  ASSUME [Next]_vars
  PROVE  \/ UNCHANGED Tables
         \/ \E q \in Requests : Writes(q)
         \/ \E c \in Clients, d \in Drafts : Release(c, d)
<1>1. CASE \E q \in Requests : Handler(q)
  BY <1>1, Readers
<1>2. CASE Tick \/ (\E a \in Actors : RoleChange(a)) \/ (\E d \in Drafts : Publish(d))
           \/ (\E r \in RevIds : Retire(r)) \/ UNCHANGED vars
  BY <1>2 DEF Tick, RoleChange, Publish, Retire, vars, Tables
<1> QED BY <1>1, <1>2 DEF Next

\* the clock never goes back
LEMMA ClockStep ==
  ASSUME Inv, [Next]_vars
  PROVE  now' \in Nat /\ now <= now'
<1>1. CASE \E q \in Requests : Handler(q)
  BY <1>1, Readers, WritersKeep DEF environment, Inv, TypeOK
<1>2. CASE ~\E q \in Requests : Handler(q)
  BY <1>2 DEF Next, Release, Tick, RoleChange, Publish, Retire, vars, environment, Inv, TypeOK
<1> QED BY <1>1, <1>2

LEMMA OtherSlots ==
  ASSUME Inv, NEW q \in Requests, NEW p \in Requests, p # q, Handler(q)
  PROVE  reqs'[p] = reqs[p]
<1>1. CASE \/ CreateBegin(q) \/ SaveBegin(q) \/ RestoreBegin(q) \/ LabelBegin(q) \/ RenameBegin(q)
           \/ StatusBegin(q) \/ PurgeBegin(q) \/ RetainBegin(q) \/ AcquireBegin(q)
           \/ ResumeBegin(q) \/ TouchBegin(q)
  BY <1>1 DEF Inv, TypeOK, Start, CreateBegin, SaveBegin, RestoreBegin, LabelBegin, RenameBegin,
     StatusBegin, PurgeBegin, RetainBegin, AcquireBegin, ResumeBegin, TouchBegin, MetaBegin
<1>2. CASE \/ CreateReplay(q) \/ CreateCommit(q) \/ CreateAbort(q) \/ CreateRace(q)
           \/ RestoreSource(q) \/ SaveRead(q) \/ SaveAuthorize(q) \/ SaveReplay(q)
           \/ SavePayload(q) \/ SaveCommit(q) \/ SaveNoop(q) \/ SaveAbort(q) \/ SaveRace(q)
           \/ SaveRaceReplay(q) \/ AnswerCommitted(q)
  BY <1>2 DEF Inv, TypeOK, CreateReplay, CreateCommit, CreateAbort, CreateRace,
     RestoreSource, SaveRead, SaveAuthorize, SaveReplay, SavePayload, SaveCommit, SaveNoop,
     SaveAbort, SaveRace, SaveRaceReplay, AnswerCommitted, Answer, Finish, Goto
<1>3. CASE \/ LabelCommit(q) \/ RenameCommit(q) \/ StatusCommit(q) \/ PurgeCheck(q)
           \/ PurgeCommit(q) \/ RetainApply(q) \/ AcquireRow(q) \/ AcquireCommit(q)
           \/ ResumeCommit(q) \/ TouchCommit(q) \/ Abandon(q)
  BY <1>3 DEF Inv, TypeOK, LabelCommit, RenameCommit, StatusCommit, PurgeCheck, PurgeCommit,
     RetainApply, AcquireRow, AcquireCommit, ResumeCommit, TouchCommit, Abandon, Finish, Goto
<1> QED BY <1>1, <1>2, <1>3 DEF Handler

LEMMA SlotStep ==
  ASSUME Inv, [Next]_vars, NEW p \in Requests
  PROVE  reqs'[p] = reqs[p] \/ Handler(p)
<1>1. CASE \E q \in Requests : Handler(q)
  BY <1>1, OtherSlots
<1>2. CASE ~\E q \in Requests : Handler(q)
  BY <1>2 DEF Next, Release, Tick, RoleChange, Publish, Retire, vars
<1> QED BY <1>1, <1>2

Begins(q) ==
  \/ CreateBegin(q) \/ SaveBegin(q) \/ RestoreBegin(q) \/ LabelBegin(q) \/ RenameBegin(q)
  \/ StatusBegin(q) \/ PurgeBegin(q) \/ RetainBegin(q) \/ AcquireBegin(q) \/ ResumeBegin(q)
  \/ TouchBegin(q)

FirstStages == {"createReplay", "saveRead", "restoreSource", "label", "rename", "status",
                "purgeCheck", "retain", "acquireCommit", "acquireRow", "touch"}

LEMMA Started ==
  ASSUME Inv, NEW q \in Requests, NEW rec, Start(q, rec)
  PROVE  reqs'[q] = rec
  BY DEF Start, Inv, TypeOK

\* the status that the guard of a save or of a purge will ask for
StatusFits(rec) ==
  /\ rec.stage \in SaveStages \cup {"restoreSource"} => rec.status = "active"
  /\ rec.stage \in {"purgeCheck", "purgeCommit"} => rec.status = "archived"

\* how a handler begins
LEMMA Beginning ==
  ASSUME Inv, NEW q \in Requests, Begins(q)
  PROVE  reqs'[q].at \in {0, now} /\ reqs'[q].stage \in FirstStages /\ StatusFits(reqs'[q])
<1> DEFINE OK(rec) == rec.at \in {0, now} /\ rec.stage \in FirstStages /\ StatusFits(rec)
<1>1. CASE CreateBegin(q)
  <2>1. PICK c \in Clients, k \in Keys, n \in Names, r \in {0} \cup RevIds :
          Start(q,
            [Idle EXCEPT !.stage = "createReplay", !.client = c, !.scope = "create",
                         !.key = k, !.name = n, !.at = now,
                         !.draft = IF r = 0 THEN None ELSE revs[r].draft,
                         !.doc = IF r = 0 THEN None ELSE revs[r].doc])
    BY <1>1 DEF CreateBegin
  <2> DEFINE d == IF r = 0 THEN None ELSE revs[r].draft
             x == IF r = 0 THEN None ELSE revs[r].doc
             rec == [Idle EXCEPT !.stage = "createReplay", !.client = c, !.scope = "create",
                                 !.key = k, !.name = n, !.at = now, !.draft = d, !.doc = x]
  <2>2. OK(rec)
    <3> HIDE DEF d, x
    <3> QED BY DEF Idle, FirstStages, StatusFits, SaveStages
  <2>3. Start(q, rec)
    BY <2>1
  <2> HIDE DEF rec
  <2> QED BY <2>2, <2>3, Started
<1>2. CASE SaveBegin(q)
  <2>1. PICK c \in Clients, t \in Tokens, k \in Keys, d \in Drafts, doc \in Docs, e \in RevIds :
          Start(q, [Idle EXCEPT !.stage = "saveRead", !.client = c, !.token = t, !.key = k,
                                !.draft = d, !.doc = doc, !.exp = e])
    BY <1>2 DEF SaveBegin
  <2> DEFINE rec == [Idle EXCEPT !.stage = "saveRead", !.client = c, !.token = t, !.key = k,
                                 !.draft = d, !.doc = doc, !.exp = e]
  <2>2. OK(rec)
    BY DEF Idle, FirstStages, StatusFits, SaveStages
  <2> HIDE DEF rec
  <2> QED BY <2>1, <2>2, Started DEF rec
<1>3. CASE RestoreBegin(q)
  <2>1. PICK c \in Clients, t \in Tokens, k \in Keys, d \in Drafts, e \in RevIds, src \in RevIds :
          Start(q, [Idle EXCEPT !.stage = "restoreSource", !.client = c, !.token = t, !.key = k,
                                !.scope = "restore", !.draft = d, !.exp = e, !.base = src])
    BY <1>3 DEF RestoreBegin
  <2> DEFINE rec == [Idle EXCEPT !.stage = "restoreSource", !.client = c, !.token = t, !.key = k,
                                 !.scope = "restore", !.draft = d, !.exp = e, !.base = src]
  <2>2. OK(rec)
    BY DEF Idle, FirstStages, StatusFits, SaveStages
  <2> HIDE DEF rec
  <2> QED BY <2>1, <2>2, Started DEF rec
<1>4. ASSUME NEW d, NEW allowed, NEW rec, MetaBegin(q, d, allowed, rec),
             \A c, t, l : \A s \in allowed : OK([rec EXCEPT !.client = c, !.token = t, !.draft = d,
                                                             !.cur = l, !.status = s])
      PROVE  OK(reqs'[q])
  <2>1. drafts[d].status \in allowed /\ \E c \in Clients, t \in Tokens :
          Start(q, [rec EXCEPT !.client = c, !.token = t, !.draft = d,
                               !.cur = Latest(d), !.status = drafts[d].status])
    BY <1>4 DEF MetaBegin
  <2>3. PICK c \in Clients, t \in Tokens :
          Start(q, [rec EXCEPT !.client = c, !.token = t, !.draft = d,
                               !.cur = Latest(d), !.status = drafts[d].status])
    BY <2>1
  <2> DEFINE full == [rec EXCEPT !.client = c, !.token = t, !.draft = d,
                                 !.cur = Latest(d), !.status = drafts[d].status]
  <2>2. OK(full)
    <3> HIDE DEF OK
    <3> QED BY <1>4, <2>1
  <2> HIDE DEF full
  <2> QED BY <2>3, <2>2, Started DEF full
<1>5. CASE LabelBegin(q)
  <2>1. PICK d \in Drafts, r \in RevIds :
          MetaBegin(q, d, {"active"}, [Idle EXCEPT !.stage = "label", !.base = r])
    BY <1>5 DEF LabelBegin, RevsOf
  <2> DEFINE rec == [Idle EXCEPT !.stage = "label", !.base = r]
  <2>2. \A c, t, l : \A s \in {"active"} :
          OK([rec EXCEPT !.client = c, !.token = t, !.draft = d, !.cur = l, !.status = s])
    BY DEF Idle, FirstStages, StatusFits, SaveStages
  <2>3. MetaBegin(q, d, {"active"}, rec)
    BY <2>1
  <2>4. OK(reqs'[q])
    <3> HIDE DEF OK, rec
    <3> QED BY <1>4, <2>2, <2>3
  <2> QED BY <2>4
<1>6. CASE RenameBegin(q)
  <2>1. PICK d \in Drafts, n \in Names :
          MetaBegin(q, d, {"active"}, [Idle EXCEPT !.stage = "rename", !.name = n])
    BY <1>6 DEF RenameBegin
  <2> DEFINE rec == [Idle EXCEPT !.stage = "rename", !.name = n]
  <2>2. \A c, t, l : \A s \in {"active"} :
          OK([rec EXCEPT !.client = c, !.token = t, !.draft = d, !.cur = l, !.status = s])
    BY DEF Idle, FirstStages, StatusFits, SaveStages
  <2>3. MetaBegin(q, d, {"active"}, rec)
    BY <2>1
  <2>4. OK(reqs'[q])
    <3> HIDE DEF OK, rec
    <3> QED BY <1>4, <2>2, <2>3
  <2> QED BY <2>4
<1>7. CASE StatusBegin(q)
  <2>1. PICK d \in Drafts, to \in {"active", "archived"} :
          MetaBegin(q, d, {"active", "archived"}, [Idle EXCEPT !.stage = "status", !.aim = to])
    BY <1>7 DEF StatusBegin
  <2> DEFINE rec == [Idle EXCEPT !.stage = "status", !.aim = to]
  <2>2. \A c, t, l : \A s \in {"active", "archived"} :
          OK([rec EXCEPT !.client = c, !.token = t, !.draft = d, !.cur = l, !.status = s])
    BY DEF Idle, FirstStages, StatusFits, SaveStages
  <2>3. MetaBegin(q, d, {"active", "archived"}, rec)
    BY <2>1
  <2>4. OK(reqs'[q])
    <3> HIDE DEF OK, rec
    <3> QED BY <1>4, <2>2, <2>3
  <2> QED BY <2>4
<1>8. CASE PurgeBegin(q)
  <2>1. PICK d \in Drafts : MetaBegin(q, d, {"archived"}, [Idle EXCEPT !.stage = "purgeCheck"])
    BY <1>8 DEF PurgeBegin
  <2> DEFINE rec == [Idle EXCEPT !.stage = "purgeCheck"]
  <2>2. \A c, t, l : \A s \in {"archived"} :
          OK([rec EXCEPT !.client = c, !.token = t, !.draft = d, !.cur = l, !.status = s])
    BY DEF Idle, FirstStages, StatusFits, SaveStages
  <2>3. MetaBegin(q, d, {"archived"}, rec)
    BY <2>1
  <2>4. OK(reqs'[q])
    <3> HIDE DEF OK, rec
    <3> QED BY <1>4, <2>2, <2>3
  <2> QED BY <2>4
<1>9. CASE RetainBegin(q)
  <2> DEFINE old == {r \in RevIds : Eligible(r)}
             rec == [Idle EXCEPT !.stage = "retain", !.plan = old]
  <2>1. Start(q, rec)
    BY <1>9 DEF RetainBegin
  <2>2. OK(rec)
    <3> HIDE DEF old
    <3> QED BY DEF Idle, FirstStages, StatusFits, SaveStages
  <2> HIDE DEF rec
  <2> QED BY <2>1, <2>2, Started
<1>10. CASE AcquireBegin(q)
  <2>1. PICK c \in Clients, d \in Drafts :
          Start(q, [Idle EXCEPT !.stage = "acquireCommit", !.client = c, !.draft = d,
                                !.status = drafts[d].status, !.at = now])
    BY <1>10 DEF AcquireBegin
  <2> DEFINE rec == [Idle EXCEPT !.stage = "acquireCommit", !.client = c, !.draft = d,
                                 !.status = drafts[d].status, !.at = now]
  <2>2. OK(rec)
    BY DEF Idle, FirstStages, StatusFits, SaveStages
  <2> HIDE DEF rec
  <2> QED BY <2>1, <2>2, Started DEF rec
<1>11. CASE ResumeBegin(q)
  <2>1. PICK c \in Clients, d \in Drafts :
          Start(q, [Idle EXCEPT !.stage = "acquireRow", !.client = c, !.draft = d])
    BY <1>11 DEF ResumeBegin
  <2> DEFINE rec == [Idle EXCEPT !.stage = "acquireRow", !.client = c, !.draft = d]
  <2>2. OK(rec)
    BY DEF Idle, FirstStages, StatusFits, SaveStages
  <2> HIDE DEF rec
  <2> QED BY <2>1, <2>2, Started DEF rec
<1>12. CASE TouchBegin(q)
  <2>1. PICK c \in Clients, t \in Tokens, d \in Drafts :
          Start(q, [Idle EXCEPT !.stage = "touch", !.client = c, !.token = t,
                                !.draft = d, !.at = now])
    BY <1>12 DEF TouchBegin
  <2> DEFINE rec == [Idle EXCEPT !.stage = "touch", !.client = c, !.token = t,
                                 !.draft = d, !.at = now]
  <2>2. OK(rec)
    BY DEF Idle, FirstStages, StatusFits, SaveStages
  <2> HIDE DEF rec
  <2> QED BY <2>1, <2>2, Started DEF rec
<1> QED BY <1>1, <1>2, <1>3, <1>5, <1>6, <1>7, <1>8, <1>9, <1>10, <1>11, <1>12 DEF Begins

-----------------------------------------------------------------------------
(* Nothing dangles: every row that names a draft or a revision finds it.   *)

RevsOwned == \A r \in RevIds : revs[r] # Missing => Exists(revs[r].draft)
LeasesOwned == \A d \in Drafts : checkouts[d] # Missing => Exists(d)
ViewsActive == \A a \in Actors : views[a] # None => drafts[views[a]].status = "active"
ReceiptsOwned ==
  \A i \in Idents : receipts[i] \notin {Missing, Gone} => Exists(receipts[i].draft)
KeptAlive == \A r \in pins \cup labels : revs[r] # Missing

OwnedInv ==
  Inv /\ RevsOwned /\ LeasesOwned /\ ViewsActive /\ ReceiptsOwned /\ KeptAlive

LEMMA OwnedParts == OwnedInv => NothingDangles
  BY DEF OwnedInv, NothingDangles, RevsOwned, LeasesOwned, ViewsActive, ReceiptsOwned, KeptAlive

\* rows stay owned while the drafts they name stay
DraftsStay ==
  \A d \in Drafts : /\ Exists(d) => Exists(d)'
                    /\ drafts[d].status = "active" => drafts'[d].status = "active"

LEMMA OwnedKept ==
  ASSUME OwnedInv, DraftsStay
  PROVE  /\ UNCHANGED revs => RevsOwned'
         /\ UNCHANGED checkouts => LeasesOwned'
         /\ UNCHANGED views => ViewsActive'
         /\ UNCHANGED receipts => ReceiptsOwned'
         /\ UNCHANGED <<revs, pins, labels>> => KeptAlive'
<1>1. UNCHANGED revs => RevsOwned'
  BY RevType DEF OwnedInv, Inv, RevsOwned, DraftsStay, Rev
<1>2. UNCHANGED checkouts => LeasesOwned'
  BY DEF OwnedInv, LeasesOwned, DraftsStay
<1>3. UNCHANGED views => ViewsActive'
  BY DEF OwnedInv, Inv, TypeOK, ViewsActive, DraftsStay
<1>4. UNCHANGED receipts => ReceiptsOwned'
  BY ReceiptType DEF OwnedInv, Inv, ReceiptsOwned, DraftsStay, Receipt
<1>5. UNCHANGED <<revs, pins, labels>> => KeptAlive'
  BY DEF OwnedInv, KeptAlive
<1> QED BY <1>1, <1>2, <1>3, <1>4, <1>5

\* what holds of the draft a guard has looked at
LEMMA GuardedDraft ==
  ASSUME Inv, NEW q \in Requests, MutationGuard(reqs[q])
  PROVE  /\ Exists(reqs[q].draft)
         /\ Latest(reqs[q].draft) = reqs[q].cur
         /\ checkouts[reqs[q].draft] # Missing
         /\ checkouts[reqs[q].draft].token = reqs[q].token
  BY SlotFull DEF MutationGuard, Exists, Latest, HoldsToken, Request

LEMMA PlacedDraft ==
  ASSUME Inv, NEW q \in Requests,
         reqs[q].stage \notin {"idle", "retain"} \cup CreateStages
  PROVE  reqs[q].draft \in Drafts
  BY SlotFull DEF Full

LEMMA StoredIsRev ==
  ASSUME NEW rec, rec.kind = "rev"
  PROVE  rec # Missing
  BY DEF Missing

LEMMA CreateCommitOwned ==
  ASSUME OwnedInv, Inv', NEW q \in Requests, CreateCommit(q)
  PROVE  OwnedInv'
<1>1. PICK d \in Drafts, doc \in Docs : InsertDraft(reqs[q], d, doc)
  BY DEF CreateCommit
<1>2. drafts'[d].status = "active" /\ \A x \in Drafts : x # d => drafts'[x] = drafts[x]
  BY <1>1 DEF InsertDraft, OwnedInv, Inv, TypeOK
<1>3. DraftsStay
  BY <1>2 DEF DraftsStay, Exists
<1> DEFINE e == FirstRevision(d, doc, reqs[q].at, Ident(reqs[q]))
           rc == ReceiptFor(reqs[q], nextRev, d)
<1>4. e.draft = d /\ e # Missing /\ rc.draft = d
  BY DEF FirstRevision, Missing, ReceiptFor
<1>5. nextRev \in RevIds
  BY <1>1 DEF InsertDraft, OwnedInv, Inv, TypeOK, RevIds
<1>6. /\ revs' = [revs EXCEPT ![nextRev] = e]
      /\ receipts' = [receipts EXCEPT ![Ident(reqs[q])] = rc]
      /\ labels' = labels \cup {nextRev}
  BY <1>1 DEF InsertDraft
<1>7. UNCHANGED <<checkouts, views, pins>>
  BY DEF CreateCommit, leases, environment
<1> HIDE DEF e, rc
<1>8. RevsOwned'
  <2> SUFFICES ASSUME NEW r \in RevIds, revs'[r] # Missing PROVE Exists(revs[r].draft)'
    BY DEF RevsOwned
  <2>1. CASE r = nextRev
    BY <1>2, <1>4, <1>5, <1>6, <2>1 DEF Exists, OwnedInv, Inv, TypeOK
  <2>2. CASE r # nextRev
    <3>1. revs'[r] = revs[r] /\ revs[r] \in Rev
      BY <1>6, <2>2, RevType DEF OwnedInv, Inv, TypeOK
    <3>2. Exists(revs[r].draft) /\ revs[r].draft \in Drafts
      BY <3>1 DEF OwnedInv, RevsOwned, Rev
    <3> QED BY <1>3, <3>1, <3>2 DEF DraftsStay, Exists
  <2> QED BY <2>1, <2>2
<1>9. ReceiptsOwned'
  <2> SUFFICES ASSUME NEW i \in Idents, receipts'[i] \notin {Missing, Gone}
               PROVE  Exists(receipts[i].draft)'
    BY DEF ReceiptsOwned
  <2>1. CASE receipts'[i] = rc
    BY <1>2, <1>4, <2>1 DEF Exists
  <2>2. CASE receipts'[i] = receipts[i]
    <3>1. Exists(receipts[i].draft) /\ receipts[i].draft \in Drafts
      BY <2>2, ReceiptType DEF OwnedInv, Inv, ReceiptsOwned, Receipt
    <3> QED BY <1>3, <2>2, <3>1 DEF DraftsStay, Exists
  <2> QED BY <1>6, <2>1, <2>2 DEF OwnedInv, Inv, TypeOK
<1>10. KeptAlive'
  BY <1>4, <1>5, <1>6, <1>7 DEF OwnedInv, Inv, TypeOK, KeptAlive
<1> QED BY <1>3, <1>7, <1>8, <1>9, <1>10, OwnedKept DEF OwnedInv

LEMMA SaveCommitOwned ==
  ASSUME OwnedInv, Inv', NEW q \in Requests, SaveCommit(q)
  PROVE  OwnedInv'
<1>0. PICK d \in Drafts : d = reqs[q].draft
  BY PlacedDraft DEF SaveCommit, CreateStages, OwnedInv
<1> DEFINE e == [kind |-> "rev", draft |-> d, seq |-> reqs[q].seq, parent |-> reqs[q].cur,
                 doc |-> reqs[q].doc, born |-> reqs[q].at, base |-> reqs[q].base,
                 ident |-> Ident(reqs[q]), token |-> reqs[q].token]
           rc == ReceiptFor(reqs[q], nextRev, d)
<1>1. d \in Drafts /\ Exists(d)
  BY <1>0, GuardedDraft DEF SaveCommit, OwnedInv
<1>2. InsertRevision(reqs[q]) /\ UNCHANGED <<checkouts, views, pins>>
  BY DEF SaveCommit, leases, environment
<1>3. DraftsStay /\ drafts'[d].status \in {"active", "archived"}
  BY <1>0, <1>1, <1>2 DEF InsertRevision, OwnedInv, Inv, TypeOK, Draft, DraftsStay, Exists
<1>4. e.draft = d /\ e # Missing /\ rc.draft = d
  BY DEF Missing, ReceiptFor
<1>5. nextRev \in RevIds
  BY <1>2 DEF InsertRevision, OwnedInv, Inv, TypeOK, RevIds
<1>6. /\ revs' = [revs EXCEPT ![nextRev] = e]
      /\ receipts' = [receipts EXCEPT ![Ident(reqs[q])] = rc]
      /\ labels' \subseteq labels \cup {nextRev}
  BY <1>0, <1>2 DEF InsertRevision
<1> HIDE DEF e, rc
<1>7. RevsOwned'
  <2> SUFFICES ASSUME NEW r \in RevIds, revs'[r] # Missing PROVE Exists(revs[r].draft)'
    BY DEF RevsOwned
  <2>1. CASE r = nextRev
    BY <1>3, <1>4, <1>5, <1>6, <2>1 DEF Exists, OwnedInv, Inv, TypeOK
  <2>2. CASE r # nextRev
    <3>1. revs'[r] = revs[r] /\ revs[r] \in Rev
      BY <1>6, <2>2, RevType DEF OwnedInv, Inv, TypeOK
    <3>2. Exists(revs[r].draft) /\ revs[r].draft \in Drafts
      BY <3>1 DEF OwnedInv, RevsOwned, Rev
    <3> QED BY <1>3, <3>1, <3>2 DEF DraftsStay, Exists
  <2> QED BY <2>1, <2>2
<1>8. ReceiptsOwned'
  <2> SUFFICES ASSUME NEW i \in Idents, receipts'[i] \notin {Missing, Gone}
               PROVE  Exists(receipts[i].draft)'
    BY DEF ReceiptsOwned
  <2>1. CASE receipts'[i] = rc
    BY <1>3, <1>4, <2>1 DEF Exists
  <2>2. CASE receipts'[i] = receipts[i]
    <3>1. Exists(receipts[i].draft) /\ receipts[i].draft \in Drafts
      BY <2>2, ReceiptType DEF OwnedInv, Inv, ReceiptsOwned, Receipt
    <3> QED BY <1>3, <2>2, <3>1 DEF DraftsStay, Exists
  <2> QED BY <1>6, <2>1, <2>2 DEF OwnedInv, Inv, TypeOK
<1>9. KeptAlive'
  BY <1>2, <1>4, <1>5, <1>6 DEF OwnedInv, Inv, TypeOK, KeptAlive
<1> QED BY <1>2, <1>3, <1>7, <1>8, <1>9, OwnedKept DEF OwnedInv

LEMMA SaveNoopOwned ==
  ASSUME OwnedInv, Inv', NEW q \in Requests, SaveNoop(q)
  PROVE  OwnedInv'
<1> DEFINE rc == ReceiptFor(reqs[q], reqs[q].cur, reqs[q].draft)
<1>1. Exists(reqs[q].draft) /\ rc.draft = reqs[q].draft
  BY GuardedDraft DEF SaveNoop, OwnedInv, ReceiptFor
<1>2. receipts' = [receipts EXCEPT ![Ident(reqs[q])] = rc]
  BY DEF SaveNoop
<1>3. UNCHANGED <<drafts, revs, labels, checkouts, views, pins>>
  BY DEF SaveNoop, history, leases, environment
<1>4. DraftsStay
  BY <1>3 DEF DraftsStay, Exists
<1> HIDE DEF rc
<1>5. ReceiptsOwned'
  BY <1>1, <1>2, <1>3 DEF ReceiptsOwned, OwnedInv, Inv, TypeOK, Exists
<1> QED BY <1>3, <1>4, <1>5, OwnedKept DEF OwnedInv

LEMMA LabelCommitOwned ==
  ASSUME OwnedInv, Inv', NEW q \in Requests, LabelCommit(q)
  PROVE  OwnedInv'
<1>1. UNCHANGED <<drafts, revs, checkouts, views, receipts, pins>>
  BY DEF LabelCommit, leases, environment
<1>2. DraftsStay
  BY <1>1 DEF DraftsStay, Exists
<1>3. KeptAlive'
  BY <1>1 DEF LabelCommit, KeptAlive, OwnedInv
<1> QED BY <1>1, <1>2, <1>3, OwnedKept DEF OwnedInv

LEMMA RenameCommitOwned ==
  ASSUME OwnedInv, Inv', NEW q \in Requests, RenameCommit(q)
  PROVE  OwnedInv'
<1>1. UNCHANGED <<revs, labels, checkouts, views, receipts, pins>>
  BY DEF RenameCommit, history, leases, environment
<1>2. DraftsStay
  BY DEF RenameCommit, DraftsStay, Exists, OwnedInv, Inv, TypeOK, Draft
<1> QED BY <1>1, <1>2, OwnedKept DEF OwnedInv

LEMMA StatusCommitOwned ==
  ASSUME OwnedInv, Inv', NEW q \in Requests, StatusCommit(q)
  PROVE  OwnedInv'
<1>0. PICK d \in Drafts : d = reqs[q].draft
  BY PlacedDraft DEF StatusCommit, CreateStages, OwnedInv
<1>1. UNCHANGED <<revs, labels, receipts, pins>>
  BY DEF StatusCommit, history, environment
<1>2. CASE UNCHANGED <<drafts, checkouts, views>>
  BY <1>1, <1>2, OwnedKept DEF OwnedInv, DraftsStay, Exists
<1>3. CASE /\ MutationGuard(reqs[q])
           /\ drafts' = [drafts EXCEPT ![d].status = reqs[q].aim]
           /\ checkouts' = [checkouts EXCEPT ![d] = Missing]
           /\ views' = NoViewsOf(d)
  <2>1. Exists(d) /\ reqs[q].aim \in {"active", "archived"}
    BY <1>0, <1>3, GuardedDraft, SlotFull DEF OwnedInv, Request
  <2>2. /\ drafts'[d].status \in {"active", "archived"}
        /\ \A x \in Drafts : x # d => drafts'[x] = drafts[x]
    BY <1>3, <2>1 DEF OwnedInv, Inv, TypeOK, Draft, Exists
  <2>3. \A x \in Drafts : Exists(x) => Exists(x)'
    BY <2>1, <2>2 DEF Exists
  <2>4. RevsOwned'
    BY <1>1, <2>3, RevType DEF RevsOwned, OwnedInv, Inv, Rev
  <2>5. ReceiptsOwned'
    BY <1>1, <2>3, ReceiptType DEF ReceiptsOwned, OwnedInv, Inv, Receipt
  <2>6. LeasesOwned'
    BY <1>3, <2>1, <2>3 DEF LeasesOwned, OwnedInv, Inv, TypeOK
  <2>7. ViewsActive'
    BY <1>3, <2>2 DEF ViewsActive, NoViewsOf, OwnedInv, Inv, TypeOK
  <2>8. KeptAlive'
    BY <1>1 DEF KeptAlive, OwnedInv
  <2> QED BY <2>4, <2>5, <2>6, <2>7, <2>8 DEF OwnedInv
<1> QED BY <1>0, <1>2, <1>3 DEF StatusCommit

\* what remains after a deletion that spares what is published or labelled
LEMMA DeletedOwned ==
  ASSUME OwnedInv, NEW S, revs' = Without(S), pins' = pins, labels' \subseteq labels,
         S \cap (pins \cup labels') = {},
         \A r \in RevIds : revs[r] # Missing /\ r \notin S =>
           revs[r].draft \in Drafts /\ Exists(revs[r].draft)'
  PROVE  RevsOwned' /\ KeptAlive'
<1>1. \A r \in RevIds : /\ revs'[r] # Missing => /\ r \notin S
                                                 /\ revs[r] # Missing
                                                 /\ revs'[r].draft = revs[r].draft
                        /\ r \notin S /\ revs[r] # Missing => revs'[r] # Missing
  BY WithoutType DEF OwnedInv, Inv
<1>2. RevsOwned'
  BY <1>1 DEF RevsOwned, Exists
<1>3. pins \subseteq RevIds /\ labels \subseteq RevIds
  BY DEF OwnedInv, Inv, TypeOK
<1>4. KeptAlive'
  BY <1>1, <1>3 DEF KeptAlive, OwnedInv
<1> QED BY <1>2, <1>4

LEMMA PurgeCommitOwned ==
  ASSUME OwnedInv, Inv', NEW q \in Requests, PurgeCommit(q)
  PROVE  OwnedInv'
<1>0. PICK d \in Drafts : d = reqs[q].draft
  BY PlacedDraft DEF PurgeCommit, CreateStages, OwnedInv
<1>1. UNCHANGED pins
  BY DEF PurgeCommit, environment
<1>2. CASE UNCHANGED <<drafts, revs, labels, checkouts, views, receipts>>
  BY <1>1, <1>2, OwnedKept DEF OwnedInv, DraftsStay, Exists
<1>3. CASE Unpinned(d) /\ Destroy(d)
  <2>1. \A x \in Drafts : x # d => drafts'[x] = drafts[x]
    BY <1>3 DEF Destroy, OwnedInv, Inv, TypeOK
  <2>2. \A r \in RevIds : revs[r] # Missing /\ r \notin RevsOf(d) =>
          revs[r].draft \in Drafts /\ Exists(revs[r].draft)'
    <3> SUFFICES ASSUME NEW r \in RevIds, revs[r] # Missing, r \notin RevsOf(d)
                 PROVE  revs[r].draft \in Drafts /\ drafts'[revs[r].draft].status \in {"active", "archived"}
      BY <1>3, WithoutType DEF Destroy, Exists, OwnedInv, Inv
    <3>1. revs[r].draft # d /\ revs[r].draft \in Drafts /\ Exists(revs[r].draft)
      BY RevType DEF OwnedInv, Inv, RevsOwned, Rev, RevsOf
    <3> QED BY <2>1, <3>1 DEF Exists
  <2>3. RevsOwned' /\ KeptAlive'
    BY <1>1, <1>3, <2>2, DeletedOwned DEF Destroy, Unpinned
  <2>4. LeasesOwned'
    BY <1>3, <2>1 DEF Destroy, OwnedInv, Inv, TypeOK, LeasesOwned, Exists
  <2>5. ViewsActive'
    BY <1>3, <2>1 DEF Destroy, OwnedInv, Inv, TypeOK, ViewsActive, NoViewsOf
  <2>6. ReceiptsOwned'
    <3> SUFFICES ASSUME NEW i \in Idents, receipts'[i] \notin {Missing, Gone}
                 PROVE  drafts'[receipts'[i].draft].status \in {"active", "archived"}
      BY DEF ReceiptsOwned, Exists
    <3>1. receipts'[i] = receipts[i] /\ receipts[i].draft # d
      BY <1>3 DEF Destroy
    <3>2. Exists(receipts[i].draft) /\ receipts[i].draft \in Drafts
      BY <3>1, ReceiptType DEF OwnedInv, Inv, ReceiptsOwned, Receipt
    <3> QED BY <2>1, <3>1, <3>2 DEF Exists
  <2> QED BY <2>3, <2>4, <2>5, <2>6 DEF OwnedInv
<1> QED BY <1>0, <1>2, <1>3 DEF PurgeCommit

LEMMA RetainApplyOwned ==
  ASSUME OwnedInv, Inv', NEW q \in Requests, RetainApply(q)
  PROVE  OwnedInv'
<1>1. UNCHANGED <<drafts, labels, checkouts, views, receipts, pins>>
  BY DEF RetainApply, leases, environment
<1>2. DraftsStay
  BY <1>1 DEF DraftsStay, Exists
<1>3. CASE UNCHANGED revs
  BY <1>1, <1>2, <1>3, OwnedKept DEF OwnedInv
<1>4. CASE /\ \A r \in reqs[q].plan : Eligible(r)
           /\ revs' = Without(reqs[q].plan)
  <2>1. reqs[q].plan \cap (pins \cup labels) = {}
    BY <1>4 DEF Eligible
  <2>2. \A r \in RevIds : revs[r] # Missing =>
          revs[r].draft \in Drafts /\ drafts'[revs[r].draft].status \in {"active", "archived"}
    BY <1>1, RevType DEF OwnedInv, Inv, RevsOwned, Exists, Rev
  <2>3. \A r \in RevIds : revs[r] # Missing /\ r \notin reqs[q].plan =>
          revs[r].draft \in Drafts /\ drafts'[revs[r].draft].status \in {"active", "archived"}
    BY <2>2
  <2>4. RevsOwned' /\ KeptAlive'
    <3>1. \A r \in RevIds : /\ revs'[r] # Missing => /\ r \notin reqs[q].plan
                                                     /\ revs[r] # Missing
                                                     /\ revs'[r].draft = revs[r].draft
                            /\ r \notin reqs[q].plan /\ revs[r] # Missing => revs'[r] # Missing
      BY <1>4, WithoutType DEF OwnedInv, Inv
    <3>2. RevsOwned'
      BY <2>2, <3>1 DEF RevsOwned, Exists
    <3>3. KeptAlive'
      BY <1>1, <2>1, <3>1 DEF KeptAlive, OwnedInv, Inv, TypeOK
    <3> QED BY <3>2, <3>3
  <2> QED BY <1>1, <1>2, <2>4, OwnedKept DEF OwnedInv
<1> QED BY <1>3, <1>4 DEF RetainApply

\* the statements that write only checkouts, tokens and views
LEMMA LeaseCommitOwned ==
  ASSUME OwnedInv, Inv', UNCHANGED <<drafts, revs, labels, receipts, pins>>,
         \A d \in Drafts : checkouts'[d] # Missing => checkouts[d] # Missing \/ Exists(d),
         \A a \in Actors : views'[a] # None =>
            views'[a] = views[a] \/ drafts[views'[a]].status = "active"
  PROVE  OwnedInv'
<1>1. DraftsStay
  BY DEF DraftsStay, Exists
<1>2. LeasesOwned'
  BY DEF LeasesOwned, OwnedInv, Exists
<1>3. ViewsActive'
  BY DEF ViewsActive, OwnedInv
<1> QED BY <1>1, <1>2, <1>3, OwnedKept DEF OwnedInv

LEMMA AcquireOwned ==
  ASSUME OwnedInv, Inv', NEW q \in Requests, AcquireCommit(q) \/ ResumeCommit(q)
  PROVE  OwnedInv'
<1>0. PICK d \in Drafts : d = reqs[q].draft
  BY PlacedDraft DEF AcquireCommit, ResumeCommit, CreateStages, OwnedInv
<1>1. UNCHANGED <<drafts, revs, labels, receipts, views, pins>>
  BY DEF AcquireCommit, ResumeCommit, history, environment
<1>2. MayTake(reqs[q]) \/ MayResume(reqs[q]) => Exists(d)
  BY <1>0, SlotFull DEF MayTake, MayResume, Exists, OwnedInv, Request
<1>3. \A x \in Drafts : checkouts'[x] # Missing => checkouts[x] # Missing \/ Exists(x)
  BY <1>0, <1>2 DEF AcquireCommit, ResumeCommit, Lease, OwnedInv, Inv, TypeOK
<1> QED BY <1>1, <1>3, LeaseCommitOwned

LEMMA TouchCommitOwned ==
  ASSUME OwnedInv, Inv', NEW q \in Requests, TouchCommit(q)
  PROVE  OwnedInv'
<1>0. PICK d \in Drafts : d = reqs[q].draft
  BY PlacedDraft DEF TouchCommit, CreateStages, OwnedInv
<1>1. UNCHANGED <<drafts, revs, labels, receipts, pins>>
  BY DEF TouchCommit, history, environment
<1>2. MayResume(reqs[q]) => drafts[d].status = "active" /\ checkouts[d] # Missing
  BY <1>0 DEF MayResume, HoldsToken
<1>3. \A x \in Drafts : checkouts'[x] # Missing => checkouts[x] # Missing \/ Exists(x)
  BY <1>0, <1>2 DEF TouchCommit, OwnedInv, Inv, TypeOK
<1>4. \A a \in Actors : views'[a] # None =>
        views'[a] = views[a] \/ drafts[views'[a]].status = "active"
  BY <1>0, <1>2 DEF TouchCommit, OwnedInv, Inv, TypeOK
<1> QED BY <1>1, <1>3, <1>4, LeaseCommitOwned

LEMMA ReleaseOwned ==
  ASSUME OwnedInv, Inv', NEW c \in Clients, NEW d \in Drafts, Release(c, d)
  PROVE  OwnedInv'
<1>1. UNCHANGED <<drafts, revs, labels, receipts, views, pins>>
  BY DEF Release, history, environment
<1>2. \A x \in Drafts : checkouts'[x] # Missing => checkouts[x] # Missing
  BY DEF Release, OwnedInv, Inv, TypeOK
<1> QED BY <1>1, <1>2, LeaseCommitOwned

\* what a publication pins is the latest revision of a draft that is there
LEMMA PinsStep ==
  ASSUME [Next]_vars, UNCHANGED Tables
  PROVE  \A r \in pins' : r \in pins \/ \E d \in Drafts : Exists(d) /\ r = Latest(d)
<1>1. CASE \E q \in Requests : Handler(q)
  BY <1>1, Readers, WritersKeep DEF environment
<1>2. CASE ~\E q \in Requests : Handler(q)
  BY <1>2 DEF Next, Release, Tick, RoleChange, Publish, Retire, vars, environment, Exists
<1> QED BY <1>1, <1>2

LEMMA OwnedStep ==
  ASSUME OwnedInv, [Next]_vars
  PROVE  OwnedInv'
<1>0. Inv'
  BY NextInv DEF OwnedInv
<1>1. CASE UNCHANGED Tables
  <2>1. UNCHANGED <<drafts, revs, labels, checkouts, views, receipts>>
    BY <1>1 DEF Tables, history, leases
  <2>2. DraftsStay
    BY <2>1 DEF DraftsStay, Exists
  <2>3. KeptAlive'
    BY <1>1, <2>1, PinsStep, LatestType, StoredIsRev DEF KeptAlive, OwnedInv, Rev
  <2> QED BY <1>0, <2>1, <2>2, <2>3, OwnedKept DEF OwnedInv
<1>2. ASSUME NEW q \in Requests, Writes(q) PROVE OwnedInv'
  BY <1>0, <1>2, CreateCommitOwned, SaveCommitOwned, SaveNoopOwned, LabelCommitOwned,
     RenameCommitOwned, StatusCommitOwned, PurgeCommitOwned, RetainApplyOwned, AcquireOwned,
     TouchCommitOwned DEF Writes
<1>3. ASSUME NEW c \in Clients, NEW d \in Drafts, Release(c, d) PROVE OwnedInv'
  BY <1>0, <1>3, ReleaseOwned
<1> QED BY <1>1, <1>2, <1>3, TableSteps

\* the imported revision is the only one there is at the start
LEMMA FirstRows ==
  ASSUME Init
  PROVE  /\ \A r \in RevIds : revs[r] # Missing =>
              /\ r = 1 /\ Imported \in Drafts
              /\ revs[r].draft = Imported /\ revs[r].seq = 1
              /\ revs[r].base = 0 /\ revs[r].token = 0
         /\ Imported # None => 1 \in RevIds /\ revs[1] # Missing
<1>1. PICK doc \in Docs :
        revs = [r \in RevIds |-> IF r = 1 /\ Imported # None
                                 THEN FirstRevision(Imported, doc, 0, None) ELSE Missing]
  BY DEF Init
<1>2. Imported # None => Imported \in Drafts
  BY DraftStoreAssumption
<1>3. 1 \in RevIds
  BY DraftStoreAssumption DEF RevIds
<1> DEFINE e == FirstRevision(Imported, doc, 0, None)
<1>4. e # Missing /\ e.draft = Imported /\ e.seq = 1 /\ e.base = 0 /\ e.token = 0
  BY DEF FirstRevision, Missing
<1>5. revs = [r \in RevIds |-> IF r = 1 /\ Imported # None THEN e ELSE Missing]
  BY <1>1
<1> HIDE DEF e
<1> QED BY <1>2, <1>3, <1>4, <1>5

LEMMA OwnedInit == Init => OwnedInv
<1> SUFFICES ASSUME Init PROVE OwnedInv
  OBVIOUS
<1>1. RevsOwned
  <2> SUFFICES ASSUME NEW r \in RevIds, revs[r] # Missing PROVE Exists(revs[r].draft)
    BY DEF RevsOwned
  <2>1. revs[r].draft = Imported /\ Imported \in Drafts
    BY FirstRows
  <2> QED BY <2>1 DEF Init, Exists
<1>2. LeasesOwned /\ ViewsActive /\ ReceiptsOwned
  BY DEF Init, LeasesOwned, ViewsActive, ReceiptsOwned
<1>3. KeptAlive
  BY FirstRows DEF Init, KeptAlive
<1> QED BY <1>1, <1>2, <1>3, InitInv DEF OwnedInv

\* Whatever is purged, published, labelled or cleaned up, and in whatever order, no revision,
\* checkout, view or receipt is left that names a draft which is not there, and no publication
\* input or label loses its revision.
THEOREM NothingIsLeftDangling == Spec => []NothingDangles
<1>1. OwnedInv /\ [Next]_vars => OwnedInv'
  BY OwnedStep
<1> QED BY OwnedInit, <1>1, OwnedParts, PTL DEF Spec

-----------------------------------------------------------------------------
(* What is kept can be read: live receipts find their revision and spliced *)
(* payloads their checkpoint.                                              *)

ReadInv == OwnedInv /\ ReceiptReadable /\ Decodable

\* a deletion changes nothing of what it leaves but the parent
LEMMA WithoutFields ==
  ASSUME TypeOK, NEW S, NEW r \in RevIds, r \notin S, revs[r] # Missing
  PROVE  /\ Without(S)[r].draft = revs[r].draft /\ Without(S)[r].seq = revs[r].seq
         /\ Without(S)[r].base = revs[r].base /\ Without(S)[r].token = revs[r].token
         /\ Without(S)[r].doc = revs[r].doc
<1> DEFINE p == IF revs[r].parent \in S THEN 0 ELSE revs[r].parent
           e == [revs[r] EXCEPT !.parent = p]
<1>1. revs[r] \in Rev
  BY RevType
<1>2. Without(S)[r] = e
  BY DEF Without
<1> HIDE DEF p
<1>3. /\ e.draft = revs[r].draft /\ e.seq = revs[r].seq /\ e.base = revs[r].base
      /\ e.token = revs[r].token /\ e.doc = revs[r].doc
  BY <1>1 DEF Rev
<1> HIDE DEF e
<1> QED BY <1>2, <1>3

\* stored revisions stay as they are when a new one is written
RevsGrow == \A r \in RevIds : revs[r] # Missing => revs'[r] = revs[r]

LEMMA ReadableKept ==
  ASSUME ReadInv, RevsGrow, NEW i \in Idents, receipts'[i] = receipts[i], now' \in Nat, now <= now'
  PROVE  receipts'[i] \notin {Missing, Gone} /\ receipts'[i].expires > now' =>
           receipts'[i].rev \in RevsOf(receipts[i].draft)'
<1> SUFFICES ASSUME receipts[i] \notin {Missing, Gone}, receipts[i].expires > now'
             PROVE  receipts[i].rev \in RevIds /\ revs'[receipts[i].rev] # Missing
                    /\ revs'[receipts[i].rev].draft = receipts[i].draft
  BY DEF RevsOf
<1>1. receipts[i] \in Receipt /\ now \in Nat
  BY ReceiptType DEF ReadInv, OwnedInv, Inv, TypeOK
<1>2. receipts[i].expires > now
  BY <1>1 DEF Receipt
<1>3. receipts[i].rev \in RevsOf(receipts[i].draft)
  BY <1>2 DEF ReadInv, ReceiptReadable
<1> QED BY <1>3 DEF RevsOf, RevsGrow
LEMMA ReadKept ==
  ASSUME ReadInv, UNCHANGED <<revs, receipts>>, now' \in Nat, now <= now'
  PROVE  ReceiptReadable' /\ Decodable'
<1>1. RevsGrow
  BY DEF RevsGrow
<1>2. ReceiptReadable'
  BY <1>1, ReadableKept DEF ReceiptReadable
<1>3. Decodable'
  BY DEF ReadInv, Decodable, Checkpoints, RevsOf
<1> QED BY <1>2, <1>3

\* a revision, and a receipt for it, are written
LEMMA ReadWritten ==
  ASSUME ReadInv, UNCHANGED now, NEW r \in RevIds, revs[r] = Missing, NEW e, NEW d,
         e # Missing, e.draft = d, PayloadBaseValid(e.base, d, e.seq),
         revs' = [revs EXCEPT ![r] = e],
         NEW i \in Idents, NEW rc, rc.rev = r, rc.draft = d,
         receipts' = [receipts EXCEPT ![i] = rc]
  PROVE  ReceiptReadable' /\ Decodable'
<1>0. revs \in [RevIds -> Rev \cup {Missing}] /\ receipts \in [Idents -> Receipt \cup {Missing, Gone}]
      /\ now \in Nat /\ now <= now
  BY DEF ReadInv, OwnedInv, Inv, TypeOK
<1>1. RevsGrow /\ revs'[r] = e
  BY <1>0 DEF RevsGrow
<1>2. ASSUME NEW j \in Idents, receipts'[j] \notin {Missing, Gone}, receipts'[j].expires > now'
      PROVE  receipts'[j].rev \in RevsOf(receipts[j].draft)'
  <2>1. CASE receipts'[j] = rc
    BY <1>1, <2>1 DEF RevsOf
  <2>2. CASE receipts'[j] = receipts[j]
    BY <1>0, <1>1, <1>2, <2>2, ReadableKept
  <2> QED BY <1>0, <2>1, <2>2
<1>3. ReceiptReadable'
  BY <1>2 DEF ReceiptReadable
<1>4. ASSUME NEW s \in RevIds, revs'[s] # Missing, revs'[s].base # 0
      PROVE  revs'[s].base \in Checkpoints(revs[s].draft, revs[s].seq)'
  <2>1. CASE s = r
    <3>1. e.base \in Checkpoints(d, e.seq)
      BY <1>1, <1>4, <2>1 DEF PayloadBaseValid
    <3>2. e.base \in RevIds /\ revs'[e.base] = revs[e.base]
      BY <1>1, <3>1 DEF RevsGrow, Checkpoints, RevsOf
    <3> QED BY <1>1, <2>1, <3>1, <3>2 DEF Checkpoints, RevsOf
  <2>2. CASE s # r
    <3>1. revs'[s] = revs[s]
      BY <1>0, <2>2
    <3>2. revs[s].base \in Checkpoints(revs[s].draft, revs[s].seq)
      BY <1>4, <3>1 DEF ReadInv, Decodable
    <3>3. revs'[revs[s].base] = revs[revs[s].base]
      BY <1>1, <3>2 DEF RevsGrow, Checkpoints, RevsOf
    <3> QED BY <3>1, <3>2, <3>3 DEF Checkpoints, RevsOf
  <2> QED BY <2>1, <2>2
<1>5. Decodable'
  BY <1>4 DEF Decodable
<1> QED BY <1>3, <1>5

\* revisions are deleted that no live receipt and no payload left behind needs
LEMMA ReadDeleted ==
  ASSUME ReadInv, UNCHANGED now, NEW S, revs' = Without(S),
         \A i \in Idents : receipts'[i] \notin {Missing, Gone} /\ receipts'[i].expires > now =>
            receipts'[i] = receipts[i] /\ receipts[i].rev \notin S,
         \A r \in RevIds : revs[r] # Missing /\ r \notin S => revs[r].base \notin S \/ revs[r].base = 0
  PROVE  ReceiptReadable' /\ Decodable'
<1>1. \A r \in RevIds : /\ revs'[r] # Missing => r \notin S /\ revs[r] # Missing
                        /\ r \notin S /\ revs[r] # Missing => revs'[r] # Missing
  BY WithoutType DEF ReadInv, OwnedInv, Inv
<1>2. \A r \in RevIds : revs[r] # Missing /\ r \notin S =>
        /\ revs'[r].draft = revs[r].draft
        /\ revs'[r].seq = revs[r].seq
        /\ revs'[r].base = revs[r].base
  BY WithoutFields DEF ReadInv, OwnedInv, Inv
<1>3. ReceiptReadable'
  <2> SUFFICES ASSUME NEW i \in Idents, receipts'[i] \notin {Missing, Gone}, receipts'[i].expires > now
               PROVE  receipts'[i].rev \in RevsOf(receipts[i].draft)'
    BY DEF ReceiptReadable
  <2>1. receipts'[i] = receipts[i] /\ receipts[i].rev \notin S
    OBVIOUS
  <2>2. receipts[i].rev \in RevsOf(receipts[i].draft)
    BY <2>1 DEF ReadInv, ReceiptReadable
  <2> QED BY <1>1, <1>2, <2>1, <2>2 DEF RevsOf
<1>4. Decodable'
  <2> SUFFICES ASSUME NEW r \in RevIds, revs'[r] # Missing, revs'[r].base # 0
               PROVE  revs'[r].base \in Checkpoints(revs[r].draft, revs[r].seq)'
    BY DEF Decodable
  <2>1. revs[r] # Missing /\ r \notin S /\ revs'[r].base = revs[r].base
    BY <1>1, <1>2
  <2>2. revs[r].base \in Checkpoints(revs[r].draft, revs[r].seq) /\ revs[r].base \notin S
    BY <2>1 DEF ReadInv, Decodable
  <2>3. revs[r].base \in RevIds /\ revs[revs[r].base] # Missing
    BY <2>2 DEF Checkpoints, RevsOf
  <2> QED BY <1>1, <1>2, <2>1, <2>2, <2>3 DEF Checkpoints, RevsOf
<1> QED BY <1>3, <1>4

LEMMA CreateCommitRead ==
  ASSUME ReadInv, NEW q \in Requests, CreateCommit(q)
  PROVE  ReceiptReadable' /\ Decodable'
<1>1. PICK d \in Drafts, doc \in Docs : InsertDraft(reqs[q], d, doc)
  BY DEF CreateCommit
<1> DEFINE e == FirstRevision(d, doc, reqs[q].at, Ident(reqs[q]))
           rc == ReceiptFor(reqs[q], nextRev, d)
<1>2. e # Missing /\ e.draft = d /\ e.base = 0 /\ rc.rev = nextRev /\ rc.draft = d
  BY DEF FirstRevision, Missing, ReceiptFor
<1>3. nextRev \in RevIds /\ revs[nextRev] = Missing
  BY <1>1 DEF InsertDraft, ReadInv, OwnedInv, Inv, TypeOK, RevIds, IdsUnused
<1>4. Ident(reqs[q]) \in Idents
  BY SlotFull, IdentType DEF Full, CreateCommit, CreateStages, ReadInv, OwnedInv
<1>5. /\ revs' = [revs EXCEPT ![nextRev] = e]
      /\ receipts' = [receipts EXCEPT ![Ident(reqs[q])] = rc]
      /\ UNCHANGED now
  BY <1>1 DEF InsertDraft, CreateCommit, environment
<1>6. PayloadBaseValid(e.base, d, e.seq)
  BY <1>2 DEF PayloadBaseValid
<1> HIDE DEF e, rc
<1> QED BY <1>2, <1>3, <1>4, <1>5, <1>6, ReadWritten

LEMMA SaveCommitRead ==
  ASSUME ReadInv, NEW q \in Requests, SaveCommit(q)
  PROVE  ReceiptReadable' /\ Decodable'
<1>0. PICK d \in Drafts : d = reqs[q].draft
  BY PlacedDraft DEF SaveCommit, CreateStages, ReadInv, OwnedInv
<1>1. InsertRevision(reqs[q]) /\ PayloadBaseValid(reqs[q].base, d, reqs[q].seq) /\ UNCHANGED now
  BY <1>0 DEF SaveCommit, environment
<1> DEFINE e == [kind |-> "rev", draft |-> d, seq |-> reqs[q].seq, parent |-> reqs[q].cur,
                 doc |-> reqs[q].doc, born |-> reqs[q].at, base |-> reqs[q].base,
                 ident |-> Ident(reqs[q]), token |-> reqs[q].token]
           rc == ReceiptFor(reqs[q], nextRev, d)
<1>2. /\ e # Missing /\ e.draft = d /\ e.base = reqs[q].base /\ e.seq = reqs[q].seq
      /\ rc.rev = nextRev /\ rc.draft = d
  BY DEF Missing, ReceiptFor
<1>3. nextRev \in RevIds /\ revs[nextRev] = Missing
  BY <1>1 DEF InsertRevision, ReadInv, OwnedInv, Inv, TypeOK, RevIds, IdsUnused
<1>4. Ident(reqs[q]) \in Idents
  BY SlotFull, IdentType DEF Full, SaveCommit, SaveStages, ReadInv, OwnedInv
<1>5. /\ revs' = [revs EXCEPT ![nextRev] = e]
      /\ receipts' = [receipts EXCEPT ![Ident(reqs[q])] = rc]
  BY <1>0, <1>1 DEF InsertRevision
<1>6. PayloadBaseValid(e.base, d, e.seq)
  BY <1>1, <1>2
<1> HIDE DEF e, rc
<1> QED BY <1>1, <1>2, <1>3, <1>4, <1>5, <1>6, ReadWritten

\* the answer of a save that changed nothing is the latest revision, which is stored
LEMMA SaveNoopRead ==
  ASSUME ReadInv, NEW q \in Requests, SaveNoop(q)
  PROVE  ReceiptReadable' /\ Decodable'
<1>0. PICK d \in Drafts : d = reqs[q].draft
  BY PlacedDraft DEF SaveNoop, CreateStages, ReadInv, OwnedInv
<1> DEFINE rc == ReceiptFor(reqs[q], reqs[q].cur, d)
<1>1. rc.rev = reqs[q].cur /\ rc.draft = d
  BY DEF ReceiptFor
<1>2. receipts' = [receipts EXCEPT ![Ident(reqs[q])] = rc]
  BY <1>0 DEF SaveNoop
<1>3. reqs[q].cur \in RevIds /\ revs[reqs[q].cur] # Missing /\ revs[reqs[q].cur].draft = d
  BY <1>0, GuardedDraft DEF SaveNoop, ReadInv, OwnedInv, Inv, LatestIsNewest, RevsOf
<1>4. UNCHANGED <<revs, now>> /\ now \in Nat /\ now <= now /\ RevsGrow
  BY DEF SaveNoop, history, environment, ReadInv, OwnedInv, Inv, TypeOK, RevsGrow
<1> HIDE DEF rc
<1>5. ASSUME NEW j \in Idents, receipts'[j] \notin {Missing, Gone}, receipts'[j].expires > now'
      PROVE  receipts'[j].rev \in RevsOf(receipts[j].draft)'
  <2>1. CASE receipts'[j] = rc
    BY <1>1, <1>3, <1>4, <2>1 DEF RevsOf
  <2>2. CASE receipts'[j] = receipts[j]
    BY <1>4, <1>5, <2>2, ReadableKept
  <2> QED BY <1>2, <2>1, <2>2 DEF ReadInv, OwnedInv, Inv, TypeOK
<1>6. Decodable'
  BY <1>4 DEF ReadInv, Decodable, Checkpoints, RevsOf
<1> QED BY <1>5, <1>6 DEF ReceiptReadable

LEMMA PurgeCommitRead ==
  ASSUME ReadInv, NEW q \in Requests, PurgeCommit(q)
  PROVE  ReceiptReadable' /\ Decodable'
<1>0. PICK d \in Drafts : d = reqs[q].draft
  BY PlacedDraft DEF PurgeCommit, CreateStages, ReadInv, OwnedInv
<1>1. UNCHANGED now /\ now \in Nat /\ now <= now
  BY DEF PurgeCommit, environment, ReadInv, OwnedInv, Inv, TypeOK
<1>2. CASE UNCHANGED <<drafts, revs, labels, checkouts, views, receipts>>
  BY <1>1, <1>2, ReadKept
<1>3. CASE Destroy(d)
  <2>1. ASSUME NEW i \in Idents, receipts'[i] \notin {Missing, Gone}, receipts'[i].expires > now'
        PROVE  receipts'[i] = receipts[i] /\ receipts[i].rev \notin RevsOf(d)
    <3>1. receipts'[i] = receipts[i] /\ receipts[i].draft # d
      BY <1>3, <2>1 DEF Destroy
    <3>2. receipts[i].rev \in RevsOf(receipts[i].draft)
      BY <1>1, <2>1, <3>1 DEF ReadInv, ReceiptReadable
    <3> QED BY <3>1, <3>2 DEF RevsOf
  <2>2. ASSUME NEW r \in RevIds, revs[r] # Missing, r \notin RevsOf(d)
        PROVE  revs[r].base \notin RevsOf(d) \/ revs[r].base = 0
    BY <2>2 DEF ReadInv, Decodable, Checkpoints, RevsOf
  <2> QED BY <1>1, <1>3, <2>1, <2>2, ReadDeleted DEF Destroy
<1> QED BY <1>0, <1>2, <1>3 DEF PurgeCommit

\* retention looks at every condition again in the batch that deletes
LEMMA RetainApplyRead ==
  ASSUME ReadInv, NEW q \in Requests, RetainApply(q)
  PROVE  ReceiptReadable' /\ Decodable'
<1>1. UNCHANGED <<receipts, now>> /\ now \in Nat /\ now <= now
  BY DEF RetainApply, environment, ReadInv, OwnedInv, Inv, TypeOK
<1>2. CASE UNCHANGED revs
  BY <1>1, <1>2, ReadKept
<1>3. CASE /\ \A r \in reqs[q].plan : Eligible(r)
           /\ revs' = Without(reqs[q].plan)
  <2>1. ASSUME NEW i \in Idents, receipts'[i] \notin {Missing, Gone}, receipts'[i].expires > now
        PROVE  receipts'[i] = receipts[i] /\ receipts[i].rev \notin reqs[q].plan
    BY <1>1, <1>3, <2>1 DEF Eligible
  <2>2. \A r \in RevIds : revs[r] # Missing => revs[r].base \notin reqs[q].plan
    BY <1>3 DEF Eligible
  <2> QED BY <1>1, <1>3, <2>1, <2>2, ReadDeleted
<1> QED BY <1>2, <1>3 DEF RetainApply

LEMMA ReadStep ==
  ASSUME ReadInv, [Next]_vars
  PROVE  ReadInv'
<1>0. OwnedInv' /\ now' \in Nat /\ now <= now'
  BY OwnedStep, ClockStep DEF ReadInv, OwnedInv
<1>1. CASE UNCHANGED <<revs, receipts>>
  BY <1>0, <1>1, ReadKept DEF ReadInv
<1>2. ASSUME NEW q \in Requests, Writes(q) PROVE ReadInv'
  <2>1. CASE \/ LabelCommit(q) \/ RenameCommit(q) \/ StatusCommit(q) \/ AcquireCommit(q)
             \/ ResumeCommit(q) \/ TouchCommit(q)
    BY <1>1, <2>1 DEF LabelCommit, RenameCommit, StatusCommit, AcquireCommit, ResumeCommit,
       TouchCommit, history
  <2> QED BY <1>0, <1>2, <2>1, CreateCommitRead, SaveCommitRead, SaveNoopRead, PurgeCommitRead,
          RetainApplyRead DEF Writes, ReadInv
<1>3. CASE UNCHANGED Tables \/ \E c \in Clients, d \in Drafts : Release(c, d)
  BY <1>1, <1>3 DEF Tables, history, Release
<1> QED BY <1>2, <1>3, TableSteps

LEMMA ReadInit == Init => ReadInv
<1> SUFFICES ASSUME Init PROVE ReadInv
  OBVIOUS
<1>1. ReceiptReadable
  BY DEF Init, ReceiptReadable
<1>2. Decodable
  BY FirstRows DEF Decodable
<1> QED BY <1>1, <1>2, OwnedInit DEF ReadInv

\* However saves, purges and retention interleave, a live receipt still finds the revision it
\* answers with, in the draft it names, and every stored revision the checkpoint that its
\* payload splices: neither REQUEST_RECEIPT_CORRUPT nor REVISION_CHECKPOINT_MISSING is raised.
THEOREM WhatIsKeptCanBeRead == Spec => []RetainedReadable
<1>1. ReadInv /\ [Next]_vars => ReadInv'
  BY ReadStep
<1>2. ReadInv => RetainedReadable
  BY DEF ReadInv, RetainedReadable
<1> QED BY ReadInit, <1>1, <1>2, PTL DEF Spec

-----------------------------------------------------------------------------
(* Fenced writers.  Tokens are handed out in order, a lease has one of     *)
(* them, and no revision of its draft was written under a younger one.     *)

InOrder == \E n \in 0..MaxTokens : \A t \in Tokens : tokens[t] # None <=> t <= n
LeaseIssued == \A d \in Drafts : checkouts[d] # Missing => tokens[checkouts[d].token] # None
WriteIssued ==
  \A r \in RevIds : revs[r] # Missing /\ revs[r].token # 0 => tokens[revs[r].token] # None
LeaseFences ==
  \A d \in Drafts : checkouts[d] # Missing =>
    \A r \in RevsOf(d) : revs[r].token <= checkouts[d].token

FenceInv == OwnedInv /\ InOrder /\ LeaseIssued /\ WriteIssued /\ LeaseFences /\ FencedHistory

LEMMA TokenType ==
  ASSUME TypeOK
  PROVE  /\ \A d \in Drafts : checkouts[d] # Missing => checkouts[d].token \in Tokens
         /\ \A r \in RevIds : revs[r] # Missing => revs[r].token \in 0..MaxTokens
<1>1. \A d \in Drafts : checkouts[d] # Missing => checkouts[d] \in Checkout
  BY DEF TypeOK
<1> QED BY <1>1, RevType DEF Checkout, Rev

\* every token that was given to somebody is older than a fresh one
LEMMA FreshIsYoungest ==
  ASSUME TypeOK, InOrder, NEW t \in FreshToken
  PROVE  /\ t \in Tokens
         /\ \A s \in Tokens : tokens[s] # None <=> s < t
<1>1. PICK n \in 0..MaxTokens : \A s \in Tokens : tokens[s] # None <=> s <= n
  BY DEF InOrder
<1>2. MaxTokens \in Nat
  BY DraftStoreAssumption
<1>3. t \in 1..MaxTokens /\ tokens[t] = None /\ \A s \in 1..(t - 1) : tokens[s] # None
  BY DEF FreshToken, Tokens
<1>4. t > n
  BY <1>1, <1>2, <1>3 DEF Tokens
<1>5. t <= n + 1
  <2> SUFFICES ASSUME t > n + 1 PROVE FALSE
    BY <1>2, <1>3
  <2>1. n + 1 \in 1..(t - 1) /\ n + 1 \in Tokens
    BY <1>2, <1>3 DEF Tokens
  <2> QED BY <1>1, <1>2, <1>3, <2>1
<1>6. t = n + 1
  BY <1>2, <1>3, <1>4, <1>5
<1> QED BY <1>1, <1>2, <1>3, <1>6 DEF Tokens

\* leases may end, and no token or revision is written
LEMMA FenceKept ==
  ASSUME FenceInv, UNCHANGED <<revs, tokens>>,
         \A d \in Drafts : checkouts'[d] # Missing =>
            checkouts[d] # Missing /\ checkouts'[d].token = checkouts[d].token
  PROVE  InOrder' /\ LeaseIssued' /\ WriteIssued' /\ LeaseFences' /\ FencedHistory'
<1>1. InOrder' /\ WriteIssued' /\ FencedHistory'
  BY DEF FenceInv, InOrder, WriteIssued, FencedHistory
<1>2. LeaseIssued' /\ LeaseFences'
  BY DEF FenceInv, LeaseIssued, LeaseFences, RevsOf
<1> QED BY <1>1, <1>2

LEMMA FenceDeleted ==
  ASSUME FenceInv, UNCHANGED tokens, NEW S, revs' = Without(S),
         \A d \in Drafts : checkouts'[d] # Missing =>
            checkouts[d] # Missing /\ checkouts'[d].token = checkouts[d].token
  PROVE  InOrder' /\ LeaseIssued' /\ WriteIssued' /\ LeaseFences' /\ FencedHistory'
<1>1. \A r \in RevIds : revs'[r] # Missing =>
        /\ revs[r] # Missing
        /\ revs'[r].draft = revs[r].draft
        /\ revs'[r].token = revs[r].token
  BY WithoutType, WithoutFields DEF FenceInv, OwnedInv, Inv
<1>2. InOrder' /\ LeaseIssued'
  BY DEF FenceInv, InOrder, LeaseIssued
<1>3. WriteIssued'
  BY <1>1 DEF FenceInv, WriteIssued
<1>4. LeaseFences'
  BY <1>1 DEF FenceInv, LeaseFences, RevsOf
<1>5. FencedHistory'
  BY <1>1 DEF FenceInv, FencedHistory
<1> QED BY <1>2, <1>3, <1>4, <1>5

\* the first revision of a draft, or one written under the lease that is there
LEMMA FenceWritten ==
  ASSUME FenceInv, UNCHANGED <<tokens, checkouts>>, nextRev \in RevIds,
         NEW d \in Drafts, NEW e \in Rev, e # Missing, e.draft = d,
         revs' = [revs EXCEPT ![nextRev] = e],
         \/ e.token = 0 /\ RevsOf(d) = {}
         \/ checkouts[d] # Missing /\ e.token = checkouts[d].token
  PROVE  InOrder' /\ LeaseIssued' /\ WriteIssued' /\ LeaseFences' /\ FencedHistory'
<1>0. \A r \in RevIds : revs'[r] = IF r = nextRev THEN e ELSE revs[r]
  BY DEF FenceInv, OwnedInv, Inv, TypeOK
<1>1. InOrder' /\ LeaseIssued'
  BY DEF FenceInv, InOrder, LeaseIssued
<1>2. WriteIssued'
  BY <1>0 DEF FenceInv, WriteIssued, LeaseIssued
<1>3. TypeOK /\ IdsUnused
  BY DEF FenceInv, OwnedInv, Inv
<1>4. LeaseFences'
  <2> SUFFICES ASSUME NEW x \in Drafts, checkouts[x] # Missing, NEW r \in RevIds,
                      revs'[r] # Missing, revs'[r].draft = x
               PROVE  revs'[r].token <= checkouts[x].token
    BY DEF LeaseFences, RevsOf
  <2>1. CASE r = nextRev
    BY <1>0, <1>3, <2>1, TokenType DEF Tokens
  <2>2. CASE r # nextRev
    BY <1>0, <2>2 DEF FenceInv, LeaseFences, RevsOf
  <2> QED BY <2>1, <2>2
<1>5. FencedHistory'
  <2> SUFFICES ASSUME NEW r \in RevIds, NEW s \in RevIds, revs'[r] # Missing,
                      revs'[s] # Missing, revs'[r].draft = revs'[s].draft, r < s
               PROVE  revs'[r].token <= revs'[s].token
    BY DEF FencedHistory
  <2>1. CASE s = nextRev
    <3>1. r # nextRev /\ revs'[r] = revs[r]
      BY <1>0, <2>1 DEF RevIds
    <3>2. r \in RevsOf(d) /\ revs'[s] = e
      BY <1>0, <2>1, <3>1 DEF RevsOf
    <3> QED BY <3>1, <3>2 DEF FenceInv, LeaseFences
  <2>2. CASE s # nextRev
    <3>1. r # nextRev
      BY <1>0, <1>3, <2>2 DEF IdsUnused, TypeOK, RevIds
    <3> QED BY <1>0, <2>2, <3>1 DEF FenceInv, FencedHistory
  <2> QED BY <2>1, <2>2
<1> QED BY <1>1, <1>2, <1>4, <1>5

\* a lease with a fresh token
LEMMA FenceLeased ==
  ASSUME FenceInv, UNCHANGED revs, NEW q \in Requests, reqs[q].client \in Clients,
         NEW d \in Drafts, reqs[q].draft = d, NEW t \in FreshToken, NEW until,
         Lease(reqs[q], t, until)
  PROVE  InOrder' /\ LeaseIssued' /\ WriteIssued' /\ LeaseFences' /\ FencedHistory'
<1>0. TypeOK /\ t \in Tokens /\ reqs[q].client # None
      /\ \A s \in Tokens : tokens[s] # None <=> s < t
  BY FreshIsYoungest, NoneIsNoValue DEF FenceInv, OwnedInv, Inv
<1> DEFINE l == [kind |-> "lease", client |-> reqs[q].client, token |-> t, expires |-> until]
<1>1. l # Missing /\ l.token = t
  BY DEF Missing
<1>2. checkouts' = [checkouts EXCEPT ![d] = l] /\ tokens' = [tokens EXCEPT ![t] = reqs[q].client]
  BY DEF Lease
<1> HIDE DEF l
<1>3. \A s \in Tokens : tokens'[s] # None <=> s <= t
  BY <1>0, <1>2 DEF TypeOK, Tokens
<1>4. InOrder'
  <2>1. t \in 0..MaxTokens
    BY <1>0 DEF Tokens
  <2> QED BY <1>3, <2>1 DEF InOrder
<1>5. LeaseIssued'
  BY <1>0, <1>1, <1>2, <1>3, TokenType DEF FenceInv, LeaseIssued, TypeOK, Tokens
<1>6. WriteIssued'
  BY <1>0, <1>2, <1>3, TokenType DEF FenceInv, WriteIssued, TypeOK, Tokens
<1>7. \A r \in RevIds : revs[r] # Missing => revs[r].token <= t
  <2> SUFFICES ASSUME NEW r \in RevIds, revs[r] # Missing PROVE revs[r].token <= t
    OBVIOUS
  <2>1. revs[r].token \in 0..MaxTokens
    BY <1>0, TokenType
  <2>2. CASE revs[r].token = 0
    BY <1>0, <2>2 DEF Tokens
  <2>3. CASE revs[r].token # 0
    <3>1. revs[r].token \in Tokens /\ tokens[revs[r].token] # None
      BY <2>1, <2>3 DEF FenceInv, WriteIssued, Tokens
    <3> QED BY <1>0, <3>1 DEF Tokens
  <2> QED BY <2>2, <2>3
<1>8. LeaseFences'
  BY <1>0, <1>1, <1>2, <1>7 DEF FenceInv, LeaseFences, TypeOK, RevsOf
<1>9. FencedHistory'
  BY DEF FenceInv, FencedHistory
<1> QED BY <1>4, <1>5, <1>6, <1>8, <1>9

LEMMA FenceCreate ==
  ASSUME FenceInv, NEW q \in Requests, CreateCommit(q)
  PROVE  InOrder' /\ LeaseIssued' /\ WriteIssued' /\ LeaseFences' /\ FencedHistory'
<1>1. PICK d \in Drafts, doc \in Docs : InsertDraft(reqs[q], d, doc)
  BY DEF CreateCommit
<1> DEFINE e == FirstRevision(d, doc, reqs[q].at, Ident(reqs[q]))
<1>2. reqs[q] \in Request /\ Ident(reqs[q]) \in Idents
  BY SlotFull, IdentType DEF Full, CreateCommit, CreateStages, FenceInv, OwnedInv
<1>3. nextRev \in RevIds
  BY <1>1 DEF InsertDraft, FenceInv, OwnedInv, Inv, TypeOK, RevIds
<1>4. e \in Rev /\ e # Missing /\ e.draft = d /\ e.token = 0
  BY <1>2, DraftStoreAssumption DEF FirstRevision, Missing, Rev, Request
<1>5. RevsOf(d) = {}
  BY <1>1 DEF InsertDraft, FenceInv, OwnedInv, RevsOwned, RevsOf, Exists
<1>6. revs' = [revs EXCEPT ![nextRev] = e] /\ UNCHANGED <<tokens, checkouts>>
  BY <1>1 DEF InsertDraft, CreateCommit, leases
<1> HIDE DEF e
<1> QED BY <1>3, <1>4, <1>5, <1>6, FenceWritten

LEMMA FenceSave ==
  ASSUME FenceInv, NEW q \in Requests, SaveCommit(q)
  PROVE  InOrder' /\ LeaseIssued' /\ WriteIssued' /\ LeaseFences' /\ FencedHistory'
<1>0. PICK d \in Drafts : d = reqs[q].draft
  BY PlacedDraft DEF SaveCommit, CreateStages, FenceInv, OwnedInv
<1>1. InsertRevision(reqs[q]) /\ UNCHANGED <<tokens, checkouts>>
  BY DEF SaveCommit, leases
<1> DEFINE e == [kind |-> "rev", draft |-> d, seq |-> reqs[q].seq, parent |-> reqs[q].cur,
                 doc |-> reqs[q].doc, born |-> reqs[q].at, base |-> reqs[q].base,
                 ident |-> Ident(reqs[q]), token |-> reqs[q].token]
<1>2. reqs[q] \in Request /\ reqs[q].doc \in Docs /\ Ident(reqs[q]) \in Idents
  BY SlotFull, IdentType DEF Full, SaveCommit, SaveStages, FenceInv, OwnedInv
<1>3. nextRev \in RevIds
  BY <1>1 DEF InsertRevision, FenceInv, OwnedInv, Inv, TypeOK, RevIds
<1>4. e \in Rev /\ e # Missing /\ e.draft = d /\ e.token = reqs[q].token
  BY <1>2 DEF Missing, Rev, Request
<1>5. checkouts[d] # Missing /\ checkouts[d].token = reqs[q].token
  BY <1>0, GuardedDraft DEF SaveCommit, FenceInv, OwnedInv
<1>6. revs' = [revs EXCEPT ![nextRev] = e]
  BY <1>0, <1>1 DEF InsertRevision
<1> HIDE DEF e
<1> QED BY <1>1, <1>3, <1>4, <1>5, <1>6, FenceWritten

LEMMA FenceLease ==
  ASSUME FenceInv, NEW q \in Requests, AcquireCommit(q) \/ ResumeCommit(q)
  PROVE  InOrder' /\ LeaseIssued' /\ WriteIssued' /\ LeaseFences' /\ FencedHistory'
<1>0. PICK d \in Drafts : d = reqs[q].draft
  BY PlacedDraft DEF AcquireCommit, ResumeCommit, CreateStages, FenceInv, OwnedInv
<1>1. UNCHANGED revs /\ reqs[q].client \in Clients
  BY SlotFull DEF AcquireCommit, ResumeCommit, history, Full, FenceInv, OwnedInv
<1>2. CASE UNCHANGED <<checkouts, tokens>>
  BY <1>1, <1>2, FenceKept
<1>3. ASSUME NEW t \in FreshToken, NEW until, Lease(reqs[q], t, until)
      PROVE  InOrder' /\ LeaseIssued' /\ WriteIssued' /\ LeaseFences' /\ FencedHistory'
  BY <1>0, <1>1, <1>3, FenceLeased
<1> QED BY <1>2, <1>3 DEF AcquireCommit, ResumeCommit

\* every other statement leaves the tokens alone and at most ends or extends a lease
LEMMA FenceOther ==
  ASSUME FenceInv, NEW q \in Requests,
         \/ SaveNoop(q) \/ LabelCommit(q) \/ RenameCommit(q) \/ StatusCommit(q)
         \/ PurgeCommit(q) \/ RetainApply(q) \/ TouchCommit(q)
  PROVE  InOrder' /\ LeaseIssued' /\ WriteIssued' /\ LeaseFences' /\ FencedHistory'
<1>1. CASE SaveNoop(q) \/ LabelCommit(q) \/ RenameCommit(q)
  BY <1>1, FenceKept DEF SaveNoop, LabelCommit, RenameCommit, history, leases
<1>2. CASE StatusCommit(q)
  BY <1>2, FenceKept DEF StatusCommit, history, FenceInv, OwnedInv, Inv, TypeOK
<1>3. CASE PurgeCommit(q)
  <2>1. CASE UNCHANGED <<drafts, revs, labels, checkouts, views, receipts>>
    BY <1>3, <2>1, FenceKept DEF PurgeCommit
  <2>2. CASE Destroy(reqs[q].draft)
    BY <1>3, <2>2, FenceDeleted DEF PurgeCommit, Destroy, FenceInv, OwnedInv, Inv, TypeOK
  <2> QED BY <1>3, <2>1, <2>2 DEF PurgeCommit
<1>4. CASE RetainApply(q)
  BY <1>4, FenceKept, FenceDeleted DEF RetainApply, leases
<1>5. CASE TouchCommit(q)
  <2>1. \A d \in Drafts : checkouts'[d] # Missing =>
          checkouts[d] # Missing /\ checkouts'[d].token = checkouts[d].token
    <3>0. PICK d \in Drafts : d = reqs[q].draft
      BY <1>5, PlacedDraft DEF TouchCommit, CreateStages, FenceInv, OwnedInv
    <3>1. CASE UNCHANGED checkouts
      BY <3>1
    <3>2. CASE /\ checkouts[d] # Missing
               /\ checkouts' = [checkouts EXCEPT ![d].expires = reqs[q].at + CheckoutTtl]
      <4> DEFINE l == [checkouts[d] EXCEPT !.expires = reqs[q].at + CheckoutTtl]
      <4>1. checkouts' = [checkouts EXCEPT ![d] = l]
        BY <3>2
      <4>2. checkouts[d] \in Checkout
        BY <3>2 DEF FenceInv, OwnedInv, Inv, TypeOK
      <4>3. l.token = checkouts[d].token
        BY <4>2 DEF Checkout
      <4> HIDE DEF l
      <4> QED BY <3>2, <4>1, <4>3 DEF FenceInv, OwnedInv, Inv, TypeOK
    <3> QED BY <1>5, <3>0, <3>1, <3>2 DEF TouchCommit, MayResume, HoldsToken
  <2> QED BY <1>5, <2>1, FenceKept DEF TouchCommit, history
<1> QED BY <1>1, <1>2, <1>3, <1>4, <1>5

LEMMA FenceStep ==
  ASSUME FenceInv, [Next]_vars
  PROVE  FenceInv'
<1>0. OwnedInv'
  BY OwnedStep DEF FenceInv
<1>1. CASE UNCHANGED Tables
  BY <1>0, <1>1, FenceKept DEF Tables, history, leases, FenceInv
<1>2. ASSUME NEW q \in Requests, Writes(q) PROVE FenceInv'
  BY <1>0, <1>2, FenceCreate, FenceSave, FenceLease, FenceOther DEF Writes, FenceInv
<1>3. ASSUME NEW c \in Clients, NEW d \in Drafts, Release(c, d) PROVE FenceInv'
  <2>1. \A x \in Drafts : checkouts'[x] # Missing =>
          checkouts[x] # Missing /\ checkouts'[x].token = checkouts[x].token
    BY <1>3 DEF Release, FenceInv, OwnedInv, Inv, TypeOK
  <2> QED BY <1>0, <1>3, <2>1, FenceKept DEF Release, history, FenceInv
<1> QED BY <1>1, <1>2, <1>3, TableSteps

LEMMA FenceInit == Init => FenceInv
<1> SUFFICES ASSUME Init PROVE FenceInv
  OBVIOUS
<1>1. InOrder
  <2>1. 0 \in 0..MaxTokens /\ \A t \in Tokens : tokens[t] # None <=> t <= 0
    BY DraftStoreAssumption DEF Init, Tokens
  <2> QED BY <2>1 DEF InOrder
<1>2. LeaseIssued /\ LeaseFences
  BY DEF Init, LeaseIssued, LeaseFences
<1>3. WriteIssued /\ FencedHistory
  BY FirstRows DEF WriteIssued, FencedHistory, RevIds
<1> QED BY <1>1, <1>2, <1>3, OwnedInit DEF FenceInv

\* Along the history of a draft the checkout tokens of its writers never go back: a tab that
\* lost its checkout to a transfer, a takeover or a release has no way to write after the one
\* that got the next token.
THEOREM WritersAreFenced == Spec => []FencedHistory
<1>1. FenceInv /\ [Next]_vars => FenceInv'
  BY FenceStep
<1>2. FenceInv => FencedHistory
  BY DEF FenceInv
<1> QED BY FenceInit, <1>1, <1>2, PTL DEF Spec

-----------------------------------------------------------------------------
(* No theft.  A handler judges whether a lease has expired by the clock it *)
(* read when it began, and that is never ahead of the clock there is now.  *)

AtPast == \A q \in Requests : reqs[q].at <= now

ClockInv == Inv /\ AtPast

\* the clock a handler keeps is the one it had, none, or the one of this step
LEMMA SlotClock ==
  ASSUME Inv, NEW q \in Requests, Handler(q)
  PROVE  reqs'[q].at \in {0, now, reqs[q].at}
<1>1. CASE Begins(q)
  BY <1>1, Beginning
<1>3. CASE \/ CreateReplay(q) \/ CreateAbort(q) \/ CreateRace(q) \/ RestoreSource(q) \/ SaveRead(q)
           \/ SaveAuthorize(q) \/ SaveReplay(q) \/ SavePayload(q)
  <2>1. reqs[q] \in Request
    BY SlotFull
  <2> QED BY <1>3, <2>1 DEF Inv, TypeOK, CreateReplay, CreateAbort, CreateRace, RestoreSource,
     SaveRead, SaveAuthorize, SaveReplay, SavePayload, Answer, Finish, Goto, Idle, Request
<1>4. CASE \/ CreateCommit(q) \/ SaveCommit(q) \/ SaveNoop(q) \/ SaveAbort(q) \/ SaveRace(q)
           \/ SaveRaceReplay(q) \/ AnswerCommitted(q) \/ PurgeCheck(q) \/ AcquireRow(q)
  <2>1. reqs[q] \in Request
    BY SlotFull
  <2> QED BY <1>4, <2>1 DEF Inv, TypeOK, CreateCommit, SaveCommit, SaveNoop, SaveAbort, SaveRace,
     SaveRaceReplay, AnswerCommitted, PurgeCheck, AcquireRow, Answer, Finish, Goto, Idle, Request
<1>5. CASE \/ LabelCommit(q) \/ RenameCommit(q) \/ StatusCommit(q) \/ PurgeCommit(q)
           \/ RetainApply(q) \/ AcquireCommit(q) \/ ResumeCommit(q) \/ TouchCommit(q) \/ Abandon(q)
  BY <1>5 DEF Inv, TypeOK, LabelCommit, RenameCommit, StatusCommit, PurgeCommit, RetainApply,
     AcquireCommit, ResumeCommit, TouchCommit, Abandon, Finish, Idle
<1> QED BY <1>1, <1>3, <1>4, <1>5 DEF Handler, Begins

LEMMA ClockInvStep ==
  ASSUME ClockInv, [Next]_vars
  PROVE  ClockInv'
<1>1. Inv' /\ now' \in Nat /\ now <= now' /\ now \in Nat
  BY NextInv, ClockStep DEF ClockInv, Inv, TypeOK
<1>2. ASSUME NEW p \in Requests PROVE reqs'[p].at <= now'
  <2>1. reqs[p].at \in Nat /\ reqs[p].at <= now
    BY SlotFull DEF ClockInv, AtPast, Request
  <2>2. CASE reqs'[p] = reqs[p]
    BY <1>1, <2>1, <2>2
  <2>3. CASE Handler(p)
    BY <1>1, <2>1, <2>3, SlotClock DEF ClockInv
  <2> QED BY <2>2, <2>3, SlotStep DEF ClockInv
<1> QED BY <1>1, <1>2 DEF ClockInv, AtPast

NotStolen(d) ==
  checkouts[d] # Missing /\ checkouts'[d] # Missing /\ checkouts[d].expires > now =>
    Owner[checkouts'[d].client] = Owner[checkouts[d].client]

LEMMA TakenHonestly ==
  ASSUME ClockInv, NEW q \in Requests, AcquireCommit(q) \/ ResumeCommit(q), NEW d \in Drafts
  PROVE  NotStolen(d)
<1>0. PICK x \in Drafts : x = reqs[q].draft
  BY PlacedDraft DEF AcquireCommit, ResumeCommit, CreateStages, ClockInv
<1>1. CASE UNCHANGED checkouts
  BY <1>1 DEF NotStolen
<1>2. ASSUME NEW t, NEW until, Lease(reqs[q], t, until), MayTake(reqs[q]) \/ MayResume(reqs[q])
      PROVE  NotStolen(d)
  <2>1. CASE d # x
    BY <1>0, <1>2, <2>1 DEF NotStolen, Lease, ClockInv, Inv, TypeOK
  <2>2. CASE d = x
    <3> SUFFICES ASSUME checkouts[x] # Missing, checkouts[x].expires > now
                 PROVE  Owner[checkouts'[x].client] = Owner[checkouts[x].client]
      BY <2>2 DEF NotStolen
    <3>1. checkouts'[x].client = reqs[q].client
      BY <1>0, <1>2 DEF Lease, ClockInv, Inv, TypeOK
    <3>2. checkouts[x].expires \in Nat /\ reqs[q].at \in Nat /\ reqs[q].at <= now /\ now \in Nat
      <4>1. checkouts[x] \in Checkout
        BY DEF ClockInv, Inv, TypeOK
      <4> QED BY <4>1, SlotFull DEF Checkout, Request, ClockInv, AtPast, Inv, TypeOK
    <3>3. Owner[checkouts[x].client] = Owner[reqs[q].client]
      BY <1>0, <1>2, <3>2 DEF MayTake, MayResume, HoldsToken
    <3> QED BY <3>1, <3>3
  <2> QED BY <2>1, <2>2
<1> QED BY <1>1, <1>2 DEF AcquireCommit, ResumeCommit

LEMMA TheftStep ==
  ASSUME ClockInv, [Next]_vars, NEW d \in Drafts
  PROVE  NotStolen(d)
<1>1. CASE \A x \in Drafts : checkouts'[x] # Missing => checkouts'[x] = checkouts[x]
  BY <1>1 DEF NotStolen
<1>2. ASSUME NEW q \in Requests, Writes(q) PROVE NotStolen(d)
  <2>1. CASE AcquireCommit(q) \/ ResumeCommit(q)
    BY <2>1, TakenHonestly
  <2>2. CASE TouchCommit(q)
    <3>0. PICK x \in Drafts : x = reqs[q].draft
      BY <2>2, PlacedDraft DEF TouchCommit, CreateStages, ClockInv
    <3>1. CASE UNCHANGED checkouts
      BY <3>1 DEF NotStolen
    <3>2. CASE /\ checkouts[x] # Missing
               /\ checkouts' = [checkouts EXCEPT ![x].expires = reqs[q].at + CheckoutTtl]
      <4> DEFINE l == [checkouts[x] EXCEPT !.expires = reqs[q].at + CheckoutTtl]
      <4>1. checkouts' = [checkouts EXCEPT ![x] = l]
        BY <3>2
      <4>2. checkouts[x] \in Checkout
        BY <3>2 DEF ClockInv, Inv, TypeOK
      <4>3. l.client = checkouts[x].client
        BY <4>2 DEF Checkout
      <4> HIDE DEF l
      <4> QED BY <3>2, <4>1, <4>3 DEF NotStolen, ClockInv, Inv, TypeOK
    <3> QED BY <2>2, <3>0, <3>1, <3>2 DEF TouchCommit, MayResume, HoldsToken
  <2>3. CASE \/ CreateCommit(q) \/ SaveCommit(q) \/ SaveNoop(q) \/ LabelCommit(q)
             \/ RenameCommit(q) \/ RetainApply(q)
    BY <1>1, <2>3 DEF CreateCommit, SaveCommit, SaveNoop, LabelCommit, RenameCommit, RetainApply,
       leases
  <2>4. CASE StatusCommit(q) \/ PurgeCommit(q)
    BY <1>1, <2>4 DEF StatusCommit, PurgeCommit, Destroy, ClockInv, Inv, TypeOK
  <2> QED BY <1>2, <2>1, <2>2, <2>3, <2>4 DEF Writes
<1>3. CASE UNCHANGED Tables \/ \E c \in Clients, x \in Drafts : Release(c, x)
  BY <1>1, <1>3 DEF Tables, leases, Release, ClockInv, Inv, TypeOK
<1> QED BY <1>2, <1>3, TableSteps

\* While a checkout is live its row never passes to another person, however many handlers that
\* looked at the row earlier are still on their way.
THEOREM NobodyIsRobbed == Spec => NoTheft
<1>1. Init => ClockInv
  BY InitInv DEF Init, ClockInv, AtPast, Idle
<1>2. ClockInv /\ [Next]_vars => ClockInv'
  BY ClockInvStep
<1>3. ClockInv /\ [Next]_vars =>
        [\A d \in Drafts :
           checkouts[d] # Missing /\ checkouts'[d] # Missing /\ checkouts[d].expires > now =>
             Owner[checkouts'[d].client] = Owner[checkouts[d].client]]_vars
  BY TheftStep DEF NotStolen
<1> QED BY <1>1, <1>2, <1>3, PTL DEF Spec, NoTheft

-----------------------------------------------------------------------------
(* Answers.  The revision a request wrote stays the one its receipt names, *)
(* and its draft never shows an older one; so neither the answer after the *)
(* commit nor a replay years later can be older than the write.            *)

LedgerPast ==
  \A x \in ledger : /\ drafts[x.draft].status # "unused"
                    /\ Exists(x.draft) => x.rev <= Latest(x.draft)
LedgerUsed == \A x \in ledger : x.rev < nextRev
EntryReceipt == \A x \in ledger : receipts[x.ident] # Gone => receipts[x.ident].rev = x.rev
AckReceipt == \A i \in Idents : acks[i] # 0 => receipts[i] # Missing
Answering ==
  \A q \in Requests : reqs[q].stage = "answer" =>
    \E x \in ledger : x.ident = Ident(reqs[q]) /\ x.draft = reqs[q].draft

ShownInv ==
  OnceInv /\ LedgerPast /\ LedgerUsed /\ EntryReceipt /\ AckReceipt /\ Answering /\ AnswerCoversWrite

LEMMA EntryType ==
  ASSUME Inv, NEW x \in ledger
  PROVE  x.ident \in Idents /\ x.rev \in RevIds /\ x.draft \in Drafts
  BY DEF Inv, TypeOK, Entry

\* only a commit leaves its handler with an answer to give
LEMMA AnswerStage ==
  ASSUME Inv, NEW q \in Requests, Handler(q), reqs'[q].stage = "answer"
  PROVE  CreateCommit(q) \/ SaveCommit(q)
<1>1. CASE Begins(q)
  BY <1>1, Beginning DEF FirstStages
<1>2. CASE \/ CreateReplay(q) \/ CreateAbort(q) \/ CreateRace(q) \/ RestoreSource(q) \/ SaveRead(q)
           \/ SaveAuthorize(q) \/ SaveReplay(q) \/ SavePayload(q)
  <2>1. reqs[q] \in Request
    BY SlotFull
  <2> QED BY <1>2, <2>1 DEF Inv, TypeOK, CreateReplay, CreateAbort, CreateRace, RestoreSource,
     SaveRead, SaveAuthorize, SaveReplay, SavePayload, Answer, Finish, Goto, Idle, Request
<1>3. CASE \/ SaveNoop(q) \/ SaveAbort(q) \/ SaveRace(q)
           \/ SaveRaceReplay(q) \/ AnswerCommitted(q) \/ PurgeCheck(q) \/ AcquireRow(q)
  <2>1. reqs[q] \in Request
    BY SlotFull
  <2> QED BY <1>3, <2>1 DEF Inv, TypeOK, SaveNoop, SaveAbort, SaveRace, SaveRaceReplay,
     AnswerCommitted, PurgeCheck, AcquireRow, Answer, Finish, Goto, Idle, Request
<1>4. CASE \/ LabelCommit(q) \/ RenameCommit(q) \/ StatusCommit(q) \/ PurgeCommit(q)
           \/ RetainApply(q) \/ AcquireCommit(q) \/ ResumeCommit(q) \/ TouchCommit(q) \/ Abandon(q)
  BY <1>4 DEF Inv, TypeOK, LabelCommit, RenameCommit, StatusCommit, PurgeCommit, RetainApply,
     AcquireCommit, ResumeCommit, TouchCommit, Abandon, Finish, Idle
<1> QED BY <1>1, <1>2, <1>3, <1>4 DEF Handler, Begins

LEMMA AnsweringStep ==
  ASSUME ShownInv, ledger \subseteq ledger', NEW q \in Requests, Handler(q),
         CreateCommit(q) \/ SaveCommit(q) =>
           \E x \in ledger' : x.ident = Ident(reqs'[q]) /\ x.draft = reqs'[q].draft
  PROVE  Answering'
<1> SUFFICES ASSUME NEW p \in Requests, reqs'[p].stage = "answer"
             PROVE  \E x \in ledger' : x.ident = Ident(reqs'[p]) /\ x.draft = reqs'[p].draft
  BY DEF Answering, Ident
<1>1. CASE p # q
  <2>1. reqs'[p] = reqs[p]
    BY <1>1, OtherSlots DEF ShownInv, OnceInv
  <2> QED BY <2>1 DEF ShownInv, Answering
<1>2. CASE p = q
  BY <1>2, AnswerStage DEF ShownInv, OnceInv
<1> QED BY <1>1, <1>2

\* a revision and its receipt are written together
LEMMA ShownWritten ==
  ASSUME ShownInv, OnceInv', NEW q \in Requests, Handler(q), NEW i \in Idents,
         NEW d \in Drafts, NEW rc,
         i = Ident(reqs[q]), receipts[i] = Missing, rc.rev = nextRev, rc # Missing,
         nextRev \in RevIds, nextRev' = nextRev + 1, UNCHANGED acks,
         receipts' = [receipts EXCEPT ![i] = rc],
         ledger' = ledger \cup {[ident |-> i, rev |-> nextRev, draft |-> d]},
         drafts'[d].status # "unused", drafts'[d].latest = nextRev,
         \A x \in Drafts : x # d => drafts'[x] = drafts[x],
         Ident(reqs'[q]) = i, reqs'[q].draft = d
  PROVE  ShownInv'
<1>0. Inv
  BY DEF ShownInv, OnceInv
<1>1. \A x \in ledger : x.ident # i
  BY DEF ShownInv, OnceInv, Receipted
<1>2. \A x \in ledger' : x \in ledger \/ (x.ident = i /\ x.rev = nextRev /\ x.draft = d)
  OBVIOUS
<1>3. LedgerUsed'
  BY <1>0, <1>2, EntryType DEF ShownInv, LedgerUsed, RevIds
<1>4. LedgerPast'
  <2> SUFFICES ASSUME NEW x \in ledger'
               PROVE  /\ drafts'[x.draft].status # "unused"
                      /\ Exists(x.draft)' => x.rev <= drafts'[x.draft].latest
    BY DEF LedgerPast, Latest
  <2>1. CASE x \in ledger /\ x.draft # d
    BY <1>0, <2>1, EntryType DEF ShownInv, LedgerPast, Latest, Exists
  <2>2. CASE x \in ledger /\ x.draft = d
    BY <1>0, <2>2, EntryType DEF ShownInv, LedgerUsed, RevIds
  <2>3. CASE x.rev = nextRev /\ x.draft = d
    BY <2>3 DEF RevIds
  <2> QED BY <1>2, <2>1, <2>2, <2>3
<1>5. EntryReceipt'
  <2> SUFFICES ASSUME NEW x \in ledger', receipts'[x.ident] # Gone
               PROVE  receipts'[x.ident].rev = x.rev
    BY DEF EntryReceipt
  <2>1. CASE x \in ledger
    BY <1>0, <1>1, <2>1, EntryType DEF ShownInv, EntryReceipt, Inv, TypeOK
  <2>2. CASE x.ident = i /\ x.rev = nextRev
    BY <1>0, <2>2 DEF Inv, TypeOK
  <2> QED BY <1>2, <2>1, <2>2
<1>6. AckReceipt'
  BY <1>0 DEF ShownInv, AckReceipt, Inv, TypeOK
<1>7. Answering'
  <2> DEFINE x == [ident |-> i, rev |-> nextRev, draft |-> d]
  <2>1. x \in ledger' /\ x.ident = i /\ x.draft = d /\ ledger \subseteq ledger'
    OBVIOUS
  <2> HIDE DEF x
  <2> QED BY <2>1, AnsweringStep
<1>8. AnswerCoversWrite'
  <2> SUFFICES ASSUME NEW x \in ledger', acks'[x.ident] # 0 PROVE acks'[x.ident] >= x.rev
    BY DEF AnswerCoversWrite
  <2>1. CASE x \in ledger
    BY <2>1 DEF ShownInv, AnswerCoversWrite
  <2>2. CASE x.ident = i
    BY <2>2 DEF ShownInv, AckReceipt
  <2> QED BY <1>2, <2>1, <2>2
<1> QED BY <1>3, <1>4, <1>5, <1>6, <1>7, <1>8 DEF ShownInv

LEMMA CreateCommitShown ==
  ASSUME ShownInv, OnceInv', NEW q \in Requests, CreateCommit(q)
  PROVE  ShownInv'
<1>1. PICK d \in Drafts, doc \in Docs :
        /\ InsertDraft(reqs[q], d, doc)
        /\ reqs' = [reqs EXCEPT ![q].stage = "answer", ![q].draft = d]
  BY DEF CreateCommit
<1> DEFINE i == Ident(reqs[q])
           rc == ReceiptFor(reqs[q], nextRev, d)
<1>2. Inv /\ reqs[q] \in Request /\ i \in Idents
  BY SlotFull, IdentType DEF Full, CreateCommit, CreateStages, ShownInv, OnceInv
<1>3. rc.rev = nextRev /\ rc # Missing
  BY ReceiptExists DEF ReceiptFor
<1>4. nextRev \in RevIds
  BY <1>1, <1>2 DEF InsertDraft, Inv, TypeOK, RevIds
<1>5. /\ receipts[i] = Missing /\ UNCHANGED acks
      /\ receipts' = [receipts EXCEPT ![i] = rc]
      /\ ledger' = ledger \cup {[ident |-> i, rev |-> nextRev, draft |-> d]}
      /\ nextRev' = nextRev + 1
  BY <1>1 DEF InsertDraft, CreateCommit
<1>6. /\ drafts'[d].status # "unused" /\ drafts'[d].latest = nextRev
      /\ \A x \in Drafts : x # d => drafts'[x] = drafts[x]
  BY <1>1, <1>2 DEF InsertDraft, Inv, TypeOK
<1>7. Ident(reqs'[q]) = i /\ reqs'[q].draft = d
  BY <1>1, <1>2 DEF Ident, Inv, TypeOK, Request
<1>8. Handler(q)
  BY DEF Handler
<1> HIDE DEF i, rc
<1> QED BY <1>2, <1>3, <1>4, <1>5, <1>6, <1>7, <1>8, ShownWritten DEF i


LEMMA SaveCommitShown ==
  ASSUME ShownInv, OnceInv', NEW q \in Requests, SaveCommit(q)
  PROVE  ShownInv'
<1>0. PICK d \in Drafts : d = reqs[q].draft
  BY PlacedDraft DEF SaveCommit, CreateStages, ShownInv, OnceInv
<1> DEFINE i == Ident(reqs[q])
           rc == ReceiptFor(reqs[q], nextRev, d)
<1>1. InsertRevision(reqs[q]) /\ receipts[i] = Missing /\ UNCHANGED acks
  BY DEF SaveCommit
<1>2. Inv /\ reqs[q] \in Request /\ i \in Idents
  BY SlotFull, IdentType DEF Full, SaveCommit, SaveStages, ShownInv, OnceInv
<1>3. rc.rev = nextRev /\ rc # Missing
  BY ReceiptExists DEF ReceiptFor
<1>4. nextRev \in RevIds
  BY <1>1, <1>2 DEF InsertRevision, Inv, TypeOK, RevIds
<1>5. /\ receipts' = [receipts EXCEPT ![i] = rc]
      /\ ledger' = ledger \cup {[ident |-> i, rev |-> nextRev, draft |-> d]}
      /\ nextRev' = nextRev + 1
  BY <1>0, <1>1 DEF InsertRevision
<1>6. /\ drafts'[d].status # "unused" /\ drafts'[d].latest = nextRev
      /\ \A x \in Drafts : x # d => drafts'[x] = drafts[x]
  <2>1. drafts[d] \in Draft /\ drafts[d].status # "unused"
    BY <1>0, <1>2, GuardedDraft DEF SaveCommit, Exists, Inv, TypeOK
  <2> QED BY <1>0, <1>1, <1>2, <2>1 DEF InsertRevision, Inv, TypeOK, Draft
<1>7. Ident(reqs'[q]) = i /\ reqs'[q].draft = d
  BY <1>0, <1>2 DEF SaveCommit, Goto, Ident, Inv, TypeOK, Request
<1>8. Handler(q)
  BY DEF Handler
<1> HIDE DEF i, rc
<1> QED BY <1>1, <1>2, <1>3, <1>4, <1>5, <1>6, <1>7, <1>8, ShownWritten DEF i

\* a successful answer shows a revision no older than any this request has written
LEMMA ShownAnswered ==
  ASSUME ShownInv, OnceInv', NEW q \in Requests, Handler(q), ~CreateCommit(q), ~SaveCommit(q),
         NEW i \in Idents, NEW r \in RevIds,
         acks' = [acks EXCEPT ![i] = IF @ = 0 \/ r < @ THEN r ELSE @],
         UNCHANGED <<drafts, ledger, nextRev>>, receipts'[i] # Missing,
         \A j \in Idents : j # i => receipts'[j] = receipts[j],
         \A x \in ledger : x.ident = i => x.rev <= r /\ receipts'[i] = receipts[i]
  PROVE  ShownInv'
<1>0. Inv
  BY DEF ShownInv, OnceInv
<1>1. LedgerPast' /\ LedgerUsed'
  BY DEF ShownInv, LedgerPast, LedgerUsed, Exists, Latest
<1>2. EntryReceipt'
  BY <1>0, EntryType DEF ShownInv, EntryReceipt
<1>3. AckReceipt'
  BY <1>0 DEF ShownInv, AckReceipt, Inv, TypeOK
<1>4. Answering'
  BY AnsweringStep
<1>5. AnswerCoversWrite'
  <2> SUFFICES ASSUME NEW x \in ledger, acks'[x.ident] # 0 PROVE acks'[x.ident] >= x.rev
    BY DEF AnswerCoversWrite
  <2>0. acks \in [Idents -> 0..MaxRevs] /\ x.ident \in Idents /\ x.rev \in RevIds
    BY <1>0, EntryType DEF Inv, TypeOK
  <2>1. CASE x.ident # i
    BY <2>0, <2>1 DEF ShownInv, AnswerCoversWrite
  <2>2. CASE x.ident = i
    <3>1. acks'[i] = r \/ (acks'[i] = acks[i] /\ acks[i] # 0)
      BY <2>0
    <3>2. CASE acks'[i] = r
      BY <2>0, <2>2, <3>2 DEF RevIds
    <3>3. CASE acks'[i] = acks[i] /\ acks[i] # 0
      BY <2>2, <3>3 DEF ShownInv, AnswerCoversWrite
    <3> QED BY <3>1, <3>2, <3>3
  <2> QED BY <2>1, <2>2
<1> QED BY <1>1, <1>2, <1>3, <1>4, <1>5 DEF ShownInv

\* a replay shows the revision the receipt names
LEMMA ReplayShown ==
  ASSUME ShownInv, OnceInv', NEW q \in Requests, Handler(q), ~CreateCommit(q), ~SaveCommit(q),
         Ident(reqs[q]) \in Idents,
         Replays(reqs[q]), Answer(q, receipts[Ident(reqs[q])].rev), UNCHANGED Tables
  PROVE  ShownInv'
<1> DEFINE i == Ident(reqs[q])
           r == receipts[i].rev
<1>1. i \in Idents /\ r \in RevIds
  BY ReplayType DEF ShownInv, OnceInv, Inv
<1>2. receipts[i] # Missing /\ receipts[i] # Gone
  BY DEF Replays
<1>3. \A x \in ledger : x.ident = i => x.rev <= r
  BY <1>1, <1>2 DEF ShownInv, EntryReceipt, RevIds
<1>4. acks' = [acks EXCEPT ![i] = IF @ = 0 \/ r < @ THEN r ELSE @]
  BY DEF Answer
<1>5. UNCHANGED <<drafts, ledger, nextRev, receipts>>
  BY DEF Tables, history
<1> HIDE DEF i, r
<1> QED BY <1>1, <1>2, <1>3, <1>4, <1>5, ShownAnswered

LEMMA SaveNoopShown ==
  ASSUME ShownInv, OnceInv', NEW q \in Requests, SaveNoop(q)
  PROVE  ShownInv'
<1> DEFINE i == Ident(reqs[q])
           r == reqs[q].cur
           rc == ReceiptFor(reqs[q], reqs[q].cur, reqs[q].draft)
<1>1. i \in Idents /\ r \in RevIds
  <2>1. reqs[q].client \in Clients /\ reqs[q].key \in Keys /\ reqs[q].draft \in Drafts
    BY SlotFull DEF Full, SaveNoop, SaveStages, CreateStages, ShownInv, OnceInv
  <2> QED BY <2>1, IdentType, GuardedDraft, LatestType DEF SaveNoop, ShownInv, OnceInv
<1>2. receipts[i] = Missing /\ receipts' = [receipts EXCEPT ![i] = rc] /\ rc # Missing
  BY ReceiptExists DEF SaveNoop
<1>3. \A x \in ledger : x.ident # i
  BY <1>2 DEF ShownInv, OnceInv, Receipted
<1>4. acks' = [acks EXCEPT ![i] = IF @ = 0 \/ r < @ THEN r ELSE @]
  BY DEF SaveNoop, Answer
<1>5. UNCHANGED <<drafts, ledger, nextRev>>
  BY DEF SaveNoop, history
<1>6. Handler(q) /\ ~CreateCommit(q) /\ ~SaveCommit(q)
  BY DEF Handler, SaveNoop, CreateCommit, SaveCommit
<1> HIDE DEF i, r, rc
<1>7. receipts'[i] # Missing /\ \A j \in Idents : j # i => receipts'[j] = receipts[j]
  BY <1>1, <1>2 DEF ShownInv, OnceInv, Inv, TypeOK
<1> QED BY <1>1, <1>3, <1>4, <1>5, <1>6, <1>7, ShownAnswered

\* the answer after a commit is the latest revision there is by then
LEMMA CommittedShown ==
  ASSUME ShownInv, OnceInv', NEW q \in Requests, AnswerCommitted(q),
         Exists(reqs[q].draft), Answer(q, Latest(reqs[q].draft))
  PROVE  ShownInv'
<1> DEFINE i == Ident(reqs[q])
           r == Latest(reqs[q].draft)
<1>1. PICK x \in ledger : x.ident = i /\ x.draft = reqs[q].draft
  BY DEF ShownInv, Answering, AnswerCommitted
<1>2. i \in Idents /\ r \in RevIds /\ x.rev <= r
  BY <1>1, EntryType, LatestType DEF ShownInv, OnceInv, LedgerPast
<1>3. \A y \in ledger : y.ident = i => y = x
  BY <1>1 DEF ShownInv, OnceInv, AtMostOncePerKey
<1>4. acks' = [acks EXCEPT ![i] = IF @ = 0 \/ r < @ THEN r ELSE @]
  BY DEF Answer
<1>5. UNCHANGED <<drafts, ledger, nextRev, receipts>>
  BY DEF AnswerCommitted, Tables, history
<1>6. receipts[i] # Missing
  BY <1>1 DEF ShownInv, OnceInv, Receipted
<1>7. Handler(q) /\ ~CreateCommit(q) /\ ~SaveCommit(q)
  BY DEF Handler, AnswerCommitted, CreateCommit, SaveCommit
<1> HIDE DEF i, r
<1> QED BY <1>2, <1>3, <1>4, <1>5, <1>6, <1>7, ShownAnswered


\* drafts that end, and receipts that are blanked
LEMMA ShownKept ==
  ASSUME ShownInv, OnceInv', Answering', UNCHANGED <<ledger, nextRev, acks>>,
         \A d \in Drafts : /\ drafts[d].status # "unused" => drafts'[d].status # "unused"
                           /\ Exists(d)' => Exists(d) /\ drafts'[d].latest = drafts[d].latest,
         \A i \in Idents : receipts'[i] \in {receipts[i], Gone}
  PROVE  ShownInv'
<1>0. Inv
  BY DEF ShownInv, OnceInv
<1>1. LedgerPast' /\ LedgerUsed'
  BY <1>0, EntryType DEF ShownInv, LedgerPast, LedgerUsed, Latest
<1>2. EntryReceipt'
  BY <1>0, EntryType DEF ShownInv, EntryReceipt
<1>3. AckReceipt'
  BY DEF ShownInv, AckReceipt, Missing, Gone
<1>4. AnswerCoversWrite'
  BY DEF ShownInv, AnswerCoversWrite
<1> QED BY <1>1, <1>2, <1>3, <1>4 DEF ShownInv

LEMMA TablesShown ==
  ASSUME ShownInv, OnceInv', Answering', UNCHANGED <<drafts, receipts, ledger, nextRev, acks>>
  PROVE  ShownInv'
  BY ShownKept DEF Exists

LEMMA WriterShown ==
  ASSUME ShownInv, OnceInv', NEW q \in Requests,
         \/ LabelCommit(q) \/ RenameCommit(q) \/ StatusCommit(q) \/ PurgeCommit(q)
         \/ RetainApply(q) \/ AcquireCommit(q) \/ ResumeCommit(q) \/ TouchCommit(q)
  PROVE  ShownInv'
<1>0. Inv /\ reqs[q] \in Request
  BY SlotFull DEF ShownInv, OnceInv
<1>1. Handler(q) /\ ~CreateCommit(q) /\ ~SaveCommit(q) /\ UNCHANGED <<ledger, nextRev, acks>>
  BY DEF Handler, CreateCommit, SaveCommit, LabelCommit, RenameCommit, StatusCommit, PurgeCommit,
     RetainApply, AcquireCommit, ResumeCommit, TouchCommit, history
<1>2. Answering'
  BY <1>1, AnsweringStep
<1>3. CASE \/ LabelCommit(q) \/ RetainApply(q) \/ AcquireCommit(q) \/ ResumeCommit(q)
           \/ TouchCommit(q)
  BY <1>1, <1>2, <1>3, TablesShown
     DEF LabelCommit, RetainApply, AcquireCommit, ResumeCommit, TouchCommit
<1>4. CASE RenameCommit(q) \/ StatusCommit(q)
  <2>0. PICK x \in Drafts : x = reqs[q].draft
    BY <1>0, <1>4, PlacedDraft DEF RenameCommit, StatusCommit, CreateStages
  <2>1. UNCHANGED receipts
    BY <1>4 DEF RenameCommit, StatusCommit
  <2>2. \/ UNCHANGED drafts
        \/ /\ Exists(x)
           /\ \/ drafts' = [drafts EXCEPT ![x].name = reqs[q].name]
              \/ drafts' = [drafts EXCEPT ![x].status = reqs[q].aim]
    BY <1>0, <1>4, <2>0, GuardedDraft DEF RenameCommit, StatusCommit
  <2>3. reqs[q].aim \in {"active", "archived"} /\ drafts[x] \in Draft
    BY <1>0 DEF Request, Inv, TypeOK
  <2>4. \A d \in Drafts : /\ drafts[d].status # "unused" => drafts'[d].status # "unused"
                          /\ Exists(d)' => Exists(d) /\ drafts'[d].latest = drafts[d].latest
    BY <1>0, <2>2, <2>3 DEF Exists, Draft, Inv, TypeOK
  <2> QED BY <1>1, <1>2, <2>1, <2>4, ShownKept
<1>5. CASE PurgeCommit(q)
  <2>1. CASE UNCHANGED <<drafts, receipts>>
    BY <1>1, <1>2, <2>1, TablesShown
  <2>2. CASE Destroy(reqs[q].draft)
    <3>0. PICK x \in Drafts : x = reqs[q].draft
      BY <1>0, <1>5, PlacedDraft DEF PurgeCommit, CreateStages
    <3> DEFINE blank == [status |-> "purged", latest |-> 0, name |-> None]
    <3>1. blank.status = "purged"
      OBVIOUS
    <3>2. drafts' = [drafts EXCEPT ![x] = blank]
      BY <2>2, <3>0 DEF Destroy
    <3> HIDE DEF blank
    <3>3. \A d \in Drafts : /\ drafts[d].status # "unused" => drafts'[d].status # "unused"
                            /\ Exists(d)' => Exists(d) /\ drafts'[d].latest = drafts[d].latest
      BY <1>0, <3>1, <3>2 DEF Exists, Inv, TypeOK
    <3>4. \A i \in Idents : receipts'[i] \in {receipts[i], Gone}
      BY <2>2 DEF Destroy
    <3> QED BY <1>1, <1>2, <3>3, <3>4, ShownKept
  <2> QED BY <1>5, <2>1, <2>2 DEF PurgeCommit
<1> QED BY <1>3, <1>4, <1>5

\* the handlers that only read: an answer is the only trace they leave
LEMMA ReaderShown ==
  ASSUME ShownInv, OnceInv', NEW q \in Requests, Handler(q), ~Writes(q)
  PROVE  ShownInv'
<1>1. UNCHANGED Tables /\ ~CreateCommit(q) /\ ~SaveCommit(q)
  BY Readers DEF Writes
<1>2. CASE UNCHANGED acks
  <2>1. UNCHANGED <<drafts, receipts, ledger, nextRev>>
    BY <1>1 DEF Tables, history
  <2> QED BY <1>1, <1>2, <2>1, AnsweringStep, TablesShown
<1>3. CASE Replays(reqs[q]) /\ Answer(q, receipts[Ident(reqs[q])].rev)
           /\ reqs[q].stage \in {"createReplay", "createRace", "saveReplay", "saveRaceReplay"}
  <2>1. Ident(reqs[q]) \in Idents
    BY <1>3, SlotFull, IdentType DEF Full, CreateStages, SaveStages, ShownInv, OnceInv
  <2> QED BY <1>1, <1>3, <2>1, ReplayShown
<1>4. CASE AnswerCommitted(q)
  BY <1>2, <1>4, CommittedShown DEF AnswerCommitted
<1> QED BY <1>2, <1>3, <1>4 DEF Handler, Writes, Start, CreateBegin, CreateReplay, CreateAbort,
     CreateRace, SaveBegin, RestoreBegin, RestoreSource, SaveRead, SaveAuthorize, SaveReplay,
     SavePayload, SaveAbort, SaveRace, SaveRaceReplay, MetaBegin, LabelBegin,
     RenameBegin, StatusBegin, PurgeBegin, PurgeCheck,
     RetainBegin, AcquireBegin, ResumeBegin, AcquireRow, TouchBegin, Abandon

LEMMA ShownStep ==
  ASSUME ShownInv, [Next]_vars
  PROVE  ShownInv'
<1>0. OnceInv'
  BY OnceStep DEF ShownInv
<1>1. ASSUME NEW q \in Requests, Handler(q) PROVE ShownInv'
  BY <1>0, <1>1, ReaderShown, WriterShown, CreateCommitShown, SaveCommitShown, SaveNoopShown
     DEF Writes
<1>2. CASE ~\E q \in Requests : Handler(q)
  <2>1. UNCHANGED <<drafts, receipts, ledger, nextRev, acks, reqs>>
    BY <1>2 DEF Next, Release, Tick, RoleChange, Publish, Retire, Tables, history, vars
  <2>2. Answering'
    BY <2>1 DEF ShownInv, Answering, Ident
  <2> QED BY <1>0, <2>1, <2>2, TablesShown
<1> QED BY <1>1, <1>2

\* Whoever is told that a save, a restore or a create succeeded is shown the revision that
\* request wrote or a newer one of the same draft, in every retry, race and replay.
THEOREM AnswersCoverWrites == Spec => []AnswerCoversWrite
<1>1. Init => ShownInv
  <2> SUFFICES ASSUME Init PROVE ShownInv
    OBVIOUS
  <2>1. OnceInv
    BY InitInv DEF Init, OnceInv, Receipted, AtMostOncePerKey
  <2> QED BY <2>1 DEF Init, ShownInv, LedgerPast, LedgerUsed, EntryReceipt, AckReceipt,
       Answering, AnswerCoversWrite, Idle
<1>2. ShownInv /\ [Next]_vars => ShownInv'
  BY ShownStep
<1>3. ShownInv => AnswerCoversWrite
  BY DEF ShownInv
<1> QED BY <1>1, <1>2, <1>3, PTL DEF Spec

-----------------------------------------------------------------------------
(* The repository implements DraftRegister.  What a step shows a reader of a *)
(* draft depends on two things that are not in the tables: what a handler    *)
(* counted when it read the draft, and which status its guard will ask for.  *)
(* RegInv adds both to the fences; with it the four statements that change   *)
(* what is seen are steps of the register, and all others stutter.           *)

Counting == {"saveAuthorize", "saveReplay", "savePayload", "saveCommit"}

Counted(rec) ==
  /\ rec.cur \in RevIds /\ rec.cur < nextRev
  /\ revs[rec.cur] # Missing => rec.seq = revs[rec.cur].seq + 1

SlotsCount == \A q \in Requests : reqs[q].stage \in Counting => Counted(reqs[q])
SlotsFit == \A q \in Requests : StatusFits(reqs[q])

RegInv == FenceInv /\ SlotsCount /\ SlotsFit

-----------------------------------------------------------------------------
(* What a slot has counted stays true: a stored revision never changes its *)
(* number or its document, and new ones are written above it.              *)

RevsHold ==
  \A r \in RevIds : r < nextRev /\ revs'[r] # Missing =>
    /\ revs[r] # Missing
    /\ revs'[r].seq = revs[r].seq /\ revs'[r].doc = revs[r].doc
    /\ revs'[r].token = revs[r].token /\ revs'[r].draft = revs[r].draft

LEMMA WithoutHolds ==
  ASSUME Inv, NEW S, revs' = Without(S)
  PROVE  RevsHold
  BY WithoutType, WithoutFields DEF RevsHold, Inv

LEMMA RevsHoldStep ==
  ASSUME Inv, [Next]_vars
  PROVE  RevsHold /\ nextRev \in Nat /\ nextRev' \in Nat /\ nextRev <= nextRev'
<1>0. nextRev \in Nat /\ TypeOK
  BY DEF Inv, TypeOK
<1>1. CASE UNCHANGED <<revs, nextRev>>
  BY <1>0, <1>1 DEF RevsHold
<1>2. ASSUME NEW q \in Requests, Writes(q) PROVE RevsHold /\ nextRev' \in Nat /\ nextRev <= nextRev'
  <2>1. CASE \/ SaveNoop(q) \/ LabelCommit(q) \/ RenameCommit(q) \/ StatusCommit(q)
             \/ AcquireCommit(q) \/ ResumeCommit(q) \/ TouchCommit(q)
    BY <1>1, <2>1, <1>0 DEF SaveNoop, LabelCommit, RenameCommit, StatusCommit, AcquireCommit,
       ResumeCommit, TouchCommit, history
  <2>2. CASE CreateCommit(q) \/ SaveCommit(q)
    <3>1. nextRev' = nextRev + 1 /\ \E e : revs' = [revs EXCEPT ![nextRev] = e]
      BY <2>2 DEF CreateCommit, SaveCommit, InsertDraft, InsertRevision
    <3>2. \A r \in RevIds : r < nextRev => revs'[r] = revs[r]
      BY <1>0, <3>1 DEF TypeOK, RevIds
    <3> QED BY <1>0, <3>1, <3>2 DEF RevsHold
  <2>3. CASE PurgeCommit(q) \/ RetainApply(q)
    <3>1. UNCHANGED nextRev /\ (UNCHANGED revs \/ \E S : revs' = Without(S))
      BY <2>3 DEF PurgeCommit, RetainApply, Destroy
    <3> QED BY <1>0, <1>1, <3>1, WithoutHolds
  <2> QED BY <1>2, <2>1, <2>2, <2>3 DEF Writes
<1>3. CASE UNCHANGED Tables \/ \E c \in Clients, d \in Drafts : Release(c, d)
  BY <1>0, <1>1, <1>3 DEF Tables, history, Release
<1> QED BY <1>0, <1>2, <1>3, TableSteps

\* a slot counts when it has read its draft, and carries that until the commit
LEMMA CountingSlot ==
  ASSUME Inv, NEW q \in Requests, Handler(q), reqs'[q].stage \in Counting
  PROVE  \/ /\ drafts[reqs[q].draft].status = "active"
            /\ reqs'[q].cur = Latest(reqs[q].draft)
            /\ reqs'[q].seq = revs[Latest(reqs[q].draft)].seq + 1
            /\ reqs[q].stage = "saveRead" /\ UNCHANGED Tables
         \/ reqs[q].stage \in Counting /\ reqs'[q].cur = reqs[q].cur /\ reqs'[q].seq = reqs[q].seq
<1>0. reqs[q] \in Request
  BY SlotFull
<1>1. CASE Begins(q)
  BY <1>1, Beginning DEF FirstStages, Counting
<1>2. CASE SaveRead(q)
  BY <1>0, <1>2 DEF SaveRead, Finish, Idle, Counting, Inv, TypeOK, Request
<1>3. CASE SaveAuthorize(q) \/ SaveReplay(q)
  BY <1>0, <1>3 DEF SaveAuthorize, SaveReplay, Goto, Answer, Finish, Idle, Counting, Inv, TypeOK,
     Request
<1>4. CASE SavePayload(q)
  BY <1>0, <1>4 DEF SavePayload, Counting, Inv, TypeOK, Request
<1>5. CASE \/ CreateReplay(q) \/ CreateAbort(q) \/ CreateRace(q) \/ RestoreSource(q)
           \/ CreateCommit(q) \/ SaveCommit(q)
  BY <1>0, <1>5 DEF CreateReplay, CreateAbort, CreateRace, RestoreSource, CreateCommit, SaveCommit,
     Goto, Answer, Finish, Idle, Counting, Inv, TypeOK, Request
<1>6. CASE \/ SaveNoop(q) \/ SaveAbort(q) \/ SaveRace(q)
           \/ SaveRaceReplay(q) \/ AnswerCommitted(q) \/ PurgeCheck(q) \/ AcquireRow(q)
  BY <1>0, <1>6 DEF SaveNoop, SaveAbort, SaveRace, SaveRaceReplay, AnswerCommitted, PurgeCheck,
     AcquireRow, Goto, Answer, Finish, Idle, Counting, Inv, TypeOK, Request
<1>7. CASE \/ LabelCommit(q) \/ RenameCommit(q) \/ StatusCommit(q) \/ PurgeCommit(q)
           \/ RetainApply(q) \/ AcquireCommit(q) \/ ResumeCommit(q) \/ TouchCommit(q) \/ Abandon(q)
  BY <1>7 DEF LabelCommit, RenameCommit, StatusCommit, PurgeCommit, RetainApply,
     AcquireCommit, ResumeCommit, TouchCommit, Abandon, Finish, Idle, Counting, Inv, TypeOK
<1> QED BY <1>1, <1>2, <1>3, <1>4, <1>5, <1>6, <1>7 DEF Handler, Begins

LEMMA SlotsCountStep ==
  ASSUME Inv, SlotsCount, [Next]_vars
  PROVE  SlotsCount'
<1> SUFFICES ASSUME NEW q \in Requests, reqs'[q].stage \in Counting PROVE Counted(reqs[q])'
  BY DEF SlotsCount
<1>1. RevsHold /\ nextRev \in Nat /\ nextRev' \in Nat /\ nextRev <= nextRev'
  BY RevsHoldStep
<1>2. ASSUME reqs[q].stage \in Counting, reqs'[q].cur = reqs[q].cur, reqs'[q].seq = reqs[q].seq
      PROVE  Counted(reqs[q])'
  <2>1. Counted(reqs[q])
    BY <1>2 DEF SlotsCount
  <2> QED BY <1>1, <1>2, <2>1 DEF Counted, RevsHold, RevIds
<1>3. ASSUME reqs[q].stage = "saveRead", drafts[reqs[q].draft].status = "active", UNCHANGED Tables,
             reqs'[q].cur = Latest(reqs[q].draft),
             reqs'[q].seq = revs[Latest(reqs[q].draft)].seq + 1
      PROVE  Counted(reqs[q])'
  <2>1. reqs[q].draft \in Drafts /\ Exists(reqs[q].draft)
    BY <1>3, PlacedDraft DEF CreateStages, Exists
  <2> QED BY <1>3, <2>1, LatestType DEF Counted, Tables, history
<1>4. CASE reqs'[q] = reqs[q]
  BY <1>2, <1>4
<1>5. CASE Handler(q)
  BY <1>2, <1>3, <1>5, CountingSlot
<1> QED BY <1>4, <1>5, SlotStep

LEMMA FittingSlot ==
  ASSUME Inv, NEW q \in Requests, Handler(q), StatusFits(reqs[q])
  PROVE  StatusFits(reqs'[q])
<1>0. reqs[q] \in Request
  BY SlotFull
<1>1. CASE Begins(q)
  BY <1>1, Beginning
<1>2. CASE \/ RestoreSource(q) \/ SaveRead(q) \/ SaveAuthorize(q) \/ SaveReplay(q) \/ SavePayload(q)
  BY <1>0, <1>2 DEF RestoreSource, SaveRead, SaveAuthorize, SaveReplay, SavePayload,
     Goto, Answer, Finish, Idle, StatusFits, SaveStages, Inv, TypeOK, Request
<1>3. CASE CreateReplay(q) \/ CreateAbort(q) \/ CreateRace(q) \/ CreateCommit(q) \/ SaveCommit(q)
  BY <1>0, <1>3 DEF CreateReplay, CreateAbort, CreateRace, CreateCommit, SaveCommit,
     Goto, Answer, Finish, Idle, StatusFits, SaveStages, Inv, TypeOK, Request
<1>4. CASE \/ SaveNoop(q) \/ SaveAbort(q) \/ SaveRace(q)
           \/ SaveRaceReplay(q) \/ AnswerCommitted(q) \/ PurgeCheck(q) \/ AcquireRow(q)
  BY <1>0, <1>4 DEF SaveNoop, SaveAbort, SaveRace, SaveRaceReplay, AnswerCommitted, PurgeCheck,
     AcquireRow, Goto, Answer, Finish, Idle, StatusFits, SaveStages, Inv, TypeOK, Request
<1>5. CASE \/ LabelCommit(q) \/ RenameCommit(q) \/ StatusCommit(q) \/ PurgeCommit(q)
           \/ RetainApply(q) \/ AcquireCommit(q) \/ ResumeCommit(q) \/ TouchCommit(q) \/ Abandon(q)
  BY <1>5 DEF LabelCommit, RenameCommit, StatusCommit, PurgeCommit, RetainApply,
     AcquireCommit, ResumeCommit, TouchCommit, Abandon, Finish, Idle, StatusFits, SaveStages,
     Inv, TypeOK
<1> QED BY <1>1, <1>2, <1>3, <1>4, <1>5 DEF Handler, Begins

LEMMA RegStep ==
  ASSUME RegInv, [Next]_vars
  PROVE  RegInv'
<1>0. Inv
  BY DEF RegInv, FenceInv, OwnedInv
<1>1. SlotsFit'
  <2> SUFFICES ASSUME NEW q \in Requests PROVE StatusFits(reqs'[q])
    BY DEF SlotsFit, StatusFits
  <2>1. StatusFits(reqs[q])
    BY DEF RegInv, SlotsFit
  <2> QED BY <1>0, <2>1, FittingSlot, SlotStep
<1> QED BY <1>0, <1>1, FenceStep, SlotsCountStep DEF RegInv

LEMMA RegInit == Init => RegInv
<1> SUFFICES ASSUME Init PROVE RegInv
  OBVIOUS
<1>1. SlotsCount
  BY DEF Init, SlotsCount, Counting, Idle
<1>2. SlotsFit
  BY DEF Init, SlotsFit, StatusFits, SaveStages, Idle
<1> QED BY <1>1, <1>2, FenceInit DEF RegInv


-----------------------------------------------------------------------------
(* The mapping.  Under Inv a draft that is there shows its latest revision *)
(* itself, and the grants are the first tokens.                            *)

States == [d \in Drafts |-> drafts[d].status]
Versions == [d \in Drafts |-> LatestOf(d, "seq", 0)]
Texts == [d \in Drafts |-> LatestOf(d, "doc", None)]
Fences == [d \in Drafts |-> LatestOf(d, "token", 0)]
Granted == Cardinality({t \in Tokens : tokens[t] # None})

LEMMA ShownOf ==
  ASSUME Inv, NEW d \in Drafts
  PROVE  /\ Exists(d) => /\ LatestOf(d, "seq", 0) = revs[Latest(d)].seq
                         /\ LatestOf(d, "doc", None) = revs[Latest(d)].doc
                         /\ LatestOf(d, "token", 0) = revs[Latest(d)].token
         /\ ~Exists(d) => /\ LatestOf(d, "seq", 0) = 0
                          /\ LatestOf(d, "doc", None) = None
                          /\ LatestOf(d, "token", 0) = 0
<1>1. Exists(d) => Latest(d) \in RevIds /\ revs[Latest(d)] # Missing
  BY DEF Inv, LatestIsNewest, RevsOf
<1> QED BY <1>1 DEF LatestOf, Stored

LEMMA GrantedIs ==
  ASSUME TypeOK, NEW n \in 0..MaxTokens, \A t \in Tokens : tokens[t] # None <=> t <= n
  PROVE  Granted = n
<1>1. n \in Nat /\ MaxTokens \in Nat
  BY DraftStoreAssumption
<1>2. {t \in Tokens : tokens[t] # None} = 1..n
  BY <1>1 DEF Tokens
<1>3. Cardinality(1..n) = IF 1 > n THEN 0 ELSE n - 1 + 1
  BY <1>1, FS_Interval
<1>4. Cardinality(1..n) = n
  BY <1>1, <1>3
<1> QED BY <1>2, <1>4 DEF Granted

\* what a step leaves a reader of draft d
Same(d) ==
  /\ drafts'[d].status = drafts[d].status
  /\ LatestOf(d, "seq", 0)' = LatestOf(d, "seq", 0)
  /\ LatestOf(d, "doc", None)' = LatestOf(d, "doc", None)
  /\ LatestOf(d, "token", 0)' = LatestOf(d, "token", 0)

LEMMA SameShown ==
  ASSUME Inv, Inv', RevsHold, NEW d \in Drafts,
         drafts'[d].status = drafts[d].status, drafts'[d].latest = drafts[d].latest
  PROVE  Same(d)
<1>1. CASE Exists(d)
  <2>1. Exists(d)' /\ Latest(d)' = Latest(d)
    BY <1>1 DEF Exists, Latest
  <2>2. Latest(d) \in RevIds /\ Latest(d) < nextRev
    BY <1>1, LatestType
  <2>3. revs'[Latest(d)] # Missing
    BY <2>1 DEF Inv, LatestIsNewest, RevsOf
  <2>4. /\ LatestOf(d, "seq", 0)' = revs'[Latest(d)].seq
        /\ LatestOf(d, "doc", None)' = revs'[Latest(d)].doc
        /\ LatestOf(d, "token", 0)' = revs'[Latest(d)].token
    BY <2>1, <2>2, <2>3 DEF LatestOf, Stored
  <2> QED BY <1>1, <2>2, <2>3, <2>4, ShownOf DEF Same, RevsHold
<1>2. CASE ~Exists(d)
  <2>1. ~Exists(d)'
    BY <1>2 DEF Exists
  <2> QED BY <1>2, <2>1 DEF Same, LatestOf
<1> QED BY <1>1, <1>2

\* a step that leaves every draft and the tokens as they are is none of the register
LEMMA Unseen ==
  ASSUME \A d \in Drafts : Same(d), UNCHANGED tokens
  PROVE  UNCHANGED Register!vars
<1>1. States' = States /\ Versions' = Versions /\ Texts' = Texts /\ Fences' = Fences
  BY DEF Same, States, Versions, Texts, Fences
<1>2. Granted' = Granted
  BY DEF Granted
<1> QED BY <1>1, <1>2 DEF Register!vars, States, Versions, Texts, Fences, Granted

\* one draft changes to what is given, and all others stay
LEMMA SeenOne ==
  ASSUME NEW d \in Drafts, \A x \in Drafts : x # d => Same(x), UNCHANGED tokens
  PROVE  /\ States' = [States EXCEPT ![d] = drafts'[d].status]
         /\ Versions' = [Versions EXCEPT ![d] = LatestOf(d, "seq", 0)']
         /\ Texts' = [Texts EXCEPT ![d] = LatestOf(d, "doc", None)']
         /\ Fences' = [Fences EXCEPT ![d] = LatestOf(d, "token", 0)']
         /\ Granted' = Granted
  BY DEF Same, States, Versions, Texts, Fences, Granted


-----------------------------------------------------------------------------
(* Each statement, seen from the register.                                 *)

LEMMA CreateSeen ==
  ASSUME RegInv, RegInv', RevsHold, NEW q \in Requests, CreateCommit(q)
  PROVE  Register!Next
<1>0. Inv /\ Inv'
  BY DEF RegInv, FenceInv, OwnedInv
<1>1. PICK d \in Drafts, doc \in Docs : InsertDraft(reqs[q], d, doc)
  BY DEF CreateCommit
<1> DEFINE e == FirstRevision(d, doc, reqs[q].at, Ident(reqs[q]))
<1>2. e.seq = 1 /\ e.doc = doc /\ e.token = 0 /\ e # Missing
  BY DEF FirstRevision, Missing
<1>3. nextRev \in RevIds /\ revs' = [revs EXCEPT ![nextRev] = e] /\ UNCHANGED tokens
  BY <1>0, <1>1 DEF InsertDraft, CreateCommit, leases, Inv, TypeOK, RevIds
<1>4. /\ drafts[d].status = "unused"
      /\ drafts'[d].status = "active" /\ drafts'[d].latest = nextRev
      /\ \A x \in Drafts : x # d => drafts'[x] = drafts[x]
  BY <1>0, <1>1 DEF InsertDraft, Inv, TypeOK
<1> HIDE DEF e
<1>5. \A x \in Drafts : x # d => Same(x)
  BY <1>0, <1>4, SameShown
<1>6. revs'[nextRev] = e
  BY <1>0, <1>3 DEF Inv, TypeOK
<1>7. /\ LatestOf(d, "seq", 0)' = 1
      /\ LatestOf(d, "doc", None)' = doc
      /\ LatestOf(d, "token", 0)' = 0
  BY <1>2, <1>3, <1>4, <1>6 DEF LatestOf, Exists, Latest, Stored
<1>8. LatestOf(d, "token", 0) = 0
  BY <1>4 DEF LatestOf, Exists
<1>9. /\ States[d] = "unused" /\ States' = [States EXCEPT ![d] = "active"]
      /\ Versions' = [Versions EXCEPT ![d] = 1]
      /\ Texts' = [Texts EXCEPT ![d] = doc]
      /\ Fences' = Fences /\ Granted' = Granted
  <2>1. Fences' = [Fences EXCEPT ![d] = 0] /\ Fences[d] = 0
    BY <1>3, <1>5, <1>7, <1>8, SeenOne DEF Fences
  <2>2. Fences' = Fences
    BY <2>1 DEF Fences
  <2> QED BY <1>3, <1>4, <1>5, <1>7, <2>2, SeenOne DEF States
<1>10. Register!Open(d, doc)
  BY <1>9 DEF Register!Open, States, Versions, Texts, Fences, Granted
<1> QED BY <1>10 DEF Register!Next

\* the slot counted the revision that is still the latest, and holds the lease that fences it
LEMMA SaveSeen ==
  ASSUME RegInv, RegInv', RevsHold, NEW q \in Requests, SaveCommit(q)
  PROVE  Register!Next
<1>0. Inv /\ Inv' /\ FenceInv
  BY DEF RegInv, FenceInv, OwnedInv
<1>1. PICK d \in Drafts : d = reqs[q].draft
  BY <1>0, PlacedDraft DEF SaveCommit, CreateStages
<1>2. /\ Exists(d) /\ Latest(d) = reqs[q].cur /\ drafts[d].status = "active"
      /\ checkouts[d] # Missing /\ checkouts[d].token = reqs[q].token
  <2>1. reqs[q].status = "active"
    BY DEF RegInv, SlotsFit, StatusFits, SaveStages, SaveCommit
  <2> QED BY <1>0, <1>1, <2>1, GuardedDraft DEF SaveCommit, MutationGuard
<1>3. Latest(d) \in RevIds /\ revs[Latest(d)] # Missing /\ revs[Latest(d)].draft = d
  BY <1>0, <1>2 DEF Inv, LatestIsNewest, RevsOf
<1>4. reqs[q].seq = revs[Latest(d)].seq + 1
  BY <1>2, <1>3 DEF RegInv, SlotsCount, Counting, Counted, SaveCommit
<1> DEFINE e == [kind |-> "rev", draft |-> d, seq |-> reqs[q].seq, parent |-> reqs[q].cur,
                 doc |-> reqs[q].doc, born |-> reqs[q].at, base |-> reqs[q].base,
                 ident |-> Ident(reqs[q]), token |-> reqs[q].token]
           g == reqs[q].token
           doc == reqs[q].doc
<1>5. e.seq = reqs[q].seq /\ e.doc = doc /\ e.token = g /\ e # Missing
  BY DEF Missing
<1>6. doc \in Docs
  BY <1>0, SlotFull DEF Full, SaveStages, SaveCommit
<1>7. nextRev \in RevIds /\ revs' = [revs EXCEPT ![nextRev] = e] /\ UNCHANGED tokens
  BY <1>0, <1>1 DEF InsertRevision, SaveCommit, leases, Inv, TypeOK, RevIds
<1>8. /\ drafts'[d].status = "active" /\ drafts'[d].latest = nextRev
      /\ \A x \in Drafts : x # d => drafts'[x] = drafts[x]
  <2>1. drafts[d] \in Draft
    BY <1>0 DEF Inv, TypeOK
  <2> QED BY <1>0, <1>1, <1>2, <2>1 DEF InsertRevision, SaveCommit, Inv, TypeOK, Draft
<1>9. g \in 1..Granted
  <2>1. PICK n \in 0..MaxTokens : \A t \in Tokens : tokens[t] # None <=> t <= n
    BY <1>0 DEF FenceInv, InOrder
  <2>2. Granted = n
    BY <1>0, <2>1, GrantedIs DEF Inv
  <2>3. g \in Tokens /\ tokens[g] # None
    BY <1>0, <1>2, TokenType DEF FenceInv, LeaseIssued, Inv
  <2> QED BY <2>1, <2>2, <2>3, DraftStoreAssumption DEF Tokens
<1>10. revs[Latest(d)].token <= g
  BY <1>0, <1>2, <1>3 DEF FenceInv, LeaseFences, RevsOf
<1> HIDE DEF e, g, doc
<1>11. \A x \in Drafts : x # d => Same(x)
  BY <1>0, <1>8, SameShown
<1>12. revs'[nextRev] = e
  BY <1>0, <1>7 DEF Inv, TypeOK
<1>13. /\ LatestOf(d, "seq", 0)' = reqs[q].seq
       /\ LatestOf(d, "doc", None)' = doc
       /\ LatestOf(d, "token", 0)' = g
  BY <1>5, <1>7, <1>8, <1>12 DEF LatestOf, Exists, Latest, Stored
<1>14. States[d] = "active" /\ Versions[d] = revs[Latest(d)].seq /\ Fences[d] = revs[Latest(d)].token
  BY <1>0, <1>2, ShownOf DEF States, Versions, Fences
<1>15. States' = States
  <2>1. States' = [States EXCEPT ![d] = "active"]
    BY <1>7, <1>8, <1>11, SeenOne
  <2> QED BY <1>14, <2>1 DEF States
<1>16. /\ Versions' = [Versions EXCEPT ![d] = Versions[d] + 1]
       /\ Texts' = [Texts EXCEPT ![d] = doc]
       /\ Fences' = [Fences EXCEPT ![d] = g]
       /\ Granted' = Granted
  BY <1>4, <1>7, <1>11, <1>13, <1>14, SeenOne
<1>17. g >= Fences[d]
  <2>1. g \in Nat /\ revs[Latest(d)].token \in Nat
    <3>1. revs[Latest(d)].token \in 0..MaxTokens /\ checkouts[d].token \in Tokens
      BY <1>0, <1>2, <1>3, TokenType DEF Inv
    <3> QED BY <1>2, <3>1 DEF g, Tokens
  <2> QED BY <1>10, <1>14, <2>1
<1>18. Register!Write(d, g, doc)
  BY <1>14, <1>15, <1>16, <1>17 DEF Register!Write, States, Versions, Texts, Fences, Granted
<1> QED BY <1>6, <1>9, <1>18 DEF Register!Next, Granted


LEMMA StatusSeen ==
  ASSUME RegInv, RegInv', RevsHold, NEW q \in Requests, StatusCommit(q)
  PROVE  Register!Next \/ UNCHANGED Register!vars
<1>0. Inv /\ Inv' /\ UNCHANGED <<revs, tokens>>
  BY DEF RegInv, FenceInv, OwnedInv, StatusCommit, history
<1>1. PICK d \in Drafts : d = reqs[q].draft
  BY <1>0, PlacedDraft DEF StatusCommit, CreateStages
<1>2. drafts[d] \in Draft /\ reqs[q] \in Request
  BY <1>0, SlotFull DEF Inv, TypeOK
<1>3. CASE UNCHANGED drafts
  <2>1. \A x \in Drafts : Same(x)
    BY <1>0, <1>3, SameShown
  <2> QED BY <1>0, <2>1, Unseen
<1>4. CASE /\ MutationGuard(reqs[q]) /\ reqs[q].status # reqs[q].aim
           /\ drafts' = [drafts EXCEPT ![d].status = reqs[q].aim]
  <2>1. /\ drafts[d].status \in {"active", "archived"} /\ Exists(d)
        /\ reqs[q].aim = IF drafts[d].status = "active" THEN "archived" ELSE "active"
    BY <1>1, <1>2, <1>4 DEF MutationGuard, Request, Exists
  <2>2. /\ drafts'[d].status = reqs[q].aim /\ drafts'[d].latest = drafts[d].latest
        /\ \A x \in Drafts : x # d => drafts'[x] = drafts[x]
    BY <1>0, <1>2, <1>4 DEF Inv, TypeOK, Draft
  <2>3. \A x \in Drafts : x # d => Same(x)
    BY <1>0, <2>2, SameShown
  <2>4. /\ LatestOf(d, "seq", 0)' = LatestOf(d, "seq", 0)
        /\ LatestOf(d, "doc", None)' = LatestOf(d, "doc", None)
        /\ LatestOf(d, "token", 0)' = LatestOf(d, "token", 0)
    BY <1>0, <2>1, <2>2 DEF LatestOf, Exists, Latest, Stored
  <2>5. Versions' = Versions /\ Texts' = Texts /\ Fences' = Fences
    BY <2>3, <2>4 DEF Same, Versions, Texts, Fences
  <2>6. States' = [States EXCEPT ![d] = reqs[q].aim] /\ Granted' = Granted
    BY <1>0, <2>2, <2>3, SeenOne
  <2>7. States[d] = drafts[d].status
    BY DEF States
  <2>8. Register!Shelve(d)
    BY <2>1, <2>5, <2>6, <2>7 DEF Register!Shelve, States, Versions, Texts, Fences, Granted
  <2> QED BY <2>8 DEF Register!Next
<1> QED BY <1>1, <1>3, <1>4 DEF StatusCommit

LEMMA PurgeSeen ==
  ASSUME RegInv, RegInv', RevsHold, NEW q \in Requests, PurgeCommit(q)
  PROVE  Register!Next \/ UNCHANGED Register!vars
<1>0. Inv /\ Inv' /\ UNCHANGED tokens
  BY DEF RegInv, FenceInv, OwnedInv, PurgeCommit
<1>1. PICK d \in Drafts : d = reqs[q].draft
  BY <1>0, PlacedDraft DEF PurgeCommit, CreateStages
<1>2. CASE UNCHANGED <<drafts, revs>>
  <2>1. \A x \in Drafts : Same(x)
    BY <1>0, <1>2, SameShown
  <2> QED BY <1>0, <2>1, Unseen
<1>3. CASE MutationGuard(reqs[q]) /\ Destroy(d)
  <2> DEFINE blank == [status |-> "purged", latest |-> 0, name |-> None]
  <2>1. drafts[d].status = "archived"
    BY <1>1, <1>3 DEF MutationGuard, PurgeCommit, RegInv, SlotsFit, StatusFits
  <2>2. blank.status = "purged" /\ drafts' = [drafts EXCEPT ![d] = blank]
    BY <1>3 DEF Destroy
  <2> HIDE DEF blank
  <2>3. drafts'[d].status = "purged" /\ \A x \in Drafts : x # d => drafts'[x] = drafts[x]
    BY <1>0, <2>2 DEF Inv, TypeOK
  <2>4. \A x \in Drafts : x # d => Same(x)
    BY <1>0, <2>3, SameShown
  <2>5. /\ LatestOf(d, "seq", 0)' = 0
        /\ LatestOf(d, "doc", None)' = None
        /\ LatestOf(d, "token", 0)' = 0
    BY <2>3 DEF LatestOf, Exists
  <2>6. /\ States' = [States EXCEPT ![d] = "purged"]
        /\ Versions' = [Versions EXCEPT ![d] = 0]
        /\ Texts' = [Texts EXCEPT ![d] = None]
        /\ Fences' = [Fences EXCEPT ![d] = 0]
        /\ Granted' = Granted
    BY <1>0, <2>3, <2>4, <2>5, SeenOne
  <2>7. States[d] = "archived"
    BY <2>1 DEF States
  <2>8. Register!Destroy(d)
    BY <2>6, <2>7 DEF Register!Destroy, States, Versions, Texts, Fences, Granted
  <2> QED BY <2>8 DEF Register!Next
<1> QED BY <1>1, <1>2, <1>3 DEF PurgeCommit

LEMMA LeaseSeen ==
  ASSUME RegInv, RegInv', RevsHold, NEW q \in Requests, AcquireCommit(q) \/ ResumeCommit(q)
  PROVE  Register!Next \/ UNCHANGED Register!vars
<1>0. Inv /\ Inv' /\ InOrder /\ UNCHANGED drafts
  BY DEF RegInv, FenceInv, OwnedInv, AcquireCommit, ResumeCommit
<1>1. \A x \in Drafts : Same(x)
  BY <1>0, SameShown
<1>2. CASE UNCHANGED tokens
  BY <1>1, <1>2, Unseen
<1>3. ASSUME NEW t \in FreshToken, NEW until, Lease(reqs[q], t, until)
      PROVE  Register!Grant
  <2>1. t \in Tokens /\ \A s \in Tokens : tokens[s] # None <=> s < t
    BY <1>0, FreshIsYoungest DEF Inv
  <2>2. reqs[q].client # None
    BY <1>0, SlotFull, NoneIsNoValue DEF Full, AcquireCommit, ResumeCommit
  <2>3. \A s \in Tokens : tokens'[s] # None <=> s <= t
    BY <1>0, <1>3, <2>1, <2>2 DEF Lease, Inv, TypeOK, Tokens
  <2>4. t - 1 \in 0..MaxTokens /\ t \in 0..MaxTokens /\ t \in Nat
        /\ \A s \in Tokens : tokens[s] # None <=> s <= t - 1
    BY <2>1, DraftStoreAssumption DEF Tokens
  <2>5. Granted = t - 1
    BY <1>0, <2>4, GrantedIs DEF Inv
  <2>6. Granted' = t
    <3>1. {s \in Tokens : tokens'[s] # None} = 1..t
      BY DraftStoreAssumption, <2>1, <2>3, <2>4 DEF Tokens
    <3>2. Cardinality(1..t) = t
      <4>1. Cardinality(1..t) = IF 1 > t THEN 0 ELSE t - 1 + 1
        BY <2>4, FS_Interval
      <4> QED BY <2>1, <2>4, <4>1 DEF Tokens
    <3> QED BY <3>1, <3>2 DEF Granted
  <2>7. Granted' = Granted + 1
    BY <2>4, <2>5, <2>6
  <2>8. States' = States /\ Versions' = Versions /\ Texts' = Texts /\ Fences' = Fences
    BY <1>1 DEF Same, States, Versions, Texts, Fences
  <2> QED BY <2>7, <2>8 DEF Register!Grant, States, Versions, Texts, Fences, Granted
<1> QED BY <1>2, <1>3 DEF AcquireCommit, ResumeCommit, Register!Next

\* what is left neither touches the latest revision of a draft nor hands out a token
LEMMA OtherSeen ==
  ASSUME RegInv, RegInv', RevsHold, UNCHANGED tokens,
         \A d \in Drafts : drafts'[d].status = drafts[d].status /\ drafts'[d].latest = drafts[d].latest
  PROVE  UNCHANGED Register!vars
<1>1. \A d \in Drafts : Same(d)
  BY SameShown DEF RegInv, FenceInv, OwnedInv
<1> QED BY <1>1, Unseen

LEMMA StepSeen ==
  ASSUME RegInv, [Next]_vars
  PROVE  [Register!Next]_(Register!vars)
<1>0. RegInv' /\ RevsHold /\ TypeOK
  BY RegStep, RevsHoldStep DEF RegInv, FenceInv, OwnedInv, Inv
<1>1. CASE UNCHANGED <<drafts, tokens>>
  BY <1>0, <1>1, OtherSeen
<1>2. ASSUME NEW q \in Requests, Writes(q) PROVE [Register!Next]_(Register!vars)
  <2>1. CASE SaveNoop(q) \/ LabelCommit(q) \/ RetainApply(q) \/ TouchCommit(q)
    BY <1>1, <2>1 DEF SaveNoop, LabelCommit, RetainApply, TouchCommit, leases
  <2>2. CASE RenameCommit(q)
    <3>1. \A d \in Drafts : drafts[d] \in Draft
      BY <1>0 DEF TypeOK
    <3>2. \A d \in Drafts : drafts'[d].status = drafts[d].status
                            /\ drafts'[d].latest = drafts[d].latest
      BY <1>0, <2>2, <3>1 DEF RenameCommit, TypeOK, Draft
    <3> QED BY <1>0, <2>2, <3>2, OtherSeen DEF RenameCommit, leases
  <2> QED BY <1>0, <1>2, <2>1, <2>2, CreateSeen, SaveSeen, StatusSeen, PurgeSeen, LeaseSeen
          DEF Writes
<1>3. CASE UNCHANGED Tables \/ \E c \in Clients, d \in Drafts : Release(c, d)
  BY <1>1, <1>3 DEF Tables, leases, Release
<1> QED BY <1>2, <1>3, TableSteps

LEMMA InitSeen == Init => Register!Init
<1> SUFFICES ASSUME Init PROVE Register!Init
  OBVIOUS
<1>1. \A d \in Drafts :
        /\ drafts[d].status = IF d = Imported THEN "active" ELSE "unused"
        /\ drafts[d].latest = IF d = Imported THEN 1 ELSE 0
  BY DEF Init
<1>2. Imported \in Drafts => \E doc \in Docs :
        /\ Stored(1) /\ revs[1].seq = 1 /\ revs[1].doc = doc /\ revs[1].token = 0
  <2> SUFFICES ASSUME Imported \in Drafts
               PROVE  \E doc \in Docs :
                        Stored(1) /\ revs[1].seq = 1 /\ revs[1].doc = doc /\ revs[1].token = 0
    OBVIOUS
  <2>1. 1 \in RevIds /\ Imported # None
    BY DraftStoreAssumption, NoneIsNoValue DEF RevIds
  <2>2. PICK doc \in Docs :
          revs = [r \in RevIds |-> IF r = 1 /\ Imported # None
                                   THEN FirstRevision(Imported, doc, 0, None) ELSE Missing]
    BY DEF Init
  <2>3. revs[1] = FirstRevision(Imported, doc, 0, None)
    BY <2>1, <2>2
  <2>4. /\ revs[1].kind = "rev" /\ revs[1].seq = 1 /\ revs[1].doc = doc /\ revs[1].token = 0
    BY <2>3 DEF FirstRevision
  <2> QED BY <2>1, <2>4, StoredIsRev DEF Stored
<1>3. \A d \in Drafts :
        /\ LatestOf(d, "seq", 0) = IF d = Imported THEN 1 ELSE 0
        /\ d # Imported => LatestOf(d, "doc", None) = None
        /\ d = Imported => LatestOf(d, "doc", None) \in Docs
        /\ LatestOf(d, "token", 0) = 0
  BY <1>1, <1>2 DEF LatestOf, Exists, Latest
<1>4. Granted = 0
  <2>1. {t \in Tokens : tokens[t] # None} = {}
    BY DEF Init
  <2> QED BY <2>1, FS_EmptySet DEF Granted
<1>5. Texts \in {t \in [Drafts -> Docs \cup {None}] : \A d \in Drafts : d # Imported <=> t[d] = None}
  BY <1>3, NoneIsNoValue DEF Texts
<1>6. /\ States = [d \in Drafts |-> IF d # Imported THEN "unused" ELSE "active"]
      /\ Versions = [d \in Drafts |-> IF d # Imported THEN 0 ELSE 1]
      /\ Fences = [d \in Drafts |-> 0]
  BY <1>1, <1>3 DEF States, Versions, Fences
<1> QED BY <1>4, <1>5, <1>6 DEF Register!Init, Register!Blank, States, Versions, Texts, Fences, Granted

\* Seen by a reader, a draft is one register written by fenced writers: every save that is
\* committed is applied to the document it was based on, under a grant no older than the last
\* writer's; what retention deletes is invisible; and a purged draft is never opened again.
THEOREM RegisterImplemented == Spec => ImplementsRegister
<1>1. RegInv /\ [Next]_vars => RegInv'
  BY RegStep
<1>2. RegInv /\ [Next]_vars => [Register!Next]_(Register!vars)
  BY StepSeen
<1> QED BY RegInit, InitSeen, <1>1, <1>2, PTL DEF Spec, ImplementsRegister, Register!Spec

=============================================================================
