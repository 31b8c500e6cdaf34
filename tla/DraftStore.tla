----------------------------- MODULE DraftStore -----------------------------
(***************************************************************************)
(* The draft repository of PointSite Builder                               *)
(* (src/server/repositories/d1.ts over the SQL schema of migrations/):     *)
(* drafts, their revisions, edit checkouts, request receipts and labels,   *)
(* with the purge and the revision retention that delete them.             *)
(*                                                                         *)
(* A request handler is a chain of awaited statements; other requests run  *)
(* between any two of them.  A handler is therefore a slot in `reqs' that  *)
(* keeps what it has read, and each action below is one statement or one   *)
(* atomic batch().  Fresh UUIDs are counters, hashes are the values they   *)
(* are computed from, and one clock stands for every timestamp.            *)
(***************************************************************************)
EXTENDS Naturals, FiniteSets

CONSTANTS
  Actors,        \* user identities (user_roles.email)
  Clients,       \* editor tabs (client_id)
  Owner,         \* the actor signed in at each client
  Drafts,        \* the draft ids that can ever be handed out
  Imported,      \* the draft that is there from the start, or None
  Docs,          \* site documents, told apart by their checksum
  Names,         \* draft names
  Keys,          \* idempotency keys a client generates
  Sends,         \* the documents a client may send under each key
  Requests,      \* concurrent request handlers
  Ops,           \* the operations each handler of this instance may serve
  Events,        \* what else may happen in this instance
  MaxRevs,       \* bound: revisions ever written
  MaxTokens,     \* bound: checkout tokens ever issued
  MaxTime,       \* bound: the clock
  CheckoutTtl,   \* CHECKOUT_TTL_MS
  RetentionAge,  \* the 90 days of receipts and of automatic retention
  SpliceWindow,  \* a spliced payload is nearer than this to its checkpoint (32)
  None           \* SQL NULL, a missing row

ASSUME DraftStoreAssumption ==
  /\ Owner \in [Clients -> Actors]
  /\ Imported \in Drafts \cup {None}
  /\ Sends \in [Keys -> SUBSET Docs]
  /\ Ops \in [Requests -> SUBSET STRING]
  /\ MaxRevs \in Nat \ {0} /\ MaxTokens \in Nat /\ MaxTime \in Nat
  /\ CheckoutTtl \in Nat /\ RetentionAge \in Nat /\ SpliceWindow \in Nat

ASSUME NoneIsNoValue ==
  None \notin Actors \cup Clients \cup Drafts \cup Docs \cup Names \cup Keys

VARIABLES
  drafts,      \* table drafts
  revs,        \* tables revisions and revision_payloads
  labels,      \* revisions that carry a label
  checkouts,   \* table draft_checkouts
  views,       \* table editor_view_states: the draft each actor last looked at
  editors,     \* actors whose active role is editor or above
  receipts,    \* table idempotency_keys
  pins,        \* revisions that publish_jobs and publication_inputs name
  now,         \* the clock
  nextRev,     \* revision ids below it are used
  tokens,      \* the client each checkout token was issued to
  reqs,        \* the request handlers in flight
  ledger,      \* history: every revision written and the request it was written for
  acks         \* history: the oldest revision that a successful answer to a request showed

history == <<revs, labels, nextRev, ledger>>
leases == <<checkouts, views, tokens>>
environment == <<editors, pins, now>>
vars == <<drafts, history, leases, receipts, environment, reqs, acks>>

RevIds == 1..MaxRevs
Tokens == 1..MaxTokens
Scopes == {"create", "save", "restore"}
Idents == Scopes \X Actors \X Keys

Missing == [kind |-> "missing"]   \* no row
Gone == [kind |-> "gone"]         \* status_code 410: the request of a purged draft

Stages == {"idle", "restoreSource", "saveRead", "saveAuthorize", "saveReplay",
           "savePayload", "saveCommit", "saveRace", "saveRaceReplay", "answer",
           "createReplay", "createCommit", "createRace",
           "label", "rename", "status", "purgeCheck", "purgeCommit",
           "retain", "acquireRow", "acquireCommit", "touch"}

Draft == [status : {"unused", "active", "archived", "purged"},
          latest : 0..MaxRevs, name : Names \cup {None}]
Rev == [kind : {"rev"}, draft : Drafts, seq : Nat, parent : 0..MaxRevs, doc : Docs,
        born : Nat, base : 0..MaxRevs, ident : Idents \cup {None}, token : 0..MaxTokens]
Checkout == [kind : {"lease"}, client : Clients, token : Tokens, expires : Nat]
Input == [draft : Drafts \cup {None}, exp : 0..MaxRevs, doc : Docs \cup {None},
          name : Names \cup {None}]
Receipt == [kind : {"receipt"}, input : Input, rev : 0..MaxRevs, draft : Drafts, expires : Nat]
Entry == [ident : Idents, rev : RevIds, draft : Drafts]
Request ==
  [stage : Stages, client : Clients \cup {None}, draft : Drafts \cup {None},
   token : 0..MaxTokens, scope : Scopes, key : Keys \cup {None},
   exp : 0..MaxRevs, doc : Docs \cup {None}, name : Names \cup {None},
   cur : 0..MaxRevs, seq : Nat, same : BOOLEAN, status : {"active", "archived"},
   aim : {"active", "archived"}, base : 0..MaxRevs, at : Nat, plan : SUBSET RevIds]

Idle == [stage |-> "idle", client |-> None, draft |-> None, token |-> 0,
         scope |-> "save", key |-> None, exp |-> 0, doc |-> None, name |-> None,
         cur |-> 0, seq |-> 0, same |-> FALSE, status |-> "active", aim |-> "active",
         base |-> 0, at |-> 0, plan |-> {}]

-----------------------------------------------------------------------------
(* What the statements ask of the tables.                                  *)

Exists(d) == drafts[d].status \in {"active", "archived"}
Stored(r) == r \in RevIds /\ revs[r] # Missing
RevsOf(d) == {r \in RevIds : revs[r] # Missing /\ revs[r].draft = d}
Latest(d) == drafts[d].latest

\* user_roles: active and at least editor (assertEditor, and the first statement of commit)
IsEditor(a) == a \in editors

\* (mutant) any checkout of the same person will do
HoldsTokenOfPerson(d, c, t) ==
  /\ checkouts[d] # Missing
  /\ Owner[checkouts[d].client] = Owner[c]
  /\ checkouts[d].expires > now

\* the row of draft_checkouts that a (draft, actor, token) triple must match
HoldsToken(d, c, t) ==
  /\ checkouts[d] # Missing
  /\ Owner[checkouts[d].client] = Owner[c]
  /\ checkouts[d].token = t
  /\ checkouts[d].expires > now

AssertCheckout(d, c, t) ==
  /\ HoldsToken(d, c, t)
  /\ drafts[d].status = "active"
  /\ IsEditor(Owner[c])


\* mutationGuard, run inside every mutating batch right after the role check
MutationGuard(q) ==
  /\ IsEditor(Owner[q.client])
  /\ drafts[q.draft].latest = q.cur
  /\ drafts[q.draft].status = q.status
  /\ HoldsToken(q.draft, q.client, q.token)

Ident(q) == <<q.scope, Owner[q.client], q.key>>

\* createRequestHash and saveRequestHash, told apart by what they hash
InputOf(q) == [draft |-> q.draft, exp |-> q.exp, doc |-> q.doc, name |-> q.name]

\* readIdempotent answers from a receipt: role, not expired, same input, revision intact
Replays(q) ==
  LET row == receipts[Ident(q)] IN
  /\ row \notin {Missing, Gone}
  /\ IsEditor(Owner[q.client])
  /\ row.expires > now
  /\ row.input = InputOf(q)
  /\ Stored(row.rev)

\* (mutant) the receipt of a save keeps `current' instead of the new record
ReceiptForCurrent(q, r, d) ==
  [kind |-> "receipt", input |-> InputOf(q), rev |-> IF q.cur = 0 THEN r ELSE q.cur,
   draft |-> d, expires |-> q.at + RetentionAge]

ReceiptFor(q, r, d) ==
  [kind |-> "receipt", input |-> InputOf(q), rev |-> r, draft |-> d,
   expires |-> q.at + RetentionAge]

\* prepareRevisionPayload: the gzip payloads a splice of revision number seq may start from
Checkpoints(d, seq) ==
  {r \in RevsOf(d) : /\ revs[r].base = 0
                     /\ revs[r].seq < seq
                     /\ seq < revs[r].seq + SpliceWindow}
NewestCheckpoint(d, seq) ==
  {r \in Checkpoints(d, seq) : \A s \in Checkpoints(d, seq) : revs[s].seq <= revs[r].seq}

\* trigger revision_payload_base_guard
PayloadBaseValid(b, d, seq) == b = 0 \/ b \in Checkpoints(d, seq)

\* (mutants) automaticEligible without one of its conditions
EligibleLatest(r) ==
  /\ revs[r] # Missing
  /\ drafts[revs[r].draft].status = "active"
  /\ revs[r].born + RetentionAge < now
  /\ r \notin labels
  /\ \A s \in RevIds : revs[s] # Missing => revs[s].base # r
  /\ r \notin pins
  /\ \A i \in Idents : receipts[i] \notin {Missing, Gone} =>
        ~(receipts[i].rev = r /\ receipts[i].expires > now)
EligibleCheckpoint(r) ==
  /\ revs[r] # Missing
  /\ drafts[revs[r].draft].status = "active"
  /\ revs[r].born + RetentionAge < now
  /\ r # Latest(revs[r].draft)
  /\ r \notin labels
  /\ r \notin pins
  /\ \A i \in Idents : receipts[i] \notin {Missing, Gone} =>
        ~(receipts[i].rev = r /\ receipts[i].expires > now)

\* automaticEligible: what retention may delete from an active draft
Eligible(r) ==
  /\ revs[r] # Missing
  /\ drafts[revs[r].draft].status = "active"
  /\ revs[r].born + RetentionAge < now
  /\ r # Latest(revs[r].draft)
  /\ r \notin labels
  /\ \A s \in RevIds : revs[s] # Missing => revs[s].base # r
  /\ r \notin pins
  /\ \A i \in Idents : receipts[i] \notin {Missing, Gone} =>
        ~(receipts[i].rev = r /\ receipts[i].expires > now)

\* deleting revision rows: parent_revision_id is ON DELETE SET NULL
Without(S) ==
  [r \in RevIds |-> IF r \in S \/ revs[r] = Missing THEN Missing
                    ELSE [revs[r] EXCEPT !.parent = IF @ \in S THEN 0 ELSE @]]

Goto(q, stage) == reqs' = [reqs EXCEPT ![q].stage = stage]
Finish(q) == reqs' = [reqs EXCEPT ![q] = Idle]
Answer(q, r) ==
  /\ acks' = [acks EXCEPT ![Ident(reqs[q])] = IF @ = 0 \/ r < @ THEN r ELSE @]
  /\ Finish(q)

Tables == <<drafts, history, leases, receipts>>

TypeOK ==
  /\ drafts \in [Drafts -> Draft]
  /\ revs \in [RevIds -> Rev \cup {Missing}]
  /\ labels \subseteq RevIds
  /\ checkouts \in [Drafts -> Checkout \cup {Missing}]
  /\ views \in [Actors -> Drafts \cup {None}]
  /\ editors \subseteq Actors
  /\ receipts \in [Idents -> Receipt \cup {Missing, Gone}]
  /\ pins \subseteq RevIds
  /\ now \in Nat
  /\ nextRev \in 1..(MaxRevs + 1)
  /\ tokens \in [Tokens -> Clients \cup {None}]
  /\ reqs \in [Requests -> Request]
  /\ ledger \subseteq Entry
  /\ acks \in [Idents -> 0..MaxRevs]

\* createDraft stores the first revision of a draft in full and labels it
FirstRevision(d, doc, at, ident) ==
  [kind |-> "rev", draft |-> d, seq |-> 1, parent |-> 0, doc |-> doc, born |-> at,
   base |-> 0, ident |-> ident, token |-> 0]

Init ==
  /\ drafts = [d \in Drafts |->
       IF d = Imported THEN [status |-> "active", latest |-> 1, name |-> None]
                       ELSE [status |-> "unused", latest |-> 0, name |-> None]]
  /\ \E doc \in Docs :
       revs = [r \in RevIds |-> IF r = 1 /\ Imported # None
                                THEN FirstRevision(Imported, doc, 0, None) ELSE Missing]
  /\ labels = IF Imported = None THEN {} ELSE {1}
  /\ checkouts = [d \in Drafts |-> Missing]
  /\ views = [a \in Actors |-> None]
  /\ editors = Actors
  /\ receipts = [i \in Idents |-> Missing]
  /\ pins = {}
  /\ now = 0
  /\ nextRev = IF Imported = None THEN 1 ELSE 2
  /\ tokens = [t \in Tokens |-> None]
  /\ reqs = [q \in Requests |-> Idle]
  /\ ledger = {}
  /\ acks = [i \in Idents |-> 0]

\* a client may send any request it can build from what it was once told
Ready(q, op) == op \in Ops[q] /\ reqs[q] = Idle
Start(q, rec) ==
  /\ reqs' = [reqs EXCEPT ![q] = rec]
  /\ UNCHANGED <<Tables, environment, acks>>

Known(c, t) == t \in Tokens /\ tokens[t] = c

-----------------------------------------------------------------------------
(* createDraft, from the default or production document or from a revision *)

CreateBegin(q) ==
  /\ Ready(q, "create")
  /\ \E c \in Clients, k \in Keys, n \in Names, r \in {0} \cup RevIds :
       /\ r # 0 => revs[r] # Missing
       /\ IsEditor(Owner[c])
       /\ Start(q,
            [Idle EXCEPT !.stage = "createReplay", !.client = c, !.scope = "create",
                         !.key = k, !.name = n, !.at = now,
                         !.draft = IF r = 0 THEN None ELSE revs[r].draft,
                         !.doc = IF r = 0 THEN None ELSE revs[r].doc])

CreateReplay(q) ==
  /\ reqs[q].stage = "createReplay"
  /\ \/ Replays(reqs[q]) /\ Answer(q, receipts[Ident(reqs[q])].rev)
     \/ /\ receipts[Ident(reqs[q])] = Missing
        /\ IsEditor(Owner[reqs[q].client])
        /\ reqs' = [reqs EXCEPT ![q].stage = "createCommit", ![q].at = now]
        /\ UNCHANGED acks
     \/ /\ ~Replays(reqs[q])
        /\ receipts[Ident(reqs[q])] = Missing => ~IsEditor(Owner[reqs[q].client])
        /\ Finish(q) /\ UNCHANGED acks
  /\ UNCHANGED <<Tables, environment>>

CreateAllowed(q) ==
  /\ IsEditor(Owner[q.client])
  /\ q.draft # None => Exists(q.draft)

InsertDraft(q, d, doc) ==
  LET r == nextRev IN
  /\ nextRev <= MaxRevs
  /\ drafts[d].status = "unused"
  /\ drafts' = [drafts EXCEPT ![d] = [status |-> "active", latest |-> r, name |-> q.name]]
  /\ revs' = [revs EXCEPT ![r] = FirstRevision(d, doc, q.at, Ident(q))]
  /\ labels' = labels \cup {r}
  /\ nextRev' = r + 1
  /\ receipts' = [receipts EXCEPT ![Ident(q)] = ReceiptFor(q, r, d)]
  /\ ledger' = ledger \cup {[ident |-> Ident(q), rev |-> r, draft |-> d]}

CreateCommit(q) ==
  /\ reqs[q].stage = "createCommit"
  /\ CreateAllowed(reqs[q])
  /\ receipts[Ident(reqs[q])] = Missing
  /\ \E d \in Drafts, doc \in Docs :
       /\ reqs[q].doc # None => doc = reqs[q].doc
       /\ InsertDraft(reqs[q], d, doc)
       /\ reqs' = [reqs EXCEPT ![q].stage = "answer", ![q].draft = d]
  /\ UNCHANGED <<leases, environment, acks>>

\* the batch aborts: only a taken receipt is worth reading again
CreateAbort(q) ==
  /\ reqs[q].stage = "createCommit"
  /\ IF CreateAllowed(reqs[q]) /\ receipts[Ident(reqs[q])] # Missing
     THEN Goto(q, "createRace")
     ELSE ~CreateAllowed(reqs[q]) /\ Finish(q)
  /\ UNCHANGED <<Tables, environment, acks>>

CreateRace(q) ==
  /\ reqs[q].stage = "createRace"
  /\ IF Replays(reqs[q]) THEN Answer(q, receipts[Ident(reqs[q])].rev)
                         ELSE Finish(q) /\ UNCHANGED acks
  /\ UNCHANGED <<Tables, environment>>

-----------------------------------------------------------------------------
(* saveDraft and restoreRevision                                           *)

SaveBegin(q) ==
  /\ Ready(q, "save")
  /\ \E c \in Clients, t \in Tokens, k \in Keys, d \in Drafts, doc \in Docs, e \in RevIds :
       /\ Known(c, t)
       /\ doc \in Sends[k]
       /\ e \in RevsOf(d)
       /\ Start(q,
            [Idle EXCEPT !.stage = "saveRead", !.client = c, !.token = t, !.key = k,
                         !.draft = d, !.doc = doc, !.exp = e])

RestoreBegin(q) ==
  /\ Ready(q, "restore")
  /\ \E c \in Clients, t \in Tokens, k \in Keys, d \in Drafts, e \in RevIds, src \in RevIds :
       /\ Known(c, t)
       /\ {e, src} \subseteq RevsOf(d)
       /\ Start(q,
            [Idle EXCEPT !.stage = "restoreSource", !.client = c, !.token = t, !.key = k,
                         !.scope = "restore", !.draft = d, !.exp = e, !.base = src])

\* the source may have been deleted since the client saw it
RestoreSource(q) ==
  /\ reqs[q].stage = "restoreSource"
  /\ IF reqs[q].base \in RevsOf(reqs[q].draft)
     THEN reqs' = [reqs EXCEPT ![q].stage = "saveRead", ![q].base = 0,
                                ![q].doc = revs[reqs[q].base].doc]
     ELSE Finish(q)
  /\ UNCHANGED <<Tables, environment, acks>>

\* getDraft: what the rest of the handler calls `current', with its document and number
SaveRead(q) ==
  LET r == Latest(reqs[q].draft) IN
  /\ reqs[q].stage = "saveRead"
  /\ IF drafts[reqs[q].draft].status = "active"
     THEN reqs' = [reqs EXCEPT ![q].stage = "saveAuthorize", ![q].cur = r,
                                ![q].seq = revs[r].seq + 1,
                                ![q].same = (revs[r].doc = reqs[q].doc)]
     ELSE Finish(q)
  /\ UNCHANGED <<Tables, environment, acks>>

SaveAuthorize(q) ==
  /\ reqs[q].stage = "saveAuthorize"
  /\ IF AssertCheckout(reqs[q].draft, reqs[q].client, reqs[q].token)
     THEN Goto(q, "saveReplay")
     ELSE Finish(q)
  /\ UNCHANGED <<Tables, environment, acks>>

\* readIdempotent, then the If-Match comparison with what getDraft returned
SaveReplay(q) ==
  /\ reqs[q].stage = "saveReplay"
  /\ \/ Replays(reqs[q]) /\ Answer(q, receipts[Ident(reqs[q])].rev)
     \/ /\ receipts[Ident(reqs[q])] = Missing
        /\ reqs[q].exp = reqs[q].cur
        /\ reqs' = [reqs EXCEPT ![q].at = now,
                     ![q].stage = IF reqs[q].same THEN "saveCommit" ELSE "savePayload"]
        /\ UNCHANGED acks
     \/ /\ ~Replays(reqs[q])
        /\ receipts[Ident(reqs[q])] = Missing => reqs[q].exp # reqs[q].cur
        /\ Finish(q) /\ UNCHANGED acks
  /\ UNCHANGED <<Tables, environment>>

\* prepareRevisionPayload: a full payload, or a splice of the newest checkpoint
SavePayload(q) ==
  /\ reqs[q].stage = "savePayload"
  /\ \E b \in {0} \cup NewestCheckpoint(reqs[q].draft, reqs[q].seq) :
       reqs' = [reqs EXCEPT ![q].stage = "saveCommit", ![q].base = b]
  /\ UNCHANGED <<Tables, environment, acks>>


InsertRevision(q) ==
  LET r == nextRev IN
  /\ nextRev <= MaxRevs
  /\ drafts' = [drafts EXCEPT ![q.draft].latest = r]
  /\ revs' = [revs EXCEPT ![r] =
       [kind |-> "rev", draft |-> q.draft, seq |-> q.seq, parent |-> q.cur,
        doc |-> q.doc, born |-> q.at, base |-> q.base, ident |-> Ident(q),
        token |-> q.token]]
  /\ labels' = IF q.scope = "restore" THEN labels \cup {r} ELSE labels
  /\ nextRev' = r + 1
  /\ receipts' = [receipts EXCEPT ![Ident(q)] = ReceiptFor(q, r, q.draft)]
  /\ ledger' = ledger \cup {[ident |-> Ident(q), rev |-> r, draft |-> q.draft]}

SaveCommit(q) ==
  /\ reqs[q].stage = "saveCommit"
  /\ MutationGuard(reqs[q])
  /\ ~reqs[q].same
  /\ PayloadBaseValid(reqs[q].base, reqs[q].draft, reqs[q].seq)
  /\ receipts[Ident(reqs[q])] = Missing
  /\ InsertRevision(reqs[q])
  /\ Goto(q, "answer")
  /\ UNCHANGED <<leases, environment, acks>>

\* the checksum is unchanged: only the receipt is written, and the answer is `current'
SaveNoop(q) ==
  /\ reqs[q].stage = "saveCommit"
  /\ MutationGuard(reqs[q])
  /\ reqs[q].same
  /\ receipts[Ident(reqs[q])] = Missing
  /\ receipts' = [receipts EXCEPT ![Ident(reqs[q])] =
                    ReceiptFor(reqs[q], reqs[q].cur, reqs[q].draft)]
  /\ Answer(q, reqs[q].cur)
  /\ UNCHANGED <<drafts, history, leases, environment>>

\* the batch aborts: replayAfterSaveRace looks again unless the role or the payload failed
SaveAbort(q) ==
  LET guard == MutationGuard(reqs[q])
      payload == PayloadBaseValid(reqs[q].base, reqs[q].draft, reqs[q].seq)
      taken == receipts[Ident(reqs[q])] # Missing
  IN
  /\ reqs[q].stage = "saveCommit"
  /\ ~guard \/ ~payload \/ taken
  /\ IF ~IsEditor(Owner[reqs[q].client]) \/ (guard /\ ~payload)
     THEN Finish(q) ELSE Goto(q, "saveRace")
  /\ UNCHANGED <<Tables, environment, acks>>

SaveRace(q) ==
  /\ reqs[q].stage = "saveRace"
  /\ IF AssertCheckout(reqs[q].draft, reqs[q].client, reqs[q].token)
     THEN Goto(q, "saveRaceReplay")
     ELSE Finish(q)
  /\ UNCHANGED <<Tables, environment, acks>>

SaveRaceReplay(q) ==
  /\ reqs[q].stage = "saveRaceReplay"
  /\ IF drafts[reqs[q].draft].status = "active" /\ Replays(reqs[q])
     THEN Answer(q, receipts[Ident(reqs[q])].rev)
     ELSE Finish(q) /\ UNCHANGED acks
  /\ UNCHANGED <<Tables, environment>>

\* getDraft after the commit: another writer may have been there in between
AnswerCommitted(q) ==
  /\ reqs[q].stage = "answer"
  /\ IF Exists(reqs[q].draft) THEN Answer(q, Latest(reqs[q].draft))
                              ELSE Finish(q) /\ UNCHANGED acks
  /\ UNCHANGED <<Tables, environment>>

-----------------------------------------------------------------------------
(* labelRevision, renameDraft, setDraftStatus: prepareMetadataMutation, commitMetadata *)

\* the caller proves that it knows the latest revision; only its token may be out of date
MetaBegin(q, d, allowed, rec) ==
  /\ drafts[d].status \in allowed
  /\ \E c \in Clients, t \in Tokens :
       /\ Known(c, t)
       /\ Start(q, [rec EXCEPT !.client = c, !.token = t, !.draft = d,
                               !.cur = Latest(d), !.status = drafts[d].status])

LabelBegin(q) ==
  /\ Ready(q, "label")
  /\ \E d \in Drafts : \E r \in RevsOf(d) :
       MetaBegin(q, d, {"active"}, [Idle EXCEPT !.stage = "label", !.base = r])

\* the foreign key of revision_labels aborts the batch if the revision went away
LabelCommit(q) ==
  /\ reqs[q].stage = "label"
  /\ labels' = IF MutationGuard(reqs[q]) /\ revs[reqs[q].base] # Missing
               THEN labels \cup {reqs[q].base} ELSE labels
  /\ Finish(q)
  /\ UNCHANGED <<drafts, revs, nextRev, ledger, leases, receipts, environment, acks>>

RenameBegin(q) ==
  /\ Ready(q, "rename")
  /\ \E d \in Drafts, n \in Names :
       MetaBegin(q, d, {"active"}, [Idle EXCEPT !.stage = "rename", !.name = n])

RenameCommit(q) ==
  /\ reqs[q].stage = "rename"
  /\ drafts' = IF MutationGuard(reqs[q])
               THEN [drafts EXCEPT ![reqs[q].draft].name = reqs[q].name] ELSE drafts
  /\ Finish(q)
  /\ UNCHANGED <<history, leases, receipts, environment, acks>>

StatusBegin(q) ==
  /\ Ready(q, "status")
  /\ \E d \in Drafts, to \in {"active", "archived"} :
       MetaBegin(q, d, {"active", "archived"}, [Idle EXCEPT !.stage = "status", !.aim = to])

NoViewsOf(d) == [a \in Actors |-> IF views[a] = d THEN None ELSE views[a]]

\* a real change of status also ends the checkout; asking for the same status only checks
StatusCommit(q) ==
  LET d == reqs[q].draft
      change == MutationGuard(reqs[q]) /\ reqs[q].status # reqs[q].aim
  IN
  /\ reqs[q].stage = "status"
  /\ IF change
     THEN /\ drafts' = [drafts EXCEPT ![d].status = reqs[q].aim]
          /\ checkouts' = [checkouts EXCEPT ![d] = Missing]
          /\ views' = NoViewsOf(d)
     ELSE UNCHANGED <<drafts, checkouts, views>>
  /\ Finish(q)
  /\ UNCHANGED <<history, tokens, receipts, environment, acks>>

-----------------------------------------------------------------------------
(* purgeDraft                                                              *)

\* (mutant) an active draft can be deleted too
PurgeBeginAny(q) ==
  /\ Ready(q, "purge")
  /\ \E d \in Drafts :
       MetaBegin(q, d, {"active", "archived"}, [Idle EXCEPT !.stage = "purgeCheck"])

PurgeBegin(q) ==
  /\ Ready(q, "purge")
  /\ \E d \in Drafts : MetaBegin(q, d, {"archived"}, [Idle EXCEPT !.stage = "purgeCheck"])

\* (mutant) only the latest revision is looked up among the publication inputs
UnpinnedLatest(d) == Latest(d) \notin pins

Unpinned(d) == pins \cap RevsOf(d) = {}

PurgeCheck(q) ==
  /\ reqs[q].stage = "purgeCheck"
  /\ IF Unpinned(reqs[q].draft) THEN Goto(q, "purgeCommit") ELSE Finish(q)
  /\ UNCHANGED <<Tables, environment, acks>>

\* (mutant) the receipts of the draft are deleted with it
DestroyReceipts(d) ==
  /\ drafts' = [drafts EXCEPT ![d] = [status |-> "purged", latest |-> 0, name |-> None]]
  /\ revs' = Without(RevsOf(d))
  /\ labels' = labels \ RevsOf(d)
  /\ checkouts' = [checkouts EXCEPT ![d] = Missing]
  /\ views' = NoViewsOf(d)
  /\ receipts' = [i \in Idents |->
       IF receipts[i] \notin {Missing, Gone} /\ receipts[i].draft = d THEN Missing
       ELSE receipts[i]]

\* draftDeletionStatements
Destroy(d) ==
  /\ drafts' = [drafts EXCEPT ![d] = [status |-> "purged", latest |-> 0, name |-> None]]
  /\ revs' = Without(RevsOf(d))
  /\ labels' = labels \ RevsOf(d)
  /\ checkouts' = [checkouts EXCEPT ![d] = Missing]
  /\ views' = NoViewsOf(d)
  /\ receipts' = [i \in Idents |->
       IF receipts[i] \notin {Missing, Gone} /\ receipts[i].draft = d THEN Gone
       ELSE receipts[i]]

PurgeCommit(q) ==
  /\ reqs[q].stage = "purgeCommit"
  /\ IF MutationGuard(reqs[q]) /\ Unpinned(reqs[q].draft)
     THEN Destroy(reqs[q].draft)
     ELSE UNCHANGED <<drafts, revs, labels, checkouts, views, receipts>>
  /\ Finish(q)
  /\ UNCHANGED <<nextRev, ledger, tokens, environment, acks>>

-----------------------------------------------------------------------------
(* RetentionService: plan, then apply in one batch that checks every row again *)

RetainBegin(q) ==
  /\ Ready(q, "retain")
  /\ \E r \in RevIds : Eligible(r)
  /\ Start(q, [Idle EXCEPT !.stage = "retain", !.plan = {r \in RevIds : Eligible(r)}])

RetainApply(q) ==
  /\ reqs[q].stage = "retain"
  /\ IF \A r \in reqs[q].plan : Eligible(r)
     THEN revs' = Without(reqs[q].plan)
     ELSE UNCHANGED revs
  /\ Finish(q)
  /\ UNCHANGED <<drafts, labels, nextRev, ledger, leases, receipts, environment, acks>>

-----------------------------------------------------------------------------
(* acquireCheckout, touchCheckout, releaseCheckout                         *)

AcquireBegin(q) ==
  /\ Ready(q, "acquire")
  /\ \E c \in Clients, d \in Drafts :
       /\ Exists(d)
       /\ Start(q, [Idle EXCEPT !.stage = "acquireCommit", !.client = c, !.draft = d,
                                           !.status = drafts[d].status, !.at = now])

ResumeBegin(q) ==
  /\ Ready(q, "resume")
  /\ \E c \in Clients, d \in Drafts :
       /\ drafts[d].status = "active"
       /\ Start(q, [Idle EXCEPT !.stage = "acquireRow", !.client = c, !.draft = d])

\* checkoutRow: the token the resuming client expects to replace
AcquireRow(q) ==
  /\ reqs[q].stage = "acquireRow"
  /\ IF checkouts[reqs[q].draft] = Missing
     THEN Finish(q)
     ELSE reqs' = [reqs EXCEPT ![q].stage = "acquireCommit",
                                ![q].token = checkouts[reqs[q].draft].token]
  /\ UNCHANGED <<Tables, environment, acks>>

\* a token is a fresh UUID; only one that reaches a row is ever shown to a client
FreshToken == {t \in Tokens : tokens[t] = None /\ \A s \in 1..(t - 1) : tokens[s] # None}

Lease(q, t, until) ==
  /\ checkouts' = [checkouts EXCEPT ![q.draft] =
                     [kind |-> "lease", client |-> q.client, token |-> t, expires |-> until]]
  /\ tokens' = [tokens EXCEPT ![t] = q.client]

MayResume(q) ==
  /\ IsEditor(Owner[q.client])
  /\ HoldsToken(q.draft, q.client, q.token)
  /\ checkouts[q.draft].client = q.client
  /\ drafts[q.draft].status = "active"

\* (mutant) the upsert lost its WHERE clause
MayTakeAny(q) ==
  /\ IsEditor(Owner[q.client])
  /\ drafts[q.draft].status = q.status

\* the row is free, out of date by the clock the handler read, or the same person's
MayTake(q) ==
  /\ IsEditor(Owner[q.client])
  /\ drafts[q.draft].status = q.status
  /\ \/ checkouts[q.draft] = Missing
     \/ checkouts[q.draft].expires <= q.at
     \/ Owner[checkouts[q.draft].client] = Owner[q.client]

ResumeCommit(q) ==
  /\ reqs[q].stage = "acquireCommit"
  /\ reqs[q].token # 0
  /\ IF MayResume(reqs[q])
     THEN \E t \in FreshToken : Lease(reqs[q], t, checkouts[reqs[q].draft].expires)
     ELSE UNCHANGED <<checkouts, tokens>>
  /\ Finish(q)
  /\ UNCHANGED <<drafts, history, views, receipts, environment, acks>>

AcquireCommit(q) ==
  /\ reqs[q].stage = "acquireCommit"
  /\ reqs[q].token = 0
  /\ IF MayTake(reqs[q])
     THEN \E t \in FreshToken : Lease(reqs[q], t, reqs[q].at + CheckoutTtl)
     ELSE UNCHANGED <<checkouts, tokens>>
  /\ Finish(q)
  /\ UNCHANGED <<drafts, history, views, receipts, environment, acks>>

TouchBegin(q) ==
  /\ Ready(q, "touch")
  /\ \E c \in Clients, t \in Tokens, d \in Drafts :
       /\ Known(c, t)
       /\ Exists(d)
       /\ Start(q, [Idle EXCEPT !.stage = "touch", !.client = c, !.token = t,
                                         !.draft = d, !.at = now])

\* both parts are optional: activity moves the expiry, a view state is remembered
TouchCommit(q) ==
  LET d == reqs[q].draft IN
  /\ reqs[q].stage = "touch"
  /\ IF MayResume(reqs[q])
     THEN /\ checkouts' \in {checkouts,
               [checkouts EXCEPT ![d].expires = reqs[q].at + CheckoutTtl]}
          /\ views' \in {views, [views EXCEPT ![Owner[reqs[q].client]] = d]}
     ELSE UNCHANGED <<checkouts, views>>
  /\ Finish(q)
  /\ UNCHANGED <<drafts, history, tokens, receipts, environment, acks>>

\* one statement; a checkout that has expired can still be released
Release(c, d) ==
  /\ "release" \in Events
  /\ IsEditor(Owner[c])
  /\ checkouts[d] # Missing
  /\ checkouts[d].client = c
  /\ checkouts' = [checkouts EXCEPT ![d] = Missing]
  /\ UNCHANGED <<drafts, history, views, tokens, receipts, environment, reqs, acks>>

-----------------------------------------------------------------------------
(* What happens around the repository.                                     *)

Tick ==
  /\ now < MaxTime
  /\ now' = now + 1
  /\ UNCHANGED <<Tables, editors, pins, reqs, acks>>

\* an administrator revokes or grants the editor role (admin/service.ts)
RoleChange(a) ==
  /\ "role" \in Events
  /\ editors' = IF a \in editors THEN editors \ {a} ELSE editors \cup {a}
  /\ UNCHANGED <<Tables, pins, now, reqs, acks>>

\* a publication job is created for the latest revision of an active draft
Publish(d) ==
  /\ "publish" \in Events
  /\ drafts[d].status = "active"
  /\ pins' = pins \cup {Latest(d)}
  /\ UNCHANGED <<Tables, editors, now, reqs, acks>>

\* publication retention deletes an old job together with its inputs
Retire(r) ==
  /\ r \in pins
  /\ pins' = pins \ {r}
  /\ UNCHANGED <<Tables, editors, now, reqs, acks>>

\* the process stops, or the runtime gives up on the request
Abandon(q) ==
  /\ reqs[q] # Idle
  /\ Finish(q)
  /\ UNCHANGED <<Tables, environment, acks>>

Handler(q) ==
  \/ CreateBegin(q) \/ CreateReplay(q) \/ CreateCommit(q) \/ CreateAbort(q) \/ CreateRace(q)
  \/ SaveBegin(q) \/ RestoreBegin(q) \/ RestoreSource(q) \/ SaveRead(q) \/ SaveAuthorize(q)
  \/ SaveReplay(q) \/ SavePayload(q) \/ SaveCommit(q) \/ SaveNoop(q) \/ SaveAbort(q)
  \/ SaveRace(q) \/ SaveRaceReplay(q) \/ AnswerCommitted(q)
  \/ LabelBegin(q) \/ LabelCommit(q) \/ RenameBegin(q) \/ RenameCommit(q)
  \/ StatusBegin(q) \/ StatusCommit(q) \/ PurgeBegin(q) \/ PurgeCheck(q) \/ PurgeCommit(q)
  \/ RetainBegin(q) \/ RetainApply(q)
  \/ AcquireBegin(q) \/ ResumeBegin(q) \/ AcquireRow(q) \/ AcquireCommit(q) \/ ResumeCommit(q)
  \/ TouchBegin(q) \/ TouchCommit(q)
  \/ Abandon(q)

Next ==
  \/ \E q \in Requests : Handler(q)
  \/ \E c \in Clients, d \in Drafts : Release(c, d)
  \/ Tick
  \/ \E a \in Actors : RoleChange(a)
  \/ \E d \in Drafts : Publish(d)
  \/ \E r \in RevIds : Retire(r)

Spec == Init /\ [][Next]_vars

-----------------------------------------------------------------------------
(* Properties.                                                             *)

\* A draft that exists has a stored latest revision, and it is the newest one: no step of
\* a save, a restore or retention leaves drafts.latest_revision_id behind or dangling.
LatestIsNewest ==
  \A d \in Drafts : Exists(d) =>
    /\ Latest(d) \in RevsOf(d)
    /\ \A r \in RevsOf(d) : r <= Latest(d)

\* Checkout tokens fence writers: along a draft's history they never go back to one that
\* was issued earlier, whatever was captured before a transfer, a release or a takeover.
FencedHistory ==
  \A r, s \in RevIds :
    revs[r] # Missing /\ revs[s] # Missing /\ revs[r].draft = revs[s].draft /\ r < s =>
      revs[r].token <= revs[s].token

\* One idempotency key of one actor writes at most one revision, however often and however
\* concurrently the request is sent, even after the draft was purged.
AtMostOncePerKey ==
  \A x, y \in ledger : x.ident = y.ident => x = y

\* A live receipt can always be replayed: the revision it answers with is still stored, in
\* the draft the receipt names (REQUEST_RECEIPT_CORRUPT is never raised).
ReceiptReadable ==
  \A i \in Idents : receipts[i] \notin {Missing, Gone} /\ receipts[i].expires > now =>
    receipts[i].rev \in RevsOf(receipts[i].draft)

\* Every stored revision can be decoded: the checkpoint its payload splices is stored in
\* full, in the same draft and inside the window (REVISION_CHECKPOINT_MISSING is never raised).
Decodable ==
  \A r \in RevIds : revs[r] # Missing /\ revs[r].base # 0 =>
    revs[r].base \in Checkpoints(revs[r].draft, revs[r].seq)

\* What retention leaves can be read: receipts lead to a revision, and revisions to their text.
RetainedReadable == ReceiptReadable /\ Decodable

\* An answer is never older than the write it answers: whoever is told that a save or a
\* create succeeded is shown its own revision or a newer one of the same draft.
AnswerCoversWrite ==
  \A x \in ledger : acks[x.ident] # 0 => acks[x.ident] >= x.rev

\* Purging leaves nothing behind: no revision, checkout, view state, label or live receipt
\* refers to a draft that is not there, and no publication input loses its revision.
NothingDangles ==
  /\ \A r \in RevIds : revs[r] # Missing => Exists(revs[r].draft)
  /\ \A d \in Drafts : checkouts[d] # Missing => Exists(d)
  /\ \A a \in Actors : views[a] # None => drafts[views[a]].status = "active"
  /\ \A i \in Idents : receipts[i] \notin {Missing, Gone} => Exists(receipts[i].draft)
  /\ \A r \in pins \cup labels : revs[r] # Missing

\* While a checkout is live nobody else takes it over: its row passes to another person only
\* after the clock has reached its expiry, or after it was given up.
NoTheft ==
  [][\A d \in Drafts :
       checkouts[d] # Missing /\ checkouts'[d] # Missing /\ checkouts[d].expires > now =>
         Owner[checkouts'[d].client] = Owner[checkouts[d].client]]_vars

=============================================================================
