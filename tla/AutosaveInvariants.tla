-------------------------- MODULE AutosaveInvariants --------------------------
(***************************************************************************)
(* The inductive invariants of Autosave, and the conditions under which    *)
(* they hold.  AutosaveProofs shows that they do.                          *)
(*                                                                         *)
(*   SaveInv   what a page queues, journals or sends contains its base     *)
(*   ShownInv  what a page shows waits, is saved, or is a gesture          *)
(*   KeptInv   every accepted edit is where some page says it is           *)
(***************************************************************************)
EXTENDS Autosave

-----------------------------------------------------------------------------
(* Types.                                                                  *)

Entries == [key : Nat \ {0}, doc : Document, base : Nat, attempt : Nat, ready : BOOLEAN]
Payloads == [base : Nat, actions : Seq(Entries)]
Unread == {"checking", "blocked"}
\* the values of state, recovery, discard and mutation
Words ==
  {"saved", "pending", "saving", "offline", "retrying", "conflict", "validation", "error",
   "checking", "blocked", "ready", "writing", "protected", "unavailable",
   "no", "loading", "clearing", "clearing to leave", "sent", "dirty", "stale"}
Tabs ==
  [page : {"open"}, token : Nat, draft : Nat, doc : Document, queue : Seq(Entries),
   staged : Seq(Entries), flight : BOOLEAN, state : Words, full : BOOLEAN, retryTimer : BOOLEAN,
   lost : BOOLEAN, recovery : Words, init : BOOLEAN, writing : Payloads \cup {NoWrite},
   next : Payloads \cup {NoWrite}, hasPayload : BOOLEAN, discard : Words, latest : Nat,
   mutation : Words, leaving : BOOLEAN]
Revisions == [doc : Document, key : Nat, kind : {"save", "change", "elsewhere"}]
Answers == {"none", "invalid", "authority", "saved", "conflict", "committed"}
Requests ==
  [page : Nat, kind : {"save", "change"}, key : Nat \ {0}, doc : Document, base : Nat,
   token : Nat, answer : Answers, rev : Nat]

-----------------------------------------------------------------------------
(* The inductive invariant.                                                *)

\* what a document may not lose: an edit the server refuses may be taken out of it
Clean(doc) == doc \ Bad
\* a document that may be saved on revision i
Stands(doc, i) == i \in DOMAIN history /\ history[i].doc \subseteq doc

\* no revision overwrites another, holds what the server refuses, or was written twice
HistoryOK ==
  /\ world \in Worlds /\ edits \in 0..world.edits /\ token \in Nat
  /\ history \in Seq(Revisions) /\ history # <<>>
  /\ \A i \in DOMAIN history : history[i].doc \cap Bad = {}
  /\ \A i, j \in DOMAIN history :
       history[i].key = history[j].key /\ history[i].key # Elsewhere => i = j
  /\ NothingOverwritten

\* entries in order: each contains the earlier ones, and only the first one has a base
Chain(s) ==
  /\ \A i, j \in DOMAIN s : i < j => Clean(s[i].doc) \subseteq s[j].doc
  /\ \A i \in DOMAIN s : i > 1 => s[i].base = 0
\* what load() gives back can be sent: the first entry stands on its base
PayloadSound(w) ==
  /\ w \in Payloads /\ Chain(w.actions)
  /\ w.actions = <<>> => w = Empty
  /\ w.actions # <<>> =>
       Stands(w.actions[1].doc, IF w.actions[1].base = 0 THEN w.base ELSE w.actions[1].base)
WriteSound(w) == w = NoWrite \/ PayloadSound(w)

\* how the fields of a controller go together, whoever has the checkout
Fit(x) ==
  /\ x.draft \in DOMAIN history
  /\ \A i \in DOMAIN x.queue : x.queue[i].base \in {0} \cup DOMAIN history
  /\ x.staged # <<>> => /\ Len(x.staged) = 1 /\ Len(x.queue) < MaxQueue
                        /\ x.staged[1].base = 0 /\ x.staged[1].key > MaxEdits
                        /\ x.doc \subseteq x.staged[1].doc
  /\ x.flight => /\ x.queue # <<>> /\ x.queue[1].ready /\ x.queue[1].base # 0
                 /\ x.init /\ x.discard = "no"
  /\ x.discard \in {"clearing", "clearing to leave"} => x.latest \in DOMAIN history
  /\ x.state = "validation" => Bad # {}
  /\ ~ x.init => /\ x.queue = <<>> /\ x.staged = <<>> /\ x.recovery \in Unread
                 /\ x.writing = NoWrite /\ x.next = NoWrite
  /\ x.init => x.recovery # "checking"

\* while a Library change is made, nothing has been shown since
Calm(x) == x.mutation \in {"checking", "sent"} => x.queue = <<>> /\ x.init

\* a controller whose saves overwrite nothing
Sound(x) ==
  /\ Chain(x.queue)
  /\ x.queue # <<>> =>
       Stands(x.queue[1].doc, IF x.queue[1].base = 0 THEN x.draft ELSE x.queue[1].base)
  /\ \A i \in DOMAIN x.queue : Clean(x.queue[i].doc) \subseteq x.doc
  /\ x.queue = <<>> => history[x.draft].doc \subseteq x.doc
  /\ WriteSound(x.writing) /\ WriteSound(x.next)

\* the pages whose saves may still be accepted, now or after a reload
Live(p) == tabs[p].token = token \/ journal.owner = p
RowOK(p) ==
  \/ tabs[p] \in {Closed, [page |-> "unused"]}
  \/ tabs[p] \in [page : {"opening"}, token : 0..token]
  \/ /\ tabs[p] \in Tabs /\ tabs[p].token <= token /\ Fit(tabs[p]) /\ Calm(tabs[p])
     /\ Live(p) \/ ~ tabs[p].init => Sound(tabs[p])
Present(p) == tabs[p].page \in {"opening", "open"}
PagesOK ==
  /\ DOMAIN tabs = Pages
  /\ \A p \in Pages : RowOK(p)
  /\ \A p, q \in Pages : Present(p) /\ Present(q) /\ tabs[p].token = tabs[q].token => p = q

JournalOK ==
  /\ journal = [owner |-> journal.owner, payload |-> journal.payload]
  /\ PayloadSound(journal.payload)

\* a page has at most one save under way, and it carries the head of the queue
Carries(r, x) ==
  x.flight /\ r.key = x.queue[1].key /\ r.doc = x.queue[1].doc /\ r.base = x.queue[1].base
RequestOK(r) ==
  /\ r.token <= token
  /\ r.page = 0 => r.answer = "none"
  /\ r.page # 0 =>
       /\ r.page \in Pages /\ IsOpen(r.page) /\ tabs[r.page].token = r.token
       /\ r.kind = "save" => Carries(r, tabs[r.page])
  /\ r.token = token => Stands(r.doc, r.base)
  /\ r.answer = "invalid" => Bad # {}
  /\ r.answer = "saved" =>
       /\ r.rev \in DOMAIN history
       /\ r.kind = "save" /\ Live(r.page) => history[r.rev].doc = r.doc
\* a save that committed is read back before anyone else has saved
Done(r) == r.kind = "save" /\ r.answer = "committed"
DoneOK(r) ==
  Live(r.page) =>
  /\ Len(history) = r.base + 1 /\ Last(history).doc = r.doc
  /\ \A s \in net : s.token = r.token => s.base <= r.base
  /\ r.token # token =>
       /\ \A q \in Pages : IsOpen(q) /\ tabs[q].token = token => ~ tabs[q].init
       /\ \A s \in net : s.token # token
NetOK ==
  /\ net \subseteq Requests
  /\ \A r \in net : RequestOK(r) /\ (Done(r) => DoneOK(r))
  /\ \A r, s \in net : r.kind = "save" /\ s.kind = "save" /\ r.page = s.page /\ r.page # 0 => r = s

\* nobody saves between a commit and the second getDraft that answers it
ReadsInTime == "late read" \notin Events

SaveInv == online \in BOOLEAN /\ HistoryOK /\ PagesOK /\ JournalOK /\ NetOK

\* A document that the server refused is corrected only when nothing waits behind it and its
\* base is the revision the page has loaded.  The code does not ensure it, and without it
\* work is overwritten.
CorrectionsAreSafe ==
  \A p \in OpenPages : LET x == tabs[p] IN
    Corrects(x) => Len(x.queue) = 1 /\ x.queue[1].base = x.draft

-----------------------------------------------------------------------------
(* Conditions on the surroundings.                                         *)

\* the surroundings in which another client saves only after the read that answers a commit
PromptReads == \A w \in Worlds : "late read" \notin w.events
\* the surroundings in which the server refuses no document
NothingRefused == \A w \in Worlds : w.bad = {}
\* the surroundings in which a page is not duplicated while the journal may fail
JournalOrOnePage == \A w \in Worlds : ~ ({"duplicate", "journal fails"} \subseteq w.events)
\* the surroundings in which a page is not duplicated
OnePage == \A w \in Worlds : "duplicate" \notin w.events

-----------------------------------------------------------------------------
(* "All changes saved": the document a page shows is the last one that     *)
(* waits, the one the server holds, or the gesture under way.  Only a page *)
(* that lost the checkout and the journal can hear of a revision that is   *)
(* not its own; it says so, because its journal write is refused.          *)

Shows(x) == x.doc = LastDoc(x) \/ (x.staged # <<>> /\ x.doc = x.staged[1].doc)
\* the journal has a write to answer, or has refused one
Adrift(x) == x.init /\ (x.writing # NoWrite \/ x.recovery = "blocked")
Duplicates == "duplicate" \in Events
JournalMayFail == "journal fails" \in Events
Displayed(p, x) == Shows(x) \/ (Duplicates /\ ~ Live(p) /\ Adrift(x))

\* without a duplicated page there is one page at a time, which owns the journal it has read
Alone ==
  ~ Duplicates =>
    /\ \A p, q \in Pages : Present(p) /\ Present(q) => p = q
    /\ \A p \in Pages : IsOpen(p) /\ tabs[p].init => journal.owner = p
ShownInv ==
  /\ Alone
  /\ \A p \in Pages : IsOpen(p) =>
       /\ tabs[p].recovery = "unavailable" => JournalMayFail
       /\ Displayed(p, tabs[p])

-----------------------------------------------------------------------------
(* What a page answers for: the edits of its queue and of the gesture      *)
(* under way.                                                              *)

Gesture(x) == IF x.staged = <<>> THEN {} ELSE {x.staged[1].key - MaxEdits} \cap x.staged[1].doc
Held(x) == EditsOf(x.queue) \cup Gesture(x)
Wrote(w) == IF w = NoWrite THEN {} ELSE EditsOf(w.actions)
Newest(x) == IF x.next # NoWrite THEN x.next ELSE x.writing
\* the page says that what waits is in the journal, or that nothing waits
Quiet(x) == x.init /\ x.recovery \in {"ready", "protected"}
\* the last of the entries contains the others
Sorted(s, lost) == s # <<>> => EditsOf(s) \subseteq Last(s).doc \cup lost
\* no edit comes from nowhere
Within(x, known) ==
  /\ x.doc \subseteq known /\ EditsOf(x.queue) \subseteq known /\ EditsOf(x.staged) \subseteq known
  /\ Wrote(x.writing) \subseteq known /\ Wrote(x.next) \subseteq known
\* how the state that is shown of recovery goes with the two writes before the journal
Recorded(x) ==
  /\ x.init => /\ x.recovery \in {"ready", "protected", "writing", "blocked", "unavailable"}
               /\ (x.recovery = "writing" <=> x.writing # NoWrite)
  /\ ~ x.init => x.writing = NoWrite
  /\ x.next # NoWrite => x.writing # NoWrite
\* what is shown and what comes later contain what waits, apart from what was dropped
Ordered(x, lost) ==
  /\ Sorted(x.queue, lost) /\ EditsOf(x.queue) \subseteq x.doc \cup lost
  /\ x.staged # <<>> =>
       /\ Len(x.staged) = 1
       /\ EditsOf(x.queue) \subseteq x.staged[1].doc \cup lost
       /\ x.staged[1].doc \subseteq x.doc \cup {x.staged[1].key - MaxEdits}
       /\ Gesture(x) \cap EditsOf(x.queue) = {}
\* a write that is still to land claims nothing that the page does not hold, and loses nothing
\* that another page relies on
WriteFits(w, x, v) ==
  w # NoWrite => /\ Sorted(w.actions, v.lost)
                 /\ v.claims \cap EditsOf(w.actions) \subseteq v.settled \cup Held(x)
                 /\ v.guarded \subseteq v.settled \cup EditsOf(w.actions)
\* The view v of a page: the edits that are claimed, settled, dropped and made, and what is in
\* the journal; the owner of the journal also answers for the claims it holds (held), and for
\* what other pages take for protected (guarded).
Loose(x, v) ==
  /\ Recorded(x) /\ Within(x, v.known) /\ Ordered(x, v.lost)
  /\ v.claims \cap x.doc \subseteq v.settled \cup Held(x)
  /\ v.held \subseteq v.settled \cup Held(x)
  /\ v.guarded \subseteq v.settled \cup EditsOf(x.queue)
  /\ WriteFits(x.writing, x, v) /\ WriteFits(x.next, x, v)
\* ... and what the page has is in its newest write, or in the journal when it says so
Safe(x, v) ==
  /\ Loose(x, v)
  /\ x.writing # NoWrite => v.claims \cap Held(x) \subseteq v.settled \cup Wrote(Newest(x))
  /\ Quiet(x) => v.claims \cap Held(x) \subseteq v.settled \cup v.journaled

-----------------------------------------------------------------------------
(* The ledger of all pages: what is claimed, what is settled, and what the *)
(* page that owns the journal has to keep in it for the others.            *)

Claims == accepted \cup UNION {Gesture(tabs[p]) : p \in OpenPages}
Settled == dropped \cup Last(history).doc
Made == 1..edits
Journaled == EditsOf(journal.payload.actions)
Owner(p) == IsOpen(p) /\ tabs[p].init /\ journal.owner = p
\* claims that another page takes for protected
Guarded(q) == {e \in Claims : \E p \in OpenPages : p # q /\ Quiet(tabs[p]) /\ e \in Held(tabs[p])}
View(p) ==
  [claims |-> Claims, settled |-> Settled, lost |-> dropped, known |-> Made,
   journaled |-> Journaled,
   held |-> IF Owner(p) THEN Claims \cap Journaled ELSE {},
   guarded |-> IF Owner(p) THEN Guarded(p) ELSE {}]
\* an edit is made in one page, and is accepted once
Unique ==
  /\ \A p \in OpenPages : Gesture(tabs[p]) \cap accepted = {}
  /\ \A p, q \in OpenPages : p # q => Gesture(tabs[p]) \cap Gesture(tabs[q]) = {}
\* only edits that were made are anywhere
Known ==
  /\ accepted \subseteq Made /\ Journaled \subseteq Made
  /\ \A i \in DOMAIN history : history[i].doc \subseteq Made
\* the latest revision contains the others
Grown == \A i \in DOMAIN history : history[i].doc \subseteq Last(history).doc
\* what a save was answered with is in the draft
Answered ==
  \A r \in net : /\ r.doc \subseteq Made
                 /\ r.kind = "save" /\ r.answer \in {"committed", "saved"} =>
                      r.doc \subseteq Last(history).doc
Guards == \A p \in OpenPages : Safe(tabs[p], View(p))
KeptInv ==
  /\ Accounted /\ Unique /\ Known /\ Grown /\ Answered
  /\ Sorted(journal.payload.actions, dropped) /\ Guards

\* A page that leaves with work in its queue owns the journal.  The code does not ensure it:
\* an edit that is made while the checkout is released is in the journal only when no
\* duplicate of the page has taken the journal over.
LeavesItsWork == \A p \in Pages : Leaves(p) => tabs[p].queue = <<>> \/ journal.owner = p
=============================================================================
