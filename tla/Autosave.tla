------------------------------ MODULE Autosave ------------------------------
(***************************************************************************)
(* The autosave of the editor (src/client/editor/action-autosave.ts), its  *)
(* crash journal in IndexedDB (pending-journal.ts) and the provider and    *)
(* route that drive both, against the draft repository, of which a tab     *)
(* sees one register (module DraftRegister).                               *)
(*                                                                         *)
(* A document is the set of edits it contains.  A page runs one callback   *)
(* at a time; in between requests travel, the journal writes, timers fire, *)
(* the page dies or is duplicated, and other clients take the checkout.    *)
(***************************************************************************)
EXTENDS Naturals, Sequences

CONSTANTS
  MaxRetries,   \* the number of retryDelaysMs (3)
  MaxEdits,     \* bound: edits ever made, by anyone
  MaxPages,     \* bound: pages of this client ever opened
  Worlds        \* the surroundings an editor may be opened in, each a record of
                \*   events  what else may happen, besides edits, saves and answers
                \*   bad     edits that make a document unacceptable to the server (413, 422)
                \*   queue   maxQueue (250)
                \*   edits, pages   bounds within MaxEdits and MaxPages
                \*   faults  bound: requests that fail or are lost, writes that fail,
                \*           losses of the connection and of the checkout

ASSUME AutosaveAssumption ==
  /\ MaxRetries \in Nat /\ MaxEdits \in Nat /\ MaxPages \in Nat \ {0}
  /\ \A w \in Worlds :
       /\ w.bad \subseteq 1..MaxEdits
       /\ w.queue \in Nat \ {0} /\ w.faults \in Nat
       /\ w.edits \in 0..MaxEdits /\ w.pages \in 1..MaxPages

VARIABLES
  world,     \* the surroundings of this behaviour, which never change
  tabs,      \* per page: its controller, or Closed
  online,    \* navigator.onLine
  journal,   \* the journal record of this client: the page that owns it, and its payload
  history,   \* server: the revisions of the draft
  token,     \* server: the checkout token that is valid now
  net,       \* requests under way and their answers
  edits,     \* counter of edits
  faults,    \* counter of faults
  accepted,  \* ghost: edits the editor has taken from the user
  dropped    \* ghost: edits the user discarded, or lost after a warning, and the keys of
             \* the entries discarded, which may have been saved without the page hearing of it

server == <<history, token>>
counters == <<edits, faults>>
ghosts == <<accepted, dropped>>
vars == <<world, tabs, online, journal, server, net, counters, ghosts>>

Events == world.events
Bad == world.bad
MaxQueue == world.queue
Pages == 1..MaxPages
Edits == 1..MaxEdits
Document == SUBSET Edits
Key(e) == e
StagedKey(e) == MaxEdits + e      \* a staged entry has an identity of its own
Elsewhere == 0                    \* the key of a revision that no autosave wrote
Stopped == {"conflict", "validation", "error"}

Empty == [base |-> 0, actions |-> <<>>]   \* a journal without pending work
NoWrite == [base |-> 0]
Closed == [page |-> "closed"]
Opening(t) == [page |-> "opening", token |-> t]
IsOpen(p) == tabs[p].page = "open"
OpenPages == {p \in Pages : IsOpen(p)}

Entry(key, doc, base, ready) ==
  [key |-> key, doc |-> doc, base |-> base, attempt |-> 0, ready |-> ready]
Last(s) == s[Len(s)]
EditsOf(entries) == UNION {entries[i].doc : i \in DOMAIN entries}
KeysOf(entries) == {entries[i].key : i \in DOMAIN entries}

\* a controller as the constructor leaves it, with a journal that is not read yet
Controller(t, draft) ==
  [page |-> "open", token |-> t, draft |-> draft, doc |-> history[draft].doc,
   queue |-> <<>>, staged |-> <<>>, flight |-> FALSE, state |-> "saved", full |-> FALSE,
   retryTimer |-> FALSE, lost |-> FALSE, recovery |-> "checking", init |-> FALSE,
   writing |-> NoWrite, next |-> NoWrite, hasPayload |-> FALSE,
   discard |-> "no", latest |-> 0, mutation |-> "no", leaving |-> FALSE]

LastDoc(x) == IF x.queue = <<>> THEN history[x.draft].doc ELSE Last(x.queue).doc

\* canLeave, as makeSnapshot computes it
CanLeave(x) ==
  /\ x.queue = <<>> /\ x.staged = <<>> /\ ~x.flight /\ x.discard = "no"
  /\ x.writing = NoWrite /\ ~x.hasPayload
  /\ x.recovery \notin {"checking", "blocked"}

-----------------------------------------------------------------------------
(* The methods of the controller, from its record before to its record after. *)

\* what load() would give back: every stored action is ready and has no attempts
Stored(entry) == Entry(entry.key, entry.doc, entry.base, TRUE)
Payload(x) ==
  LET pending == x.queue \o x.staged IN
  IF pending = <<>> THEN Empty
  ELSE [base |-> x.draft, actions |-> [i \in DOMAIN pending |-> Stored(pending[i])]]

Schedule(x, retry) ==
  IF ~x.init \/ (x.recovery = "unavailable" /\ ~retry) THEN x
  ELSE IF x.writing = NoWrite
       THEN [x EXCEPT !.recovery = "writing", !.writing = Payload(x)]
       ELSE [x EXCEPT !.recovery = "writing", !.next = Payload(x)]

SetWaiting(x) ==
  LET y == Schedule(x, FALSE) IN
  IF y.state \in Stopped THEN y
  ELSE [y EXCEPT !.full = FALSE,
                 !.state = IF ~online THEN "offline"
                           ELSE IF y.flight \/ y.retryTimer THEN @ ELSE "pending"]

\* #pump: the guards in the order of the code; a base must be journaled before it is sent
Idle(x) ==
  \/ x.lost \/ x.discard # "no" \/ x.flight \/ x.retryTimer
  \/ x.recovery \in {"checking", "blocked"} \/ x.state \in Stopped
WithBase(x) ==
  IF Head(x.queue).base # 0 THEN x
  ELSE Schedule([x EXCEPT !.queue[1].base = x.draft], FALSE)
Send(x) ==
  IF x.writing # NoWrite /\ x.recovery # "unavailable" THEN x
  ELSE [x EXCEPT !.flight = TRUE, !.state = "saving", !.full = FALSE]
Pump(x, on) ==
  IF Idle(x) THEN x
  ELSE IF x.queue = <<>>
       THEN [x EXCEPT !.state = IF x.staged = <<>> THEN "saved" ELSE "pending", !.full = FALSE]
  ELSE IF ~Head(x.queue).ready THEN [x EXCEPT !.state = "pending"]
  ELSE IF ~on THEN [x EXCEPT !.state = "offline"]
  ELSE Send(WithBase(x))

Unready(x) == \E i \in DOMAIN x.queue : ~x.queue[i].ready
Flush(x) ==
  IF ~Unready(x) THEN x
  ELSE Pump(SetWaiting([x EXCEPT !.queue = [i \in DOMAIN @ |-> [@[i] EXCEPT !.ready = TRUE]]]),
            online)

MayEdit(x) == ~x.lost /\ x.discard = "no" /\ x.recovery \notin {"checking", "blocked"}
Waiting == IF online THEN "pending" ELSE "offline"

\* complete(): a document refused by the server is replaced in place, with a new identity
Corrects(x) == x.state = "validation" /\ x.queue # <<>> /\ ~x.flight
Correct(x, key, doc, text) ==
  LET y == Schedule([x EXCEPT !.doc = doc, !.queue[1] = Entry(key, doc, 0, ~text),
                              !.state = Waiting, !.full = FALSE], FALSE)
  IN IF text THEN y ELSE Pump(y, online)
Coalesces(x, same) == same /\ x.queue # <<>> /\ ~Last(x.queue).ready
Push(x, key, doc, text) ==
  SetWaiting([Flush(x) EXCEPT !.doc = doc, !.queue = Append(@, Entry(key, doc, 0, ~text))])
Refuse(x) == [x EXCEPT !.state = "error", !.full = TRUE]

Complete(x, key, doc, text, same) ==
  LET y == [x EXCEPT !.staged = <<>>] IN
  IF Corrects(y) THEN Correct(y, key, doc, text)
  ELSE IF Len(y.queue) >= MaxQueue THEN Refuse(y)
  ELSE IF ~text THEN Pump(Push(y, key, doc, FALSE), online)
  ELSE IF Coalesces(y, same)
       THEN SetWaiting([y EXCEPT !.doc = doc, !.queue[Len(y.queue)].doc = doc])
       ELSE Push(y, key, doc, TRUE)
Accepts(x) == Corrects(x) \/ Len(x.queue) < MaxQueue

\* stage(): a gesture that is not finished; staging the last document again ends it
Stage(x, key, doc, render) ==
  LET gesture == IF doc = LastDoc(x) THEN <<>>
                 ELSE IF x.staged = <<>> THEN <<Entry(key, doc, 0, FALSE)>>
                 ELSE <<[x.staged[1] EXCEPT !.doc = doc]>>
      y == [x EXCEPT !.staged = gesture, !.doc = IF render THEN doc ELSE @]
      z == IF y.state \in Stopped THEN y
           ELSE [y EXCEPT !.state = IF gesture # <<>> THEN "pending"
                                    ELSE IF y.queue # <<>> THEN @ ELSE "saved"]
  IN IF Len(x.queue) >= MaxQueue THEN Refuse(x) ELSE Schedule(z, FALSE)

RetryNow(x) ==
  LET y == IF x.recovery = "unavailable" THEN Schedule(x, TRUE) ELSE x IN
  IF y.lost \/ y.state = "conflict" \/ y.queue = <<>> THEN y
  ELSE Pump([y EXCEPT !.retryTimer = FALSE, !.queue[1].attempt = 0,
                      !.state = Waiting, !.full = FALSE], online)

StopForAuthority(x) == [x EXCEPT !.lost = TRUE, !.retryTimer = FALSE]

ReplaceWithLatest(x, draft) ==
  Schedule([x EXCEPT !.retryTimer = FALSE, !.queue = <<>>, !.staged = <<>>, !.flight = FALSE,
                     !.draft = draft, !.doc = history[draft].doc, !.state = "saved",
                     !.full = FALSE], FALSE)

\* (mutant) an acknowledgement is taken for every entry that was ready
AcknowledgeReady(x, draft) ==
  LET rest == SelectSeq(x.queue, LAMBDA entry : ~entry.ready) IN
  Pump(Schedule([x EXCEPT !.queue = rest, !.draft = draft, !.flight = FALSE,
                          !.state = IF rest = <<>> /\ x.staged = <<>> THEN "saved"
                                    ELSE "pending"], FALSE), online)
\* (mutant) an acknowledgement does not advance the base of the next entry
AcknowledgeInPlace(x, draft) ==
  LET rest == Tail(x.queue) IN
  Pump(Schedule([x EXCEPT !.queue = rest, !.flight = FALSE,
                          !.state = IF rest = <<>> /\ x.staged = <<>> THEN "saved"
                                    ELSE "pending"], FALSE), online)

Acknowledge(x, draft) ==
  LET rest == Tail(x.queue) IN
  Pump(Schedule([x EXCEPT !.queue = rest, !.draft = draft, !.flight = FALSE,
                          !.state = IF rest = <<>> /\ x.staged = <<>> THEN "saved"
                                    ELSE "pending"], FALSE), online)

\* the catch clause of #pump; "failure" is no answer, 429 or a server error
Fail(x, answer) ==
  LET y == [x EXCEPT !.flight = FALSE] IN
  CASE answer = "authority" -> StopForAuthority(y)
    [] answer # "authority" /\ ~online -> [y EXCEPT !.state = "offline"]
    [] answer = "conflict" /\ online -> [y EXCEPT !.state = "conflict"]
    [] answer = "invalid" /\ online -> [y EXCEPT !.state = "validation"]
    [] answer = "failure" /\ online ->
         IF Head(x.queue).attempt < MaxRetries
         THEN [y EXCEPT !.queue[1].attempt = @ + 1, !.state = "retrying", !.retryTimer = TRUE]
         ELSE [y EXCEPT !.state = "error"]

-----------------------------------------------------------------------------
(* Emitting a snapshot, and sending what #pump decided to send.            *)

\* a new snapshot: lost authority shows as an error, and a saved mutation notices the change
Emitted(x) ==
  [x EXCEPT !.state = IF x.lost THEN "error" ELSE @,
            !.mutation = CASE @ = "checking" -> "dirty" [] @ = "sent" -> "stale" [] OTHER -> @]

Request(p, kind, x, entry) ==
  [page |-> p, kind |-> kind, key |-> entry.key, doc |-> entry.doc, base |-> entry.base,
   token |-> x.token, answer |-> "none", rev |-> 0]
Sent(p, before, after) ==
  IF after.flight /\ ~before.flight THEN {Request(p, "save", after, Head(after.queue))} ELSE {}

Step(p, x) ==
  /\ tabs' = [tabs EXCEPT ![p] = Emitted(x)]
  /\ net' = net \cup Sent(p, tabs[p], x)
Fault == faults < world.faults /\ faults' = faults + 1

-----------------------------------------------------------------------------
(* The user, the timers and the browser.                                   *)

Edit(p) ==
  /\ IsOpen(p) /\ MayEdit(tabs[p]) /\ tabs[p].staged = <<>>
  /\ edits < world.edits
  /\ \E text, same, fix \in BOOLEAN :
       LET x == tabs[p]
           e == edits + 1
           doc == (IF fix THEN x.doc \ Bad ELSE x.doc) \cup {e}
       IN /\ same => text /\ "text" \in Events
          /\ text => "text" \in Events
          /\ fix => x.doc \cap Bad # {}
          /\ Step(p, Complete(x, Key(e), doc, text, same))
          /\ edits' = e
          /\ accepted' = IF Accepts(x) THEN accepted \cup {e} ELSE accepted
          /\ dropped' = IF fix /\ Accepts(x) THEN dropped \cup (x.doc \cap Bad) ELSE dropped
  /\ UNCHANGED <<world, online, journal, server, faults>>

BeginGesture(p) ==
  /\ "gesture" \in Events
  /\ IsOpen(p) /\ MayEdit(tabs[p]) /\ tabs[p].staged = <<>>
  /\ edits < world.edits /\ edits' = edits + 1
  /\ \E render \in BOOLEAN :
       Step(p, Stage(tabs[p], StagedKey(edits'), tabs[p].doc \cup {edits'}, render))
  /\ UNCHANGED <<world, online, journal, server, faults, ghosts>>

FinishGesture(p) ==
  /\ IsOpen(p) /\ MayEdit(tabs[p]) /\ tabs[p].staged # <<>>
  /\ LET x == tabs[p]
         key == x.staged[1].key - MaxEdits
     IN /\ Step(p, Complete(x, key, x.staged[1].doc, FALSE, FALSE))
        /\ accepted' = IF Accepts(x) THEN accepted \cup ({key} \cap x.staged[1].doc) ELSE accepted
  /\ UNCHANGED <<world, online, journal, server, counters, dropped>>

\* a pointer gesture that was not rendered is taken back by staging the shown document
CancelGesture(p) ==
  /\ IsOpen(p) /\ MayEdit(tabs[p]) /\ tabs[p].staged # <<>>
  /\ tabs[p].doc # tabs[p].staged[1].doc
  /\ Step(p, Stage(tabs[p], tabs[p].staged[1].key, tabs[p].doc, FALSE))
  /\ UNCHANGED <<world, online, journal, server, counters, ghosts>>

\* the text timer, which runs as long as an entry is not ready, or focus leaves the field
FlushText(p) ==
  /\ IsOpen(p) /\ Unready(tabs[p])
  /\ Step(p, Flush(tabs[p]))
  /\ UNCHANGED <<world, online, journal, server, counters, ghosts>>

RetryTimer(p) ==
  /\ IsOpen(p) /\ tabs[p].retryTimer
  /\ Step(p, Pump([tabs[p] EXCEPT !.retryTimer = FALSE], online))
  /\ UNCHANGED <<world, online, journal, server, counters, ghosts>>

\* the Retry autosave and Retry recovery buttons
Retry(p) ==
  /\ IsOpen(p)
  /\ tabs[p].state \in {"error", "validation"} \/ tabs[p].recovery \in {"blocked", "unavailable"}
  /\ tabs[p].discard = "no" /\ tabs[p].recovery # "checking"
  /\ Step(p, IF tabs[p].init THEN RetryNow(tabs[p])
             ELSE [tabs[p] EXCEPT !.recovery = "checking"])
  /\ UNCHANGED <<world, online, journal, server, counters, ghosts>>

\* a touch or validation of the checkout finds that it moved
Heartbeat(p) ==
  /\ IsOpen(p) /\ ~tabs[p].lost
  /\ tabs[p].token # token
  /\ Step(p, StopForAuthority(tabs[p]))
  /\ UNCHANGED <<world, online, journal, server, counters, ghosts>>

GoOffline ==
  /\ "offline" \in Events
  /\ online /\ online' = FALSE
  /\ Fault
  /\ tabs' = [p \in Pages |->
       IF IsOpen(p) /\ ~tabs[p].lost /\ tabs[p].queue # <<>>
       THEN Emitted([tabs[p] EXCEPT !.state = "offline"]) ELSE tabs[p]]
  /\ UNCHANGED <<world, journal, server, net, edits, ghosts>>

\* (mutant) a connection that returns changes the message only
ResumedIdle(x) ==
  IF ~x.lost /\ (x.state = "offline" \/ x.full)
  THEN [x EXCEPT !.state = "pending", !.full = FALSE] ELSE x

Resumed(x) ==
  IF ~x.lost /\ (x.state = "offline" \/ x.full)
  THEN Pump([x EXCEPT !.state = "pending", !.full = FALSE], TRUE) ELSE x
GoOnline ==
  /\ ~online /\ online' = TRUE
  /\ tabs' = [p \in Pages |->
       IF IsOpen(p) /\ Resumed(tabs[p]) # tabs[p] THEN Emitted(Resumed(tabs[p])) ELSE tabs[p]]
  /\ net' = net \cup UNION {Sent(p, tabs[p], tabs'[p]) : p \in OpenPages}
  /\ UNCHANGED <<world, journal, server, counters, ghosts>>

-----------------------------------------------------------------------------
(* The journal: #writeJournal, and #loadJournal, which takes the ownership. *)

Landed(x) == [journal EXCEPT !.payload = x]

\* (mutant) the journal does not test its owner
JournalDoneAny(p) ==
  /\ IsOpen(p) /\ tabs[p].writing # NoWrite
  /\ journal' = [owner |-> p, payload |-> tabs[p].writing]
  /\ LET x == [tabs[p] EXCEPT !.hasPayload = (tabs[p].writing # Empty), !.next = NoWrite,
                              !.writing = tabs[p].next]
     IN IF x.writing # NoWrite
        THEN tabs' = [tabs EXCEPT ![p] = x] /\ net' = net
        ELSE Step(p, Pump([x EXCEPT !.recovery = IF x.hasPayload THEN "protected" ELSE "ready"],
                          online))
  /\ UNCHANGED <<world, online, server, counters, ghosts>>

JournalDone(p) ==
  /\ IsOpen(p) /\ tabs[p].writing # NoWrite
  /\ journal.owner = p
  /\ journal' = Landed(tabs[p].writing)
  /\ LET x == [tabs[p] EXCEPT !.hasPayload = (tabs[p].writing # Empty), !.next = NoWrite,
                              !.writing = tabs[p].next]
     IN IF x.writing # NoWrite
        THEN tabs' = [tabs EXCEPT ![p] = x] /\ net' = net
        ELSE Step(p, Pump([x EXCEPT !.recovery = IF x.hasPayload THEN "protected" ELSE "ready"],
                          online))
  /\ UNCHANGED <<world, online, server, counters, ghosts>>

\* another page of the same client has opened the journal: PendingJournalError ownership
JournalOwned(p) ==
  /\ IsOpen(p) /\ tabs[p].writing # NoWrite
  /\ journal.owner # p
  /\ Step(p, [tabs[p] EXCEPT !.recovery = "blocked", !.writing = NoWrite, !.next = NoWrite])
  /\ UNCHANGED <<world, online, journal, server, counters, ghosts>>

JournalFails(p) ==
  /\ "journal fails" \in Events
  /\ IsOpen(p) /\ tabs[p].writing # NoWrite
  /\ Fault
  /\ Step(p, Pump([tabs[p] EXCEPT !.recovery = "unavailable", !.writing = NoWrite,
                                  !.next = NoWrite], online))
  /\ UNCHANGED <<world, online, journal, server, edits, ghosts>>

\* (mutant) recovered work is based on what the page has just loaded
RecoveredOnLatest(x, payload) ==
  Schedule([x EXCEPT !.queue = [payload.actions EXCEPT ![1].base = x.draft],
                     !.doc = Last(payload.actions).doc, !.state = "pending"], FALSE)

Recovered(x, payload) ==
  LET first == Head(payload.actions).base IN
  Schedule([x EXCEPT !.queue = [payload.actions EXCEPT ![1].base =
                                  IF first = 0 THEN payload.base ELSE first],
                     !.doc = Last(payload.actions).doc, !.state = "pending"], FALSE)

LoadJournal(p) ==
  /\ IsOpen(p) /\ tabs[p].recovery = "checking"
  /\ journal' = [journal EXCEPT !.owner = p]
  /\ LET x == [tabs[p] EXCEPT !.init = TRUE, !.recovery = "ready",
                              !.hasPayload = (journal.payload # Empty)]
     IN Step(p, Pump(IF x.hasPayload THEN Recovered(x, journal.payload) ELSE x, online))
  /\ UNCHANGED <<world, online, server, counters, ghosts>>

LoadFails(p) ==
  /\ "journal fails" \in Events
  /\ IsOpen(p) /\ tabs[p].recovery = "checking"
  /\ Fault
  /\ \E owner \in {journal.owner, p} : journal' = [journal EXCEPT !.owner = owner]
  /\ Step(p, [tabs[p] EXCEPT !.recovery = "blocked"])
  /\ UNCHANGED <<world, online, server, edits, ghosts>>

-----------------------------------------------------------------------------
(* The draft repository, as DraftStore implements it, and the answers.     *)

Written(r) == {i \in DOMAIN history : history[i].key = r.key}
SameInput(r, i) == history[i].doc = r.doc /\ i = r.base + 1

Verdict(r) ==
  CASE r.doc \cap Bad # {} -> "invalid"
    [] OTHER -> IF r.token # token THEN "authority"
                ELSE IF \E i \in Written(r) : SameInput(r, i) THEN "saved"
                ELSE IF Written(r) # {} THEN "authority"
                ELSE IF r.base # Len(history) THEN "conflict" ELSE "committed"

Serve(r) ==
  /\ r.answer = "none"
  /\ history' = IF Verdict(r) = "committed"
                THEN Append(history, [doc |-> r.doc, key |-> r.key, kind |-> r.kind])
                ELSE history
  /\ LET answered == [r EXCEPT !.answer = Verdict(r),
                               !.rev = IF Verdict(r) = "saved"
                                       THEN CHOOSE i \in Written(r) : TRUE ELSE 0]
     IN net' = (net \ {r}) \cup (IF r.page = 0 THEN {} ELSE {answered})
  /\ UNCHANGED <<world, tabs, online, journal, token, counters, ghosts>>

\* a save that committed is answered with a second getDraft
ReadBack(r) ==
  /\ r.answer = "committed"
  /\ net' = (net \ {r}) \cup {[r EXCEPT !.answer = "saved", !.rev = Len(history)]}
  /\ UNCHANGED <<world, tabs, online, journal, server, counters, ghosts>>

Hear(r) ==
  /\ r.kind = "save" /\ r.page # 0
  /\ r.answer \notin {"none", "committed"}
  /\ LET x == tabs[r.page]
         y == IF r.answer = "saved" THEN Acknowledge(x, r.rev) ELSE Fail(x, r.answer)
     IN /\ tabs' = [tabs EXCEPT ![r.page] = Emitted(y)]
        /\ net' = (net \ {r}) \cup Sent(r.page, [x EXCEPT !.flight = FALSE], y)
  /\ UNCHANGED <<world, online, journal, server, counters, ghosts>>

\* the page hears of a failure: the request may have been served, or may still be
Orphan(r) == IF r.answer = "none" THEN {[r EXCEPT !.page = 0]} ELSE {}
Lose(r) ==
  /\ "lose" \in Events
  /\ r.page # 0
  /\ Fault
  /\ tabs' = [tabs EXCEPT ![r.page] =
                IF r.kind = "save" THEN Emitted(Fail(@, "failure"))
                ELSE [@ EXCEPT !.mutation = "no"]]
  /\ \E late \in {{}, Orphan(r)} : net' = (net \ {r}) \cup late
  /\ UNCHANGED <<world, online, journal, server, edits, ghosts>>

-----------------------------------------------------------------------------
(* runSavedMutation: a Library change or a restore, made by the server.    *)

BeginChange(p) ==
  /\ "change" \in Events
  /\ IsOpen(p) /\ tabs[p].mutation = "no"
  /\ tabs[p].state = "saved" /\ CanLeave(tabs[p])
  /\ tabs[p].doc = history[tabs[p].draft].doc
  /\ tabs' = [tabs EXCEPT ![p].mutation = "checking"]
  /\ UNCHANGED <<world, online, journal, server, net, counters, ghosts>>

SendChange(p) ==
  /\ IsOpen(p) /\ tabs[p].mutation = "checking" /\ tabs[p].token = token
  /\ edits < world.edits /\ edits' = edits + 1
  /\ tabs' = [tabs EXCEPT ![p].mutation = "sent"]
  /\ net' = net \cup {Request(p, "change", tabs[p],
               Entry(Key(edits'), tabs[p].doc \cup {edits'}, tabs[p].draft, TRUE))}
  /\ UNCHANGED <<world, online, journal, server, faults, ghosts>>

GiveUpChange(p) ==
  /\ IsOpen(p)
  /\ \/ tabs[p].mutation = "dirty"
     \/ tabs[p].mutation = "checking" /\ (tabs[p].token # token \/ edits = world.edits)
  /\ tabs' = [tabs EXCEPT ![p].mutation = "no"]
  /\ UNCHANGED <<world, online, journal, server, net, counters, ghosts>>

\* the answer is adopted only if no snapshot was emitted since the mutation began
HearChange(r) ==
  /\ r.kind = "change" /\ r.page # 0
  /\ r.answer \notin {"none", "committed"}
  /\ LET x == [tabs[r.page] EXCEPT !.mutation = "no"]
         adopt == r.answer = "saved" /\ tabs[r.page].mutation = "sent"
     IN tabs' = [tabs EXCEPT ![r.page] =
                   IF adopt THEN Emitted(ReplaceWithLatest(x, r.rev)) ELSE x]
  /\ net' = net \ {r}
  /\ UNCHANGED <<world, online, journal, server, counters, ghosts>>

-----------------------------------------------------------------------------
(* discardAndReplace: Load latest version, and Discard and leave.          *)

Alerted(x) == x.lost \/ x.state \in Stopped \/ x.recovery \in {"blocked", "unavailable"}

Discard(p) ==
  /\ "discard" \in Events
  /\ IsOpen(p) /\ Alerted(tabs[p])
  /\ ~tabs[p].flight /\ tabs[p].discard = "no" /\ tabs[p].recovery # "checking"
  /\ \/ tabs[p].state = "conflict" /\ Step(p, [tabs[p] EXCEPT !.discard = "loading"])
     \/ ~CanLeave(tabs[p])
        /\ Step(p, [tabs[p] EXCEPT !.discard = "clearing to leave", !.latest = tabs[p].draft])
  /\ UNCHANGED <<world, online, journal, server, counters, ghosts>>

DiscardLoaded(p) ==
  /\ IsOpen(p) /\ tabs[p].discard = "loading"
  /\ tabs' = [tabs EXCEPT ![p].discard = "clearing", ![p].latest = Len(history)]
  /\ UNCHANGED <<world, online, journal, server, net, counters, ghosts>>

Clearing(p) == IsOpen(p) /\ tabs[p].discard \in {"clearing", "clearing to leave"}

DiscardDone(p) ==
  /\ Clearing(p) /\ tabs[p].writing = NoWrite
  /\ journal.owner = p
  /\ journal' = Landed(Empty)
  /\ LET x == tabs[p]
         cleared == [x EXCEPT !.hasPayload = FALSE, !.init = TRUE, !.recovery = "ready",
                              !.discard = "no", !.latest = 0,
                              !.leaving = @ \/ x.discard = "clearing to leave"]
     IN /\ Step(p, ReplaceWithLatest(cleared, x.latest))
        /\ dropped' = dropped \cup KeysOf(x.queue)
                         \cup ((EditsOf(x.queue) \cup EditsOf(x.staged)
                                \cup EditsOf(journal.payload.actions)) \ Last(history).doc)
  /\ UNCHANGED <<world, online, server, counters, accepted>>

DiscardFails(p) ==
  /\ \/ Clearing(p) /\ tabs[p].writing = NoWrite /\ journal.owner # p /\ UNCHANGED faults
     \/ "journal fails" \in Events /\ Clearing(p) /\ tabs[p].writing = NoWrite /\ Fault
     \/ "lose" \in Events /\ IsOpen(p) /\ tabs[p].discard = "loading" /\ Fault
  /\ Step(p, [tabs[p] EXCEPT !.discard = "no", !.latest = 0])
  /\ UNCHANGED <<world, online, journal, server, edits, ghosts>>

-----------------------------------------------------------------------------
(* Opening and closing pages, and other clients.                           *)

Acquire(p) ==
  /\ tabs[p].page = "unused" /\ p <= world.pages
  /\ \A q \in 1..(p - 1) : tabs[q].page # "unused"
  /\ "duplicate" \in Events \/ \A q \in Pages : tabs[q].page \in {"closed", "unused"}
  /\ token' = token + 1
  /\ tabs' = [tabs EXCEPT ![p] = Opening(token')]
  /\ UNCHANGED <<world, online, journal, history, net, counters, ghosts>>

Fetch(p) ==
  /\ tabs[p].page = "opening"
  /\ tabs' = [tabs EXCEPT ![p] = Controller(tabs[p].token, Len(history))]
  /\ UNCHANGED <<world, online, journal, server, net, counters, ghosts>>

\* nobody listens any more: answers vanish, requests go on
Unheard(p) ==
  {r \in net : r.page # p} \cup UNION {Orphan(r) : r \in {s \in net : s.page = p}}

\* All drafts: canLeave is tested, the checkout released, and the editor closed
Leave(p) ==
  /\ "leave" \in Events
  /\ IsOpen(p) /\ ~tabs[p].leaving
  /\ CanLeave(tabs[p])
  /\ tabs' = [tabs EXCEPT ![p].leaving = TRUE]
  /\ UNCHANGED <<world, online, journal, server, net, counters, ghosts>>

\* the controller is disposed; the writes of its journal go on, unless they had failed already
Leaves(p) ==
  /\ IsOpen(p) /\ tabs[p].leaving
  /\ LET x == tabs[p] IN
     /\ token' = IF x.token = token THEN token + 1 ELSE token
     /\ journal' = IF x.writing = NoWrite \/ journal.owner # p THEN journal
                   ELSE Landed(IF x.next = NoWrite THEN x.writing ELSE x.next)
     /\ dropped' = IF x.recovery \in {"unavailable", "blocked"}
                   THEN dropped \cup (EditsOf(x.queue) \ EditsOf(journal'.payload.actions))
                   ELSE dropped
  /\ tabs' = [tabs EXCEPT ![p] = Closed]
  /\ net' = Unheard(p)
  /\ UNCHANGED <<world, online, history, counters, accepted>>

\* the release of the checkout fails, and the editor stays
LeaveFails(p) ==
  /\ "lose" \in Events
  /\ IsOpen(p) /\ tabs[p].leaving
  /\ Fault
  /\ tabs' = [tabs EXCEPT ![p].leaving = FALSE]
  /\ UNCHANGED <<world, online, journal, server, net, edits, ghosts>>

\* the page dies; the write under way may still land; beforeunload warned unless canLeave
Crash(p) ==
  /\ "crash" \in Events
  /\ IsOpen(p)
  /\ LET x == tabs[p] IN
     /\ \/ journal' = journal
        \/ x.writing # NoWrite /\ journal.owner = p /\ journal' = Landed(x.writing)
     /\ dropped' = IF x.recovery = "protected" \/ CanLeave(x) THEN dropped
                   ELSE dropped \cup (EditsOf(x.queue) \ EditsOf(journal'.payload.actions))
  /\ tabs' = [tabs EXCEPT ![p] = Closed]
  /\ net' = Unheard(p)
  /\ UNCHANGED <<world, online, server, counters, accepted>>

\* another client takes the checkout, and may save
TakeAway ==
  /\ "take away" \in Events
  /\ Fault
  /\ token' = token + 1
  /\ UNCHANGED <<world, tabs, online, journal, history, net, edits, ghosts>>

\* between a commit and its second getDraft only where the instance says so
SaveElsewhere ==
  /\ "elsewhere" \in Events
  /\ "late read" \in Events \/ \A r \in net : r.answer # "committed"
  /\ edits < world.edits /\ edits + 1 \notin Bad
  /\ edits' = edits + 1
  /\ token' = token + 1
  /\ history' = Append(history, [doc |-> Last(history).doc \cup {edits'},
                                 key |-> Elsewhere, kind |-> "elsewhere"])
  /\ UNCHANGED <<world, tabs, online, journal, net, faults, ghosts>>

-----------------------------------------------------------------------------
Init ==
  /\ world \in Worlds
  /\ tabs = [p \in Pages |-> [page |-> "unused"]]
  /\ online = TRUE
  /\ journal = [owner |-> 0, payload |-> Empty]
  /\ history = <<[doc |-> {}, key |-> Elsewhere, kind |-> "elsewhere"]>>
  /\ token = 0
  /\ net = {}
  /\ edits = 0 /\ faults = 0
  /\ accepted = {} /\ dropped = {}

User(p) ==
  \/ Edit(p) \/ BeginGesture(p) \/ FinishGesture(p) \/ CancelGesture(p) \/ Retry(p)
  \/ Acquire(p) \/ BeginChange(p) \/ Discard(p) \/ Leave(p)
Page(p) ==
  \/ FlushText(p) \/ RetryTimer(p) \/ Heartbeat(p) \/ Fetch(p) \/ LoadJournal(p)
  \/ JournalDone(p) \/ JournalOwned(p) \/ SendChange(p) \/ GiveUpChange(p)
  \/ DiscardLoaded(p) \/ DiscardDone(p) \/ Leaves(p)
Network(r) == Serve(r) \/ ReadBack(r) \/ Hear(r) \/ HearChange(r)
Trouble(p) == JournalFails(p) \/ LoadFails(p) \/ DiscardFails(p) \/ LeaveFails(p) \/ Crash(p)

Next ==
  \/ \E p \in Pages : User(p) \/ Page(p) \/ Trouble(p)
  \/ \E r \in net : Network(r) \/ Lose(r)
  \/ GoOffline \/ GoOnline \/ TakeAway \/ SaveElsewhere

Spec == Init /\ [][Next]_vars

\* callbacks, timers and IndexedDB transactions come to an end, requests are answered or
\* refused, and a lost connection returns; nothing forces the user or another client
Fairness ==
  /\ \A p \in Pages : WF_vars(Page(p))
  /\ WF_vars(\E r \in net : Network(r))
  /\ WF_vars(GoOnline)
FairSpec == Spec /\ Fairness

-----------------------------------------------------------------------------
(* Properties *)

\* No revision overwrites what an earlier one held: neither what this client saved before,
\* nor what another client saved in between ("Stale saves MUST NOT overwrite newer work").
NothingOverwritten ==
  \A i \in 1..(Len(history) - 1) : history[i].doc \subseteq history[i + 1].doc

\* "All changes saved", with leaving allowed, means that the shown document is the one the
\* server holds in the revision this page works on.
SavedMeansSaved ==
  \A p \in OpenPages :
    tabs[p].state = "saved" /\ CanLeave(tabs[p]) => tabs[p].doc = history[tabs[p].draft].doc

\* An edit the editor accepted is never lost silently: it is in the latest revision, in the
\* queue of an open page, or in the journal; or the user discarded it, or the page died while
\* it did not claim that pending changes are protected, or closed after it had said that
\* recovery is unavailable.
EditsOfTab(p) == EditsOf(tabs[p].queue)
Accounted ==
  accepted \subseteq dropped \cup Last(history).doc \cup EditsOf(journal.payload.actions)
                     \cup UNION {EditsOfTab(p) : p \in OpenPages}

\* Autosave stops with "this draft changed elsewhere" only when somebody else changed it: a
\* retry, a reload or a duplicated page never conflicts with its own earlier saves, as long
\* as IndexedDB works; except with one that was discarded while its fate was unknown.
ConflictIsReal ==
  \A p \in OpenPages :
    "journal fails" \notin Events /\ tabs[p].state = "conflict" =>
      \E i \in (Head(tabs[p].queue).base + 1)..Len(history) :
        history[i].kind # "save" \/ history[i].key \in dropped

\* Autosave stops for lost authority only when the checkout of the page has moved on.
AuthorityIsLost == \A p \in OpenPages : tabs[p].lost => tabs[p].token # token

\* The editor closes only when nothing is pending: leaving is prevented while actions are
\* pending, saving, offline, conflicted, invalid or failed.
ClosesClean == [][\A p \in Pages : Leaves(p) => CanLeave(tabs[p])]_vars

\* An accepted edit does not wait for ever: time and again the queue is empty, or waits for
\* the user behind a message that says so, or the page is gone.
Rests(p) ==
  IsOpen(p) => LET x == tabs[p] IN
    \/ x.queue = <<>> \/ x.lost \/ x.state \in Stopped \/ x.recovery = "blocked"
Drains == \A p \in Pages : []<>Rests(p)
=============================================================================
