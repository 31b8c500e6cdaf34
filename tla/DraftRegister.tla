---------------------------- MODULE DraftRegister ----------------------------
(***************************************************************************)
(* What the draft repository promises to the people who edit, with the     *)
(* revisions, receipts, handlers and clocks of DraftStore left out.  A     *)
(* draft is a register: one document and the number of times it was        *)
(* written.  Writers are fenced: each write carries a grant, grants are    *)
(* numbered in the order they were given out, and once a grant has written *)
(* no older one ever will.                                                 *)
(***************************************************************************)
EXTENDS Naturals

CONSTANTS Drafts, Docs, NoDoc, First

VARIABLES
  state,    \* the life of each draft
  version,  \* how many documents it has had
  text,     \* its document
  fence,    \* the youngest grant that has written it
  granted   \* grants given out so far

vars == <<state, version, text, fence, granted>>

Blank(d) == d # First

Init ==
  /\ state = [d \in Drafts |-> IF Blank(d) THEN "unused" ELSE "active"]
  /\ version = [d \in Drafts |-> IF Blank(d) THEN 0 ELSE 1]
  /\ text \in {t \in [Drafts -> Docs \cup {NoDoc}] : \A d \in Drafts : Blank(d) <=> t[d] = NoDoc}
  /\ fence = [d \in Drafts |-> 0]
  /\ granted = 0

Open(d, doc) ==
  /\ state[d] = "unused"
  /\ state' = [state EXCEPT ![d] = "active"]
  /\ version' = [version EXCEPT ![d] = 1]
  /\ text' = [text EXCEPT ![d] = doc]
  /\ UNCHANGED <<fence, granted>>

Grant ==
  /\ granted' = granted + 1
  /\ UNCHANGED <<state, version, text, fence>>

\* the next document replaces the one before, under a grant no older than the last writer's
Write(d, g, doc) ==
  /\ state[d] = "active"
  /\ g >= fence[d]
  /\ version' = [version EXCEPT ![d] = @ + 1]
  /\ text' = [text EXCEPT ![d] = doc]
  /\ fence' = [fence EXCEPT ![d] = g]
  /\ UNCHANGED <<state, granted>>

Shelve(d) ==
  /\ state[d] \in {"active", "archived"}
  /\ state' = [state EXCEPT ![d] = IF @ = "active" THEN "archived" ELSE "active"]
  /\ UNCHANGED <<version, text, fence, granted>>

\* only an archived draft can be destroyed, and nothing of it remains
Destroy(d) ==
  /\ state[d] = "archived"
  /\ state' = [state EXCEPT ![d] = "purged"]
  /\ version' = [version EXCEPT ![d] = 0]
  /\ text' = [text EXCEPT ![d] = NoDoc]
  /\ fence' = [fence EXCEPT ![d] = 0]
  /\ UNCHANGED granted

Next ==
  \/ \E d \in Drafts, doc \in Docs : Open(d, doc)
  \/ Grant
  \/ \E d \in Drafts, doc \in Docs : \E g \in 1..granted : Write(d, g, doc)
  \/ \E d \in Drafts : Shelve(d) \/ Destroy(d)

Spec == Init /\ [][Next]_vars
=============================================================================
