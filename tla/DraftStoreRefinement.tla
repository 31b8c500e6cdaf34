------------------------- MODULE DraftStoreRefinement -------------------------
(* DraftStore implements DraftRegister: what a reader of a draft can see. *)
EXTENDS DraftStore

LatestOf(d, field, absent) ==
  IF Exists(d) /\ Stored(Latest(d)) THEN revs[Latest(d)][field] ELSE absent

Register == INSTANCE DraftRegister WITH
  NoDoc   <- None,
  First   <- Imported,
  state   <- [d \in Drafts |-> drafts[d].status],
  version <- [d \in Drafts |-> LatestOf(d, "seq", 0)],
  text    <- [d \in Drafts |-> LatestOf(d, "doc", None)],
  fence   <- [d \in Drafts |-> LatestOf(d, "token", 0)],
  granted <- Cardinality({t \in Tokens : tokens[t] # None})

\* Whatever interleaving of saves, retries, transfers, archiving, purging and retention the
\* handlers go through, a draft behaves as one register written by fenced writers: no save is
\* lost or applied to another base, deletions of old revisions are invisible, and a purged
\* draft is never opened again.
ImplementsRegister == Register!Spec
=============================================================================
