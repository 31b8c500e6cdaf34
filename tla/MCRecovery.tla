----------------------------- MODULE MCRecovery -----------------------------
(***************************************************************************)
(* Small instances of what goes on after a loss: the workspace when a copy *)
(* of it is restored, and the autosave controller with its journal when    *)
(* pages die (AfterLoss has both).                                         *)
(***************************************************************************)
EXTENDS AfterLoss, TLC
CONSTANTS
  d1, d2, \* drafts
  i1, i2  \* invocations
ASSUME RecoveryBounded == RecoveryAssumption

BothDrafts == {d1, d2}
BothInvocations == {i1, i2}
TwoReceipts == {1, 2}
OneCopy == {1}

\* Both ways of restoring, each with a deletion and the retiring of receipts, or a deletion and
\* what publications hold; and two deletions, which the provider's way replays one by one.
WorkspaceWorlds ==
  {[restore |-> how, time |-> 2, jobs |-> {<<"delete", d1>>} \cup with] :
     how \in {"bookmark", "native"},
     with \in {{<<"retire", d2>>}, {<<"publish", d1>>, <<"release", d1>>}}}
  \cup {[restore |-> "bookmark", time |-> 1, jobs |-> {<<"delete", d1>>, <<"delete", d2>>}]}

Editor(events, bad, queue, bounds) ==
  [events |-> events, bad |-> bad, queue |-> queue,
   edits |-> bounds[1], pages |-> bounds[2], faults |-> bounds[3]]
MCEditorWorlds == {
  \* a page dies and is opened again, while another client may save
  Editor({"crash", "elsewhere", "discard", "lose"}, {}, 3, <<3, 3, 1>>),
  \* a page is duplicated: two pages share one journal
  Editor({"duplicate", "crash", "lose", "discard"}, {}, 2, <<3, 2, 1>>),
  \* documents that the server refuses, with room for one entry
  Editor({"text", "offline", "lose", "discard", "crash", "leave"}, {1}, 1, <<4, 2, 2>>),
  \* gestures, Library changes, leaving, and a checkout taken away
  Editor({"gesture", "change", "leave", "take away", "lose", "offline"}, {}, 2, <<3, 2, 1>>),
  \* IndexedDB fails
  Editor({"journal fails", "crash", "discard", "lose", "leave"}, {}, 2, <<3, 2, 3>>)}

\* Invocations are interchangeable.
MCSymmetry == Permutations(Invocations)
=============================================================================
