----------------------------- MODULE MCAutosave -----------------------------
(* The worlds of the runs of Autosave. *)
EXTENDS Autosave

World(events, bad, queue, bounds) ==
  [events |-> events, bad |-> bad, queue |-> queue,
   edits |-> bounds[1], pages |-> bounds[2], faults |-> bounds[3]]

\* one page on a lossy network
LossyNetwork == {World({"text", "lose", "offline"}, {}, 2, <<3, 1, 3>>)}

\* a document is refused while a correction waits behind it
Validation == {World({}, {1}, 3, <<3, 1, 0>>)}
\* a recovered document is refused, and corrected, after another client has saved
RecoveredRefused == {World({"crash", "elsewhere"}, {1}, 1, <<3, 2, 0>>)}
\* another client saves between a commit and its second getDraft
LateRead == {World({"crash", "elsewhere", "late read"}, {}, 2, <<3, 2, 0>>)}
\* an edit is made while the checkout is being released
Leaving == {World({"leave"}, {}, 2, <<2, 1, 0>>)}
\* a gesture hides the offline state while IndexedDB fails
Unpumped == {World({"gesture", "offline", "journal fails"}, {}, 2, <<2, 1, 2>>)}
=============================================================================
