---------------------------- MODULE MCWorkbench -----------------------------
(***************************************************************************)
(* Small instances of Workbench: the worlds of its parts.                   *)
(***************************************************************************)
EXTENDS Workbench, TLC

CONSTANTS
  d1, d2, c1, home, duplicate, found, logo, photo, extra, old1, old2, b1, b2

R(cat, used) == [cat |-> cat, used |-> used, kept |-> TRUE]
W(h, s, what, r, n) ==
  [revs |-> [d \in Drafts |-> IF d = home THEN h ELSE <<>>],
   shared |-> s, does |-> what, most |-> r, calls |-> n]
LibraryWorlds == {
  \* an image is archived and deleted while retention and maintenance work
  W(<<R({<<logo, old1>>}, {}), R({<<logo, old1>>}, {logo}), R({<<logo, old1>>}, {})>>, {old1},
    {"prune", "archive", "delete"}, 5, 2),
  \* placed, replaced, restored, archived and deleted images
  W(<<R({<<logo, old1>>}, {logo})>>, {old1}, {"edit", "prune", "replace", "archive", "delete"}, 4, 1),
  \* a second image, and a copy of the draft
  W(<<R({<<logo, old1>>}, {})>>, {old1}, {"upload", "copy", "archive"}, 3, 1),
  W(<<R({<<logo, old1>>}, {})>>, {old1}, {"link", "update", "archive", "unarchive"}, 4, 1),
  \* a linked image is replaced
  W(<<R({<<logo, old1>>}, {})>>, {old1}, {"link", "replace", "archive", "delete"}, 3, 1),
  \* uploads that no revision names, while people work
  W(<<R({<<logo, old1>>}, {logo})>>, {old1, old2}, {"edit", "archive", "delete", "lose"}, 3, 2),
  W(<<R({<<logo, old1>>}, {logo})>>, {old1, old2}, {"copy", "lose"}, 2, 2)}

\* the host with an operator's command, with failures and shutdown, and with a restore
MCHostWorlds == {{"command"}, {"stop", "fail", "delete"}, {"die", "pin"}}

PanelWorld(drafts, what) == [drafts |-> drafts, events |-> what]
MCPanelWorlds == {
  \* answers and reads that fail, beside a cancellation, a retry, and decisions
  PanelWorld({d1}, {"fail", "cancel", "retry-captured"}),
  PanelWorld({d1}, {"fail", "retry", "reconcile", "verify-completed"}),
  PanelWorld({d1}, {"fail", "decide"}),
  \* a panel that is opened again, and for another draft
  PanelWorld({d1}, {"fail", "reopen"}),
  PanelWorld({d1, d2}, {"reopen"}),
  \* Staging is pushed to, the draft is saved, monitoring expires
  PanelWorld({d1}, {"push", "decide"}),
  PanelWorld({d1}, {"save", "expire", "cancel"})}
=============================================================================
