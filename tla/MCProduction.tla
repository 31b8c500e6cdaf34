---------------------------- MODULE MCProduction ----------------------------
(***************************************************************************)
(* Small instances of Production (two candidates, and what may happen to   *)
(* them), of OutputVerification (one publication and the requests to       *)
(* verify it) and of StagingUpload (the builder's own publication).        *)
(***************************************************************************)
EXTENDS Publishing, TLC

CONSTANTS ann, ben, k1, k2

W(who, what, n, c, d, o) ==
  [people |-> who, events |-> what, calls |-> n, stages |-> c, decisions |-> d, ops |-> o]

MCWorlds == {
  \* a release is undone while its publication is still at work, and followed by another
  W({ann}, {"rollback", "cancel", "verify"}, 2, 1, 1, 2),
  W({ann}, {"rollback", "verify"}, 1, 1, 1, 3),
  \* decisions race with promotions, their retries and their cancellations
  W({ann}, {"retry"}, 2, 1, 2, 2), W({ann}, {"retry", "cancel"}, 2, 1, 1, 2),
  W({ann}, {"retry", "cancel"}, 1, 1, 2, 2),
  \* two candidates are accepted against the same Production
  W({ann}, {"lose", "archive"}, 1, 2, 2, 2),
  \* authority is withdrawn at any time
  W({ann}, {"role", "rollback"}, 1, 1, 1, 3)}

V(who, keys, what, n, d) ==
  [people |-> who, keys |-> keys, events |-> what, calls |-> n, dispatches |-> d]
MCVerificationWorlds == {
  V({ann}, {k1, k2}, {"lose", "finalize"}, 2, 1),
  V({ann, ben}, {k1, k2}, {"withdraw"}, 1, 1),
  V({ann}, {k1}, {"lose", "push", "finalize"}, 3, 2)}

S(keys, what, parts, n, c) ==
  [keys |-> keys, events |-> what, parts |-> parts, calls |-> n, checks |-> c]
MCUploadWorlds == {
  \* requests die, overtake each other and are sent again
  S({k1}, {"lose", "continue"}, 2, 2, 1),
  \* a publication after another one, and from a main that has moved on
  S({k1, k2}, {}, 1, 2, 1), S({k1, k2}, {"push", "stale"}, 1, 1, 1),
  \* the draft is saved or archived meanwhile
  S({k1}, {"save", "archive"}, 1, 2, 1), S({k1}, {"save", "archive", "continue", "lose"}, 1, 1, 2),
  \* it is verified and accepted
  S({k1}, {"continue", "verify"}, 1, 2, 1)}
=============================================================================
