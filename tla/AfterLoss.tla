------------------------------ MODULE AfterLoss ------------------------------
(***************************************************************************)
(* What goes on after a loss: the workspace when a copy of it is restored, *)
(* and the autosave controller with its journal when pages die.  A         *)
(* behaviour is that of one of them, the other stands still.  Autosave is  *)
(* an instance of its module with its theorems.                            *)
(***************************************************************************)
EXTENDS WorkspaceRecovery

CONSTANTS EditorWorlds, MaxRetries, MaxEdits, MaxPages  \* Autosave

VARIABLES part, editor, tabs, online, journal, revisions, token, net, edits, faults, accepted, dropped
editorVars == <<editor, tabs, online, journal, revisions, token, net, edits, faults, accepted, dropped>>
E == INSTANCE AutosaveProofs WITH Worlds <- EditorWorlds, world <- editor, history <- revisions
ASSUME EditorBounded == E!AutosaveAssumption

\* A part that stands still does so in one of its worlds.
Moves(p, w, worlds) == part = p \/ w = CHOOSE v \in worlds : TRUE
LossInit ==
  /\ part \in {"autosave", "workspace"} /\ Init /\ E!Init
  /\ Moves("autosave", editor, EditorWorlds) /\ Moves("workspace", world, Worlds)
LossNext ==
  /\ UNCHANGED part
  /\ \/ part = "autosave" /\ E!Next /\ UNCHANGED vars
     \/ part = "workspace" /\ Next /\ UNCHANGED editorVars
LossSpec == LossInit /\ [][LossNext]_<<part, vars, editorVars>>

\* Autosave: nothing that was accepted is overwritten or lost silently, and a conflict is real.
NothingOverwritten == E!NothingOverwritten
Accounted == E!Accounted
ConflictIsReal == E!ConflictIsReal
=============================================================================
