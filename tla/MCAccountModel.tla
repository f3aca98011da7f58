--------------------------- MODULE MCAccountModel ---------------------------
(***************************************************************************)
(* Instances of AccountModel for TLC.                                      *)
(***************************************************************************)
EXTENDS AccountModelProperties

\* All that the user can do but the removal of an account by an action, which
\* nothing in the library asks for: cancelling it then leaves edits in a READY
\* account.
Edits == {"EDIT", "RELOAD", "SAVE", "CANCEL", "create", "set", "take out", "save all", "cancel all"}
=============================================================================
