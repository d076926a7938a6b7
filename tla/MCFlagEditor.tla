---------------------------- MODULE MCFlagEditor ----------------------------
(* A small instance of FlagEditor: two operators with a tab each.           *)
EXTENDS FlagEditor

CONSTANTS ann, bob, adFailure

MCView == ann :> "basic" @@ bob :> "advanced"
=============================================================================
