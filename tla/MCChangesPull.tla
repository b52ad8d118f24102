--------------------------- MODULE MCChangesPull ------------------------------
(***************************************************************************)
(* One page holds two rows; a batch of two sales shares one synced_at.      *)
(* The clock of the phone that creates a row is ahead: 9.                   *)
(***************************************************************************)
EXTENDS ChangesPull

==============================================================================
