------------------------ MODULE MCIdempotentCommand ------------------------
(***************************************************************************)
(* Small instances of IdempotentCommand for TLC.                           *)
(***************************************************************************)
EXTENDS IdempotentCommand, TLC

=============================================================================
