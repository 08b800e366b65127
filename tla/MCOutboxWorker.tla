--------------------------- MODULE MCOutboxWorker ---------------------------
(***************************************************************************)
(* Small instances of OutboxWorker for TLC.                                *)
(***************************************************************************)
EXTENDS OutboxWorker, TLC

=============================================================================
