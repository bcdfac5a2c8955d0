---------------------------- MODULE MCTxContext -----------------------------
(* Small instances of TxContext for TLC. *)
EXTENDS TxContext
=============================================================================
