------------------------- MODULE MCWorkbenchContext -------------------------
(* Four ids compete for a ledger of three; two steps of transitions fail. *)
EXTENDS WorkbenchContext
=============================================================================
