--------------------------- MODULE MCCallbackQueue ---------------------------
(***************************************************************************)
(* Two service threads, so that tasks can overlap.                        *)
(***************************************************************************)
EXTENDS CallbackQueue

=============================================================================
