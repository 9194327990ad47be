---------------------------- MODULE MCCheckQueue ----------------------------
(***************************************************************************)
(* Four checks, so that a thread working alone takes a batch of two.       *)
(***************************************************************************)
EXTENDS CheckQueue
=============================================================================
