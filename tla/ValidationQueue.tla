--------------------------- MODULE ValidationQueue ---------------------------
(***************************************************************************)
(* What the validation interface promises its subscribers: every callback  *)
(* that was generated runs, in the order of generation, and completes      *)
(* before the next one is invoked.                                         *)
(***************************************************************************)
EXTENDS Sequences

VARIABLES
  pending,     \* callbacks generated and not yet invoked
  executing    \* the callback being run: a set of at most one

vars == <<pending, executing>>

\* Whatever callback it is, it goes to the end.
Generate ==
  /\ pending' # <<>> /\ pending' = Append(pending, pending'[Len(pending')])
  /\ UNCHANGED executing

Invoke ==
  /\ pending # <<>> /\ executing = {}
  /\ executing' = {Head(pending)}
  /\ pending' = Tail(pending)

Complete ==
  /\ executing # {} /\ executing' = {}
  /\ UNCHANGED pending

Init == pending = <<>> /\ executing = {}

Next == Generate \/ Invoke \/ Complete

Spec == Init /\ [][Next]_vars
=============================================================================
