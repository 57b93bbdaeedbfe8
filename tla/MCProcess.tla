------------------------------ MODULE MCProcess ------------------------------
(***************************************************************************)
(* ProcessTable in one run, with parts of its behaviours told apart by     *)
(* subject: wait, where waiters compete for processes that exit, stop and  *)
(* are terminated; signals, where nobody waits, nothing is reaped and      *)
(* signals are masked, queued and sent to groups; and for what must happen *)
(* kill, move and terminate, with one of these calls each.  Waiters are    *)
(* interchangeable.                                                        *)
(***************************************************************************)
EXTENDS ProcessTable, TLC

CONSTANT Subjects

VARIABLE subject

Symmetry == Permutations(Waiters)

Unmoved ==
  \A p \in Pids : "absent" \notin {status[p], status'[p]} => <<pgid[p], sid[p]>>' = <<pgid[p], sid[p]>>
Unmasked == UNCHANGED blocked_signals

Part ==
  \/ subject = "wait" /\ kills' <= (IF terminating_all' THEN 0 ELSE 1) /\ Unmoved /\ Unmasked
  \/ subject = "signals" /\ UNCHANGED <<wait, terminating_all, reaper>>
  \/ subject = "kill" /\ Unmoved /\ ~terminating_all'
  \/ subject = "move" /\ kills' = 0 /\ ~terminating_all'
  \/ subject = "terminate" /\ kills' = 0 /\ Unmoved

MCInit == Init /\ subject \in Subjects
MCNext == Next /\ Part /\ UNCHANGED subject
MCSpec == MCInit /\ [][MCNext]_<<vars, subject>>

\* The parts bound what is called; no step of a call in progress is cut off.
LiveSpec == MCSpec /\ Fairness
==============================================================================
