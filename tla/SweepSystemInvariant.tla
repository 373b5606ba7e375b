-------------------------- MODULE SweepSystemInvariant --------------------------
(******************************************************************************)
(* The inductive invariant of the composition: that of the sweep, and what    *)
(* ties the sweeper's task to its thread and the list of free work buffers to *)
(* the spans.                                                                 *)
(******************************************************************************)
EXTENDS SweepSystem, GcSweepInvariant

(* The thread of the sweeper is in a call of sweep_one only while its task    *)
(* waits for the return of one; the task begins with enable.                  *)
TaskSound ==
  /\ enabling = "idle" => sweeper = "none"
  /\ pc[Sweeper] # "idle" => sweeper = "sweep"

(* The list of free work buffers has spans that are managed by hand.          *)
SystemIInv ==
  /\ IInv /\ TaskSound
  /\ work_free \subseteq Spans /\ WorkBuffersManual
===============================================================================
