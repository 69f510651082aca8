-------------------------- MODULE AcquisitionCycle --------------------------
(***************************************************************************)
(* What the acquisition pipeline promises: one measurement after another,  *)
(* each in five steps that never overlap with those of the next one.       *)
(*                                                                         *)
(*    armed -> rolled -> acquiring -> computing -> armed -> ...            *)
(*                                                                         *)
(* "armed" waits for the excitation waveform to start over, "rolled" has   *)
(* seen it do so, "acquiring" fills one buffer per channel in any order,   *)
(* "computing" owns both buffers.                                          *)
(***************************************************************************)
CONSTANT Channels    \* the ADC channels a measurement needs

VARIABLES phase,     \* where the measurement in progress stands
          filled     \* the channels whose buffer is complete and not yet claimed

vars == <<phase, filled>>

Init == phase = "armed" /\ filled = {}

\* The waveform starts over while a measurement is due.
Roll == phase = "armed" /\ phase' = "rolled" /\ UNCHANGED filled

\* Both channels start to sample.
Trigger == phase = "rolled" /\ phase' = "acquiring" /\ UNCHANGED filled

\* The buffer of channel c is complete: each channel completes once.
Fill(c) == /\ phase = "acquiring"
           /\ c \notin filled
           /\ filled' = filled \cup {c}
           /\ UNCHANGED phase

\* The buffers are claimed, only when every one of them is complete.
Compute == /\ phase = "acquiring"
           /\ filled = Channels
           /\ phase' = "computing"
           /\ filled' = {}

\* The buffers are released; only a later roll starts the next measurement.
Rearm == phase = "computing" /\ phase' = "armed" /\ UNCHANGED filled

Next == Roll \/ Trigger \/ (\E c \in Channels : Fill(c)) \/ Compute \/ Rearm

SafeSpec == Init /\ [][Next]_vars
Spec == SafeSpec /\ WF_vars(Next)
=============================================================================
