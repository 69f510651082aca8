--------------------------- MODULE MCAcquisition ----------------------------
(* Acquisition with bursts of three words: long enough for a stale first     *)
(* word, a word moved inside TIM5's handler and one after it.                *)
EXTENDS Acquisition

MCN == 3
MCIsrTicks == 1
=============================================================================
