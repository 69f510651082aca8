------------------------- MODULE AcquisitionProofs --------------------------
(***************************************************************************)
(* The safety of the measurement pipeline, for every burst length N, every *)
(* number of labels and every number of sample clocks a TIM5 handler may   *)
(* last (below N - 1).                                                     *)
(*                                                                         *)
(* IInv is inductive. Each of its conjuncts has a lemma with one step per  *)
(* action; the leaves differ in the other conjuncts they need. The chain   *)
(* is: ArmedInv makes the whole pipeline idle when a roll is passed on,    *)
(* DueInv bounds what TIM5's handler can meet while it triggers, BurstInv  *)
(* says which actor a channel is with, LabelInv which measurement the      *)
(* words are from.                                                         *)
(*                                                                         *)
(* Last, every step of the pipeline is shown to be a step of               *)
(* AcquisitionCycle or to leave its state alone.                           *)
(***************************************************************************)
EXTENDS Acquisition, TLAPS

-----------------------------------------------------------------------------
(* The initial states *)

\* The state ResmodTask and the constructors leave satisfies the invariant.
LEMMA InitIInv == Init => IInv
<1> SUFFICES ASSUME Init PROVE IInv
  OBVIOUS
<1> USE PipelineAssumption DEF Init, InitInterrupts, InitStreams, InitCalc
<1>1. TypeOK
  BY DEF TypeOK, Sources, Channels, Labels, None
<1>2. InterruptInv
  BY DEF InterruptInv, Sources, Channels
<1>3. ArmedInv /\ DueInv
  BY DEF ArmedInv, DueInv, Idle, Due, Tim5Quiet, Done, Serving, Computing, Sources, Channels
<1>4. BurstInv
  BY DEF BurstInv, Done, Serving, Computing, Sources, Channels
<1>5. CalcInv
  BY DEF CalcInv, Computing
<1>6. LabelInv
  BY DEF LabelInv, Done, Serving, Computing, Copied, Channels, None
<1>7. QED
  BY <1>1, <1>2, <1>3, <1>4, <1>5, <1>6 DEF IInv

-----------------------------------------------------------------------------
(* Every step preserves every part of the invariant *)

\* The status bits, the enable bits and the latches keep their types.
LEMMA BitsType ==
  ASSUME NEW f \in [Sources -> BOOLEAN], NEW e \in [Sources -> BOOLEAN],
         NEW taken, pend \in SUBSET Sources, Bits(f, e, taken)
  PROVE  /\ flag' \in [Sources -> BOOLEAN] /\ ie' \in [Sources -> BOOLEAN]
         /\ pend' \in SUBSET Sources
BY DEF Bits, Lines

\* Every step keeps every variable in its type; that a burst does not run past
\* its buffer needs BurstInv.
LEMMA TypeOKStep == ASSUME IInv, [Next]_vars PROVE TypeOK'
<1> USE PipelineAssumption DEF TypeOK
<1> TypeOK /\ BurstInv /\ CalcInv
  BY DEF IInv
<1>1. CASE Roll
  <2>1. [flag EXCEPT !["exc"] = TRUE] \in [Sources -> BOOLEAN]
    BY DEF Sources, Channels
  <2>2. Bits([flag EXCEPT !["exc"] = TRUE], ie, {})
    BY <1>1 DEF Roll
  <2>3. /\ flag' \in [Sources -> BOOLEAN] /\ ie' \in [Sources -> BOOLEAN]
        /\ pend' \in SUBSET Sources
    BY <2>1, <2>2, BitsType
  <2>4. QED
    BY <2>3, <1>1 DEF Roll, tim5Vars, dmaVars, chanVars, doneVars, calcVars,
           timeVars
<1>2. CASE Tim5Update
  <2>1. [flag EXCEPT !["tim5"] = TRUE] \in [Sources -> BOOLEAN]
    BY DEF Sources, Channels
  <2>2. Bits([flag EXCEPT !["tim5"] = TRUE], ie, {})
    BY <1>2 DEF Tim5Update
  <2>3. /\ flag' \in [Sources -> BOOLEAN] /\ ie' \in [Sources -> BOOLEAN]
        /\ pend' \in SUBSET Sources
    BY <2>1, <2>2, BitsType
  <2>4. QED
    BY <2>3, <1>2 DEF Tim5Update, tim5Vars, dmaVars, chanVars, doneVars,
           calcVars, timeVars
<1>3. CASE SampleClock
  BY <1>3 DEF SampleClock, Tim5Quiet, irqVars, tim5Vars, dmaVars, doneVars,
         calcVars, Sources, Channels, Labels, None
<1>4. ASSUME NEW c \in Channels, DmaWord(c) PROVE TypeOK'
  <2>1. [flag EXCEPT ![c] = @ \/ ndtr[c] = 1] \in [Sources -> BOOLEAN]
    BY <1>4 DEF DmaWord, Sources, Channels
  <2>2. Bits([flag EXCEPT ![c] = @ \/ ndtr[c] = 1], ie, {})
    BY <1>4 DEF DmaWord
  <2>3. /\ flag' \in [Sources -> BOOLEAN] /\ ie' \in [Sources -> BOOLEAN]
        /\ pend' \in SUBSET Sources
    BY <2>1, <2>2, BitsType
  <2>4. ndtr[c] \in 1..N
    BY <1>4 DEF BurstInv, DmaWord
  <2>5. N - ndtr[c] + 1 \in 1..N /\ ndtr[c] - 1 \in 0..N /\ (ndtr[c] > 1) \in BOOLEAN
    BY <2>4
  <2>6. buff' \in [Channels -> [1..N -> Labels \cup {None}]]
    BY <1>4, <2>5 DEF DmaWord
  <2>7. ndtr' \in [Channels -> 0..N] /\ rx' \in [Channels -> Labels \cup {None}]
    BY <1>4, <2>5 DEF DmaWord
  <2>8. en' \in [Channels -> BOOLEAN]
    BY <1>4, <2>5 DEF DmaWord
  <2>9. QED
    BY <2>3, <2>6, <2>7, <2>8, <1>4
    DEF DmaWord, tim5Vars, dmaVars, doneVars, calcVars, timeVars
<1>5. CASE Tim5Enter
  <2>1. [flag EXCEPT !["tim5"] = FALSE] \in [Sources -> BOOLEAN]
    BY DEF Sources, Channels
  <2>2. Bits([flag EXCEPT !["tim5"] = FALSE], ie, {"tim5"})
    BY <1>5 DEF Tim5Enter
  <2>3. /\ flag' \in [Sources -> BOOLEAN] /\ ie' \in [Sources -> BOOLEAN]
        /\ pend' \in SUBSET Sources
    BY <2>1, <2>2, BitsType
  <2>4. QED
    BY <2>3, <1>5 DEF Tim5Enter, dmaVars, chanVars, doneVars, calcVars,
           timeVars, Channels, Labels, None
<1>6. CASE Tim5Mask
  BY <1>6 DEF Tim5Mask, dmaVars, chanVars, doneVars, calcVars, timeVars,
         Sources, Channels, Labels, None
<1>7. CASE TriggerEnable
  BY <1>7 DEF TriggerEnable, irqVars, dmaVars, doneVars, calcVars, timeVars,
         Sources, Channels, Labels, None
<1>8. CASE TriggerFlush
  BY <1>8 DEF TriggerFlush, irqVars, dmaVars, doneVars, calcVars, timeVars,
         Sources, Channels, Labels, None
<1>9. CASE TriggerSpi
  BY <1>9 DEF TriggerSpi, irqVars, dmaVars, doneVars, calcVars, timeVars,
         Sources, Channels, Labels, None
<1>10. CASE ExcEnter
  <2>1. [flag EXCEPT !["exc"] = FALSE] \in [Sources -> BOOLEAN]
    BY DEF Sources, Channels
  <2>2. Bits([flag EXCEPT !["exc"] = FALSE], ie, {"exc"})
    BY <1>10 DEF ExcEnter
  <2>3. /\ flag' \in [Sources -> BOOLEAN] /\ ie' \in [Sources -> BOOLEAN]
        /\ pend' \in SUBSET Sources
    BY <2>1, <2>2, BitsType
  <2>4. QED
    BY <2>3, <1>10 DEF ExcEnter, TaskLevel, tim5Vars, chanVars, doneVars,
           calcVars, timeVars, Tim5Quiet
<1>11. CASE ExcitationRoll
  <2>1. [ie EXCEPT !["tim5"] = TRUE] \in [Sources -> BOOLEAN]
    BY DEF Sources, Channels
  <2>2. Bits(flag, [ie EXCEPT !["tim5"] = TRUE], {})
    BY <1>11 DEF ExcitationRoll
  <2>3. /\ flag' \in [Sources -> BOOLEAN] /\ ie' \in [Sources -> BOOLEAN]
        /\ pend' \in SUBSET Sources
    BY <2>1, <2>2, BitsType
  <2>4. QED
    BY <2>3, <1>11 DEF ExcitationRoll, Tim5Quiet, NextLabel, tim5Vars,
           chanVars, doneVars, calcVars, Channels, Labels, None
<1>12. CASE ExcMask
  BY <1>12 DEF ExcMask, Tim5Quiet, tim5Vars, chanVars, doneVars, calcVars,
         timeVars, Sources, Channels, Labels, None
<1>13. ASSUME NEW c \in Channels, AdcEnter(c) PROVE TypeOK'
  <2>1. [flag EXCEPT ![c] = FALSE] \in [Sources -> BOOLEAN]
    BY DEF Sources, Channels
  <2>2. Bits([flag EXCEPT ![c] = FALSE], ie, {c})
    BY <1>13 DEF AdcEnter
  <2>3. /\ flag' \in [Sources -> BOOLEAN] /\ ie' \in [Sources -> BOOLEAN]
        /\ pend' \in SUBSET Sources
    BY <2>1, <2>2, BitsType
  <2>4. QED
    BY <2>3, <1>13 DEF AdcEnter, TaskLevel, tim5Vars, chanVars, doneVars,
           calcVars, timeVars, Tim5Quiet, Channels, Labels, None
<1>14. CASE AdcStop
  BY <1>14 DEF AdcStop, Tim5Quiet, irqVars, tim5Vars, doneVars, calcVars,
         timeVars, Sources, Channels, Labels, None
<1>15. CASE AdcReload
  BY <1>15 DEF AdcReload, Tim5Quiet, irqVars, tim5Vars, doneVars, calcVars,
         timeVars, Sources, Channels, Labels, None
<1>16. CASE AdcGive
  BY <1>16 DEF AdcGive, Tim5Quiet, irqVars, tim5Vars, chanVars, calcVars,
         timeVars, Sources, Channels, Labels, None
<1>17. CASE TakeV
  BY <1>17 DEF TakeV, TaskLevel, irqVars, tim5Vars, dmaVars, chanVars,
         timeVars, Tim5Quiet, Sources, Channels, Labels, None
<1>18. CASE TakeI
  BY <1>18 DEF TakeI, TaskLevel, irqVars, tim5Vars, dmaVars, chanVars,
         timeVars, Tim5Quiet, Sources, Channels, Labels, None
<1>19. CASE CopyV
  BY <1>19 DEF CopyV, Copy, TaskLevel, irqVars, tim5Vars, dmaVars, chanVars,
         doneVars, timeVars, Tim5Quiet, Sources, Channels, Labels, None
<1>20. CASE CopyI
  BY <1>20 DEF CopyI, Copy, TaskLevel, irqVars, tim5Vars, dmaVars, chanVars,
         doneVars, timeVars, Tim5Quiet, Sources, Channels, Labels, None
<1>21. CASE PerformCalculation
  BY <1>21 DEF PerformCalculation, TaskLevel, irqVars, tim5Vars, dmaVars,
         chanVars, doneVars, timeVars, Tim5Quiet, Sources, Channels, Labels,
         None
<1>22. CASE CalcDelay
  BY <1>22 DEF CalcDelay, TaskLevel, irqVars, tim5Vars, dmaVars, chanVars,
         doneVars, timeVars, Tim5Quiet, Sources, Channels, Labels, None
<1>23. CASE CalcClear
  BY <1>23 DEF CalcClear, TaskLevel, tim5Vars, dmaVars, chanVars, doneVars,
         timeVars, Tim5Quiet, Sources, Channels, Labels, None
<1>24. CASE CalcEnable
  <2>1. [ie EXCEPT !["exc"] = TRUE] \in [Sources -> BOOLEAN]
    BY DEF Sources, Channels
  <2>2. Bits(flag, [ie EXCEPT !["exc"] = TRUE], {})
    BY <1>24 DEF CalcEnable, EnableExc
  <2>3. /\ flag' \in [Sources -> BOOLEAN] /\ ie' \in [Sources -> BOOLEAN]
        /\ pend' \in SUBSET Sources
    BY <2>1, <2>2, BitsType
  <2>4. QED
    BY <2>3, <1>24 DEF CalcEnable, TaskLevel, tim5Vars, dmaVars, chanVars,
           doneVars, timeVars, Tim5Quiet
<1>25. CASE MainArm
  <2>1. [ie EXCEPT !["exc"] = TRUE] \in [Sources -> BOOLEAN]
    BY DEF Sources, Channels
  <2>2. Bits(flag, [ie EXCEPT !["exc"] = TRUE], {})
    BY <1>25 DEF MainArm, EnableExc
  <2>3. /\ flag' \in [Sources -> BOOLEAN] /\ ie' \in [Sources -> BOOLEAN]
        /\ pend' \in SUBSET Sources
    BY <2>1, <2>2, BitsType
  <2>4. QED
    BY <2>3, <1>25 DEF MainArm, TaskLevel, tim5Vars, dmaVars, chanVars,
           doneVars, calcVars, timeVars, Tim5Quiet
<1>26. CASE UNCHANGED vars
  BY <1>26 DEF vars, irqVars, tim5Vars, dmaVars, chanVars, doneVars, calcVars, timeVars
<1> QED
  BY <1>1, <1>2, <1>3, <1>4, <1>5, <1>6, <1>7, <1>8, <1>9, <1>10, <1>11,
     <1>12, <1>13, <1>14, <1>15, <1>16, <1>17, <1>18, <1>19, <1>20, <1>21,
     <1>22, <1>23, <1>24, <1>25, <1>26
  DEF Next, Hardware, Tim5Handler, ExcHandler, AdcHandler, CalcTask

\* The NVIC's latches agree with the flags.
LEMMA InterruptInvStep == ASSUME IInv, [Next]_vars PROVE InterruptInv'
<1> USE PipelineAssumption DEF IInv, TypeOK, InterruptInv, Sources, Channels,
      Labels, None, tim5Vars, dmaVars, chanVars, doneVars, calcVars, timeVars
<1>1. CASE Roll
  BY <1>1 DEF Roll, Bits, Lines
<1>2. CASE Tim5Update
  BY <1>2 DEF Tim5Update, Bits, Lines
<1>3. CASE SampleClock
  BY <1>3 DEF SampleClock, Tim5Quiet, irqVars
<1>4. ASSUME NEW c \in Channels, DmaWord(c) PROVE InterruptInv'
  BY <1>4 DEF DmaWord, Bits, Lines
<1>5. CASE Tim5Enter
  BY <1>5 DEF Tim5Enter, Bits, Lines
<1>6. CASE Tim5Mask
  BY <1>6 DEF Tim5Mask
<1>7. CASE TriggerEnable
  BY <1>7 DEF TriggerEnable, irqVars
<1>8. CASE TriggerFlush
  BY <1>8 DEF TriggerFlush, irqVars
<1>9. CASE TriggerSpi
  BY <1>9 DEF TriggerSpi, irqVars
<1>10. CASE ExcEnter
  BY <1>10 DEF ExcEnter, TaskLevel, Bits, Tim5Quiet, Lines
<1>11. CASE ExcitationRoll
  BY <1>11 DEF ExcitationRoll, Tim5Quiet, Bits, NextLabel, Lines
<1>12. CASE ExcMask
  BY <1>12 DEF ExcMask, Tim5Quiet
<1>13. ASSUME NEW c \in Channels, AdcEnter(c) PROVE InterruptInv'
  BY <1>13 DEF AdcEnter, TaskLevel, Bits, Tim5Quiet, Lines
<1>14. CASE AdcStop
  BY <1>14 DEF AdcStop, Tim5Quiet, irqVars
<1>15. CASE AdcReload
  BY <1>15 DEF AdcReload, Tim5Quiet, irqVars
<1>16. CASE AdcGive
  BY <1>16 DEF AdcGive, Tim5Quiet, irqVars
<1>17. CASE TakeV
  BY <1>17 DEF TakeV, TaskLevel, irqVars, Tim5Quiet
<1>18. CASE TakeI
  BY <1>18 DEF TakeI, TaskLevel, irqVars, Tim5Quiet
<1>19. CASE CopyV
  BY <1>19 DEF CopyV, Copy, TaskLevel, irqVars, Tim5Quiet
<1>20. CASE CopyI
  BY <1>20 DEF CopyI, Copy, TaskLevel, irqVars, Tim5Quiet
<1>21. CASE PerformCalculation
  BY <1>21 DEF PerformCalculation, TaskLevel, irqVars, Tim5Quiet
<1>22. CASE CalcDelay
  BY <1>22 DEF CalcDelay, TaskLevel, irqVars, Tim5Quiet
<1>23. CASE CalcClear
  BY <1>23 DEF CalcClear, TaskLevel, Tim5Quiet
<1>24. CASE CalcEnable
  BY <1>24 DEF CalcEnable, TaskLevel, EnableExc, Tim5Quiet, Bits, Lines
<1>25. CASE MainArm
  BY <1>25 DEF MainArm, TaskLevel, EnableExc, Tim5Quiet, Bits, Lines
<1>26. CASE UNCHANGED vars
  BY <1>26 DEF vars, irqVars, tim5Vars, dmaVars, chanVars, doneVars, calcVars, timeVars
<1> QED
  BY <1>1, <1>2, <1>3, <1>4, <1>5, <1>6, <1>7, <1>8, <1>9, <1>10, <1>11,
     <1>12, <1>13, <1>14, <1>15, <1>16, <1>17, <1>18, <1>19, <1>20, <1>21,
     <1>22, <1>23, <1>24, <1>25, <1>26
  DEF Next, Hardware, Tim5Handler, ExcHandler, AdcHandler, CalcTask

\* The waveform interrupt stays disabled from the roll to the release of the
\* buffers.
LEMMA ArmedInvStep == ASSUME IInv, [Next]_vars PROVE ArmedInv'
<1> USE PipelineAssumption DEF IInv, TypeOK, ArmedInv, Sources, Channels,
      Labels, None, Idle, Due, tim5Vars, dmaVars, chanVars, doneVars,
      calcVars, timeVars, Done, Serving, Tim5Quiet, Computing
<1>1. CASE Roll
  BY <1>1 DEF Roll, Bits, Lines
<1>2. CASE Tim5Update
  BY <1>2 DEF Tim5Update, Bits, Lines
<1>3. CASE SampleClock
  BY <1>3 DEF SampleClock, irqVars
<1>4. ASSUME NEW c \in Channels, DmaWord(c) PROVE ArmedInv'
  BY <1>4 DEF DmaWord, Bits, Lines
<1>5. CASE Tim5Enter
  BY <1>5 DEF Tim5Enter, Bits, Lines
<1>6. CASE Tim5Mask
  BY <1>6 DEF Tim5Mask
<1>7. CASE TriggerEnable
  BY <1>7 DEF TriggerEnable, irqVars
<1>8. CASE TriggerFlush
  BY <1>8 DEF TriggerFlush, irqVars
<1>9. CASE TriggerSpi
  BY <1>9 DEF TriggerSpi, irqVars
<1>10. CASE ExcEnter
  BY <1>10 DEF ExcEnter, TaskLevel, Bits, Lines
<1>11. CASE ExcitationRoll
  BY <1>11 DEF InterruptInv, ExcitationRoll, Bits, NextLabel, Lines
<1>12. CASE ExcMask
  BY <1>12 DEF ExcMask
<1>13. ASSUME NEW c \in Channels, AdcEnter(c) PROVE ArmedInv'
  BY <1>13 DEF InterruptInv, AdcEnter, TaskLevel, Bits, Lines
<1>14. CASE AdcStop
  BY <1>14 DEF AdcStop, irqVars
<1>15. CASE AdcReload
  BY <1>15 DEF AdcReload, irqVars
<1>16. CASE AdcGive
  BY <1>16 DEF AdcGive, irqVars
<1>17. CASE TakeV
  BY <1>17 DEF TakeV, TaskLevel, irqVars
<1>18. CASE TakeI
  BY <1>18 DEF TakeI, TaskLevel, irqVars
<1>19. CASE CopyV
  BY <1>19 DEF CopyV, Copy, TaskLevel, irqVars
<1>20. CASE CopyI
  BY <1>20 DEF CopyI, Copy, TaskLevel, irqVars
<1>21. CASE PerformCalculation
  BY <1>21 DEF PerformCalculation, TaskLevel, irqVars
<1>22. CASE CalcDelay
  BY <1>22 DEF CalcDelay, TaskLevel, irqVars
<1>23. CASE CalcClear
  BY <1>23 DEF CalcClear, TaskLevel
<1>24. CASE CalcEnable
  BY <1>24 DEF DueInv, BurstInv, CalcInv, CalcEnable, Load, TaskLevel,
         EnableExc, Bits, Lines
<1>25. CASE MainArm
  BY <1>25 DEF MainArm, TaskLevel, EnableExc, Bits, Lines
<1>26. CASE UNCHANGED vars
  BY <1>26 DEF vars, irqVars, tim5Vars, dmaVars, chanVars, doneVars, calcVars, timeVars
<1> QED
  BY <1>1, <1>2, <1>3, <1>4, <1>5, <1>6, <1>7, <1>8, <1>9, <1>10, <1>11,
     <1>12, <1>13, <1>14, <1>15, <1>16, <1>17, <1>18, <1>19, <1>20, <1>21,
     <1>22, <1>23, <1>24, <1>25, <1>26
  DEF Next, Hardware, Tim5Handler, ExcHandler, AdcHandler, CalcTask

\* While TIM5's handler is due no burst can complete.
LEMMA DueInvStep == ASSUME IInv, [Next]_vars PROVE DueInv'
<1> USE PipelineAssumption DEF IInv, TypeOK, DueInv, Sources, Channels,
      Labels, None, Due, Done, Load, Idle, tim5Vars, dmaVars, chanVars,
      doneVars, calcVars, timeVars, Tim5Quiet, Computing, Serving
<1>1. CASE Roll
  BY <1>1 DEF Roll, Bits, Lines
<1>2. CASE Tim5Update
  BY <1>2 DEF Tim5Update, Bits, Lines
<1>3. CASE SampleClock
  BY <1>3, SMTT(30) DEF SampleClock, irqVars
<1>4. ASSUME NEW c \in Channels, DmaWord(c) PROVE DueInv'
  BY <1>4 DEF DmaWord, Bits, Lines
<1>5. CASE Tim5Enter
  BY <1>5 DEF Tim5Enter, Bits, Lines
<1>6. CASE Tim5Mask
  BY <1>6 DEF Tim5Mask
<1>7. CASE TriggerEnable
  BY <1>7 DEF TriggerEnable, irqVars
<1>8. CASE TriggerFlush
  BY <1>8 DEF TriggerFlush, irqVars
<1>9. CASE TriggerSpi
  BY <1>9 DEF TriggerSpi, irqVars
<1>10. CASE ExcEnter
  BY <1>10 DEF InterruptInv, ArmedInv, ExcEnter, TaskLevel, Bits, Lines
<1>11. CASE ExcitationRoll
  BY <1>11 DEF InterruptInv, ArmedInv, ExcitationRoll, Bits, NextLabel, Lines
<1>12. CASE ExcMask
  BY <1>12 DEF ExcMask
<1>13. ASSUME NEW c \in Channels, AdcEnter(c) PROVE DueInv'
  BY <1>13 DEF InterruptInv, AdcEnter, TaskLevel, Bits, Lines
<1>14. CASE AdcStop
  BY <1>14 DEF AdcStop, irqVars
<1>15. CASE AdcReload
  BY <1>15 DEF AdcReload, irqVars
<1>16. CASE AdcGive
  BY <1>16 DEF AdcGive, irqVars
<1>17. CASE TakeV
  BY <1>17 DEF TakeV, TaskLevel, irqVars
<1>18. CASE TakeI
  BY <1>18 DEF TakeI, TaskLevel, irqVars
<1>19. CASE CopyV
  BY <1>19 DEF CopyV, Copy, TaskLevel, irqVars
<1>20. CASE CopyI
  BY <1>20 DEF CopyI, Copy, TaskLevel, irqVars
<1>21. CASE PerformCalculation
  BY <1>21 DEF PerformCalculation, TaskLevel, irqVars
<1>22. CASE CalcDelay
  BY <1>22 DEF CalcDelay, TaskLevel, irqVars
<1>23. CASE CalcClear
  BY <1>23 DEF CalcClear, TaskLevel
<1>24. CASE CalcEnable
  BY <1>24 DEF CalcEnable, TaskLevel, EnableExc, Bits, Lines
<1>25. CASE MainArm
  BY <1>25 DEF MainArm, TaskLevel, EnableExc, Bits, Lines
<1>26. CASE UNCHANGED vars
  BY <1>26 DEF vars, irqVars, tim5Vars, dmaVars, chanVars, doneVars, calcVars, timeVars
<1> QED
  BY <1>1, <1>2, <1>3, <1>4, <1>5, <1>6, <1>7, <1>8, <1>9, <1>10, <1>11,
     <1>12, <1>13, <1>14, <1>15, <1>16, <1>17, <1>18, <1>19, <1>20, <1>21,
     <1>22, <1>23, <1>24, <1>25, <1>26
  DEF Next, Hardware, Tim5Handler, ExcHandler, AdcHandler, CalcTask

\* Each channel passes through filling, served and done in order.
LEMMA BurstInvStep == ASSUME IInv, [Next]_vars PROVE BurstInv'
<1> USE PipelineAssumption DEF IInv, TypeOK, BurstInv, Sources, Channels,
      Labels, None, Serving, Done, tim5Vars, dmaVars, chanVars, doneVars,
      calcVars, timeVars, Computing
<1>1. CASE Roll
  BY <1>1 DEF Roll, Bits, Lines
<1>2. CASE Tim5Update
  BY <1>2 DEF Tim5Update, Bits, Lines
<1>3. CASE SampleClock
  BY <1>3 DEF SampleClock, Tim5Quiet, irqVars
<1>4. ASSUME NEW c \in Channels, DmaWord(c) PROVE BurstInv'
  BY <1>4 DEF DmaWord, Bits, Lines
<1>5. CASE Tim5Enter
  BY <1>5 DEF Tim5Enter, Bits, Lines
<1>6. CASE Tim5Mask
  BY <1>6 DEF Tim5Mask
<1>7. CASE TriggerEnable
  <2>1. Due /\ tch \in Channels
    BY <1>7 DEF TriggerEnable, Due, Tim5Quiet
  <2>2. ~Done(tch) /\ ~flag[tch] /\ dma \in {"idle", "mask"} /\ Load(tch) <= 1 + ticks
    BY <2>1 DEF DueInv
  <2>3. (IF rx[tch] # None THEN 1 ELSE 0) \in {0, 1} /\ ndtr[tch] \in 0..N
        /\ ticks \in 0..IsrTicks
    BY <2>1
  <2>4. ndtr[tch] > 0
    BY <2>2, <2>3 DEF Load
  <2>5. QED
    BY <2>1, <2>2, <2>4, <1>7 DEF TriggerEnable, irqVars
<1>8. CASE TriggerFlush
  BY <1>8 DEF TriggerFlush, irqVars
<1>9. CASE TriggerSpi
  BY <1>9 DEF DueInv, TriggerSpi, Due, Load, Idle, irqVars, Tim5Quiet
<1>10. CASE ExcEnter
  BY <1>10 DEF ExcEnter, TaskLevel, Bits, Tim5Quiet, Lines
<1>11. CASE ExcitationRoll
  BY <1>11 DEF ExcitationRoll, Tim5Quiet, Bits, NextLabel, Lines
<1>12. CASE ExcMask
  BY <1>12 DEF ExcMask, Tim5Quiet
<1>13. ASSUME NEW c \in Channels, AdcEnter(c) PROVE BurstInv'
  BY <1>13 DEF InterruptInv, AdcEnter, TaskLevel, Bits, Tim5Quiet, Lines
<1>14. CASE AdcStop
  BY <1>14 DEF AdcStop, Tim5Quiet, irqVars
<1>15. CASE AdcReload
  BY <1>15 DEF AdcReload, Tim5Quiet, irqVars
<1>16. CASE AdcGive
  BY <1>16 DEF AdcGive, Tim5Quiet, irqVars
<1>17. CASE TakeV
  BY <1>17 DEF TakeV, TaskLevel, irqVars, Tim5Quiet
<1>18. CASE TakeI
  BY <1>18 DEF TakeI, TaskLevel, irqVars, Tim5Quiet
<1>19. CASE CopyV
  BY <1>19 DEF CopyV, Copy, TaskLevel, irqVars, Tim5Quiet
<1>20. CASE CopyI
  BY <1>20 DEF CopyI, Copy, TaskLevel, irqVars, Tim5Quiet
<1>21. CASE PerformCalculation
  BY <1>21 DEF PerformCalculation, TaskLevel, irqVars, Tim5Quiet
<1>22. CASE CalcDelay
  BY <1>22 DEF CalcDelay, TaskLevel, irqVars, Tim5Quiet
<1>23. CASE CalcClear
  BY <1>23 DEF CalcClear, TaskLevel, Tim5Quiet
<1>24. CASE CalcEnable
  BY <1>24 DEF CalcEnable, TaskLevel, EnableExc, Tim5Quiet, Bits, Lines
<1>25. CASE MainArm
  BY <1>25 DEF MainArm, TaskLevel, EnableExc, Tim5Quiet, Bits, Lines
<1>26. CASE UNCHANGED vars
  BY <1>26 DEF vars, irqVars, tim5Vars, dmaVars, chanVars, doneVars, calcVars, timeVars
<1> QED
  BY <1>1, <1>2, <1>3, <1>4, <1>5, <1>6, <1>7, <1>8, <1>9, <1>10, <1>11,
     <1>12, <1>13, <1>14, <1>15, <1>16, <1>17, <1>18, <1>19, <1>20, <1>21,
     <1>22, <1>23, <1>24, <1>25, <1>26
  DEF Next, Hardware, Tim5Handler, ExcHandler, AdcHandler, CalcTask

\* The semaphores are empty while CalcTask owns the buffers.
LEMMA CalcInvStep == ASSUME IInv, [Next]_vars PROVE CalcInv'
<1> USE PipelineAssumption DEF IInv, TypeOK, CalcInv, Sources, Channels,
      Labels, None, Computing, tim5Vars, dmaVars, chanVars, doneVars,
      calcVars, timeVars
<1>1. CASE Roll
  BY <1>1 DEF Roll, Bits, Lines
<1>2. CASE Tim5Update
  BY <1>2 DEF Tim5Update, Bits, Lines
<1>3. CASE SampleClock
  BY <1>3 DEF SampleClock, Tim5Quiet, irqVars
<1>4. ASSUME NEW c \in Channels, DmaWord(c) PROVE CalcInv'
  BY <1>4 DEF DmaWord, Bits, Lines
<1>5. CASE Tim5Enter
  BY <1>5 DEF Tim5Enter, Bits, Lines
<1>6. CASE Tim5Mask
  BY <1>6 DEF Tim5Mask
<1>7. CASE TriggerEnable
  BY <1>7 DEF TriggerEnable, irqVars
<1>8. CASE TriggerFlush
  BY <1>8 DEF TriggerFlush, irqVars
<1>9. CASE TriggerSpi
  BY <1>9 DEF TriggerSpi, irqVars
<1>10. CASE ExcEnter
  BY <1>10 DEF ExcEnter, TaskLevel, Bits, Tim5Quiet, Lines
<1>11. CASE ExcitationRoll
  BY <1>11 DEF ExcitationRoll, Tim5Quiet, Bits, NextLabel, Lines
<1>12. CASE ExcMask
  BY <1>12 DEF ExcMask, Tim5Quiet
<1>13. ASSUME NEW c \in Channels, AdcEnter(c) PROVE CalcInv'
  BY <1>13 DEF AdcEnter, TaskLevel, Bits, Tim5Quiet, Lines
<1>14. CASE AdcStop
  BY <1>14 DEF AdcStop, Tim5Quiet, irqVars
<1>15. CASE AdcReload
  BY <1>15 DEF AdcReload, Tim5Quiet, irqVars
<1>16. CASE AdcGive
  BY <1>16 DEF BurstInv, AdcGive, Serving, Done, Tim5Quiet, irqVars
<1>17. CASE TakeV
  BY <1>17 DEF TakeV, TaskLevel, irqVars, Tim5Quiet
<1>18. CASE TakeI
  BY <1>18 DEF TakeI, TaskLevel, irqVars, Tim5Quiet
<1>19. CASE CopyV
  BY <1>19 DEF CopyV, Copy, TaskLevel, irqVars, Tim5Quiet
<1>20. CASE CopyI
  BY <1>20 DEF CopyI, Copy, TaskLevel, irqVars, Tim5Quiet
<1>21. CASE PerformCalculation
  BY <1>21 DEF PerformCalculation, TaskLevel, irqVars, Tim5Quiet
<1>22. CASE CalcDelay
  BY <1>22 DEF CalcDelay, TaskLevel, irqVars, Tim5Quiet
<1>23. CASE CalcClear
  BY <1>23 DEF CalcClear, TaskLevel, Tim5Quiet
<1>24. CASE CalcEnable
  BY <1>24 DEF CalcEnable, TaskLevel, EnableExc, Tim5Quiet, Bits, Lines
<1>25. CASE MainArm
  BY <1>25 DEF MainArm, TaskLevel, EnableExc, Tim5Quiet, Bits, Lines
<1>26. CASE UNCHANGED vars
  BY <1>26 DEF vars, irqVars, tim5Vars, dmaVars, chanVars, doneVars, calcVars, timeVars
<1> QED
  BY <1>1, <1>2, <1>3, <1>4, <1>5, <1>6, <1>7, <1>8, <1>9, <1>10, <1>11,
     <1>12, <1>13, <1>14, <1>15, <1>16, <1>17, <1>18, <1>19, <1>20, <1>21,
     <1>22, <1>23, <1>24, <1>25, <1>26
  DEF Next, Hardware, Tim5Handler, ExcHandler, AdcHandler, CalcTask

\* Words and copies belong to the measurement in progress.
LEMMA LabelInvStep == ASSUME IInv, [Next]_vars PROVE LabelInv'
<1> USE PipelineAssumption DEF IInv, TypeOK, LabelInv, Sources, Channels,
      Labels, None, Done, Serving, Copied, tim5Vars, dmaVars, chanVars,
      doneVars, calcVars, timeVars, Computing
<1>1. CASE Roll
  BY <1>1 DEF Roll, Bits, Lines
<1>2. CASE Tim5Update
  BY <1>2 DEF Tim5Update, Bits, Lines
<1>3. CASE SampleClock
  BY <1>3 DEF SampleClock, Tim5Quiet, irqVars
<1>4. ASSUME NEW c \in Channels, DmaWord(c) PROVE LabelInv'
  BY <1>4, SMTT(30) DEF DmaWord, Bits, Lines
<1>5. CASE Tim5Enter
  BY <1>5 DEF Tim5Enter, Bits, Lines
<1>6. CASE Tim5Mask
  BY <1>6 DEF Tim5Mask
<1>7. CASE TriggerEnable
  BY <1>7 DEF TriggerEnable, irqVars
<1>8. CASE TriggerFlush
  BY <1>8 DEF TriggerFlush, irqVars
<1>9. CASE TriggerSpi
  BY <1>9 DEF TriggerSpi, irqVars
<1>10. CASE ExcEnter
  BY <1>10 DEF ExcEnter, TaskLevel, Bits, Tim5Quiet, Lines
<1>11. CASE ExcitationRoll
  BY <1>11 DEF InterruptInv, ArmedInv, ExcitationRoll, Idle, Due, Tim5Quiet,
         Bits, NextLabel, Lines
<1>12. CASE ExcMask
  BY <1>12 DEF ExcMask, Tim5Quiet
<1>13. ASSUME NEW c \in Channels, AdcEnter(c) PROVE LabelInv'
  BY <1>13 DEF AdcEnter, TaskLevel, Bits, Tim5Quiet, Lines
<1>14. CASE AdcStop
  BY <1>14 DEF AdcStop, Tim5Quiet, irqVars
<1>15. CASE AdcReload
  BY <1>15 DEF BurstInv, AdcReload, Tim5Quiet, irqVars
<1>16. CASE AdcGive
  BY <1>16 DEF AdcGive, Tim5Quiet, irqVars
<1>17. CASE TakeV
  BY <1>17 DEF TakeV, TaskLevel, irqVars, Tim5Quiet
<1>18. CASE TakeI
  BY <1>18 DEF TakeI, TaskLevel, irqVars, Tim5Quiet
<1>19. CASE CopyV
  BY <1>19 DEF CopyV, Copy, TaskLevel, irqVars, Tim5Quiet
<1>20. CASE CopyI
  BY <1>20 DEF CopyI, Copy, TaskLevel, irqVars, Tim5Quiet
<1>21. CASE PerformCalculation
  BY <1>21 DEF PerformCalculation, TaskLevel, irqVars, Tim5Quiet
<1>22. CASE CalcDelay
  BY <1>22 DEF CalcDelay, TaskLevel, irqVars, Tim5Quiet
<1>23. CASE CalcClear
  BY <1>23 DEF CalcClear, TaskLevel, Tim5Quiet
<1>24. CASE CalcEnable
  BY <1>24 DEF CalcEnable, TaskLevel, EnableExc, Tim5Quiet, Bits, Lines
<1>25. CASE MainArm
  BY <1>25 DEF MainArm, TaskLevel, EnableExc, Tim5Quiet, Bits, Lines
<1>26. CASE UNCHANGED vars
  BY <1>26 DEF vars, irqVars, tim5Vars, dmaVars, chanVars, doneVars, calcVars, timeVars
<1> QED
  BY <1>1, <1>2, <1>3, <1>4, <1>5, <1>6, <1>7, <1>8, <1>9, <1>10, <1>11,
     <1>12, <1>13, <1>14, <1>15, <1>16, <1>17, <1>18, <1>19, <1>20, <1>21,
     <1>22, <1>23, <1>24, <1>25, <1>26
  DEF Next, Hardware, Tim5Handler, ExcHandler, AdcHandler, CalcTask

-----------------------------------------------------------------------------
(* The theorems *)

\* The pipeline never leaves the invariant, whatever the order in which the
\* timers, the DMA streams, the interrupt handlers and the tasks step.
THEOREM Invariance == Spec => []IInv
<1>1. IInv /\ [Next]_vars => IInv'
  BY TypeOKStep, InterruptInvStep, ArmedInvStep, DueInvStep, BurstInvStep,
     CalcInvStep, LabelInvStep
  DEF IInv
<1>2. QED
  BY InitIInv, <1>1, PTL DEF Spec

\* Every variable keeps its type, and neither the transfer counter of a burst
\* nor the index of a copy ever leaves its buffer.
THEOREM TypeCorrect == Spec => []TypeOK
<1>1. IInv => TypeOK
  BY DEF IInv
<1>2. QED
  BY Invariance, <1>1, PTL

\* CalcTask has the two single buffers of calctask.cc for itself from its second
\* xSemaphoreTake until it re-enables the waveform interrupt: no stream, no SPI
\* and no pending interrupt can touch them.
THEOREM BuffersAreOwned == Spec => []BuffersOwned
<1>1. IInv => BuffersOwned
  <2> SUFFICES ASSUME IInv PROVE BuffersOwned
    OBVIOUS
  <2> USE DEF IInv
  <2>1. SUFFICES ASSUME Computing
                 PROVE  \A c \in Channels : ~en[c] /\ ~spe[c] /\ arr[c]
                                /\ ~ie["tim5"] /\ pend = {} /\ ndtr[c] = N
    BY DEF BuffersOwned
  <2>2. \A c \in Channels : Done(c)
    BY <2>1 DEF Done
  <2>3. ~Due /\ ~Idle
    BY <2>2 DEF DueInv, Idle, Channels
  <2>4. \A c \in Channels : ~en[c] /\ ~spe[c] /\ arr[c] /\ ndtr[c] = N /\ ~flag[c]
    BY <2>2 DEF BurstInv
  <2>5. pend = {}
    <3>1. "tim5" \notin pend
      BY <2>3 DEF Due, Tim5Quiet
    <3>2. "exc" \notin pend
      BY <2>3 DEF InterruptInv, ArmedInv
    <3>3. \A c \in Channels : c \notin pend
      BY <2>4 DEF InterruptInv
    <3>4. QED
      BY <3>1, <3>2, <3>3 DEF TypeOK, Sources
  <2>6. QED
    BY <2>3, <2>4, <2>5 DEF Due
<1>2. QED
  BY Invariance, <1>1, PTL

\* PerformCalculation never mixes the samples of two measurements, nor one
\* measurement's voltage with another's current (first words apart).
THEOREM WaveformsAreCoherent == Spec => []CoherentWaveforms
<1>1. IInv => CoherentWaveforms
  BY DEF IInv, LabelInv, CoherentWaveforms, Copied
<1>2. QED
  BY Invariance, <1>1, PTL

\* No xSemaphoreGiveFromISR of ADCVComplete or ADCIComplete meets a semaphore
\* that is still available, so none is lost.
THEOREM NoCompletionIsLost == Spec => []NoLostCompletion
<1>1. IInv => NoLostCompletion
  <2> SUFFICES ASSUME IInv, NEW c \in Channels, flag[c] \/ Serving(c)
               PROVE  ~sem[c] /\ calc \in (IF c = "v" THEN {"takev"} ELSE {"takev", "takei"})
    BY DEF NoLostCompletion, Serving
  <2>1. ~Done(c)
    BY DEF IInv, BurstInv
  <2>2. QED
    BY <2>1 DEF IInv, TypeOK, Done, Computing, Channels
<1>2. QED
  BY Invariance, <1>1, PTL

\* Trigger never sets EN on a stream whose counter has run out, in whatever
\* order TIM5's handler, its repetition and the sample clocks interleave.
THEOREM TriggerAlwaysFindsRoom == Spec => []TriggerFindsRoom
<1>1. IInv => TriggerFindsRoom
  <2> SUFFICES ASSUME IInv, tim5 = "enable"
               PROVE  ndtr[tch] > 0 /\ ~flag[tch] /\ calc = "takev" /\ ~sem[tch]
    BY DEF TriggerFindsRoom
  <2> USE PipelineAssumption DEF IInv, TypeOK
  <2>1. \A c \in Channels : ~Done(c) /\ ~flag[c] /\ Load(c) <= 1 + ticks
    BY DEF DueInv, Due, Tim5Quiet
  <2>2. calc = "takev" /\ ~sem[tch]
    BY <2>1 DEF Done, Computing, Channels
  <2>3. /\ (IF rx[tch] # None THEN 1 ELSE 0) \in {0, 1}
        /\ ndtr[tch] \in 0..N /\ ticks \in 0..IsrTicks
        /\ Load(tch) <= 1 + ticks
    BY <2>1
  <2>4. ndtr[tch] > 0
    BY <2>3 DEF Load
  <2>5. QED
    BY <2>1, <2>2, <2>4
<1>2. QED
  BY Invariance, <1>1, PTL

-----------------------------------------------------------------------------
(* The abstract cycle *)

\* Channel c takes part in the measurement in progress: it samples, is being
\* completed, or waits for CalcTask.
Busy(c) == spe[c] \/ Serving(c) \/ c \in filledBar

\* What the mapping to the cycle needs beside IInv: from the roll to the last
\* trigger TIM5's handler is due or has left a channel sampling, and from then
\* on no channel drops out before the other has joined.
CycleInv ==
  /\ dma \in {"roll", "mask"} => ~flag["exc"]
  /\ dma = "mask" => Due \/ \E c \in Channels : spe[c]
  /\ tch = "i" => tim5 \in {"enable", "flush", "spi"} /\ spe["v"]
  /\ \A c \in Channels : /\ flag[c] => spe[c]
                         /\ en[c] /\ (ndtr[c] < N \/ rx[c] # None) => spe[c] \/ Due
  /\ (\E c \in Channels : Busy(c)) => Due \/ \A c \in Channels : Busy(c)

\* CycleInv holds initially.
LEMMA InitCycleInv == Init => CycleInv
  BY PipelineAssumption
  DEF Init, InitInterrupts, InitStreams, InitCalc, CycleInv, Busy, filledBar, Serving,
      Due, Tim5Quiet, Sources, Channels

\* Every step preserves CycleInv.
LEMMA CycleInvStep == ASSUME IInv, IInv', CycleInv, [Next]_vars PROVE CycleInv'
<1> USE PipelineAssumption DEF IInv, TypeOK, CycleInv, Busy, filledBar, Serving, Due,
      Tim5Quiet, Done, Computing, Sources, Channels, Labels, None, tim5Vars, dmaVars,
      chanVars, doneVars, calcVars, timeVars
<1>1. CASE Roll
  BY <1>1 DEF Roll, Bits, Lines
<1>2. CASE Tim5Update
  BY <1>2 DEF Tim5Update, Bits, Lines
<1>3. CASE SampleClock
  BY <1>3 DEF SampleClock, irqVars
<1>4. ASSUME NEW c \in Channels, DmaWord(c) PROVE CycleInv'
  <2>1. /\ ndtr[c] \in 1..N /\ N > 1 /\ en[c]
        /\ ndtr' = [ndtr EXCEPT ![c] = @ - 1] /\ UNCHANGED <<spe, dma, dch, tim5, tch, sem, calc>>
        /\ en' = [en EXCEPT ![c] = ndtr[c] > 1]
        /\ flag' = [flag EXCEPT ![c] = @ \/ ndtr[c] = 1] /\ ie' = ie
    BY <1>4 DEF DmaWord, BurstInv, Bits
  <2>2. Due' <=> Due
    BY <1>4, <2>1 DEF DmaWord, Bits, Lines
  <2>3. spe[c] \/ Due
    BY <1>4, <2>1 DEF DmaWord
  <2>4. spe[c] \/ Due'
    BY <2>2, <2>3
  <2>5. Due' => ~flag'[c]
    BY DEF DueInv
  <2>6. flag'["exc"] = flag["exc"]
    BY <2>1
  <2>7. \A x \in Channels : flag'[x] => spe'[x]
    BY <2>1, <2>4, <2>5
  <2>8. \A x \in Channels : en'[x] /\ (ndtr'[x] < N \/ rx'[x] # None) => spe'[x] \/ Due'
    BY <1>4, <2>1, <2>2, <2>4 DEF DmaWord
  <2>9. \A x \in Channels : Busy(x)' <=> Busy(x)
    BY <2>1
  <2> HIDE DEF Busy, Due
  <2>10. (\E x \in Channels : Busy(x)') => Due' \/ \A x \in Channels : Busy(x)'
    BY <2>2, <2>9
  <2> QED BY <2>1, <2>2, <2>6, <2>7, <2>8, <2>10
<1>5. CASE Tim5Enter
  BY <1>5 DEF Tim5Enter, Bits, Lines
<1>6. CASE Tim5Mask
  BY <1>6 DEF Tim5Mask
<1>7. CASE TriggerEnable
  BY <1>7 DEF TriggerEnable, irqVars, DueInv
<1>8. CASE TriggerFlush
  BY <1>8 DEF TriggerFlush, irqVars
<1>9. CASE TriggerSpi
  BY <1>9 DEF TriggerSpi, irqVars, DueInv
<1>10. CASE ExcEnter
  BY <1>10 DEF ExcEnter, TaskLevel, Bits, Lines, ArmedInv, Idle
<1>11. CASE ExcitationRoll
  BY <1>11 DEF ExcitationRoll, Bits, Lines
<1>12. CASE ExcMask
  BY <1>12 DEF ExcMask
<1>13. ASSUME NEW c \in Channels, AdcEnter(c) PROVE CycleInv'
  BY <1>13 DEF AdcEnter, TaskLevel, Bits, Lines, InterruptInv, DueInv
<1>14. CASE AdcStop
  BY <1>14 DEF AdcStop, irqVars, BurstInv
<1>15. CASE AdcReload
  BY <1>15 DEF AdcReload, irqVars, BurstInv
<1>16. CASE AdcGive
  BY <1>16 DEF AdcGive, irqVars, BurstInv
<1>17. CASE TakeV
  BY <1>17 DEF TakeV, TaskLevel, irqVars, DueInv
<1>18. CASE TakeI
  BY <1>18 DEF TakeI, TaskLevel, irqVars, BurstInv, CalcInv
<1>19. CASE CopyV
  BY <1>19 DEF CopyV, Copy, TaskLevel, irqVars
<1>20. CASE CopyI
  BY <1>20 DEF CopyI, Copy, TaskLevel, irqVars
<1>21. CASE PerformCalculation
  BY <1>21 DEF PerformCalculation, TaskLevel, irqVars
<1>22. CASE CalcDelay
  BY <1>22 DEF CalcDelay, TaskLevel, irqVars
<1>23. CASE CalcClear
  BY <1>23 DEF CalcClear, TaskLevel
<1>24. CASE CalcEnable
  BY <1>24 DEF CalcEnable, TaskLevel, EnableExc, Bits, Lines
<1>25. CASE MainArm
  BY <1>25 DEF MainArm, TaskLevel, EnableExc, Bits, Lines
<1>26. CASE UNCHANGED vars
  BY <1>26 DEF vars, irqVars
<1> QED
  BY <1>1, <1>2, <1>3, <1>4, <1>5, <1>6, <1>7, <1>8, <1>9, <1>10, <1>11,
     <1>12, <1>13, <1>14, <1>15, <1>16, <1>17, <1>18, <1>19, <1>20, <1>21,
     <1>22, <1>23, <1>24, <1>25, <1>26
  DEF Next, Hardware, Tim5Handler, ExcHandler, AdcHandler, CalcTask

\* The mapped initial state is initial.
LEMMA InitMaps == Init => Cycle!Init
  BY DEF Init, InitInterrupts, InitStreams, InitCalc, Cycle!Init, phaseBar, filledBar,
     rollDue, Computing, Tim5Quiet, Sources, Channels

\* Every step of the pipeline is a step of the cycle or leaves it where it is.
LEMMA StepMaps == ASSUME IInv, IInv', CycleInv, [Next]_vars PROVE [Cycle!Next]_(Cycle!vars)
<1> USE PipelineAssumption DEF IInv, TypeOK, CycleInv, Busy, filledBar, phaseBar, rollDue,
      Serving, Due, Tim5Quiet, Done, Computing, Sources, Channels, Labels, None, tim5Vars,
      dmaVars, chanVars, doneVars, calcVars, timeVars, Cycle!vars
<1>1. CASE Roll
  BY <1>1 DEF Roll, Bits, Lines, Cycle!Next, Cycle!Roll
<1>2. CASE Tim5Update
  BY <1>2 DEF Tim5Update, Bits, Lines
<1>3. CASE SampleClock
  BY <1>3 DEF SampleClock, irqVars
<1>4. ASSUME NEW c \in Channels, DmaWord(c) PROVE [Cycle!Next]_(Cycle!vars)
  BY <1>4 DEF DmaWord, Bits, Lines
<1>5. CASE Tim5Enter
  BY <1>5 DEF Tim5Enter, Bits, Lines
<1>6. CASE Tim5Mask
  BY <1>6 DEF Tim5Mask
<1>7. CASE TriggerEnable
  BY <1>7 DEF TriggerEnable, irqVars
<1>8. CASE TriggerFlush
  BY <1>8 DEF TriggerFlush, irqVars
<1>9. CASE TriggerSpi
  BY <1>9 DEF TriggerSpi, irqVars, DueInv, Cycle!Next, Cycle!Trigger
<1>10. CASE ExcEnter
  BY <1>10 DEF ExcEnter, TaskLevel, Bits, Lines, ArmedInv, InterruptInv, Idle, Cycle!Next, Cycle!Roll
<1>11. CASE ExcitationRoll
  BY <1>11 DEF ExcitationRoll, Bits, Lines
<1>12. CASE ExcMask
  BY <1>12 DEF ExcMask
<1>13. ASSUME NEW c \in Channels, AdcEnter(c) PROVE [Cycle!Next]_(Cycle!vars)
  BY <1>13 DEF AdcEnter, TaskLevel, Bits, Lines
<1>14. CASE AdcStop
  BY <1>14 DEF AdcStop, irqVars, DueInv, BurstInv
<1>15. CASE AdcReload
  BY <1>15 DEF AdcReload, irqVars
<1>16. CASE AdcGive
  BY <1>16 DEF AdcGive, irqVars, DueInv, BurstInv, Cycle!Next, Cycle!Fill
<1>17. CASE TakeV
  BY <1>17 DEF TakeV, TaskLevel, irqVars
<1>18. CASE TakeI
  BY <1>18 DEF TakeI, TaskLevel, irqVars, BurstInv, CalcInv, Cycle!Next, Cycle!Compute
<1>19. CASE CopyV
  BY <1>19 DEF CopyV, Copy, TaskLevel, irqVars
<1>20. CASE CopyI
  BY <1>20 DEF CopyI, Copy, TaskLevel, irqVars
<1>21. CASE PerformCalculation
  BY <1>21 DEF PerformCalculation, TaskLevel, irqVars
<1>22. CASE CalcDelay
  BY <1>22 DEF CalcDelay, TaskLevel, irqVars
<1>23. CASE CalcClear
  BY <1>23 DEF CalcClear, TaskLevel, CalcInv, BurstInv, DueInv, Cycle!Next, Cycle!Rearm
<1>24. CASE CalcEnable
  BY <1>24 DEF CalcEnable, TaskLevel, EnableExc, Bits, Lines, CalcInv
<1>25. CASE MainArm
  BY <1>25 DEF MainArm, TaskLevel, EnableExc, Bits, Lines
<1>26. CASE UNCHANGED vars
  BY <1>26 DEF vars, irqVars
<1> QED
  BY <1>1, <1>2, <1>3, <1>4, <1>5, <1>6, <1>7, <1>8, <1>9, <1>10, <1>11,
     <1>12, <1>13, <1>14, <1>15, <1>16, <1>17, <1>18, <1>19, <1>20, <1>21,
     <1>22, <1>23, <1>24, <1>25, <1>26
  DEF Next, Hardware, Tim5Handler, ExcHandler, AdcHandler, CalcTask

\* The pipeline implements the safety of the cycle: a roll is acted on only
\* after the arming that follows a computation, the buffers are claimed when
\* both are complete, and no step of a measurement overlaps with the next.
THEOREM PipelineImplementsCycle == Spec => Cycle!SafeSpec
<1>1. IInv /\ CycleInv /\ [Next]_vars => IInv' /\ CycleInv'
  BY TypeOKStep, InterruptInvStep, ArmedInvStep, DueInvStep, BurstInvStep,
     CalcInvStep, LabelInvStep, CycleInvStep
  DEF IInv
<1>2. IInv /\ IInv' /\ CycleInv /\ [Next]_vars => [Cycle!Next]_(Cycle!vars)
  BY StepMaps
<1>3. QED
  BY InitIInv, InitCycleInv, InitMaps, <1>1, <1>2, PTL DEF Spec, Cycle!SafeSpec
=============================================================================
