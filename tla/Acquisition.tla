---------------------------- MODULE Acquisition -----------------------------
(***************************************************************************)
(* The measurement pipeline of the resistivity module: the excitation      *)
(* waveform (DMA1 stream 2 into the DAC), the two ADC channels (SPI +      *)
(* receive DMA stream each), the interrupt handlers that chain them and    *)
(* the calculation task that consumes the two sample buffers and re-arms   *)
(* the chain.                                                              *)
(*                                                                         *)
(*  waveform wraps -> DMA1_Stream2 handler -> enables TIM5's interrupt     *)
(*  -> TIM5 handler -> Trigger v, Trigger i -> SPI and DMA fill the two    *)
(*  buffers -> one handler per channel -> one semaphore per channel        *)
(*  -> CalcTask copies, computes, re-enables DMA1_Stream2's interrupt.     *)
(*                                                                         *)
(* One CPU: TIM5 (NVIC priority 4) preempts the three DMA handlers         *)
(* (priority 5, they do not preempt each other), which preempt the tasks.  *)
(* Every register access that another actor could see is a step.           *)
(***************************************************************************)
EXTENDS Naturals, FiniteSets

CONSTANTS
  N,          \* acquisitioncount_: words per burst (312 in resmod.cc)
  Gens,       \* labels of consecutive measurements, reused cyclically
  IsrTicks,   \* bound: sample clocks while TIM5's handler is due or running
  LateIsr     \* may DMAComplete run more than a sample period after its burst?

\* A TIM5 handler lasts a microsecond or so, a sample period is ten: far fewer
\* than N clocks pass (one in the runs), and one word may wait in the SPI.
ASSUME PipelineAssumption ==
  /\ N \in Nat
  /\ Gens \in Nat /\ Gens >= 2
  /\ IsrTicks \in Nat /\ N > IsrTicks + 1
  /\ LateIsr \in BOOLEAN

Channels == {"v", "i"}                    \* g_adcvtrigger, g_adcitrigger
Sources == Channels \cup {"exc", "tim5"}  \* the interrupt lines
Labels == 0 .. (Gens - 1)
None == Gens                              \* no word, no sample yet

VARIABLES
  flag,    \* status bits: TCIF0 (v), TCIF3 (i), TCIF2 (exc), UIF (tim5)
  ie,      \* interrupt enable bits: TCIE of the three streams, UIE
  pend,    \* interrupts latched by the NVIC
  tim5,    \* position in TIM5_IRQHandler
  tch,     \* the channel that handler is triggering
  dma,     \* position in the DMA handler that is active
  dch,     \* the channel it serves
  en,      \* EN bit of a channel's receive stream
  ndtr,    \* its NDTR: words still to be transferred
  spe,     \* SPE bit of a channel's SPI
  rx,      \* the word waiting in SPI_DR, by the measurement it was sampled in
  ovr,     \* its overrun flag (OVR)
  buff,    \* buff_: the words of the sample buffer, labelled likewise
  arr,     \* pvarr_ / piarr_ is set
  sem,     \* mutv_ / muti_ is available
  calc,    \* position in CalcTask
  k,       \* elements copied by the std::copy in progress
  wave,    \* waveform_v / waveform_i
  resist,  \* resist_can, by the measurement it was computed from
  main,    \* position in ResmodTask
  gen,     \* label of the last roll passed on by ExcitationRoll
  ticks    \* sample clocks since then with TIM5's handler due or running

irqVars == <<flag, ie, pend>>
tim5Vars == <<tim5, tch>>
dmaVars == <<dma, dch>>
chanVars == <<en, ndtr, spe, rx, ovr, buff>>
calcVars == <<calc, k, wave, resist>>
doneVars == <<arr, sem>>
timeVars == <<gen, ticks>>
vars == <<irqVars, tim5Vars, dmaVars, chanVars, doneVars, calcVars, main, timeVars>>

-----------------------------------------------------------------------------
(* Interrupts *)

Lines(f, e) == {s \in Sources : f[s] /\ e[s]}

\* Status and enable bits become f and e: the NVIC latches every line that
\* rises; taking an interrupt unlatches it.
Bits(f, e, taken) ==
  /\ flag' = f
  /\ ie' = e
  /\ pend' = (pend \ taken) \cup (Lines(f, e) \ Lines(flag, ie))

\* TIM5's handler outranks everything else on the CPU and starts at once.
Tim5Quiet == tim5 = "idle" /\ "tim5" \notin pend

\* Task code runs when no handler does. A DMA interrupt may be pending: the
\* kernel's critical sections mask priority 5 but not priority 4.
TaskLevel == Tim5Quiet /\ dma = "idle"

NextLabel(g) == IF g = Gens - 1 THEN 0 ELSE g + 1

-----------------------------------------------------------------------------
(* The state ResmodTask leaves just before it arms the pipeline: the timers *)
(* run and CalcTask, of higher priority, waits for its first semaphore.     *)

InitStreams ==   \* constructor of LTC2336SPIDMATrigger, for both channels
  /\ en = [c \in Channels |-> TRUE]
  /\ ndtr = [c \in Channels |-> N]
  /\ spe = [c \in Channels |-> FALSE]
  /\ rx = [c \in Channels |-> None] /\ ovr = [c \in Channels |-> FALSE]
  /\ buff = [c \in Channels |-> [j \in 1..N |-> None]]

InitCalc ==      \* constructor of CalculationTask
  /\ arr = [c \in Channels |-> FALSE]
  /\ sem = [c \in Channels |-> FALSE]
  /\ calc = "takev" /\ k = 0
  /\ wave = [c \in Channels |-> [j \in 1..N |-> None]]
  /\ resist = None

InitInterrupts ==
  /\ flag = [s \in Sources |-> FALSE]
  /\ ie = [s \in Sources |-> s \in Channels]
  /\ pend = {}
  /\ tim5 = "idle" /\ tch = "v"
  /\ dma = "idle" /\ dch = "v"

Init ==
  /\ InitInterrupts /\ InitStreams /\ InitCalc
  /\ main = "arm" /\ gen = 0 /\ ticks = 0

-----------------------------------------------------------------------------
(* Hardware *)

\* The circular stream of the waveform wraps. A period of it is 104 samples,
\* a millisecond: it does not end inside the few instructions of the handler
\* of the previous one.
Roll ==
  /\ dma \notin {"roll", "mask"}
  /\ Bits([flag EXCEPT !["exc"] = TRUE], ie, {})
  /\ UNCHANGED <<tim5Vars, dmaVars, chanVars, doneVars, calcVars, main, timeVars>>

\* TIM5 updates every sample period, whether or not anybody listens.
Tim5Update ==
  /\ Bits([flag EXCEPT !["tim5"] = TRUE], ie, {})
  /\ UNCHANGED <<tim5Vars, dmaVars, chanVars, doneVars, calcVars, main, timeVars>>

\* TIM1 and TIM2 run in step and clock a word into every enabled SPI. When the
\* word before it is still there the new one is lost, and with it all that
\* follow: OVR is cleared by a read of SPI_DR and then SPI_SR, and no code
\* reads SPI_SR. A running stream fetches a word well within a sample period.
SampleClock ==
  /\ \E c \in Channels : spe[c]
  /\ \A c \in Channels : spe[c] /\ rx[c] # None => ~en[c] /\ LateIsr
  /\ Tim5Quiet \/ ticks < IsrTicks
  /\ rx' = [c \in Channels |->
              IF spe[c] /\ rx[c] = None /\ ~ovr[c] THEN gen ELSE rx[c]]
  /\ ovr' = [c \in Channels |-> ovr[c] \/ (spe[c] /\ rx[c] # None)]
  /\ ticks' = IF Tim5Quiet THEN ticks ELSE ticks + 1
  /\ UNCHANGED <<irqVars, tim5Vars, dmaVars, en, ndtr, spe, buff, doneVars,
                 calcVars, main, gen>>

\* The receive stream of c moves the word; after the last one (normal mode)
\* the hardware clears EN and raises the transfer complete flag.
DmaWord(c) ==
  /\ en[c] /\ rx[c] # None
  /\ buff' = [buff EXCEPT ![c][N - ndtr[c] + 1] = rx[c]]
  /\ ndtr' = [ndtr EXCEPT ![c] = @ - 1]
  /\ rx' = [rx EXCEPT ![c] = None]
  /\ en' = [en EXCEPT ![c] = ndtr[c] > 1]
  /\ Bits([flag EXCEPT ![c] = @ \/ ndtr[c] = 1], ie, {})
  /\ UNCHANGED <<tim5Vars, dmaVars, spe, ovr, doneVars, calcVars, main, timeVars>>

-----------------------------------------------------------------------------
(* TIM5_IRQHandler *)

Tim5Enter ==                       \* TIM_ClearITPendingBit
  /\ tim5 = "idle" /\ "tim5" \in pend
  /\ Bits([flag EXCEPT !["tim5"] = FALSE], ie, {"tim5"})
  /\ tim5' = "mask" /\ tch' = "v"
  /\ UNCHANGED <<dmaVars, chanVars, doneVars, calcVars, main, timeVars>>

\* Variant: the handler forgets to mask the update interrupt.
Tim5MaskForgets ==
  /\ tim5 = "mask" /\ tim5' = "enable"
  /\ UNCHANGED <<irqVars, tch, dmaVars, chanVars, doneVars, calcVars, main, timeVars>>

Tim5Mask ==                        \* TIM_ITConfig(TIM5, TIM_IT_Update, DISABLE)
  /\ tim5 = "mask"
  /\ ie' = [ie EXCEPT !["tim5"] = FALSE]
  /\ tim5' = "enable"
  /\ UNCHANGED <<flag, pend, tch, dmaVars, chanVars, doneVars, calcVars, main, timeVars>>

\* Trigger(): CR |= EN, a read of SPI_DR to discard what it holds, SPE.
TriggerEnable ==
  /\ tim5 = "enable"
  /\ en' = [en EXCEPT ![tch] = TRUE]
  /\ tim5' = "flush"
  /\ UNCHANGED <<irqVars, tch, dmaVars, ndtr, spe, rx, ovr, buff, doneVars, calcVars, main,
                 timeVars>>

TriggerFlush ==
  /\ tim5 = "flush"
  /\ rx' = [rx EXCEPT ![tch] = None]
  /\ tim5' = "spi"
  /\ UNCHANGED <<irqVars, tch, dmaVars, en, ndtr, spe, ovr, buff, doneVars, calcVars,
                 main, timeVars>>

TriggerSpi ==                      \* the last access: on to channel i, or return
  /\ tim5 = "spi"
  /\ spe' = [spe EXCEPT ![tch] = TRUE]
  /\ tim5' = IF tch = "v" THEN "enable" ELSE "idle"
  /\ tch' = IF tch = "v" THEN "i" ELSE "v"
  /\ UNCHANGED <<irqVars, dmaVars, en, ndtr, rx, ovr, buff, doneVars, calcVars, main,
                 timeVars>>

-----------------------------------------------------------------------------
(* DMA1_Stream2_IRQHandler: the waveform has started over *)

ExcEnter ==
  /\ TaskLevel /\ "exc" \in pend
  /\ Bits([flag EXCEPT !["exc"] = FALSE], ie, {"exc"})
  /\ dma' = "roll"
  /\ UNCHANGED <<tim5Vars, dch, chanVars, doneVars, calcVars, main, timeVars>>

\* dmaroll_: ExcitationRoll enables TIM5's update interrupt. Its flag is set
\* already as a rule, and then the interrupt is due at once.
ExcitationRoll ==
  /\ Tim5Quiet /\ dma = "roll"
  /\ Bits(flag, [ie EXCEPT !["tim5"] = TRUE], {})
  /\ dma' = "mask"
  /\ gen' = NextLabel(gen) /\ ticks' = 0
  /\ UNCHANGED <<tim5Vars, dch, chanVars, doneVars, calcVars, main>>

\* Variant: the handler forgets to mask the waveform interrupt.
ExcMaskForgets ==
  /\ Tim5Quiet /\ dma = "mask" /\ dma' = "idle"
  /\ UNCHANGED <<irqVars, tim5Vars, dch, chanVars, doneVars, calcVars, main, timeVars>>

ExcMask ==                         \* DMA_ITConfig(DMA1_Stream2, DMA_IT_TC, DISABLE)
  /\ Tim5Quiet /\ dma = "mask"
  /\ ie' = [ie EXCEPT !["exc"] = FALSE]
  /\ dma' = "idle"
  /\ UNCHANGED <<flag, pend, tim5Vars, dch, chanVars, doneVars, calcVars, main, timeVars>>

-----------------------------------------------------------------------------
(* DMA2_Stream0_IRQHandler (v) and DMA1_Stream3_IRQHandler (i) *)

AdcEnter(c) ==
  /\ TaskLevel /\ c \in pend
  /\ Bits([flag EXCEPT ![c] = FALSE], ie, {c})
  /\ dma' = "stop" /\ dch' = c
  /\ UNCHANGED <<tim5Vars, chanVars, doneVars, calcVars, main, timeVars>>

\* Variant: DMAComplete leaves the SPI enabled.
AdcStopForgets ==
  /\ Tim5Quiet /\ dma = "stop" /\ dma' = "reload"
  /\ UNCHANGED <<irqVars, tim5Vars, dch, chanVars, doneVars, calcVars, main, timeVars>>

\* DMAComplete(): SPE off, M0AR and NDTR rewritten, then the callback.
AdcStop ==
  /\ Tim5Quiet /\ dma = "stop"
  /\ spe' = [spe EXCEPT ![dch] = FALSE]
  /\ dma' = "reload"
  /\ UNCHANGED <<irqVars, tim5Vars, dch, en, ndtr, rx, ovr, buff, doneVars, calcVars, main,
                 timeVars>>

\* Variant: DMAComplete does not rewrite NDTR.
AdcReloadForgets ==
  /\ Tim5Quiet /\ dma = "reload" /\ dma' = "give"
  /\ UNCHANGED <<irqVars, tim5Vars, dch, chanVars, doneVars, calcVars, main, timeVars>>

AdcReload ==
  /\ Tim5Quiet /\ dma = "reload"
  /\ ndtr' = [ndtr EXCEPT ![dch] = N]
  /\ dma' = "give"
  /\ UNCHANGED <<irqVars, tim5Vars, dch, en, spe, rx, ovr, buff, doneVars, calcVars, main,
                 timeVars>>

\* Variant: both callbacks give the semaphore of v.
AdcGiveSame ==
  /\ Tim5Quiet /\ dma = "give" /\ dma' = "idle"
  /\ arr' = [arr EXCEPT ![dch] = TRUE]
  /\ sem' = [sem EXCEPT !["v"] = TRUE]
  /\ UNCHANGED <<irqVars, tim5Vars, dch, chanVars, calcVars, main, timeVars>>

\* ADCVComplete / ADCIComplete. Giving a binary semaphore that is available
\* changes nothing. higherprio is uninitialised when the give does not write
\* it: the yield it may ask for resumes the same task.
AdcGive ==
  /\ Tim5Quiet /\ dma = "give"
  /\ arr' = [arr EXCEPT ![dch] = TRUE]
  /\ sem' = [sem EXCEPT ![dch] = TRUE]
  /\ dma' = "idle"
  /\ UNCHANGED <<irqVars, tim5Vars, dch, chanVars, calcVars, main, timeVars>>

-----------------------------------------------------------------------------
(* CalcTask *)

TakeV ==
  /\ TaskLevel /\ calc = "takev" /\ sem["v"]
  /\ sem' = [sem EXCEPT !["v"] = FALSE]
  /\ calc' = "takei"
  /\ UNCHANGED <<irqVars, tim5Vars, dmaVars, chanVars, arr, k, wave, resist, main, timeVars>>

\* Variant: the second take does not wait.
TakeINoWait ==
  /\ TaskLevel /\ calc = "takei"
  /\ sem' = [sem EXCEPT !["i"] = FALSE]
  /\ calc' = "copyv" /\ k' = 0
  /\ UNCHANGED <<irqVars, tim5Vars, dmaVars, chanVars, arr, wave, resist, main, timeVars>>

TakeI ==
  /\ TaskLevel /\ calc = "takei" /\ sem["i"]
  /\ sem' = [sem EXCEPT !["i"] = FALSE]
  /\ calc' = "copyv" /\ k' = 0
  /\ UNCHANGED <<irqVars, tim5Vars, dmaVars, chanVars, arr, wave, resist, main, timeVars>>

\* Variant: the copy stops one element early.
CopyShort(c, here, next) ==
  /\ TaskLevel /\ calc = here
  /\ wave' = [wave EXCEPT ![c][k + 1] = buff[c][k + 1]]
  /\ k' = IF k + 2 >= N THEN 0 ELSE k + 1
  /\ calc' = IF k + 2 >= N THEN next ELSE here
  /\ UNCHANGED <<irqVars, tim5Vars, dmaVars, chanVars, doneVars, resist, main, timeVars>>

\* One element of a std::copy; the copy of v is followed by that of i.
Copy(c, here, next) ==
  /\ TaskLevel /\ calc = here
  /\ wave' = [wave EXCEPT ![c][k + 1] = buff[c][k + 1]]
  /\ k' = IF k + 1 = N THEN 0 ELSE k + 1
  /\ calc' = IF k + 1 = N THEN next ELSE here
  /\ UNCHANGED <<irqVars, tim5Vars, dmaVars, chanVars, doneVars, resist, main, timeVars>>

CopyV == Copy("v", "copyv", "copyi")
CopyI == Copy("i", "copyi", "perform")

\* The result depends on both arrays; its label is that of the newest sample.
PerformCalculation ==
  /\ TaskLevel /\ calc = "perform"
  /\ resist' = wave["v"][N]
  /\ calc' = "delay"
  /\ UNCHANGED <<irqVars, tim5Vars, dmaVars, chanVars, doneVars, k, wave, main, timeVars>>

CalcDelay ==                       \* vTaskDelay(100) is over
  /\ TaskLevel /\ calc = "delay"
  /\ calc' = "clear"
  /\ UNCHANGED <<irqVars, tim5Vars, dmaVars, chanVars, doneVars, k, wave, resist, main,
                 timeVars>>

\* Variant: the flag of the rolls that went by unnoticed stays set.
CalcClearForgets ==
  /\ TaskLevel /\ calc = "clear" /\ calc' = "enable"
  /\ UNCHANGED <<irqVars, tim5Vars, dmaVars, chanVars, doneVars, k, wave, resist, main,
                 timeVars>>

CalcClear ==                       \* DMA_ClearITPendingBit(DMA1_Stream2, TCIF2)
  /\ TaskLevel /\ calc = "clear"
  /\ flag' = [flag EXCEPT !["exc"] = FALSE]
  /\ calc' = "enable"
  /\ UNCHANGED <<ie, pend, tim5Vars, dmaVars, chanVars, doneVars, k, wave, resist, main,
                 timeVars>>

\* DMA_ITConfig(DMA1_Stream2, DMA_IT_TC, ENABLE)
EnableExc == Bits(flag, [ie EXCEPT !["exc"] = TRUE], {})

CalcEnable ==
  /\ TaskLevel /\ calc = "enable"
  /\ EnableExc
  /\ calc' = "takev"
  /\ UNCHANGED <<tim5Vars, dmaVars, chanVars, doneVars, k, wave, resist, main, timeVars>>

\* ResmodTask arms the first measurement, without clearing the flag first; it
\* runs only while CalcTask, of higher priority, is blocked.
MainArm ==
  /\ TaskLevel /\ main = "arm" /\ calc = "takev" /\ ~sem["v"]
  /\ EnableExc
  /\ main' = "loop"
  /\ UNCHANGED <<tim5Vars, dmaVars, chanVars, doneVars, calcVars, timeVars>>

-----------------------------------------------------------------------------
Tim5Handler == Tim5Enter \/ Tim5Mask \/ TriggerEnable \/ TriggerFlush \/ TriggerSpi
ExcHandler == ExcEnter \/ ExcitationRoll \/ ExcMask
AdcHandler == (\E c \in Channels : AdcEnter(c)) \/ AdcStop \/ AdcReload \/ AdcGive
CalcTask == TakeV \/ TakeI \/ CopyV \/ CopyI \/ PerformCalculation \/ CalcDelay
            \/ CalcClear \/ CalcEnable
Hardware == Roll \/ Tim5Update \/ SampleClock \/ (\E c \in Channels : DmaWord(c))

Next == Hardware \/ Tim5Handler \/ ExcHandler \/ AdcHandler \/ CalcTask \/ MainArm

\* The timers and the DMA engines never stop, the NVIC serves what is pending,
\* and both tasks run whenever nothing above them does.
Fairness ==
  /\ WF_vars(Roll) /\ WF_vars(Tim5Update) /\ WF_vars(SampleClock)
  /\ \A c \in Channels : WF_vars(DmaWord(c))
  /\ WF_vars(Tim5Handler) /\ WF_vars(ExcHandler) /\ WF_vars(AdcHandler)
  /\ WF_vars(CalcTask) /\ WF_vars(MainArm)

Spec == Init /\ [][Next]_vars
FairSpec == Spec /\ Fairness
-----------------------------------------------------------------------------
(* Properties *)

\* Every variable keeps its type; the progress of a burst and of a copy stays
\* inside the buffers.
TypeOK ==
  /\ flag \in [Sources -> BOOLEAN] /\ ie \in [Sources -> BOOLEAN]
  /\ pend \in SUBSET Sources
  /\ tim5 \in {"idle", "mask", "enable", "flush", "spi"} /\ tch \in Channels
  /\ dma \in {"idle", "roll", "mask", "stop", "reload", "give"} /\ dch \in Channels
  /\ en \in [Channels -> BOOLEAN] /\ spe \in [Channels -> BOOLEAN]
  /\ ndtr \in [Channels -> 0..N]
  /\ rx \in [Channels -> Labels \cup {None}] /\ ovr \in [Channels -> BOOLEAN]
  /\ buff \in [Channels -> [1..N -> Labels \cup {None}]]
  /\ arr \in [Channels -> BOOLEAN] /\ sem \in [Channels -> BOOLEAN]
  /\ calc \in {"takev", "takei", "copyv", "copyi", "perform", "delay", "clear", "enable"}
  /\ k \in 0..(N - 1)
  /\ wave \in [Channels -> [1..N -> Labels \cup {None}]]
  /\ resist \in Labels \cup {None}
  /\ main \in {"arm", "loop"}
  /\ gen \in Labels
  /\ ticks \in 0..IsrTicks

Computing == calc \in {"copyv", "copyi", "perform", "delay", "clear", "enable"}

\* While CalcTask owns the two single buffers (from its second xSemaphoreTake
\* until it re-enables the waveform interrupt) the hardware writes neither and
\* no interrupt of the pipeline can fire: the buffers need no double buffering.
BuffersOwned ==
  Computing =>
    \A c \in Channels : ~en[c] /\ ~spe[c] /\ arr[c]
                       /\ ~ie["tim5"] /\ pend = {} /\ ndtr[c] = N

\* What PerformCalculation reads was sampled, on both channels, during the
\* measurement in progress. The first word of each may be older: a word left
\* in SPI_DR by a late DMAComplete can be moved by the stream before
\* Trigger's read discards it, because Trigger enables the stream first.
CoherentWaveforms ==
  calc = "perform" =>
    \A c \in Channels : \A j \in 2..N : wave[c][j] = gen

\* A completion is never lost in a semaphore that is still available, nor does
\* a channel complete twice for one measurement.
NoLostCompletion ==
  \A c \in Channels :
    (flag[c] \/ (dma \in {"stop", "reload", "give"} /\ dch = c))
      => ~sem[c] /\ calc \in (IF c = "v" THEN {"takev"} ELSE {"takev", "takei"})

\* TIM5's handler finds both streams with room for every word it can let in:
\* it never enables a stream whose burst is over, also not when an update
\* between its first two statements makes it run a second time.
TriggerFindsRoom ==
  tim5 = "enable" => ndtr[tch] > 0 /\ ~flag[tch] /\ calc = "takev" /\ ~sem[tch]

-----------------------------------------------------------------------------
(* The inductive invariant: the safety properties above follow from it *)

\* The buffer of c is complete and CalcTask has not released it.
Done(c) == sem[c] \/ (c = "v" /\ calc = "takei") \/ Computing

\* A handler is completing c.
Serving(c) == dma \in {"stop", "reload", "give"} /\ dch = c

\* TIM5's handler waits for an update, is pending or runs.
Due == ie["tim5"] \/ ~Tim5Quiet

\* No burst is in progress and none is waiting to be consumed.
Idle == \A c \in Channels :
          /\ ~Done(c) /\ ~flag[c] /\ ~Serving(c)
          /\ ndtr[c] = N /\ ~spe[c] /\ (en[c] => rx[c] = None)

\* Words a burst has let in so far, in the buffer or about to be moved there.
Load(c) == (N - ndtr[c]) + (IF rx[c] # None THEN 1 ELSE 0)

InterruptInv ==
  /\ \A c \in Channels : ie[c] /\ (flag[c] <=> c \in pend)
  /\ "exc" \in pend => ie["exc"] /\ dma \notin {"roll", "mask"}
  /\ dma \in {"roll", "mask"} => ie["exc"]

\* The waveform interrupt is enabled only between two measurements.
ArmedInv ==
  /\ (ie["exc"] /\ dma # "mask") \/ main = "arm" => Idle /\ ~Due
  /\ main = "arm" => ~ie["exc"]

DueInv ==
  /\ Due => /\ dma \in {"idle", "mask"}
            /\ \A c \in Channels : ~Done(c) /\ ~flag[c] /\ Load(c) <= 1 + ticks
  /\ ie["tim5"] => Idle /\ ticks = 0 /\ tim5 \in {"idle", "mask"}

BurstInv ==
  \A c \in Channels :
    /\ en[c] => ndtr[c] > 0 /\ ~flag[c] /\ ~Serving(c) /\ ~Done(c)
    /\ flag[c] => ndtr[c] = 0 /\ ~Serving(c) /\ ~Done(c)
    /\ Serving(c) => /\ ~Done(c)
                     /\ ndtr[c] = (IF dma = "give" THEN N ELSE 0)
                     /\ dma # "stop" => ~spe[c]
    /\ Done(c) => ~spe[c] /\ ndtr[c] = N /\ arr[c]

CalcInv ==
  /\ calc = "takei" => ~sem["v"]
  /\ Computing => \A c \in Channels : ~sem[c]
  /\ calc \notin {"copyv", "copyi"} => k = 0

\* Element j of the array of c is from the measurement in progress.
Copied(c, j) ==
  \/ calc = "copyv" /\ c = "v" /\ j <= k
  \/ calc = "copyi" /\ (c = "v" \/ j <= k)
  \/ calc = "perform"

LabelInv ==
  \A c \in Channels :
    /\ ndtr[c] < N /\ rx[c] # None => rx[c] = gen
    /\ \A j \in 2..N :
         j <= N - ndtr[c] \/ Done(c) \/ (Serving(c) /\ dma = "give")
           => buff[c][j] = gen
    /\ \A j \in 2..N :
         Copied(c, j) => wave[c][j] = gen

\* Inductive: a measurement's parts hand over to each other in order, so the
\* actor that may touch a channel is known in every state.
IInv ==
  TypeOK /\ InterruptInv /\ ArmedInv /\ DueInv /\ BurstInv /\ CalcInv /\ LabelInv

-----------------------------------------------------------------------------
(* Liveness *)

\* Every measurement that a roll starts is computed and published, unless a
\* handler that came late has let an SPI overrun: nothing else can stop the
\* pipeline.
EveryRollIsMeasured ==
  \A g \in Labels :
    gen = g /\ dma = "mask" ~> resist = g \/ \E c \in Channels : ovr[c]

-----------------------------------------------------------------------------
(* The abstract cycle this pipeline implements *)

filledBar == {c \in Channels : sem[c] \/ (c = "v" /\ calc = "takei")}

rollDue == \/ flag["exc"] /\ (ie["exc"] \/ calc = "enable" \/ main = "arm")
           \/ dma = "roll"
           \/ ie["tim5"] \/ ~Tim5Quiet

phaseBar ==
  IF Computing /\ calc # "enable" THEN "computing"
  ELSE IF filledBar # {} \/ \E c \in Channels : spe[c] THEN "acquiring"
  ELSE IF rollDue THEN "rolled" ELSE "armed"

Cycle == INSTANCE AcquisitionCycle WITH phase <- phaseBar, filled <- filledBar

\* The pipeline implements the cycle: a roll is acted on only after the arming
\* that follows a computation, buffers are claimed when both are complete, and
\* no step of a measurement overlaps with the next.
ImplementsCycle == Cycle!Spec
=============================================================================
