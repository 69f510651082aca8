--------------------------- MODULE EthernetIfProofs ---------------------------
(***************************************************************************)
(* The composed interface implements the specifications of its two         *)
(* directions, so that what is proved about each of them holds of it: the  *)
(* core lock restricts them and adds nothing.                              *)
(***************************************************************************)
EXTENDS EthernetIf, EthernetRxProofs, EthernetTxProofs

\* Each step of the interface is one of the reception or leaves it alone.
LEMMA IfStepsReceive == IfNext => [Next]_vars
  <1> USE DEF IfNext
  <1>1. OtherLocks \/ OtherUnlocks \/ InputLocks \/ Send \/ TxDriver \/ TxDma
        => UNCHANGED vars
    BY DEF OtherLocks, OtherUnlocks, InputLocks, Send, TxDriver, TxDma
  <1>2. InputReturns \/ FrameComes \/ RxDma \/ RxInterrupt \/ RxTask \/ RxStackFrees
        => Next
    BY DEF InputReturns, FrameComes, RxDma, RxInterrupt, RxTask, RxStackFrees,
           Next, TaskStep
  <1> QED BY <1>1, <1>2

\* And one of the transmission or leaves it alone.
LEMMA IfStepsTransmit == IfNext => [TxNext]_txVars
  <1> USE DEF IfNext
  <1>1. OtherLocks \/ OtherUnlocks \/ InputLocks \/ InputReturns \/ FrameComes
        \/ RxDma \/ RxInterrupt \/ RxTask \/ RxStackFrees
        => UNCHANGED txVars
    BY DEF OtherLocks, OtherUnlocks, InputLocks, InputReturns, FrameComes, RxDma,
           RxInterrupt, RxTask, RxStackFrees
  <1>2. Send \/ TxDriver \/ TxDma => TxNext
    BY DEF Send, TxDriver, TxDma, TxNext
  <1> QED BY <1>1, <1>2

\* The interface implements both directions.
THEOREM IfImplementsBoth == IfSpec => Spec /\ TxSpec
  <1>1. IfInit => Init /\ TxInit
    BY DEF IfInit
  <1>2. [IfNext]_allVars => [Next]_vars /\ [TxNext]_txVars
    BY IfStepsReceive, IfStepsTransmit DEF allVars
  <1> QED BY <1>1, <1>2, PTL DEF IfSpec, Spec, TxSpec

\* Types of the interface: those of its directions, and the lock has a holder or
\* none.
THEOREM IfTypesHold == IfSpec => []IfTypeOK
  <1> DEFINE CoreOK == core \in {"nobody", "input", "other"}
  <1>1. IfInit => CoreOK
    BY DEF IfInit
  <1>2. CoreOK /\ [IfNext]_allVars => CoreOK'
    <2> SUFFICES ASSUME CoreOK, [IfNext]_allVars PROVE CoreOK'
      OBVIOUS
    <2>1. CASE OtherLocks \/ OtherUnlocks \/ InputLocks \/ InputReturns
      BY <2>1 DEF OtherLocks, OtherUnlocks, InputLocks, InputReturns
    <2>2. CASE Send \/ FrameComes \/ RxDma \/ RxInterrupt \/ RxTask \/ RxStackFrees
               \/ TxDriver \/ TxDma
      BY <2>2 DEF Send, FrameComes, RxDma, RxInterrupt, RxTask, RxStackFrees, TxDriver, TxDma
    <2>3. CASE UNCHANGED allVars
      BY <2>3 DEF allVars
    <2> QED BY <2>1, <2>2, <2>3 DEF IfNext
  <1>3. IfSpec => []CoreOK
    BY <1>1, <1>2, PTL DEF IfSpec
  <1>4. TypeOK /\ TxTypeOK /\ CoreOK => IfTypeOK
    BY DEF IfTypeOK
  <1> HIDE DEF CoreOK
  <1> QED BY <1>3, <1>4, IfImplementsBoth, RxTypes, TypesHold, PTL

\* What is proved about the two directions holds of the interface, with the
\* calls of low_level_output coming from the input task and from others.
THEOREM IfKeepsPromises ==
  IfSpec => /\ []PbufsAccounted /\ []RingInStepUnlessCut /\ []FramesAsStored
            /\ []NoSilentStall
            /\ []LeaveInOrder /\ []NextCallRevives /\ DropsOnlyWhenFull
  BY IfImplementsBoth, NoPbufIsLost, RingStaysInStep, FramesComeAsStored, NoFrameIsForgotten,
     OrderKept, NextCallSuffices, NoEarlyDrop, PTL
=============================================================================
