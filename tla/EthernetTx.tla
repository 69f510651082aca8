----------------------------- MODULE EthernetTx -----------------------------
(***************************************************************************)
(* Transmission of the Ethernet interface: low_level_output, which copies  *)
(* a frame into the buffer of the next descriptor and gives it to the DMA, *)
(* and the DMA, which sends what it owns and suspends itself when it finds *)
(* a descriptor it does not own.                                           *)
(*                                                                         *)
(* A frame fits one descriptor: netif->mtu is 1500 and a buffer 1524. One  *)
(* call runs at a time, for the stack makes them all under its core lock   *)
(* (module EthernetIf), so xTxSemaphore is always free. The DMA works      *)
(* between any two accesses of the driver, and looks at a descriptor       *)
(* before it acts on it; that it suspends itself after a look in vain      *)
(* takes it a few cycles, less than the copy of a frame.                   *)
(***************************************************************************)
EXTENDS Integers, Sequences, SequencesExt

CONSTANTS
  TxBufNb,        \* ETH_TXBUFNB, descriptors in the ring
  MaxCalls,       \* bound: calls of low_level_output
  MaxUnderflows   \* bound: frames the MAC gives up for want of data in time

\* With one descriptor a DMA that missed a frame would find the ring full.
ASSUME TxRingAssumption ==
  /\ TxBufNb \in Nat /\ TxBufNb >= 2
  /\ MaxCalls \in Nat /\ MaxUnderflows \in Nat

VARIABLES
  txCalls,     \* calls so far; a frame is known by the number of its call
  txPc,        \* position of the call in progress
  txDesc,      \* the descriptors: OWN and the frame in the buffer
  toSet,       \* DMATxDescToSet
  txDma,       \* descriptor the DMA uses next
  seen,        \* what the DMA's look at it found
  txSuspended, \* the DMA waits for a poll demand
  tbus, tus,   \* the status bits that say why: no descriptor, underflow
  underflows,  \* underflows so far
  accepted,    \* history: frames given to the DMA
  left         \* history: frames the DMA took and gave back

txDmaVars == <<txDma, seen, txSuspended, underflows, left>>
txVars == <<txCalls, txPc, txDesc, toSet, txDmaVars, tbus, tus, accepted>>

TxRing == 0..(TxBufNb - 1)
TxFollowing(d) == (d + 1) % TxBufNb
TxStep(here, next) == txPc = here /\ txPc' = next

\* ETH_DMATxDescChainInit and ETH_Start.
TxInit ==
  /\ txCalls = 0 /\ txPc = "idle"
  /\ txDesc = [d \in TxRing |-> [own |-> FALSE, of |-> 0]]
  /\ toSet = 0 /\ txDma = 0 /\ seen = "nothing"
  /\ txSuspended = FALSE /\ tbus = FALSE /\ tus = FALSE /\ underflows = 0
  /\ accepted = <<>> /\ left = <<>>

-----------------------------------------------------------------------------
(* low_level_output *)

TxCall ==
  /\ txCalls < MaxCalls /\ txCalls' = txCalls + 1
  /\ TxStep("idle", "copy")
  /\ UNCHANGED <<txDesc, toSet, txDmaVars, tbus, tus, accepted>>

\* No descriptor is free: the frame is dropped, and the call still returns
\* ERR_OK.
TxDrop ==
  /\ TxStep("copy", "tus")
  /\ txDesc[toSet].own
  /\ UNCHANGED <<txCalls, txDesc, toSet, txDmaVars, tbus, tus, accepted>>

\* Variant: the descriptor is not tested before its buffer is written.
TxCopyUntested ==
  /\ TxStep("copy", "prepare") /\ seen # "none"
  /\ txDesc' = [txDesc EXCEPT ![toSet].of = txCalls]
  /\ UNCHANGED <<txCalls, toSet, txDmaVars, tbus, tus, accepted>>

\* The pbufs of the frame go into the buffer one after the other. Meanwhile the
\* DMA has acted on a look in vain.
TxCopy ==
  /\ TxStep("copy", "prepare")
  /\ ~txDesc[toSet].own /\ seen # "none"
  /\ txDesc' = [txDesc EXCEPT ![toSet].of = txCalls]
  /\ UNCHANGED <<txCalls, toSet, txDmaVars, tbus, tus, accepted>>

\* Variant: DMATxDescToSet stays where it is.
PrepareStays ==
  /\ TxStep("prepare", "tbus")
  /\ ~txDesc[toSet].own
  /\ txDesc' = [txDesc EXCEPT ![toSet].own = TRUE]
  /\ accepted' = Append(accepted, txDesc[toSet].of)
  /\ UNCHANGED <<txCalls, toSet, txDmaVars, tbus, tus>>

\* ETH_Prepare_Transmit_Descriptors: OWN gives the descriptor to the DMA.
Prepare ==
  /\ TxStep("prepare", "tbus")
  /\ ~txDesc[toSet].own
  /\ txDesc' = [txDesc EXCEPT ![toSet].own = TRUE]
  /\ toSet' = TxFollowing(toSet)
  /\ accepted' = Append(accepted, txDesc[toSet].of)
  /\ UNCHANGED <<txCalls, txDmaVars, tbus, tus>>

\* Variant: the end of ETH_Prepare_Transmit_Descriptors is left out.
NoResume ==
  /\ TxStep("tbus", "tus")
  /\ UNCHANGED <<txCalls, txDesc, toSet, txDmaVars, tbus, tus, accepted>>

\* Variant: the bit is cleared, no poll is demanded.
ResumeNoDemand ==
  /\ TxStep("tbus", "tus")
  /\ tbus' = FALSE
  /\ UNCHANGED <<txCalls, txDesc, toSet, txDmaVars, tus, accepted>>

\* Its end: when TBUS is set, clear it and demand a poll.
ResumeAfterPrepare ==
  /\ TxStep("tbus", "tus")
  /\ tbus' = FALSE
  /\ txSuspended' = (txSuspended /\ ~tbus)
  /\ UNCHANGED <<txCalls, txDesc, toSet, txDma, seen, underflows, left, tus, accepted>>

\* Every call ends with the same for TUS, whether its frame was dropped or not.
ResumeAtEnd ==
  /\ TxStep("tus", "idle")
  /\ tus' = FALSE
  /\ txSuspended' = (txSuspended /\ ~tus)
  /\ UNCHANGED <<txCalls, txDesc, toSet, txDma, seen, underflows, left, tbus, accepted>>

-----------------------------------------------------------------------------
(* The DMA *)

DmaLooks ==
  /\ ~txSuspended /\ seen = "nothing"
  /\ seen' = IF txDesc[txDma].own THEN "frame" ELSE "none"
  /\ UNCHANGED <<txCalls, txPc, txDesc, toSet, txDma, txSuspended, underflows, left, tbus,
                 tus, accepted>>

\* The descriptor goes back to the driver, the frame on the wire.
DmaSends ==
  /\ seen = "frame" /\ seen' = "nothing"
  /\ txDesc' = [txDesc EXCEPT ![txDma].own = FALSE]
  /\ txDma' = TxFollowing(txDma)
  /\ left' = Append(left, txDesc[txDma].of)
  /\ UNCHANGED <<txCalls, txPc, toSet, txSuspended, underflows, tbus, tus, accepted>>

\* The same without the wire, and the DMA suspends itself.
DmaUnderflows ==
  /\ underflows < MaxUnderflows /\ underflows' = underflows + 1
  /\ seen = "frame" /\ seen' = "nothing"
  /\ txDesc' = [txDesc EXCEPT ![txDma].own = FALSE]
  /\ txDma' = TxFollowing(txDma)
  /\ left' = Append(left, txDesc[txDma].of)
  /\ txSuspended' = TRUE /\ tus' = TRUE
  /\ UNCHANGED <<txCalls, txPc, toSet, tbus, accepted>>

TxDmaSuspends ==
  /\ seen = "none" /\ seen' = "nothing"
  /\ txSuspended' = TRUE /\ tbus' = TRUE
  /\ UNCHANGED <<txCalls, txPc, txDesc, toSet, txDma, underflows, left, tus, accepted>>

-----------------------------------------------------------------------------
TxDriverStep == TxDrop \/ TxCopy \/ Prepare \/ ResumeAfterPrepare \/ ResumeAtEnd

TxDmaStep == DmaLooks \/ DmaSends \/ DmaUnderflows \/ TxDmaSuspends

TxNext == TxCall \/ TxDriverStep \/ TxDmaStep

TxSpec == TxInit /\ [][TxNext]_txVars

-----------------------------------------------------------------------------
(* Properties *)

\* Types.
TxTypeOK ==
  /\ txCalls \in 0..MaxCalls /\ underflows \in 0..MaxUnderflows
  /\ txPc \in {"idle", "copy", "prepare", "tbus", "tus"}
  /\ txDesc \in [TxRing -> [own : BOOLEAN, of : 0..MaxCalls]]
  /\ toSet \in TxRing /\ txDma \in TxRing
  /\ seen \in {"nothing", "frame", "none"}
  /\ txSuspended \in BOOLEAN /\ tbus \in BOOLEAN /\ tus \in BOOLEAN
  /\ accepted \in Seq(1..MaxCalls) /\ left \in Seq(0..MaxCalls)

\* The DMA takes the frames given to it, each once, unchanged and in their
\* order: no call of low_level_output writes into a buffer that is not its own.
LeaveInOrder == IsPrefix(left, accepted)

\* A frame is dropped only when the whole ring waits to be sent:
\* DMATxDescToSet never points at a waiting descriptor while others are free.
DropsOnlyWhenFull ==
  [][txPc = "copy" /\ txPc' = "tus" => \A d \in TxRing : txDesc[d].own]_txVars

\* Whatever made the DMA suspend itself, the next call of low_level_output
\* gets it going: the reason is in the status register, and when it is TBUS,
\* which only ETH_Prepare_Transmit_Descriptors tests, that call will find a
\* free descriptor and come as far as the test.
NextCallRevives ==
  txSuspended /\ txPc # "tbus" => tus \/ (tbus /\ ~txDesc[toSet].own)

\* A frame waits and nothing moves before the next call: the DMA's look found
\* no frame and it suspended itself after the driver had tested TBUS, or it
\* gave up a frame after the driver had tested TUS. The status tells.
Forgotten == txSuspended /\ txPc = "idle" /\ txDesc[txDma].own /\ (tbus \/ tus)

\* The frames given to the DMA leave: when the calls are far enough apart the
\* ring empties between two of them, unless a frame is forgotten.
AcceptedLeave == []<>(left = accepted \/ Forgotten \/ txPc # "idle")
=============================================================================
