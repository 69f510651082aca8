----------------------------- MODULE EthernetIf -----------------------------
(***************************************************************************)
(* The Ethernet interface under the stack: reception (EthernetRx) and      *)
(* transmission (EthernetTx), which share the stack's core lock. The input *)
(* task holds it while the stack processes a frame, and answers leave from *)
(* inside that call; other tasks and the stack's timers hold it for their  *)
(* own transmissions, and the input task waits for them.                   *)
(***************************************************************************)
EXTENDS EthernetRx, EthernetTx

CONSTANT MaxMixed   \* bound: frames when there are some in both directions

VARIABLE core       \* holder of the core lock: "nobody", "input" or "other"

allVars == <<vars, txVars, core>>

MayMix == arrived + txCalls < MaxMixed

IfInit == Init /\ TxInit /\ core = "nobody"

-----------------------------------------------------------------------------
(* The core lock *)

OtherLocks ==
  /\ core = "nobody" /\ core' = "other"
  /\ MayMix
  /\ UNCHANGED <<vars, txVars>>

OtherUnlocks ==
  /\ core = "other" /\ txPc = "idle" /\ core' = "nobody"
  /\ UNCHANGED <<vars, txVars>>

\* tcpip_inpkt takes the lock before it passes the frame on.
InputLocks ==
  /\ pc = "input" /\ core = "nobody" /\ core' = "input"
  /\ UNCHANGED <<vars, txVars>>

\* It returns the stack's answer once the lock is released.
InputReturns ==
  /\ core = "input" /\ txPc = "idle" /\ core' = "nobody"
  /\ Accepted \/ Refused
  /\ UNCHANGED txVars

\* The holder of the lock sends a frame.
Send ==
  /\ core # "nobody" /\ MayMix
  /\ TxCall
  /\ UNCHANGED <<vars, core>>

-----------------------------------------------------------------------------
FrameComes ==
  /\ MayMix \/ (txCalls = 0 /\ core # "other")
  /\ \E n \in 1..MaxSegs : FrameArrives(n)
  /\ UNCHANGED <<core, txVars>>

RxDma == DmaStep /\ UNCHANGED <<core, txVars>>
RxInterrupt == Interrupt /\ UNCHANGED <<core, txVars>>
RxTask ==
  /\ Take \/ Scan \/ ScanEnds \/ Copy \/ Release \/ ReleaseEnds \/ Resume
  /\ UNCHANGED <<core, txVars>>
RxStackFrees == StackFrees /\ UNCHANGED <<core, txVars>>

TxDriver == TxDriverStep /\ UNCHANGED <<vars, core>>
TxDma == TxDmaStep /\ UNCHANGED <<vars, core>>

IfNext ==
  \/ OtherLocks \/ OtherUnlocks \/ InputLocks \/ InputReturns \/ Send
  \/ FrameComes \/ RxDma \/ RxInterrupt \/ RxTask \/ RxStackFrees
  \/ TxDriver \/ TxDma

IfSpec == IfInit /\ [][IfNext]_allVars

\* As in EthernetRx; a call of the driver ends, a holder of the lock releases
\* it, and the input task, of the highest priority, gets it when it is released.
FairIfSpec ==
  /\ IfSpec
  /\ WF_allVars(RxDma) /\ WF_allVars(RxInterrupt) /\ WF_allVars(RxTask)
  /\ WF_allVars(TxDriver) /\ WF_allVars(TxDma)
  /\ WF_allVars(OtherUnlocks) /\ SF_allVars(InputLocks) /\ WF_allVars(InputReturns)

-----------------------------------------------------------------------------
(* Properties *)

\* Types, both directions.
IfTypeOK == TypeOK /\ TxTypeOK /\ core \in {"nobody", "input", "other"}

\* Reception goes on whatever is sent meanwhile: a DMA that ran out of
\* descriptors gets some, and a frame that waits for the core lock, or for the
\* answers to it to be sent, is done with in the end.
ReceptionGoesOn == ReceptionResumes /\ (pc = "input" ~> pc # "input")
=============================================================================
