----------------------------- MODULE EthernetRx -----------------------------
(***************************************************************************)
(* Reception of the Ethernet interface: the MAC's DMA, which writes frames *)
(* into a ring of descriptors, the interrupt that notifies the input task, *)
(* and the input task, which takes frames from the ring and hands them to  *)
(* the stack.                                                              *)
(*                                                                         *)
(* A frame takes one or more descriptors. The DMA works between any two    *)
(* accesses of the task to a descriptor. The MAC and the stack are outside *)
(* the sources modelled here; they are described as the driver uses them.  *)
(***************************************************************************)
EXTENDS Integers, SequencesExt, FiniteSets

CONSTANTS
  RxBufNb,    \* ETH_RXBUFNB, descriptors in the ring
  MaxSegs,    \* descriptors a frame may take
  FifoLen,    \* frames that fit into the MAC's FIFO
  PoolSize,   \* pbuf chains the pool has
  MaxFrames   \* bound: frames that arrive

ASSUME RingAssumption ==
  /\ RxBufNb \in Nat \ {0} /\ MaxSegs \in 1..RxBufNb
  /\ FifoLen \in Nat \ {0} /\ PoolSize \in Nat \ {0} /\ MaxFrames \in Nat

VARIABLES
  arrived,    \* frames that arrived; a frame is known by its number
  fifo,       \* frames in the MAC's FIFO: number, size in descriptors
  done,       \* descriptors the DMA has filled for the first of them
  desc,       \* the descriptors: OWN, FS, LS and the frame in the buffer
  dma,        \* descriptor the DMA uses next
  suspended,  \* the DMA found no descriptor of its own
  rbus,       \* RBUS, the status bit that says so
  irq,        \* a received frame requests the interrupt
  notified,   \* notification count of the input task is not zero
  pc,         \* position of the input task
  get,        \* DMARxDescToGet
  segCount,   \* Seg_Count
  fs,         \* FS_Rx_Desc
  frame,      \* frame.descriptor of low_level_input
  i,          \* the loop counter in use
  p,          \* the pbuf chain: the contents copied into it
  free, held, \* pbuf chains in the pool, with the stack
  stored,     \* history: contents of the frames the DMA completed
  taken,      \* history: contents of the frames the task took
  gaveUp,     \* history: the last frame found no pbuf or was refused
  cut         \* history: a scan ended inside a frame

macVars == <<arrived, fifo, done, dma, suspended>>
scanVars == <<get, segCount, fs, frame>>
poolVars == <<p, free, held>>
vars == <<macVars, desc, rbus, irq, notified, pc, scanVars, i, poolVars,
          stored, taken, gaveUp, cut>>

Ring == 0..(RxBufNb - 1)
NoDesc == RxBufNb
Following(d) == (d + 1) % RxBufNb
\* The status word the code writes to give a descriptor to the DMA.
Own == [own |-> TRUE, first |-> FALSE, last |-> FALSE, of |-> 0]

Step(here, next) == pc = here /\ pc' = next

\* low_level_init, with the task it creates.
Init ==
  /\ arrived = 0 /\ fifo = <<>> /\ done = 0
  /\ desc = [d \in Ring |-> Own]
  /\ dma = 0 /\ suspended = FALSE /\ rbus = FALSE
  /\ irq = FALSE /\ notified = FALSE /\ pc = "take"
  /\ get = 0 /\ segCount = 0 /\ fs = NoDesc /\ frame = NoDesc /\ i = 0
  /\ p = <<>> /\ free = PoolSize /\ held = 0
  /\ stored = <<>> /\ taken = <<>> /\ gaveUp = FALSE /\ cut = FALSE

-----------------------------------------------------------------------------
(* The MAC and its DMA *)

\* A frame that finds the FIFO full is lost. One that arrives makes a
\* suspended DMA look at its descriptor again.
FrameArrives(n) ==
  /\ arrived < MaxFrames
  /\ arrived' = arrived + 1
  /\ fifo' = IF Len(fifo) < FifoLen
               THEN Append(fifo, [id |-> arrived + 1, segs |-> n]) ELSE fifo
  /\ suspended' = FALSE
  /\ UNCHANGED <<done, dma, desc, rbus, irq, notified, pc, scanVars, i,
                 poolVars, stored, taken, gaveUp, cut>>

\* The DMA fills a descriptor. When it has more of the frame and does not own
\* the following descriptor, it ends the frame here.
DmaFills ==
  /\ fifo # <<>> /\ ~suspended /\ desc[dma].own
  /\ LET f == Head(fifo)
         ends == done + 1 = f.segs \/ ~desc[Following(dma)].own
     IN  /\ desc' = [desc EXCEPT ![dma] = [own |-> FALSE, first |-> done = 0,
                                           last |-> ends, of |-> f.id]]
         /\ fifo' = IF ends THEN Tail(fifo) ELSE fifo
         /\ done' = IF ends THEN 0 ELSE done + 1
         /\ irq' = (irq \/ ends)
         /\ stored' = IF ends
                        THEN Append(stored, [k \in 1..(done + 1) |-> f.id])
                        ELSE stored
  /\ dma' = Following(dma)
  /\ UNCHANGED <<arrived, suspended, rbus, notified, pc, scanVars, i, poolVars,
                 taken, gaveUp, cut>>

DmaSuspends ==
  /\ fifo # <<>> /\ ~suspended /\ ~desc[dma].own
  /\ suspended' = TRUE /\ rbus' = TRUE
  /\ UNCHANGED <<arrived, fifo, done, dma, desc, irq, notified, pc, scanVars, i,
                 poolVars, stored, taken, gaveUp, cut>>

\* Variant: only a task that waits is woken.
InterruptUnlatched ==
  /\ irq /\ irq' = FALSE
  /\ notified' = (notified \/ pc = "take")
  /\ UNCHANGED <<macVars, desc, rbus, pc, scanVars, i, poolVars, stored, taken,
                 gaveUp, cut>>

\* ETHERNET_IRQHandler. The vector that calls it acknowledges the interrupt.
Interrupt ==
  /\ irq /\ irq' = FALSE
  /\ notified' = TRUE
  /\ UNCHANGED <<macVars, desc, rbus, pc, scanVars, i, poolVars, stored, taken,
                 gaveUp, cut>>

-----------------------------------------------------------------------------
(* ethernetif_input *)

\* ulTaskNotifyTake clears the count.
Take ==
  /\ notified /\ notified' = FALSE
  /\ Step("take", "scan")
  /\ UNCHANGED <<macVars, desc, rbus, irq, scanVars, i, poolVars, stored, taken,
                 gaveUp, cut>>

\* After 100 ticks it returns 0, and the task waits again.
TakeTimesOut == pc = "take" /\ ~notified /\ UNCHANGED vars

-----------------------------------------------------------------------------
(* ETH_Get_Received_Frame_interrupt *)

\* One turn of the loop over the descriptors the CPU owns.
Scan ==
  /\ pc = "scan" /\ ~desc[get].own /\ i < RxBufNb
  /\ LET d == desc[get]
         starts == d.first /\ ~d.last
         n == IF starts THEN 1 ELSE segCount + 1
         start == IF starts \/ (d.last /\ n = 1) THEN get ELSE fs
     IN  /\ segCount' = n
         /\ fs' = start
         /\ frame' = IF d.last THEN start ELSE NoDesc
         /\ pc' = IF d.last THEN "alloc" ELSE "scan"
         /\ i' = IF d.last THEN 0 ELSE i + 1
  /\ get' = Following(get)
  /\ UNCHANGED <<macVars, desc, rbus, irq, notified, poolVars, stored, taken,
                 gaveUp, cut>>

\* The loop ends without a frame: frame is {0, 0, 0} and p stays NULL.
ScanEnds ==
  /\ (desc[get].own \/ i = RxBufNb)
  /\ Step("scan", "release")
  /\ frame' = NoDesc /\ i' = 0
  /\ cut' = (cut \/ segCount > 0)
  /\ gaveUp' = FALSE
  /\ UNCHANGED <<macVars, desc, rbus, irq, notified, get, segCount, fs,
                 poolVars, stored, taken>>

-----------------------------------------------------------------------------
(* low_level_input *)

\* What the frame's descriptors hold, followed along the chain.
Contents == [k \in 1..segCount |-> desc[(frame + k - 1) % RxBufNb].of]

\* pbuf_alloc and the copy. Nothing is copied when the pool is empty: the frame
\* is dropped, and NULL tells the task that there is no further one.
Copy ==
  /\ Step("alloc", "release")
  /\ p' = IF free > 0 THEN Contents ELSE <<>>
  /\ free' = IF free > 0 THEN free - 1 ELSE 0
  /\ taken' = Append(taken, Contents)
  /\ gaveUp' = (free = 0)
  /\ UNCHANGED <<macVars, desc, rbus, irq, notified, scanVars, i, held, stored,
                 cut>>

\* One turn of the loop that gives the descriptors back. When a scan ended
\* inside a frame the code counts segments of a frame it has no descriptor of:
\* it writes through NULL, which stops the processor or changes nothing here.
Release ==
  /\ pc = "release" /\ i < segCount
  /\ i' = i + 1
  /\ desc' = [d \in Ring |->
                IF frame # NoDesc /\ d = (frame + i) % RxBufNb
                  THEN Own ELSE desc[d]]
  /\ pc' \in (IF frame = NoDesc THEN {"release", "fault"} ELSE {"release"})
  /\ UNCHANGED <<macVars, rbus, irq, notified, scanVars, poolVars, stored,
                 taken, gaveUp, cut>>

\* Variant: Seg_Count is not cleared.
ReleaseEndsUncleared ==
  /\ i = segCount /\ Step("release", "resume")
  /\ i' = 0
  /\ UNCHANGED <<macVars, desc, rbus, irq, notified, scanVars, poolVars,
                 stored, taken, gaveUp, cut>>

\* Seg_Count is cleared once all are given back.
ReleaseEnds ==
  /\ i = segCount /\ Step("release", "resume")
  /\ segCount' = 0 /\ i' = 0
  /\ UNCHANGED <<macVars, desc, rbus, irq, notified, get, fs, frame, poolVars,
                 stored, taken, gaveUp, cut>>

\* The task returns to the caller with a frame to hand over, or with none.
AfterInput == IF p = <<>> THEN "take" ELSE "input"

\* Variant: the status bit is cleared, no poll is demanded.
ResumeNoPoll ==
  /\ Step("resume", AfterInput)
  /\ rbus' = FALSE
  /\ UNCHANGED <<macVars, desc, irq, notified, scanVars, i, poolVars, stored,
                 taken, gaveUp, cut>>

\* Clear RBUS and demand that the DMA looks again.
Resume ==
  /\ Step("resume", AfterInput)
  /\ rbus' = FALSE
  /\ suspended' = (suspended /\ ~rbus)
  /\ UNCHANGED <<arrived, fifo, done, dma, desc, irq, notified, scanVars, i,
                 poolVars, stored, taken, gaveUp, cut>>

-----------------------------------------------------------------------------
(* netif->input *)

\* ERR_OK: the stack has the pbuf, and the task looks for the next frame.
Accepted ==
  /\ Step("input", "scan")
  /\ p' = <<>> /\ held' = held + 1
  /\ gaveUp' = FALSE
  /\ UNCHANGED <<macVars, desc, rbus, irq, notified, scanVars, i, free, stored,
                 taken, cut>>

\* Variant: a refused pbuf is not freed.
RefusedLeaks ==
  /\ Step("input", "take")
  /\ p' = <<>>
  /\ gaveUp' = TRUE
  /\ UNCHANGED <<macVars, desc, rbus, irq, notified, scanVars, i, free, held,
                 stored, taken, cut>>

\* Otherwise the task frees the pbuf and waits for a notification.
Refused ==
  /\ Step("input", "take")
  /\ p' = <<>> /\ free' = free + 1
  /\ gaveUp' = TRUE
  /\ UNCHANGED <<macVars, desc, rbus, irq, notified, scanVars, i, held, stored,
                 taken, cut>>

StackFrees ==
  /\ held > 0 /\ held' = held - 1 /\ free' = free + 1
  /\ UNCHANGED <<macVars, desc, rbus, irq, notified, pc, scanVars, i, p, stored,
                 taken, gaveUp, cut>>

-----------------------------------------------------------------------------
DmaStep == DmaFills \/ DmaSuspends

TaskStep ==
  \/ Take \/ Scan \/ ScanEnds \/ Copy \/ Release \/ ReleaseEnds \/ Resume
  \/ Accepted \/ Refused

Next ==
  \/ \E n \in 1..MaxSegs : FrameArrives(n)
  \/ DmaStep
  \/ Interrupt
  \/ TaskStep
  \/ TakeTimesOut
  \/ StackFrees

Spec == Init /\ [][Next]_vars

\* The input task has the highest priority, the MAC needs no help, an enabled
\* interrupt is taken, and the stack answers a call.
FairSpec == Spec /\ WF_vars(DmaStep) /\ WF_vars(Interrupt) /\ WF_vars(TaskStep)

-----------------------------------------------------------------------------
(* Properties *)

\* Types. What a copy reads after a cut may be a descriptor that was given back
\* before, whose contents are nobody's frame (0).
TypeOK ==
  /\ arrived \in 0..MaxFrames
  /\ fifo \in Seq([id : 1..MaxFrames, segs : 1..MaxSegs]) /\ Len(fifo) <= FifoLen
  /\ done \in 0..(MaxSegs - 1)
  /\ desc \in [Ring -> [own : BOOLEAN, first : BOOLEAN, last : BOOLEAN,
                        of : 0..MaxFrames]]
  /\ {dma, get} \subseteq Ring /\ {fs, frame} \subseteq Ring \cup {NoDesc}
  /\ {suspended, rbus, irq, notified, gaveUp, cut} \subseteq BOOLEAN
  /\ pc \in {"take", "scan", "alloc", "release", "resume", "input", "fault"}
  /\ segCount \in 0..MaxSegs /\ i \in 0..RxBufNb
  /\ p \in Seq(0..MaxFrames)
  /\ free \in 0..PoolSize /\ held \in 0..PoolSize

CpuOwned == {d \in Ring : ~desc[d].own}

\* The descriptors the DMA does not own are those it filled last, without a
\* gap, and DMARxDescToGet has passed exactly those of them that the scan has
\* counted and the task has not given back: no descriptor is ever lost to both
\* sides, and none is given to the DMA that still holds a frame.
RingInStep ==
  LET n == Cardinality(CpuOwned)
      back(k) == (dma + RxBufNb - k) % RxBufNb
  IN  /\ CpuOwned = {back(k) : k \in 1..n}
      /\ get = (back(n) + segCount - i * (IF pc = "release" THEN 1 ELSE 0)) % RxBufNb

\* The same as long as no scan ended inside a frame of several descriptors.
RingInStepUnlessCut == cut \/ RingInStep

\* The task takes the frames the DMA stored, whole and in their order, none
\* twice and none mixed with another, dropped ones included.
FramesAsStored == cut \/ IsPrefix(taken, stored)

\* When the input task waits without a notification, no complete frame waits
\* in the ring, unless the last one found no pbuf or was refused: the scan that
\* found nothing and the interrupt of a frame that came just after it never
\* miss each other.
NoSilentStall ==
  pc = "take" /\ ~notified /\ ~irq /\ ~gaveUp /\ ~cut
    => \A d \in CpuOwned : ~desc[d].last

\* Every pbuf is in the pool, with the task or with the stack, whatever the
\* path a frame takes through the driver.
PbufsAccounted == free + held + (IF p = <<>> THEN 0 ELSE 1) = PoolSize

\* A DMA that ran out of descriptors goes on, also when no further frame
\* arrives to wake it: the task that frees one demands a poll, even when it
\* then gives up draining.
ReceptionResumes == suspended ~> (~suspended \/ cut)
=============================================================================
