--------------------------- MODULE EthernetRxProofs ---------------------------
(***************************************************************************)
(* Proofs about EthernetRx for rings, pools and frames of every size: no   *)
(* pbuf is ever lost or freed twice and, unless a scan was cut short       *)
(* inside a frame, the task takes the frames as the DMA stored them, the   *)
(* descriptors are divided between the two as their positions say, and no  *)
(* complete frame waits without a wake-up on its way.                      *)
(***************************************************************************)
EXTENDS EthernetRx, SequenceTheorems, FiniteSetTheorems, FunctionTheorems, TLAPS

\* The task has a pbuf only between low_level_input and the stack's answer, and
\* a frame it copies has a segment at least.
PbufInv ==
  /\ free \in Nat /\ held \in Nat /\ segCount \in Nat
  /\ PbufsAccounted
  /\ pc \in {"take", "scan", "alloc"} => p = <<>>
  /\ pc = "alloc" => segCount >= 1
  /\ pc = "input" => p # <<>>

-----------------------------------------------------------------------------
\* It holds initially.
LEMMA InitPbufInv == Init => PbufInv
  BY RingAssumption DEF Init, PbufInv, PbufsAccounted

\* What the task copies out of a frame is not empty.
LEMMA ContentsNotEmpty ==
  ASSUME segCount \in Nat, segCount >= 1
  PROVE  Contents # <<>>
  <1>1. DOMAIN Contents = 1..segCount /\ 1 \in 1..segCount
    BY DEF Contents
  <1>2. DOMAIN << >> = {}
    OBVIOUS
  <1> QED BY <1>1, <1>2

\* Every path of a frame through the driver gives its pbuf back or to the stack.
LEMMA NextPbufInv == PbufInv /\ [Next]_vars => PbufInv'
  <1> SUFFICES ASSUME PbufInv, [Next]_vars
               PROVE  PbufInv'
    OBVIOUS
  <1> USE DEF PbufInv, PbufsAccounted, poolVars, scanVars, macVars
  <1>1. CASE \E n \in 1..MaxSegs : FrameArrives(n)
    BY <1>1 DEF FrameArrives
  <1>2. CASE DmaStep
    BY <1>2 DEF DmaStep, DmaFills, DmaSuspends
  <1>3. CASE Interrupt
    BY <1>3 DEF Interrupt
  <1>4. CASE Take
    BY <1>4 DEF Take, Step
  <1>5. CASE Scan
    <2>1. UNCHANGED <<p, free, held>> /\ pc = "scan" /\ pc' \in {"alloc", "scan"}
      BY <1>5 DEF Scan
    <2>2. segCount' \in {1, segCount + 1}
      BY <1>5 DEF Scan
    <2> QED BY <2>1, <2>2
  <1>6. CASE ScanEnds
    BY <1>6 DEF ScanEnds, Step
  <1>7. CASE Copy
    <2>1. pc = "alloc" /\ pc' = "release" /\ UNCHANGED <<held, segCount>>
      BY <1>7 DEF Copy, Step
    <2>2. CASE free > 0
      <3>1. p' = Contents /\ free' = free - 1
        BY <1>7, <2>2 DEF Copy
      <3>2. p' # <<>>
        BY <2>1, <3>1, ContentsNotEmpty
      <3> QED BY <2>1, <2>2, <3>1, <3>2
    <2>3. CASE ~(free > 0)
      <3>1. p' = <<>> /\ free' = 0 /\ free = 0
        BY <1>7, <2>3 DEF Copy
      <3> QED BY <2>1, <3>1
    <2> QED BY <2>2, <2>3
  <1>8. CASE Release
    BY <1>8 DEF Release
  <1>9. CASE ReleaseEnds
    BY <1>9 DEF ReleaseEnds, Step
  <1>10. CASE Resume
    BY <1>10 DEF Resume, Step, AfterInput
  <1>11. CASE Accepted
    BY <1>11 DEF Accepted, Step
  <1>12. CASE Refused
    BY <1>12 DEF Refused, Step
  <1>13. CASE TakeTimesOut \/ UNCHANGED vars
    BY <1>13 DEF TakeTimesOut, vars
  <1>14. CASE StackFrees
    BY <1>14 DEF StackFrees
  <1> QED BY <1>1, <1>2, <1>3, <1>4, <1>5, <1>6, <1>7, <1>8, <1>9, <1>10, <1>11,
             <1>12, <1>13, <1>14 DEF Next, TaskStep

\* Whatever the sizes of ring, pool and frames, every pbuf is in the pool, with
\* the task or with the stack.
THEOREM NoPbufIsLost == Spec => []PbufsAccounted
  <1>1. PbufInv => PbufsAccounted
    BY DEF PbufInv
  <1> QED BY <1>1, InitPbufInv, NextPbufInv, PTL DEF Spec

-----------------------------------------------------------------------------
(* Types *)

\* The contents of a frame, descriptor by descriptor.
Words == Seq(0..MaxFrames)

\* idx[d] numbers the segments of a frame in the descriptors the DMA filled: it
\* counts on from a descriptor to the next, and up to the one before dma it is
\* the progress of the DMA. A scan counts no further than this number, also
\* when an earlier one ended inside a frame.
RunInv(idx) ==
  /\ idx \in [Ring -> 1..MaxSegs]
  /\ \A d \in CpuOwned :
       ~desc[d].last =>
         /\ Following(d) \in CpuOwned =>
              ~desc[Following(d)].first /\ idx[Following(d)] = idx[d] + 1
         /\ Following(d) = dma => idx[d] = done
  /\ pc = "scan" /\ segCount > 0 =>
       \E d \in CpuOwned : Following(d) = get /\ ~desc[d].last /\ segCount <= idx[d]

\* The types, and what the loops and the DMA's progress in a frame need.
TypeInv ==
  /\ TypeOK /\ PbufInv
  /\ stored \in Seq(Words) /\ taken \in Seq(Words)
  /\ fifo = <<>> => done = 0
  /\ fifo # <<>> => done < Head(fifo).segs
  /\ pc \in {"take", "resume", "input"} => segCount = 0
  /\ pc \in {"take", "resume", "input", "alloc"} => i = 0
  /\ pc = "release" => i <= segCount
  /\ \E idx : RunInv(idx)

-----------------------------------------------------------------------------
(* The ring *)

\* The descriptor k after d, and how far d is after t.
Turn(d, k) == IF d + k < RxBufNb THEN d + k ELSE d + k - RxBufNb
Ahead(t, d) == IF d >= t THEN d - t ELSE d - t + RxBufNb

\* Segment k of n of a frame.
Segment(k, n, id) == [own |-> FALSE, first |-> k = 1, last |-> k = n, of |-> id]

\* s[m] counts the descriptors filled before frame m of those stored.
FramesInv(s) ==
  /\ s \in [1..(Len(stored) + 1) -> Nat]
  /\ \A m \in 1..(Len(stored) + 1) : \A l \in 1..(Len(stored) + 1) : m < l => s[m] < s[l]
  /\ \A m \in 1..Len(stored) : Len(stored[m]) = s[m + 1] - s[m]

Filled(s) == s[Len(stored) + 1] + done

\* Of the descriptors filled so far r are given back. The others start at t and
\* hold the segments that follow.
HeldInv(s, r, t) ==
  /\ r \in Nat /\ t \in Ring
  /\ Filled(s) - r \in 0..RxBufNb
  /\ dma = Turn(t, Filled(s) - r)
  /\ \A d \in Ring : ~desc[d].own <=> Ahead(t, d) < Filled(s) - r
  /\ \A m \in 1..Len(stored) : \A k \in 1..Len(stored[m]) :
       s[m] + k > r =>
         desc[Turn(t, s[m] + k - 1 - r)] = Segment(k, Len(stored[m]), stored[m][k])
  /\ \A k \in 1..done :
       desc[Turn(t, s[Len(stored) + 1] + k - 1 - r)] = Segment(k, 0, Head(fifo).id)

\* Where the task stands: it has taken the first frames, and gives back or scans
\* the next.
TaskInv(s, r, t) ==
  LET next == Len(taken) + 1
  IN  /\ Len(taken) <= Len(stored)
      /\ \A m \in 1..Len(taken) : taken[m] = stored[m]
      /\ pc # "fault"
      /\ pc # "release" => r = s[next]
      /\ pc \in {"take", "resume", "input"} => get = t
      /\ pc = "scan" =>
           /\ i = segCount /\ segCount <= Filled(s) - r /\ get = Turn(t, segCount)
           /\ next <= Len(stored) => segCount < Len(stored[next])
           /\ segCount > 0 => fs = t
      /\ pc = "alloc" =>
           /\ next <= Len(stored) /\ segCount = Len(stored[next])
           /\ frame = t /\ get = Turn(t, segCount)
      /\ pc = "release" =>
           /\ r = s[next] - (segCount - i) /\ get = Turn(t, segCount - i)
           /\ i < segCount => frame \in Ring /\ t = Turn(frame, i)

RingInv == \E s, r, t : FramesInv(s) /\ HeldInv(s, r, t) /\ TaskInv(s, r, t)

\* A complete frame that waits will be looked for, unless the task gave up.
WakeInv ==
  Len(taken) < Len(stored) =>
    \/ irq \/ notified \/ gaveUp \/ pc \in {"scan", "alloc", "input"}
    \/ pc \in {"release", "resume"} /\ p # <<>>

RxInv == TypeInv /\ (cut \/ (RingInv /\ WakeInv))

-----------------------------------------------------------------------------
(* Arithmetic of the ring *)

\* Around the ring, (d + k) % RxBufNb without the remainder.
LEMMA TurnIsMod ==
  \A d \in Ring : \A k \in 0..RxBufNb :
    (d + k) % RxBufNb = Turn(d, k) /\ Turn(d, k) \in Ring
  <1> USE RingAssumption DEF Ring, Turn
  <1> TAKE d \in Ring
  <1> TAKE k \in 0..RxBufNb
  <1>1. CASE d + k < RxBufNb
    <2>1. (d + k) % RxBufNb = d + k
      BY <1>1, SMT
    <2> QED BY <1>1, <2>1
  <1>2. CASE d + k >= RxBufNb
    <2> DEFINE e == d + k - RxBufNb
    <2>1. e \in 0..(RxBufNb - 1) /\ d + k = 1 * RxBufNb + e
      BY <1>2
    <2>2. (1 * RxBufNb + e) % RxBufNb = e
      BY <2>1, SMT
    <2> QED BY <1>2, <2>1, <2>2
  <1> QED BY <1>1, <1>2

\* The descriptor that follows; every one follows one only.
LEMMA FollowingTurns ==
  /\ \A d \in Ring : Following(d) = Turn(d, 1) /\ Following(d) \in Ring
  /\ \A d \in Ring : \A e \in Ring : Following(d) = Following(e) => d = e
  <1> USE RingAssumption
  <1>1. \A d \in Ring : Following(d) = Turn(d, 1) /\ Following(d) \in Ring
    BY TurnIsMod DEF Following
  <1>2. \A d \in Ring : \A e \in Ring : Turn(d, 1) = Turn(e, 1) => d = e
    BY DEF Turn, Ring
  <1> QED BY <1>1, <1>2

-----------------------------------------------------------------------------
(* The types are kept *)

Arrivals == [id : 1..MaxFrames, segs : 1..MaxSegs]
Descriptors == [own : BOOLEAN, first : BOOLEAN, last : BOOLEAN, of : 0..MaxFrames]

\* The frame at the head of the FIFO.
LEMMA HeadFacts ==
  ASSUME TypeOK, fifo # <<>>
  PROVE  /\ Head(fifo) \in Arrivals /\ Tail(fifo) \in Seq(Arrivals)
         /\ Len(Tail(fifo)) = Len(fifo) - 1
         /\ Head(fifo).id \in 1..MaxFrames /\ Head(fifo).segs \in 1..MaxSegs
  <1>1. fifo \in Seq(Arrivals)
    BY DEF TypeOK, Arrivals
  <1>2. Head(fifo) \in Arrivals /\ Tail(fifo) \in Seq(Arrivals) /\ Len(Tail(fifo)) = Len(fifo) - 1
    BY <1>1, HeadTailProperties
  <1>3. Head(fifo).id \in 1..MaxFrames /\ Head(fifo).segs \in 1..MaxSegs
    BY <1>2 DEF Arrivals
  <1> QED BY <1>2, <1>3

\* A frame that arrives goes behind the others.
LEMMA ArrivalStep ==
  ASSUME TypeInv, NEW n \in 1..MaxSegs, FrameArrives(n)
  PROVE  /\ arrived' \in 0..MaxFrames
         /\ fifo' \in Seq(Arrivals) /\ Len(fifo') <= FifoLen /\ fifo' # <<>>
         /\ fifo # <<>> => Head(fifo') = Head(fifo)
         /\ done < Head(fifo').segs
  <1> USE RingAssumption
  <1> DEFINE new == [id |-> arrived + 1, segs |-> n]
  <1>1. fifo \in Seq(Arrivals) /\ Len(fifo) <= FifoLen /\ arrived \in 0..MaxFrames /\ done \in Nat
    BY DEF TypeInv, TypeOK, Arrivals
  <1>2. arrived < MaxFrames /\ arrived' = arrived + 1 /\ new \in Arrivals
    BY <1>1 DEF FrameArrives, Arrivals
  <1>3. fifo' = IF Len(fifo) < FifoLen THEN Append(fifo, new) ELSE fifo
    BY DEF FrameArrives
  <1>4. fifo = <<>> => done = 0
    BY DEF TypeInv
  <1>5. fifo # <<>> => done < Head(fifo).segs
    BY DEF TypeInv
  <1>6. new.segs = n /\ n >= 1
    OBVIOUS
  <1> HIDE DEF new
  <1>7. CASE Len(fifo) < FifoLen
    <2>1. /\ fifo' \in Seq(Arrivals) /\ fifo' # <<>> /\ Len(fifo') = Len(fifo) + 1
          /\ \A j \in 1..Len(fifo) : fifo'[j] = fifo[j]
          /\ fifo'[Len(fifo) + 1] = new
      BY <1>1, <1>2, <1>3, <1>7, AppendProperties
    <2>2. Head(fifo') = fifo'[1] /\ (fifo # <<>> => Head(fifo) = fifo[1] /\ Len(fifo) >= 1)
      BY <1>1, <2>1
    <2>3. CASE fifo = <<>>
      <3>1. Head(fifo') = new
        BY <2>1, <2>2, <2>3
      <3> QED BY <1>1, <1>2, <1>4, <1>6, <1>7, <2>1, <2>3, <3>1
    <2>4. CASE fifo # <<>>
      <3>1. Head(fifo') = Head(fifo)
        BY <1>1, <2>1, <2>2, <2>4
      <3> QED BY <1>1, <1>2, <1>5, <1>7, <2>1, <2>4, <3>1
    <2> QED BY <2>3, <2>4
  <1>8. CASE ~(Len(fifo) < FifoLen)
    <2>1. fifo # <<>>
      BY <1>1, <1>8, EmptySeq
    <2> QED BY <1>1, <1>2, <1>3, <1>5, <1>8, <2>1
  <1> QED BY <1>7, <1>8

\* What the DMA writes, and how far it is then.
LEMMA FillStep ==
  ASSUME TypeInv, DmaFills
  PROVE  LET ends == done + 1 = Head(fifo).segs \/ ~desc[Following(dma)].own
         IN  /\ desc' = [desc EXCEPT ![dma] = [own |-> FALSE, first |-> done = 0,
                                               last |-> ends, of |-> Head(fifo).id]]
             /\ desc' \in [Ring -> Descriptors]
             /\ fifo' = (IF ends THEN Tail(fifo) ELSE fifo)
             /\ fifo' \in Seq(Arrivals) /\ Len(fifo') <= FifoLen
             /\ done' = (IF ends THEN 0 ELSE done + 1)
             /\ done + 1 <= Head(fifo).segs /\ done + 1 \in 1..MaxSegs
             /\ done' \in 0..(MaxSegs - 1)
             /\ (fifo' = <<>> => done' = 0) /\ (fifo' # <<>> => done' < Head(fifo').segs)
             /\ dma' = Following(dma) /\ dma' \in Ring /\ dma \in Ring
             /\ stored' = (IF ends THEN Append(stored, [k \in 1..(done + 1) |-> Head(fifo).id])
                                   ELSE stored)
             /\ [k \in 1..(done + 1) |-> Head(fifo).id] \in Words
             /\ stored' \in Seq(Words)
             /\ irq' = (irq \/ ends) /\ irq' \in BOOLEAN
  <1> USE RingAssumption
  <1> DEFINE f == Head(fifo)
             ends == done + 1 = f.segs \/ ~desc[Following(dma)].own
             word == [k \in 1..(done + 1) |-> f.id]
  <1>1. /\ fifo # <<>>
        /\ desc' = [desc EXCEPT ![dma] = [own |-> FALSE, first |-> done = 0,
                                          last |-> ends, of |-> f.id]]
        /\ fifo' = (IF ends THEN Tail(fifo) ELSE fifo)
        /\ done' = (IF ends THEN 0 ELSE done + 1)
        /\ irq' = (irq \/ ends) /\ dma' = Following(dma)
        /\ stored' = (IF ends THEN Append(stored, word) ELSE stored)
    BY DEF DmaFills
  <1>2. TypeOK /\ done < f.segs /\ stored \in Seq(Words)
    BY <1>1 DEF TypeInv
  <1>3. /\ f.id \in 1..MaxFrames /\ f.segs \in 1..MaxSegs
        /\ Tail(fifo) \in Seq(Arrivals) /\ Len(Tail(fifo)) = Len(fifo) - 1
    BY <1>1, <1>2, HeadFacts
  <1>4. /\ done \in Nat /\ dma \in Ring /\ fifo \in Seq(Arrivals) /\ Len(fifo) <= FifoLen
        /\ Len(fifo) \in Nat /\ desc \in [Ring -> Descriptors] /\ irq \in BOOLEAN
    BY <1>2, LenProperties DEF TypeOK, Arrivals, Descriptors
  <1> HIDE DEF f
  <1>5. ends \in BOOLEAN /\ (done = 0) \in BOOLEAN
    BY <1>3, <1>4
  <1>6. dma' \in Ring
    BY <1>1, <1>4, FollowingTurns
  <1>7. word \in Words
    BY <1>3, <1>4 DEF Words
  <1> HIDE DEF ends, word
  <1>8. desc' \in [Ring -> Descriptors]
    BY <1>1, <1>3, <1>4, <1>5 DEF Descriptors
  <1>9. stored' \in Seq(Words)
    BY <1>1, <1>2, <1>7, AppendProperties
  <1>10. fifo' \in Seq(Arrivals) /\ Len(fifo') <= FifoLen
    BY <1>1, <1>3, <1>4
  <1>11. done + 1 <= f.segs /\ done + 1 \in 1..MaxSegs
    BY <1>2, <1>3, <1>4
  <1>12. ends \/ done + 1 < f.segs
    BY <1>3, <1>4, <1>11 DEF ends
  <1>13. /\ done' \in 0..(MaxSegs - 1)
         /\ (fifo' = <<>> => done' = 0) /\ (fifo' # <<>> => done' < Head(fifo').segs)
    <2>1. CASE ends
      <3>1. fifo' # <<>> => Head(fifo') \in Arrivals
        BY <1>10, HeadTailProperties
      <3>2. fifo' # <<>> => Head(fifo').segs \in 1..MaxSegs
        BY <3>1 DEF Arrivals
      <3> QED BY <1>1, <2>1, <3>2
    <2>2. CASE ~ends
      BY <1>1, <1>3, <1>4, <1>12, <2>2 DEF f
    <2> QED BY <2>1, <2>2
  <1>14. irq' \in BOOLEAN
    BY <1>1, <1>4, <1>5
  <1> QED BY <1>1, <1>4, <1>6, <1>7, <1>8, <1>9, <1>10, <1>11, <1>13, <1>14 DEF ends, word, f

\* The DMA numbers the segments of a frame as it fills them.
LEMMA FillRuns ==
  ASSUME TypeInv, NEW idx, RunInv(idx), DmaFills
  PROVE  \E idx2 : RunInv(idx2)'
  <1> USE RingAssumption
  <1> DEFINE x == dma
             ends == done + 1 = Head(fifo).segs \/ ~desc[Following(x)].own
  <1>a. PICK idx2 : idx2 = [idx EXCEPT ![x] = done + 1]
    OBVIOUS
  <1>b. desc \in [Ring -> Descriptors] /\ x \in Ring /\ done \in Nat
    BY DEF TypeInv, TypeOK, Descriptors
  <1>1. /\ desc \in [Ring -> Descriptors] /\ x \in Ring /\ done \in Nat /\ dma' = Following(x)
        /\ desc' = [desc EXCEPT ![x] = [own |-> FALSE, first |-> done = 0,
                                        last |-> ends, of |-> Head(fifo).id]]
        /\ done' = (IF ends THEN 0 ELSE done + 1)
        /\ done + 1 \in 1..MaxSegs
    BY <1>b, FillStep
  <1>2. desc[x].own /\ pc' = pc /\ segCount' = segCount /\ get' = get
    BY DEF DmaFills, scanVars
  <1>3. idx2 \in [Ring -> 1..MaxSegs] /\ idx2[x] = done + 1
        /\ \A d \in Ring : d # x => idx2[d] = idx[d]
    BY <1>a, <1>1 DEF RunInv
  <1>4. /\ ~desc'[x].own /\ desc'[x].last = ends /\ desc'[x].first = (done = 0)
        /\ \A d \in Ring : d # x => desc'[d] = desc[d]
    BY <1>1
  <1>5. \A d \in Ring : d \in CpuOwned' <=> d \in CpuOwned \/ d = x
    BY <1>4 DEF CpuOwned
  <1>6. x \notin CpuOwned
    BY <1>2 DEF CpuOwned
  <1>7. CpuOwned \subseteq Ring /\ CpuOwned' \subseteq Ring
    BY DEF CpuOwned
  <1>8. ASSUME NEW d \in CpuOwned', ~desc'[d].last
        PROVE  /\ Following(d) \in CpuOwned' =>
                    ~desc'[Following(d)].first /\ idx2[Following(d)] = idx2[d] + 1
               /\ Following(d) = dma' => idx2[d] = done'
    <2>1. d \in Ring /\ Following(d) \in Ring
      BY <1>7, <1>8, FollowingTurns
    <2>2. CASE d = x
      <3>1. ~ends
        BY <1>4, <1>8, <2>2
      <3>2. Following(d) # x
        <4>1. CASE RxBufNb = 1
          <5>1. Head(fifo).segs \in 1..MaxSegs /\ MaxSegs = 1 /\ done + 1 <= Head(fifo).segs
            BY <4>1, HeadFacts, FillStep DEF TypeInv, DmaFills
          <5> QED BY <1>1, <3>1, <5>1
        <4>2. CASE RxBufNb # 1
          BY <2>1, <2>2, <4>2, FollowingTurns DEF Turn, Ring
        <4> QED BY <4>1, <4>2
      <3>3. desc[Following(d)].own
        BY <2>2, <3>1
      <3>4. Following(d) \notin CpuOwned'
        BY <1>5, <2>1, <3>2, <3>3 DEF CpuOwned
      <3> QED BY <1>1, <1>3, <2>2, <3>1, <3>4
    <2>3. CASE d # x
      <3>1. d \in CpuOwned /\ ~desc[d].last
        BY <1>4, <1>5, <1>8, <2>1, <2>3
      <3>2. Following(d) # dma'
        BY <1>1, <2>1, <2>3, FollowingTurns
      <3>3. CASE Following(d) = x
        <4>1. idx[d] = done
          BY <3>1, <3>3 DEF RunInv
        <4>2. done # 0
          BY <2>1, <4>1 DEF RunInv
        <4> QED BY <1>3, <1>4, <2>1, <2>3, <3>2, <3>3, <4>1, <4>2
      <3>4. CASE Following(d) # x
        <4>1. Following(d) \in CpuOwned' => Following(d) \in CpuOwned
          BY <1>5, <2>1, <3>4
        <4>2. Following(d) \in CpuOwned =>
                ~desc[Following(d)].first /\ idx[Following(d)] = idx[d] + 1
          BY <3>1 DEF RunInv
        <4> QED BY <1>3, <1>4, <2>1, <2>3, <3>2, <3>4, <4>1, <4>2
      <3> QED BY <3>3, <3>4
    <2> QED BY <2>2, <2>3
  <1>9. ASSUME pc' = "scan", segCount' > 0
        PROVE  \E d \in CpuOwned' : Following(d) = get' /\ ~desc'[d].last /\ segCount' <= idx2[d]
    <2>1. PICK d \in CpuOwned : Following(d) = get /\ ~desc[d].last /\ segCount <= idx[d]
      BY <1>2, <1>9 DEF RunInv
    <2>2. d \in Ring /\ d # x
      BY <1>6, <1>7, <2>1
    <2> QED BY <1>2, <1>3, <1>4, <1>5, <2>1, <2>2
  <1>10. idx2 \in [Ring -> 1..MaxSegs]
    BY <1>3
  <1>11. RunInv(idx2)'
    BY <1>8, <1>9, <1>10 DEF RunInv
  <1> QED BY <1>11

\* A scan counts no further than the segment it has reached.
LEMMA ScanRuns ==
  ASSUME TypeInv, NEW idx, RunInv(idx), Scan
  PROVE  /\ segCount' \in 1..MaxSegs
         /\ RunInv(idx)'
  <1> USE RingAssumption
  <1>1. /\ desc \in [Ring -> Descriptors] /\ get \in Ring /\ segCount \in Nat
        /\ idx \in [Ring -> 1..MaxSegs] /\ MaxSegs \in Nat
    BY SMTT(30) DEF TypeInv, TypeOK, Descriptors, RunInv
  <1>2. /\ get \in CpuOwned /\ get' = Following(get) /\ desc' = desc /\ dma' = dma /\ done' = done
        /\ pc' = IF desc[get].last THEN "alloc" ELSE "scan"
        /\ segCount' = IF desc[get].first /\ ~desc[get].last THEN 1 ELSE segCount + 1
    BY <1>1 DEF Scan, CpuOwned, macVars
  <1>3. segCount' \in 1..idx[get]
    <2>1. CASE segCount = 0
      BY <1>1, <1>2, <2>1
    <2>2. CASE segCount > 0
      <3>1. PICK d \in CpuOwned : Following(d) = get /\ ~desc[d].last /\ segCount <= idx[d]
        BY <2>2 DEF RunInv, Scan
      <3>2. idx[get] = idx[d] + 1 /\ ~desc[get].first /\ d \in Ring
        BY <1>2, <3>1 DEF RunInv, CpuOwned
      <3> QED BY <1>1, <1>2, <3>1, <3>2
    <2> QED BY <1>1, <2>1, <2>2
  <1>4. segCount' \in 1..MaxSegs
    BY <1>1, <1>3
  <1>5. CpuOwned' = CpuOwned
    BY <1>2 DEF CpuOwned
  <1>6. pc' = "scan" => /\ get \in CpuOwned' /\ Following(get) = get' /\ ~desc'[get].last
                        /\ segCount' <= idx[get]
    BY <1>1, <1>2, <1>3, <1>5
  <1>7. RunInv(idx)'
    BY <1>2, <1>5, <1>6 DEF RunInv
  <1> QED BY <1>4, <1>7

\* A descriptor the task gives back is in no run.
LEMMA ReleaseRuns ==
  ASSUME TypeInv, NEW idx, RunInv(idx), Release
  PROVE  RunInv(idx)'
  <1>1. /\ dma' = dma /\ done' = done /\ pc' # "scan"
        /\ \A d \in Ring : desc'[d] = Own \/ desc'[d] = desc[d]
    BY DEF Release, macVars
  <1>2. Own.own
    BY DEF Own
  <1>3. \A d \in CpuOwned' : d \in CpuOwned /\ desc'[d] = desc[d]
    BY <1>1, <1>2 DEF CpuOwned
  <1> QED BY <1>1, <1>3 DEF RunInv

\* So every step keeps the numbers.
LEMMA RunStep ==
  ASSUME TypeInv, [Next]_vars
  PROVE  \E idx : RunInv(idx)'
  <1>0. PICK idx : RunInv(idx)
    BY DEF TypeInv
  <1>1. CASE DmaFills
    BY <1>0, <1>1, FillRuns
  <1>2. CASE Scan
    BY <1>0, <1>2, ScanRuns
  <1>3. CASE Release
    BY <1>0, <1>3, ReleaseRuns
  <1>4. ASSUME desc' = desc, dma' = dma, done' = done,
               pc' = "scan" /\ segCount' > 0
                 => pc = "scan" /\ segCount' = segCount /\ get' = get
        PROVE  RunInv(idx)'
    <2>1. CpuOwned' = CpuOwned
      BY <1>4 DEF CpuOwned
    <2> QED BY <1>0, <1>4, <2>1 DEF RunInv
  <1>5. CASE (\E n \in 1..MaxSegs : FrameArrives(n)) \/ DmaSuspends \/ Interrupt \/ StackFrees
    BY <1>4, <1>5 DEF FrameArrives, DmaSuspends, Interrupt, StackFrees, macVars, scanVars
  <1>6. CASE Take \/ Accepted
    <2>1. segCount' = segCount /\ segCount = 0
      BY <1>6 DEF Take, Accepted, Step, TypeInv, scanVars
    <2> QED BY <1>4, <1>6, <2>1 DEF Take, Accepted, macVars
  <1>7. CASE ScanEnds \/ Copy \/ ReleaseEnds \/ Refused \/ Resume
    <2>1. pc' # "scan"
      BY <1>7 DEF ScanEnds, Copy, ReleaseEnds, Refused, Resume, AfterInput, Step
    <2> QED BY <1>4, <1>7, <2>1 DEF ScanEnds, Copy, ReleaseEnds, Refused, Resume, macVars
  <1>8. CASE TakeTimesOut \/ UNCHANGED vars
    BY <1>4, <1>8 DEF TakeTimesOut, vars, macVars, scanVars
  <1> QED BY <1>1, <1>2, <1>3, <1>5, <1>6, <1>7, <1>8 DEF Next, DmaStep, TaskStep

\* What a frame's descriptors hold has the type of a frame's contents.
LEMMA ContentsType ==
  ASSUME TypeOK
  PROVE  Contents \in Words
  <1> USE RingAssumption
  <1> DEFINE word(k) == desc[(frame + k - 1) % RxBufNb].of
  <1>1. /\ segCount \in Nat /\ frame \in Nat
    BY DEF TypeOK, Ring, NoDesc
  <1>2. \A k \in 1..segCount : (frame + k - 1) % RxBufNb \in Ring
    BY <1>1 DEF Ring
  <1>3. \A k \in 1..segCount : word(k) \in 0..MaxFrames
    BY <1>2 DEF TypeOK
  <1> HIDE DEF word
  <1>4. [k \in 1..segCount |-> word(k)] \in Words
    BY <1>1, <1>3 DEF Words
  <1> QED BY <1>4 DEF Contents, word

\* No part of a sum is more than the sum.
LEMMA SumBounds ==
  \A a \in Nat : \A b \in Nat : \A c \in {0, 1} : \A n :
    a + b + c = n => a \in 0..n /\ b \in 0..n
  OBVIOUS

\* Every step keeps the types and what the loops need.
LEMMA TypeInvStep ==
  ASSUME TypeInv, [Next]_vars
  PROVE  TypeInv'
  <1> USE RingAssumption
  <1>1. PbufInv' /\ \E idx : RunInv(idx)'
    BY NextPbufInv, RunStep DEF TypeInv
  <1> DEFINE FifoInv == /\ arrived \in 0..MaxFrames
                        /\ fifo \in Seq(Arrivals) /\ Len(fifo) <= FifoLen
                        /\ done \in 0..(MaxSegs - 1)
                        /\ (fifo = <<>> => done = 0)
                        /\ (fifo # <<>> => done < Head(fifo).segs)
             RingTypes == /\ desc \in [Ring -> Descriptors] /\ dma \in Ring /\ get \in Ring
                          /\ fs \in Ring \cup {NoDesc} /\ frame \in Ring \cup {NoDesc}
             BitTypes == /\ suspended \in BOOLEAN /\ rbus \in BOOLEAN /\ irq \in BOOLEAN
                         /\ notified \in BOOLEAN /\ gaveUp \in BOOLEAN /\ cut \in BOOLEAN
             LoopInv == /\ pc \in {"take", "scan", "alloc", "release", "resume", "input", "fault"}
                        /\ segCount \in 0..MaxSegs /\ i \in 0..RxBufNb
                        /\ pc \in {"take", "resume", "input"} => segCount = 0
                        /\ pc \in {"take", "resume", "input", "alloc"} => i = 0
                        /\ pc = "release" => i <= segCount
             WordTypes == p \in Words /\ stored \in Seq(Words) /\ taken \in Seq(Words)
  <1>2. FifoInv /\ RingTypes /\ BitTypes /\ LoopInv /\ WordTypes /\ PbufInv
    BY DEF TypeInv, TypeOK, Arrivals, Descriptors, Words
  <1>3. ASSUME FifoInv', RingTypes', BitTypes', LoopInv', WordTypes'
        PROVE  TypeInv'
    <2>1. free' \in 0..PoolSize /\ held' \in 0..PoolSize
      <3>1. free' \in Nat /\ held' \in Nat
        BY <1>1 DEF PbufInv
      <3>5. PbufsAccounted'
        BY <1>1 DEF PbufInv
      <3>2. (IF p' = <<>> THEN 0 ELSE 1) \in {0, 1}
        OBVIOUS
      <3>3. free' + held' + (IF p' = <<>> THEN 0 ELSE 1) = PoolSize
        BY <3>5, Zenon DEF PbufsAccounted
      <3> QED BY <3>1, <3>2, <3>3, SumBounds, Zenon
    <2>2. TypeOK'
      BY <1>3, <2>1 DEF TypeOK, Arrivals, Descriptors, Words
    <2> QED BY <1>1, <1>3, <2>2 DEF TypeInv
  <1>4. ASSUME FifoInv', RingTypes', BitTypes', LoopInv',
               UNCHANGED <<p, stored, taken>>
        PROVE  TypeInv'
    BY <1>2, <1>3, <1>4
  <1>5. ASSUME UNCHANGED <<macVars, desc>>, get' \in Ring,
               fs' \in Ring \cup {NoDesc}, frame' \in Ring \cup {NoDesc},
               irq' \in BOOLEAN, rbus' \in BOOLEAN, notified' \in BOOLEAN,
               gaveUp' \in BOOLEAN, cut' \in BOOLEAN
        PROVE  FifoInv' /\ RingTypes' /\ BitTypes'
    BY <1>2, <1>5 DEF macVars
  <1>6. CASE \E n \in 1..MaxSegs : FrameArrives(n)
    <2>1. PICK n \in 1..MaxSegs : FrameArrives(n)
      BY <1>6
    <2>2. FifoInv'
      BY <1>2, <2>1, ArrivalStep DEF FrameArrives
    <2>3. RingTypes' /\ BitTypes' /\ LoopInv' /\ UNCHANGED <<p, stored, taken>>
      BY <1>2, <2>1, ZenonT(30) DEF FrameArrives, scanVars, poolVars
    <2> QED BY <1>4, <2>2, <2>3
  <1>7. CASE DmaFills
    <2>1. FifoInv' /\ desc' \in [Ring -> Descriptors] /\ dma' \in Ring /\ irq' \in BOOLEAN
          /\ stored' \in Seq(Words)
      BY <1>2, <1>7, FillStep DEF DmaFills
    <2>2. RingTypes' /\ BitTypes' /\ LoopInv' /\ WordTypes'
      BY <1>2, <1>7, <2>1 DEF DmaFills, scanVars, poolVars
    <2> QED BY <1>3, <2>1, <2>2
  <1>8. CASE DmaSuspends
    BY <1>2, <1>4, <1>8 DEF DmaSuspends, scanVars, poolVars
  <1>9. CASE Interrupt
    BY <1>2, <1>4, <1>5, <1>9, ZenonT(30) DEF Interrupt, scanVars, poolVars
  <1>10. CASE Take
    BY <1>2, <1>4, <1>5, <1>10 DEF Take, Step, scanVars, poolVars
  <1>11. CASE Scan
    <2>1. segCount' \in 1..MaxSegs
      BY <1>11, ScanRuns DEF TypeInv
    <2>2. get' \in Ring
      BY <1>2, <1>11, FollowingTurns DEF Scan
    <2>3. fs' \in Ring \cup {NoDesc} /\ frame' \in Ring \cup {NoDesc}
      BY <1>2, <1>11 DEF Scan
    <2>4. FifoInv' /\ RingTypes' /\ BitTypes'
      BY <1>2, <1>5, <1>11, <2>2, <2>3 DEF Scan
    <2>5. LoopInv' /\ UNCHANGED <<p, stored, taken>>
      BY <1>2, <1>11, <2>1 DEF Scan, poolVars
    <2> QED BY <1>4, <2>4, <2>5
  <1>12. CASE ScanEnds
    <2>1. FifoInv' /\ RingTypes' /\ BitTypes'
      BY <1>2, <1>5, <1>12 DEF ScanEnds
    <2>2. LoopInv' /\ UNCHANGED <<p, stored, taken>>
      BY <1>2, <1>12 DEF ScanEnds, Step, poolVars
    <2> QED BY <1>4, <2>1, <2>2
  <1>13. CASE Copy
    <2>1. Contents \in Words
      BY ContentsType DEF TypeInv
    <2>2. <<>> \in Words
      BY DEF Words
    <2>3. p' \in Words /\ stored' = stored /\ taken' = Append(taken, Contents)
      BY <1>13, <2>1, <2>2 DEF Copy
    <2>4. taken' \in Seq(Words)
      BY <1>2, <2>1, <2>3, AppendProperties
    <2>5. FifoInv' /\ RingTypes' /\ BitTypes'
      BY <1>2, <1>5, <1>13 DEF Copy, scanVars
    <2>6. LoopInv'
      BY <1>2, <1>13 DEF Copy, Step, scanVars
    <2> QED BY <1>2, <1>3, <2>3, <2>4, <2>5, <2>6
  <1>14. CASE Release
    <2>1. Own \in Descriptors
      BY DEF Own, Descriptors
    <2>2. desc' \in [Ring -> Descriptors]
      BY <1>2, <1>14, <2>1 DEF Release
    <2>3. FifoInv' /\ RingTypes' /\ BitTypes'
      BY <1>2, <1>14, <2>2 DEF Release, macVars, scanVars
    <2>4. LoopInv' /\ UNCHANGED <<p, stored, taken>>
      BY <1>2, <1>14 DEF Release, scanVars, poolVars
    <2> QED BY <1>4, <2>3, <2>4
  <1>15. CASE ReleaseEnds
    <2>1. FifoInv' /\ RingTypes' /\ BitTypes'
      BY <1>2, <1>5, <1>15 DEF ReleaseEnds
    <2>2. LoopInv' /\ UNCHANGED <<p, stored, taken>>
      BY <1>2, <1>15 DEF ReleaseEnds, Step, poolVars
    <2> QED BY <1>4, <2>1, <2>2
  <1>16. CASE Resume
    <2>1. FifoInv' /\ RingTypes' /\ BitTypes'
      BY <1>2, <1>16 DEF Resume, scanVars
    <2>2. LoopInv' /\ UNCHANGED <<p, stored, taken>>
      BY <1>2, <1>16 DEF Resume, AfterInput, Step, scanVars, poolVars
    <2> QED BY <1>4, <2>1, <2>2
  <1>17. CASE Accepted \/ Refused
    <2>1. FifoInv' /\ RingTypes' /\ BitTypes'
      BY <1>2, <1>5, <1>17 DEF Accepted, Refused, scanVars
    <2>2. LoopInv' /\ UNCHANGED <<stored, taken>> /\ p' = <<>>
      BY <1>2, <1>17 DEF Accepted, Refused, Step, scanVars
    <2>3. <<>> \in Words
      BY DEF Words
    <2> QED BY <1>2, <1>3, <2>1, <2>2, <2>3
  <1>18. CASE StackFrees
    BY <1>2, <1>4, <1>5, <1>18 DEF StackFrees, scanVars
  <1>19. CASE TakeTimesOut \/ UNCHANGED vars
    BY <1>2, <1>4, <1>5, <1>19, SMTT(30) DEF TakeTimesOut, vars, scanVars, poolVars
  <1> QED BY <1>6, <1>7, <1>8, <1>9, <1>10, <1>11, <1>12, <1>13, <1>14, <1>15,
             <1>16, <1>17, <1>18, <1>19 DEF Next, DmaStep, TaskStep

\* The interface starts with every descriptor given to the DMA.
LEMMA InitTypeInv == Init => TypeInv
  <1> SUFFICES ASSUME Init PROVE TypeInv
    OBVIOUS
  <1> USE RingAssumption DEF Init
  <1>1. TypeOK
    BY DEF TypeOK, Ring, NoDesc, Own
  <1>2. PbufInv
    BY InitPbufInv
  <1>3. stored \in Seq(Words) /\ taken \in Seq(Words)
    BY EmptySeq
  <1>4. RunInv([d \in Ring |-> 1])
    BY DEF RunInv, CpuOwned, Own
  <1> QED BY <1>1, <1>2, <1>3, <1>4 DEF TypeInv

-----------------------------------------------------------------------------
(* The ring is kept, unless a scan ends inside a frame *)

\* Turn and Ahead undo each other, and a step on moves both by one.
LEMMA TurnAhead ==
  /\ \A t \in Ring : Turn(t, 0) = t /\ Turn(t, RxBufNb) = t
  /\ \A t \in Ring : \A d \in Ring : Ahead(t, d) \in 0..(RxBufNb - 1) /\ Turn(t, Ahead(t, d)) = d
  /\ \A t \in Ring : \A k \in 0..(RxBufNb - 1) :
       /\ Turn(t, k) \in Ring /\ Ahead(t, Turn(t, k)) = k
       /\ Following(Turn(t, k)) = Turn(t, k + 1)
       /\ Turn(Following(t), k) = Turn(t, k + 1)
  /\ \A t \in Ring : \A d \in Ring :
       Ahead(Following(t), d) = IF d = t THEN RxBufNb - 1 ELSE Ahead(t, d) - 1
  <1> USE RingAssumption
  <1>1. \A d \in Ring : Following(d) = (IF d + 1 < RxBufNb THEN d + 1 ELSE 0)
    BY FollowingTurns DEF Turn, Ring
  <1>2. \A t \in Ring : \A k \in 0..(RxBufNb - 1) : Turn(t, k) \in Ring
    BY DEF Turn, Ring
  <1>3. \A t \in Ring : \A k \in 0..(RxBufNb - 1) :
          Following(Turn(t, k)) = Turn(t, k + 1) /\ Turn(Following(t), k) = Turn(t, k + 1)
    BY <1>1, <1>2 DEF Turn, Ring
  <1>4. \A t \in Ring : \A d \in Ring :
          Ahead(Following(t), d) = IF d = t THEN RxBufNb - 1 ELSE Ahead(t, d) - 1
    BY <1>1 DEF Ahead, Ring
  <1> QED BY <1>2, <1>3, <1>4 DEF Turn, Ahead, Ring

\* What the parts of RingInv say together, in numbers.
LEMMA RingFacts ==
  ASSUME TypeInv, NEW s, NEW r, NEW t, FramesInv(s), HeldInv(s, r, t), TaskInv(s, r, t)
  PROVE  /\ Len(stored) \in Nat /\ Len(taken) \in Nat /\ Len(taken) <= Len(stored)
         /\ done \in Nat /\ r \in Nat /\ t \in Ring /\ segCount \in Nat /\ i \in Nat
         /\ \A m \in 1..(Len(stored) + 1) : s[m] \in Nat /\ s[m] <= s[Len(stored) + 1]
         /\ \A m \in 1..Len(stored) : Len(stored[m]) = s[m + 1] - s[m] /\ s[m] < s[m + 1]
         /\ r <= s[Len(taken) + 1]
         /\ Filled(s) = s[Len(stored) + 1] + done /\ Filled(s) - r \in 0..RxBufNb
  <1>1. /\ Len(stored) \in Nat /\ Len(taken) \in Nat /\ Len(taken) <= Len(stored)
        /\ done \in Nat /\ segCount \in Nat /\ i \in Nat
    BY LenProperties DEF TypeInv, TypeOK, TaskInv
  <1>2. r \in Nat /\ t \in Ring /\ Filled(s) - r \in 0..RxBufNb
    BY DEF HeldInv
  <1>3. \A m \in 1..(Len(stored) + 1) : s[m] \in Nat
    BY DEF FramesInv
  <1>4. \A m \in 1..(Len(stored) + 1) : s[m] <= s[Len(stored) + 1]
    <2> TAKE m \in 1..(Len(stored) + 1)
    <2>1. CASE m = Len(stored) + 1
      BY <1>3, <2>1
    <2>2. CASE m # Len(stored) + 1
      <3>1. m < Len(stored) + 1 /\ Len(stored) + 1 \in 1..(Len(stored) + 1)
        BY <1>1, <2>2
      <3>2. s[m] < s[Len(stored) + 1]
        BY <3>1 DEF FramesInv
      <3> QED BY <1>1, <1>3, <3>1, <3>2
    <2> QED BY <2>1, <2>2
  <1>5. \A m \in 1..Len(stored) : Len(stored[m]) = s[m + 1] - s[m] /\ s[m] < s[m + 1]
    <2> TAKE m \in 1..Len(stored)
    <2>1. m \in 1..(Len(stored) + 1) /\ m + 1 \in 1..(Len(stored) + 1) /\ m < m + 1
      BY <1>1
    <2> QED BY <2>1 DEF FramesInv
  <1>6. r <= s[Len(taken) + 1]
    <2>1. Len(taken) + 1 \in 1..(Len(stored) + 1)
      BY <1>1
    <2>2. CASE pc # "release"
      BY <1>2, <1>3, <2>1, <2>2 DEF TaskInv
    <2>3. CASE pc = "release"
      <3>1. r = s[Len(taken) + 1] - (segCount - i) /\ i <= segCount
        BY <2>3 DEF TaskInv, TypeInv
      <3> QED BY <1>1, <1>2, <1>3, <2>1, <3>1
    <2> QED BY <2>2, <2>3
  <1> QED BY <1>1, <1>2, <1>3, <1>4, <1>5, <1>6 DEF Filled

\* The segments held are at most as many as the descriptors.
LEMMA Offsets ==
  ASSUME TypeInv, NEW s, NEW r, NEW t, FramesInv(s), HeldInv(s, r, t), TaskInv(s, r, t)
  PROVE  /\ \A m \in 1..Len(stored) : \A k \in 1..Len(stored[m]) :
              s[m] + k > r => s[m] + k - 1 - r \in 0..(Filled(s) - r - 1)
         /\ \A k \in 1..done : s[Len(stored) + 1] + k - 1 - r \in 0..(Filled(s) - r - 1)
  <1> DEFINE top == s[Len(stored) + 1]
  <1>1. done \in Nat /\ r \in Nat /\ Filled(s) = top + done /\ Len(stored) \in Nat
    BY RingFacts
  <1>2. top \in Nat /\ r <= top
    <2>1. Len(stored) + 1 \in 1..(Len(stored) + 1) /\ Len(taken) + 1 \in 1..(Len(stored) + 1)
      BY RingFacts
    <2>2. s[Len(taken) + 1] \in Nat /\ s[Len(taken) + 1] <= top /\ top \in Nat /\ r <= s[Len(taken) + 1]
      BY <2>1, RingFacts
    <2> HIDE DEF top
    <2> QED BY <1>1, <2>2
  <1>3. ASSUME NEW m \in 1..Len(stored), NEW k \in 1..Len(stored[m]), s[m] + k > r
        PROVE  s[m] + k - 1 - r \in 0..(Filled(s) - r - 1)
    <2>1. m \in 1..(Len(stored) + 1) /\ m + 1 \in 1..(Len(stored) + 1)
      BY <1>1
    <2>2. s[m] \in Nat /\ s[m + 1] \in Nat /\ s[m + 1] <= top /\ Len(stored[m]) = s[m + 1] - s[m]
      BY <2>1, RingFacts
    <2> HIDE DEF top
    <2>3. k \in Nat /\ s[m] + k <= top
      BY <1>2, <2>2
    <2>4. s[m] + k > r /\ s[m] \in Nat
      BY <1>3, <2>2
    <2> QED BY <1>1, <1>2, <2>3, <2>4
  <1>4. \A k \in 1..done : top + k - 1 - r \in 0..(Filled(s) - r - 1)
    <2> HIDE DEF top
    <2> QED BY <1>1, <1>2
  <1> QED BY <1>3, <1>4

\* Frames stored and descriptors held depend on a part of the state only.
LEMMA HeldSame ==
  ASSUME NEW s, NEW r, NEW t, FramesInv(s), HeldInv(s, r, t), done \in Nat,
         stored' = stored, desc' = desc, dma' = dma, done' = done,
         done > 0 => Head(fifo') = Head(fifo)
  PROVE  FramesInv(s)' /\ HeldInv(s, r, t)'
  <1>1. FramesInv(s)'
    BY DEF FramesInv
  <1>2. Filled(s)' = Filled(s)
    BY DEF Filled
  <1>3. \A k \in 1..done : Segment(k, 0, Head(fifo').id) = Segment(k, 0, Head(fifo).id)
    OBVIOUS
  <1>4. HeldInv(s, r, t)'
    BY <1>2, <1>3 DEF HeldInv
  <1> QED BY <1>1, <1>4

\* What the task finds in the descriptor that it scans.
LEMMA Scanned ==
  ASSUME TypeInv, NEW s, NEW r, NEW t, FramesInv(s), HeldInv(s, r, t), TaskInv(s, r, t),
         pc = "scan", ~desc[get].own, i < RxBufNb
  PROVE  LET next == Len(taken) + 1
         IN  /\ segCount < Filled(s) - r /\ Following(get) = Turn(t, segCount + 1)
             /\ next <= Len(stored) =>
                  desc[get] = Segment(segCount + 1, Len(stored[next]), stored[next][segCount + 1])
             /\ ~(next <= Len(stored)) => desc[get] = Segment(segCount + 1, 0, Head(fifo).id)
  <1> USE RingAssumption
  <1> DEFINE next == Len(taken) + 1
  <1>1. /\ segCount \in Nat /\ segCount = i /\ segCount < RxBufNb /\ get = Turn(t, segCount)
        /\ r = s[next] /\ t \in Ring
    BY RingFacts DEF TaskInv
  <1>2. get \in Ring /\ Ahead(t, get) = segCount /\ Following(get) = Turn(t, segCount + 1)
    BY <1>1, TurnAhead
  <1>3. segCount < Filled(s) - r
    BY <1>2 DEF HeldInv
  <1>4. ASSUME next <= Len(stored)
        PROVE  desc[get] = Segment(segCount + 1, Len(stored[next]), stored[next][segCount + 1])
    <2>1. next \in 1..Len(stored) /\ Len(stored[next]) \in Nat /\ s[next] \in Nat
      BY <1>4, RingFacts
    <2>2. segCount + 1 \in 1..Len(stored[next])
      BY <1>1, <1>4, <2>1 DEF TaskInv
    <2>3. s[next] + (segCount + 1) > r /\ s[next] + (segCount + 1) - 1 - r = segCount
      BY <1>1, <2>1
    <2> HIDE DEF next
    <2> QED BY <1>1, <2>1, <2>2, <2>3 DEF HeldInv
  <1>5. ASSUME ~(next <= Len(stored))
        PROVE  desc[get] = Segment(segCount + 1, 0, Head(fifo).id)
    <2>1. next = Len(stored) + 1 /\ s[next] \in Nat /\ done \in Nat
          /\ Filled(s) = s[Len(stored) + 1] + done
      BY <1>5, RingFacts
    <2>2. segCount + 1 \in 1..done /\ s[Len(stored) + 1] + (segCount + 1) - 1 - r = segCount
      BY <1>1, <1>3, <2>1
    <2> QED BY <1>1, <2>2 DEF HeldInv
  <1> QED BY <1>2, <1>3, <1>4, <1>5

\* The copy takes the next frame stored, whole.
LEMMA CopiesNext ==
  ASSUME TypeInv, NEW s, NEW r, NEW t, FramesInv(s), HeldInv(s, r, t), TaskInv(s, r, t),
         pc = "alloc"
  PROVE  Contents = stored[Len(taken) + 1]
  <1> USE RingAssumption
  <1> DEFINE next == Len(taken) + 1
             word == stored[next]
  <1>1. /\ next \in 1..Len(stored) /\ segCount = Len(word) /\ frame = t /\ r = s[next] /\ t \in Ring
        /\ s[next] \in Nat /\ segCount \in Nat
    BY RingFacts DEF TaskInv
  <1>2. word \in Words /\ Contents \in Words
    BY <1>1, ElementOfSeq, ContentsType DEF TypeInv
  <1>3. segCount <= RxBufNb
    BY DEF TypeInv, TypeOK
  <1>4. \A k \in 1..segCount : desc[(frame + k - 1) % RxBufNb].of = word[k]
    <2> TAKE k \in 1..segCount
    <2>1. k - 1 \in 0..RxBufNb /\ frame + k - 1 = t + (k - 1) /\ k - 1 = s[next] + k - 1 - r
          /\ s[next] + k > r
      BY <1>1, <1>3 DEF Ring
    <2>2. (frame + k - 1) % RxBufNb = Turn(t, s[next] + k - 1 - r)
      BY <1>1, <2>1, TurnIsMod
    <2>3. desc[Turn(t, s[next] + k - 1 - r)] = Segment(k, Len(stored[next]), stored[next][k])
      BY <1>1, <2>1 DEF HeldInv
    <2> QED BY <2>2, <2>3 DEF Segment
  <1>5. Contents = [k \in 1..segCount |-> word[k]]
    BY <1>4 DEF Contents
  <1>6. word = [k \in 1..segCount |-> word[k]]
    <2>1. DOMAIN word = 1..segCount
      BY <1>1, <1>2, LenProperties DEF Words
    <2>2. word = [k \in DOMAIN word |-> word[k]]
      BY <1>1, <1>2, LenProperties DEF Words
    <2> QED BY <2>1, <2>2
  <1> QED BY <1>5, <1>6

\* The DMA adds a segment behind the others, and with the last one a frame.
LEMMA FillKeepsRing ==
  ASSUME TypeInv, NEW s, NEW r, NEW t, FramesInv(s), HeldInv(s, r, t), TaskInv(s, r, t),
         DmaFills
  PROVE  \E s2 : FramesInv(s2)' /\ HeldInv(s2, r, t)' /\ TaskInv(s2, r, t)'
  <1> USE RingAssumption
  <1> DEFINE L == Len(stored)
             f == Head(fifo)
             ends == done + 1 = f.segs \/ ~desc[Following(dma)].own
             word == [k \in 1..(done + 1) |-> f.id]
             n == Filled(s) - r
  <1>1. /\ L \in Nat /\ done \in Nat /\ r \in Nat /\ t \in Ring /\ n \in 0..RxBufNb
        /\ \A m \in 1..(L + 1) : s[m] \in Nat /\ s[m] <= s[L + 1]
        /\ \A m \in 1..L : Len(stored[m]) = s[m + 1] - s[m]
        /\ r <= s[Len(taken) + 1] /\ Len(taken) \in Nat /\ Len(taken) <= L
        /\ Filled(s) = s[L + 1] + done /\ segCount \in Nat
    BY RingFacts
  <1>2. /\ desc \in [Ring -> Descriptors] /\ dma \in Ring /\ stored \in Seq(Words)
    BY DEF TypeInv, TypeOK, Descriptors
  <1>3. /\ desc' = [desc EXCEPT ![dma] = [own |-> FALSE, first |-> done = 0,
                                          last |-> ends, of |-> f.id]]
        /\ done' = (IF ends THEN 0 ELSE done + 1) /\ dma' = Following(dma)
        /\ stored' = (IF ends THEN Append(stored, word) ELSE stored)
        /\ word \in Words
    BY FillStep
  <1>4. desc[dma].own /\ fifo' = (IF ends THEN Tail(fifo) ELSE fifo)
        /\ UNCHANGED <<pc, scanVars, i, taken>>
    BY DEF DmaFills
  \* The descriptor is the one after those that are held.
  <1>5. n < RxBufNb /\ dma = Turn(t, n) /\ Ahead(t, dma) = n /\ dma' = Turn(t, n + 1)
    <2>1. dma = Turn(t, n) /\ (~desc[dma].own <=> Ahead(t, dma) < n)
      BY <1>2 DEF HeldInv
    <2>2. n # RxBufNb
      <3>1. CASE n = RxBufNb
        <4>1. Ahead(t, dma) \in 0..(RxBufNb - 1)
          BY <1>1, <1>2, TurnAhead
        <4> QED BY <1>4, <2>1, <3>1, <4>1
      <3> QED BY <3>1
    <2>3. n \in 0..(RxBufNb - 1)
      BY <1>1, <2>2
    <2> HIDE DEF n
    <2> QED BY <1>1, <1>3, <2>1, <2>3, TurnAhead
  <1>6. PICK s2 : s2 = IF ends THEN [m \in 1..(L + 2) |-> IF m = L + 2 THEN s[L + 1] + done + 1
                                                                      ELSE s[m]]
                               ELSE s
    OBVIOUS
  <1> HIDE DEF ends
  <1>7. /\ \A m \in 1..(L + 1) : s2[m] = s[m]
        /\ ends => s2[L + 2] = s[L + 1] + done + 1
    BY <1>1, <1>6
  <1>8. /\ Len(word) = done + 1 /\ \A k \in 1..(done + 1) : word[k] = f.id
    BY <1>1
  <1>9. /\ ends => Len(stored') = L + 1 /\ stored'[L + 1] = word
        /\ ~ends => Len(stored') = L
        /\ \A m \in 1..L : stored'[m] = stored[m]
    <2> HIDE DEF word
    <2> QED BY <1>2, <1>3, AppendProperties
  <1> HIDE DEF word
  <1>18. s[L + 1] \in Nat /\ n = s[L + 1] + done - r /\ n \in Nat /\ RxBufNb \in Nat
    <2>1. L + 1 \in 1..(L + 1)
      BY <1>1
    <2>2. n = s[L + 1] + done - r /\ s[L + 1] \in Nat
      BY <1>1, <2>1
    <2>3. n \in Nat
      BY <1>1
    <2> QED BY <2>2, <2>3
  <1>10. Filled(s2)' = Filled(s) + 1
    <2>1. CASE ends
      BY <1>1, <1>3, <1>7, <1>9, <2>1 DEF Filled
    <2>2. CASE ~ends
      <3>1. s2 = s /\ stored' = stored /\ done' = done + 1
        BY <1>3, <1>6, <2>2
      <3>2. Filled(s2)' = s[L + 1] + (done + 1)
        BY <3>1 DEF Filled
      <3>3. s[L + 1] \in Nat /\ done \in Nat /\ Filled(s) = s[L + 1] + done
        BY <1>1, <1>18
      <3> HIDE DEF L, n
      <3> QED BY <3>2, <3>3
    <2> QED BY <2>1, <2>2
  <1>11. FramesInv(s2)'
    <2>1. CASE ends
      <3>1. s2 = [m \in 1..(L + 2) |-> IF m = L + 2 THEN s[L + 1] + done + 1 ELSE s[m]]
        BY <1>6, <2>1
      <3>2. s2 \in [1..(L + 2) -> Nat]
        <4>1. s[L + 1] + done + 1 \in Nat
          BY <1>1, <1>18
        <4>2. \A m \in 1..(L + 2) : m # L + 2 => m \in 1..(L + 1)
          BY <1>1
        <4> HIDE DEF L, n
        <4> QED BY <1>1, <3>1, <4>1, <4>2
      <3>3. ASSUME NEW m \in 1..(L + 2), NEW l \in 1..(L + 2), m < l
            PROVE  s2[m] < s2[l]
        <4>1. CASE l = L + 2
          <5>1. m \in 1..(L + 1)
            BY <1>1, <3>3, <4>1
          <5>2. s2[m] = s[m] /\ s[m] \in Nat /\ s[m] <= s[L + 1] /\ s2[l] = s[L + 1] + done + 1
            BY <1>1, <1>7, <2>1, <4>1, <5>1
          <5> HIDE DEF L, n
          <5> QED BY <1>1, <1>18, <5>2, SMTT(30)
        <4>2. CASE l # L + 2
          <5>1. m \in 1..(L + 1) /\ l \in 1..(L + 1)
            BY <1>1, <3>3, <4>2
          <5>2. s[m] < s[l]
            BY <3>3, <5>1 DEF FramesInv
          <5> QED BY <1>7, <5>1, <5>2
        <4> QED BY <4>1, <4>2
      <3>4. ASSUME NEW m \in 1..(L + 1) PROVE Len(stored'[m]) = s2[m + 1] - s2[m]
        <4>1. CASE m = L + 1
          BY <1>1, <1>7, <1>8, <1>9, <2>1, <4>1, SMTT(30)
        <4>2. CASE m # L + 1
          <5>1. m \in 1..L /\ m \in 1..(L + 1) /\ m + 1 \in 1..(L + 1)
            BY <1>1, <4>2
          <5>2. stored'[m] = stored[m] /\ s2[m] = s[m] /\ s2[m + 1] = s[m + 1]
            BY <1>7, <1>9, <5>1
          <5>3. Len(stored[m]) = s[m + 1] - s[m]
            BY <1>1, <5>1
          <5> QED BY <5>2, <5>3
        <4> QED BY <4>1, <4>2
      <3>5. Len(stored') = L + 1 /\ Len(stored') + 1 = L + 2
        BY <1>1, <1>9, <2>1
      <3> HIDE DEF L
      <3> QED BY <3>2, <3>3, <3>4, <3>5 DEF FramesInv
    <2>2. CASE ~ends
      <3>1. s2 = s /\ stored' = stored
        BY <1>3, <1>6, <2>2
      <3> QED BY <3>1 DEF FramesInv
    <2> QED BY <2>1, <2>2
  <1>12. /\ \A d \in Ring : d # dma => desc'[d] = desc[d]
         /\ desc'[dma] = [own |-> FALSE, first |-> done = 0, last |-> ends, of |-> f.id]
    BY <1>2, <1>3
  \* The segments of the frames stored before are where they were.
  <1>13. ASSUME NEW m \in 1..L, NEW k \in 1..Len(stored[m]), s[m] + k > r
         PROVE  desc'[Turn(t, s[m] + k - 1 - r)] = Segment(k, Len(stored[m]), stored[m][k])
    <2>1. /\ m \in 1..(L + 1) /\ m + 1 \in 1..(L + 1) /\ s[m] \in Nat
          /\ s[m] + Len(stored[m]) = s[m + 1] /\ s[m + 1] <= s[L + 1] /\ s[m + 1] \in Nat
      BY <1>1
    <2>2. s[m] + k - 1 - r \in 0..(n - 1)
      BY <1>13, Offsets
    <2>3. Turn(t, s[m] + k - 1 - r) # dma /\ Turn(t, s[m] + k - 1 - r) \in Ring
      <3> DEFINE q == s[m] + k - 1 - r
      <3>1. q \in 0..(RxBufNb - 1) /\ q < n
        <4> HIDE DEF L, n, q
        <4> QED BY <1>5, <1>18, <2>2 DEF q
      <3> HIDE DEF q
      <3>2. Ahead(t, Turn(t, q)) = q /\ Turn(t, q) \in Ring
        BY <1>1, <3>1, TurnAhead
      <3> QED BY <1>5, <3>1, <3>2 DEF q
    <2>4. desc[Turn(t, s[m] + k - 1 - r)] = Segment(k, Len(stored[m]), stored[m][k])
      BY <1>13 DEF HeldInv
    <2> QED BY <1>12, <2>3, <2>4
  \* And so are those of the frame that the DMA is filling.
  <1>14. ASSUME NEW k \in 1..done
         PROVE  desc'[Turn(t, s[L + 1] + k - 1 - r)] = Segment(k, 0, f.id)
    <2>1. s[Len(taken) + 1] \in Nat /\ s[Len(taken) + 1] <= s[L + 1] /\ s[L + 1] \in Nat
      BY <1>1
    <2>2. s[L + 1] + k - 1 - r \in 0..(n - 1)
      BY <1>14, Offsets
    <2>3. Turn(t, s[L + 1] + k - 1 - r) # dma /\ Turn(t, s[L + 1] + k - 1 - r) \in Ring
      <3> DEFINE q == s[L + 1] + k - 1 - r
      <3>1. q \in 0..(RxBufNb - 1) /\ q < n
        <4> HIDE DEF L, n, q
        <4> QED BY <1>5, <1>18, <2>2 DEF q
      <3> HIDE DEF q
      <3>2. Ahead(t, Turn(t, q)) = q /\ Turn(t, q) \in Ring
        BY <1>1, <3>1, TurnAhead
      <3> QED BY <1>5, <3>1, <3>2 DEF q
    <2>4. desc[Turn(t, s[L + 1] + k - 1 - r)] = Segment(k, 0, f.id)
      BY DEF HeldInv
    <2> QED BY <1>12, <2>3, <2>4
  \* The one it has filled goes on with it.
  <1>15. /\ s[L + 1] + (done + 1) - 1 - r = n
         /\ desc'[Turn(t, s[L + 1] + (done + 1) - 1 - r)]
              = [own |-> FALSE, first |-> done + 1 = 1, last |-> ends, of |-> f.id]
    <2>1. s[L + 1] \in Nat /\ s[L + 1] + (done + 1) - 1 - r = n /\ (done = 0 <=> done + 1 = 1)
      BY <1>1
    <2>2. (done = 0) = (done + 1 = 1)
      BY <2>1
    <2> HIDE DEF n
    <2> QED BY <1>5, <1>12, <2>1, <2>2
  <1>16. HeldInv(s2, r, t)'
    <2>1. Filled(s2)' - r = n + 1 /\ n + 1 \in 0..RxBufNb
      <3>1. Filled(s2)' = s[L + 1] + done + 1
        BY <1>1, <1>10
      <3>2. s[L + 1] \in Nat /\ done \in Nat /\ r \in Nat /\ n < RxBufNb
        BY <1>1, <1>5, <1>18
      <3>3. n = s[L + 1] + done - r /\ n \in Nat /\ RxBufNb \in Nat
        BY <1>18
      <3> HIDE DEF L, n
      <3> QED BY <3>1, <3>2, <3>3
    <2>2. dma' = Turn(t, Filled(s2)' - r)
      BY <1>5, <2>1
    <2>3. ASSUME NEW d \in Ring PROVE ~desc'[d].own <=> Ahead(t, d) < n + 1
      <3>1. Ahead(t, d) \in Nat /\ Turn(t, Ahead(t, d)) = d
        BY <1>1, TurnAhead
      <3>2. ~desc[d].own <=> Ahead(t, d) < n
        BY DEF HeldInv
      <3>3. d = dma <=> Ahead(t, d) = n
        BY <1>5, <3>1
      <3>4. n \in Nat
        BY <1>1
      <3> HIDE DEF n
      <3>5. CASE d = dma
        BY <1>12, <3>1, <3>3, <3>4, <3>5
      <3>6. CASE d # dma
        BY <1>12, <3>1, <3>2, <3>3, <3>4, <3>6
      <3> QED BY <3>5, <3>6
    <2>4. ASSUME NEW m \in 1..Len(stored'), NEW k \in 1..Len(stored'[m]), s2[m] + k > r
          PROVE  desc'[Turn(t, s2[m] + k - 1 - r)]
                   = Segment(k, Len(stored'[m]), stored'[m][k])
      <3>1. CASE m \in 1..L
        <4>1. stored'[m] = stored[m] /\ s2[m] = s[m]
          BY <1>1, <1>7, <1>9, <3>1
        <4> QED BY <1>13, <2>4, <3>1, <4>1
      <3>2. CASE m \notin 1..L
        <4>1. ends /\ m = L + 1 /\ stored'[m] = word /\ s2[m] = s[L + 1]
          BY <1>1, <1>7, <1>9, <3>2
        <4>2. k \in 1..(done + 1) /\ word[k] = f.id /\ Len(word) = done + 1
          BY <1>8, <4>1
        <4>3. CASE k = done + 1
          BY <1>15, <4>1, <4>2, <4>3 DEF Segment
        <4>4. CASE k # done + 1
          <5>1. k \in 1..done /\ ~(k = 0) /\ (k = done + 1) = FALSE /\ (k = 0) = FALSE
            BY <1>1, <4>2, <4>4
          <5>2. Segment(k, 0, f.id) = Segment(k, done + 1, f.id)
            BY <5>1 DEF Segment
          <5> QED BY <1>14, <4>1, <4>2, <5>1, <5>2
        <4> QED BY <4>3, <4>4
      <3> QED BY <3>1, <3>2
    <2>5. ASSUME NEW k \in 1..done'
          PROVE  desc'[Turn(t, s2[Len(stored') + 1] + k - 1 - r)]
                   = Segment(k, 0, Head(fifo').id)
      <3>1. ~ends /\ done' = done + 1 /\ Head(fifo') = f /\ Len(stored') = L
            /\ s2[L + 1] = s[L + 1]
        BY <1>1, <1>3, <1>4, <1>7, <1>9, <2>5
      <3>2. CASE k = done + 1
        <4>1. ends = FALSE /\ (k = 0) = FALSE
          BY <1>1, <3>1, <3>2
        <4> QED BY <1>15, <3>1, <3>2, <4>1 DEF Segment
      <3>3. CASE k # done + 1
        <4>1. k \in 1..done
          BY <1>1, <3>1, <3>3
        <4> QED BY <1>14, <3>1, <4>1
      <3> QED BY <3>2, <3>3
    <2> HIDE DEF n
    <2> QED BY <1>1, <2>1, <2>2, <2>3, <2>4, <2>5 DEF HeldInv
  <1>17. TaskInv(s2, r, t)'
    <2>1. /\ UNCHANGED <<pc, get, segCount, fs, frame, i, taken>>
          /\ Len(stored) <= Len(stored') /\ Filled(s2)' - r = n + 1 /\ n \in Nat
          /\ s2[Len(taken) + 1] = s[Len(taken) + 1]
          /\ Len(taken) <= Len(stored')
      <3>1. Len(taken) + 1 \in 1..(L + 1)
        BY <1>1
      <3>2. Filled(s2)' = s[L + 1] + done + 1
        BY <1>1, <1>10
      <3>3. Filled(s2)' - r = n + 1
        <4> HIDE DEF L, n
        <4> QED BY <1>1, <1>18, <3>2
      <3>4. Len(stored') \in {L, L + 1}
        BY <1>9
      <3>5. UNCHANGED <<pc, get, segCount, fs, frame, i, taken>>
        BY <1>4 DEF scanVars
      <3>6. s2[Len(taken) + 1] = s[Len(taken) + 1]
        BY <1>7, <3>1
      <3>7. Len(stored) <= Len(stored') /\ Len(taken) <= Len(stored')
        BY <1>1, <3>4
      <3> QED BY <1>18, <3>3, <3>5, <3>6, <3>7
    <2>2. \A m \in 1..Len(taken) : taken[m] = stored'[m]
      BY <1>1, <1>9 DEF TaskInv
    <2>3. pc = "scan" /\ Len(taken) + 1 <= Len(stored') => segCount < Len(stored'[Len(taken) + 1])
      <3>1. CASE Len(taken) + 1 <= Len(stored)
        BY <1>1, <1>9, <3>1 DEF TaskInv
      <3>2. CASE ~(Len(taken) + 1 <= Len(stored)) /\ pc = "scan" /\ Len(taken) + 1 <= Len(stored')
        <4>1. ends /\ Len(taken) = L /\ stored'[Len(taken) + 1] = word
          BY <1>1, <1>9, <3>2
        <4>2. segCount <= Filled(s) - r /\ r = s[L + 1] /\ s[L + 1] \in Nat
          BY <1>1, <3>2, <4>1 DEF TaskInv
        <4> QED BY <1>1, <1>8, <4>1, <4>2
      <3> QED BY <3>1, <3>2
    <2>4. pc = "alloc" => /\ Len(taken) + 1 <= Len(stored')
                          /\ segCount = Len(stored'[Len(taken) + 1])
      <3>1. pc = "alloc" => Len(taken) + 1 \in 1..L
        BY <1>1 DEF TaskInv
      <3>2. pc = "alloc" => segCount = Len(stored[Len(taken) + 1])
        BY DEF TaskInv
      <3> QED BY <1>1, <1>9, <2>1, <3>1, <3>2, SMTT(30)
    <2>5. pc = "scan" => segCount <= Filled(s2)' - r
      <3>1. pc = "scan" => segCount <= n
        BY DEF TaskInv
      <3> HIDE DEF n
      <3> QED BY <1>1, <2>1, <3>1
    <2> QED BY <2>1, <2>2, <2>3, <2>4, <2>5 DEF TaskInv
  <1> QED BY <1>11, <1>16, <1>17
\* The task gives back the first of the descriptors held.
LEMMA ReleaseKeepsRing ==
  ASSUME TypeInv, NEW s, NEW r, NEW t, FramesInv(s), HeldInv(s, r, t), TaskInv(s, r, t),
         Release
  PROVE  LET u == Following(t)
         IN  FramesInv(s)' /\ HeldInv(s, r + 1, u)' /\ TaskInv(s, r + 1, u)'
  <1> USE RingAssumption
  <1> DEFINE u == Following(t)
             n == Filled(s) - r
             next == Len(taken) + 1
             top == s[Len(stored) + 1]
  <1>1. /\ pc = "release" /\ i < segCount /\ i' = i + 1 /\ frame \in Ring
        /\ r = s[next] - (segCount - i) /\ get = Turn(t, segCount - i) /\ t = Turn(frame, i)
        /\ UNCHANGED <<fifo, done, dma, get, segCount, fs, frame, stored, taken>>
    BY DEF Release, TaskInv, macVars, scanVars
  <1>2. i \in Nat /\ segCount \in Nat /\ i < RxBufNb /\ segCount <= RxBufNb /\ RxBufNb \in Nat
    <2>1. segCount \in 0..MaxSegs /\ i \in 0..RxBufNb
      BY DEF TypeInv, TypeOK
    <2> QED BY <1>1, <2>1
  <1>3. r \in Nat /\ t \in Ring /\ n \in 0..RxBufNb /\ done \in Nat /\ u \in Ring
        /\ Filled(s) = top + done
    BY RingFacts, FollowingTurns
  <1>4. r < top /\ top \in Nat
    <2>1. next \in 1..(Len(stored) + 1) /\ Len(stored) + 1 \in 1..(Len(stored) + 1)
      BY RingFacts
    <2>2. s[next] \in Nat /\ s[next] <= top /\ top \in Nat
      BY <2>1, RingFacts
    <2> HIDE DEF next, top
    <2> QED BY <1>1, <1>2, <1>3, <2>2
  <1>5. n - 1 \in 0..(RxBufNb - 1) /\ n \in Nat
    <2>1. Filled(s) = top + done /\ top \in Nat /\ done \in Nat /\ r \in Nat /\ r < top
      BY <1>3, <1>4
    <2>2. n = top + done - r
      <3> HIDE DEF top
      <3> QED BY <2>1
    <2> HIDE DEF n, top
    <2> QED BY <1>2, <1>3, <2>1, <2>2
  <1>6. Filled(s)' = Filled(s) /\ Filled(s) - (r + 1) = n - 1
    <2>1. Filled(s)' = Filled(s)
      BY <1>1 DEF Filled
    <2>2. Filled(s) \in Nat
      <3> HIDE DEF top
      <3> QED BY <1>3, <1>4
    <2> QED BY <1>3, <2>1, <2>2
  <1>7. frame # NoDesc /\ (frame + i) % RxBufNb = t
    BY <1>1, <1>2, TurnIsMod DEF NoDesc, Ring
  <1>8. pc' = "release" /\ \A d \in Ring : desc'[d] = IF d = t THEN Own ELSE desc[d]
    BY <1>7 DEF Release
  <1>9. FramesInv(s)'
    BY <1>1 DEF FramesInv
  \* A held segment that is not the first keeps its place.
  <1>10. ASSUME NEW q \in 1..(n - 1)
         PROVE  Turn(u, q - 1) = Turn(t, q) /\ desc'[Turn(u, q - 1)] = desc[Turn(t, q)]
    <2>1. q \in 0..(RxBufNb - 1) /\ q - 1 \in 0..(RxBufNb - 1) /\ q # 0 /\ (q - 1) + 1 = q
      <3> HIDE DEF n
      <3> QED BY <1>2, <1>5
    <2> HIDE DEF n
    <2>2. Turn(u, q - 1) = Turn(t, q)
      BY <1>3, <2>1, TurnAhead
    <2>3. Turn(t, q) \in Ring /\ Turn(t, q) # t
      <3>1. Turn(t, q) \in Ring /\ Ahead(t, Turn(t, q)) = q
        BY <1>3, <2>1, TurnAhead
      <3>2. Ahead(t, t) = 0
        BY <1>3 DEF Ahead, Ring
      <3> QED BY <2>1, <3>1, <3>2
    <2> QED BY <1>8, <2>2, <2>3
  <1>11. HeldInv(s, r + 1, u)'
    <2>1. r + 1 \in Nat /\ u \in Ring /\ n - 1 \in 0..RxBufNb
      BY <1>3, <1>5
    <2>2. dma' = Turn(u, n - 1)
      <3>1. dma = Turn(t, n)
        BY DEF HeldInv
      <3>2. (n - 1) + 1 = n
        BY <1>5
      <3> HIDE DEF n
      <3> QED BY <1>1, <1>3, <1>5, <3>1, <3>2, TurnAhead
    <2>3. ASSUME NEW d \in Ring PROVE ~desc'[d].own <=> Ahead(u, d) < n - 1
      <3>1. Ahead(u, d) = IF d = t THEN RxBufNb - 1 ELSE Ahead(t, d) - 1
        BY <1>3, TurnAhead
      <3>2. ~desc[d].own <=> Ahead(t, d) < n
        BY DEF HeldInv
      <3>3. Ahead(t, d) \in Nat
        BY <1>3, TurnAhead
      <3> HIDE DEF n
      <3>4. CASE d = t
        <4>1. desc'[d].own /\ Ahead(u, d) = RxBufNb - 1
          BY <1>8, <3>1, <3>4 DEF Own
        <4> QED BY <1>2, <1>5, <4>1
      <3>5. CASE d # t
        <4>1. desc'[d] = desc[d] /\ Ahead(u, d) = Ahead(t, d) - 1
          BY <1>8, <3>1, <3>5
        <4> QED BY <1>5, <3>2, <3>3, <4>1
      <3> QED BY <3>4, <3>5
    <2>4. ASSUME NEW m \in 1..Len(stored), NEW k \in 1..Len(stored[m]), s[m] + k > r + 1
          PROVE  desc'[Turn(u, s[m] + k - 1 - (r + 1))] = Segment(k, Len(stored[m]), stored[m][k])
      <3>1. s[m] \in Nat /\ k \in Nat
        BY RingFacts
      <3>2. s[m] + k > r
        BY <1>3, <2>4, <3>1
      <3>3. s[m] + k - 1 - r \in 0..(n - 1)
        BY <3>2, Offsets
      <3>4. s[m] + k - 1 - r \in 1..(n - 1) /\ s[m] + k - 1 - (r + 1) = (s[m] + k - 1 - r) - 1
        <4> HIDE DEF n
        <4> QED BY <1>3, <1>5, <2>4, <3>1, <3>3
      <3>5. desc[Turn(t, s[m] + k - 1 - r)] = Segment(k, Len(stored[m]), stored[m][k])
        BY <3>2 DEF HeldInv
      <3> HIDE DEF n
      <3> QED BY <1>10, <3>4, <3>5
    <2>5. ASSUME NEW k \in 1..done
          PROVE  desc'[Turn(u, top + k - 1 - (r + 1))] = Segment(k, 0, Head(fifo).id)
      <3>1. top + k - 1 - r \in 0..(n - 1)
        BY Offsets
      <3>2. top + k - 1 - r \in 1..(n - 1) /\ top + k - 1 - (r + 1) = (top + k - 1 - r) - 1
        <4>1. k \in Nat /\ k >= 1
          BY <1>3
        <4> HIDE DEF n, top
        <4> QED BY <1>3, <1>4, <1>5, <3>1, <4>1
      <3>3. desc[Turn(t, top + k - 1 - r)] = Segment(k, 0, Head(fifo).id)
        BY DEF HeldInv
      <3> HIDE DEF n, top
      <3> QED BY <1>10, <3>2, <3>3
    <2> HIDE DEF n, u
    <2> QED BY <1>1, <1>6, <2>1, <2>2, <2>3, <2>4, <2>5 DEF HeldInv
  <1>12. TaskInv(s, r + 1, u)'
    <2>1. r + 1 = s[next] - (segCount - (i + 1))
      <3>1. s[next] \in Nat
        BY RingFacts
      <3> HIDE DEF next
      <3> QED BY <1>1, <1>2, <3>1
    <2>2. get = Turn(u, segCount - (i + 1))
      <3>1. segCount - (i + 1) \in 0..(RxBufNb - 1) /\ (segCount - (i + 1)) + 1 = segCount - i
        BY <1>1, <1>2
      <3> QED BY <1>1, <1>3, <3>1, TurnAhead
    <2>3. u = Turn(frame, i + 1)
      BY <1>1, <1>2, TurnAhead
    <2>4. Len(taken) <= Len(stored) /\ \A m \in 1..Len(taken) : taken[m] = stored[m]
      BY DEF TaskInv
    <2> HIDE DEF u
    <2> QED BY <1>1, <1>8, <2>1, <2>2, <2>3, <2>4 DEF TaskInv
  <1> QED BY <1>9, <1>11, <1>12
\* The bits of a segment's status word.
LEMMA SegmentFields ==
  ASSUME NEW k, NEW n, NEW id
  PROVE  /\ Segment(k, n, id).first <=> k = 1
         /\ Segment(k, n, id).last <=> k = n
         /\ Segment(k, n, id).own = FALSE
  <1>1. Segment(k, n, id).first = (k = 1) /\ Segment(k, n, id).last = (k = n)
    BY DEF Segment
  <1>2. Segment(k, n, id).own = FALSE
    BY DEF Segment
  <1> QED BY <1>1, <1>2

\* A turn of the scan counts one segment more of the next frame, or finds its
\* last one, and remembers where the frame starts.
LEMMA ScanKeepsTask ==
  ASSUME TypeInv, NEW s, NEW r, NEW t, FramesInv(s), HeldInv(s, r, t), TaskInv(s, r, t),
         Scan
  PROVE  TaskInv(s, r, t)'
  <1> USE RingAssumption
  <1> DEFINE next == Len(taken) + 1
             d == desc[get]
             starts == d.first /\ ~d.last
             c == IF starts THEN 1 ELSE segCount + 1
             start == IF starts \/ (d.last /\ c = 1) THEN get ELSE fs
  <1>1. /\ pc = "scan" /\ ~desc[get].own /\ i < RxBufNb
        /\ segCount' = c /\ fs' = start
        /\ frame' = (IF d.last THEN start ELSE NoDesc)
        /\ pc' = (IF d.last THEN "alloc" ELSE "scan")
        /\ i' = (IF d.last THEN 0 ELSE i + 1)
        /\ get' = Following(get)
        /\ UNCHANGED <<done, stored, taken>>
    BY DEF Scan, macVars
  <1>2. /\ i = segCount /\ segCount \in Nat /\ get = Turn(t, segCount) /\ t \in Ring
        /\ r = s[next] /\ (segCount > 0 => fs = t)
        /\ (next <= Len(stored) => segCount < Len(stored[next]))
    BY <1>1, RingFacts DEF TaskInv
  <1>3. segCount = 0 => get = t
    BY <1>2, TurnAhead
  <1>4. /\ segCount < Filled(s) - r /\ Following(get) = Turn(t, segCount + 1)
        /\ next <= Len(stored) => d = Segment(segCount + 1, Len(stored[next]), stored[next][segCount + 1])
        /\ ~(next <= Len(stored)) => d = Segment(segCount + 1, 0, Head(fifo).id)
    BY <1>1, Scanned
  <1>5. /\ d.first <=> segCount = 0
        /\ d.last <=> next <= Len(stored) /\ segCount + 1 = Len(stored[next])
    <2>1. CASE next <= Len(stored)
      <3>1. d = Segment(segCount + 1, Len(stored[next]), stored[next][segCount + 1])
        BY <1>4, <2>1
      <3>2. (d.first <=> segCount + 1 = 1) /\ (d.last <=> segCount + 1 = Len(stored[next]))
        <4> DEFINE w == Len(stored[next])
                   id == stored[next][segCount + 1]
                   k == segCount + 1
        <4>1. d = Segment(k, w, id)
          BY <3>1
        <4> HIDE DEF d, w, id, k
        <4>2. (d.first <=> k = 1) /\ (d.last <=> k = w)
          BY <4>1, SegmentFields, ZenonT(30)
        <4> QED BY <4>2 DEF k, w
      <3> QED BY <1>2, <2>1, <3>2
    <2>2. CASE ~(next <= Len(stored))
      <3>1. d = Segment(segCount + 1, 0, Head(fifo).id)
        BY <1>4, <2>2
      <3>2. (d.first <=> segCount + 1 = 1) /\ (d.last <=> segCount + 1 = 0)
        <4> HIDE DEF d
        <4> QED BY <3>1, SegmentFields, ZenonT(30)
      <3> QED BY <1>2, <2>2, <3>2
    <2> QED BY <2>1, <2>2
  <1>6. c = segCount + 1 /\ start = t
    <2>1. CASE segCount = 0
      BY <1>3, <1>5, <2>1
    <2>2. CASE segCount # 0
      <3>1. segCount > 0 /\ segCount + 1 # 1
        BY <1>2, <2>2
      <3>2. ~d.first /\ fs = t
        BY <1>2, <1>5, <2>2, <3>1
      <3> QED BY <3>1, <3>2
    <2> QED BY <2>1, <2>2
  <1> HIDE DEF c, start
  <1>7. Filled(s)' = Filled(s) /\ Filled(s) - r \in Int
    BY <1>1, RingFacts DEF Filled
  <1>8. Len(taken) <= Len(stored) /\ \A m \in 1..Len(taken) : taken[m] = stored[m]
    BY DEF TaskInv
  <1>9. CASE d.last
    <2>1. /\ pc' = "alloc" /\ segCount' = Len(stored[next]) /\ next <= Len(stored)
          /\ frame' = t /\ get' = Turn(t, segCount')
      BY <1>1, <1>4, <1>5, <1>6, <1>9
    <2> HIDE DEF d
    <2> QED BY <1>1, <1>2, <1>8, <2>1 DEF TaskInv
  <1>10. CASE ~d.last
    <2>1. /\ pc' = "scan" /\ i' = segCount' /\ segCount' = segCount + 1
          /\ fs' = t /\ get' = Turn(t, segCount')
      BY <1>1, <1>2, <1>4, <1>6, <1>10
    <2>2. segCount + 1 <= Filled(s) - r
      <3> DEFINE n == Filled(s) - r
      <3>1. n \in Int /\ segCount < n
        BY <1>4, <1>7
      <3> HIDE DEF n
      <3>2. segCount + 1 <= n
        BY <1>2, <3>1
      <3> QED BY <3>2 DEF n
    <2>3. next <= Len(stored) => segCount + 1 < Len(stored[next])
      <3>1. ASSUME next <= Len(stored) PROVE segCount + 1 < Len(stored[next])
        <4>1. next \in 1..Len(stored)
          BY <3>1, RingFacts
        <4>2. stored[next] \in Words
          BY <4>1, ElementOfSeq DEF TypeInv
        <4>3. Len(stored[next]) \in Nat
          BY <4>2, LenProperties DEF Words
        <4>4. segCount + 1 # Len(stored[next]) /\ segCount < Len(stored[next])
          BY <1>2, <1>5, <1>10, <3>1
        <4> HIDE DEF next
        <4> QED BY <1>2, <4>3, <4>4
      <3> QED BY <3>1
    <2> HIDE DEF d
    <2> QED BY <1>1, <1>2, <1>7, <1>8, <2>1, <2>2, <2>3 DEF TaskInv
  <1> QED BY <1>9, <1>10

\* The copy makes the next frame one that is taken.
LEMMA CopyKeepsTask ==
  ASSUME TypeInv, NEW s, NEW r, NEW t, FramesInv(s), HeldInv(s, r, t), TaskInv(s, r, t),
         Copy
  PROVE  TaskInv(s, r, t)'
  <1> DEFINE next == Len(taken) + 1
  <1>1. /\ pc = "alloc" /\ pc' = "release" /\ taken' = Append(taken, Contents)
        /\ UNCHANGED <<get, segCount, fs, frame, i, stored>>
    BY DEF Copy, Step, scanVars
  <1>2. /\ next \in 1..Len(stored) /\ segCount = Len(stored[next]) /\ frame = t /\ t \in Ring
        /\ get = Turn(t, segCount) /\ r = s[next] /\ Len(taken) \in Nat /\ Len(stored) \in Nat
        /\ segCount \in Nat
    BY <1>1, RingFacts DEF TaskInv
  <1>3. Contents = stored[next] /\ i = 0 /\ taken \in Seq(Words) /\ stored[next] \in Words
    BY <1>1, <1>2, CopiesNext, ElementOfSeq DEF TypeInv
  <1>4. /\ Len(taken') = next
        /\ \A m \in 1..Len(taken) : taken'[m] = taken[m]
        /\ taken'[next] = stored[next]
    BY <1>1, <1>3, AppendProperties
  <1>5. \A m \in 1..Len(taken') : taken'[m] = stored[m]
    <2> TAKE m \in 1..Len(taken')
    <2>1. CASE m = next
      BY <1>4, <2>1
    <2>2. CASE m # next
      <3>1. m \in 1..Len(taken)
        BY <1>2, <1>4, <2>2
      <3> QED BY <1>4, <3>1 DEF TaskInv
    <2> QED BY <2>1, <2>2
  <1>6. s[next] \in Nat /\ s[next + 1] \in Nat /\ segCount = s[next + 1] - s[next]
    <2>1. next \in 1..(Len(stored) + 1) /\ next + 1 \in 1..(Len(stored) + 1)
      BY <1>2
    <2> QED BY <1>2, <2>1, RingFacts
  <1>7. r = s[next + 1] - (segCount - 0) /\ segCount - 0 = segCount
    <2> HIDE DEF next
    <2> QED BY <1>2, <1>6
  <1>8. t = Turn(frame, 0)
    BY <1>2, TurnAhead
  <1>9. Len(taken') <= Len(stored)
    BY <1>2, <1>4
  <1> HIDE DEF next
  <1> QED BY <1>1, <1>2, <1>3, <1>4, <1>5, <1>7, <1>8, <1>9 DEF TaskInv

\* The other steps of the task leave the frames alone. A scan that ends without
\* one has found nothing, unless it ended inside a frame.
LEMMA OthersKeepTask ==
  ASSUME TypeInv, NEW s, NEW r, NEW t, FramesInv(s), HeldInv(s, r, t), TaskInv(s, r, t),
         \/ Take \/ (ScanEnds /\ ~cut') \/ ReleaseEnds \/ Resume \/ Accepted \/ Refused
  PROVE  TaskInv(s, r, t)'
  <1> DEFINE next == Len(taken) + 1
  <1>1. /\ Len(stored) \in Nat /\ Len(taken) \in Nat /\ segCount \in Nat /\ i \in Nat /\ t \in Ring
        /\ 0 <= Filled(s) - r /\ s[next] \in Nat /\ s[next] - (0 - 0) = s[next]
    <2>1. /\ Len(stored) \in Nat /\ Len(taken) \in Nat /\ segCount \in Nat /\ i \in Nat /\ t \in Ring
          /\ 0 <= Filled(s) - r /\ next \in 1..(Len(stored) + 1)
      BY RingFacts
    <2>2. s[next] \in Nat
      BY <2>1, RingFacts
    <2> HIDE DEF next
    <2> QED BY <2>1, <2>2
  <1>2. UNCHANGED <<stored, taken, done>> /\ Filled(s)' = Filled(s)
    BY DEF Take, ScanEnds, ReleaseEnds, Resume, Accepted, Refused, macVars, Filled
  <1>3. Turn(t, 0) = t
    BY <1>1, TurnAhead
  <1>4. Len(taken) <= Len(stored) /\ \A m \in 1..Len(taken) : taken[m] = stored[m]
    BY DEF TaskInv
  <1>5. next <= Len(stored) => 0 < Len(stored[next])
    <2>1. ASSUME next <= Len(stored) PROVE 0 < Len(stored[next])
      <3>1. next \in 1..Len(stored) /\ next \in 1..(Len(stored) + 1) /\ next + 1 \in 1..(Len(stored) + 1)
        BY <1>1, <2>1
      <3>2. Len(stored[next]) = s[next + 1] - s[next] /\ s[next] < s[next + 1]
            /\ s[next] \in Nat /\ s[next + 1] \in Nat
        BY <3>1, RingFacts
      <3> HIDE DEF next
      <3> QED BY <3>2
    <2> QED BY <2>1
  <1>6. CASE Take \/ Accepted
    <2>1. /\ pc \in {"take", "input"} /\ pc' = "scan" /\ UNCHANGED <<get, segCount, fs, frame, i>>
      BY <1>6 DEF Take, Accepted, Step, scanVars
    <2>2. segCount = 0 /\ i = 0 /\ get = t /\ r = s[next]
      BY <2>1 DEF TypeInv, TaskInv
    <2> HIDE DEF next
    <2> QED BY <1>1, <1>2, <1>3, <1>4, <1>5, <2>1, <2>2 DEF TaskInv, next
  <1>7. CASE ScanEnds /\ ~cut'
    <2>1. /\ pc = "scan" /\ pc' = "release" /\ UNCHANGED <<get, segCount>> /\ i' = 0
          /\ ~(segCount > 0)
      BY <1>7 DEF ScanEnds, Step
    <2>2. segCount = 0 /\ r = s[next] /\ get = t
      BY <1>1, <1>3, <2>1 DEF TaskInv
    <2>3. s[next] - (segCount' - i') = s[next] /\ segCount' - i' = 0 /\ ~(i' < segCount')
      BY <1>1, <2>1, <2>2
    <2> HIDE DEF next
    <2> QED BY <1>2, <1>3, <1>4, <2>1, <2>2, <2>3 DEF TaskInv, next
  <1>8. CASE ReleaseEnds
    <2>1. /\ pc = "release" /\ pc' = "resume" /\ i = segCount /\ get' = get
      BY <1>8 DEF ReleaseEnds, Step
    <2>2. r = s[next] - (segCount - i) /\ get = Turn(t, segCount - i)
      BY <2>1 DEF TaskInv
    <2>3. segCount - i = 0
      BY <1>1, <2>1
    <2>4. r = s[next] /\ get = t
      <3> HIDE DEF next
      <3> QED BY <1>1, <1>3, <2>2, <2>3
    <2> HIDE DEF next
    <2> QED BY <1>2, <1>4, <2>1, <2>4 DEF TaskInv, next
  <1>9. CASE Resume \/ Refused
    <2>1. /\ pc \in {"resume", "input"} /\ pc' \in {"take", "input"} /\ get' = get
      BY <1>9 DEF Resume, Refused, Step, AfterInput, scanVars
    <2>2. r = s[next] /\ get = t
      BY <2>1 DEF TaskInv
    <2> HIDE DEF next
    <2> QED BY <1>2, <1>4, <2>1, <2>2 DEF TaskInv, next
  <1> QED BY <1>6, <1>7, <1>8, <1>9
\* The ring, the frames stored and the task stay in step.
LEMMA RingInvStep ==
  ASSUME TypeInv, RingInv, [Next]_vars, ~cut'
  PROVE  RingInv'
  <1> USE RingAssumption
  <1>1. PICK s, r, t : FramesInv(s) /\ HeldInv(s, r, t) /\ TaskInv(s, r, t)
    BY DEF RingInv
  <1>2. done \in Nat
    BY <1>1, RingFacts
  <1>3. CASE DmaFills
    BY <1>1, <1>3, FillKeepsRing DEF RingInv
  <1>4. CASE Release
    BY <1>1, <1>4, ReleaseKeepsRing DEF RingInv
  <1>5. CASE \/ Scan \/ Copy
             \/ Take \/ (ScanEnds /\ ~cut') \/ ReleaseEnds \/ Resume \/ Accepted \/ Refused
    <2>1. UNCHANGED <<fifo, done, dma, desc, stored>>
      BY <1>5 DEF Scan, Copy, Take, ScanEnds, ReleaseEnds, Resume, Accepted, Refused, macVars
    <2>2. FramesInv(s)' /\ HeldInv(s, r, t)'
      BY <1>1, <1>2, <2>1, HeldSame
    <2>3. TaskInv(s, r, t)'
      BY <1>1, <1>5, ScanKeepsTask, CopyKeepsTask, OthersKeepTask
    <2> QED BY <2>2, <2>3 DEF RingInv
  <1>6. CASE \/ \E n \in 1..MaxSegs : FrameArrives(n)
             \/ DmaSuspends \/ Interrupt \/ StackFrees \/ TakeTimesOut \/ UNCHANGED vars
    <2>1. UNCHANGED <<done, dma, desc, stored, taken, pc, get, segCount, fs, frame, i>>
      BY <1>6 DEF FrameArrives, DmaSuspends, Interrupt, StackFrees, TakeTimesOut, vars,
                  macVars, scanVars
    <2>2. done > 0 => Head(fifo') = Head(fifo)
      <3>1. CASE \E n \in 1..MaxSegs : FrameArrives(n)
        <4>1. done > 0 => fifo # <<>>
          BY <1>2 DEF TypeInv
        <4> QED BY <3>1, <4>1, ArrivalStep
      <3>2. CASE DmaSuspends \/ Interrupt \/ StackFrees \/ TakeTimesOut \/ UNCHANGED vars
        <4>1. fifo' = fifo
          BY <3>2 DEF DmaSuspends, Interrupt, StackFrees, TakeTimesOut, vars, macVars
        <4> QED BY <4>1
      <3> QED BY <1>6, <3>1, <3>2
    <2>3. FramesInv(s)' /\ HeldInv(s, r, t)'
      BY <1>1, <1>2, <2>1, <2>2, HeldSame
    <2>4. TaskInv(s, r, t)'
      BY <1>1, <2>1 DEF TaskInv, Filled
    <2> QED BY <2>3, <2>4 DEF RingInv
  <1>7. CASE ScanEnds
    BY <1>5, <1>7
  <1> QED BY <1>3, <1>4, <1>5, <1>6, <1>7 DEF Next, DmaStep, TaskStep

\* A scan that finds nothing, and does not end inside a frame, has left no frame
\* behind.
LEMMA FoundNothing ==
  ASSUME TypeInv, RingInv, ScanEnds, ~cut'
  PROVE  Len(taken) = Len(stored)
  <1> USE RingAssumption
  <1>1. PICK s, r, t : FramesInv(s) /\ HeldInv(s, r, t) /\ TaskInv(s, r, t)
    BY DEF RingInv
  <1> DEFINE next == Len(taken) + 1
             top == s[Len(stored) + 1]
  <1>2. pc = "scan" /\ (desc[get].own \/ i = RxBufNb) /\ ~(segCount > 0)
    BY DEF ScanEnds, Step
  <1>3. /\ Len(taken) \in Nat /\ Len(stored) \in Nat /\ Len(taken) <= Len(stored)
        /\ t \in Ring /\ r \in Nat /\ done \in Nat /\ segCount \in Nat
        /\ Filled(s) = top + done /\ Filled(s) - r \in 0..RxBufNb
    BY <1>1, RingFacts
  <1>4. segCount = 0 /\ i = segCount /\ get = Turn(t, segCount) /\ r = s[next]
    BY <1>1, <1>2, <1>3 DEF TaskInv
  <1>5. get = t /\ desc[t].own
    <2>1. RxBufNb # 0
      OBVIOUS
    <2> QED BY <1>2, <1>3, <1>4, <2>1, TurnAhead
  <1>6. ~(0 < Filled(s) - r)
    <2>1. Ahead(t, t) = 0
      BY <1>3 DEF Ahead, Ring
    <2> QED BY <1>1, <1>3, <1>5, <2>1 DEF HeldInv
  <1>7. ASSUME next <= Len(stored) PROVE FALSE
    <2>1. next \in 1..Len(stored) /\ next \in 1..(Len(stored) + 1)
          /\ next + 1 \in 1..(Len(stored) + 1)
      BY <1>3, <1>7
    <2>2. s[next] < s[next + 1] /\ s[next + 1] <= top /\ s[next] \in Nat /\ s[next + 1] \in Nat
      BY <1>1, <2>1, RingFacts
    <2>3. top \in Nat
      <3>1. Len(stored) + 1 \in 1..(Len(stored) + 1)
        BY <1>3
      <3> QED BY <1>1, <3>1, RingFacts
    <2> HIDE DEF next, top
    <2> QED BY <1>3, <1>4, <1>6, <2>2, <2>3
  <1> QED BY <1>3, <1>7

\* The scan that finds nothing and the interrupt of the next frame never miss
\* each other.
LEMMA WakeInvStep ==
  ASSUME TypeInv, RingInv, RingInv', WakeInv, [Next]_vars, ~cut'
  PROVE  WakeInv'
  <1>1. {irq, notified, gaveUp} \subseteq BOOLEAN
    BY DEF TypeInv, TypeOK
  <1>2. CASE \/ \E n \in 1..MaxSegs : FrameArrives(n)
             \/ DmaSuspends \/ StackFrees \/ TakeTimesOut \/ UNCHANGED vars
    <2>1. UNCHANGED <<irq, notified, pc, stored, taken, gaveUp, p>>
          \/ StackFrees
      BY <1>2 DEF FrameArrives, DmaSuspends, TakeTimesOut, vars, poolVars
    <2>2. UNCHANGED <<irq, notified, pc, stored, taken, gaveUp, p>>
      BY <2>1 DEF StackFrees
    <2> QED BY <2>2 DEF WakeInv
  <1>3. CASE DmaFills
    <2>1. (irq' /\ irq' \in BOOLEAN) \/ (stored' = stored /\ irq' = irq)
      BY <1>1, <1>3 DEF DmaFills
    <2>2. UNCHANGED <<notified, pc, taken, gaveUp, p>>
      BY <1>3 DEF DmaFills, poolVars
    <2> QED BY <2>1, <2>2 DEF WakeInv
  <1>4. CASE Interrupt
    BY <1>4 DEF Interrupt, WakeInv
  <1>5. CASE Take \/ Scan \/ Accepted
    <2>1. pc' \in {"scan", "alloc"}
      BY <1>5 DEF Take, Scan, Accepted, Step
    <2> QED BY <2>1 DEF WakeInv
  <1>6. CASE ScanEnds
    <2>1. UNCHANGED <<stored, taken>>
      BY <1>6 DEF ScanEnds
    <2>2. Len(taken) = Len(stored) /\ Len(stored) \in Nat
      BY <1>6, FoundNothing, LenProperties DEF TypeInv
    <2> QED BY <2>1, <2>2 DEF WakeInv
  <1>7. CASE Copy
    <2>1. pc = "alloc" /\ pc' = "release"
      BY <1>7 DEF Copy, Step
    <2>2. segCount \in Nat /\ segCount >= 1 /\ free \in Nat
      BY <2>1 DEF TypeInv, PbufInv
    <2>3. gaveUp' \/ p' # <<>>
      <3>1. CASE free > 0
        BY <1>7, <2>2, <3>1, ContentsNotEmpty DEF Copy
      <3>2. CASE ~(free > 0)
        <4>1. free = 0
          BY <2>2, <3>2
        <4> QED BY <1>7, <4>1 DEF Copy
      <3> QED BY <3>1, <3>2
    <2> QED BY <2>1, <2>3 DEF WakeInv
  <1>8. CASE Release
    <2>1. pc' \in {"release", "fault"} /\ pc = "release"
          /\ UNCHANGED <<irq, notified, stored, taken, gaveUp, p>>
      BY <1>8 DEF Release, poolVars
    <2>2. pc' # "fault"
      BY DEF RingInv, TaskInv
    <2> QED BY <2>1, <2>2 DEF WakeInv
  <1>9. CASE ReleaseEnds
    BY <1>9 DEF ReleaseEnds, Step, poolVars, WakeInv
  <1>10. CASE Resume
    BY <1>10 DEF Resume, Step, AfterInput, poolVars, WakeInv
  <1>11. CASE Refused
    BY <1>11 DEF Refused, Step, WakeInv
  <1> QED BY <1>2, <1>3, <1>4, <1>5, <1>6, <1>7, <1>8, <1>9, <1>10, <1>11
          DEF Next, DmaStep, TaskStep

\* Once a scan has ended inside a frame, it has.
LEMMA CutStays ==
  ASSUME TypeInv, [Next]_vars, cut
  PROVE  cut'
  <1>1. CASE ScanEnds
    BY <1>1 DEF ScanEnds
  <1>2. CASE ~ScanEnds
    BY <1>2 DEF Next, DmaStep, TaskStep, FrameArrives, DmaFills, DmaSuspends, Interrupt, Take,
                TakeTimesOut, Scan, Copy, Release, ReleaseEnds, Resume, Accepted, Refused,
                StackFrees, vars
  <1> QED BY <1>1, <1>2

\* The ring starts empty.
LEMMA InitRingInv == Init => RingInv /\ WakeInv
  <1> SUFFICES ASSUME Init PROVE RingInv /\ WakeInv
    OBVIOUS
  <1> USE RingAssumption
  <1> DEFINE s == [m \in 1..1 |-> 0]
  <1>1. /\ stored = <<>> /\ taken = <<>> /\ done = 0 /\ dma = 0 /\ get = 0 /\ pc = "take"
        /\ desc = [d \in Ring |-> Own]
    BY DEF Init
  <1>2. Len(stored) = 0 /\ Len(taken) = 0
    BY <1>1
  <1>3. s[1] = 0 /\ s \in [1..1 -> Nat]
    OBVIOUS
  <1> HIDE DEF s
  <1>4. FramesInv(s)
    BY <1>2, <1>3 DEF FramesInv
  <1>5. 0 \in Ring /\ Turn(0, 0) = 0
    BY DEF Ring, Turn
  <1>6. Filled(s) = 0 /\ Filled(s) - 0 = 0
    BY <1>1, <1>2, <1>3 DEF Filled
  <1>7. \A d \in Ring : desc[d].own /\ Ahead(0, d) \in Nat
    BY <1>1, <1>5, TurnAhead DEF Own
  <1>8. HeldInv(s, 0, 0)
    <2>1. \A d \in Ring : ~desc[d].own <=> Ahead(0, d) < 0
      BY <1>7
    <2> QED BY <1>1, <1>2, <1>5, <1>6, <2>1 DEF HeldInv
  <1>9. TaskInv(s, 0, 0)
    BY <1>1, <1>2, <1>3 DEF TaskInv
  <1>10. RingInv
    BY <1>4, <1>8, <1>9 DEF RingInv
  <1>11. WakeInv
    BY <1>2 DEF WakeInv
  <1> QED BY <1>10, <1>11

\* The types hold in every reachable state.
THEOREM RxTypes == Spec => []TypeOK
  <1>1. TypeInv => TypeOK
    BY DEF TypeInv
  <1>2. TypeInv /\ [Next]_vars => TypeInv'
    BY TypeInvStep
  <1> QED BY <1>1, <1>2, InitTypeInv, PTL DEF Spec

\* RxInv is inductive.
LEMMA Reception == Spec => []RxInv
  <1>1. Init => RxInv
    BY InitTypeInv, InitRingInv DEF RxInv
  <1>2. RxInv /\ [Next]_vars => RxInv'
    <2> SUFFICES ASSUME RxInv, [Next]_vars PROVE RxInv'
      OBVIOUS
    <2>1. TypeInv /\ TypeInv'
      BY TypeInvStep DEF RxInv
    <2>2. CASE cut
      BY <2>1, <2>2, CutStays DEF RxInv
    <2>3. CASE ~cut /\ ~cut'
      BY <2>1, <2>3, RingInvStep, WakeInvStep DEF RxInv
    <2>4. CASE cut'
      BY <2>1, <2>4 DEF RxInv
    <2> QED BY <2>2, <2>3, <2>4
  <1> QED BY <1>1, <1>2, PTL DEF Spec
-----------------------------------------------------------------------------
(* What the invariant says of the properties *)

\* The task takes the frames the DMA stored, whole and in their order, none
\* twice and none mixed with another, whatever the sizes of frames and ring.
THEOREM FramesComeAsStored == Spec => []FramesAsStored
  <1>1. RxInv => FramesAsStored
    <2> SUFFICES ASSUME RxInv, ~cut PROVE IsPrefix(taken, stored)
      BY DEF FramesAsStored
    <2>1. stored \in Seq(Words) /\ taken \in Seq(Words) /\ Len(taken) \in Nat /\ Len(stored) \in Nat
      BY LenProperties DEF RxInv, TypeInv
    <2>2. Len(taken) <= Len(stored) /\ \A m \in 1..Len(taken) : taken[m] = stored[m]
      BY DEF RxInv, RingInv, TaskInv
    <2>3. SubSeq(taken, 1, Len(taken)) = [m \in 1..Len(taken) |-> taken[m]]
      BY <2>1, SubSeqProperties
    <2>4. SubSeq(stored, 1, Len(taken)) = [m \in 1..Len(taken) |-> stored[m]]
      BY <2>1, <2>2, SubSeqProperties
    <2> QED BY <2>2, <2>3, <2>4 DEF IsPrefix
  <1> QED BY <1>1, Reception, PTL

\* When the input task waits without a notification, no complete frame waits in
\* the ring, unless the last one found no pbuf or was refused.
THEOREM NoFrameIsForgotten == Spec => []NoSilentStall
  <1>1. RxInv => NoSilentStall
    <2> SUFFICES ASSUME RxInv, pc = "take", ~notified, ~irq, ~gaveUp, ~cut,
                        NEW d \in CpuOwned
                 PROVE  ~desc[d].last
      BY DEF NoSilentStall
    <2>1. TypeInv /\ WakeInv /\ d \in Ring /\ ~desc[d].own
      BY DEF RxInv, CpuOwned
    <2>2. PICK s, r, t : FramesInv(s) /\ HeldInv(s, r, t) /\ TaskInv(s, r, t)
      BY DEF RxInv, RingInv
    <2> DEFINE top == s[Len(stored) + 1]
               k == Ahead(t, d) + 1
               id == Head(fifo).id
    <2>3. /\ Len(taken) \in Nat /\ Len(stored) \in Nat /\ Len(taken) <= Len(stored)
          /\ t \in Ring /\ done \in Nat /\ Filled(s) = top + done
      BY <2>1, <2>2, RingFacts
    <2>4. Len(taken) = Len(stored)
      BY <2>1, <2>3 DEF WakeInv
    <2>5. r = top /\ top \in Nat
      <3>1. Len(stored) + 1 \in 1..(Len(stored) + 1)
        BY <2>3
      <3>2. top \in Nat
        BY <2>1, <2>2, <3>1, RingFacts
      <3> QED BY <2>2, <2>4, <3>2 DEF TaskInv
    <2>6. Ahead(t, d) \in Nat /\ Turn(t, Ahead(t, d)) = d /\ Ahead(t, d) < Filled(s) - r
      <3>1. Ahead(t, d) \in Nat /\ Turn(t, Ahead(t, d)) = d
        BY <2>1, <2>3, TurnAhead
      <3>2. ~desc[d].own <=> Ahead(t, d) < Filled(s) - r
        BY <2>1, <2>2 DEF HeldInv
      <3> QED BY <2>1, <3>1, <3>2
    <2>7. k \in 1..done /\ top + k - 1 - r = Ahead(t, d) /\ k # 0
      <3> HIDE DEF top
      <3> QED BY <2>3, <2>5, <2>6
    <2>8. desc[d] = Segment(k, 0, id)
      <3>1. desc[Turn(t, top + k - 1 - r)] = Segment(k, 0, id)
        <4> HIDE DEF k
        <4> QED BY <2>2, <2>7 DEF HeldInv
      <3> QED BY <2>6, <2>7, <3>1
    <2> HIDE DEF k, id
    <2>9. Segment(k, 0, id).last <=> k = 0
      BY SegmentFields
    <2> QED BY <2>7, <2>8, <2>9
  <1> QED BY <1>1, Reception, PTL

\* The descriptors that the CPU owns are those that hold segments.
LEMMA HeldDescriptors ==
  ASSUME NEW t \in Ring, NEW n \in 0..RxBufNb,
         \A d \in Ring : ~desc[d].own <=> Ahead(t, d) < n
  PROVE  CpuOwned = {Turn(t, q) : q \in 0..(n - 1)} /\ Cardinality(CpuOwned) = n
  <1> USE RingAssumption
  <1>1. \A q \in 0..(n - 1) : q \in 0..(RxBufNb - 1)
    OBVIOUS
  <1>2. \A q \in 0..(n - 1) : Turn(t, q) \in CpuOwned
    <2> TAKE q \in 0..(n - 1)
    <2>1. Turn(t, q) \in Ring /\ Ahead(t, Turn(t, q)) = q /\ q < n
      BY <1>1, TurnAhead
    <2> QED BY <2>1 DEF CpuOwned
  <1>3. \A d \in CpuOwned : Ahead(t, d) \in 0..(n - 1) /\ Turn(t, Ahead(t, d)) = d
    <2> TAKE d \in CpuOwned
    <2>1. d \in Ring /\ Ahead(t, d) < n
      BY DEF CpuOwned
    <2>2. Ahead(t, d) \in 0..(RxBufNb - 1) /\ Turn(t, Ahead(t, d)) = d
      BY <2>1, TurnAhead
    <2> QED BY <2>1, <2>2
  <1>4. CpuOwned = {Turn(t, q) : q \in 0..(n - 1)}
    BY <1>2, <1>3
  <1>5. PICK f : f = [q \in 0..(n - 1) |-> Turn(t, q)]
    OBVIOUS
  <1>6. f \in [0..(n - 1) -> CpuOwned]
    BY <1>2, <1>5
  <1>7. \A q \in 0..(n - 1) : \A v \in 0..(n - 1) : f[q] = f[v] => q = v
    <2> TAKE q \in 0..(n - 1)
    <2> TAKE v \in 0..(n - 1)
    <2>1. f[q] = Turn(t, q) /\ f[v] = Turn(t, v)
      BY <1>5
    <2>2. Ahead(t, Turn(t, q)) = q /\ Ahead(t, Turn(t, v)) = v
      BY <1>1, TurnAhead
    <2> QED BY <2>1, <2>2
  <1>8. \A d \in CpuOwned : \E q \in 0..(n - 1) : f[q] = d
    BY <1>3, <1>5
  <1>9. ExistsBijection(0..(n - 1), CpuOwned)
    BY <1>6, <1>7, <1>8, Fun_IsBij DEF ExistsBijection
  <1>10. IsFiniteSet(0..(n - 1)) /\ Cardinality(0..(n - 1)) = n
    <2>1. /\ IsFiniteSet(0..(n - 1))
          /\ Cardinality(0..(n - 1)) = IF 0 > n - 1 THEN 0 ELSE (n - 1) - 0 + 1
      BY FS_Interval
    <2> QED BY <2>1
  <1> QED BY <1>4, <1>9, <1>10, FS_Bijection

\* The descriptors the DMA does not own are those it filled last, and the task
\* has passed those of them that it has counted.
THEOREM RingStaysInStep == Spec => []RingInStepUnlessCut
  <1>1. RxInv => RingInStepUnlessCut
    <2> SUFFICES ASSUME RxInv, ~cut PROVE RingInStep
      BY DEF RingInStepUnlessCut
    <2> USE RingAssumption
    <2>1. TypeInv /\ dma \in Ring
      BY DEF RxInv, TypeInv, TypeOK
    <2>2. PICK s, r, t : FramesInv(s) /\ HeldInv(s, r, t) /\ TaskInv(s, r, t)
      BY DEF RxInv, RingInv
    <2>3. PICK n \in 0..RxBufNb : n = Filled(s) - r
      BY <2>2 DEF HeldInv
    <2>4. t \in Ring /\ dma = Turn(t, n) /\ \A d \in Ring : ~desc[d].own <=> Ahead(t, d) < n
      BY <2>2, <2>3 DEF HeldInv
    <2>5. CpuOwned = {Turn(t, q) : q \in 0..(n - 1)} /\ Cardinality(CpuOwned) = n
      BY <2>4, HeldDescriptors
    <2> DEFINE back(k) == (dma + RxBufNb - k) % RxBufNb
               c == segCount - i * (IF pc = "release" THEN 1 ELSE 0)
    <2>6. \A k \in 0..n : back(k) = Turn(t, n - k)
      <3> TAKE k \in 0..n
      <3>1. RxBufNb - k \in 0..RxBufNb /\ dma + RxBufNb - k = dma + (RxBufNb - k)
        BY <2>1 DEF Ring
      <3>2. back(k) = Turn(dma, RxBufNb - k)
        BY <2>1, <3>1, TurnIsMod
      <3>3. Turn(Turn(t, n), RxBufNb - k) = Turn(t, n - k)
        BY <2>4 DEF Turn, Ring
      <3> QED BY <2>4, <3>2, <3>3
    <2>7. {Turn(t, q) : q \in 0..(n - 1)} = {back(k) : k \in 1..n}
      <3>1. \A q \in 0..(n - 1) : n - q \in 1..n /\ n - q \in 0..n /\ n - (n - q) = q
        OBVIOUS
      <3>2. \A k \in 1..n : n - k \in 0..(n - 1) /\ k \in 0..n
        OBVIOUS
      <3> HIDE DEF back
      <3>3. \A q \in 0..(n - 1) : \E k \in 1..n : back(k) = Turn(t, q)
        <4> TAKE q \in 0..(n - 1)
        <4>1. back(n - q) = Turn(t, n - (n - q))
          BY <2>6, <3>1
        <4> QED BY <3>1, <4>1
      <3>4. \A k \in 1..n : \E q \in 0..(n - 1) : back(k) = Turn(t, q)
        BY <2>6, <3>2
      <3> QED BY <3>3, <3>4
    <2>8. back(n) = t
      <3>1. back(n) = Turn(t, n - n) /\ n - n = 0
        BY <2>6
      <3> QED BY <2>4, <3>1, TurnAhead
    <2>9. c \in 0..RxBufNb /\ get = Turn(t, c)
      <3>1. segCount \in Nat /\ i \in Nat /\ segCount <= RxBufNb
        <4>1. segCount \in 0..MaxSegs /\ i \in 0..RxBufNb
          BY <2>1 DEF TypeInv, TypeOK
        <4> QED BY <4>1
      <3>2. CASE pc = "release"
        <4>1. i <= segCount /\ get = Turn(t, segCount - i)
          BY <2>1, <2>2, <3>2 DEF TypeInv, TaskInv
        <4>2. c = segCount - i
          BY <3>1, <3>2
        <4> QED BY <3>1, <4>1, <4>2
      <3>3. CASE pc # "release"
        <4>1. c = segCount
          BY <3>1, <3>3
        <4>2. get = Turn(t, segCount)
          <5>1. CASE pc \in {"take", "resume", "input"}
            <6>1. segCount = 0 /\ get = t
              BY <2>1, <2>2, <5>1 DEF TypeInv, TaskInv
            <6> QED BY <2>4, <6>1, TurnAhead
          <5>2. CASE pc \in {"scan", "alloc"}
            BY <2>2, <5>2 DEF TaskInv
          <5>3. pc \in {"take", "scan", "alloc", "release", "resume", "input", "fault"}
            BY <2>1 DEF TypeInv, TypeOK
          <5>4. pc # "fault"
            BY <2>2 DEF TaskInv
          <5> QED BY <3>3, <5>1, <5>2, <5>3, <5>4
        <4> QED BY <3>1, <4>1, <4>2
      <3> QED BY <3>2, <3>3
    <2>10. get = (t + c) % RxBufNb
      <3> HIDE DEF c
      <3> QED BY <2>4, <2>9, TurnIsMod
    <2>11. t + c = back(n) + segCount - i * (IF pc = "release" THEN 1 ELSE 0)
      <3>1. segCount \in Int /\ i * (IF pc = "release" THEN 1 ELSE 0) \in Int /\ t \in Int
        BY <2>1, <2>4 DEF TypeInv, TypeOK, Ring
      <3> HIDE DEF back
      <3> QED BY <2>8, <3>1
    <2>12. /\ CpuOwned = {back(k) : k \in 1..n}
           /\ get = (back(n) + segCount - i * (IF pc = "release" THEN 1 ELSE 0)) % RxBufNb
      <3> HIDE DEF back, c
      <3> QED BY <2>5, <2>7, <2>10, <2>11
    <2> QED BY <2>5, <2>12, Zenon DEF RingInStep
  <1> QED BY <1>1, Reception, PTL
=============================================================================
