--------------------------- MODULE EthernetTxProofs ---------------------------
(***************************************************************************)
(* Proofs about EthernetTx for every ring of two or more descriptors and   *)
(* every number of calls: the frames leave in the order of the calls, a    *)
(* drop means a full ring, and the next call revives a suspended DMA.      *)
(***************************************************************************)
EXTENDS EthernetTx, TLAPS

\* Frames given to the DMA that it has not given back.
Waiting == Len(accepted) - Len(left)

\* Descriptors from the one the DMA uses next to d, around the ring.
Dist(d) == IF d >= txDma THEN d - txDma ELSE d - txDma + TxBufNb

\* The DMA owns the Waiting descriptors that follow txDma, and these hold the
\* accepted frames that have not left; toSet is the descriptor after them.
WindowInv ==
  /\ Waiting \in 0..TxBufNb
  /\ toSet = IF txDma + Waiting < TxBufNb THEN txDma + Waiting
                                          ELSE txDma + Waiting - TxBufNb
  /\ \A d \in TxRing : txDesc[d].own <=> Dist(d) < Waiting
  /\ \A d \in TxRing : txDesc[d].own =>
       txDesc[d].of = accepted[Len(left) + 1 + Dist(d)]
  /\ \A k \in 1..Len(left) : left[k] = accepted[k]

\* A look at a descriptor still says what the DMA can rely on.
LookInv ==
  /\ seen = "frame" => txDesc[txDma].own
  /\ seen # "nothing" => ~txSuspended
  /\ seen = "none" => Waiting <= 1 /\ (txPc = "prepare" => Waiting = 0)

\* A DMA that suspended itself for TBUS had at most one frame to miss.
SuspendInv ==
  txSuspended /\ ~tus => tbus /\ (txPc # "tbus" => Waiting <= 1)

\* The call in progress has a number, and fills a descriptor of its own.
CallInv ==
  /\ txPc # "idle" => txCalls >= 1
  /\ txPc = "prepare" => ~txDesc[toSet].own /\ txDesc[toSet].of = txCalls

TxInv == TxTypeOK /\ WindowInv /\ LookInv /\ SuspendInv /\ CallInv

-----------------------------------------------------------------------------
\* The descriptor after d around the ring.
LEMMA FollowingIs ==
  \A d \in TxRing :
    /\ TxFollowing(d) = IF d = TxBufNb - 1 THEN 0 ELSE d + 1
    /\ TxFollowing(d) \in TxRing
  <1> USE TxRingAssumption DEF TxRing, TxFollowing
  <1> TAKE d \in TxRing
  <1>1. CASE d = TxBufNb - 1
    <2>1. (d + 1) % TxBufNb = 0
      BY <1>1, SMT
    <2> QED BY <1>1, <2>1
  <1>2. CASE d # TxBufNb - 1
    <2>1. (d + 1) % TxBufNb = d + 1
      BY <1>2, SMT
    <2> QED BY <1>2, <2>1
  <1> QED BY <1>1, <1>2

\* What the types and the window say in numbers.
LEMMA WindowFacts ==
  ASSUME TxTypeOK, WindowInv
  PROVE  /\ TxBufNb \in Nat /\ TxBufNb >= 2
         /\ txDma \in 0..(TxBufNb - 1) /\ toSet \in 0..(TxBufNb - 1)
         /\ Len(accepted) \in Nat /\ Len(left) \in Nat
         /\ Waiting \in 0..TxBufNb /\ Len(left) <= Len(accepted)
         /\ txDesc[txDma].own <=> Waiting >= 1
         /\ txDesc[toSet].own <=> Waiting = TxBufNb
  <1> USE TxRingAssumption
  <1>1. /\ txDma \in 0..(TxBufNb - 1) /\ toSet \in 0..(TxBufNb - 1)
        /\ Len(accepted) \in Nat /\ Len(left) \in Nat
    BY DEF TxTypeOK, TxRing
  <1>2. Waiting \in 0..TxBufNb /\ Len(left) <= Len(accepted)
    BY <1>1 DEF WindowInv, Waiting
  <1>3. txDesc[txDma].own <=> Waiting >= 1
    <2>1. Dist(txDma) = 0
      BY <1>1 DEF Dist
    <2> QED BY <1>1, <1>2, <2>1 DEF WindowInv, TxRing
  <1>4. txDesc[toSet].own <=> Waiting = TxBufNb
    <2>1. Dist(toSet) = IF Waiting = TxBufNb THEN 0 ELSE Waiting
      BY <1>1, <1>2 DEF Dist, WindowInv
    <2> QED BY <1>1, <1>2, <2>1 DEF WindowInv, TxRing
  <1> QED BY <1>1, <1>2, <1>3, <1>4

\* The same for a descriptor of the ring.
LEMMA DistFacts ==
  ASSUME TxTypeOK, WindowInv, NEW d \in TxRing
  PROVE  /\ d \in 0..(TxBufNb - 1) /\ Dist(d) \in 0..(TxBufNb - 1)
         /\ txDesc[d].own <=> Dist(d) < Waiting
         /\ Dist(d) = 0 <=> d = txDma
         /\ Waiting < TxBufNb => (Dist(d) = Waiting <=> d = toSet)
  <1>1. d \in 0..(TxBufNb - 1)
    BY DEF TxRing
  <1>2. Dist(d) \in 0..(TxBufNb - 1) /\ (Dist(d) = 0 <=> d = txDma)
    BY <1>1, WindowFacts DEF Dist
  <1>3. Waiting < TxBufNb => (Dist(d) = Waiting <=> d = toSet)
    BY <1>1, WindowFacts, SMTT(30) DEF Dist, WindowInv
  <1>4. txDesc[d].own <=> Dist(d) < Waiting
    BY DEF WindowInv
  <1> QED BY <1>1, <1>2, <1>3, <1>4

\* The driver and the DMA keep the types; the number of a frame that is given
\* to the DMA is that of the call in progress.
LEMMA TypeStep ==
  ASSUME TxInv, [TxNext]_txVars
  PROVE  TxTypeOK'
  <1> USE TxRingAssumption DEF TxTypeOK, txDmaVars, TxStep
  <1>0. TxTypeOK /\ CallInv
    BY DEF TxInv
  <1>1. CASE TxCall
    BY <1>0, <1>1 DEF TxCall
  <1>2. CASE TxDrop
    BY <1>0, <1>2 DEF TxDrop
  <1>3. CASE TxCopy
    BY <1>0, <1>3 DEF TxCopy
  <1>4. CASE Prepare
    <2>1. txDesc[toSet].of \in 1..MaxCalls
      BY <1>0, <1>4 DEF Prepare, CallInv
    <2>2. toSet' \in TxRing
      BY <1>0, <1>4, FollowingIs DEF Prepare
    <2>3. accepted' \in Seq(1..MaxCalls)
      BY <1>0, <1>4, <2>1 DEF Prepare
    <2>4. txDesc' \in [TxRing -> [own : BOOLEAN, of : 0..MaxCalls]]
      BY <1>0, <1>4 DEF Prepare
    <2> QED BY <1>0, <1>4, <2>2, <2>3, <2>4 DEF Prepare
  <1>5. CASE ResumeAfterPrepare
    BY <1>0, <1>5 DEF ResumeAfterPrepare
  <1>6. CASE ResumeAtEnd
    BY <1>0, <1>6 DEF ResumeAtEnd
  <1>7. CASE DmaLooks
    BY <1>0, <1>7 DEF DmaLooks
  <1>8. CASE DmaSends \/ DmaUnderflows
    <2>1. txDma' \in TxRing
      BY <1>0, <1>8, FollowingIs DEF DmaSends, DmaUnderflows
    <2>2. left' \in Seq(0..MaxCalls)
      <3>1. left' = Append(left, txDesc[txDma].of)
        BY <1>8 DEF DmaSends, DmaUnderflows
      <3> QED BY <1>0, <3>1
    <2>3. txDesc' \in [TxRing -> [own : BOOLEAN, of : 0..MaxCalls]]
      BY <1>0, <1>8 DEF DmaSends, DmaUnderflows
    <2>4. /\ UNCHANGED <<txCalls, txPc, toSet, tbus, accepted>>
          /\ seen' = "nothing" /\ underflows' \in 0..MaxUnderflows
          /\ txSuspended' \in BOOLEAN /\ tus' \in BOOLEAN
      <3>1. CASE DmaSends
        BY <1>0, <3>1 DEF DmaSends
      <3>2. CASE DmaUnderflows
        BY <1>0, <3>2 DEF DmaUnderflows
      <3> QED BY <1>8, <3>1, <3>2
    <2> QED BY <1>0, <2>1, <2>2, <2>3, <2>4
  <1>9. CASE TxDmaSuspends
    BY <1>0, <1>9 DEF TxDmaSuspends
  <1>10. CASE UNCHANGED txVars
    BY <1>0, <1>10 DEF txVars
  <1> QED BY <1>1, <1>2, <1>3, <1>4, <1>5, <1>6, <1>7, <1>8, <1>9, <1>10
          DEF TxNext, TxDriverStep, TxDmaStep

\* The window keeps its shape: Prepare adds a frame at its end, and the DMA
\* takes one from its front.
LEMMA WindowStep ==
  ASSUME TxInv, [TxNext]_txVars
  PROVE  WindowInv'
  <1>0. TxTypeOK /\ WindowInv /\ LookInv /\ CallInv
    BY DEF TxInv
  <1> USE <1>0
  <1>1. ASSUME UNCHANGED <<toSet, txDma, accepted, left, txDesc>>
        PROVE  WindowInv'
    BY <1>1 DEF WindowInv, Waiting, Dist
  <1>2. CASE TxCopy
    <2>1. /\ \A d \in TxRing : txDesc'[d].own = txDesc[d].own
          /\ \A d \in TxRing : d # toSet => txDesc'[d].of = txDesc[d].of
      BY <1>2 DEF TxCopy, TxTypeOK
    <2>2. ~txDesc[toSet].own /\ UNCHANGED <<toSet, txDma, accepted, left>>
      BY <1>2 DEF TxCopy, txDmaVars
    <2> QED BY <2>1, <2>2 DEF WindowInv, Waiting, Dist
  <1>3. CASE Prepare
    <2>1. /\ UNCHANGED <<txDma, left>>
          /\ ~txDesc[toSet].own /\ toSet' = TxFollowing(toSet)
          /\ accepted' = Append(accepted, txDesc[toSet].of)
      BY <1>3 DEF Prepare, txDmaVars
    <2>2. /\ Waiting < TxBufNb /\ Waiting \in Nat
          /\ Waiting' = Waiting + 1 /\ Waiting' \in 0..TxBufNb
          /\ Len(accepted') = Len(accepted) + 1
          /\ accepted'[Len(accepted) + 1] = txDesc[toSet].of
          /\ \A k \in 1..Len(accepted) : accepted'[k] = accepted[k]
      <3>1. /\ Len(accepted') = Len(accepted) + 1
            /\ accepted'[Len(accepted) + 1] = txDesc[toSet].of
            /\ \A k \in 1..Len(accepted) : accepted'[k] = accepted[k]
        BY <2>1 DEF TxTypeOK
      <3>2. Waiting' = Waiting + 1
        BY <2>1, <3>1, WindowFacts DEF Waiting
      <3> QED BY <2>1, <3>1, <3>2, WindowFacts
    <2>3. toSet' = IF txDma' + Waiting' < TxBufNb THEN txDma' + Waiting'
                                                  ELSE txDma' + Waiting' - TxBufNb
      <3>1. toSet' = IF toSet = TxBufNb - 1 THEN 0 ELSE toSet + 1
        BY <2>1, FollowingIs DEF TxTypeOK
      <3>2. /\ TxBufNb \in Nat /\ txDma \in 0..(TxBufNb - 1) /\ txDma' = txDma
            /\ toSet = IF txDma + Waiting < TxBufNb THEN txDma + Waiting
                                                    ELSE txDma + Waiting - TxBufNb
        BY <2>1, WindowFacts DEF WindowInv
      <3>3. CASE txDma + Waiting < TxBufNb
        BY <2>2, <3>1, <3>2, <3>3
      <3>4. CASE txDma + Waiting >= TxBufNb
        BY <2>2, <3>1, <3>2, <3>4
      <3> QED BY <2>2, <3>2, <3>3, <3>4
    <2>4. \A d \in TxRing : Dist(d)' = Dist(d) /\ (Dist(d) = Waiting <=> d = toSet)
      <3> TAKE d \in TxRing
      <3>1. Dist(d)' = Dist(d)
        BY <2>1 DEF Dist
      <3> QED BY <2>2, <3>1, DistFacts
    <2>5. \A d \in TxRing :
            /\ txDesc'[d].own <=> d = toSet \/ txDesc[d].own
            /\ txDesc'[d].of = txDesc[d].of
      BY <1>3 DEF Prepare, TxTypeOK
    <2>6. \A d \in TxRing : txDesc'[d].own <=> Dist(d)' < Waiting'
      <3> TAKE d \in TxRing
      <3>1. /\ Dist(d) \in Nat /\ (txDesc[d].own <=> Dist(d) < Waiting)
            /\ Dist(d)' = Dist(d) /\ (Dist(d) = Waiting <=> d = toSet)
            /\ txDesc'[d].own <=> d = toSet \/ txDesc[d].own
        BY <2>4, <2>5, DistFacts, WindowFacts
      <3> QED BY <2>2, <3>1
    <2>7. \A d \in TxRing : txDesc'[d].own =>
            txDesc'[d].of = accepted'[Len(left') + 1 + Dist(d)']
      <3> TAKE d \in TxRing
      <3>1. CASE d = toSet
        <4>1. Dist(d) = Waiting
          BY <3>1, <2>4
        <4>2. Len(left) + 1 + Dist(d) = Len(accepted) + 1
          BY <4>1, WindowFacts DEF Waiting
        <4> QED BY <3>1, <4>2, <2>1, <2>2, <2>4, <2>5
      <3>2. CASE d # toSet /\ txDesc[d].own
        <4>1. Dist(d) < Waiting /\ Dist(d) \in Nat
          BY <3>2, DistFacts, WindowFacts
        <4>2. Len(left) + 1 + Dist(d) \in 1..Len(accepted)
          BY <4>1, WindowFacts DEF Waiting
        <4> QED BY <3>2, <4>2, <2>1, <2>2, <2>4, <2>5 DEF WindowInv
      <3> QED BY <3>1, <3>2, <2>5
    <2>8. \A k \in 1..Len(left') : left'[k] = accepted'[k]
      BY <2>1, <2>2, WindowFacts DEF WindowInv
    <2> QED BY <2>2, <2>3, <2>6, <2>7, <2>8 DEF WindowInv
  <1>4. CASE DmaSends \/ DmaUnderflows
    <2>1. /\ UNCHANGED <<toSet, accepted>>
          /\ txDesc[txDma].own /\ txDma' = TxFollowing(txDma)
          /\ left' = Append(left, txDesc[txDma].of)
      BY <1>4 DEF DmaSends, DmaUnderflows, LookInv
    <2>2. /\ Waiting >= 1
          /\ Waiting' = Waiting - 1 /\ Waiting' \in 0..TxBufNb
          /\ Len(left') = Len(left) + 1
          /\ left'[Len(left) + 1] = txDesc[txDma].of
          /\ \A k \in 1..Len(left) : left'[k] = left[k]
      <3>1. /\ Len(left') = Len(left) + 1
            /\ left'[Len(left) + 1] = txDesc[txDma].of
            /\ \A k \in 1..Len(left) : left'[k] = left[k]
        BY <2>1 DEF TxTypeOK
      <3>2. Waiting' = Waiting - 1
        BY <2>1, <3>1, WindowFacts DEF Waiting
      <3> QED BY <2>1, <3>1, <3>2, WindowFacts
    <2>3. txDma' = IF txDma = TxBufNb - 1 THEN 0 ELSE txDma + 1
      BY <2>1, FollowingIs DEF TxTypeOK
    <2>4. toSet' = IF txDma' + Waiting' < TxBufNb THEN txDma' + Waiting'
                                                  ELSE txDma' + Waiting' - TxBufNb
      <3>1. /\ TxBufNb \in Nat /\ txDma \in 0..(TxBufNb - 1) /\ toSet' = toSet
            /\ Waiting \in 0..TxBufNb
            /\ toSet = IF txDma + Waiting < TxBufNb THEN txDma + Waiting
                                                    ELSE txDma + Waiting - TxBufNb
        BY <2>1, WindowFacts DEF WindowInv
      <3>2. CASE txDma = TxBufNb - 1
        BY <2>2, <2>3, <3>1, <3>2
      <3>3. CASE txDma # TxBufNb - 1
        BY <2>2, <2>3, <3>1, <3>3
      <3> QED BY <3>2, <3>3
    <2>5. \A d \in TxRing :
            Dist(d)' = IF d = txDma THEN TxBufNb - 1 ELSE Dist(d) - 1
      <3> TAKE d \in TxRing
      <3>1. d \in 0..(TxBufNb - 1)
        BY DistFacts
      <3>2. Dist(d)' = IF d >= txDma' THEN d - txDma' ELSE d - txDma' + TxBufNb
        BY DEF Dist
      <3>3. TxBufNb \in Nat /\ TxBufNb >= 2 /\ txDma \in 0..(TxBufNb - 1)
        BY WindowFacts
      <3>4. Dist(d) = IF d >= txDma THEN d - txDma ELSE d - txDma + TxBufNb
        BY DEF Dist
      <3>5. CASE txDma = TxBufNb - 1
        <4>1. Dist(d)' = d
          BY <2>3, <3>1, <3>2, <3>3, <3>5
        <4> QED BY <3>1, <3>3, <3>4, <3>5, <4>1
      <3>6. CASE txDma # TxBufNb - 1
        <4>1. Dist(d)' = IF d >= txDma + 1 THEN d - (txDma + 1)
                                           ELSE d - (txDma + 1) + TxBufNb
          BY <2>3, <3>2, <3>6
        <4> QED BY <3>1, <3>3, <3>4, <3>6, <4>1
      <3> QED BY <3>5, <3>6
    <2>6. \A d \in TxRing :
            /\ txDesc'[d].own <=> d # txDma /\ txDesc[d].own
            /\ txDesc'[d].of = txDesc[d].of
      BY <1>4 DEF DmaSends, DmaUnderflows, TxTypeOK
    <2>7. \A d \in TxRing : txDesc'[d].own <=> Dist(d)' < Waiting'
      <3> TAKE d \in TxRing
      <3>1. /\ Dist(d) \in Nat /\ (txDesc[d].own <=> Dist(d) < Waiting)
            /\ Dist(d)' = IF d = txDma THEN TxBufNb - 1 ELSE Dist(d) - 1
            /\ txDesc'[d].own <=> d # txDma /\ txDesc[d].own
        BY <2>5, <2>6, DistFacts, WindowFacts
      <3> QED BY <2>2, <3>1, WindowFacts
    <2>8. \A d \in TxRing : txDesc'[d].own =>
            txDesc'[d].of = accepted'[Len(left') + 1 + Dist(d)']
      <3> SUFFICES ASSUME NEW d \in TxRing, d # txDma, txDesc[d].own
                   PROVE  txDesc[d].of = accepted[Len(left') + 1 + Dist(d)']
        BY <2>1, <2>6
      <3>1. Len(left') + 1 + Dist(d)' = Len(left) + 1 + Dist(d)
        BY <2>2, <2>5, DistFacts, WindowFacts
      <3> QED BY <3>1 DEF WindowInv
    <2>9. \A k \in 1..Len(left') : left'[k] = accepted'[k]
      <3>1. Dist(txDma) = 0
        BY WindowFacts DEF Dist
      <3>2. txDesc[txDma].of = accepted[Len(left) + 1]
        BY <2>1, <3>1, WindowFacts DEF WindowInv, TxRing
      <3> QED BY <2>1, <2>2, <3>2, WindowFacts DEF WindowInv
    <2> QED BY <2>2, <2>4, <2>7, <2>8, <2>9 DEF WindowInv
  <1>5. CASE TxCall \/ TxDrop \/ ResumeAfterPrepare \/ ResumeAtEnd
    BY <1>1, <1>5 DEF TxCall, TxDrop, ResumeAfterPrepare, ResumeAtEnd, txDmaVars
  <1>6. CASE DmaLooks \/ TxDmaSuspends \/ UNCHANGED txVars
    BY <1>1, <1>6 DEF DmaLooks, TxDmaSuspends, txVars, txDmaVars
  <1> QED BY <1>2, <1>3, <1>4, <1>5, <1>6 DEF TxNext, TxDriverStep, TxDmaStep

\* What the DMA saw stays true until it acts: the driver takes no descriptor
\* from it, and gives it one at most.
LEMMA LookStep ==
  ASSUME TxInv, [TxNext]_txVars
  PROVE  LookInv'
  <1>0. TxTypeOK /\ WindowInv /\ LookInv /\ CallInv
    BY DEF TxInv
  <1>1. Waiting \in Int /\ (txDesc[txDma].own <=> Waiting >= 1)
    BY <1>0, WindowFacts
  <1>2. TxTypeOK' /\ WindowInv'
    BY TypeStep, WindowStep
  <1>3. Waiting' \in Nat
    BY <1>2 DEF WindowInv
  <1> USE DEF LookInv, txDmaVars, TxStep
  <1>4. CASE TxCall \/ TxDrop \/ ResumeAfterPrepare \/ ResumeAtEnd
    <2>1. UNCHANGED <<txDesc, txDma, seen, accepted, left>>
      BY <1>4 DEF TxCall, TxDrop, ResumeAfterPrepare, ResumeAtEnd
    <2>2. txPc' # "prepare" /\ (txSuspended' => txSuspended)
      BY <1>0, <1>4 DEF TxCall, TxDrop, ResumeAfterPrepare, ResumeAtEnd, TxTypeOK
    <2> QED BY <1>0, <2>1, <2>2 DEF Waiting
  <1>5. CASE TxCopy
    <2>1. txDesc'[txDma].own = txDesc[txDma].own /\ UNCHANGED txDmaVars
      BY <1>0, <1>5 DEF TxCopy, TxTypeOK
    <2>2. seen # "none" /\ UNCHANGED accepted
      BY <1>5 DEF TxCopy
    <2> QED BY <1>0, <2>1, <2>2
  <1>6. CASE Prepare
    <2>1. /\ txPc = "prepare" /\ txPc' = "tbus" /\ UNCHANGED txDmaVars
          /\ accepted' = Append(accepted, txDesc[toSet].of)
          /\ txDesc[txDma].own => txDesc'[txDma].own
      BY <1>0, <1>6 DEF Prepare, TxTypeOK
    <2>2. Waiting' = Waiting + 1
      BY <1>0, <2>1 DEF Waiting, TxTypeOK
    <2> QED BY <1>0, <1>1, <2>1, <2>2
  <1>7. CASE DmaLooks
    <2>1. /\ ~txSuspended /\ UNCHANGED <<txDesc, txDma, txSuspended, accepted, left>>
          /\ seen' = IF txDesc[txDma].own THEN "frame" ELSE "none"
      BY <1>7 DEF DmaLooks
    <2>2. seen' = "none" => Waiting' = 0
      BY <1>1, <1>3, <2>1 DEF Waiting
    <2> QED BY <1>0, <2>1, <2>2
  <1>8. CASE DmaSends \/ DmaUnderflows \/ TxDmaSuspends
    BY <1>8 DEF DmaSends, DmaUnderflows, TxDmaSuspends
  <1>9. CASE UNCHANGED txVars
    BY <1>0, <1>9 DEF txVars, Waiting
  <1> QED BY <1>4, <1>5, <1>6, <1>7, <1>8, <1>9
          DEF TxNext, TxDriverStep, TxDmaStep

\* TBUS stays set until a call tests it, and no second frame is added before.
LEMMA SuspendStep ==
  ASSUME TxInv, [TxNext]_txVars
  PROVE  SuspendInv'
  <1>0. TxTypeOK /\ WindowInv /\ LookInv /\ SuspendInv
    BY DEF TxInv
  <1>1. Waiting \in Int
    BY <1>0, WindowFacts
  <1> USE DEF SuspendInv, txDmaVars, TxStep
  <1>2. CASE TxCall \/ TxDrop \/ TxCopy
    <2>1. UNCHANGED <<txSuspended, tus, tbus, accepted, left>> /\ txPc # "tbus"
      BY <1>2 DEF TxCall, TxDrop, TxCopy
    <2> QED BY <1>0, <2>1 DEF Waiting
  <1>3. CASE Prepare
    BY <1>0, <1>3 DEF Prepare
  <1>4. CASE ResumeAfterPrepare
    BY <1>0, <1>4 DEF ResumeAfterPrepare
  <1>5. CASE ResumeAtEnd
    <2>1. /\ UNCHANGED <<tbus, accepted, left>> /\ txPc = "tus"
          /\ txSuspended' => txSuspended /\ ~tus
      BY <1>0, <1>5 DEF ResumeAtEnd, TxTypeOK
    <2> QED BY <1>0, <2>1 DEF Waiting
  <1>6. CASE DmaLooks
    BY <1>0, <1>6 DEF DmaLooks
  <1>7. CASE DmaSends
    BY <1>0, <1>7 DEF DmaSends, LookInv
  <1>8. CASE DmaUnderflows
    BY <1>8 DEF DmaUnderflows
  <1>9. CASE TxDmaSuspends
    <2>1. Waiting <= 1 /\ UNCHANGED <<accepted, left>> /\ tbus'
      BY <1>0, <1>9 DEF TxDmaSuspends, LookInv
    <2> QED BY <2>1 DEF Waiting
  <1>10. CASE UNCHANGED txVars
    BY <1>0, <1>10 DEF txVars, Waiting
  <1> QED BY <1>2, <1>3, <1>4, <1>5, <1>6, <1>7, <1>8, <1>9, <1>10
          DEF TxNext, TxDriverStep, TxDmaStep

\* The DMA leaves the descriptor alone that a call is filling.
LEMMA CallStep ==
  ASSUME TxInv, [TxNext]_txVars
  PROVE  CallInv'
  <1>0. TxTypeOK /\ LookInv /\ CallInv
    BY DEF TxInv
  <1> USE DEF CallInv, txDmaVars, TxStep
  <1>1. CASE TxCall
    BY <1>0, <1>1 DEF TxCall, TxTypeOK
  <1>2. CASE TxDrop \/ ResumeAfterPrepare \/ ResumeAtEnd
    BY <1>0, <1>2 DEF TxDrop, ResumeAfterPrepare, ResumeAtEnd
  <1>3. CASE TxCopy
    BY <1>0, <1>3 DEF TxCopy, TxTypeOK
  <1>4. CASE Prepare
    BY <1>0, <1>4 DEF Prepare
  <1>5. CASE DmaLooks \/ TxDmaSuspends
    BY <1>0, <1>5 DEF DmaLooks, TxDmaSuspends
  <1>6. CASE DmaSends \/ DmaUnderflows
    <2>1. txDesc[txDma].own /\ UNCHANGED <<txCalls, txPc, toSet>>
      BY <1>0, <1>6 DEF DmaSends, DmaUnderflows, LookInv
    <2>2. \A d \in TxRing : d # txDma => txDesc'[d] = txDesc[d]
      BY <1>0, <1>6 DEF DmaSends, DmaUnderflows, TxTypeOK
    <2>3. toSet \in TxRing
      BY <1>0 DEF TxTypeOK
    <2> QED BY <1>0, <2>1, <2>2, <2>3
  <1>7. CASE UNCHANGED txVars
    BY <1>0, <1>7 DEF txVars
  <1> QED BY <1>1, <1>2, <1>3, <1>4, <1>5, <1>6, <1>7
          DEF TxNext, TxDriverStep, TxDmaStep

-----------------------------------------------------------------------------
\* The ring is empty and the DMA at rest when the interface comes up.
LEMMA InitTxInv == TxInit => TxInv
  <1> SUFFICES ASSUME TxInit
               PROVE  TxInv
    OBVIOUS
  <1> USE TxRingAssumption DEF TxInit
  <1>1. TxTypeOK
    <2>1. txDesc \in [TxRing -> [own : BOOLEAN, of : 0..MaxCalls]]
      OBVIOUS
    <2>2. 0 \in TxRing
      BY DEF TxRing
    <2>3. accepted \in Seq(1..MaxCalls) /\ left \in Seq(0..MaxCalls)
      OBVIOUS
    <2>4. toSet \in TxRing /\ txDma \in TxRing /\ txCalls \in 0..MaxCalls
          /\ underflows \in 0..MaxUnderflows
      BY <2>2
    <2> QED BY <2>1, <2>3, <2>4 DEF TxTypeOK
  <1>2. WindowInv
    BY DEF WindowInv, Waiting, Dist, TxRing
  <1>3. LookInv /\ SuspendInv /\ CallInv
    BY DEF LookInv, SuspendInv, CallInv
  <1> QED BY <1>1, <1>2, <1>3 DEF TxInv

\* Every step of the driver and of the DMA preserves the invariant.
LEMMA NextTxInv == TxInv /\ [TxNext]_txVars => TxInv'
  BY TypeStep, WindowStep, LookStep, SuspendStep, CallStep DEF TxInv

\* The window, what the DMA saw and why it suspended itself agree always.
THEOREM TxInvAlways == TxSpec => []TxInv
  <1>1. TxInit => TxInv
    BY InitTxInv
  <1>2. TxInv /\ [TxNext]_txVars => TxInv'
    BY NextTxInv
  <1> QED BY <1>1, <1>2, PTL DEF TxSpec

\* Types.
THEOREM TypesHold == TxSpec => []TxTypeOK
  <1>1. TxInv => TxTypeOK
    BY DEF TxInv
  <1> QED BY <1>1, TxInvAlways, PTL

\* Whatever the size of the ring and the number of calls, frames leave once
\* each, unchanged and in the order in which low_level_output was called.
THEOREM OrderKept == TxSpec => []LeaveInOrder
  <1>1. TxInv => LeaveInOrder
    <2> SUFFICES ASSUME TxInv
                 PROVE  LeaveInOrder
      OBVIOUS
    <2>1. /\ Len(left) \in Nat /\ Len(accepted) \in Nat
          /\ Len(left) <= Len(accepted)
      BY WindowFacts DEF TxInv
    <2>2. \A k \in 1..Len(left) : left[k] = accepted[k]
      BY DEF TxInv, WindowInv
    <2>3. SubSeq(left, 1, Len(left)) = SubSeq(accepted, 1, Len(left))
      BY <2>1, <2>2 DEF TxInv, TxTypeOK
    <2> QED BY <2>1, <2>3 DEF LeaveInOrder, IsPrefix
  <1> QED BY <1>1, TxInvAlways, PTL

\* In a ring of any size, the next call of low_level_output gets a suspended
\* DMA going: the ring never fills behind a poll demand that is still due.
THEOREM NextCallSuffices == TxSpec => []NextCallRevives
  <1>1. TxInv => NextCallRevives
    <2> SUFFICES ASSUME TxInv, txSuspended, txPc # "tbus", ~tus
                 PROVE  tbus /\ ~txDesc[toSet].own
      BY DEF NextCallRevives
    <2>1. tbus /\ Waiting <= 1
      BY DEF TxInv, SuspendInv
    <2> QED BY <2>1, WindowFacts DEF TxInv
  <1> QED BY <1>1, TxInvAlways, PTL

\* low_level_output drops a frame only when every descriptor waits to be sent.
THEOREM NoEarlyDrop == TxSpec => DropsOnlyWhenFull
  <1>1. /\ TxInv /\ [TxNext]_txVars
        => [txPc = "copy" /\ txPc' = "tus"
              => \A d \in TxRing : txDesc[d].own]_txVars
    <2> SUFFICES ASSUME TxInv, TxNext, txPc = "copy", txPc' = "tus",
                        NEW d \in TxRing
                 PROVE  txDesc[d].own
      BY DEF txVars
    <2>1. txDesc[toSet].own
      BY DEF TxNext, TxDriverStep, TxDmaStep, TxStep, TxCall, TxDrop, TxCopy, Prepare,
             ResumeAfterPrepare, ResumeAtEnd, DmaLooks, DmaSends,
             DmaUnderflows, TxDmaSuspends
    <2>2. Waiting = TxBufNb /\ TxBufNb \in Nat
      BY <2>1, WindowFacts DEF TxInv
    <2>3. TxTypeOK /\ WindowInv
      BY DEF TxInv
    <2> QED BY <2>2, <2>3, DistFacts
  <1> QED BY <1>1, TxInvAlways, PTL DEF TxSpec, DropsOnlyWhenFull
=============================================================================
