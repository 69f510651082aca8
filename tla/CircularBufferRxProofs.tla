----------------------- MODULE CircularBufferRxProofs -----------------------
(***************************************************************************)
(* Proofs about CircularBufferRx for every buffer length, read length and  *)
(* set of byte values: types and ranges, the agreement of the count with   *)
(* the indices, the reader's assertion away from a full buffer, and that   *)
(* the buffer is a queue.                                                  *)
(***************************************************************************)
EXTENDS CircularBufferRx, SequenceTheorems, TLAPS

\* Bytes between the indices.
Distance == IF rd <= wr THEN wr - rd ELSE BufLen - rd + wr

\* What the handler and the reader maintain together. A clear in progress has
\* set the read index, then the count, to zero. After a clear that raced with
\* the handler the count is too large, never too small: a copy takes no more
\* than the count says.
IInv ==
  /\ TypeOK
  /\ CountMatches
  /\ pc \notin {"clr_count", "clr_write"} => Distance <= count
  /\ pc \in {"clr_count", "clr_write"} => rd = 0
  /\ pc = "clr_write" /\ ~raced => count = 0
  /\ pc \in {"take", "mask", "attempt1", "attempt2"} => Len(out) < want

-----------------------------------------------------------------------------
\* The bytes one copy may take are all in the buffer, and the read index stays
\* inside it.
LEMMA ChunkBound ==
  ASSUME TypeOK
  PROVE  /\ Chunk \in Nat /\ Chunk <= want - Len(out)
         /\ rd + Chunk <= BufLen
         /\ Distance <= count => Chunk <= count
  <1> USE BufferAssumption
  <1>1. Len(out) \in Nat /\ want \in Nat /\ Len(out) <= want
    BY DEF TypeOK
  <1>2. /\ rd \in Nat /\ wr \in Nat /\ count \in Nat
        /\ rd < BufLen /\ wr < BufLen /\ count <= BufLen
    BY DEF TypeOK
  <1> QED BY <1>1, <1>2 DEF Chunk, Available, Distance

\* Every step keeps the types; only Attempt needs more than its definition.
LEMMA TypeStep ==
  ASSUME IInv, [Next]_vars
  PROVE  TypeOK'
  <1> USE BufferAssumption DEF TypeOK, Clearing
  <1>0. TypeOK /\ (pc \notin {"clr_count", "clr_write"} => Distance <= count)
    BY DEF IInv
  <1> USE <1>0
  <1>1. CASE ByteArrives
    BY <1>1 DEF ByteArrives, lineVars, indexVars, taskVars, TaskLevel
  <1>2. CASE IsrEnter
    BY <1>2 DEF IsrEnter, lineVars, indexVars, taskVars, TaskLevel
  <1>3. CASE IsrStore
    <2>1. raced' \in BOOLEAN
      BY <1>3 DEF IsrStore
    <2>2. buf' \in [0..(BufLen - 1) -> Bytes]
      BY <1>3 DEF IsrStore
    <2>3. wr' \in 0..(BufLen - 1) /\ count' \in 0..BufLen
      BY <1>3 DEF IsrStore
    <2> QED BY <1>3, <2>1, <2>2, <2>3 DEF IsrStore
  <1>4. CASE IsrOverrun
    BY <1>4 DEF IsrOverrun, lineVars, indexVars, taskVars, TaskLevel
  <1>5. CASE IsrGive
    BY <1>5 DEF IsrGive, lineVars, indexVars, taskVars, TaskLevel
  <1>6. CASE IsrClear
    BY <1>6 DEF IsrClear, lineVars, indexVars, taskVars, TaskLevel
  <1>7. CASE StartRead
    BY <1>7 DEF StartRead, lineVars, indexVars, taskVars, TaskLevel
  <1>8. CASE Take
    BY <1>8 DEF Take, lineVars, indexVars, taskVars, TaskLevel
  <1>9. CASE Mask
    BY <1>9 DEF Mask, lineVars, indexVars, taskVars, TaskLevel
  <1>10. CASE Attempt
    <2>1. CASE count = 0
      BY <1>10, <2>1 DEF Attempt, lineVars
    <2>2. CASE count # 0
      <3> DEFINE part == [j \in 1..Chunk |-> buf[rd + j - 1]]
      <3>1. /\ Chunk \in Nat /\ Chunk <= want - Len(out) /\ rd + Chunk <= BufLen
        BY ChunkBound
      <3>2. \A j \in 1..Chunk : rd + j - 1 \in 0..(BufLen - 1)
        BY <3>1
      <3>3. part \in Seq(Bytes) /\ Len(part) = Chunk
        BY <3>1, <3>2
      <3>4. out' = out \o part
        BY <1>10, <2>2 DEF Attempt
      <3> HIDE DEF part
      <3>5. out' \in Seq(Bytes) /\ Len(out') = Len(out) + Chunk
        BY <3>3, <3>4
      <3>6. out' \in Seq(Bytes) /\ Len(out') <= want
        BY <3>1, <3>5
      <3>7. rd' \in 0..(BufLen - 1)
        BY <1>10, <2>2, <3>1 DEF Attempt
      <3>8. Chunk <= count
        BY <1>10, ChunkBound DEF Attempt
      <3>9. count' \in 0..BufLen
        BY <1>10, <2>2, <3>1, <3>8 DEF Attempt
      <3> QED BY <1>10, <2>2, <3>6, <3>7, <3>9 DEF Attempt, lineVars
    <2> QED BY <2>1, <2>2
  <1>11. CASE Unmask
    BY <1>11 DEF Unmask, lineVars, indexVars, taskVars, TaskLevel
  <1>12. CASE Check
    BY <1>12 DEF Check, lineVars, indexVars, taskVars, TaskLevel
  <1>13. CASE TimeOut
    BY <1>13 DEF TimeOut, lineVars, indexVars, taskVars, TaskLevel
  <1>14. CASE StartClear
    BY <1>14 DEF StartClear, lineVars, indexVars, taskVars, TaskLevel
  <1>15. CASE ClearErr
    BY <1>15 DEF ClearErr, lineVars, indexVars, taskVars, TaskLevel
  <1>16. CASE ClearRead
    BY <1>16 DEF ClearRead, lineVars, indexVars, taskVars, TaskLevel
  <1>17. CASE ClearCount
    BY <1>17 DEF ClearCount, lineVars, indexVars, taskVars, TaskLevel
  <1>18. CASE ClearWrite
    BY <1>18 DEF ClearWrite, lineVars, indexVars, taskVars, TaskLevel
  <1>19. CASE ClearSem
    BY <1>19 DEF ClearSem, lineVars, indexVars, taskVars, TaskLevel
  <1>20. CASE UNCHANGED vars
    BY <1>20 DEF vars, lineVars, indexVars, taskVars
  <1> QED
    BY <1>1, <1>2, <1>3, <1>4, <1>5, <1>6, <1>7, <1>8, <1>9, <1>10,
       <1>11, <1>12, <1>13, <1>14, <1>15, <1>16, <1>17, <1>18, <1>19, <1>20
    DEF Next, Isr, Reading, Clear

\* The rest of the invariant is about the indices, the count, the position of
\* the task and raced.
LEMMA IndexStep ==
  ASSUME IInv, [Next]_vars
  PROVE  IInv'
  <1> USE BufferAssumption
  <1>0. TypeOK' /\ TypeOK
    BY TypeStep DEF IInv
  <1>a. /\ rd \in Nat /\ wr \in Nat /\ count \in Nat
        /\ rd < BufLen /\ wr < BufLen /\ count <= BufLen
    BY <1>0 DEF TypeOK
  <1> USE <1>0, <1>a DEF IInv, CountMatches, Wrapped, Distance
  <1>1. CASE ByteArrives
    BY <1>1 DEF ByteArrives, lineVars, indexVars, taskVars, TaskLevel
  <1>2. CASE IsrEnter
    BY <1>2 DEF IsrEnter, lineVars, indexVars, taskVars, TaskLevel
  <1>3. CASE IsrStore
    <2>1. /\ rd' = rd /\ count' = count + 1 /\ count < BufLen
          /\ wr' = (IF wr + 1 = BufLen THEN 0 ELSE wr + 1)
          /\ pc' = pc /\ want' = want /\ out' = out
      BY <1>3 DEF IsrStore, taskVars
    <2>2. ~raced' => ~raced /\ pc # "clr_write"
      BY <1>3 DEF IsrStore
    <2>3. Distance' <= count' \/ pc \in {"clr_count", "clr_write"}
      BY <2>1
    <2>4. wr = Wrapped(rd + count) => wr' = Wrapped(rd + count)'
      BY <2>1
    <2>5. CountMatches'
      BY <2>1, <2>2, <2>4
    <2> QED BY <2>1, <2>2, <2>3, <2>5
  <1>4. CASE IsrOverrun
    BY <1>4 DEF IsrOverrun, lineVars, indexVars, taskVars, TaskLevel
  <1>5. CASE IsrGive
    BY <1>5 DEF IsrGive, lineVars, indexVars, taskVars, TaskLevel
  <1>6. CASE IsrClear
    BY <1>6 DEF IsrClear, lineVars, indexVars, taskVars, TaskLevel
  <1>7. CASE StartRead
    BY <1>7 DEF StartRead, lineVars, indexVars, taskVars, TaskLevel
  <1>8. CASE Take
    BY <1>8 DEF Take, lineVars, indexVars, taskVars, TaskLevel
  <1>9. CASE Mask
    BY <1>9 DEF Mask, lineVars, indexVars, taskVars, TaskLevel
  <1>10. CASE Attempt
    <2>1. CASE count = 0
      BY <1>10, <2>1 DEF Attempt, lineVars
    <2>2. CASE count # 0
      <3>1. Chunk \in Nat /\ rd + Chunk <= BufLen /\ Chunk <= count
        BY <1>10, ChunkBound DEF Attempt
      <3>2. Chunk <= Available
        BY <1>10 DEF Attempt, Chunk, Available, TypeOK
      <3>3. /\ rd' = (IF rd + Chunk = BufLen THEN 0 ELSE rd + Chunk)
            /\ count' = count - Chunk /\ wr' = wr /\ raced' = raced
            /\ pc \in {"attempt1", "attempt2"} /\ pc' \in {"attempt2", "unmask"}
            /\ pc' = "attempt2" => Len(out') < want'
        BY <1>10, <2>2 DEF Attempt
      <3> QED BY <3>1, <3>2, <3>3 DEF Available
    <2> QED BY <2>1, <2>2
  <1>11. CASE Unmask
    BY <1>11 DEF Unmask, lineVars, indexVars, taskVars, TaskLevel
  <1>12. CASE Check
    BY <1>12 DEF Check, lineVars, indexVars, taskVars, TaskLevel
  <1>13. CASE TimeOut
    BY <1>13 DEF TimeOut, lineVars, indexVars, taskVars, TaskLevel
  <1>14. CASE StartClear
    BY <1>14 DEF StartClear, lineVars, indexVars, taskVars, TaskLevel
  <1>15. CASE ClearErr
    BY <1>15 DEF ClearErr, lineVars, indexVars, taskVars, TaskLevel
  <1>16. CASE ClearRead
    BY <1>16 DEF ClearRead, lineVars, indexVars, taskVars, TaskLevel
  <1>17. CASE ClearCount
    BY <1>17 DEF ClearCount, lineVars, indexVars, taskVars, TaskLevel
  <1>18. CASE ClearWrite
    BY <1>18 DEF ClearWrite, lineVars, indexVars, taskVars, TaskLevel
  <1>19. CASE ClearSem
    BY <1>19 DEF ClearSem, lineVars, indexVars, taskVars, TaskLevel
  <1>20. CASE UNCHANGED vars
    BY <1>20 DEF vars, indexVars, taskVars
  <1> QED
    BY <1>1, <1>2, <1>3, <1>4, <1>5, <1>6, <1>7, <1>8, <1>9, <1>10,
       <1>11, <1>12, <1>13, <1>14, <1>15, <1>16, <1>17, <1>18, <1>19, <1>20
    DEF Next, Isr, Reading, Clear

\* The invariant holds initially.
LEMMA InitIInv == Init => IInv
  BY BufferAssumption DEF Init, IInv, TypeOK, CountMatches, Wrapped, Distance, Clearing

-----------------------------------------------------------------------------
\* The inductive invariant: handler and task agree on the buffer's state.
THEOREM Invariance == Spec => []IInv
  BY InitIInv, IndexStep, PTL DEF Spec

\* No index leaves the buffer and the count stays between 0 and the length,
\* also after a clear that raced with the handler.
THEOREM TypeCorrect == Spec => []TypeOK
  <1>1. IInv => TypeOK
    BY DEF IInv
  <1> QED BY <1>1, Invariance, PTL

\* usCharCount is the distance between the indices unless a clear raced.
THEOREM CountAlwaysMatches == Spec => []CountMatches
  <1>1. IInv => CountMatches
    BY DEF IInv
  <1> QED BY <1>1, Invariance, PTL

\* The assertion in the reader holds when the buffer is not full.
THEOREM AvailableAwayFromFull == Spec => []AvailableUnlessFull
  <1> USE BufferAssumption
  <1>1. ASSUME IInv PROVE AvailableUnlessFull
    <2> SUFFICES ASSUME ~raced, count < BufLen, count > 0, pc \in {"attempt1", "attempt2"}
                 PROVE  Chunk > 0
      BY DEF AvailableUnlessFull, AssertBytesAvailable
    <2>1. /\ rd \in Nat /\ wr \in Nat /\ count \in Nat
          /\ rd < BufLen /\ wr < BufLen
      BY <1>1 DEF IInv, TypeOK
    <2>2. wr = Wrapped(rd + count)
      BY <1>1 DEF IInv, CountMatches
    <2>3. want \in Nat /\ Len(out) \in Nat /\ Len(out) < want
      BY <1>1 DEF IInv, TypeOK
    <2> QED BY <2>1, <2>2, <2>3 DEF Chunk, Available, Wrapped
  <1> QED BY <1>1, Invariance, PTL

-----------------------------------------------------------------------------
(* The buffer as a queue *)

\* The content is a sequence of bytes, as long as the count says.
LEMMA ContentIsSeq ==
  ASSUME TypeOK
  PROVE  /\ Content \in Seq(Bytes) /\ Len(Content) = count /\ DOMAIN Content = 1..count
         /\ \A j \in 1..count : Content[j] = buf[Wrapped(rd + j - 1)]
  <1> USE BufferAssumption
  <1> DEFINE byte(j) == buf[Wrapped(rd + j - 1)]
  <1>1. \A j \in 1..count : Wrapped(rd + j - 1) \in 0..(BufLen - 1)
    BY DEF TypeOK, Wrapped
  <1>2. \A j \in 1..count : byte(j) \in Bytes
    BY <1>1 DEF TypeOK
  <1>3. Content = [j \in 1..count |-> byte(j)] /\ count \in Nat
    BY DEF Content, TypeOK
  <1> HIDE DEF byte
  <1>4. [j \in 1..count |-> byte(j)] \in Seq(Bytes)
    BY <1>2, <1>3
  <1>5. Content \in Seq(Bytes) /\ Len(Content) = count /\ DOMAIN Content = 1..count
    BY <1>3, <1>4
  <1>6. \A j \in 1..count : Content[j] = byte(j)
    BY <1>3
  <1> QED BY <1>5, <1>6 DEF byte

\* A byte the handler stores goes behind all others.
LEMMA StoreAppends ==
  ASSUME IInv, ~raced, pc \notin Clearing, IsrStore
  PROVE  Content' = Append(Content, dr)
  <1> USE BufferAssumption
  <1>1. /\ rd \in Nat /\ wr \in Nat /\ count \in Nat /\ count < BufLen
        /\ rd < BufLen /\ wr < BufLen /\ wr = Wrapped(rd + count)
        /\ buf \in [0..(BufLen - 1) -> Bytes]
    BY DEF IInv, TypeOK, CountMatches, Clearing, IsrStore
  <1>2. rd' = rd /\ count' = count + 1 /\ buf' = [buf EXCEPT ![wr] = dr]
    BY DEF IsrStore
  <1> DEFINE stored == [j \in 1..(count + 1) |-> buf'[Wrapped(rd + j - 1)]]
  <1>3. Content' = stored
    BY <1>2 DEF Content, Wrapped
  <1>4. /\ DOMAIN Content = 1..count
        /\ Append(Content, dr) = [j \in 1..(count + 1) |-> IF j <= count THEN Content[j] ELSE dr]
    <2>1. Content \in Seq(Bytes) /\ Len(Content) = count /\ DOMAIN Content = 1..count
      BY ContentIsSeq DEF IInv
    <2> HIDE DEF Content
    <2>2. dr \in Bytes
      BY DEF IInv, TypeOK
    <2> DEFINE app == Append(Content, dr)
    <2>3. /\ app \in Seq(Bytes) /\ Len(app) = count + 1
          /\ \A j \in 1..count : app[j] = Content[j]
          /\ app[count + 1] = dr
      BY <2>1, <2>2, AppendProperties
    <2> HIDE DEF app
    <2>4. DOMAIN app = 1..(count + 1)
      BY <2>3, LenProperties
    <2>5. app = [j \in 1..(count + 1) |-> app[j]]
      BY <2>3, <2>4
    <2>6. \A j \in 1..(count + 1) : app[j] = IF j <= count THEN Content[j] ELSE dr
      BY <1>1, <2>3
    <2> QED BY <2>1, <2>5, <2>6 DEF app
  <1>5. \A j \in 1..(count + 1) : stored[j] = IF j <= count THEN Content[j] ELSE dr
    <2> TAKE j \in 1..(count + 1)
    <2>1. CASE j <= count
      <3>1. Wrapped(rd + j - 1) \in 0..(BufLen - 1) /\ Wrapped(rd + j - 1) # wr
        BY <1>1, <2>1 DEF Wrapped
      <3>2. Content[j] = buf[Wrapped(rd + j - 1)]
        BY <1>1, <2>1 DEF Content
      <3> QED BY <1>1, <1>2, <2>1, <3>1, <3>2
    <2>2. CASE j = count + 1
      <3>1. Wrapped(rd + j - 1) = wr /\ wr \in 0..(BufLen - 1)
        BY <1>1, <2>2 DEF Wrapped
      <3> QED BY <1>1, <1>2, <2>2, <3>1
    <2> QED BY <1>1, <2>1, <2>2
  <1> QED BY <1>3, <1>4, <1>5

\* What one copy adds to the result leaves the front of the buffer; a copy of
\* nothing leaves both as they are.
LEMMA AttemptTakes ==
  ASSUME IInv, Attempt
  PROVE  \/ Content' = Content /\ out' = out
         \/ \E n \in 1..count : /\ out' = out \o SubSeq(Content, 1, n)
                               /\ Content' = SubSeq(Content, n + 1, count)
  <1> USE BufferAssumption
  <1>1. /\ rd \in Nat /\ wr \in Nat /\ count \in Nat /\ count <= BufLen
        /\ rd < BufLen /\ wr < BufLen /\ out \in Seq(Bytes)
        /\ buf \in [0..(BufLen - 1) -> Bytes]
    BY DEF IInv, TypeOK
  <1>2. /\ Chunk \in Nat /\ rd + Chunk <= BufLen /\ Chunk <= count
    BY ChunkBound DEF IInv, Attempt
  <1>3. CASE count = 0
    BY <1>3 DEF Attempt, Content, Wrapped
  <1>4. ASSUME count # 0
        PROVE  /\ out' = out \o [j \in 1..Chunk |-> buf[rd + j - 1]]
               /\ count' = count - Chunk /\ buf' = buf
               /\ rd' = IF rd + Chunk = BufLen THEN 0 ELSE rd + Chunk
    BY <1>4 DEF Attempt
  <1>5. CASE count # 0 /\ Chunk = 0
    <2>1. [j \in 1..Chunk |-> buf[rd + j - 1]] = <<>>
      BY <1>5
    <2>2. out' = out
      BY <1>1, <1>4, <1>5, <2>1
    <2>3. Content' = Content
      BY <1>1, <1>4, <1>5 DEF Content, Wrapped
    <2> QED BY <2>2, <2>3
  <1>6. CASE count # 0 /\ Chunk # 0
    <2>1. /\ Content \in Seq(Bytes) /\ Len(Content) = count
          /\ \A j \in 1..count : Content[j] = buf[Wrapped(rd + j - 1)]
      BY ContentIsSeq DEF IInv
    <2>2. SubSeq(Content, 1, Chunk) = [j \in 1..Chunk |-> buf[rd + j - 1]]
      <3>1. \A j \in 1..Chunk : Content[j] = buf[rd + j - 1]
        BY <1>1, <1>2, <2>1 DEF Wrapped
      <3> HIDE DEF Content, Chunk
      <3>2. SubSeq(Content, 1, Chunk) = [j \in 1..Chunk |-> Content[j]]
        BY <1>1, <1>2, <1>6, <2>1
      <3> QED BY <3>1, <3>2
    <2>3. Content' = [j \in 1..(count - Chunk) |-> buf[Wrapped(rd + Chunk + j - 1)]]
      <3>1. \A j \in 1..(count - Chunk) :
              Wrapped(rd' + j - 1) = Wrapped(rd + Chunk + j - 1)
        BY <1>1, <1>2, <1>4, <1>6 DEF Wrapped
      <3>2. Content' = [j \in 1..(count - Chunk) |-> buf[Wrapped(rd' + j - 1)]]
        BY <1>4, <1>6 DEF Content, Wrapped
      <3> QED BY <3>1, <3>2
    <2>4. SubSeq(Content, Chunk + 1, count)
            = [j \in 1..(count - Chunk) |-> buf[Wrapped(rd + Chunk + j - 1)]]
      <3>1. \A j \in 1..(count - Chunk) :
              Content[Chunk + j] = buf[Wrapped(rd + Chunk + j - 1)]
        <4> TAKE j \in 1..(count - Chunk)
        <4>1. Chunk + j \in 1..count /\ rd + Chunk + j - 1 = rd + (Chunk + j) - 1
          BY <1>1, <1>2
        <4> QED BY <2>1, <4>1
      <3> HIDE DEF Content, Chunk
      <3>2. SubSeq(Content, Chunk + 1, count)
              = [j \in 1..(count - (Chunk + 1) + 1) |-> Content[(Chunk + 1) + j - 1]]
        BY <1>1, <1>2, <1>6, <2>1
      <3>3. /\ count - (Chunk + 1) + 1 = count - Chunk
            /\ \A j \in 1..(count - Chunk) : (Chunk + 1) + j - 1 = Chunk + j
        BY <1>1, <1>2
      <3> QED BY <3>1, <3>2, <3>3
    <2>5. out' = out \o SubSeq(Content, 1, Chunk)
      BY <1>4, <1>6, <2>2
    <2>6. Content' = SubSeq(Content, Chunk + 1, count) /\ Chunk \in 1..count
      BY <1>1, <1>2, <1>6, <2>3, <2>4
    <2> QED BY <2>5, <2>6
  <1> QED BY <1>3, <1>5, <1>6

\* Every step but a clear's treats the buffer as a queue.
LEMMA QueueStep ==
  ASSUME IInv, [Next]_vars, ~raced, pc \notin Clearing
  PROVE  \/ Content' = Content /\ out' \in {out, <<>>}
         \/ Content' = Append(Content, dr) /\ rxne /\ ~rxne' /\ out' = out
         \/ \E n \in 1..count :
              /\ out' = out \o SubSeq(Content, 1, n)
              /\ Content' = SubSeq(Content, n + 1, count)
  <1>1. CASE IsrStore
    <2>1. rxne /\ ~rxne' /\ out' = out
      BY <1>1 DEF IsrStore, taskVars
    <2> QED BY <1>1, <2>1, StoreAppends
  <1>2. CASE Attempt
    BY <1>2, AttemptTakes
  <1>3. ASSUME buf' = buf, rd' = rd, count' = count
        PROVE  Content' = Content
    BY <1>3 DEF Content, Wrapped
  <1>4. CASE ByteArrives \/ IsrEnter \/ IsrOverrun \/ IsrGive \/ IsrClear
    BY <1>3, <1>4 DEF ByteArrives, IsrEnter, IsrOverrun, IsrGive, IsrClear, indexVars, taskVars
  <1>5. CASE StartRead \/ Take \/ Mask \/ Unmask \/ Check \/ TimeOut \/ StartClear
    BY <1>3, <1>5 DEF StartRead, Take, Mask, Unmask, Check, TimeOut, StartClear, indexVars
  <1>6. CASE UNCHANGED vars
    BY <1>3, <1>6 DEF vars, indexVars, taskVars
  <1>7. ~Clear
    BY DEF Clear, ClearErr, ClearRead, ClearCount, ClearWrite, ClearSem, Clearing
  <1> QED BY <1>1, <1>2, <1>4, <1>5, <1>6, <1>7 DEF Next, Isr, Reading

\* The buffer is a queue of the bytes the receiver has read, in their order,
\* for every length: the handler appends, the reader takes from the front.
THEOREM BufferIsQueue == Spec => QueueOfBytes
  <1>1. IInv /\ [Next]_vars =>
          [~raced /\ pc \notin Clearing =>
             \/ Content' = Content /\ out' \in {out, <<>>}
             \/ Content' = Append(Content, dr) /\ rxne /\ ~rxne' /\ out' = out
             \/ \E n \in 1..count :
                  /\ out' = out \o SubSeq(Content, 1, n)
                  /\ Content' = SubSeq(Content, n + 1, count)]_vars
    BY QueueStep
  <1> QED BY <1>1, Invariance, PTL DEF Spec, QueueOfBytes
=============================================================================
