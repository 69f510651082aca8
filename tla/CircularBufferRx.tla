-------------------------- MODULE CircularBufferRx --------------------------
(***************************************************************************)
(* Interrupt driven reception of the UART driver of FreeRTOS+IO: the       *)
(* receiver, the interrupt handler that moves bytes into the circular      *)
(* buffer and gives a counting semaphore, and one task that reads from the *)
(* buffer and at times clears it.                                          *)
(*                                                                         *)
(* The handler preempts the task between any two of its steps; while the   *)
(* task copies, the receive interrupt is masked in the UART. The indices   *)
(* count from 0, as in the code.                                           *)
(***************************************************************************)
EXTENDS Naturals, Sequences

CONSTANTS
  BufLen,      \* usBufferLength
  Bytes,       \* the values a byte may have
  MaxBytes,    \* bound: the longest read
  MaxSem,      \* bound: no byte arrives when the semaphore counts this much
  RxneEnabled, \* the receive interrupt is enabled before the first read
  MayTimeOut   \* xBlockTime is finite

ASSUME BufferAssumption ==
  /\ BufLen \in Nat \ {0} /\ MaxBytes \in Nat \ {0} /\ MaxSem \in Nat
  /\ Bytes # {} /\ RxneEnabled \in BOOLEAN /\ MayTimeOut \in BOOLEAN

VARIABLES
  dr, rxne, ore,  \* the receiver: data register, RXNE, overrun
  ie,             \* RXNEIE
  isr,            \* position in UART_IRQHandler
  buf, rd, wr,    \* pucBufferStart, usNextReadIndex, usNextWriteIndex
  count,          \* usCharCount
  err,            \* usErrorState
  sem,            \* xNewDataSemaphore
  pc,             \* position of the task
  want,           \* xBytes of the read in progress
  out,            \* the bytes it has received
  raced           \* since the last clear, a byte was stored in the middle of it

lineVars == <<dr, rxne, ore>>
indexVars == <<rd, wr, count>>
taskVars == <<pc, want, out>>
vars == <<lineVars, ie, isr, buf, indexVars, err, sem, taskVars, raced>>

Clearing == {"clr_err", "clr_read", "clr_count", "clr_write", "clr_sem"}

\* After xIOUtilsConfigureCircularBufferRx and the ioctl that enables the
\* interrupt in the NVIC. Neither the driver's open nor its ioctl enables
\* RXNEIE: where it is set, the application has done so.
Init ==
  /\ dr \in Bytes /\ rxne = FALSE /\ ore = FALSE
  /\ ie = RxneEnabled /\ isr = "idle"
  /\ buf \in [0..(BufLen - 1) -> Bytes]
  /\ rd = 0 /\ wr = 0 /\ count = 0
  /\ err = FALSE /\ sem = 0
  /\ pc = "away" /\ want = 1 /\ out = <<>> /\ raced = FALSE

-----------------------------------------------------------------------------
(* The receiver *)

\* A byte that finds the data register full is lost.
ByteArrives ==
  /\ sem < MaxSem
  /\ dr' \in (IF rxne THEN {dr} ELSE Bytes)
  /\ rxne' = TRUE /\ ore' = (ore \/ rxne)
  /\ UNCHANGED <<ie, isr, buf, indexVars, err, sem, taskVars, raced>>

-----------------------------------------------------------------------------
(* UART_IRQHandler *)

\* An overrun raises the same interrupt; the handler then returns at once and
\* is entered again, because only reading the data register clears it.
TaskLevel == isr = "idle" /\ ~(ie /\ (rxne \/ ore))

IsrEnter ==
  /\ isr = "idle" /\ ie /\ rxne
  /\ isr' = "loop"
  /\ UNCHANGED <<lineVars, ie, buf, indexVars, err, sem, taskVars, raced>>

\* Variant: usCharCount is not incremented.
IsrStoreUncounted ==
  /\ isr = "loop" /\ rxne /\ count < BufLen
  /\ buf' = [buf EXCEPT ![wr] = dr]
  /\ wr' = IF wr + 1 = BufLen THEN 0 ELSE wr + 1
  /\ rxne' = FALSE /\ ore' = FALSE
  /\ raced' = (raced \/ pc = "clr_write")
  /\ UNCHANGED <<dr, ie, isr, rd, count, err, sem, taskVars>>

\* One turn of the loop. The write index is shared with a clear in progress:
\* a byte stored after the count is cleared and before the index is loses it.
IsrStore ==
  /\ isr = "loop" /\ rxne /\ count < BufLen
  /\ buf' = [buf EXCEPT ![wr] = dr]
  /\ wr' = IF wr + 1 = BufLen THEN 0 ELSE wr + 1
  /\ count' = count + 1
  /\ rxne' = FALSE /\ ore' = FALSE
  /\ raced' = (raced \/ pc = "clr_write")
  /\ UNCHANGED <<dr, ie, isr, rd, err, sem, taskVars>>

\* The buffer is full: nothing reads the data register, so the loop goes on.
IsrOverrun ==
  /\ isr = "loop" /\ rxne /\ count >= BufLen
  /\ err' = TRUE
  /\ UNCHANGED <<lineVars, ie, isr, buf, indexVars, sem, taskVars, raced>>

\* Variant: the semaphore is not given.
IsrGiveForgets ==
  /\ isr = "loop" /\ ~rxne
  /\ isr' = "clear"
  /\ UNCHANGED <<lineVars, ie, buf, indexVars, err, sem, taskVars, raced>>

\* One give, however many bytes the loop has stored.
IsrGive ==
  /\ isr = "loop" /\ ~rxne
  /\ sem' = sem + 1
  /\ isr' = "clear"
  /\ UNCHANGED <<lineVars, ie, buf, indexVars, err, taskVars, raced>>

\* USART_ClearITPendingBit: a byte that has arrived since is forgotten.
IsrClear ==
  /\ isr = "clear"
  /\ rxne' = FALSE
  /\ isr' = "idle"
  /\ UNCHANGED <<dr, ore, ie, buf, indexVars, err, sem, taskVars, raced>>

-----------------------------------------------------------------------------
(* ioutilsRECEIVE_CHARS_FROM_CIRCULAR_BUFFER *)

StartRead ==
  /\ TaskLevel /\ pc = "away"
  /\ want' \in 1..MaxBytes
  /\ out' = <<>> /\ pc' = "take"
  /\ UNCHANGED <<lineVars, ie, isr, buf, indexVars, err, sem, raced>>

Take ==
  /\ TaskLevel /\ pc = "take" /\ sem > 0
  /\ sem' = sem - 1 /\ pc' = "mask"
  /\ UNCHANGED <<lineVars, ie, isr, buf, indexVars, err, want, out, raced>>

Mask ==                         \* xPeripheralDisable
  /\ TaskLevel /\ pc = "mask"
  /\ ie' = FALSE /\ pc' = "attempt1"
  /\ UNCHANGED <<lineVars, isr, buf, indexVars, err, sem, want, out, raced>>

\* Bytes from the read index on that one memcpy may take: up to the write
\* index, or up to the end of the buffer.
Available == IF rd <= wr THEN wr - rd ELSE BufLen - rd

Chunk == IF Available > want - Len(out) THEN want - Len(out) ELSE Available

\* Variant: the read index runs past the end.
AttemptNoWrap ==
  /\ TaskLevel /\ pc \in {"attempt1", "attempt2"}
  /\ IF count = 0 THEN UNCHANGED <<out, rd, count>>
     ELSE /\ out' = out \o [j \in 1..Chunk |-> buf[rd + j - 1]]
          /\ count' = count - Chunk
          /\ rd' = rd + Chunk
  /\ pc' = IF count > 0 /\ Len(out') < want /\ pc = "attempt1"
           THEN "attempt2" ELSE "unmask"
  /\ UNCHANGED <<lineVars, ie, isr, buf, wr, err, sem, want, raced>>

\* Variant: the copy does not start where the attempt before it ended.
AttemptInFront ==
  /\ TaskLevel /\ pc \in {"attempt1", "attempt2"}
  /\ IF count = 0 THEN UNCHANGED <<out, rd, count>>
     ELSE /\ out' = [j \in 1..Chunk |-> buf[rd + j - 1]] \o out
          /\ count' = count - Chunk
          /\ rd' = IF rd + Chunk = BufLen THEN 0 ELSE rd + Chunk
  /\ pc' = IF count > 0 /\ Len(out') < want /\ pc = "attempt1"
           THEN "attempt2" ELSE "unmask"
  /\ UNCHANGED <<lineVars, ie, isr, buf, wr, err, sem, want, raced>>

\* Variant: usCharCount is not decremented.
AttemptUncounted ==
  /\ TaskLevel /\ pc \in {"attempt1", "attempt2"}
  /\ IF count = 0 THEN UNCHANGED <<out, rd>>
     ELSE /\ out' = out \o [j \in 1..Chunk |-> buf[rd + j - 1]]
          /\ rd' = IF rd + Chunk = BufLen THEN 0 ELSE rd + Chunk
  /\ pc' = IF count > 0 /\ Len(out') < want /\ pc = "attempt1"
           THEN "attempt2" ELSE "unmask"
  /\ UNCHANGED <<lineVars, ie, isr, buf, wr, count, err, sem, want, raced>>

\* One attempt of xIOUtilsReadCharsFromCircularBuffer.
Attempt ==
  /\ TaskLevel /\ pc \in {"attempt1", "attempt2"}
  /\ IF count = 0 THEN UNCHANGED <<out, rd, count>>
     ELSE /\ out' = out \o [j \in 1..Chunk |-> buf[rd + j - 1]]
          /\ count' = count - Chunk
          /\ rd' = IF rd + Chunk = BufLen THEN 0 ELSE rd + Chunk
  /\ pc' = IF count > 0 /\ Len(out') < want /\ pc = "attempt1"
           THEN "attempt2" ELSE "unmask"
  /\ UNCHANGED <<lineVars, ie, isr, buf, wr, err, sem, want, raced>>

Unmask ==                       \* xPeripheralEnable
  /\ TaskLevel /\ pc = "unmask"
  /\ ie' = TRUE /\ pc' = "check"
  /\ UNCHANGED <<lineVars, isr, buf, indexVars, err, sem, want, out, raced>>

\* xTaskCheckForTimeOut, then the condition of the loop.
Check ==
  /\ TaskLevel /\ pc = "check"
  /\ pc' = IF Len(out) < want THEN "take" ELSE "away"
  /\ UNCHANGED <<lineVars, ie, isr, buf, indexVars, err, sem, want, out, raced>>

TimeOut ==
  /\ TaskLevel /\ MayTimeOut
  /\ pc = "check" \/ (pc = "take" /\ sem = 0)
  /\ pc' = "away"
  /\ UNCHANGED <<lineVars, ie, isr, buf, indexVars, err, sem, want, out, raced>>

-----------------------------------------------------------------------------
(* vIOUtilsClearRxCircularBuffer, by ioctlCLEAR_RX_BUFFER: nothing is masked *)

StartClear ==
  /\ TaskLevel /\ pc = "away"
  /\ pc' = "clr_err"
  /\ UNCHANGED <<lineVars, ie, isr, buf, indexVars, err, sem, want, out, raced>>

ClearErr ==
  /\ TaskLevel /\ pc = "clr_err"
  /\ err' = FALSE /\ pc' = "clr_read"
  /\ UNCHANGED <<lineVars, ie, isr, buf, indexVars, sem, want, out, raced>>

\* Variant: the read index is not reset.
ClearReadForgets ==
  /\ TaskLevel /\ pc = "clr_read"
  /\ pc' = "clr_count" /\ raced' = FALSE
  /\ UNCHANGED <<lineVars, ie, isr, buf, indexVars, err, sem, want, out>>

ClearRead ==
  /\ TaskLevel /\ pc = "clr_read"
  /\ rd' = 0 /\ pc' = "clr_count" /\ raced' = FALSE
  /\ UNCHANGED <<lineVars, ie, isr, buf, wr, count, err, sem, want, out>>

ClearCount ==
  /\ TaskLevel /\ pc = "clr_count"
  /\ count' = 0 /\ pc' = "clr_write"
  /\ UNCHANGED <<lineVars, ie, isr, buf, rd, wr, err, sem, want, out, raced>>

ClearWrite ==
  /\ TaskLevel /\ pc = "clr_write"
  /\ wr' = 0 /\ pc' = "clr_sem"
  /\ UNCHANGED <<lineVars, ie, isr, buf, rd, count, err, sem, want, out, raced>>

\* One take without waiting, whatever the semaphore counts.
ClearSem ==
  /\ TaskLevel /\ pc = "clr_sem"
  /\ sem' = IF sem = 0 THEN 0 ELSE sem - 1
  /\ pc' = "away"
  /\ UNCHANGED <<lineVars, ie, isr, buf, indexVars, err, want, out, raced>>

-----------------------------------------------------------------------------
Isr == IsrEnter \/ IsrStore \/ IsrOverrun \/ IsrGive \/ IsrClear
Reading == Take \/ Mask \/ Attempt \/ Unmask \/ Check
Clear == ClearErr \/ ClearRead \/ ClearCount \/ ClearWrite \/ ClearSem

Next == ByteArrives \/ Isr \/ StartRead \/ Reading \/ TimeOut \/ StartClear \/ Clear

Spec == Init /\ [][Next]_vars

\* The handler and the task run; nothing makes a byte arrive or a call begin,
\* and no property counts on a time-out.
FairSpec == Spec /\ WF_vars(Isr) /\ WF_vars(Reading) /\ WF_vars(Clear)

-----------------------------------------------------------------------------
(* Properties *)

\* Types and ranges: no index ever leaves the buffer.
TypeOK ==
  /\ dr \in Bytes /\ rxne \in BOOLEAN /\ ore \in BOOLEAN /\ ie \in BOOLEAN
  /\ isr \in {"idle", "loop", "clear"}
  /\ buf \in [0..(BufLen - 1) -> Bytes]
  /\ rd \in 0..(BufLen - 1) /\ wr \in 0..(BufLen - 1) /\ count \in 0..BufLen
  /\ err \in BOOLEAN /\ sem \in Nat
  /\ pc \in {"away", "take", "mask", "attempt1", "attempt2", "unmask", "check"} \cup Clearing
  /\ want \in 1..MaxBytes /\ out \in Seq(Bytes) /\ Len(out) <= want
  /\ raced \in BOOLEAN

\* Position n of a buffer without end.
Wrapped(n) == IF n < BufLen THEN n ELSE n - BufLen

\* The count, which the handler and the task both update, is always the
\* distance between the indices, unless a byte came in the middle of a clear.
CountMatches ==
  ~raced /\ pc \notin {"clr_count", "clr_write"} => wr = Wrapped(rd + count)

\* The bytes in the buffer, oldest first.
Content == [j \in 1..count |-> buf[Wrapped(rd + j - 1)]]

\* The buffer is a queue: the handler appends the byte in the data register,
\* the reader takes from the front what it adds to its result, and only a
\* clear does anything else.
QueueOfBytes ==
  [][~raced /\ pc \notin Clearing =>
       \/ Content' = Content /\ out' \in {out, <<>>}
       \/ Content' = Append(Content, dr) /\ rxne /\ ~rxne' /\ out' = out
       \/ \E n \in 1..count :
            /\ out' = out \o SubSeq(Content, 1, n)
            /\ Content' = SubSeq(Content, n + 1, count)]_vars

\* The assertion in the reader: when the count says that there are bytes,
\* there are bytes to copy.
AssertBytesAvailable ==
  pc \in {"attempt1", "attempt2"} /\ count > 0 => Chunk > 0

\* It holds while the buffer is not full and no clear was interrupted.
AvailableUnlessFull == ~raced /\ count < BufLen => AssertBytesAvailable

\* The handler returns, unless it finds the buffer full.
HandlerReturns == isr = "loop" ~> isr = "idle" \/ count = BufLen

\* A task that waits gets a byte once the next one arrives, unless the buffer
\* is full, a clear was interrupted, the wait times out, or an overrun outlives
\* the byte that caused it: the handler is then entered for ever.
ReaderIsServed ==
  \A n \in 0..(MaxBytes - 1) :
    pc = "take" /\ rxne /\ Len(out) = n
      ~> Len(out) > n \/ pc = "away" \/ count = BufLen \/ raced \/ (ore /\ ~rxne)
=============================================================================
