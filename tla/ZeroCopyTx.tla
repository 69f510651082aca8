----------------------------- MODULE ZeroCopyTx -----------------------------
(***************************************************************************)
(* Zero copy transmission of the UART driver of FreeRTOS+IO: tasks that    *)
(* obtain the write mutex, hand a buffer to the transmit DMA, wait for an  *)
(* earlier write or release the mutex, and the transmission complete       *)
(* interrupt, which gives the mutex back.                                  *)
(*                                                                         *)
(* Tasks preempt each other by priority between any two of their steps.    *)
(* Tasks of one priority do not share time, but the kernel may go on with  *)
(* the other one after a preemption: they interleave freely here.          *)
(***************************************************************************)
EXTENDS Naturals

CONSTANTS
  Tasks,
  Prio,        \* their priorities
  Size,        \* bytes per write
  FullAssert   \* configASSERT evaluates its argument and halts

ASSUME WriterAssumption ==
  /\ Tasks # {} /\ Prio \in [Tasks -> Nat]
  /\ Size \in Nat \ {0} /\ FullAssert \in BOOLEAN

NoTask == "none"

VARIABLES
  mutex,    \* xWriteAccessMutex, a binary semaphore, is available
  owner,    \* xTask
  pc,       \* position of each task
  src,      \* the task whose buffer the DMA stream reads
  left,     \* bytes of it that are not on the line yet
  dmat,     \* DMAT: the UART requests bytes from the stream
  tc, tcie, \* transmission complete, its interrupt enable
  isr,      \* position in UART_IRQHandler
  raced     \* a task took the mutex while another was about to change its state

lineVars == <<src, left, dmat>>
irqVars == <<tc, tcie, isr>>
vars == <<mutex, owner, pc, lineVars, irqVars, raced>>

Outside == {"away", "held", "halted"}
Obtaining == {"obtain", "await"}
\* Between giving the mutex and the last access to the state it protects.
Leaving == {"wait_clear", "rel_clear", "tx_clear", "tx_retake"}
Writing == {"tx_assert", "tx_off", "tx_flag", "tx_test", "tx_dma", "tx_go", "tx_give"}

\* After xIOUtilsConfigureZeroCopyTx: the semaphore is created and given.
Init ==
  /\ mutex = TRUE /\ owner = NoTask
  /\ pc = [t \in Tasks |-> "away"]
  /\ src \in Tasks /\ left = 0 /\ dmat = FALSE
  /\ tc = TRUE /\ tcie = FALSE /\ isr = "idle"
  /\ raced = FALSE

-----------------------------------------------------------------------------
(* The CPU *)

\* A failed assertion disables interrupts and loops.
Alive == \A t \in Tasks : pc[t] # "halted"

\* Inside the driver and not blocked on the mutex.
Ready(t) == pc[t] \notin Outside /\ (pc[t] \in Obtaining => mutex)

\* t may be the running task.
Runs(t) ==
  /\ Alive /\ isr = "idle" /\ ~(tc /\ tcie)
  /\ \A u \in Tasks : Ready(u) => Prio[u] <= Prio[t]

Goto(t, here, next) == pc[t] = here /\ pc' = [pc EXCEPT ![t] = next]

-----------------------------------------------------------------------------
(* The line *)

DmaByte ==
  /\ Alive /\ dmat /\ left > 0
  /\ left' = left - 1
  /\ tc' = (left = 1)
  /\ UNCHANGED <<mutex, owner, pc, src, dmat, tcie, isr, raced>>

-----------------------------------------------------------------------------
(* UART_IRQHandler, transmission complete *)

IsrGive ==
  /\ Alive /\ isr = "idle" /\ tc /\ tcie
  /\ mutex' = TRUE /\ isr' = "clear"
  /\ UNCHANGED <<owner, pc, lineVars, tc, tcie, raced>>

IsrClear ==
  /\ Alive /\ isr = "clear"
  /\ tc' = FALSE /\ isr' = "idle"
  /\ UNCHANGED <<mutex, owner, pc, lineVars, tcie, raced>>

-----------------------------------------------------------------------------
(* ioctlOBTAIN_WRITE_MUTEX, ioctlWAIT_PREVIOUS_WRITE_COMPLETE and           *)
(* ioctlRELEASE_WRITE_MUTEX                                                 *)

StartObtain(t) ==
  /\ pc[t] = "away" /\ Runs(t)
  /\ \E next \in Obtaining : Goto(t, "away", next)
  /\ UNCHANGED <<mutex, owner, lineVars, irqVars, raced>>

\* xSemaphoreTake returns pdPASS.
Take(t) ==
  /\ mutex
  /\ Goto(t, "obtain", "obt_record") \/ Goto(t, "await", "wait_record")
  /\ Runs(t)
  /\ mutex' = FALSE
  /\ raced' = (raced \/ \E u \in Tasks : pc[u] \in Leaving)
  /\ UNCHANGED <<owner, lineVars, irqVars>>

\* xMaxWaitTime is over.
TimeOut(t) ==
  /\ ~mutex
  /\ \E here \in Obtaining : Goto(t, here, "away")
  /\ Runs(t)
  /\ UNCHANGED <<mutex, owner, lineVars, irqVars, raced>>

\* Variant: the task that obtains the mutex is not recorded.
RecordForgets(t) ==
  /\ Goto(t, "obt_record", "held") \/ Goto(t, "wait_record", "wait_give")
  /\ Runs(t)
  /\ UNCHANGED <<mutex, owner, lineVars, irqVars, raced>>

\* xTask becomes the task; who only waited goes on to give the mutex back.
Record(t) ==
  /\ Goto(t, "obt_record", "held") \/ Goto(t, "wait_record", "wait_give")
  /\ Runs(t)
  /\ owner' = t
  /\ UNCHANGED <<mutex, lineVars, irqVars, raced>>

WaitGive(t) ==
  /\ Goto(t, "wait_give", "wait_clear") /\ Runs(t)
  /\ mutex' = TRUE
  /\ UNCHANGED <<owner, lineVars, irqVars, raced>>

WaitClear(t) ==
  /\ Goto(t, "wait_clear", "away") /\ Runs(t)
  /\ owner' = NoTask
  /\ UNCHANGED <<mutex, lineVars, irqVars, raced>>

ReleaseGive(t) ==
  /\ Goto(t, "held", "rel_clear") /\ Runs(t)
  /\ mutex' = TRUE
  /\ UNCHANGED <<owner, lineVars, irqVars, raced>>

ReleaseClear(t) ==
  /\ Goto(t, "rel_clear", "away") /\ Runs(t)
  /\ owner' = NoTask
  /\ UNCHANGED <<mutex, lineVars, irqVars, raced>>

-----------------------------------------------------------------------------
(* FreeRTOS_UART_write, by a task that has obtained the mutex *)

StartWrite(t) ==
  /\ Goto(t, "held", "tx_assert") /\ Runs(t)
  /\ UNCHANGED <<mutex, owner, lineVars, irqVars, raced>>

\* The assertion that the mutex cannot be taken, evaluated by taking it.
TxAssert(t) ==
  /\ pc[t] = "tx_assert" /\ Runs(t)
  /\ IF FullAssert /\ mutex
     THEN Goto(t, "tx_assert", "halted") /\ mutex' = FALSE /\ owner' = t
     ELSE Goto(t, "tx_assert", "tx_off") /\ UNCHANGED <<mutex, owner>>
  /\ UNCHANGED <<lineVars, irqVars, raced>>

TxOff(t) ==                     \* USART_ITConfig(TC, DISABLE)
  /\ Goto(t, "tx_off", "tx_flag") /\ Runs(t)
  /\ tcie' = FALSE
  /\ UNCHANGED <<mutex, owner, lineVars, tc, isr, raced>>

TxFlag(t) ==                    \* USART_ClearFlag, USART_ClearITPendingBit
  /\ Goto(t, "tx_flag", "tx_test") /\ Runs(t)
  /\ tc' = FALSE
  /\ UNCHANGED <<mutex, owner, lineVars, tcie, isr, raced>>

\* Whoever is not the recorded owner sends nothing and returns zero.
TxTest(t) ==
  /\ Goto(t, "tx_test", IF owner = t THEN "tx_dma" ELSE "tx_retake") /\ Runs(t)
  /\ UNCHANGED <<mutex, owner, lineVars, irqVars, raced>>

\* Variant: the stream is given one byte too many.
TxDmaLong(t) ==
  /\ Goto(t, "tx_dma", "tx_go") /\ Runs(t)
  /\ src' = t /\ left' = Size + 1 /\ dmat' = FALSE
  /\ tc' = FALSE
  /\ UNCHANGED <<mutex, owner, tcie, isr, raced>>

\* prvFillFifoFromBuffer: the stream is set up anew, whatever it was doing.
TxDma(t) ==
  /\ Goto(t, "tx_dma", "tx_go") /\ Runs(t)
  /\ src' = t /\ left' = Size /\ dmat' = FALSE
  /\ tc' = FALSE
  /\ UNCHANGED <<mutex, owner, tcie, isr, raced>>

TxGo(t) ==                      \* USART_DMACmd(ENABLE)
  /\ Goto(t, "tx_go", "tx_give") /\ Runs(t)
  /\ dmat' = TRUE
  /\ UNCHANGED <<mutex, owner, src, left, irqVars, raced>>

\* "All the bytes fitted in the FIFO", always: the mutex is given although
\* the DMA has only begun.
TxGive(t) ==
  /\ Goto(t, "tx_give", "tx_clear") /\ Runs(t)
  /\ mutex' = TRUE
  /\ UNCHANGED <<owner, lineVars, irqVars, raced>>

TxClear(t) ==
  /\ Goto(t, "tx_clear", "tx_retake") /\ Runs(t)
  /\ owner' = NoTask
  /\ UNCHANGED <<mutex, lineVars, irqVars, raced>>

\* Variant: the mutex is not taken back.
TxRetakeForgets(t) ==
  /\ Goto(t, "tx_retake", "tx_on") /\ Runs(t)
  /\ UNCHANGED <<mutex, owner, lineVars, irqVars, raced>>

\* xSemaphoreTake without waiting; its failure is ignored.
TxRetake(t) ==
  /\ Goto(t, "tx_retake", "tx_on") /\ Runs(t)
  /\ mutex' = FALSE
  /\ UNCHANGED <<owner, lineVars, irqVars, raced>>

\* Variant: the interrupt stays off.
TxOnForgets(t) ==
  /\ Goto(t, "tx_on", "away") /\ Runs(t)
  /\ UNCHANGED <<mutex, owner, lineVars, irqVars, raced>>

TxOn(t) ==                      \* USART_ITConfig(TC, ENABLE)
  /\ Goto(t, "tx_on", "away") /\ Runs(t)
  /\ tcie' = TRUE
  /\ UNCHANGED <<mutex, owner, lineVars, tc, isr, raced>>

-----------------------------------------------------------------------------
Ioctl(t) == Take(t) \/ Record(t) \/ WaitGive(t) \/ WaitClear(t) \/ ReleaseClear(t)
Write(t) == TxAssert(t) \/ TxOff(t) \/ TxFlag(t) \/ TxTest(t) \/ TxDma(t) \/ TxGo(t)
            \/ TxGive(t) \/ TxClear(t) \/ TxRetake(t) \/ TxOn(t)
Holder(t) == StartWrite(t) \/ ReleaseGive(t)
Isr == IsrGive \/ IsrClear

Next == DmaByte \/ Isr
        \/ \E t \in Tasks : StartObtain(t) \/ TimeOut(t) \/ Ioctl(t) \/ Holder(t) \/ Write(t)

Spec == Init /\ [][Next]_vars

\* The line, the handler and the scheduler go on, and a task that has the mutex
\* writes or releases it. No task has to call the driver or to give up waiting.
FairSpec ==
  /\ Spec /\ WF_vars(DmaByte) /\ WF_vars(Isr)
  /\ \A t \in Tasks : WF_vars(Ioctl(t) \/ Holder(t) \/ Write(t))

-----------------------------------------------------------------------------
(* Properties *)

TypeOK ==
  /\ mutex \in BOOLEAN /\ owner \in Tasks \cup {NoTask}
  /\ pc \in [Tasks -> Outside \cup Obtaining \cup Leaving \cup Writing
                      \cup {"obt_record", "wait_record", "wait_give", "tx_on"}]
  /\ src \in Tasks /\ left \in 0..Size /\ dmat \in BOOLEAN
  /\ tc \in BOOLEAN /\ tcie \in BOOLEAN /\ isr \in {"idle", "clear"}
  /\ raced \in BOOLEAN

\* "Obtaining the write mutex also shows no transmissions are currently in
\* progress": who has just taken it, or waited for it, finds the line free.
ObtainShowsIdle ==
  \A t \in Tasks : pc[t] \in {"obt_record", "wait_record", "held"} => left = 0

\* It does unless a task took the mutex in the middle of another's call.
ObtainShowsIdleUnlessRaced == ~raced => ObtainShowsIdle

\* The mutex has one holder, and xTask is "task currently holding the mutex"
\* from the time the call to obtain it returns until it is given away.
HolderRecorded ==
  ~raced =>
    \A t \in Tasks : pc[t] \in {"held", "wait_give"} \cup Writing =>
      /\ owner = t /\ ~mutex
      /\ \A u \in Tasks \ {t} :
           pc[u] \notin {"obt_record", "wait_record", "wait_give", "held"} \cup Writing

\* The assertion in the write never fails.
AssertHolds == ~raced => Alive

\* No write reprograms the stream while it reads another task's buffer.
NothingCutShort == [][src' # src /\ ~raced => left = 0]_vars

\* The mutex does not get lost: the interrupt at the end of a transmission,
\* or its holder, gives it back.
MutexComesBack == ~mutex ~> mutex \/ raced
=============================================================================
