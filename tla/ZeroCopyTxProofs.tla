--------------------------- MODULE ZeroCopyTxProofs ---------------------------
(***************************************************************************)
(* Proofs about ZeroCopyTx for every set of tasks, every assignment of     *)
(* priorities and every length of a write: as long as no task takes the    *)
(* mutex in the middle of another's call, it has one holder, who is        *)
(* recorded and finds the line idle, and the assertion never fails.        *)
(***************************************************************************)
EXTENDS ZeroCopyTx, TLAPS

\* The mutex is taken, its holder not recorded yet.
Obtained == {"obt_record", "wait_record"}
\* Between taking the mutex and giving it.
Inside == {"obt_record", "wait_record", "wait_give", "held"} \cup Writing
\* Between taking it and the end of the call that gives it.
Active == Inside \cup Leaving \cup {"tx_on"}
\* The part of a write in which the stream may be at work.
Sending == {"tx_go", "tx_give", "tx_clear", "tx_retake", "tx_on"}
\* The part in which the interrupt is off.
Quiet == {"tx_flag", "tx_test", "tx_dma"} \cup Sending

\* One task at a time is active, and the mutex tells whether it still holds it.
HolderInv ==
  /\ Alive
  /\ \A t, u \in Tasks : pc[t] \in Active /\ pc[u] \in Active => t = u
  /\ \A t \in Tasks : pc[t] \in Inside \cup {"tx_on"} => ~mutex
  /\ \A t \in Tasks : pc[t] \in Leaving => mutex
  /\ \A t \in Tasks : pc[t] \in {"held", "wait_give"} \cup Writing => owner = t

\* The line is busy only in the sending part of a write and from its end to
\* the interrupt, while the mutex is away, and in the short time for which the
\* write itself gives it.
LineInv ==
  /\ tc => left = 0
  /\ mutex /\ left > 0 => \E t \in Tasks : pc[t] \in {"tx_clear", "tx_retake"}
  /\ \A t \in Tasks : pc[t] \in Active \ Sending => left = 0
  /\ \A t \in Tasks : pc[t] \in Quiet => ~tcie
  /\ tcie /\ (tc \/ left > 0) =>
       (\A t \in Tasks : pc[t] \notin Active) /\ (isr = "idle" => ~mutex)
  /\ isr = "clear" => mutex /\ tc /\ tcie

ZInv == TypeOK /\ (~raced => HolderInv /\ LineInv)

-----------------------------------------------------------------------------
\* Types, step by step.
LEMMA TypeStep ==
  ASSUME ZInv, [Next]_vars
  PROVE  TypeOK'
  <1> USE WriterAssumption DEF TypeOK, lineVars, irqVars, Goto,
          Outside, Obtaining, Leaving, Writing
  <1>0. TypeOK
    BY DEF ZInv
  <1>1. CASE DmaByte
    BY <1>0, <1>1 DEF DmaByte
  <1>2. CASE Isr
    BY <1>0, <1>2 DEF Isr, IsrGive, IsrClear
  <1>3. ASSUME NEW t \in Tasks, StartObtain(t)
        PROVE  TypeOK'
    BY <1>0, <1>3 DEF StartObtain
  <1>4. ASSUME NEW t \in Tasks, TimeOut(t)
        PROVE  TypeOK'
    BY <1>0, <1>4 DEF TimeOut
  <1>5. ASSUME NEW t \in Tasks, Take(t)
        PROVE  TypeOK'
    BY <1>0, <1>5 DEF Take
  <1>6. ASSUME NEW t \in Tasks, Record(t)
        PROVE  TypeOK'
    BY <1>0, <1>6 DEF Record
  <1>7. ASSUME NEW t \in Tasks, WaitGive(t)
        PROVE  TypeOK'
    BY <1>0, <1>7 DEF WaitGive
  <1>8. ASSUME NEW t \in Tasks, WaitClear(t)
        PROVE  TypeOK'
    BY <1>0, <1>8 DEF WaitClear
  <1>9. ASSUME NEW t \in Tasks, ReleaseClear(t)
        PROVE  TypeOK'
    BY <1>0, <1>9 DEF ReleaseClear
  <1>10. ASSUME NEW t \in Tasks, StartWrite(t)
        PROVE  TypeOK'
    BY <1>0, <1>10 DEF StartWrite
  <1>11. ASSUME NEW t \in Tasks, ReleaseGive(t)
        PROVE  TypeOK'
    BY <1>0, <1>11 DEF ReleaseGive
  <1>12. ASSUME NEW t \in Tasks, TxAssert(t)
        PROVE  TypeOK'
    BY <1>0, <1>12 DEF TxAssert
  <1>13. ASSUME NEW t \in Tasks, TxOff(t)
        PROVE  TypeOK'
    BY <1>0, <1>13 DEF TxOff
  <1>14. ASSUME NEW t \in Tasks, TxFlag(t)
        PROVE  TypeOK'
    BY <1>0, <1>14 DEF TxFlag
  <1>15. ASSUME NEW t \in Tasks, TxTest(t)
        PROVE  TypeOK'
    BY <1>0, <1>15 DEF TxTest
  <1>16. ASSUME NEW t \in Tasks, TxDma(t)
        PROVE  TypeOK'
    <2>1. /\ pc' = [pc EXCEPT ![t] = "tx_go"]
          /\ src' = t /\ left' = Size /\ dmat' = FALSE /\ tc' = FALSE
          /\ UNCHANGED <<mutex, owner, tcie, isr, raced>>
      BY <1>16 DEF TxDma
    <2>2. Size \in 0..Size
      OBVIOUS
    <2>3. dmat' \in BOOLEAN /\ tc' \in BOOLEAN
      BY <2>1, Zenon
    <2> QED BY <1>0, <2>1, <2>2, <2>3
  <1>17. ASSUME NEW t \in Tasks, TxGo(t)
        PROVE  TypeOK'
    BY <1>0, <1>17 DEF TxGo
  <1>18. ASSUME NEW t \in Tasks, TxGive(t)
        PROVE  TypeOK'
    BY <1>0, <1>18 DEF TxGive
  <1>19. ASSUME NEW t \in Tasks, TxClear(t)
        PROVE  TypeOK'
    BY <1>0, <1>19 DEF TxClear
  <1>20. ASSUME NEW t \in Tasks, TxRetake(t)
        PROVE  TypeOK'
    BY <1>0, <1>20 DEF TxRetake
  <1>21. ASSUME NEW t \in Tasks, TxOn(t)
        PROVE  TypeOK'
    BY <1>0, <1>21 DEF TxOn
  <1>22. CASE UNCHANGED vars
    BY <1>0, <1>22 DEF vars
  <1> QED
    BY <1>1, <1>2, <1>3, <1>4, <1>5, <1>6, <1>7, <1>8, <1>9, <1>10,
       <1>11, <1>12, <1>13, <1>14, <1>15, <1>16, <1>17, <1>18, <1>19, <1>20, <1>21, <1>22
    DEF Next, Ioctl, Holder, Write

\* The holder stays the only one.
LEMMA HolderStep ==
  ASSUME ZInv, [Next]_vars, ~raced'
  PROVE  HolderInv'
  <1> USE DEF TypeOK, lineVars, irqVars, Goto, Alive, HolderInv, LineInv,
          Inside, Active, Sending, Quiet, Outside, Obtaining, Leaving, Writing
  <1>0. TypeOK
    BY DEF ZInv
  <1>1. CASE DmaByte
    BY <1>0, <1>1 DEF DmaByte, ZInv
  <1>2. CASE Isr
    BY <1>0, <1>2 DEF Isr, IsrGive, IsrClear, ZInv
  <1>3. ASSUME NEW t \in Tasks, StartObtain(t)
        PROVE  HolderInv'
    BY <1>0, <1>3 DEF StartObtain, Runs, ZInv
  <1>4. ASSUME NEW t \in Tasks, TimeOut(t)
        PROVE  HolderInv'
    BY <1>0, <1>4 DEF TimeOut, Runs, ZInv
  <1>5. ASSUME NEW t \in Tasks, Take(t)
        PROVE  HolderInv'
    <2>1. /\ mutex /\ mutex' = FALSE /\ ~raced /\ isr = "idle" /\ ~(tc /\ tcie)
          /\ \A u \in Tasks : pc[u] \notin Leaving
          /\ UNCHANGED <<owner, lineVars, irqVars>>
      BY <1>0, <1>5 DEF Take, Runs
    <2>2. \A u \in Tasks : pc[u] \notin Active
      BY <2>1 DEF ZInv
    <2>3. left = 0
      BY <1>0, <2>1 DEF ZInv
    <2>4. pc' \in {[pc EXCEPT ![t] = "obt_record"], [pc EXCEPT ![t] = "wait_record"]}
      BY <1>5 DEF Take
    <2>5. \A u \in Tasks : pc'[u] \in Active => u = t /\ pc'[u] \in Obtained
      BY <1>0, <2>2, <2>4 DEF Obtained
    <2>6. Alive'
      BY <1>0, <2>1, <2>4 DEF ZInv
    <2> QED BY <2>1, <2>5, <2>6 DEF Obtained
  <1>6. ASSUME NEW t \in Tasks, Record(t)
        PROVE  HolderInv'
    BY <1>0, <1>6 DEF Record, Runs, ZInv
  <1>7. ASSUME NEW t \in Tasks, WaitGive(t)
        PROVE  HolderInv'
    BY <1>0, <1>7 DEF WaitGive, Runs, ZInv
  <1>8. ASSUME NEW t \in Tasks, WaitClear(t)
        PROVE  HolderInv'
    BY <1>0, <1>8 DEF WaitClear, Runs, ZInv
  <1>9. ASSUME NEW t \in Tasks, ReleaseClear(t)
        PROVE  HolderInv'
    BY <1>0, <1>9 DEF ReleaseClear, Runs, ZInv
  <1>10. ASSUME NEW t \in Tasks, StartWrite(t)
        PROVE  HolderInv'
    BY <1>0, <1>10 DEF StartWrite, Runs, ZInv
  <1>11. ASSUME NEW t \in Tasks, ReleaseGive(t)
        PROVE  HolderInv'
    BY <1>0, <1>11 DEF ReleaseGive, Runs, ZInv
  <1>12. ASSUME NEW t \in Tasks, TxAssert(t)
        PROVE  HolderInv'
    BY <1>0, <1>12 DEF TxAssert, Runs, ZInv
  <1>13. ASSUME NEW t \in Tasks, TxOff(t)
        PROVE  HolderInv'
    BY <1>0, <1>13 DEF TxOff, Runs, ZInv
  <1>14. ASSUME NEW t \in Tasks, TxFlag(t)
        PROVE  HolderInv'
    BY <1>0, <1>14 DEF TxFlag, Runs, ZInv
  <1>15. ASSUME NEW t \in Tasks, TxTest(t)
        PROVE  HolderInv'
    BY <1>0, <1>15 DEF TxTest, Runs, ZInv
  <1>16. ASSUME NEW t \in Tasks, TxDma(t)
        PROVE  HolderInv'
    BY <1>0, <1>16 DEF TxDma, Runs, ZInv
  <1>17. ASSUME NEW t \in Tasks, TxGo(t)
        PROVE  HolderInv'
    BY <1>0, <1>17 DEF TxGo, Runs, ZInv
  <1>18. ASSUME NEW t \in Tasks, TxGive(t)
        PROVE  HolderInv'
    BY <1>0, <1>18 DEF TxGive, Runs, ZInv
  <1>19. ASSUME NEW t \in Tasks, TxClear(t)
        PROVE  HolderInv'
    BY <1>0, <1>19 DEF TxClear, Runs, ZInv
  <1>20. ASSUME NEW t \in Tasks, TxRetake(t)
        PROVE  HolderInv'
    BY <1>0, <1>20 DEF TxRetake, Runs, ZInv
  <1>21. ASSUME NEW t \in Tasks, TxOn(t)
        PROVE  HolderInv'
    BY <1>0, <1>21 DEF TxOn, Runs, ZInv
  <1>22. CASE UNCHANGED vars
    BY <1>0, <1>22 DEF vars, ZInv
  <1> QED
    BY <1>1, <1>2, <1>3, <1>4, <1>5, <1>6, <1>7, <1>8, <1>9, <1>10,
       <1>11, <1>12, <1>13, <1>14, <1>15, <1>16, <1>17, <1>18, <1>19, <1>20, <1>21, <1>22
    DEF Next, Ioctl, Holder, Write

\* The line is busy only while the mutex is away.
LEMMA LineStep ==
  ASSUME ZInv, [Next]_vars, ~raced'
  PROVE  LineInv'
  <1> USE DEF TypeOK, lineVars, irqVars, Goto, Alive, HolderInv, LineInv,
          Inside, Active, Sending, Quiet, Outside, Obtaining, Leaving, Writing
  <1>0. TypeOK
    BY DEF ZInv
  <1>1. CASE DmaByte
    BY <1>0, <1>1 DEF DmaByte, ZInv
  <1>2. CASE Isr
    BY <1>0, <1>2 DEF Isr, IsrGive, IsrClear, ZInv
  <1>3. ASSUME NEW t \in Tasks, StartObtain(t)
        PROVE  LineInv'
    BY <1>0, <1>3 DEF StartObtain, Runs, ZInv
  <1>4. ASSUME NEW t \in Tasks, TimeOut(t)
        PROVE  LineInv'
    BY <1>0, <1>4 DEF TimeOut, Runs, ZInv
  <1>5. ASSUME NEW t \in Tasks, Take(t)
        PROVE  LineInv'
    <2>1. /\ mutex /\ mutex' = FALSE /\ ~raced /\ isr = "idle" /\ ~(tc /\ tcie)
          /\ \A u \in Tasks : pc[u] \notin Leaving
          /\ UNCHANGED <<owner, lineVars, irqVars>>
      BY <1>0, <1>5 DEF Take, Runs
    <2>2. \A u \in Tasks : pc[u] \notin Active
      BY <2>1 DEF ZInv
    <2>3. left = 0
      BY <1>0, <2>1 DEF ZInv
    <2>4. pc' \in {[pc EXCEPT ![t] = "obt_record"], [pc EXCEPT ![t] = "wait_record"]}
      BY <1>5 DEF Take
    <2>5. \A u \in Tasks : pc'[u] \in Active => u = t /\ pc'[u] \in Obtained
      BY <1>0, <2>2, <2>4 DEF Obtained
    <2> QED BY <1>0, <2>1, <2>2, <2>3, <2>5 DEF ZInv, Obtained
  <1>6. ASSUME NEW t \in Tasks, Record(t)
        PROVE  LineInv'
    BY <1>0, <1>6 DEF Record, Runs, ZInv
  <1>7. ASSUME NEW t \in Tasks, WaitGive(t)
        PROVE  LineInv'
    BY <1>0, <1>7 DEF WaitGive, Runs, ZInv
  <1>8. ASSUME NEW t \in Tasks, WaitClear(t)
        PROVE  LineInv'
    BY <1>0, <1>8 DEF WaitClear, Runs, ZInv
  <1>9. ASSUME NEW t \in Tasks, ReleaseClear(t)
        PROVE  LineInv'
    BY <1>0, <1>9 DEF ReleaseClear, Runs, ZInv
  <1>10. ASSUME NEW t \in Tasks, StartWrite(t)
        PROVE  LineInv'
    BY <1>0, <1>10 DEF StartWrite, Runs, ZInv
  <1>11. ASSUME NEW t \in Tasks, ReleaseGive(t)
        PROVE  LineInv'
    BY <1>0, <1>11 DEF ReleaseGive, Runs, ZInv
  <1>12. ASSUME NEW t \in Tasks, TxAssert(t)
        PROVE  LineInv'
    BY <1>0, <1>12 DEF TxAssert, Runs, ZInv
  <1>13. ASSUME NEW t \in Tasks, TxOff(t)
        PROVE  LineInv'
    BY <1>0, <1>13 DEF TxOff, Runs, ZInv
  <1>14. ASSUME NEW t \in Tasks, TxFlag(t)
        PROVE  LineInv'
    BY <1>0, <1>14 DEF TxFlag, Runs, ZInv
  <1>15. ASSUME NEW t \in Tasks, TxTest(t)
        PROVE  LineInv'
    BY <1>0, <1>15 DEF TxTest, Runs, ZInv
  <1>16. ASSUME NEW t \in Tasks, TxDma(t)
        PROVE  LineInv'
    BY <1>0, <1>16 DEF TxDma, Runs, ZInv
  <1>17. ASSUME NEW t \in Tasks, TxGo(t)
        PROVE  LineInv'
    BY <1>0, <1>17 DEF TxGo, Runs, ZInv
  <1>18. ASSUME NEW t \in Tasks, TxGive(t)
        PROVE  LineInv'
    BY <1>0, <1>18 DEF TxGive, Runs, ZInv
  <1>19. ASSUME NEW t \in Tasks, TxClear(t)
        PROVE  LineInv'
    BY <1>0, <1>19 DEF TxClear, Runs, ZInv
  <1>20. ASSUME NEW t \in Tasks, TxRetake(t)
        PROVE  LineInv'
    BY <1>0, <1>20 DEF TxRetake, Runs, ZInv
  <1>21. ASSUME NEW t \in Tasks, TxOn(t)
        PROVE  LineInv'
    BY <1>0, <1>21 DEF TxOn, Runs, ZInv
  <1>22. CASE UNCHANGED vars
    BY <1>0, <1>22 DEF vars, ZInv
  <1> QED
    BY <1>1, <1>2, <1>3, <1>4, <1>5, <1>6, <1>7, <1>8, <1>9, <1>10,
       <1>11, <1>12, <1>13, <1>14, <1>15, <1>16, <1>17, <1>18, <1>19, <1>20, <1>21, <1>22
    DEF Next, Ioctl, Holder, Write

-----------------------------------------------------------------------------
\* The invariant holds from the start.
LEMMA InitZ ==
  ASSUME Init
  PROVE  ZInv
  <1>1. TypeOK
    <2>1. Size \in Nat /\ 0 \in 0..Size
      BY WriterAssumption
    <2> QED BY <2>1 DEF Init, TypeOK, Outside
  <1>2. \A t \in Tasks : pc[t] = "away"
    BY DEF Init
  <1>3. HolderInv /\ LineInv
    BY <1>1, <1>2 DEF Init, HolderInv, LineInv, Alive, Inside, Active, Sending, Quiet,
         Leaving, Writing
  <1> QED BY <1>1, <1>3 DEF ZInv

\* It holds always: of a task that took the mutex in the middle of another's
\* call nothing more is claimed than its types.
THEOREM ZInvAlways == Spec => []ZInv
  <1>1. ZInv /\ [Next]_vars => ZInv'
    BY TypeStep, HolderStep, LineStep DEF ZInv
  <1> QED BY InitZ, <1>1, PTL DEF Spec

\* The variables of the driver, the line and the handler keep their types,
\* races included.
THEOREM TypesHold == Spec => []TypeOK
  <1>1. ZInv => TypeOK
    BY DEF ZInv
  <1> QED BY <1>1, ZInvAlways, PTL

\* "Obtaining the write mutex also shows no transmissions are currently in
\* progress" (FreeRTOS_DriverInterface.c), for any tasks and priorities, as
\* long as none takes it between another's give and the end of its call.
THEOREM IdleWhenObtained == Spec => []ObtainShowsIdleUnlessRaced
  <1>1. ZInv => ObtainShowsIdleUnlessRaced
    BY DEF ZInv, LineInv, ObtainShowsIdleUnlessRaced, ObtainShowsIdle, Active, Inside,
           Sending, Leaving, Writing
  <1> QED BY <1>1, ZInvAlways, PTL

\* The mutex has one holder and xTask names it, on the same condition.
THEOREM OneHolder == Spec => []HolderRecorded
  <1>1. ZInv => HolderRecorded
    BY DEF ZInv, HolderInv, HolderRecorded, Active, Inside, Leaving, Writing
  <1> QED BY <1>1, ZInvAlways, PTL

\* The assertion of FreeRTOS_UART_write, which takes the mutex to see that
\* it cannot, never fails, on the same condition.
THEOREM AssertionHolds == Spec => []AssertHolds
  <1>1. ZInv => AssertHolds
    BY DEF ZInv, HolderInv, AssertHolds
  <1> QED BY <1>1, ZInvAlways, PTL

\* The stream is set up for another task's buffer only when the one before is
\* on the line to its last byte, on the same condition.
THEOREM NothingIsCutShort == Spec => NothingCutShort
  <1>1. ZInv /\ [Next]_vars => [src' # src /\ ~raced => left = 0]_vars
    <2> SUFFICES ASSUME ZInv, Next, src' # src, ~raced
                 PROVE  left = 0
      OBVIOUS
    <2>1. PICK t \in Tasks : TxDma(t)
      BY DEF Next, DmaByte, Isr, IsrGive, IsrClear, StartObtain, TimeOut, Ioctl, Holder,
             Write, Take, Record, WaitGive, WaitClear, ReleaseClear, StartWrite,
             ReleaseGive, TxAssert, TxOff, TxFlag, TxTest, TxGo, TxGive, TxClear,
             TxRetake, TxOn, lineVars
    <2>2. pc[t] \in Active \ Sending
      BY <2>1 DEF TxDma, Goto, Active, Inside, Sending, Leaving, Writing
    <2> QED BY <2>2 DEF ZInv, LineInv
  <1> QED BY <1>1, ZInvAlways, PTL DEF Spec, NothingCutShort
=============================================================================
