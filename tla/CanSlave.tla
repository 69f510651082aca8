------------------------------ MODULE CanSlave ------------------------------
(***************************************************************************)
(* The module as a slave on the CAN bus: the receive interrupt, the queue  *)
(* between it and the task DigitalConeCan, the protocol state machine      *)
(* CanSlave, and the driver that cuts replies into frames and waits for    *)
(* each on transmit mailbox 0.                                             *)
(*                                                                         *)
(* The bus master is not part of the repository. It is modelled from what  *)
(* CanSlave expects of it: it broadcasts a table of the identifiers in use *)
(* (one message of one or more frames), answers a selected address, and    *)
(* then asks for data. It also serves other slaves, whose tables and       *)
(* confirmations are broadcast on the same identifier.                     *)
(***************************************************************************)
EXTENDS Naturals, Sequences, FiniteSets

CONSTANTS
  QueueLen,    \* xQueueCreate(10, ...)
  FifoLen,     \* depth of a bxCAN receive FIFO (3)
  SpecSize,    \* ssheetsize_ (197)
  Tables,      \* the identifier tables the master may send
  MaxNoise,    \* bound: tables and confirmations meant for other slaves
  MaxNacks,    \* bound: confirmations that refuse the selected address
  MaxRequests  \* bound: requests once the slave has an address

Byte == 0..255
Broadcast == 0   \* CANID_MASTERBROADCAST
Uninit == 1      \* CANID_UNINITSLAVE
WishId == 45
SENDTABLE == 2
CONFIRM == 4     \* CMD_CONFIMADDRESSSEL
REQSPEC == 6
REQDATA == 8
FrameBytes == 8
FirstIds == 6    \* identifiers in the first frame of a table
ChipId == <<158, 184, 69, 0, 0, 0>>   \* 4569246, the same in every module
OtherChip == <<1, 2, 3, 4, 5, 6>>

ASSUME SlaveAssumption ==
  /\ QueueLen \in Nat \ {0} /\ FifoLen \in Nat \ {0} /\ SpecSize \in Nat
  /\ MaxNoise \in Nat /\ MaxNacks \in Nat /\ MaxRequests \in Nat

\* A table has as many identifiers as its length byte can say, each once; 0 and
\* 1 are reserved (canslave.cc), so every table has them. CAN_Receive copies all
\* eight data bytes of the mailbox; what those beyond a frame's length hold is
\* not modelled, so no table has a short last frame that ReceiveAddressConfirm
\* or ReceiveSlaveTable could read beyond its length. Nor is what TableTrim does
\* to a list of fewer than two entries: no continuation looks like one.
ASSUME TablesAssumption ==
  \A t \in Tables :
    /\ t \in Seq(Byte) /\ Len(t) \in Byte
    /\ {0, 1} \subseteq {t[j] : j \in 1..Len(t)}
    /\ \A j, k \in 1..Len(t) : t[j] = t[k] => j = k
    /\ \A j \in (FirstIds + 1)..Len(t) :
         (j - FirstIds - 1) % FrameBytes = 0 =>
           /\ t[j] = CONFIRM => j + FrameBytes - 2 <= Len(t)
           /\ t[j] = SENDTABLE => j + FrameBytes - 1 <= Len(t) /\ t[j + 1] >= 2

VARIABLES
  canid, extratable, capacity, idtable,   \* the members of CanSlave
  task,      \* "sleep" before Connect, then "loop"
  queue,     \* queue_: frames the interrupt has passed to the task
  fifo,      \* receive FIFO 0 of the controller
  tx,        \* the frames of the reply being sent that are not in a mailbox yet
  waiting,   \* the task polls the status of mailbox 0
  mbox,      \* the three transmit mailboxes
  sent,      \* the last frame this module put on the bus
  msend,     \* frames of the message the master is sending
  todo,      \* what the master owes this slave
  assigned,  \* the master has accepted this slave's address
  budget,    \* what is left of the bounds on the master
  lost       \* a frame was lost on its way to the task

slaveVars == <<canid, extratable, capacity, idtable>>
rxVars == <<queue, fifo, lost>>
txVars == <<tx, waiting, mbox, sent>>
masterVars == <<msend, todo, assigned, budget>>
vars == <<slaveVars, task, rxVars, txVars, masterVars>>

Empty == [id |-> 0, kind |-> "none", part |-> 0]

Init ==
  /\ canid = Broadcast /\ extratable = FALSE /\ capacity = 0 /\ idtable = <<>>
  /\ task = "sleep" /\ queue = <<>> /\ fifo = <<>> /\ lost = FALSE
  /\ tx = <<>> /\ waiting = FALSE /\ mbox = [m \in 0..2 |-> Empty] /\ sent = Empty
  /\ msend = <<>> /\ todo = {} /\ assigned = FALSE
  /\ budget = [noise |-> MaxNoise, nacks |-> MaxNacks, requests |-> MaxRequests]

-----------------------------------------------------------------------------
(* The driver: replies leave frame by frame *)

Sizes == [reqtable |-> 1, select |-> 8, spec |-> SpecSize + 3, data |-> 6]

\* WaitForTransmission: size / 8 frames, one more for a remainder.
Fragments(size) == size \div FrameBytes + (IF size % FrameBytes = 0 THEN 0 ELSE 1)

WriteMessage(id, kind) ==
  tx' = [p \in 1..Fragments(Sizes[kind]) |-> [id |-> id, kind |-> kind, part |-> p]]

\* The task is back in its loop once the last frame has left mailbox 0.
Ready == task = "loop" /\ tx = <<>> /\ ~waiting

\* CAN_Transmit: the lowest empty mailbox, or none and the frame is forgotten.
Transmit ==
  LET free == {m \in 0..2 : mbox[m] = Empty}
  IN  /\ tx # <<>> /\ ~waiting
      /\ tx' = Tail(tx) /\ waiting' = TRUE
      /\ mbox' = IF free = {} THEN mbox
                 ELSE [mbox EXCEPT ![CHOOSE m \in free : \A o \in free : m <= o] = Head(tx)]
      /\ UNCHANGED <<slaveVars, task, rxVars, sent, masterVars>>

\* Variant: the driver does not wait for the mailbox.
TransmitDoneEarly ==
  /\ waiting /\ waiting' = FALSE
  /\ UNCHANGED <<slaveVars, task, rxVars, tx, mbox, sent, masterVars>>

\* CAN_TransmitStatus(CAN1, 0) is no longer Pending.
TransmitDone ==
  /\ waiting /\ mbox[0] = Empty
  /\ waiting' = FALSE
  /\ UNCHANGED <<slaveVars, task, rxVars, tx, mbox, sent, masterVars>>

\* TXFP is off: the lowest identifier wins, then the lowest mailbox.
Before(m, o) == mbox[m].id < mbox[o].id \/ (mbox[m].id = mbox[o].id /\ m <= o)

\* A mailbox wins the bus; the master notes what it owes in return.
BusSend ==
  LET full == {m \in 0..2 : mbox[m] # Empty}
  IN  \E m \in full :
        /\ \A o \in full : Before(m, o)
        /\ mbox' = [mbox EXCEPT ![m] = Empty]
        /\ sent' = mbox[m]
        /\ todo' = todo \cup (CASE mbox[m].kind = "reqtable" -> {"table"}
                                [] mbox[m].kind = "select" -> {"confirm"}
                                [] OTHER -> {})
        /\ UNCHANGED <<slaveVars, task, rxVars, tx, waiting, msend, assigned, budget>>

-----------------------------------------------------------------------------
(* Reception *)

Frame(id, dat, more) == [id |-> id, dat |-> dat, more |-> more]

\* The controller stores the frame; when the FIFO is full (RFLM is off) the
\* newest frame in it is overwritten.
BusReceive ==
  /\ msend # <<>>
  /\ msend' = Tail(msend)
  /\ fifo' = IF Len(fifo) < FifoLen THEN Append(fifo, Head(msend))
             ELSE [fifo EXCEPT ![FifoLen] = Head(msend)]
  /\ lost' = (lost \/ Len(fifo) = FifoLen)
  /\ UNCHANGED <<slaveVars, task, queue, txVars, todo, assigned, budget>>

\* CAN1_RX0_IRQHandler and the callback of DigitalConeCan: the frame leaves
\* the FIFO; xQueueSendFromISR's failure on a full queue is ignored.
RxInterrupt ==
  /\ fifo # <<>>
  /\ fifo' = Tail(fifo)
  /\ queue' = IF Len(queue) < QueueLen THEN Append(queue, Head(fifo)) ELSE queue
  /\ lost' = (lost \/ Len(queue) = QueueLen)
  /\ UNCHANGED <<slaveVars, task, txVars, masterVars>>

-----------------------------------------------------------------------------
(* CanSlave::RxData, by the state and the first byte *)

Dat == Head(queue).dat

\* std::sort: an entry goes behind the smaller ones, and equal ones stay.
Sorted(s) ==
  LET Place(j) == Cardinality({k \in 1..Len(s) : s[k] < s[j] \/ (s[k] = s[j] /\ k <= j)})
  IN  [n \in 1..Len(s) |-> s[CHOOSE j \in 1..Len(s) : Place(j) = n]]

\* Variant: the two entries are dropped without sorting first.
TableTrimUnsorted(s) == SubSeq(s, 3, Len(s))

\* TableTrim: sort, then drop the first two.
TableTrim(s) == SubSeq(Sorted(s), 3, Len(s))

\* Variant: the end of the table is not noticed.
ReceiveExtraNoReset ==
  /\ extratable
  /\ capacity' = (capacity - Len(Dat)) % 256 /\ idtable' = idtable \o Dat
  /\ UNCHANGED <<canid, extratable, tx>>

\* Variant: the bytes still expected are counted without wrapping.
ReceiveExtraNoWrap ==
  LET left == capacity - Len(Dat)
  IN  /\ extratable
      /\ capacity' = left
      /\ extratable' = (left # 0)
      /\ idtable' = IF left # 0 THEN idtable \o Dat ELSE TableTrim(idtable \o Dat)
      /\ UNCHANGED <<canid, tx>>

ReceiveExtraSlaveTable ==
  LET left == (capacity - Len(Dat)) % 256   \* uint8_t
      all == idtable \o Dat
  IN  /\ extratable
      /\ capacity' = left
      /\ extratable' = (left > 0)
      /\ idtable' = IF left > 0 THEN all ELSE TableTrim(all)
      /\ UNCHANGED <<canid, tx>>

\* Variant: the ids of the first frame are not subtracted.
ReceiveSlaveTableUncounted ==
  LET size == Dat[2]
  IN  /\ ~extratable /\ Dat[1] = SENDTABLE
      /\ extratable' = (size > FirstIds)
      /\ capacity' = IF size > FirstIds THEN size ELSE 0
      /\ idtable' = IF size > FirstIds THEN SubSeq(Dat, 3, FrameBytes)
                    ELSE TableTrim(SubSeq(Dat, 3, 2 + size))
      /\ IF size > FirstIds THEN UNCHANGED tx ELSE WriteMessage(Uninit, "select")
      /\ UNCHANGED canid

\* A table of one frame is answered by the handshake, a longer one is not:
\* neither here nor when its last frame arrives.
ReceiveSlaveTable ==
  LET size == Dat[2]
  IN  /\ ~extratable /\ Dat[1] = SENDTABLE
      /\ extratable' = (size > FirstIds)
      /\ IF size <= FirstIds
         THEN /\ idtable' = TableTrim(SubSeq(Dat, 3, 2 + size))
              /\ capacity' = 0
              /\ WriteMessage(Uninit, "select")
         ELSE /\ idtable' = SubSeq(Dat, 3, FrameBytes)
              /\ capacity' = size - FirstIds
              /\ UNCHANGED tx
      /\ UNCHANGED canid

\* Variant: the chip id of a confirmation is not compared.
ReceiveAnyConfirm ==
  LET ack == Dat[Len(Dat)]
  IN  /\ ~extratable /\ Dat[1] = CONFIRM
      /\ IF ack = 255 THEN WriteMessage(Uninit, "select") ELSE UNCHANGED tx
      /\ canid' = IF ack = 0 THEN WishId ELSE canid
      /\ UNCHANGED <<extratable, capacity, idtable>>

\* Variant: a refusal is not answered by another handshake.
ReceiveConfirmNoRetry ==
  /\ ~extratable /\ Dat[1] = CONFIRM
  /\ canid' = IF SubSeq(Dat, 2, 7) = ChipId /\ Dat[Len(Dat)] = 0 THEN WishId ELSE canid
  /\ UNCHANGED <<extratable, capacity, idtable, tx>>

ReceiveAddressConfirm ==
  LET mine == SubSeq(Dat, 2, 7) = ChipId
      ack == Dat[Len(Dat)]
  IN  /\ ~extratable /\ Dat[1] = CONFIRM
      /\ IF mine /\ ack = 255 THEN WriteMessage(Uninit, "select") ELSE UNCHANGED tx
      /\ canid' = IF mine /\ ack = 0 THEN WishId ELSE canid
      /\ UNCHANGED <<extratable, capacity, idtable>>

SendSpecSheet ==
  /\ ~extratable /\ Dat[1] = REQSPEC
  /\ WriteMessage(canid, "spec")
  /\ UNCHANGED slaveVars

SendChannelData ==
  /\ ~extratable /\ Dat[1] = REQDATA
  /\ WriteMessage(canid, "data")
  /\ UNCHANGED slaveVars

NoCommand ==
  /\ ~extratable /\ Dat[1] \notin {SENDTABLE, CONFIRM, REQSPEC, REQDATA}
  /\ UNCHANGED <<slaveVars, tx>>

\* One turn of the task's loop.
RxData ==
  /\ Ready /\ queue # <<>>
  /\ queue' = Tail(queue)
  /\ \/ Head(queue).id # canid /\ UNCHANGED <<slaveVars, tx>>
     \/ /\ Head(queue).id = canid
        /\ \/ ReceiveExtraSlaveTable \/ ReceiveSlaveTable \/ ReceiveAddressConfirm
           \/ SendSpecSheet \/ SendChannelData \/ NoCommand
  /\ UNCHANGED <<task, fifo, lost, waiting, mbox, sent, masterVars>>

\* Two seconds after start: RequestTable. Frames have been queued meanwhile.
Connect ==
  /\ task = "sleep"
  /\ task' = "loop"
  /\ WriteMessage(Uninit, "reqtable")
  /\ UNCHANGED <<slaveVars, rxVars, waiting, mbox, sent, masterVars>>

-----------------------------------------------------------------------------
(* The master *)

Least(a, b) == IF a < b THEN a ELSE b

\* A table as frames: command, length and the first ids, then the rest.
TableHead(t) ==
  Frame(Broadcast, <<SENDTABLE, Len(t)>> \o SubSeq(t, 1, Least(FirstIds, Len(t))), FALSE)

\* What follows once the slave has k ids of the table.
RestOfTable(t, k) ==
  [p \in 1..Fragments(Len(t) - k) |->
     Frame(Broadcast, SubSeq(t, k + FrameBytes * (p - 1) + 1,
                             Least(k + FrameBytes * p, Len(t))), TRUE)]

TableFrames(t) == <<TableHead(t)>> \o RestOfTable(t, Least(FirstIds, Len(t)))

Confirmation(chip, ack) == Frame(Broadcast, <<CONFIRM>> \o chip \o <<ack>>, FALSE)

MasterTable ==
  /\ msend = <<>>
  /\ \E t \in Tables : msend' = TableFrames(t)
  /\ \/ "table" \in todo /\ todo' = todo \ {"table"} /\ UNCHANGED budget
     \/ budget.noise > 0 /\ budget' = [budget EXCEPT !.noise = @ - 1] /\ UNCHANGED todo
  /\ UNCHANGED <<slaveVars, task, rxVars, txVars, assigned>>

MasterConfirm ==
  /\ msend = <<>>
  /\ \/ /\ "confirm" \in todo /\ todo' = todo \ {"confirm"}
        /\ \/ msend' = <<Confirmation(ChipId, 0)>> /\ assigned' = TRUE /\ UNCHANGED budget
           \/ /\ budget.nacks > 0 /\ ~assigned
              /\ msend' = <<Confirmation(ChipId, 255)>>
              /\ budget' = [budget EXCEPT !.nacks = @ - 1]
              /\ UNCHANGED assigned
     \/ /\ budget.noise > 0
        /\ msend' = <<Confirmation(OtherChip, 0)>>
        /\ budget' = [budget EXCEPT !.noise = @ - 1]
        /\ UNCHANGED <<todo, assigned>>
  /\ UNCHANGED <<slaveVars, task, rxVars, txVars>>

MasterRequest ==
  /\ msend = <<>> /\ assigned /\ budget.requests > 0
  /\ \E dat \in {<<REQSPEC>>, <<REQDATA, 1>>} : msend' = <<Frame(WishId, dat, FALSE)>>
  /\ budget' = [budget EXCEPT !.requests = @ - 1]
  /\ UNCHANGED <<slaveVars, task, rxVars, txVars, todo, assigned>>

-----------------------------------------------------------------------------
Next == Transmit \/ TransmitDone \/ BusSend \/ BusReceive \/ RxInterrupt
        \/ RxData \/ Connect \/ MasterTable \/ MasterConfirm \/ MasterRequest

\* The task and the interrupt run, the bus carries what is offered to it, and
\* the master answers this slave. Nothing forces it to serve others.
Fairness ==
  /\ WF_vars(Transmit) /\ WF_vars(TransmitDone) /\ WF_vars(BusSend)
  /\ WF_vars(BusReceive) /\ WF_vars(RxInterrupt) /\ WF_vars(RxData) /\ WF_vars(Connect)
  /\ WF_vars(MasterTable /\ todo' # todo) /\ WF_vars(MasterConfirm /\ todo' # todo)

Spec == Init /\ [][Next]_vars
FairSpec == Spec /\ Fairness

-----------------------------------------------------------------------------
(* Properties *)

TypeOK ==
  /\ canid \in {Broadcast, WishId} /\ extratable \in BOOLEAN /\ capacity \in 0..255
  /\ idtable \in Seq(Byte)
  /\ task \in {"sleep", "loop"}
  /\ Len(queue) <= QueueLen /\ Len(fifo) <= FifoLen
  /\ waiting \in BOOLEAN
  /\ mbox \in [0..2 -> [id : Nat, part : Nat,
                        kind : {"none", "reqtable", "select", "spec", "data"}]]
  /\ todo \subseteq {"table", "confirm"}
  /\ assigned \in BOOLEAN /\ lost \in BOOLEAN

\* Whether a frame is taken as the continuation of a table depends on the
\* slave's state alone, not on the frame. As long as no frame was lost, a frame
\* is taken so exactly when the master sent it so.
InSync ==
  (~lost /\ queue # <<>> /\ Head(queue).id = canid)
    => extratable = Head(queue).more

\* While a table is incomplete and nothing was lost, the slave has the beginning
\* of a table that the master sends, counts the ids it lacks, and the frames on
\* their way bring exactly these.
ExpectsWhatIsComing ==
  LET stream == queue \o fifo \o msend
      k == Len(idtable)
  IN  extratable /\ ~lost =>
        \E t \in Tables :
          /\ k < Len(t) /\ idtable = SubSeq(t, 1, k) /\ capacity = Len(t) - k
          /\ LET rest == RestOfTable(t, k)
             IN  /\ Len(rest) <= Len(stream) /\ SubSeq(stream, 1, Len(rest)) = rest
                 /\ Len(rest) < Len(stream) => ~stream[Len(rest) + 1].more

\* "get rid of canid 0 and 1": a completed table has no reserved identifier.
TableHasNoReserved ==
  ~extratable => \A j \in 1..Len(idtable) : idtable[j] \notin {Broadcast, Uninit}

\* That holds as long as no frame was lost.
TableHasNoReservedIfNoLoss == ~lost => TableHasNoReserved

\* The slave takes an address only after the master accepted it, and then
\* keeps it; from then on it answers under that address only.
AddressOnlyByConsent ==
  [][/\ canid' # canid => canid = Broadcast /\ assigned /\ ~extratable
     /\ (canid = WishId /\ tx' # tx /\ Len(tx') > Len(tx)) => tx'[1].id = WishId]_vars

\* The frames of a reply reach the bus in order and uninterrupted.
FragmentsInOrder ==
  [][sent' # sent =>
       \/ sent'.part = 1
       \/ sent'.part = sent.part + 1 /\ sent'.kind = sent.kind /\ sent'.id = sent.id]_vars

\* The slave gets its address unless a frame is lost, refusals of the address
\* and tables for others notwithstanding. A table of several frames, the
\* continuation of which the slave awaits, is never answered.
Connects == <>(canid = WishId \/ lost \/ extratable)
=============================================================================
