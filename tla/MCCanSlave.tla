----------------------------- MODULE MCCanSlave -----------------------------
(* CanSlave with short queues, so that frames are lost, and tables of one    *)
(* and of two frames. The second frame of the long one is full and starts    *)
(* with a byte that is also a command.                                       *)
EXTENDS CanSlave

ShortTable == <<7, 1, 0>>
LongTable == <<9, 1, 12, 0, 11, 10, 6, 8, 4, 2, 3, 5, 7, 13>>
MCTables == {ShortTable, LongTable}
=============================================================================
