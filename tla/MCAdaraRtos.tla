---------------------------- MODULE MCAdaraRtos -----------------------------
(* AdaraRtos with two objects and three control blocks, one of them of a     *)
(* task that was not started through the facade.                             *)
EXTENDS AdaraRtos
CONSTANTS t1, t2, h1, h2, h3

MCTasks == {t1, t2}
MCHandles == {h1, h2, h3}
MCClients == {h1}
=============================================================================
