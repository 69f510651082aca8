------------------------- MODULE MCCircularBufferRx -------------------------
(* A buffer of three bytes: the indices wrap at different times and a read   *)
(* needs both attempts. Two values tell a byte from its neighbour.           *)
EXTENDS CircularBufferRx

MCBytes == {1, 2}
=============================================================================
