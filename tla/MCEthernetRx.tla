---------------------------- MODULE MCEthernetRx ----------------------------
(* EthernetRx with a ring of three: two frames, one of two descriptors, do   *)
(* not fit together with a third.                                            *)
EXTENDS EthernetRx

MCRxBufNb == 3
=============================================================================
