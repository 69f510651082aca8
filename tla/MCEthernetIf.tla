---------------------------- MODULE MCEthernetIf ----------------------------
(* EthernetIf with rings of three and of two: two frames received, one of    *)
(* two descriptors, do not fit together with a third, and three frames sent  *)
(* fill the other ring.                                                      *)
EXTENDS EthernetIf

MCRxBufNb == 3
=============================================================================
