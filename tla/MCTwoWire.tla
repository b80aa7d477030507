------------------------------ MODULE MCTwoWire ------------------------------
(***************************************************************************)
(* Instances of TwoWire for TLC.                                           *)
(***************************************************************************)
EXTENDS TwoWire

MCTransports == {"uart", "rtt"}
=============================================================================
