------------------------------ MODULE MCHciUart ------------------------------
(***************************************************************************)
(* Instances of HciUart for TLC.                                           *)
(***************************************************************************)
EXTENDS HciUart

MCBuilds == {"local", "remote"}
MCShapes == {<<1, 2>>}
\* An ISO packet with no payload, a stray octet, and an ACL packet that is one
\* octet longer than a buffer; a command fills one.
MCOthers == {<<5, 0, 0, 0, 0>>, <<4>>, <<2, 0, 0, 2, 0, 9, 9>>}
=============================================================================
