-------------------------------- MODULE MCDtm --------------------------------
(***************************************************************************)
(* Instances of Dtm for TLC: the API call sequences of the transports.     *)
(***************************************************************************)
EXTENDS DtmProperties

Call(fn, arg) == [fn |-> fn, arg |-> arg]
Prepare_   == Call("dtm_setup_prepare", "none")
SetReset   == Call("dtm_setup_reset", "none")
SetPhy(p)  == Call("dtm_setup_set_phy", p)
Rx(arg)    == Call("dtm_test_receive", arg)
Tx(arg)    == Call("dtm_test_transmit", arg)
TestEnd    == Call("dtm_test_end", "none")

\* One uncoded and one coded PHY: the library tells no more apart here.
McPhys == {"BLE_1MBIT", "BLE_LR125KBIT"}

\* dtm_hci.c: hci_rx_test, hci_tx_test, hci_test_end; a command that fails
\* after the PHY is set; a channel above 39.
HciTests ==
    {<<Prepare_, SetPhy(p), Rx("channel")>> : p \in McPhys}
    \cup {<<Prepare_, SetPhy(p), Tx("packet")>> : p \in McPhys}
    \cup {<<Prepare_, SetPhy("BLE_1MBIT"), Rx("bad_channel")>>,
          <<Prepare_, SetPhy("BLE_1MBIT"), Tx("bad_channel")>>,
          <<TestEnd>>}

ASSUME HciTestsAreSequences == HciTests \subseteq HciSequences

\* hci_reset does not prepare.
HciCommands == HciTests \cup {<<SetReset>>}

\* dtm_cmd_core.c, the decoder of the two-wire transports and of the shell.
CoreReset == <<SetReset>>
CoreTests ==
    {<<Rx("channel")>>, <<TestEnd>>} \cup {<<Tx(a)>> : a \in PacketArgs}
CoreCommands == CoreTests \cup {CoreReset}
=============================================================================
