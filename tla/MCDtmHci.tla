------------------------------- MODULE MCDtmHci -------------------------------
(***************************************************************************)
(* Instances of DtmHci for TLC.                                            *)
(***************************************************************************)
EXTENDS DtmHci

\* nrf_power_value, thinned out; a step of uneven width on both sides of 0.
McPowers == <<-40, -20, -8, 0, 3, 4>>

Rx(version, chan, phy, modulation) ==
    [op |-> "rx", version |-> version, chan |-> chan, phy |-> phy, modulation |-> modulation,
     cte_len |-> 0, cte_type |-> "AOA", slot |-> 1, pattern |-> <<1>>, power |-> 0,
     len |-> 0, payload |-> 0]
RxCte(phy, cte_len, cte_type, slot, pattern) ==
    [Rx(3, 39, phy, 0) EXCEPT !.cte_len = cte_len, !.cte_type = cte_type, !.slot = slot,
                              !.pattern = pattern]
Tx(version, chan, phy, power, payload) ==
    [Rx(version, chan, phy, 1) EXCEPT !.op = "tx", !.power = power, !.len = 37, !.payload = payload]
TxCte(cte_len, cte_type, pattern) ==
    [Tx(3, 39, 3, 0, 0) EXCEPT !.cte_len = cte_len, !.cte_type = cte_type, !.pattern = pattern]
Other(op) == [op |-> op, version |-> 0]

McRx == {Rx(1, 39, 3, 1), Rx(1, 40, 1, 0), Rx(2, 0, 2, 0), Rx(2, 0, 5, 0), Rx(2, 0, 1, 1),
         Rx(2, 0, 1, 2), Rx(3, 0, 4, 0)}
\* On an uncoded PHY; a length, a type, a slot and patterns that are refused.
McRxCte == {RxCte(1, 2, "AOA", 1, <<1, 2>>), RxCte(3, 1, "AOA", 1, <<1>>),
            RxCte(3, 2, "none", 1, <<1>>), RxCte(3, 2, "AOA", 2, <<1>>),
            RxCte(3, 2, "AOA", 1, <<>>), RxCte(3, 2, "AOA", 1, <<1, 2, 1>>)}
           \cup {RxCte(3, 2, "AOA", 1, <<1, 2>>), RxCte(4, 20, "AOD_1US", 1, <<2>>)}
McTx == {Tx(1, 39, 3, 0, 0), Tx(2, 39, 2, 0, 8), Tx(2, 40, 1, 0, 0)}
        \cup {Tx(4, 0, 1, power, 4) : power \in {-127, -12, 2, 20, 50, POWER_MIN_SET}}
McTxCte == {TxCte(2, "AOD_2US", <<2, 1>>), TxCte(21, "AOA", <<1>>), TxCte(2, "AOA", <<1>>)}
McCommands == McRx \cup McRxCte \cup McTx \cup McTxCte
              \cup {Other(op) : op \in {"end", "reset", "info", "unknown"}}
=============================================================================
