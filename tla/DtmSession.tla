----------------------------- MODULE DtmSession -----------------------------
(***************************************************************************)
(* What the DTM library promises a transport that prepares the library     *)
(* before it sets it up: one test at a time, every test starts counting at *)
(* zero, counts one packet at a time, and is stopped in one piece, which   *)
(* reports what a receiver test counted and nothing for any other test.    *)
(***************************************************************************)
EXTENDS Naturals

CONSTANT CountMod   \* the width of the counter

VARIABLES
    test,       \* the test that runs, "IDLE", or "STOPPING"
    counted,    \* packets counted by the receiver test that runs
    report      \* the last number handed to the transport

session == <<test, counted, report>>

Tests == {"RECEIVER_TEST", "TRANSMITTER_TEST", "CARRIER_TEST"}

SessionInit == test = "STOPPING" /\ counted = 0 /\ report = 0

Begin(t) ==
    /\ test = "IDLE"
    /\ test' = t
    /\ UNCHANGED <<counted, report>>

Count ==
    /\ test = "RECEIVER_TEST"
    /\ counted' = (counted + 1) % CountMod
    /\ UNCHANGED <<test, report>>

\* Stopped for good, with or without a report.
Stop ==
    /\ test # "STOPPING"
    /\ test' = "STOPPING"
    /\ counted' = 0
    /\ report' \in {counted, report}

Stopped ==
    /\ test = "STOPPING"
    /\ test' = "IDLE"
    /\ UNCHANGED <<counted, report>>

SessionNext == (\E t \in Tests : Begin(t)) \/ Count \/ Stop \/ Stopped

SessionSpec == SessionInit /\ [][SessionNext]_session
=============================================================================
