------------------------------ MODULE MCDevice ------------------------------
(* Two radios of one make, one of them without a USB serial number.        *)
EXTENDS Device, TLC

CONSTANTS r1, r2, p1, p2

MCSerial == (r1 :> 1) @@ (r2 :> None)

MCCatalog ==
    <<[tag |-> 1, draft |-> FALSE, pre |-> FALSE, targets |-> Radios, verifiable |-> TRUE]>>

First == (r1 :> p1) @@ (r2 :> None)

Scenario(connects, edits, requests, moves, choice) ==
    [at |-> First, choice |-> choice, connects |-> connects, edits |-> edits,
     requests |-> requests, moves |-> moves]

(* Firmware requests while radios are exchanged; firmware requests beside  *)
(* connects, disconnects and scans; configuration calls, with a value the  *)
(* page knows and with one it does not.                                    *)
MCScenarios == {Scenario(1, 0, 4, 3, 0), Scenario(3, 0, 3, 0, 0),
                Scenario(2, 2, 3, 1, 0), Scenario(2, 2, 3, 1, 9)}
=============================================================================
