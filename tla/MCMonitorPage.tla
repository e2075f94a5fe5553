---------------------------- MODULE MCMonitorPage ----------------------------
EXTENDS MonitorPage

CONSTANTS a, b

Pkt(from, port) == [from |-> from, port |-> port, pki |-> FALSE, via |-> "rf",
                    hops |-> 0, start |-> 3, snr |-> 1, channel |-> 0,
                    role |-> None, hw |-> None, at |-> 0]

\* A direct text, a relayed position over MQTT, an encrypted packet that names
\* its port, its role and its hardware, and an anonymous one of an unknown port and transport.
MCPackets ==
  { Pkt(a, "Text"),
    [Pkt(b, "Position") EXCEPT !.via = "mqtt", !.hops = 2, !.snr = 2, !.channel = 1],
    [Pkt(b, "Node Info") EXCEPT !.pki = TRUE, !.hops = None, !.role = "ROUTER",
                                !.hw = "TBEAM"],
    [Pkt(None, None) EXCEPT !.via = None, !.snr = None, !.channel = None] }

MCFilters ==
  { DefaultFilter,
    [age |-> None, source |-> "RF only", type |-> "Unknown/Encrypted"] }
=============================================================================
