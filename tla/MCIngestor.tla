----------------------------- MODULE MCIngestor -----------------------------
EXTENDS Ingestor

CONSTANTS a, b

Raw(from, id, portnum) ==
  [from |-> from, fromId |-> from, id |-> id, portnum |-> portnum, channel |-> 0,
   body |-> "x", ok |-> TRUE, via |-> "rf", snr |-> 1, hopStart |-> 3, hopLimit |-> 3,
   user |-> None, userId |-> None, payload |-> "valid"]

\* One packet by enum name and the same one by number, a telemetry packet of
\* old firmware on another channel from a node the library cannot name, an MQTT
\* node announcement, an anonymous position packet that cannot be hashed, a
\* packet without an id and one that cannot be normalised.
MCRawPackets ==
  { Raw(a, 0, "TEXT_MESSAGE_APP"),
    Raw(a, 0, "1"),
    [Raw(a, 1, "TELEMETRY_APP") EXCEPT !.via = None, !.snr = 2, !.hopStart = 0,
                                       !.fromId = None, !.channel = 1],
    [Raw(b, 0, "NODEINFO_APP") EXCEPT !.via = "mqtt", !.user = "name",
                                      !.fromId = None, !.userId = b],
    [Raw(None, 0, "POSITION_APP") EXCEPT !.snr = None, !.body = None],
    [Raw(a, None, "POSITION_APP") EXCEPT !.payload = "invalid", !.hopLimit = 1],
    [Raw(b, 1, "SOMETHING") EXCEPT !.ok = FALSE] }

MCNodeDBs ==
  { <<[num |-> a, id |-> a, name |-> "name", lastHeard |-> 3, fix |-> TRUE],
      [num |-> b, id |-> None, name |-> None, lastHeard |-> None, fix |-> FALSE]>> }
=============================================================================
