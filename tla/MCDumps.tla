------------------------------- MODULE MCDumps -------------------------------
(* One run for the two dumps that share no state: telemetry lines over a     *)
(* heap that moves, and the list of hotspots over a table that moves.        *)
EXTENDS MTTelemetry, HotspotDump

VARIABLE client  (* which of the two the program calls *)

(* A 20-bit word, whose products with 1000 TLC can still hold: around zero,  *)
(* the classes, the first overflow (1048576 / 1000) and the largest word     *)
Bytes == {0, 1, 5, 8, 9, 10, 1048, 1049, 1050, 2098, 1048575}
SomeHeaps ==
  {h \in [total : Bytes, largest : Bytes] :
     h.largest <= h.total /\ (h.total = 0 <=> h.largest = 0)}

(* Two files and two lines, so that every criterion of the order decides     *)
SomeSites == {<<1, 7>>, <<1, 8>>, <<2, 7>>, <<2, 9>>}
SomeBytes == {1, 2}

MCFileId == [f \in {1, 2} |-> f]

MCInit ==
  /\ TelemetryInit /\ DumpInit
  /\ client \in {"telemetry", "hotspots"}
  /\ client = "hotspots" => walk /\ heap.total = 0 /\ now = 0

Telemetry ==
  client = "telemetry" /\ TelemetryNext /\ UNCHANGED <<client, dumpVars>>

ListHotspots ==
  client = "hotspots" /\ DumpNext /\ UNCHANGED <<client, telemetryVars>>

MCNext == Telemetry \/ ListHotspots

MCSpec == MCInit /\ [][MCNext]_<<client, telemetryVars, dumpVars>>
=============================================================================
