--------------------------- MODULE MCMonitorStore ---------------------------
(***************************************************************************)
(* Small instances of MonitorStore for TLC.                                *)
(***************************************************************************)
EXTENDS MonitorStore
=============================================================================
