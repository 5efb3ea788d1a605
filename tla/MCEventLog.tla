----------------------------- MODULE MCEventLog -----------------------------
(* Three ledgers, a safety margin of one, three faults, and a stop after    *)
(* two failures in a row.                                                   *)
EXTENDS EventLog
=============================================================================
