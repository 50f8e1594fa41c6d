------------------------------ MODULE MCLaneRun ------------------------------
(* Small instances of LaneRun for TLC.                                      *)
EXTENDS LaneRun

CONSTANTS m1, m2     \* the messages
==============================================================================
