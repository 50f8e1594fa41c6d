--------------------------- MODULE MCLaneLifecycle ---------------------------
(* A small instance of LaneLifecycle for TLC.                               *)
EXTENDS LaneLifecycle

CONSTANTS h1, h2,     \* helpers
          s1, s2      \* sessions
==============================================================================
