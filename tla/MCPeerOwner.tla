----------------------------- MODULE MCPeerOwner -----------------------------
(* Small instances of PeerOwner for TLC.                                    *)
EXTENDS PeerOwner, TLC

CONSTANTS h1, h2,          \* helpers
          s1, s2,          \* sessions
          m1, m2           \* messages

\* Helpers and sessions differ in nothing but their names.
Symmetry == Permutations(Helpers) \cup Permutations(Sessions)
==============================================================================
