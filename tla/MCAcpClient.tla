----------------------------- MODULE MCAcpClient -----------------------------
(* Small instances of AcpClient for TLC: two or three calls, one of them an *)
(* interject, and pipes of one frame, so that every write can block.        *)
EXTENDS AcpClient
==============================================================================
