--------------------------- MODULE MCMessageFlow ----------------------------
(* Values for TLC: of the two requests and the message of another channel, one *)
(* request has a chat of its own.                                              *)
EXTENDS MessageFlow

CONSTANTS r1, r2, p1

MCChatOf == [m \in {r1, r2, p1} |-> IF m = r2 THEN "other" ELSE "one"]
=============================================================================
