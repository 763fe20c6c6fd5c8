---------------------------- MODULE MCCodexAdapter ----------------------------
(* Three requests: two callers use the same id at the same time, as the mobile *)
(* side of the bridge may; the third id is used once.                          *)
EXTENDS CodexAdapter, TLC

CONSTANTS r1, r2, r3, i1, i2

IdsOfRequests == (r1 :> i1 @@ r2 :> i1 @@ r3 :> i2)
===============================================================================
