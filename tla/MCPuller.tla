------------------------------ MODULE MCPuller ------------------------------
(***************************************************************************)
(* Puller on a small instance: a file of a few blocks, the last of which   *)
(* is zeroes, and a deletion.  An older temporary file has the right       *)
(* contents in all blocks, or in some, or is too long.                     *)
(***************************************************************************)
EXTENDS Puller, TLC

CONSTANTS u, N

MCBlocksOf == u :> 1..N

MCOldTemps(x) ==
  {NoTemp(x),
   [b \in Slots(x) |-> CASE b = 0 -> "missing" [] b = 1 -> "data" [] b > 1 -> "junk"],
   [b \in Slots(x) |-> IF b = 0 THEN "missing" ELSE Want(b)],
   [b \in Slots(x) |-> CASE b = 0 -> "junk" [] b = 1 -> "data" [] b > 1 -> "zero"]}
=============================================================================
