----------------------------- MODULE MCPhysMem ------------------------------
(***************************************************************************)
(* A small PC for TLC, with blocks of 4 bytes: base memory of 4 blocks and *)
(* a bit, a hole of 4 frames up to frame 8 (the adapters), then 8 blocks   *)
(* and a bit above it, and the kernel in a block and a half of those.  The *)
(* map's bytes have 4 bits, of which the fill sets 2, and its words 8.     *)
(***************************************************************************)
EXTENDS PhysMem

BaseMemory == <<0, 19>>
Extended   == <<32, 34>>
MCRegions  == <<BaseMemory, Extended>>
MCKernel   == <<32, 6>>
MCLow      == <<0, 8>>

ASSUME MCAssumption == BootedAsMapped
=============================================================================
