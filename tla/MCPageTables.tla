---------------------------- MODULE MCPageTables ----------------------------
(* Tables of 10 pages and words of 8 bits.  One or two frames are not free. *)
(* There is more memory than the first table maps, with and without holes   *)
(* in it, or less, or too little for the tables of the boot.                *)
EXTENDS PageTables

MCFreeSets == {2..22, (2..20) \ {9, 10}, 2..17, 1..8, 2..6, 2..3}
MCDevices == {<<69, 2>>, <<81, 1>>}

ASSUME MCAssumption == Room
=============================================================================
