----------------------------- MODULE MCPciScan ------------------------------
(* Instances of PciScan for TLC. *)
EXTENDS PciScan, FiniteSets

CONSTANT MaxFunctions

\* Machines of up to MaxFunctions functions, all of them on bus 0 or on the bus
\* behind some bridge; a device says it has several functions or not, whether
\* it has or not.
MCInit ==
  /\ \E P \in {Q \in SUBSET Places : Cardinality(Q) \in 1..MaxFunctions} :
     \E kinds \in [P -> Kinds] :
     \E several \in SUBSET {<<p[1], p[2]>> : p \in {q \in P : q[3] = 0}} :
     LET bridges == {p \in P : kinds[p] = "bridge"} IN
     \E behind \in [bridges -> Buses] :
       /\ {p[1] : p \in P} \subseteq {0} \cup {behind[q] : q \in bridges}
       /\ machine = [kind |-> kinds, multi |-> several, secondary |-> behind]
  /\ Boot

MCSpec == MCInit /\ [][Scan]_scanVars /\ WF_scanVars(Scan)
=============================================================================
