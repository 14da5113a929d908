---------------------------- MODULE WasiNNRegistry ----------------------------
(***************************************************************************)
(* What the graph/context registry promises (spec 4.2, 3): two append-   *)
(* only arenas.  A graph entry is a backend tag; a context entry is the  *)
(* handle of the graph it is bound to, which already exists.  Entries    *)
(* are never changed, removed or reused, so a handle keeps naming the    *)
(* same entry for the registry's lifetime.                               *)
(***************************************************************************)
EXTENDS Naturals, Sequences

CONSTANT Backends

VARIABLES graphs, contexts

regVars == <<graphs, contexts>>

RegInit == graphs = <<>> /\ contexts = <<>>

AddGraph(b) ==
  /\ graphs' = Append(graphs, b)
  /\ UNCHANGED contexts

AddContext(g) ==
  /\ g < Len(graphs)
  /\ contexts' = Append(contexts, g)
  /\ UNCHANGED graphs

RegNext ==
  \/ \E b \in Backends : AddGraph(b)
  \/ \E g \in 0..(Len(graphs) - 1) : AddContext(g)

RegSpec == RegInit /\ [][RegNext]_regVars
=============================================================================
