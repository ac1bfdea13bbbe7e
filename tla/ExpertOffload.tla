--------------------------- MODULE ExpertOffload ---------------------------
(***************************************************************************)
(* A model whose expert weights are not all on the device moves them on    *)
(* one of two paths, chosen when it is built: whole layers prefetched      *)
(* through two slots (PrefetchEngine), or experts on demand through a      *)
(* bounded cache (ExpertSlots).  Both race the compute stream.             *)
(***************************************************************************)
EXTENDS PrefetchEngine, ExpertSlots

VARIABLE path

offloadVars == <<gpu, prefetchVars, slotVars, path>>

Init ==
  /\ path \in {"prefetch", "slots"}
  /\ StreamsInit /\ PrefetchInit /\ SlotsInit
  /\ path = "slots" => moe_layers = 1
  /\ path = "prefetch" => cap = 1

Next ==
  /\ \/ path = "prefetch" /\ PrefetchNext /\ UNCHANGED slotVars
     \/ path = "slots" /\ SlotsNext /\ UNCHANGED prefetchVars
     \/ Device /\ UNCHANGED <<prefetchVars, slotVars>>
  /\ UNCHANGED path

Spec == Init /\ [][Next]_offloadVars
=============================================================================
