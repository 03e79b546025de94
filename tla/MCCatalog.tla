----------------------------- MODULE MCCatalog -----------------------------
(* One entry (the registry's entries share neither ports nor volumes) with  *)
(* two volumes and a port, and four overlapping requests: a remove, another *)
(* one that overtakes it, and the installs before and after.                *)
EXTENDS Catalog, TLC

CONSTANTS tdarr, p1, v1, v2

MCEntry     == {tdarr}
MCPortsOf   == [e \in MCEntry |-> {p1}]
MCVolumesOf == [e \in MCEntry |-> {v1, v2}]
Interchangeable == Permutations(Request)
=============================================================================
