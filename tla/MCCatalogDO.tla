----------------------------- MODULE MCCatalogDO ----------------------------
(* Small instances of the catalog for TLC.                                 *)
EXTENDS CatalogDO, TLC

CatalogSymmetry == Permutations(Tables) \cup Permutations(Jobs)
                   \cup Permutations(Triggers) \cup Permutations(Uris)
=============================================================================
