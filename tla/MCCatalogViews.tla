--------------------------- MODULE MCCatalogViews ---------------------------
(* Small instances of the view synchronisation for TLC.                    *)
EXTENDS CatalogViews
=============================================================================
