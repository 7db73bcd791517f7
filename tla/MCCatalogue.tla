----------------------------- MODULE MCCatalogue -----------------------------
(* Catalogue for TLC: model values.                                        *)
EXTENDS Catalogue, TLC

CONSTANTS t1, r1, r2, a1, a2, g1

CatalogueSymmetry == Permutations({r1, r2})

=============================================================================
