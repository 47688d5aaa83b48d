--------------------------- MODULE MCSourceToAward ---------------------------
(* Symmetry of the suppliers for TLC: no definition of SourceToAward tells  *)
(* them apart.                                                             *)
EXTENDS SourceToAward, TLC

SupplierSymmetry == Permutations(Suppliers)

=============================================================================
