--------------------------- MODULE MCCertRegistry ---------------------------
(* The registry on a small instance.  Certificate strings are only compared *)
(* for equality, so the runs take them up to permutation.                   *)
EXTENDS CertRegistryRefinement

Symmetry == Permutations(Cert)
=============================================================================
