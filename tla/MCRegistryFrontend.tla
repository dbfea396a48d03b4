------------------------- MODULE MCRegistryFrontend -------------------------
(* Forms: every transaction, two handlers, a registry with room for one   *)
(* id.  Listings: one handler and a registry with two ids.                 *)
EXTENDS RegistryFrontend, TLC

CONSTANTS c1, h1, h2

McCert == {c1}
TwoHandlers == {h1, h2}
OneHandler == {h1}
Symmetry == Permutations(TwoHandlers)

McCalls ==
  {[op |-> "addCertificate", certificate |-> c1, expireDate |-> 1],
   [op |-> "revokeCertificate", certificate |-> c1],
   [op |-> "revokeCertificateByID", id |-> 1]}
RevokeOnly == {[op |-> "revokeCertificate", certificate |-> c1]}
=============================================================================
