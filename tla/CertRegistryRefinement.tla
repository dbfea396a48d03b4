----------------------- MODULE CertRegistryRefinement -----------------------
(***************************************************************************)
(* CertRegistry implements OCSPLedger.  The issued certificates are the    *)
(* slots below certificateIDincr; the slot createStruct may have filled    *)
(* ahead of its number, the revoked flag of numbers nobody was given, and  *)
(* the receipts are implementation detail.                                 *)
(***************************************************************************)
EXTENDS CertRegistry

IssuedList ==
  [n \in 1 .. certificateIDincr - 1 |->
     [certificate |-> certificates[n].certificate,
      expireDate  |-> certificates[n].expireDate]]

RevokedNumbers == {n \in 1 .. certificateIDincr - 1 : certificates[n].revoked}

Ledger == INSTANCE OCSPLedger
            WITH issued <- IssuedList, revoked <- RevokedNumbers, clock <- now

\* The contract behaves as an append-only list of issued certificates with
\* permanent revocation, under every mix of its public calls.
ImplementsLedger == Ledger!LedgerSpec
=============================================================================
