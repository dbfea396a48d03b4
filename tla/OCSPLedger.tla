----------------------------- MODULE OCSPLedger -----------------------------
(***************************************************************************)
(* What the registry promises to whoever checks a certificate's status: an *)
(* append-only list of issued certificates, numbered from 1, and a set of  *)
(* revoked numbers that only grows.  No slots, no scans, no half-written   *)
(* record.  CertRegistry implements it (CertRegistryRefinement).           *)
(***************************************************************************)
EXTENDS Integers, Sequences

CONSTANTS
  CertString, \* what a caller may register
  Dates       \* expiry dates

VARIABLES
  issued,  \* sequence of [certificate, expireDate]
  revoked, \* numbers of the revoked ones
  clock    \* the ledger's time

ledgerVars == <<issued, revoked, clock>>

Entry(c, e) == [certificate |-> c, expireDate |-> e]

LedgerInit == issued = <<>> /\ revoked = {} /\ clock = 0

Issue(c, e) ==
  /\ issued' = Append(issued, Entry(c, e))
  /\ UNCHANGED <<revoked, clock>>

RevokeNumber(n) ==
  /\ revoked' = revoked \union {n}
  /\ UNCHANGED <<issued, clock>>

\* Revoking a certificate revokes every number it was issued under.
RevokeEvery(c) ==
  /\ revoked' = revoked \union {n \in 1 .. Len(issued) : issued[n].certificate = c}
  /\ UNCHANGED <<issued, clock>>

Advance ==
  /\ clock' = clock + 1
  /\ UNCHANGED <<issued, revoked>>

LedgerNext ==
  \/ \E c \in CertString, e \in Dates : Issue(c, e)
  \/ \E n \in 1 .. Len(issued) : RevokeNumber(n)
  \/ \E c \in CertString : RevokeEvery(c)
  \/ Advance

LedgerSpec == LedgerInit /\ [][LedgerNext]_ledgerVars
=============================================================================
