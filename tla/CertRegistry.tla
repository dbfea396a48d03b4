---------------------------- MODULE CertRegistry ----------------------------
(***************************************************************************)
(* The certificate registry kept on the IOTA EVM ledger: contract          *)
(* sc_backend of OCSP_v1.2_newcompiler.sol (v1.1 has the same text).       *)
(*                                                                         *)
(* The EVM runs one transaction at a time, so each public function that    *)
(* writes is one action; the block clock advances between transactions.    *)
(* createStruct is declared public, so it is an entry point of its own and *)
(* not only the helper of addCertificate.  View functions are operators.   *)
(***************************************************************************)
EXTENDS Integers, Sequences, SequencesExt

CONSTANTS
  Cert,   \* certificate strings a caller may send
  Blank,  \* the empty string: what an unwritten mapping slot reads as
  MaxID,  \* the largest uint the model distinguishes (2^256 - 1 on the EVM)
  Dates,  \* expiry dates a caller may send
  MaxTime \* bound of the model: how far the block clock runs

ASSUME BlankIsNotACertificate == Blank \notin Cert
ASSUME MaxIDAssumption == MaxID \in Nat \ {0}
ASSUME DatesAssumption == Dates \subseteq Nat
ASSUME MaxTimeAssumption == MaxTime \in Nat

VARIABLES
  certificates,      \* mapping(uint => Certificate), total: every uint reads
  certificateIDs,    \* uint[]: one entry pushed per createStruct
  certificateIDincr, \* the slot the next certificate goes to
  now,               \* block.timestamp
  receipt            \* events of the last transaction

vars == <<certificates, certificateIDs, certificateIDincr, now, receipt>>

ID == 0 .. MaxID
CertString == Cert \union {Blank}

Certificate == [certificate : CertString, expireDate : Nat, revoked : BOOLEAN]
Unwritten == [certificate |-> Blank, expireDate |-> 0, revoked |-> FALSE]

SendEvent(c, e) == [event |-> "sendCertificate", certificate |-> c, expireDate |-> e]
RevokedEvent(id) ==
  [event |-> "revokedCertificate", id |-> id,
   certificate |-> certificates[id].certificate,
   expireDate  |-> certificates[id].expireDate]

\* Mutant of Init: ids counted from 0, as the scans do.
InitFromZero ==
  /\ certificates = [id \in ID |-> Unwritten]
  /\ certificateIDs = <<>>
  /\ certificateIDincr = 0
  /\ now = 0
  /\ receipt = {}

Init ==
  /\ certificates = [id \in ID |-> Unwritten]
  /\ certificateIDs = <<>>
  /\ certificateIDincr = 1
  /\ now = 0
  /\ receipt = {}

-----------------------------------------------------------------------------
(* Transactions.  SlotLeft bounds the model: on the EVM the same guard is  *)
(* the impossibility of 2^256 calls.                                       *)

SlotLeft == certificateIDincr < MaxID /\ Len(certificateIDs) < MaxID

\* Mutant of WriteStruct: the slot is computed from the array, not the counter.
WriteStructAtLength(c, e) ==
  /\ SlotLeft
  /\ certificates' =
       [certificates EXCEPT ![Len(certificateIDs)] =
          [certificate |-> c, expireDate |-> e, revoked |-> FALSE]]
  /\ certificateIDs' = Append(certificateIDs, certificateIDincr)

\* The storage writes of createStruct, whoever calls it.
WriteStruct(c, e) ==
  /\ SlotLeft
  /\ certificates' =
       [certificates EXCEPT ![certificateIDincr] =
          [certificate |-> c, expireDate |-> e, revoked |-> FALSE]]
  /\ certificateIDs' = Append(certificateIDs, certificateIDincr)

\* createStruct called as a transaction: the slot is not consumed, no event.
CreateStruct(c, e) ==
  /\ WriteStruct(c, e)
  /\ receipt' = {}
  /\ UNCHANGED <<certificateIDincr, now>>

\* Mutant of AddCertificate: the counter is incremented before createStruct.
AddCertificateIncrementFirst(c, e) ==
  /\ SlotLeft
  /\ certificateIDincr' = certificateIDincr + 1
  /\ certificates' =
       [certificates EXCEPT ![certificateIDincr'] =
          [certificate |-> c, expireDate |-> e, revoked |-> FALSE]]
  /\ certificateIDs' = Append(certificateIDs, certificateIDincr')
  /\ receipt' = {SendEvent(c, e)}
  /\ UNCHANGED now

AddCertificate(c, e) ==
  /\ WriteStruct(c, e)
  /\ certificateIDincr' = certificateIDincr + 1
  /\ receipt' = {SendEvent(c, e)}
  /\ UNCHANGED now

\* Mutant of RevokeCertificateByID: a second call takes the first one back.
RevokeCertificateByIDToggles(id) ==
  /\ certificates' = [certificates EXCEPT ![id].revoked = ~@]
  /\ receipt' = {RevokedEvent(id)}
  /\ UNCHANGED <<certificateIDs, certificateIDincr, now>>

RevokeCertificateByID(id) ==
  /\ certificates' = [certificates EXCEPT ![id].revoked = TRUE]
  /\ receipt' = {RevokedEvent(id)}
  /\ UNCHANGED <<certificateIDs, certificateIDincr, now>>

\* Mutant of Scanned: the usual "i < certificateIDs.length".
ScannedBelowLength == 0 .. Len(certificateIDs) - 1

\* The range of the contract's two scans: i = 0; i <= certificateIDs.length.
Scanned == 0 .. Len(certificateIDs)

\* Mutant of Matching: the "break" is back.
MatchingUntilBreak(c) ==
  {i \in Scanned : /\ certificates[i].certificate = c
                   /\ \A k \in 0 .. i - 1 : certificates[k].certificate # c}

Matching(c) == {i \in Scanned : certificates[i].certificate = c}

\* Mutant of RevokeCertificate: the loop sets the flags itself, without events.
RevokeCertificateSilently(c) ==
  /\ certificates' = [i \in ID |-> IF i \in Matching(c)
                                   THEN [certificates[i] EXCEPT !.revoked = TRUE]
                                   ELSE certificates[i]]
  /\ receipt' = {}
  /\ UNCHANGED <<certificateIDs, certificateIDincr, now>>

\* The loop's "break" is commented out: every match is revoked.
RevokeCertificate(c) ==
  /\ certificates' = [i \in ID |-> IF i \in Matching(c)
                                   THEN [certificates[i] EXCEPT !.revoked = TRUE]
                                   ELSE certificates[i]]
  /\ receipt' = {RevokedEvent(i) : i \in Matching(c)}
  /\ UNCHANGED <<certificateIDs, certificateIDincr, now>>

\* A new block: the environment moves block.timestamp.
NewBlock ==
  /\ now < MaxTime
  /\ now' = now + 1
  /\ receipt' = {}
  /\ UNCHANGED <<certificates, certificateIDs, certificateIDincr>>

Next ==
  \/ \E c \in CertString, e \in Dates : CreateStruct(c, e)
  \/ \E c \in CertString, e \in Dates : AddCertificate(c, e)
  \/ \E id \in ID : RevokeCertificateByID(id)
  \/ \E c \in CertString : RevokeCertificate(c)
  \/ NewBlock

Spec == Init /\ [][Next]_vars

-----------------------------------------------------------------------------
(* Views.                                                                  *)

Listed(i) == certificates[i].expireDate > now /\ ~certificates[i].revoked

\* Mutant of GetAllCertificates: certificateIDs_valid[i] = i, not packed.
GetAllCertificatesUnpacked ==
  [k \in 0 .. Len(certificateIDs) |-> IF Listed(k) THEN k ELSE 0]

\* The loop of getAllCertificates: valid ids packed at the front of a
\* zero-filled array with one place more than certificateIDs has.
GetAllCertificates ==
  LET n == Len(certificateIDs)
      Pack(acc, i) ==
        IF Listed(i)
        THEN [ids |-> [acc.ids EXCEPT ![acc.j] = i], j |-> acc.j + 1]
        ELSE acc
      start == [ids |-> [k \in 0 .. n |-> 0], j |-> 0]
  IN  FoldLeft(Pack, start, [k \in 1 .. n + 1 |-> k - 1]).ids

GetCertificatesNumber == Len(certificateIDs)

-----------------------------------------------------------------------------
(* Properties.                                                             *)

Issued == 1 .. certificateIDincr - 1   \* ids handed out by addCertificate

\* Every variable stays in its type.
TypeOK ==
  /\ certificates \in [ID -> Certificate]
  /\ certificateIDs \in Seq(ID)
  /\ Len(certificateIDs) <= MaxID
  /\ certificateIDincr \in 1 .. MaxID
  /\ now \in Nat

\* A slot some caller wrote: it no longer reads as the mapping's default.
Written(id) == certificates[id].certificate # Blank \/ certificates[id].expireDate # 0

\* Slots are numbered from 1 while both scans run 0..length, so the scans
\* reach a slot exactly when its number is at most the length of
\* certificateIDs.  Every slot a caller ever wrote is reached, whatever mix
\* of addCertificate and direct createStruct calls wrote it.
WrittenSlotsScanned == \A id \in ID : Written(id) => id \in Scanned \ {0}

\* Why: the array grew at least as often as the counter, nothing is written
\* ahead of the counter's slot, and if that slot is written (createStruct
\* called directly) the array is one entry ahead.
CounterAndArrayAgree ==
  /\ certificateIDincr - 1 <= Len(certificateIDs)
  /\ \A id \in ID : Written(id) => id \in 1 .. certificateIDincr
  /\ Written(certificateIDincr) => certificateIDincr <= Len(certificateIDs)

\* getAllCertificates against its meaning: a reader that stops at the first
\* zero (as GetAllCerts.js does) sees, in ascending order, every slot of the
\* whole mapping that is unexpired and unrevoked, and no other.
ListingExact ==
  LET ids == GetAllCertificates
      end == CHOOSE k \in 0 .. Len(certificateIDs) + 1 :
               /\ k = Len(certificateIDs) + 1 \/ ids[k] = 0
               /\ \A l \in 0 .. k - 1 : ids[l] # 0
  IN  /\ {ids[k] : k \in 0 .. end - 1} = {id \in ID : Listed(id)}
      /\ \A k \in 1 .. end - 1 : ids[k - 1] < ids[k]

\* A certificate's record is never edited after its id was issued, and its
\* revocation is never undone, although createStruct is public and resets
\* the revoked flag of the slot it writes.
IssuedRecordsFinal ==
  [][\A id \in Issued :
       /\ certificates'[id].certificate = certificates[id].certificate
       /\ certificates'[id].expireDate = certificates[id].expireDate
       /\ certificates[id].revoked => certificates'[id].revoked]_vars

\* A transaction that revokes a certificate string leaves no copy of it in
\* the listing: duplicates, and a copy in the slot not issued yet, included.
RevocationLeavesNoCopy ==
  [][\A c \in CertString : RevokeCertificate(c) =>
       \A id \in ID : certificates'[id].certificate = c => ~Listed(id)']_vars

\* A subscriber that only follows events misses nothing about issued ids: an
\* id is issued exactly in a transaction that emits sendCertificate with its
\* final content, and turns revoked only in one that emits its revocation.
EventsAccountForIssued ==
  [][/\ certificateIDincr' # certificateIDincr
          <=> \E ev \in receipt' : /\ ev.event = "sendCertificate"
                                   /\ ev = SendEvent(certificates'[certificateIDincr].certificate,
                                                     certificates'[certificateIDincr].expireDate)
     /\ \A id \in Issued : certificates'[id].revoked # certificates[id].revoked
          => \E ev \in receipt' : ev.event = "revokedCertificate" /\ ev.id = id]_vars
=============================================================================
