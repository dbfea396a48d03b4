------------------------ MODULE CertRegistry_proofs ------------------------
(***************************************************************************)
(* Machine-checked proofs about the registry, for every set of             *)
(* certificates, every set of dates and every MaxID.                       *)
(*                                                                         *)
(* Inv, the inductive invariant, is TypeOK together with                   *)
(* CounterAndArrayAgree.  That is what ties the slot counter to the length *)
(* of certificateIDs, on which the range of both scans depends. What the   *)
(* listing returns follows from it by an induction over the loop.          *)
(***************************************************************************)
EXTENDS CertRegistryRefinement, SequenceTheorems, FiniteSetTheorems, TLAPS

Inv == TypeOK /\ CounterAndArrayAgree

-----------------------------------------------------------------------------
\* WriteStruct keeps the types of the storage it writes.
LEMMA WriteStructType ==
  ASSUME TypeOK, NEW c \in CertString, NEW e \in Dates, WriteStruct(c, e)
  PROVE  /\ certificates' \in [ID -> Certificate]
         /\ certificateIDs' \in Seq(ID)
         /\ Len(certificateIDs') = Len(certificateIDs) + 1
         /\ Len(certificateIDs') <= MaxID
         /\ certificateIDincr \in 1 .. MaxID - 1
  <1>1. certificateIDincr \in 1 .. MaxID - 1 /\ certificateIDincr \in ID
    BY MaxIDAssumption DEF TypeOK, WriteStruct, SlotLeft, ID
  <1>2. [certificate |-> c, expireDate |-> e, revoked |-> FALSE] \in Certificate
    BY DatesAssumption DEF Certificate
  <1>3. certificates' \in [ID -> Certificate]
    BY <1>1, <1>2 DEF TypeOK, WriteStruct
  <1>4. /\ certificateIDs' \in Seq(ID)
        /\ Len(certificateIDs') = Len(certificateIDs) + 1
        /\ Len(certificateIDs') <= MaxID
    BY <1>1, MaxIDAssumption DEF TypeOK, WriteStruct, SlotLeft
  <1>. QED  BY <1>1, <1>3, <1>4

\* TypeOK is inductive by itself: each transaction keeps the storage in its type.
LEMMA TypeStep == TypeOK /\ [Next]_vars => TypeOK'
  <1>. SUFFICES ASSUME TypeOK, [Next]_vars PROVE TypeOK'
    OBVIOUS
  <1>1. ASSUME NEW c \in CertString, NEW e \in Dates, CreateStruct(c, e)
        PROVE  TypeOK'
    BY <1>1, WriteStructType DEF CreateStruct, TypeOK
  <1>2. ASSUME NEW c \in CertString, NEW e \in Dates, AddCertificate(c, e)
        PROVE  TypeOK'
    BY <1>2, WriteStructType, MaxIDAssumption DEF AddCertificate, TypeOK
  <1>3. ASSUME NEW id \in ID, RevokeCertificateByID(id)
        PROVE  TypeOK'
    <2>1. [certificates[id] EXCEPT !.revoked = TRUE] \in Certificate
      BY DEF TypeOK, Certificate
    <2>. QED  BY <1>3, <2>1 DEF RevokeCertificateByID, TypeOK
  <1>4. ASSUME NEW c \in CertString, RevokeCertificate(c)
        PROVE  TypeOK'
    <2>1. \A i \in ID : [certificates[i] EXCEPT !.revoked = TRUE] \in Certificate
      BY DEF TypeOK, Certificate
    <2>. QED  BY <1>4, <2>1 DEF RevokeCertificate, TypeOK
  <1>5. CASE NewBlock
    BY <1>5 DEF NewBlock, TypeOK
  <1>6. CASE UNCHANGED vars
    BY <1>6 DEF vars, TypeOK
  <1>. QED  BY <1>1, <1>2, <1>3, <1>4, <1>5, <1>6 DEF Next

\* Every reachable state of the contract is in its type.
THEOREM TypeCorrect == Spec => []TypeOK
  <1>1. Init => TypeOK
    BY MaxIDAssumption DEF Init, TypeOK, Unwritten, Certificate, CertString
  <1>. QED  BY <1>1, TypeStep, PTL DEF Spec

-----------------------------------------------------------------------------
\* Revoking touches no slot's certificate or date, so the same slots are written.
LEMMA RevokeKeepsContent ==
  ASSUME TypeOK,
         \/ \E id \in ID : RevokeCertificateByID(id)
         \/ \E c \in CertString : RevokeCertificate(c)
  PROVE  \A i \in ID : /\ certificates'[i].certificate = certificates[i].certificate
                       /\ certificates'[i].expireDate = certificates[i].expireDate
                       /\ certificates[i].revoked => certificates'[i].revoked
  <1>1. \A i \in ID : certificates[i] \in Certificate
    BY DEF TypeOK
  <1>2. ASSUME NEW id \in ID, RevokeCertificateByID(id), NEW i \in ID
        PROVE  /\ certificates'[i].certificate = certificates[i].certificate
               /\ certificates'[i].expireDate = certificates[i].expireDate
               /\ certificates[i].revoked => certificates'[i].revoked
    BY <1>1, <1>2 DEF TypeOK, RevokeCertificateByID, Certificate
  <1>3. ASSUME NEW c \in CertString, RevokeCertificate(c), NEW i \in ID
        PROVE  /\ certificates'[i].certificate = certificates[i].certificate
               /\ certificates'[i].expireDate = certificates[i].expireDate
               /\ certificates[i].revoked => certificates'[i].revoked
    BY <1>1, <1>3 DEF TypeOK, RevokeCertificate, Certificate
  <1>. QED  BY <1>2, <1>3

\* A write fills the counter's slot and no other.
LEMMA WriteStructContent ==
  ASSUME TypeOK, NEW c \in CertString, NEW e \in Dates, WriteStruct(c, e)
  PROVE  /\ \A i \in ID \ {certificateIDincr} : certificates'[i] = certificates[i]
         /\ certificates'[certificateIDincr] =
              [certificate |-> c, expireDate |-> e, revoked |-> FALSE]
  BY MaxIDAssumption DEF TypeOK, WriteStruct, SlotLeft, ID

\* TypeOK and the agreement of counter and array are inductive together.
LEMMA InvStep == Inv /\ [Next]_vars => Inv'
  <1>. SUFFICES ASSUME Inv, [Next]_vars PROVE CounterAndArrayAgree'
    BY TypeStep DEF Inv
  <1>. USE DEF Inv
  <1>0. certificateIDincr \in ID /\ certificateIDincr \in Nat /\ Len(certificateIDs) \in Nat
    BY MaxIDAssumption DEF TypeOK, ID
  <1>1. ASSUME NEW c \in CertString, NEW e \in Dates, CreateStruct(c, e)
        PROVE  CounterAndArrayAgree'
    <2>1. /\ Len(certificateIDs') = Len(certificateIDs) + 1
          /\ certificateIDincr' = certificateIDincr
          /\ \A i \in ID \ {certificateIDincr} : certificates'[i] = certificates[i]
      BY <1>1, WriteStructType, WriteStructContent DEF CreateStruct
    <2>2. \A id \in ID : Written(id)' => id \in 1 .. certificateIDincr
      BY <1>0, <2>1 DEF CounterAndArrayAgree, Written, TypeOK
    <2>. QED  BY <1>0, <2>1, <2>2 DEF CounterAndArrayAgree
  <1>2. ASSUME NEW c \in CertString, NEW e \in Dates, AddCertificate(c, e)
        PROVE  CounterAndArrayAgree'
    <2>1. /\ Len(certificateIDs') = Len(certificateIDs) + 1
          /\ certificateIDincr' = certificateIDincr + 1
          /\ certificateIDincr + 1 \in ID
          /\ \A i \in ID \ {certificateIDincr} : certificates'[i] = certificates[i]
      BY <1>2, WriteStructType, WriteStructContent, MaxIDAssumption DEF AddCertificate, ID
    <2>2. \A id \in ID : Written(id)' => id \in 1 .. certificateIDincr
      BY <1>0, <2>1 DEF CounterAndArrayAgree, Written, TypeOK
    <2>3. ~ Written(certificateIDincr)'
      BY <1>0, <2>1, <2>2 
    <2>. QED  BY <1>0, <2>1, <2>2, <2>3 DEF CounterAndArrayAgree
  <1>3. ASSUME \/ \E id \in ID : RevokeCertificateByID(id)
               \/ \E c \in CertString : RevokeCertificate(c)
        PROVE  CounterAndArrayAgree'
    <2>1. \A i \in ID : Written(i)' <=> Written(i)
      BY <1>3, RevokeKeepsContent DEF Written
    <2>2. UNCHANGED <<certificateIDs, certificateIDincr>>
      BY <1>3 DEF RevokeCertificateByID, RevokeCertificate
    <2>. QED  BY <1>0, <2>1, <2>2 DEF CounterAndArrayAgree, Written
  <1>4. CASE NewBlock
    BY <1>4 DEF NewBlock, CounterAndArrayAgree, Written
  <1>5. CASE UNCHANGED vars
    BY <1>5 DEF vars, CounterAndArrayAgree, Written
  <1>. QED  BY <1>1, <1>2, <1>3, <1>4, <1>5 DEF Next

\* The counter and the id array agree in every reachable state.
LEMMA InitInv == Init => Inv
  BY MaxIDAssumption DEF Init, Inv, TypeOK, CounterAndArrayAgree, Written, Unwritten,
                         Certificate, CertString, ID

\* It holds in every reachable state.
LEMMA InvAlwaysHolds == Spec => []Inv
  BY InitInv, InvStep, PTL DEF Spec

\* The counter's array keeps up with every slot written, whoever writes it.
THEOREM CounterAndArrayAlwaysAgree == Spec => []CounterAndArrayAgree
  <1>1. Inv => CounterAndArrayAgree
    BY DEF Inv
  <1>. QED  BY <1>1, InvAlwaysHolds, PTL

\* Where counter and array agree, the scans reach every written slot.
LEMMA InvReach == Inv => WrittenSlotsScanned
  <1>. SUFFICES ASSUME Inv, NEW id \in ID, Written(id) PROVE id \in Scanned \ {0}
    BY DEF WrittenSlotsScanned
  <1>1. CASE id = certificateIDincr
    BY <1>1, MaxIDAssumption DEF Inv, CounterAndArrayAgree, Scanned, TypeOK
  <1>2. CASE id # certificateIDincr
    BY <1>2, MaxIDAssumption DEF Inv, CounterAndArrayAgree, Scanned, TypeOK
  <1>. QED  BY <1>1, <1>2

\* No certificate anyone stored is out of the reach of the contract's scans.
THEOREM WrittenSlotsAlwaysScanned == Spec => []WrittenSlotsScanned
  BY InvAlwaysHolds, InvReach, PTL

-----------------------------------------------------------------------------
\* One step never edits an issued record nor takes its revocation back.
LEMMA IssuedStep ==
  ASSUME Inv, [Next]_vars, NEW id \in Issued
  PROVE  /\ id \in ID
         /\ certificates'[id].certificate = certificates[id].certificate
         /\ certificates'[id].expireDate = certificates[id].expireDate
         /\ certificates[id].revoked => certificates'[id].revoked
  <1>1. id \in ID /\ id # certificateIDincr
    BY MaxIDAssumption DEF Inv, TypeOK, Issued, ID
  <1>2. CASE \E c \in CertString, e \in Dates : CreateStruct(c, e) \/ AddCertificate(c, e)
    BY <1>1, <1>2, WriteStructContent DEF Inv, CreateStruct, AddCertificate
  <1>3. CASE \/ \E i \in ID : RevokeCertificateByID(i)
             \/ \E c \in CertString : RevokeCertificate(c)
    BY <1>1, <1>3, RevokeKeepsContent DEF Inv
  <1>4. CASE NewBlock \/ UNCHANGED vars
    BY <1>1, <1>4 DEF NewBlock, vars
  <1>. QED  BY <1>1, <1>2, <1>3, <1>4 DEF Next

\* Issued records are final and revocation is permanent.
THEOREM IssuedRecordsAreFinal == Spec => IssuedRecordsFinal
  <1>1. Inv /\ [Next]_vars =>
          [\A id \in Issued :
             /\ certificates'[id].certificate = certificates[id].certificate
             /\ certificates'[id].expireDate = certificates[id].expireDate
             /\ certificates[id].revoked => certificates'[id].revoked]_vars
    BY IssuedStep
  <1>. QED  BY <1>1, InvAlwaysHolds, PTL DEF Spec, IssuedRecordsFinal

\* A revocation by certificate string takes every copy off the listing.
THEOREM RevocationIsComplete == Spec => RevocationLeavesNoCopy
  <1>1. ASSUME Inv, NEW c \in CertString, RevokeCertificate(c),
               NEW id \in ID, certificates'[id].certificate = c
        PROVE  ~Listed(id)'
    <2>1. certificates[id] \in Certificate
      BY <1>1 DEF Inv, TypeOK
    <2>2. CASE id \in Matching(c)
      BY <1>1, <2>1, <2>2 DEF RevokeCertificate, Listed, Certificate
    <2>3. CASE id \notin Matching(c)
      <3>1. certificates'[id] = certificates[id] /\ now' = now
        BY <1>1, <2>3 DEF RevokeCertificate
      <3>2. ~Written(id)
        BY <1>1, <2>3, <3>1, InvReach DEF WrittenSlotsScanned, Matching
      <3>. QED  BY <1>1, <3>1, <3>2 DEF Listed, Written, Inv, TypeOK
    <2>. QED  BY <2>2, <2>3
  <1>2. Inv /\ [Next]_vars =>
          [\A c \in CertString : RevokeCertificate(c) =>
             \A id \in ID : certificates'[id].certificate = c => ~Listed(id)']_vars
    BY <1>1
  <1>. QED  BY <1>2, InvAlwaysHolds, PTL DEF Spec, RevocationLeavesNoCopy

\* One step's receipt tells of the id it issues and of those it revokes.
LEMMA EventsStep ==
  ASSUME Inv, [Next]_vars, ~UNCHANGED vars
  PROVE  /\ certificateIDincr' # certificateIDincr
              <=> \E ev \in receipt' :
                    /\ ev.event = "sendCertificate"
                    /\ ev = SendEvent(certificates'[certificateIDincr].certificate,
                                      certificates'[certificateIDincr].expireDate)
         /\ \A id \in Issued : certificates'[id].revoked # certificates[id].revoked
              => \E ev \in receipt' : ev.event = "revokedCertificate" /\ ev.id = id
  <1>1. certificateIDincr \in ID /\ certificateIDincr \in Nat
    BY MaxIDAssumption DEF Inv, TypeOK, ID
  <1>2. \A id \in Issued : id \in ID /\ id # certificateIDincr
    BY <1>1, MaxIDAssumption DEF Inv, TypeOK, Issued, ID
  <1>3. \A id : RevokedEvent(id).event = "revokedCertificate" /\ RevokedEvent(id).id = id
    BY DEF RevokedEvent
  <1>4. ASSUME NEW c \in CertString, NEW e \in Dates, AddCertificate(c, e)
        PROVE  /\ certificateIDincr' # certificateIDincr
               /\ SendEvent(certificates'[certificateIDincr].certificate,
                            certificates'[certificateIDincr].expireDate) \in receipt'
               /\ \A id \in Issued : certificates'[id] = certificates[id]
    <2>1. /\ certificateIDincr' = certificateIDincr + 1 /\ receipt' = {SendEvent(c, e)}
          /\ certificates'[certificateIDincr] = [certificate |-> c, expireDate |-> e, revoked |-> FALSE]
          /\ \A i \in ID \ {certificateIDincr} : certificates'[i] = certificates[i]
      BY <1>4, WriteStructContent DEF Inv, AddCertificate
    <2>2. SendEvent(certificates'[certificateIDincr].certificate,
                    certificates'[certificateIDincr].expireDate) = SendEvent(c, e)
      BY <2>1
    <2>3. \A id \in Issued : certificates'[id] = certificates[id]
      BY <1>2, <2>1
    <2>4. certificateIDincr' # certificateIDincr
      BY <1>1, <2>1
    <2>5. SendEvent(certificates'[certificateIDincr].certificate,
                    certificates'[certificateIDincr].expireDate) \in receipt'
      BY <2>1, <2>2, Zenon
    <2>. QED  BY <2>3, <2>4, <2>5
  <1>5. ASSUME NEW c \in CertString, NEW e \in Dates, CreateStruct(c, e)
        PROVE  /\ certificateIDincr' = certificateIDincr /\ receipt' = {}
               /\ \A id \in Issued : certificates'[id] = certificates[id]
    BY <1>2, <1>5, WriteStructContent DEF Inv, CreateStruct
  <1>6. ASSUME NEW i \in ID, RevokeCertificateByID(i)
        PROVE  /\ certificateIDincr' = certificateIDincr /\ receipt' = {RevokedEvent(i)}
               /\ \A id \in Issued : certificates'[id] # certificates[id] => id = i
    BY <1>2, <1>6 DEF Inv, TypeOK, RevokeCertificateByID
  <1>7. ASSUME NEW c \in CertString, RevokeCertificate(c)
        PROVE  /\ certificateIDincr' = certificateIDincr
               /\ receipt' = {RevokedEvent(i) : i \in Matching(c)}
               /\ \A id \in Issued : certificates'[id] # certificates[id] => id \in Matching(c)
    BY <1>2, <1>7 DEF Inv, TypeOK, RevokeCertificate
  <1>8. CASE NewBlock
    BY <1>2, <1>8 DEF NewBlock
  <1>9. SendEvent(certificates'[certificateIDincr].certificate,
                  certificates'[certificateIDincr].expireDate).event = "sendCertificate"
    BY DEF SendEvent
  <1>10. CASE \E c \in CertString, e \in Dates : AddCertificate(c, e)
    BY <1>4, <1>9, <1>10
  <1>11. CASE \E c \in CertString, e \in Dates : CreateStruct(c, e)
    BY <1>5, <1>11
  <1>12. CASE \E i \in ID : RevokeCertificateByID(i)
    <2>1. PICK i \in ID : RevokeCertificateByID(i)
      BY <1>12
    <2>. QED  BY <1>3, <1>6, <2>1
  <1>13. CASE \E c \in CertString : RevokeCertificate(c)
    <2>1. PICK c \in CertString : RevokeCertificate(c)
      BY <1>13
    <2>. QED  BY <1>3, <1>7, <2>1
  <1>. QED  BY <1>8, <1>10, <1>11, <1>12, <1>13 DEF Next

\* Who follows the events knows every issued id and every revocation.
THEOREM EventsAlwaysAccountForIssued == Spec => EventsAccountForIssued
  <1>1. Inv /\ [Next]_vars =>
          [/\ certificateIDincr' # certificateIDincr
                <=> \E ev \in receipt' :
                      /\ ev.event = "sendCertificate"
                      /\ ev = SendEvent(certificates'[certificateIDincr].certificate,
                                        certificates'[certificateIDincr].expireDate)
           /\ \A id \in Issued : certificates'[id].revoked # certificates[id].revoked
                => \E ev \in receipt' : ev.event = "revokedCertificate" /\ ev.id = id]_vars
    BY EventsStep
  <1>. QED  BY <1>1, InvAlwaysHolds, PTL DEF Spec, EventsAccountForIssued

-----------------------------------------------------------------------------
(* What getAllCertificates returns.  The induction over the turns of its    *)
(* loop runs over sets of numbers, of which the least is found by the       *)
(* well-foundedness of the finite sets below them.                          *)

\* Every set of naturals that is not empty has a least element.
LEMMA LeastNatural ==
  ASSUME NEW X \in SUBSET Nat, X # {}
  PROVE  \E n \in X : \A m \in X : n <= m
  <1>. DEFINE Below == {0 .. n - 1 : n \in X}
  <1>1. Below \subseteq FiniteSubsetsOf(Nat)
    <2>1. ASSUME NEW n \in X PROVE 0 .. n - 1 \in FiniteSubsetsOf(Nat)
      <3>1. IsFiniteSet(0 .. n - 1)
        BY FS_Interval
      <3>2. 0 .. n - 1 \in SUBSET Nat
        OBVIOUS
      <3>. QED  BY <3>1, <3>2 DEF FiniteSubsetsOf
    <2>. QED  BY <2>1
  <1>2. PICK B \in Below : \A C \in Below : ~(<<C, B>> \in StrictSubsetOrdering(Nat))
    <2>1. Below # {}
      OBVIOUS
    <2>2. IsWellFoundedOn(StrictSubsetOrdering(Nat), FiniteSubsetsOf(Nat))
      BY FS_StrictSubsetOrderingWellFounded
    <2>. HIDE DEF Below
    <2>. QED  BY <1>1, <2>1, <2>2, WFMin
  <1>3. PICK n \in X : B = 0 .. n - 1
    OBVIOUS
  <1>4. ASSUME NEW m \in X, m < n PROVE FALSE
    <2>1. 0 .. m - 1 \in Below /\ 0 .. m - 1 \subseteq B /\ B \subseteq Nat
      BY <1>3, <1>4
    <2>2. m \in B /\ m \notin 0 .. m - 1
      BY <1>3, <1>4
    <2>. QED  BY <1>2, <2>1, <2>2 DEF StrictSubsetOrdering
  <1>. QED  BY <1>4

\* Induction: what holds of 0 and of n + 1 with n holds of all, as sets.
LEMMA InductionOnNat ==
  ASSUME NEW S, 0 \in S, \A n \in Nat : n \in S => n + 1 \in S
  PROVE  \A n \in Nat : n \in S
  <1>. DEFINE X == Nat \ S
  <1>. SUFFICES ASSUME X # {} PROVE FALSE
    OBVIOUS
  <1>1. PICK n \in X : \A m \in X : n <= m
    BY LeastNatural
  <1>2. n # 0 /\ n - 1 \in Nat
    OBVIOUS
  <1>3. n - 1 \in S
    BY <1>1, <1>2
  <1>4. (n - 1) + 1 \in S
    BY <1>2, <1>3
  <1>. QED  BY <1>2, <1>4

\* A set of numbers up to n has a greatest one.
LEMMA MaxOf ==
  ASSUME NEW n \in Nat, NEW s \in SUBSET (1 .. n), s # {}
  PROVE  Max(s) \in s /\ \A x \in s : x <= Max(s)
  <1>1. PICK d \in {n - x : x \in s} : \A e \in {n - x : x \in s} : d <= e
    <2>. DEFINE D == {n - x : x \in s}
    <2>1. \A x \in s : n - x \in Nat
      OBVIOUS
    <2>2. D \in SUBSET Nat
      BY <2>1
    <2>3. D # {}
      OBVIOUS
    <2>. HIDE DEF D
    <2>4. \E d \in D : \A e \in D : d <= e
      BY <2>2, <2>3, LeastNatural
    <2>. QED  BY <2>4 DEF D
  <1>2. PICK m \in s : d = n - m
    OBVIOUS
  <1>3. \A y \in s : m >= y
    BY <1>1, <1>2
  <1>. QED  BY <1>3 DEF Max

\* The function that MapThenFoldSet takes its value from: base at the empty set,
\* and at s what step makes of the greatest number of s and of the value at the rest.
IsFold(f, n, base, step) ==
  f = [s \in SUBSET (1 .. n) |-> IF s = {} THEN base ELSE step[<<Max(s), f[s \ {Max(s)}]>>]]

\* There is such a function, whatever base and step are.
LEMMA FoldExists ==
  ASSUME NEW V, NEW base \in V, NEW n \in Nat, NEW h \in [(1 .. n) \X V -> V]
  PROVE  \E f \in [SUBSET (1 .. n) -> V] : IsFold(f, n, base, h)
  <1>. DEFINE Is(m, f) == f = [s \in SUBSET (1 .. m) |-> IF s = {} THEN base ELSE h[<<Max(s), f[s \ {Max(s)}]>>]]
              Exists(m) == \E f \in [SUBSET (1 .. m) -> V] : Is(m, f)
              S == {m \in Nat : m <= n => Exists(m)}
  <1>1. Exists(0)
    <2>. DEFINE f == [s \in SUBSET (1 .. 0) |-> base]
    <2>1. f \in [SUBSET (1 .. 0) -> V]
      OBVIOUS
    <2>2. \A s \in SUBSET (1 .. 0) : s = {}
      OBVIOUS
    <2>3. Is(0, f)
      BY <2>2
    <2>. QED  BY <2>1, <2>3
  <1>2. ASSUME NEW m \in Nat, m + 1 <= n, Exists(m) PROVE Exists(m + 1)
    <2>1. PICK f \in [SUBSET (1 .. m) -> V] : Is(m, f)
      BY <1>2
    <2>. DEFINE g == [s \in SUBSET (1 .. m + 1) |-> IF m + 1 \in s THEN h[<<m + 1, f[s \ {m + 1}]>>] ELSE f[s]]
    <2>2. ASSUME NEW s \in SUBSET (1 .. m + 1), m + 1 \notin s PROVE s \in SUBSET (1 .. m)
      BY <2>2
    <2>3. ASSUME NEW s \in SUBSET (1 .. m + 1), m + 1 \in s
          PROVE  Max(s) = m + 1 /\ s \ {m + 1} \in SUBSET (1 .. m)
      <3>1. Max(s) \in s /\ \A x \in s : x <= Max(s)
        <4>1. m + 1 \in Nat /\ s # {}
          BY <2>3
        <4>. QED  BY <4>1, MaxOf
      <3>2. PICK x \in 1 .. m + 1 : x = Max(s)
        BY <3>1
      <3>3. x = m + 1
        BY <2>3, <3>1, <3>2
      <3>. QED  BY <3>2, <3>3
    <2>4. g \in [SUBSET (1 .. m + 1) -> V]
      <3>1. ASSUME NEW s \in SUBSET (1 .. m + 1), m + 1 \in s PROVE h[<<m + 1, f[s \ {m + 1}]>>] \in V
        <4>1. f[s \ {m + 1}] \in V /\ m + 1 \in 1 .. n
          BY <1>2, <2>3, <3>1
        <4>. QED  BY <4>1
      <3>. QED  BY <2>2, <3>1
    <2>5. ASSUME NEW s \in SUBSET (1 .. m + 1)
          PROVE  g[s] = IF s = {} THEN base ELSE h[<<Max(s), g[s \ {Max(s)}]>>]
      <3>1. CASE m + 1 \in s
        <4>1. g[s] = h[<<m + 1, f[s \ {m + 1}]>>]
          BY <3>1
        <4>2. g[s \ {m + 1}] = f[s \ {m + 1}]
          OBVIOUS
        <4>. QED  BY <2>3, <3>1, <4>1, <4>2
      <3>2. CASE m + 1 \notin s /\ s # {}
        <4>1. s \in SUBSET (1 .. m) /\ s \ {Max(s)} \in SUBSET (1 .. m)
          BY <2>2, <3>2
        <4>2. f[s] = h[<<Max(s), f[s \ {Max(s)}]>>]
          BY <2>1, <3>2, <4>1
        <4>3. g[s] = f[s] /\ g[s \ {Max(s)}] = f[s \ {Max(s)}]
          BY <3>2, <4>1
        <4>. QED  BY <3>2, <4>2, <4>3
      <3>3. CASE s = {}
        <4>1. g[s] = f[{}] /\ f[{}] = base
          BY <2>1, <3>3
        <4>. QED  BY <3>3, <4>1
      <3>. QED  BY <3>1, <3>2, <3>3
    <2>6. Is(m + 1, g)
      <3>. HIDE DEF g
      <3>1. DOMAIN g = SUBSET (1 .. m + 1)
        BY <2>4
      <3>. QED  BY <2>4, <2>5, <3>1
    <2>. QED  BY <2>4, <2>6
  <1>. HIDE DEF Exists
  <1>3. 0 \in S /\ \A m \in Nat : m \in S => m + 1 \in S
    BY <1>1, <1>2
  <1>4. n \in S
    <2>. HIDE DEF S
    <2>. QED  BY <1>3, InductionOnNat
  <1>5. Exists(n)
    BY <1>4
  <1>. QED  BY <1>5 DEF Exists, IsFold

\* One turn of the loop of getAllCertificates.
Pack(acc, i) ==
  IF Listed(i) THEN [ids |-> [acc.ids EXCEPT ![acc.j] = i], j |-> acc.j + 1] ELSE acc

\* What the loop has done after k turns: the valid ids below k stand in front.
Packed(acc, k) ==
  /\ acc.ids \in [0 .. Len(certificateIDs) -> ID] /\ acc.j \in 0 .. k
  /\ {acc.ids[l] : l \in 0 .. acc.j - 1} = {i \in 0 .. k - 1 : Listed(i)}
  /\ \A l \in 0 .. acc.j - 1 : acc.ids[l] # 0
  /\ \A l, m \in 0 .. acc.j - 1 : l < m => acc.ids[l] < acc.ids[m]
  /\ \A l \in acc.j .. Len(certificateIDs) : acc.ids[l] = 0

\* One turn keeps that.
LEMMA PackStep ==
  ASSUME Inv, NEW k \in 0 .. Len(certificateIDs), NEW acc, Packed(acc, k)
  PROVE  Packed(Pack(acc, k), k + 1)
  <1>0. Len(certificateIDs) \in Nat /\ Len(certificateIDs) <= MaxID /\ MaxID \in Nat /\ k \in ID
        /\ ~Listed(0)
    <2>1. Len(certificateIDs) \in Nat /\ Len(certificateIDs) <= MaxID /\ MaxID \in Nat
      BY MaxIDAssumption, LenProperties DEF Inv, TypeOK
    <2>2. ~Written(0) /\ 0 \in ID
      BY <2>1 DEF Inv, CounterAndArrayAgree, ID
    <2>3. ~Listed(0)
      BY <2>2 DEF Listed, Written, Inv, TypeOK
    <2>. QED  BY <2>1, <2>3 DEF ID
  <1>1. CASE ~Listed(k)
    <2>1. Pack(acc, k) = acc
      BY <1>1 DEF Pack
    <2>2. {i \in 0 .. k : Listed(i)} = {i \in 0 .. k - 1 : Listed(i)}
      BY <1>0, <1>1
    <2>. QED  BY <1>0, <2>1, <2>2 DEF Packed
  <1>2. CASE Listed(k)
    <2>1. k # 0
      BY <1>0, <1>2
    <2>2. PICK ids, j : ids = acc.ids /\ j = acc.j
      OBVIOUS
    <2>3. PICK n \in Nat : n = Len(certificateIDs)
      BY <1>0
    <2>4. /\ ids \in [0 .. n -> ID] /\ j \in 0 .. k
          /\ {ids[l] : l \in 0 .. j - 1} = {i \in 0 .. k - 1 : Listed(i)}
          /\ \A l \in 0 .. j - 1 : ids[l] # 0
          /\ \A l, m \in 0 .. j - 1 : l < m => ids[l] < ids[m]
          /\ \A l \in j .. n : ids[l] = 0
      BY <2>2, <2>3 DEF Packed
    <2>5. PICK new : new = [ids EXCEPT ![j] = k]
      OBVIOUS
    <2>6. Pack(acc, k).ids = new /\ Pack(acc, k).j = j + 1
      BY <1>2, <2>2, <2>5 DEF Pack
    <2>7. /\ new \in [0 .. n -> ID] /\ new[j] = k
          /\ \A l \in 0 .. n : l # j => new[l] = ids[l]
      BY <1>0, <2>3, <2>4, <2>5
    <2>8. j + 1 \in 0 .. k + 1 /\ j \in 0 .. n
      BY <2>3, <2>4
    <2>9. {new[l] : l \in 0 .. j} = {i \in 0 .. k : Listed(i)}
      <3>1. ASSUME NEW l \in 0 .. j PROVE new[l] \in {i \in 0 .. k : Listed(i)}
        <4>1. CASE l = j
          BY <1>2, <2>7, <4>1
        <4>2. CASE l # j
          <5>1. l \in 0 .. j - 1 /\ l \in 0 .. n
            BY <2>8, <4>2
          <5>2. ids[l] \in {i \in 0 .. k - 1 : Listed(i)}
            BY <2>4, <5>1
          <5>. QED  BY <2>7, <4>2, <5>1, <5>2
        <4>. QED  BY <4>1, <4>2
      <3>2. ASSUME NEW i \in 0 .. k, Listed(i) PROVE \E l \in 0 .. j : new[l] = i
        <4>1. CASE i = k
          BY <2>7, <2>8, <4>1
        <4>2. CASE i # k
          <5>1. i \in {m \in 0 .. k - 1 : Listed(m)}
            BY <3>2, <4>2
          <5>2. PICK l \in 0 .. j - 1 : ids[l] = i
            BY <2>4, <5>1
          <5>3. l \in 0 .. j /\ l \in 0 .. n /\ l # j
            BY <2>8
          <5>. QED  BY <2>7, <5>2, <5>3
        <4>. QED  BY <4>1, <4>2
      <3>. QED  BY <3>1, <3>2
    <2>10. \A l \in 0 .. j : new[l] # 0
      <3>1. ASSUME NEW l \in 0 .. j, l # j PROVE new[l] # 0
        <4>1. l \in 0 .. j - 1 /\ l \in 0 .. n
          BY <2>8, <3>1
        <4>. QED  BY <2>4, <2>7, <3>1, <4>1
      <3>. QED  BY <2>1, <2>7, <3>1
    <2>11. \A l, m \in 0 .. j : l < m => new[l] < new[m]
      <3>1. ASSUME NEW l \in 0 .. j, NEW m \in 0 .. j, l < m PROVE new[l] < new[m]
        <4>1. l \in 0 .. j - 1 /\ l \in 0 .. n /\ l # j
          BY <2>8, <3>1
        <4>2. new[l] = ids[l] /\ ids[l] \in {i \in 0 .. k - 1 : Listed(i)}
          BY <2>4, <2>7, <4>1
        <4>3. CASE m = j
          BY <2>7, <4>2, <4>3
        <4>4. CASE m # j
          <5>1. m \in 0 .. j - 1 /\ m \in 0 .. n
            BY <2>8, <4>4
          <5>. QED  BY <2>4, <2>7, <3>1, <4>1, <4>2, <4>4, <5>1
        <4>. QED  BY <4>3, <4>4
      <3>. QED  BY <3>1
    <2>12. \A l \in j + 1 .. n : new[l] = 0
      <3>1. ASSUME NEW l \in j + 1 .. n PROVE new[l] = 0
        <4>1. l \in j .. n /\ l \in 0 .. n /\ l # j
          BY <2>8
        <4>. QED  BY <2>4, <2>7, <4>1
      <3>. QED  BY <3>1
    <2>13. (j + 1) - 1 = j /\ (k + 1) - 1 = k
      BY <2>8
    <2>. QED  BY <2>3, <2>6, <2>7, <2>8, <2>9, <2>10, <2>11, <2>12, <2>13 DEF Packed
  <1>. QED  BY <1>1, <1>2

\* The loop as a fold: some states of it, one after the other, end in the array.
LEMMA ListingLoop ==
  ASSUME Inv
  PROVE  \E acc : GetAllCertificates = acc.ids /\ Packed(acc, Len(certificateIDs) + 1)
  <1>1. PICK n \in Nat : n = Len(certificateIDs) /\ n <= MaxID
    BY MaxIDAssumption, LenProperties DEF Inv, TypeOK
  <1>2. MaxID \in Nat /\ 0 .. n \subseteq ID /\ n + 1 \in Nat
    BY <1>1, MaxIDAssumption DEF ID
  <1>. DEFINE V == [ids : [0 .. n -> ID], j : Nat]
              seq == [k \in 1 .. n + 1 |-> k - 1]
              start == [ids |-> [k \in 0 .. n |-> 0], j |-> 0]
              h == [p \in (1 .. n + 1) \X V |-> Pack(p[2], p[1] - 1)]
              Is(f) == f = [s \in SUBSET (1 .. n + 1) |->
                              IF s = {} THEN start ELSE Pack(f[s \ {Max(s)}], seq[Max(s)])]
  <1>3. start \in V
    BY <1>2 DEF ID
  <1>4. ASSUME NEW acc \in V, NEW i \in 0 .. n PROVE Pack(acc, i) \in V
    <2>1. acc.ids \in [0 .. n -> ID] /\ acc.j \in Nat /\ i \in ID
      BY <1>2
    <2>2. [acc.ids EXCEPT ![acc.j] = i] \in [0 .. n -> ID]
      BY <2>1
    <2>3. CASE Listed(i)
      <3>1. Pack(acc, i) = [ids |-> [acc.ids EXCEPT ![acc.j] = i], j |-> acc.j + 1]
        BY <2>3 DEF Pack
      <3>. QED  BY <2>1, <2>2, <3>1
    <2>4. CASE ~Listed(i)
      <3>1. Pack(acc, i) = acc
        BY <2>4 DEF Pack
      <3>. QED  BY <3>1
    <2>. QED  BY <2>3, <2>4
  <1>5. h \in [(1 .. n + 1) \X V -> V]
    <2>1. ASSUME NEW p \in (1 .. n + 1) \X V PROVE Pack(p[2], p[1] - 1) \in V
      <3>. HIDE DEF V
      <3>1. p[1] \in 1 .. n + 1 /\ p[2] \in V
        OBVIOUS
      <3>2. p[1] - 1 \in 0 .. n
        BY <3>1
      <3>. QED  BY <1>4, <3>1, <3>2
    <2>. HIDE DEF V
    <2>. QED  BY <2>1
  <1>6. PICK f : Is(f)
    <2>1. PICK m, W, b, step : m = n + 1 /\ W = V /\ b = start /\ step = h
      OBVIOUS
    <2>2. PICK f \in [SUBSET (1 .. n + 1) -> V] : IsFold(f, n + 1, start, h)
      <3>. HIDE DEF V, h, start
      <3>1. m \in Nat /\ b \in W /\ step \in [(1 .. m) \X W -> W]
        BY <1>2, <1>3, <1>5, <2>1
      <3>2. \E f \in [SUBSET (1 .. m) -> W] : IsFold(f, m, b, step)
        BY <3>1, FoldExists
      <3>. QED  BY <2>1, <3>2
    <2>3. ASSUME NEW s \in SUBSET (1 .. n + 1), s # {}
          PROVE  h[<<Max(s), f[s \ {Max(s)}]>>] = Pack(f[s \ {Max(s)}], seq[Max(s)])
      <3>. HIDE DEF V
      <3>1. Max(s) \in 1 .. n + 1
        BY <1>2, <2>3, MaxOf
      <3>2. f[s \ {Max(s)}] \in V
        OBVIOUS
      <3>3. seq[Max(s)] = Max(s) - 1
        BY <3>1
      <3>. HIDE DEF seq
      <3>. QED  BY <3>1, <3>2, <3>3
    <2>. HIDE DEF V, seq, h, start
    <2>. QED  BY <2>2, <2>3 DEF IsFold
  <1>7. PICK g : Is(g) /\ GetAllCertificates = g[1 .. n + 1].ids
    <2>1. DOMAIN seq = 1 .. n + 1
      OBVIOUS
    <2>2. GetAllCertificates = (CHOOSE g : Is(g))[1 .. n + 1].ids
      BY <1>1, <2>1 DEF GetAllCertificates, FoldLeft, MapThenFoldSet, Pack
    <2>3. Is(CHOOSE g : Is(g))
      <3>. HIDE DEF Is
      <3>. QED  BY <1>6
    <2>. HIDE DEF Is
    <2>. QED  BY <2>2, <2>3
  <1>. DEFINE S == {k \in Nat : k <= n + 1 => Packed(g[1 .. k], k)}
  <1>8. 0 \in S
    <2>1. 1 .. 0 = {} /\ {} \in SUBSET (1 .. n + 1)
      OBVIOUS
    <2>2. g[{}] = start
      <3>. HIDE DEF start, seq
      <3>. QED  BY <1>7, <2>1
    <2>3. Packed(start, 0)
      BY <1>1, <1>2 DEF Packed, ID
    <2>. QED  BY <2>1, <2>2, <2>3
  <1>9. ASSUME NEW k \in Nat, k \in S PROVE k + 1 \in S
    <2>. SUFFICES ASSUME k + 1 <= n + 1 PROVE Packed(g[1 .. k + 1], k + 1)
      OBVIOUS
    <2>1. Packed(g[1 .. k], k)
      BY <1>9
    <2>2. k \in 0 .. n /\ k + 1 \in 1 .. n + 1
      OBVIOUS
    <2>3. Max(1 .. k + 1) = k + 1
      <3>1. k + 1 \in Nat /\ 1 .. k + 1 # {} /\ 1 .. k + 1 \in SUBSET (1 .. k + 1)
        OBVIOUS
      <3>2. Max(1 .. k + 1) \in 1 .. k + 1 /\ \A x \in 1 .. k + 1 : x <= Max(1 .. k + 1)
        BY <3>1, MaxOf
      <3>. QED  BY <3>2
    <2>4. (1 .. k + 1) \ {k + 1} = 1 .. k
      OBVIOUS
    <2>5. g[1 .. k + 1] = Pack(g[1 .. k], seq[k + 1])
      <3>1. 1 .. k + 1 \in SUBSET (1 .. n + 1) /\ 1 .. k + 1 # {}
        <4>1. \A x \in 1 .. k + 1 : x \in 1 .. n + 1
          BY <2>2
        <4>. QED  BY <4>1
      <3>. HIDE DEF start, seq
      <3>. QED  BY <1>7, <2>3, <2>4, <3>1
    <2>6. seq[k + 1] = k
      BY <2>2
    <2>. HIDE DEF seq
    <2>. QED  BY <1>1, <2>1, <2>2, <2>5, <2>6, PackStep
  <1>10. n + 1 \in S
    <2>. HIDE DEF S
    <2>. QED  BY <1>2, <1>8, <1>9, InductionOnNat
  <1>. HIDE DEF Is
  <1>11. PICK acc : acc = g[1 .. n + 1]
    OBVIOUS
  <1>12. Packed(acc, n + 1)
    BY <1>2, <1>10, <1>11
  <1>13. GetAllCertificates = acc.ids
    BY <1>7, <1>11
  <1>. QED  BY <1>1, <1>12, <1>13

\* An array with the numbers of a set in front, in order, and zeros from j on.
Lists(ids, numbers, n, j) ==
  /\ ids \in [0 .. n -> ID] /\ j \in 0 .. n + 1
  /\ {ids[l] : l \in 0 .. j - 1} = numbers
  /\ \A l \in 0 .. j - 1 : ids[l] # 0
  /\ \A l, m \in 0 .. j - 1 : l < m => ids[l] < ids[m]
  /\ \A l \in j .. n : ids[l] = 0

\* The listing is such an array of the valid ids of the whole mapping, those
\* above the range of the loop included, of which there are none.
LEMMA ListingLists ==
  ASSUME Inv
  PROVE  \E n \in Nat : \E j :
           n = Len(certificateIDs) /\ Lists(GetAllCertificates, {id \in ID : Listed(id)}, n, j)
  <1>1. PICK n \in Nat : n = Len(certificateIDs) /\ n <= MaxID
    BY MaxIDAssumption, LenProperties DEF Inv, TypeOK
  <1>2. PICK acc : GetAllCertificates = acc.ids /\ Packed(acc, n + 1)
    BY <1>1, ListingLoop
  <1>3. PICK ids, j : ids = acc.ids /\ j = acc.j
    OBVIOUS
  <1>4. {i \in 0 .. n : Listed(i)} = {id \in ID : Listed(id)}
    <2>1. 0 .. n \subseteq ID
      BY <1>1, MaxIDAssumption DEF ID
    <2>2. ASSUME NEW id \in ID, Listed(id) PROVE id \in 0 .. n
      <3>1. Written(id)
        BY <2>2 DEF Listed, Written, Inv, TypeOK
      <3>. QED  BY <1>1, <3>1, InvReach DEF WrittenSlotsScanned, Scanned
    <2>. QED  BY <2>1, <2>2
  <1>5. (n + 1) - 1 = n
    OBVIOUS
  <1>6. Lists(ids, {id \in ID : Listed(id)}, n, j)
    BY <1>1, <1>2, <1>3, <1>4, <1>5 DEF Packed, Lists
  <1>. QED  BY <1>1, <1>2, <1>3, <1>6

\* What the loop leaves is the listing a reader expects, up to its first zero.
LEMMA InvListing == Inv => ListingExact
  <1>. SUFFICES ASSUME Inv PROVE ListingExact
    OBVIOUS
  <1>1. PICK n, j : n \in Nat /\ n = Len(certificateIDs)
                   /\ Lists(GetAllCertificates, {id \in ID : Listed(id)}, n, j)
    BY ListingLists
  <1>2. PICK ids : ids = GetAllCertificates
    OBVIOUS
  <1>3. /\ ids \in [0 .. n -> ID] /\ j \in 0 .. n + 1
        /\ {ids[l] : l \in 0 .. j - 1} = {id \in ID : Listed(id)}
        /\ \A l \in 0 .. j - 1 : ids[l] # 0
        /\ \A l, m \in 0 .. j - 1 : l < m => ids[l] < ids[m]
        /\ \A l \in j .. n : ids[l] = 0
    BY <1>1, <1>2 DEF Lists
  <1>. DEFINE Ends(k) == /\ k = Len(certificateIDs) + 1 \/ GetAllCertificates[k] = 0
                         /\ \A l \in 0 .. k - 1 : GetAllCertificates[l] # 0
              end == CHOOSE k \in 0 .. Len(certificateIDs) + 1 : Ends(k)
  <1>4. end = j
    <2>1. j \in 0 .. Len(certificateIDs) + 1 /\ Ends(j)
      BY <1>1, <1>2, <1>3
    <2>2. ASSUME NEW k \in 0 .. Len(certificateIDs) + 1, Ends(k) PROVE k = j
      <3>1. k \in 0 .. n + 1 /\ (k = n + 1 \/ ids[k] = 0) /\ \A l \in 0 .. k - 1 : ids[l] # 0
        BY <1>1, <1>2, <2>2
      <3>2. CASE k < j
        <4>1. k \in 0 .. j - 1 /\ k # n + 1
          BY <1>1, <1>3, <3>1, <3>2
        <4>. QED  BY <1>3, <3>1, <4>1
      <3>3. CASE k > j
        <4>1. j \in 0 .. k - 1 /\ j \in j .. n
          BY <1>1, <1>3, <3>1, <3>3
        <4>. QED  BY <1>3, <3>1, <4>1
      <3>. QED  BY <1>3, <3>1, <3>2, <3>3
    <2>. HIDE DEF Ends
    <2>. QED  BY <2>1, <2>2
  <1>5. \A k \in 1 .. j - 1 : ids[k - 1] < ids[k]
    <2>1. \A k \in 1 .. j - 1 : k - 1 \in 0 .. j - 1 /\ k \in 0 .. j - 1 /\ k - 1 < k
      BY <1>3
    <2>. QED  BY <1>3, <2>1
  <1>6. /\ {GetAllCertificates[k] : k \in 0 .. end - 1} = {id \in ID : Listed(id)}
        /\ \A k \in 1 .. end - 1 : GetAllCertificates[k - 1] < GetAllCertificates[k]
    <2>. HIDE DEF end
    <2>. QED  BY <1>2, <1>3, <1>4, <1>5
  <1>. QED  BY <1>6 DEF ListingExact

\* Whatever was written, revoked and expired, getAllCertificates lists exactly
\* the valid ids, in order, before its first zero.
THEOREM ListingAlwaysExact == Spec => []ListingExact
  BY InvAlwaysHolds, InvListing, PTL

-----------------------------------------------------------------------------
(* Refinement.                                                             *)

\* A step that writes no issued record leaves the mapped list as it is.
LEMMA IssuedListKept ==
  ASSUME Inv, [Next]_vars, certificateIDincr' = certificateIDincr
  PROVE  IssuedList' = IssuedList
  BY IssuedStep DEF IssuedList, Issued

\* The mapped list has one entry, of the ledger's type, per issued id.
LEMMA IssuedListLength ==
  ASSUME Inv
  PROVE  /\ Len(IssuedList) = certificateIDincr - 1
         /\ IssuedList \in Seq([certificate : CertString, expireDate : Nat])
  <1>1. \A n \in 1 .. certificateIDincr - 1 : certificates[n] \in Certificate
    BY MaxIDAssumption DEF Inv, TypeOK, ID
  <1>2. certificateIDincr - 1 \in Nat
    BY DEF Inv, TypeOK
  <1>3. IssuedList \in [1 .. certificateIDincr - 1 -> [certificate : CertString, expireDate : Nat]]
    BY <1>1 DEF IssuedList, Certificate
  <1>4. DOMAIN IssuedList = 1 .. certificateIDincr - 1
    BY DEF IssuedList
  <1>5. IssuedList \in Seq([certificate : CertString, expireDate : Nat])
    BY <1>2, <1>3, SeqDef
  <1>. QED  BY <1>2, <1>4, <1>5

\* Every step of the contract is a step of the ledger or leaves it alone.
LEMMA RefinementStep == Inv /\ [Next]_vars => [Ledger!LedgerNext]_(Ledger!ledgerVars)
  <1>. SUFFICES ASSUME Inv, [Next]_vars
                PROVE  Ledger!LedgerNext \/ UNCHANGED Ledger!ledgerVars
    OBVIOUS
  <1>0. /\ certificateIDincr \in ID /\ certificateIDincr \in Nat \ {0}
        /\ \A id \in Issued : id \in ID /\ id \in Scanned
    BY MaxIDAssumption DEF Inv, TypeOK, ID, Issued, Scanned, CounterAndArrayAgree
  <1>1. ASSUME NEW c \in CertString, NEW e \in Dates, AddCertificate(c, e)
        PROVE  Ledger!Issue(c, e)
    <2>1. /\ certificateIDincr' = certificateIDincr + 1
          /\ certificates'[certificateIDincr] =
               [certificate |-> c, expireDate |-> e, revoked |-> FALSE]
          /\ \A i \in ID \ {certificateIDincr} : certificates'[i] = certificates[i]
      BY <1>1, WriteStructContent DEF Inv, AddCertificate
    <2>2. IssuedList' = Append(IssuedList, Ledger!Entry(c, e))
      BY <1>0, <2>1, IssuedListLength DEF IssuedList, Ledger!Entry, Issued
    <2>3. RevokedNumbers' = RevokedNumbers
      BY <1>0, <2>1 DEF RevokedNumbers, Issued
    <2>. QED  BY <1>1, <2>2, <2>3 DEF Ledger!Issue, AddCertificate
  <1>2. ASSUME NEW c \in CertString, NEW e \in Dates, CreateStruct(c, e)
        PROVE  UNCHANGED Ledger!ledgerVars
    <2>1. /\ UNCHANGED <<certificateIDincr, now>>
          /\ \A i \in ID \ {certificateIDincr} : certificates'[i] = certificates[i]
      BY <1>2, WriteStructContent DEF Inv, CreateStruct
    <2>2. RevokedNumbers' = RevokedNumbers
      BY <1>0, <2>1 DEF RevokedNumbers, Issued
    <2>. QED  BY <2>1, <2>2, IssuedListKept DEF Ledger!ledgerVars
  <1>3. ASSUME NEW id \in ID, RevokeCertificateByID(id)
        PROVE  Ledger!LedgerNext \/ UNCHANGED Ledger!ledgerVars
    <2>1. UNCHANGED <<certificateIDincr, now>> /\ IssuedList' = IssuedList
      BY <1>3, IssuedListKept DEF RevokeCertificateByID
    <2>2. \A i \in ID : certificates'[i].revoked = (i = id \/ certificates[i].revoked)
      BY <1>3 DEF RevokeCertificateByID, Inv, TypeOK, Certificate
    <2>3. CASE id \in Issued
      <3>1. RevokedNumbers' = RevokedNumbers \union {id}
        BY <1>0, <2>1, <2>2, <2>3 DEF RevokedNumbers, Issued
      <3>2. id \in 1 .. Len(IssuedList)
        BY <2>3, IssuedListLength DEF Issued
      <3>. QED  BY <2>1, <3>1, <3>2 DEF Ledger!LedgerNext, Ledger!RevokeNumber
    <2>4. CASE id \notin Issued
      <3>1. RevokedNumbers' = RevokedNumbers
        BY <1>0, <2>1, <2>2, <2>4 DEF RevokedNumbers, Issued
      <3>. QED  BY <2>1, <3>1 DEF Ledger!ledgerVars
    <2>. QED  BY <2>3, <2>4
  <1>4. ASSUME NEW c \in CertString, RevokeCertificate(c)
        PROVE  Ledger!RevokeEvery(c)
    <2>1. UNCHANGED <<certificateIDincr, now>> /\ IssuedList' = IssuedList
      BY <1>4, IssuedListKept DEF RevokeCertificate
    <2>2. \A i \in Issued : certificates'[i].revoked =
                              (certificates[i].revoked \/ certificates[i].certificate = c)
      BY <1>0, <1>4 DEF RevokeCertificate, Matching, Inv, TypeOK, Certificate
    <2>3. \A n \in Issued : IssuedList[n].certificate = certificates[n].certificate
      BY DEF IssuedList, Issued
    <2>4. RevokedNumbers' = RevokedNumbers
            \union {n \in 1 .. Len(IssuedList) : IssuedList[n].certificate = c}
      BY <2>1, <2>2, <2>3, IssuedListLength DEF RevokedNumbers, Issued
    <2>. QED  BY <2>1, <2>4 DEF Ledger!RevokeEvery
  <1>5. CASE NewBlock
    <2>1. IssuedList' = IssuedList /\ RevokedNumbers' = RevokedNumbers
      BY <1>5 DEF NewBlock, IssuedList, RevokedNumbers
    <2>. QED  BY <1>5, <2>1 DEF NewBlock, Ledger!LedgerNext, Ledger!Advance
  <1>6. CASE UNCHANGED vars
    BY <1>6 DEF vars, Ledger!ledgerVars, IssuedList, RevokedNumbers
  <1>. QED  BY <1>1, <1>2, <1>3, <1>4, <1>5, <1>6 DEF Next, Ledger!LedgerNext

\* The contract implements the append-only ledger with permanent revocation.
THEOREM RegistryImplementsLedger == Spec => ImplementsLedger
  <1>1. Init => Ledger!LedgerInit
    BY DEF Init, Ledger!LedgerInit, IssuedList, RevokedNumbers
  <1>. QED
    BY <1>1, RefinementStep, InvAlwaysHolds, PTL
       DEF Spec, ImplementsLedger, Ledger!LedgerSpec
=============================================================================
