---------------------- MODULE RegistryFrontend_proofs ----------------------
(***************************************************************************)
(* Machine-checked proofs about the page in front of the registry, for any *)
(* number of overlapping handlers, any calls and a pool of any size:       *)
(* PageInv about the forms, and ListInv about the listings beside it.      *)
(***************************************************************************)
EXTENDS RegistryFrontend, CertRegistry_proofs

\* What is left of a sequence without its i-th element.
LEMMA RemoveAtElements ==
  ASSUME NEW S, NEW s \in Seq(S), NEW i \in DOMAIN s
  PROVE  /\ RemoveAt(s, i) \in Seq(S)
         /\ DOMAIN RemoveAt(s, i) = 1 .. Len(s) - 1
         /\ \A n \in 1 .. Len(s) - 1 : RemoveAt(s, i)[n] = s[IF n < i THEN n ELSE n + 1]
  <1>. DEFINE a == SubSeq(s, 1, i - 1)
              b == SubSeq(s, i + 1, Len(s))
  <1>0. Len(s) \in Nat /\ i \in 1 .. Len(s)
    BY LenProperties
  <1>1. a \in Seq(S) /\ Len(a) = i - 1 /\ \A n \in 1 .. i - 1 : a[n] = s[n]
    BY <1>0
  <1>2. b \in Seq(S) /\ Len(b) = Len(s) - i /\ \A n \in 1 .. Len(s) - i : b[n] = s[i + n]
    BY <1>0
  <1>. HIDE DEF a, b
  <1>3. /\ a \o b \in Seq(S) /\ Len(a \o b) = Len(s) - 1
        /\ \A n \in 1 .. Len(s) - 1 : (a \o b)[n] = IF n < i THEN a[n] ELSE b[n - i + 1]
    <2>1. Len(a) + Len(b) = Len(s) - 1
      BY <1>0, <1>1, <1>2
    <2>2. /\ a \o b \in Seq(S) /\ Len(a \o b) = Len(a) + Len(b)
          /\ \A n \in 1 .. Len(a) + Len(b) : (a \o b)[n] = IF n <= Len(a) THEN a[n] ELSE b[n - Len(a)]
      BY <1>1, <1>2, ConcatProperties
    <2>3. \A n \in 1 .. Len(s) - 1 : (n <= i - 1 <=> n < i) /\ n - (i - 1) = n - i + 1
      BY <1>0
    <2>. QED  BY <1>1, <2>1, <2>2, <2>3
  <1>4. RemoveAt(s, i) = a \o b
    BY DEF RemoveAt, a, b
  <1>5. DOMAIN RemoveAt(s, i) = 1 .. Len(s) - 1
    BY <1>0, <1>3, <1>4, LenProperties
  <1>6. ASSUME NEW n \in 1 .. Len(s) - 1, n < i PROVE (a \o b)[n] = s[n]
    BY <1>0, <1>1, <1>3, <1>6
  <1>7. ASSUME NEW n \in 1 .. Len(s) - 1, ~(n < i) PROVE (a \o b)[n] = s[n + 1]
    <2>1. n - i + 1 \in 1 .. Len(s) - i /\ i + (n - i + 1) = n + 1
      BY <1>0, <1>7
    <2>. QED  BY <1>2, <1>3, <1>7, <2>1
  <1>. QED  BY <1>3, <1>4, <1>5, <1>6, <1>7

-----------------------------------------------------------------------------
(* AnswersTrue.  Between the block that took a transaction and the message  *)
(* about it the ledger moves on: Holds is what stays true of it meanwhile.  *)
Holds(call, since) ==
  CASE call.op = "addCertificate" ->
         \E id \in since .. certificateIDincr - 1 :
           /\ certificates[id].certificate = call.certificate
           /\ certificates[id].expireDate = call.expireDate
    [] call.op = "revokeCertificate" ->
         \A id \in 1 .. since - 1 :
           certificates[id].certificate = call.certificate => certificates[id].revoked
    [] call.op = "revokeCertificateByID" ->
         call.id < since => certificates[call.id].revoked

Tx == [from : Handler \union {Nobody}, call : Calls]

\* A pooled transaction a handler waits for is that handler's only one.
Waits(i) ==
  pool[i].from # Nobody =>
    /\ handler[pool[i].from].at = "sent"
    /\ handler[pool[i].from].call = pool[i].call
    /\ \A k \in DOMAIN pool : pool[k].from = pool[i].from => k = i

Sent(r) ==
  /\ {"at", "call", "since"} \subseteq DOMAIN r
  /\ r.call \in Calls /\ r.since \in 1 .. certificateIDincr
  /\ r.at = "mined" => Holds(r.call, r.since)

PageInv ==
  /\ Inv
  /\ DOMAIN handler = Handler
  /\ \A h \in Handler : "at" \in DOMAIN handler[h]
  /\ pool \in Seq(Tx)
  /\ \A i \in DOMAIN pool : Waits(i)
  /\ \A h \in Handler : handler[h].at \in {"sent", "mined", "reverted"} => Sent(handler[h])

\* What a pooled transaction is made of.
LEMMA PoolElement ==
  ASSUME PageInv, NEW i \in DOMAIN pool
  PROVE  pool[i].from \in Handler \union {Nobody} /\ pool[i].call \in Calls
  <1>1. pool[i] \in Tx
    BY ElementOfSeq, LenProperties DEF PageInv
  <1>. QED  BY <1>1 DEF Tx

\* Every step of the page and of the others is a step of the contract.
LEMMA ContractSteps ==
  ASSUME PageInv, [FrontendNext]_allVars
  PROVE  [Next]_vars
  <1>1. CASE Mine
    <2>1. PICK i \in DOMAIN pool : Execute(pool[i].call)
      BY <1>1 DEF Mine
    <2>2. pool[i].call \in Call
      BY <2>1, PoolElement, CallsAssumption
    <2>. QED  BY <2>1, <2>2 DEF Execute, Call, Next
  <1>2. CASE OutOfGas \/ LoadWallet \/ Reload \/ Others \/ UNCHANGED allVars
    BY <1>2 DEF OutOfGas, LoadWallet, Reload, Others, allVars
  <1>3. ASSUME NEW h \in Handler,
               (\E call \in Calls : Submit(h, call)) \/ GetAllCerts(h) \/ GetCert(h) \/ Answer(h)
        PROVE  UNCHANGED vars
    BY <1>3 DEF Submit, GetAllCerts, GetCert, Answer, Resolve, Reject, ReadList, ReadRow,
                ReadCert, ReadFails
  <1>. QED  BY <1>1, <1>2, <1>3 DEF FrontendNext

\* The contract edits nothing below its counter, the slot 0 it never uses included.
LEMMA UnderTheCounter ==
  ASSUME Inv, [Next]_vars, NEW id \in 0 .. certificateIDincr - 1
  PROVE  /\ certificates'[id].certificate = certificates[id].certificate
         /\ certificates'[id].expireDate = certificates[id].expireDate
         /\ certificates[id].revoked => certificates'[id].revoked
  <1>1. id \in ID /\ id # certificateIDincr
    BY MaxIDAssumption DEF Inv, TypeOK, ID
  <1>2. CASE \E c \in CertString, e \in Dates : CreateStruct(c, e) \/ AddCertificate(c, e)
    BY <1>1, <1>2, WriteStructContent DEF Inv, CreateStruct, AddCertificate
  <1>3. CASE \/ \E i \in ID : RevokeCertificateByID(i)
             \/ \E c \in CertString : RevokeCertificate(c)
    BY <1>1, <1>3, RevokeKeepsContent DEF Inv
  <1>4. CASE NewBlock \/ UNCHANGED vars
    BY <1>1, <1>4 DEF NewBlock, vars
  <1>. QED  BY <1>1, <1>2, <1>3, <1>4 DEF Next

\* No step of the contract takes an id back.
LEMMA CounterGrows ==
  ASSUME Inv, [Next]_vars
  PROVE  certificateIDincr \in Nat /\ certificateIDincr' \in Nat /\ certificateIDincr' >= certificateIDincr
  BY TypeStep DEF Inv, TypeOK, Next, vars, CreateStruct, AddCertificate, RevokeCertificateByID,
                  RevokeCertificate, NewBlock

\* The counter starts at 1.
LEMMA CounterPositive ==
  ASSUME Inv
  PROVE  certificateIDincr \in 1 .. certificateIDincr
  BY MaxIDAssumption DEF Inv, TypeOK

\* An id issued since then is also one issued by later.
LEMMA StillBelow ==
  ASSUME NEW n \in Nat, NEW later \in Nat, later >= n,
         NEW since \in Nat, since >= 1, NEW id \in Int, since <= id, id <= n - 1
  PROVE  id \in 1 .. n - 1 /\ id \in since .. later - 1
  OBVIOUS

\* What a message will say stays true until it says it.
LEMMA HoldsOn ==
  ASSUME Inv, [Next]_vars, NEW call \in Call, NEW since \in 1 .. certificateIDincr,
         Holds(call, since)
  PROVE  Holds(call, since)'
  <1>1. certificateIDincr' >= certificateIDincr /\ certificateIDincr' \in Nat /\ certificateIDincr \in Nat
    BY CounterGrows
  <1>2. \A id \in 0 .. certificateIDincr - 1 :
          /\ certificates'[id].certificate = certificates[id].certificate
          /\ certificates'[id].expireDate = certificates[id].expireDate
          /\ certificates[id].revoked => certificates'[id].revoked
    BY UnderTheCounter
  <1>3. CASE call.op = "addCertificate"
    <2>1. PICK id \in since .. certificateIDincr - 1 :
            /\ certificates[id].certificate = call.certificate
            /\ certificates[id].expireDate = call.expireDate
      BY <1>3 DEF Holds
    <2>2. id \in 1 .. certificateIDincr - 1 /\ id \in since .. certificateIDincr' - 1
      <3>1. since \in Nat /\ since >= 1 /\ id \in Int /\ since <= id /\ id <= certificateIDincr - 1
        BY <1>1
      <3>. QED  BY <1>1, <3>1, StillBelow
    <2>. QED  BY <1>2, <1>3, <2>1, <2>2 DEF Holds
  <1>4. CASE call.op = "revokeCertificate"
    <2>1. ASSUME NEW id \in 1 .. since - 1, certificates'[id].certificate = call.certificate
          PROVE  certificates'[id].revoked
      <3>1. id \in 1 .. certificateIDincr - 1
        BY <1>1
      <3>. QED  BY <1>2, <1>4, <2>1, <3>1 DEF Holds
    <2>. QED  BY <1>4, <2>1 DEF Holds
  <1>5. CASE call.op = "revokeCertificateByID"
    <2>1. ASSUME call.id < since PROVE certificates'[call.id].revoked
      <3>1. call.id \in 0 .. certificateIDincr - 1
        BY <1>1, <1>5, <2>1 DEF Call, ID
      <3>. QED  BY <1>2, <1>5, <2>1, <3>1 DEF Holds
    <2>. QED  BY <1>5, <2>1 DEF Holds
  <1>. QED  BY <1>3, <1>4, <1>5 DEF Call

-----------------------------------------------------------------------------
(* PageInv is inductive.                                                   *)

InFlight == {"sent", "mined", "reverted"}

\* A handler that no step of its own or of its transaction touches.
LEMMA SentOn ==
  ASSUME PageInv, [FrontendNext]_allVars,
         NEW h \in Handler, handler[h].at \in InFlight, handler'[h] = handler[h]
  PROVE  Sent(handler[h])'
  <1>1. PICK r : r = handler[h]
    OBVIOUS
  <1>2. Sent(r)
    BY <1>1 DEF PageInv, InFlight
  <1>3. [Next]_vars /\ Inv
    BY ContractSteps DEF PageInv
  <1>4. certificateIDincr \in Nat /\ certificateIDincr' \in Nat /\ certificateIDincr' >= certificateIDincr
    BY <1>3, CounterGrows
  <1>5. r.call \in Call /\ r.since \in 1 .. certificateIDincr
    BY <1>2, CallsAssumption DEF Sent
  <1>6. r.since \in 1 .. certificateIDincr'
    BY <1>4, <1>5
  <1>7. r.at = "mined" => Holds(r.call, r.since)'
    BY <1>2, <1>3, <1>5, HoldsOn DEF Sent
  <1>. QED  BY <1>1, <1>2, <1>6, <1>7 DEF Sent

\* A step that only moves a handler that has nothing in the pool.
LEMMA HandlerMoves ==
  ASSUME PageInv, [FrontendNext]_allVars, pool' = pool,
         NEW h \in Handler, handler[h].at # "sent",
         DOMAIN handler' = Handler,
         \A g \in Handler \ {h} : handler'[g] = handler[g],
         "at" \in DOMAIN handler'[h], handler'[h].at \notin InFlight
  PROVE  PageInv'
  <1>1. Inv'
    BY ContractSteps, InvStep DEF PageInv
  <1>2. \A g \in Handler : "at" \in DOMAIN handler'[g]
    BY DEF PageInv
  <1>3. ASSUME NEW i \in DOMAIN pool PROVE Waits(i)'
    <2>1. Waits(i) /\ pool[i].from \in Handler \union {Nobody}
      BY <1>3, PoolElement DEF PageInv
    <2>. QED  BY <2>1 DEF Waits
  <1>4. ASSUME NEW g \in Handler, handler'[g].at \in InFlight PROVE Sent(handler[g])'
    BY <1>4, SentOn
  <1>. QED  BY <1>1, <1>2, <1>3, <1>4 DEF PageInv, InFlight

\* Orphaning changes tags only.
LEMMA OrphanedElements ==
  ASSUME pool \in Seq(Tx), NEW H
  PROVE  /\ Orphaned(H) \in Seq(Tx)
         /\ DOMAIN Orphaned(H) = DOMAIN pool
         /\ \A i \in DOMAIN pool :
              /\ Orphaned(H)[i].call = pool[i].call
              /\ pool[i].from \in H => Orphaned(H)[i].from = Nobody
              /\ pool[i].from \notin H => Orphaned(H)[i].from = pool[i].from
  <1>1. DOMAIN pool = 1 .. Len(pool) /\ Len(pool) \in Nat
    BY LenProperties
  <1>2. \A i \in DOMAIN pool : pool[i] \in Tx
    BY <1>1, ElementOfSeq
  <1>3. \A i \in DOMAIN pool :
          /\ Orphaned(H)[i] \in Tx
          /\ Orphaned(H)[i].call = pool[i].call
          /\ pool[i].from \in H => Orphaned(H)[i].from = Nobody
          /\ pool[i].from \notin H => Orphaned(H)[i].from = pool[i].from
    BY <1>2 DEF Orphaned, Tx
  <1>4. DOMAIN Orphaned(H) = DOMAIN pool
    BY DEF Orphaned
  <1>5. Orphaned(H) \in [1 .. Len(pool) -> Tx]
    BY <1>1, <1>3, <1>4 DEF Orphaned
  <1>. QED  BY <1>1, <1>3, <1>4, <1>5, SeqDef

\* A transaction leaves the pool; only its sender moves.
LEMMA PoolShrinks ==
  ASSUME PageInv, NEW i \in DOMAIN pool, pool' = RemoveAt(pool, i),
         \A g \in Handler : g # pool[i].from => handler'[g] = handler[g]
  PROVE  /\ pool' \in Seq(Tx)
         /\ \A n \in DOMAIN pool' : Waits(n)'
  <1>. DEFINE from(n) == IF n < i THEN n ELSE n + 1
  <1>1. DOMAIN pool = 1 .. Len(pool) /\ Len(pool) \in Nat /\ i \in 1 .. Len(pool)
    BY LenProperties DEF PageInv
  <1>2. /\ pool' \in Seq(Tx) /\ DOMAIN pool' = 1 .. Len(pool) - 1
        /\ \A n \in 1 .. Len(pool) - 1 : pool'[n] = pool[from(n)]
    BY RemoveAtElements DEF PageInv
  <1>3. \A n \in 1 .. Len(pool) - 1 : from(n) \in DOMAIN pool /\ from(n) # i
    BY <1>1
  <1>4. \A n, k \in 1 .. Len(pool) - 1 : from(n) = from(k) => n = k
    BY <1>1
  <1>. HIDE DEF from
  <1>5. ASSUME NEW n \in DOMAIN pool', pool'[n].from # Nobody PROVE Waits(n)'
    <2>1. /\ Waits(from(n)) /\ pool'[n] = pool[from(n)] /\ from(n) \in DOMAIN pool
          /\ from(n) # i
      BY <1>2, <1>3, <1>5 DEF PageInv
    <2>2. pool[from(n)].from # pool[i].from
      BY <1>5, <2>1 DEF Waits
    <2>3. pool[from(n)].from \in Handler
      BY <1>5, <2>1, PoolElement
    <2>4. handler'[pool'[n].from] = handler[pool[from(n)].from]
      BY <2>1, <2>2, <2>3
    <2>5. ASSUME NEW k \in DOMAIN pool', pool'[k].from = pool'[n].from PROVE k = n
      <3>1. pool'[k] = pool[from(k)] /\ from(k) \in DOMAIN pool
        BY <1>2, <1>3
      <3>2. from(k) = from(n)
        BY <1>5, <2>1, <2>5, <3>1 DEF Waits
      <3>. QED  BY <1>2, <1>4, <3>2
    <2>. QED  BY <1>5, <2>1, <2>4, <2>5 DEF Waits
  <1>. QED  BY <1>2, <1>5 DEF Waits


\* The block that takes a transaction makes true what will be said of it.
LEMMA MineAnswers ==
  ASSUME Inv, NEW call \in Call, NEW since \in 1 .. certificateIDincr, Execute(call)
  PROVE  Holds(call, since)'
  <1>0. certificateIDincr \in 1 .. MaxID /\ MaxID \in Nat /\ certificateIDincr \in Nat
        /\ since \in Nat /\ certificateIDincr - 1 <= Len(certificateIDs) /\ Len(certificateIDs) \in Nat
    BY MaxIDAssumption, LenProperties DEF Inv, TypeOK, CounterAndArrayAgree
  <1>1. CASE call.op = "addCertificate"
    <2>1. AddCertificate(call.certificate, call.expireDate)
          /\ call.certificate \in CertString /\ call.expireDate \in Dates
      BY <1>1 DEF Execute, Call
    <2>2. certificates'[certificateIDincr] =
            [certificate |-> call.certificate, expireDate |-> call.expireDate, revoked |-> FALSE]
      BY <2>1, WriteStructContent DEF AddCertificate, Inv
    <2>3. certificateIDincr \in since .. certificateIDincr' - 1
      BY <1>0, <2>1 DEF AddCertificate
    <2>. QED  BY <1>1, <2>2, <2>3 DEF Holds
  <1>2. CASE call.op = "revokeCertificate"
    <2>1. RevokeCertificate(call.certificate)
      BY <1>2 DEF Execute
    <2>2. ASSUME NEW id \in 1 .. since - 1, certificates'[id].certificate = call.certificate
          PROVE  certificates'[id].revoked
      <3>1. id \in ID /\ id \in Scanned
        BY <1>0 DEF ID, Scanned
      <3>2. certificates[id] \in Certificate
        BY <3>1 DEF Inv, TypeOK
      <3>3. id \in Matching(call.certificate)
        BY <2>1, <2>2, <3>1 DEF RevokeCertificate, Matching
      <3>. QED  BY <2>1, <3>1, <3>2, <3>3 DEF RevokeCertificate, Certificate
    <2>. QED  BY <1>2, <2>2 DEF Holds
  <1>3. CASE call.op = "revokeCertificateByID"
    <2>1. RevokeCertificateByID(call.id) /\ call.id \in ID
      BY <1>3 DEF Execute, Call
    <2>2. certificates[call.id] \in Certificate
      BY <2>1 DEF Inv, TypeOK
    <2>3. certificates'[call.id].revoked
      BY <2>1, <2>2 DEF RevokeCertificateByID, Certificate, Inv, TypeOK
    <2>. QED  BY <1>3, <2>3 DEF Holds
  <1>. QED  BY <1>1, <1>2, <1>3 DEF Call

\* A block includes a transaction, with or without effect.
LEMMA IncludedStep ==
  ASSUME PageInv, [FrontendNext]_allVars, NEW i \in DOMAIN pool, NEW outcome \in {"mined", "reverted"},
         Included(i, outcome),
         outcome = "mined" => Execute(pool[i].call)
  PROVE  PageInv'
  <1>1. Inv' /\ [Next]_vars /\ Inv
    BY ContractSteps, InvStep DEF PageInv
  <1>2. CASE pool[i].from = Nobody
    <2>1. handler' = handler
      BY <1>2 DEF Included
    <2>2. pool' \in Seq(Tx) /\ \A n \in DOMAIN pool' : Waits(n)'
      BY <2>1, PoolShrinks DEF Included
    <2>3. ASSUME NEW g \in Handler, handler'[g].at \in InFlight PROVE Sent(handler[g])'
      BY <2>1, <2>3, SentOn
    <2>. QED  BY <1>1, <2>1, <2>2, <2>3 DEF PageInv, InFlight
  <1>3. CASE pool[i].from # Nobody
    <2>1. PICK f : f = pool[i].from
      OBVIOUS
    <2>2. PICK r : r = handler[f]
      OBVIOUS
    <2>3. f \in Handler /\ r.at = "sent" /\ r.call = pool[i].call /\ Sent(r)
      BY <1>3, <2>1, <2>2, PoolElement DEF PageInv, Waits
    <2>4. /\ DOMAIN handler' = Handler /\ handler'[f] = [r EXCEPT !.at = outcome]
          /\ \A g \in Handler : g # f => handler'[g] = handler[g]
      BY <1>3, <2>1, <2>2, <2>3 DEF Included, PageInv
    <2>5. pool' \in Seq(Tx) /\ \A n \in DOMAIN pool' : Waits(n)'
      BY <2>1, <2>4, PoolShrinks DEF Included
    <2>6. Sent(handler[f])'
      <3>1. PICK q : q = handler'[f]
        OBVIOUS
      <3>2. /\ {"at", "call", "since"} \subseteq DOMAIN q
            /\ q.call = r.call /\ q.since = r.since /\ q.at = outcome
        BY <2>3, <2>4, <3>1 DEF Sent
      <3>3. r.call \in Call /\ r.since \in 1 .. certificateIDincr
        BY <2>3, CallsAssumption DEF Sent
      <3>4. r.since \in 1 .. certificateIDincr'
        BY <1>1, <3>3, CounterGrows
      <3>5. outcome = "mined" => Holds(r.call, r.since)'
        BY <1>1, <2>3, <3>3, MineAnswers
      <3>. QED  BY <2>3, <3>1, <3>2, <3>4, <3>5 DEF Sent
    <2>7. ASSUME NEW g \in Handler, handler'[g].at \in InFlight PROVE Sent(handler[g])'
      BY <2>4, <2>6, <2>7, SentOn
    <2>8. \A g \in Handler : "at" \in DOMAIN handler'[g]
      BY <2>3, <2>4 DEF PageInv, Sent
    <2>. QED  BY <1>1, <2>4, <2>5, <2>7, <2>8 DEF PageInv, InFlight
  <1>. QED  BY <1>2, <1>3


\* A form is sent: its transaction is the only one of its handler.
LEMMA SubmitStep ==
  ASSUME PageInv, [FrontendNext]_allVars, NEW h \in Handler, NEW call \in Calls, Submit(h, call)
  PROVE  PageInv'
  <1>1. Inv' /\ Inv
    BY ContractSteps, InvStep DEF PageInv
  <1>2. /\ DOMAIN handler' = Handler
        /\ handler'[h] = [at |-> "sent", call |-> call, since |-> certificateIDincr]
        /\ \A g \in Handler \ {h} : handler'[g] = handler[g]
        /\ handler[h].at = "free" /\ certificateIDincr' = certificateIDincr
    BY DEF Submit, PageInv, Busy, Free, vars
  <1>3. \A i \in DOMAIN pool : pool[i].from # h
    BY <1>2, NobodyAssumption DEF PageInv, Waits
  <1>4. [from |-> h, call |-> call] \in Tx
    BY DEF Tx
  <1>5. DOMAIN pool = 1 .. Len(pool) /\ Len(pool) \in Nat
    BY LenProperties DEF PageInv
  <1>6. /\ pool' \in Seq(Tx) /\ DOMAIN pool' = 1 .. Len(pool) + 1
        /\ \A i \in DOMAIN pool : pool'[i] = pool[i]
        /\ pool'[Len(pool) + 1] = [from |-> h, call |-> call]
    BY <1>4, <1>5, AppendProperties DEF Submit, PageInv
  <1>7. ASSUME NEW i \in DOMAIN pool' PROVE Waits(i)'
    <2>1. CASE i \in DOMAIN pool
      <3>1. Waits(i) /\ pool[i].from \in Handler \union {Nobody} /\ pool[i].from # h
        BY <1>3, <2>1, PoolElement DEF PageInv
      <3>2. \A k \in DOMAIN pool' : k \in DOMAIN pool \/ pool'[k].from = h
        BY <1>5, <1>6
      <3>. QED  BY <1>2, <1>6, <2>1, <3>1, <3>2 DEF Waits
    <2>2. CASE i = Len(pool) + 1
      <3>1. \A k \in DOMAIN pool' : pool'[k].from = h => k = i
        BY <1>3, <1>5, <1>6, <2>2
      <3>. QED  BY <1>2, <1>6, <2>2, <3>1 DEF Waits
    <2>. QED  BY <1>5, <1>6, <1>7, <2>1, <2>2
  <1>8. Sent(handler[h])'
    BY <1>1, <1>2, CounterPositive DEF Sent
  <1>9. ASSUME NEW g \in Handler, handler'[g].at \in InFlight PROVE Sent(handler[g])'
    BY <1>2, <1>8, <1>9, SentOn
  <1>10. \A g \in Handler : "at" \in DOMAIN handler'[g]
    BY <1>2 DEF PageInv
  <1>. QED  BY <1>1, <1>2, <1>6, <1>7, <1>9, <1>10 DEF PageInv, InFlight

\* Handlers that stop waiting leave their transactions to nobody.
LEMMA LeaveOrphans ==
  ASSUME PageInv, [FrontendNext]_allVars, NEW H \in SUBSET Handler, pool' = Orphaned(H),
         DOMAIN handler' = Handler, \A h \in H : handler'[h] = Free,
         \A g \in Handler \ H : handler'[g] = handler[g]
  PROVE  PageInv'
  <1>1. Inv'
    BY ContractSteps, InvStep DEF PageInv
  <1>2. /\ pool' \in Seq(Tx) /\ DOMAIN pool' = DOMAIN pool
        /\ \A i \in DOMAIN pool :
              /\ pool'[i].call = pool[i].call
              /\ pool[i].from \in H => pool'[i].from = Nobody
              /\ pool[i].from \notin H => pool'[i].from = pool[i].from
    BY OrphanedElements DEF PageInv
  <1>3. ASSUME NEW i \in DOMAIN pool', pool'[i].from # Nobody PROVE Waits(i)'
    <2>1. /\ Waits(i) /\ pool[i].from \in Handler \ H /\ i \in DOMAIN pool
          /\ pool'[i].from = pool[i].from
      BY <1>2, <1>3, PoolElement DEF PageInv
    <2>2. ASSUME NEW k \in DOMAIN pool', pool'[k].from = pool'[i].from PROVE k = i
      <3>1. pool[k].from = pool[i].from /\ k \in DOMAIN pool
        BY <1>2, <1>3, <2>1, <2>2
      <3>. QED  BY <1>3, <2>1, <3>1 DEF Waits
    <2>. QED  BY <1>2, <1>3, <2>1, <2>2 DEF Waits
  <1>4. ASSUME NEW g \in Handler, handler'[g].at \in InFlight PROVE Sent(handler[g])'
    <2>1. g \notin H
      BY <1>4 DEF Free, InFlight
    <2>. QED  BY <1>4, <2>1, SentOn
  <1>5. \A g \in Handler : "at" \in DOMAIN handler'[g]
    BY DEF PageInv, Free
  <1>. QED  BY <1>1, <1>2, <1>3, <1>4, <1>5 DEF PageInv, InFlight, Waits

\* A rejected promise: the transaction is gone, or nobody's.
LEMMA RejectStep ==
  ASSUME PageInv, [FrontendNext]_allVars, NEW h \in Handler, Reject(h)
  PROVE  PageInv'
  <1>1. /\ DOMAIN handler' = Handler /\ handler'[h] = Free
        /\ \A g \in Handler \ {h} : handler'[g] = handler[g]
    BY DEF Reject, Finish, PageInv
  <1>2. CASE pool' = Orphaned({h})
    BY <1>1, <1>2, LeaveOrphans
  <1>3. CASE \E i \in DOMAIN pool : pool[i].from = h /\ pool' = RemoveAt(pool, i)
    <2>1. pool' \in Seq(Tx) /\ \A n \in DOMAIN pool' : Waits(n)'
      BY <1>1, <1>3, PoolShrinks
    <2>2. Inv'
      BY ContractSteps, InvStep DEF PageInv
    <2>3. ASSUME NEW g \in Handler, handler'[g].at \in InFlight PROVE Sent(handler[g])'
      <3>1. g # h
        BY <1>1, <2>3 DEF Free, InFlight
      <3>. QED  BY <1>1, <2>3, <3>1, SentOn
    <2>4. \A g \in Handler : "at" \in DOMAIN handler'[g]
      BY <1>1 DEF PageInv, Free
    <2>. QED  BY <1>1, <2>1, <2>2, <2>3, <2>4 DEF PageInv, InFlight
  <1>. QED  BY <1>2, <1>3 DEF Reject

\* The reads, and the handler whose transaction was mined.
LEMMA ReadStep ==
  ASSUME PageInv, [FrontendNext]_allVars, NEW h \in Handler,
         \/ Resolve(h) \/ GetAllCerts(h) \/ GetCert(h)
         \/ ReadList(h) \/ ReadRow(h) \/ ReadCert(h) \/ ReadFails(h)
  PROVE  PageInv'
  <1>1. /\ handler[h].at # "sent" /\ pool' = pool
        /\ DOMAIN handler' = Handler
        /\ \A g \in Handler \ {h} : handler'[g] = handler[g]
        /\ "at" \in DOMAIN handler'[h] /\ handler'[h].at \notin InFlight
    <2>1. CASE Resolve(h) \/ ReadCert(h) \/ ReadFails(h)
      <3>1. /\ handler[h].at \in {"mined", "listing", "reading", "getting"} /\ pool' = pool
            /\ Finish(h)
        BY <2>1 DEF Resolve, ReadCert, ReadFails
      <3>. QED  BY <3>1 DEF Finish, Free, PageInv, InFlight
    <2>2. CASE GetAllCerts(h) \/ GetCert(h)
      BY <2>2 DEF GetAllCerts, GetCert, Busy, Free, PageInv, InFlight
    <2>3. CASE ReadList(h)
      BY <2>3 DEF ReadList, PageInv, InFlight
    <2>4. CASE ReadRow(h)
      <3>1. handler[h].at = "reading" /\ pool' = pool
        BY <2>4 DEF ReadRow
      <3>2. CASE Finish(h)
        BY <3>1, <3>2 DEF Finish, Free, PageInv, InFlight
      <3>3. CASE \E i, rows : handler' = [handler EXCEPT ![h].i = i, ![h].rows = rows]
        BY <3>1, <3>3 DEF PageInv, InFlight
      <3>. QED  BY <2>4, <3>2, <3>3 DEF ReadRow
    <2>. QED  BY <2>1, <2>2, <2>3, <2>4
  <1>. QED  BY <1>1, HandlerMoves

\* PageInv is inductive: every step of the page and of the others keeps it.
LEMMA PageStep == PageInv /\ [FrontendNext]_allVars => PageInv'
  <1>. SUFFICES ASSUME PageInv, [FrontendNext]_allVars PROVE PageInv'
    OBVIOUS
  <1>1. ASSUME NEW h \in Handler, (\E call \in Calls : Submit(h, call)) \/ GetAllCerts(h) \/ GetCert(h) \/ Answer(h)
        PROVE  PageInv'
    BY <1>1, SubmitStep, RejectStep, ReadStep DEF Answer
  <1>2. CASE Mine
    BY <1>2, IncludedStep DEF Mine
  <1>3. CASE OutOfGas
    BY <1>3, IncludedStep DEF OutOfGas
  <1>4. CASE Reload
    <2>1. pool' = Orphaned(Handler) /\ DOMAIN handler' = Handler /\ \A h \in Handler : handler'[h] = Free
      BY <1>4 DEF Reload
    <2>. QED  BY <2>1, LeaveOrphans
  <1>5. CASE LoadWallet \/ Others \/ UNCHANGED allVars
    <2>1. UNCHANGED <<handler, pool>>
      BY <1>5 DEF LoadWallet, Others, pageVars, allVars
    <2>2. Inv'
      BY ContractSteps, InvStep DEF PageInv
    <2>3. ASSUME NEW g \in Handler, handler'[g].at \in InFlight PROVE Sent(handler[g])'
      BY <2>1, <2>3, SentOn
    <2>. QED  BY <2>1, <2>2, <2>3 DEF PageInv, InFlight, Waits
  <1>. QED  BY <1>1, <1>2, <1>3, <1>4, <1>5 DEF FrontendNext

\* It holds in every reachable state.
LEMMA PageInvAlwaysHolds == FrontendSpec => []PageInv
  <1>1. FrontendInit => PageInv
    <2>. SUFFICES ASSUME FrontendInit PROVE PageInv
      OBVIOUS
    <2>1. Inv
      BY InitInv DEF FrontendInit
    <2>2. pool \in Seq(Tx) /\ DOMAIN pool = {}
      <3>1. << >> \in Seq(Tx) /\ DOMAIN << >> = {}
        OBVIOUS
      <3>. QED  BY <3>1 DEF FrontendInit
    <2>3. DOMAIN handler = Handler /\ \A h \in Handler : "at" \in DOMAIN handler[h] /\ handler[h].at = "free"
      BY DEF FrontendInit, Free
    <2>. QED  BY <2>1, <2>2, <2>3 DEF PageInv
  <1>. QED  BY <1>1, PageStep, PTL DEF FrontendSpec

\* Whatever overlaps, is mined late or out of order, and whoever else calls the
\* contract: a success message is true of the ledger when it appears
\* (AddCert.js, RevokeCert.js, RevokeCertByID.js).
THEOREM AnswersAlwaysTrue == FrontendSpec => AnswersTrue
  <1>1. ASSUME PageInv, NEW h \in Handler, Resolve(h)
        PROVE  Holds(handler[h].call, handler[h].since)
    BY <1>1 DEF Resolve, PageInv, Sent
  <1>2. PageInv /\ [FrontendNext]_allVars =>
          [\A h \in Handler : Resolve(h) =>
             LET call == handler[h].call
                 since == handler[h].since
             IN  CASE call.op = "addCertificate" ->
                        \E id \in since .. certificateIDincr - 1 :
                          /\ certificates[id].certificate = call.certificate
                          /\ certificates[id].expireDate = call.expireDate
                   [] call.op = "revokeCertificate" ->
                        \A id \in 1 .. since - 1 :
                          certificates[id].certificate = call.certificate => certificates[id].revoked
                   [] call.op = "revokeCertificateByID" ->
                        call.id < since => certificates[call.id].revoked]_allVars
    BY <1>1 DEF Holds
  <1>. QED  BY <1>2, PageInvAlwaysHolds, PTL DEF FrontendSpec, AnswersTrue

\* A handler still waits whenever the page says so, unless a read failed
\* (the try blocks of the forms, GetAllCerts.js and GetCert.js without one).
THEOREM WaitingIsNeverLeftBehind == FrontendSpec => WaitsForSomebody
  <1>1. ASSUME PageInv, [FrontendNext]_allVars, message' = Waiting, AllFree'
        PROVE  \/ message = Waiting /\ AllFree
               \/ \E h \in Handler : ReadFails(h)
    <2>0. \A h \in Handler : handler'[h] = Free
      BY <1>1 DEF AllFree, Busy
    <2>1. ASSUME NEW h \in Handler, (\E call \in Calls : Submit(h, call)) \/ GetAllCerts(h) \/ GetCert(h) \/ ReadList(h)
          PROVE  FALSE
      <3>1. handler'[h].at \in {"sent", "listing", "getting", "reading"}
        <4>1. CASE \E call \in Calls : Submit(h, call)
          BY <1>1, <4>1 DEF Submit, PageInv
        <4>2. CASE GetAllCerts(h)
          BY <1>1, <4>2 DEF GetAllCerts, PageInv
        <4>3. CASE GetCert(h)
          BY <1>1, <4>3 DEF GetCert, PageInv
        <4>4. CASE ReadList(h)
          BY <1>1, <4>4 DEF ReadList, PageInv
        <4>. QED  BY <2>1, <4>1, <4>2, <4>3, <4>4
      <3>. QED  BY <2>0, <3>1 DEF Free
    <2>2. ASSUME NEW h \in Handler, Resolve(h) \/ Reject(h) \/ ReadCert(h) PROVE FALSE
      BY <1>1, <2>2 DEF Resolve, Reject, ReadCert, Say, Text, Waiting
    <2>3. ASSUME NEW h \in Handler, ReadRow(h) PROVE FALSE
      <3>1. handler[h].at = "reading"
        BY <2>3 DEF ReadRow
      <3>2. CASE LastIndex(handler[h].ids, handler[h].i)
        <4>1. "rows" \in DOMAIN message'
          <5>1. \E t, rows, v, n : message' = [text |-> t, rows |-> rows, valid |-> v, since |-> n]
            BY <2>3, <3>2, Zenon DEF ReadRow
          <5>. QED  BY <5>1
        <4>. QED  BY <1>1, <4>1 DEF Waiting, Text
      <3>3. CASE ~LastIndex(handler[h].ids, handler[h].i)
        <4>1. \E i, rows : handler' = [handler EXCEPT ![h].i = i, ![h].rows = rows]
          BY <2>3, <3>3 DEF ReadRow
        <4>2. handler'[h].at = "reading"
          BY <1>1, <3>1, <4>1 DEF PageInv
        <4>. QED  BY <2>0, <4>2 DEF Free
      <3>. QED  BY <3>2, <3>3
    <2>4. ASSUME Mine \/ OutOfGas PROVE message = Waiting /\ AllFree
      <3>1. PICK i \in DOMAIN pool, outcome \in {"mined", "reverted"} : Included(i, outcome)
        BY <2>4 DEF Mine, OutOfGas
      <3>2. message = Waiting
        BY <1>1, <3>1 DEF Included
      <3>3. CASE pool[i].from = Nobody
        BY <1>1, <3>1, <3>2, <3>3 DEF Included, AllFree, Busy
      <3>4. CASE pool[i].from # Nobody
        <4>1. pool[i].from \in Handler /\ "at" \in DOMAIN handler[pool[i].from]
          BY <1>1, <3>1, <3>4, PoolElement DEF PageInv
        <4>2. handler'[pool[i].from].at = outcome
          BY <1>1, <3>1, <3>4, <4>1 DEF Included, PageInv
        <4>. QED  BY <2>0, <4>1, <4>2 DEF Free
      <3>. QED  BY <3>3, <3>4
    <2>5. CASE LoadWallet \/ Reload
      BY <1>1, <2>5 DEF LoadWallet, Reload, Say, Text, Waiting
    <2>6. CASE Others \/ UNCHANGED allVars
      BY <1>1, <2>6 DEF Others, allVars, pageVars, AllFree, Busy
    <2>. QED  BY <1>1, <2>1, <2>2, <2>3, <2>4, <2>5, <2>6 DEF FrontendNext, Answer
  <1>2. PageInv /\ [FrontendNext]_allVars =>
          [message' = Waiting /\ AllFree' =>
             \/ message = Waiting /\ AllFree
             \/ \E h \in Handler : ReadFails(h)]_allVars
    BY <1>1
  <1>. QED  BY <1>2, PageInvAlwaysHolds, PTL DEF FrontendSpec, WaitsForSomebody

-----------------------------------------------------------------------------
(* The listing, fetched row by row from a ledger that moves on.             *)

\* What a row says of an id issued by then is so, and what it calls revoked is.
TrueRows(rows, since) ==
  \A k \in DOMAIN rows :
    LET row == rows[k]
    IN  row.id < since =>
          /\ row.certificate = certificates[row.id].certificate
          /\ row.expireDate = certificates[row.id].expireDate
          /\ row.revoked => certificates[row.id].revoked

\* A handler at its i-th turn holds the array of its first read, and a row for
\* each id in front of i: it stops before a zero, unless that is the first.
AtTurn(r, n, j) ==
  /\ r = [at |-> "reading", ids |-> r.ids, i |-> r.i, rows |-> r.rows,
          valid |-> r.valid, since |-> r.since]
  /\ Lists(r.ids, r.valid, n, j)
  /\ r.i \in 0 .. n /\ (r.i = 0 \/ r.i < j)
  /\ r.rows \in Seq(Listing) /\ Len(r.rows) = r.i
  /\ \A k \in 1 .. r.i : r.rows[k].id = r.ids[k - 1]
  /\ r.since \in 1 .. certificateIDincr
  /\ TrueRows(r.rows, r.since)

\* The listing on the page.
Shows(m) ==
  /\ m.rows \in Seq(Listing)
  /\ {m.rows[k].id : k \in DOMAIN m.rows} = m.valid
  /\ \A k, l \in DOMAIN m.rows : k < l => m.rows[k].id < m.rows[l].id
  /\ m.text = "No valid certificates" <=> m.valid = {}
  /\ m.since \in 1 .. certificateIDincr
  /\ TrueRows(m.rows, m.since)

Places == {"free", "sent", "mined", "reverted", "listing", "reading", "getting"}

ListInv ==
  /\ \A h \in Handler : handler[h].at \in Places
  /\ \A h \in Handler : handler[h].at = "reading" => \E n \in Nat : \E j : AtTurn(handler[h], n, j)
  /\ "rows" \in DOMAIN message => Shows(message)

\* Later blocks take nothing back of what a row says.
LEMMA TrueRowsOn ==
  ASSUME Inv, [Next]_vars, NEW rows \in Seq(Listing), NEW since \in 1 .. certificateIDincr,
         TrueRows(rows, since)
  PROVE  TrueRows(rows, since)' /\ since \in 1 .. certificateIDincr'
  <1>1. certificateIDincr' >= certificateIDincr /\ certificateIDincr' \in Nat /\ certificateIDincr \in Nat
    BY CounterGrows
  <1>2. ASSUME NEW k \in DOMAIN rows, rows[k].id < since
        PROVE  /\ certificates'[rows[k].id].certificate = rows[k].certificate
               /\ certificates'[rows[k].id].expireDate = rows[k].expireDate
               /\ rows[k].revoked => certificates'[rows[k].id].revoked
    <2>1. rows[k] \in Listing
      BY ElementOfSeq, LenProperties
    <2>2. rows[k].id \in Nat
      BY <2>1, MaxIDAssumption DEF Listing, ID
    <2>3. rows[k].id \in 0 .. certificateIDincr - 1
      BY <1>1, <1>2, <2>2
    <2>4. /\ certificates'[rows[k].id].certificate = certificates[rows[k].id].certificate
          /\ certificates'[rows[k].id].expireDate = certificates[rows[k].id].expireDate
          /\ certificates[rows[k].id].revoked => certificates'[rows[k].id].revoked
      BY <2>3, UnderTheCounter
    <2>. QED  BY <1>2, <2>4 DEF TrueRows
  <1>3. TrueRows(rows, since)'
    BY <1>2 DEF TrueRows
  <1>. QED  BY <1>1, <1>3

\* A listing under way stays as far as it is while others take a step.
LEMMA AtTurnOn ==
  ASSUME Inv, [Next]_vars, NEW r, NEW n \in Nat, NEW j, AtTurn(r, n, j)
  PROVE  AtTurn(r, n, j)'
  <1>1. TrueRows(r.rows, r.since)' /\ r.since \in 1 .. certificateIDincr'
    BY TrueRowsOn DEF AtTurn
  <1>. QED  BY <1>1 DEF AtTurn

\* So does the listing on the page.
LEMMA ShowsOn ==
  ASSUME Inv, [Next]_vars, NEW m, Shows(m)
  PROVE  Shows(m)'
  <1>1. TrueRows(m.rows, m.since)' /\ m.since \in 1 .. certificateIDincr'
    BY TrueRowsOn DEF Shows
  <1>. QED  BY <1>1 DEF Shows

\* Steps that move one handler: the others are where they were.
LEMMA OneAtTurn ==
  ASSUME PageInv, ListInv, [FrontendNext]_allVars,
         \A g \in Handler : \/ handler'[g] = handler[g]
                            \/ handler'[g].at \in Places \ {"reading"}
                            \/ /\ handler'[g].at = "reading"
                               /\ \E n \in Nat : \E j : AtTurn(handler[g], n, j)',
         message' = message \/ ("rows" \in DOMAIN message' => Shows(message)')
  PROVE  ListInv'
  <1>1. Inv /\ [Next]_vars
    BY ContractSteps DEF PageInv
  <1>2. ASSUME NEW g \in Handler, handler'[g].at = "reading", handler'[g] = handler[g]
        PROVE  \E n \in Nat : \E j : AtTurn(handler[g], n, j)'
    <2>1. PICK r : r = handler[g]
      OBVIOUS
    <2>2. PICK n, j : n \in Nat /\ AtTurn(r, n, j)
      BY <1>2, <2>1 DEF ListInv
    <2>3. AtTurn(r, n, j)'
      BY <1>1, <2>2, AtTurnOn
    <2>4. AtTurn(handler[g], n, j)'
      BY <1>2, <2>1, <2>3
    <2>. QED  BY <2>2, <2>4
  <1>3. \A g \in Handler : handler'[g].at = "reading" => \E n \in Nat : \E j : AtTurn(handler[g], n, j)'
    BY <1>2
  <1>4. "rows" \in DOMAIN message' => Shows(message)'
    <2>1. PICK m : m = message
      OBVIOUS
    <2>2. ASSUME message' = message, "rows" \in DOMAIN message' PROVE Shows(message)'
      <3>1. Shows(m)
        BY <2>1, <2>2 DEF ListInv
      <3>2. Shows(m)'
        BY <1>1, <3>1, ShowsOn
      <3>. QED  BY <2>1, <2>2, <3>2
    <2>. QED  BY <2>2
  <1>5. \A g \in Handler : handler'[g].at \in Places
    BY DEF ListInv, Places
  <1>. QED  BY <1>3, <1>4, <1>5 DEF ListInv

\* Steps that start no listing and take no turn of one.
LEMMA ListingsKept ==
  ASSUME PageInv, ListInv, [FrontendNext]_allVars,
         \A g \in Handler : handler'[g] = handler[g] \/ handler'[g].at \in Places \ {"reading"},
         message' = message \/ "rows" \notin DOMAIN message'
  PROVE  ListInv'
  BY OneAtTurn

\* The first read of GetAllCerts.
LEMMA ReadListStep ==
  ASSUME PageInv, ListInv, [FrontendNext]_allVars, NEW h \in Handler, ReadList(h)
  PROVE  ListInv'
  <1>1. PICK n, j : n \in Nat /\ Lists(GetAllCertificates, {id \in ID : Listed(id)}, n, j)
    BY ListingLists DEF PageInv
  <1>2. PICK r : r = [at |-> "reading", ids |-> GetAllCertificates, i |-> 0, rows |-> <<>>,
                      valid |-> {id \in ID : Listed(id)}, since |-> certificateIDincr]
    OBVIOUS
  <1>3. /\ handler'[h] = r /\ \A g \in Handler : g # h => handler'[g] = handler[g]
        /\ message' = message /\ certificateIDincr' = certificateIDincr
    BY <1>2 DEF ReadList, PageInv, vars
  <1>4. AtTurn(r, n, j)'
    <2>1. /\ r = [at |-> "reading", ids |-> r.ids, i |-> r.i, rows |-> r.rows,
                  valid |-> r.valid, since |-> r.since]
          /\ r.i = 0 /\ r.rows = <<>> /\ r.since = certificateIDincr
      BY <1>2
    <2>2. Lists(r.ids, r.valid, n, j)
      BY <1>1, <1>2
    <2>3. r.rows \in Seq(Listing) /\ Len(r.rows) = 0 /\ DOMAIN r.rows = {}
      BY <2>1
    <2>4. TrueRows(r.rows, r.since)'
      BY <2>3 DEF TrueRows
    <2>5. r.since \in 1 .. certificateIDincr'
      BY <1>3, <2>1, CounterPositive DEF PageInv
    <2>. QED  BY <1>1, <2>1, <2>2, <2>3, <2>4, <2>5 DEF AtTurn
  <1>5. handler'[h].at = "reading" /\ \E m \in Nat : \E k : AtTurn(handler[h], m, k)'
    <2>1. AtTurn(handler[h], n, j)'
      BY <1>3, <1>4
    <2>2. r.at = "reading"
      BY <1>2
    <2>. QED  BY <1>1, <1>3, <2>1, <2>2
  <1>. QED  BY <1>3, <1>5, OneAtTurn

\* A row of the moment is true.
LEMMA RowOfNow ==
  ASSUME Inv, NEW id \in ID
  PROVE  /\ Row(id) \in Listing /\ Row(id).id = id
         /\ Row(id).certificate = certificates[id].certificate
         /\ Row(id).expireDate = certificates[id].expireDate
         /\ Row(id).revoked = certificates[id].revoked
  <1>1. certificates[id] \in Certificate
    BY DEF Inv, TypeOK
  <1>. QED  BY <1>1 DEF Row, Listing, Certificate

\* One more row, for the id at the turn.
LEMMA NextRow ==
  ASSUME Inv, NEW r, NEW n \in Nat, NEW j, AtTurn(r, n, j), r.ids[r.i] # 0
  PROVE  /\ r.i < j /\ r.i \in Nat /\ r.ids[r.i] \in ID
         /\ Append(r.rows, Row(r.ids[r.i])) \in Seq(Listing)
         /\ Len(Append(r.rows, Row(r.ids[r.i]))) = r.i + 1
         /\ \A k \in 1 .. r.i + 1 : Append(r.rows, Row(r.ids[r.i]))[k].id = r.ids[k - 1]
         /\ TrueRows(Append(r.rows, Row(r.ids[r.i])), r.since)
  <1>1. PICK ids, i, rows, since : ids = r.ids /\ i = r.i /\ rows = r.rows /\ since = r.since
    OBVIOUS
  <1>2. /\ ids \in [0 .. n -> ID] /\ j \in 0 .. n + 1 /\ i \in 0 .. n
        /\ i = 0 \/ i < j
        /\ \A l \in j .. n : ids[l] = 0
        /\ rows \in Seq(Listing) /\ Len(rows) = i
        /\ \A k \in 1 .. i : rows[k].id = ids[k - 1]
        /\ TrueRows(rows, since) /\ ids[i] # 0
    BY <1>1 DEF AtTurn, Lists
  <1>3. i < j /\ i \in Nat /\ ids[i] \in ID
    BY <1>2
  <1>4. PICK row : row = Row(ids[i])
    OBVIOUS
  <1>5. /\ row \in Listing /\ row.id = ids[i]
        /\ row.certificate = certificates[row.id].certificate
        /\ row.expireDate = certificates[row.id].expireDate
        /\ row.revoked = certificates[row.id].revoked
    BY <1>3, <1>4, RowOfNow
  <1>6. PICK longer : longer = Append(rows, row)
    OBVIOUS
  <1>7. /\ longer \in Seq(Listing) /\ Len(longer) = i + 1 /\ DOMAIN longer = 1 .. i + 1
        /\ longer[i + 1] = row
        /\ \A k \in 1 .. i : longer[k] = rows[k] /\ k \in DOMAIN rows
    BY <1>2, <1>3, <1>5, <1>6, AppendProperties, LenProperties
  <1>8. \A k \in 1 .. i + 1 : longer[k].id = ids[k - 1]
    <2>1. ASSUME NEW k \in 1 .. i + 1 PROVE longer[k].id = ids[k - 1]
      <3>1. CASE k = i + 1
        <4>1. k - 1 = i
          BY <1>3, <3>1
        <4>. QED  BY <1>5, <1>7, <3>1, <4>1
      <3>2. CASE k # i + 1
        <4>1. k \in 1 .. i
          BY <1>3, <3>2
        <4>. QED  BY <1>2, <1>7, <4>1
      <3>. QED  BY <3>1, <3>2
    <2>. QED  BY <2>1
  <1>9. TrueRows(longer, since)
    <2>1. ASSUME NEW k \in DOMAIN longer, longer[k].id < since
          PROVE  /\ longer[k].certificate = certificates[longer[k].id].certificate
                 /\ longer[k].expireDate = certificates[longer[k].id].expireDate
                 /\ longer[k].revoked => certificates[longer[k].id].revoked
      <3>1. CASE k = i + 1
        BY <1>5, <1>7, <3>1
      <3>2. CASE k # i + 1
        <4>1. k \in 1 .. i
          BY <1>3, <1>7, <3>2
        <4>2. longer[k] = rows[k] /\ k \in DOMAIN rows
          BY <1>7, <4>1
        <4>. QED  BY <1>2, <2>1, <4>2 DEF TrueRows
      <3>. QED  BY <3>1, <3>2
    <2>. QED  BY <2>1 DEF TrueRows
  <1>. QED  BY <1>1, <1>3, <1>4, <1>6, <1>7, <1>8, <1>9

\* A handler after a turn of the loop that is not its last.
Turned(r) ==
  [r EXCEPT !.i = r.i + 1,
            !.rows = IF r.ids[r.i] # 0 THEN Append(r.rows, Row(r.ids[r.i])) ELSE r.rows]

\* It has come one row further.
LEMMA TurnTaken ==
  ASSUME Inv, NEW r, NEW n \in Nat, NEW j, AtTurn(r, n, j), ~LastIndex(r.ids, r.i),
         NEW q, q = Turned(r)
  PROVE  AtTurn(q, n, j)
  <1>1. /\ r = [at |-> "reading", ids |-> r.ids, i |-> r.i, rows |-> r.rows,
                valid |-> r.valid, since |-> r.since]
        /\ r.ids \in [0 .. n -> ID] /\ j \in 0 .. n + 1 /\ r.i \in 0 .. n
        /\ \A l \in 0 .. j - 1 : r.ids[l] # 0
        /\ \A l \in j .. n : r.ids[l] = 0
    BY DEF AtTurn, Lists
  <1>2. r.i + 1 \in 0 .. n /\ r.ids[r.i + 1] # 0
    BY <1>1 DEF LastIndex
  <1>3. r.i + 1 < j
    BY <1>1, <1>2
  <1>4. r.i \in 0 .. j - 1
    BY <1>1, <1>3
  <1>5. r.ids[r.i] # 0
    BY <1>1, <1>4
  <1>6. PICK rows : rows = Append(r.rows, Row(r.ids[r.i]))
    OBVIOUS
  <1>7. q = [at |-> "reading", ids |-> r.ids, i |-> r.i + 1, rows |-> rows,
             valid |-> r.valid, since |-> r.since]
    <2>1. PICK ids, i, old, valid, since : /\ ids = r.ids /\ i = r.i /\ old = r.rows
                                           /\ valid = r.valid /\ since = r.since
      OBVIOUS
    <2>2. r = [at |-> "reading", ids |-> ids, i |-> i, rows |-> old, valid |-> valid, since |-> since]
      BY <1>1, <2>1, Zenon
    <2>3. q = [r EXCEPT !.i = i + 1, !.rows = rows]
      BY <1>5, <1>6, <2>1 DEF Turned
    <2>4. q = [at |-> "reading", ids |-> ids, i |-> i + 1, rows |-> rows, valid |-> valid, since |-> since]
      BY <2>2, <2>3
    <2>. QED  BY <2>1, <2>4, Zenon
  <1>8. /\ rows \in Seq(Listing) /\ Len(rows) = r.i + 1
        /\ \A k \in 1 .. r.i + 1 : rows[k].id = r.ids[k - 1]
        /\ TrueRows(rows, r.since)
    BY <1>5, <1>6, NextRow
  <1>9. Lists(r.ids, r.valid, n, j) /\ r.since \in 1 .. certificateIDincr
    BY DEF AtTurn
  <1>10. q.ids = r.ids /\ q.i = r.i + 1 /\ q.rows = rows /\ q.valid = r.valid /\ q.since = r.since
    <2>1. PICK next : next = r.i + 1
      OBVIOUS
    <2>2. PICK ids, valid, since : ids = r.ids /\ valid = r.valid /\ since = r.since
      OBVIOUS
    <2>3. q = [at |-> "reading", ids |-> ids, i |-> next, rows |-> rows, valid |-> valid, since |-> since]
      BY <1>7, <2>1, <2>2, Zenon
    <2>4. q.ids = ids /\ q.i = next /\ q.rows = rows /\ q.valid = valid /\ q.since = since
      BY <2>3
    <2>. QED  BY <2>1, <2>2, <2>4, Zenon
  <1>11. q = [at |-> "reading", ids |-> q.ids, i |-> q.i, rows |-> q.rows,
              valid |-> q.valid, since |-> q.since]
    BY <1>7, <1>10, Zenon
  <1>. QED  BY <1>2, <1>3, <1>8, <1>9, <1>10, <1>11 DEF AtTurn

\* What GetAllCerts writes on the page after its last turn.
Shown(r) ==
  [text |-> IF r.ids[r.i] = 0 /\ r.i = 0 THEN "No valid certificates" ELSE "Certificate data",
   rows |-> IF r.ids[r.i] # 0 THEN Append(r.rows, Row(r.ids[r.i])) ELSE r.rows,
   valid |-> r.valid, since |-> r.since]

\* The last turn: the array ends, or its next place is zero.
LEMMA ListingShown ==
  ASSUME Inv, NEW r, NEW n \in Nat, NEW j, AtTurn(r, n, j), LastIndex(r.ids, r.i),
         NEW m, m = Shown(r)
  PROVE  Shows(m)
  <1>1. PICK ids, i, valid, rows :
               ids = r.ids /\ i = r.i /\ valid = r.valid /\ rows = m.rows
    OBVIOUS
  <1>11. m.valid = r.valid /\ m.since = r.since
    BY DEF Shown
  <1>2. /\ ids \in [0 .. n -> ID] /\ j \in 0 .. n + 1 /\ i \in 0 .. n
        /\ i = 0 \/ i < j
        /\ {ids[l] : l \in 0 .. j - 1} = valid
        /\ \A l \in 0 .. j - 1 : ids[l] # 0
        /\ \A l, o \in 0 .. j - 1 : l < o => ids[l] < ids[o]
        /\ \A l \in j .. n : ids[l] = 0
    BY <1>1 DEF AtTurn, Lists
  <1>0. n \in Nat /\ j \in Nat /\ i \in Nat /\ j <= n + 1 /\ i <= n
    BY <1>2
  <1>3. i + 1 \notin 0 .. n \/ ids[i + 1] = 0
    BY <1>1, <1>2 DEF LastIndex
  <1>4. j <= i + 1
    <2>1. ASSUME i + 1 < j PROVE FALSE
      <3>1. i + 1 \in 0 .. j - 1 /\ i + 1 \in 0 .. n
        BY <1>0, <2>1
      <3>. QED  BY <1>2, <1>3, <3>1
    <2>. QED  BY <1>0, <2>1
  <1>5. rows \in Seq(Listing) /\ Len(rows) = j /\ TrueRows(rows, m.since)
        /\ \A k \in 1 .. j : rows[k].id = ids[k - 1]
    <2>1. CASE ids[i] # 0
      <3>1. i < j /\ i + 1 = j
        <4>1. r.i < j
          BY <1>1, <2>1, NextRow
        <4>. QED  BY <1>0, <1>1, <1>4, <4>1
      <3>2. rows = Append(r.rows, Row(r.ids[r.i]))
        BY <1>1, <2>1 DEF Shown
      <3>. QED  BY <1>1, <1>11, <2>1, <3>1, <3>2, NextRow
    <2>2. CASE ids[i] = 0
      <3>1. i = 0 /\ j = 0
        <4>1. ~(i \in 0 .. j - 1)
          BY <1>2, <2>2
        <4>2. ~(i < j)
          BY <1>0, <4>1
        <4>. QED  BY <1>0, <1>2, <4>2
      <3>2. rows = r.rows
        BY <1>1, <2>2 DEF Shown
      <3>. QED  BY <1>1, <1>11, <3>1, <3>2 DEF AtTurn
    <2>. QED  BY <2>1, <2>2
  <1>6. DOMAIN rows = 1 .. j
    BY <1>5, LenProperties
  <1>7. {rows[k].id : k \in DOMAIN rows} = valid
    <2>1. \A k \in 1 .. j : k - 1 \in 0 .. j - 1
      BY <1>0
    <2>2. \A l \in 0 .. j - 1 : l + 1 \in 1 .. j /\ (l + 1) - 1 = l
      BY <1>0
    <2>3. ASSUME NEW k \in DOMAIN rows PROVE rows[k].id \in valid
      BY <1>2, <1>5, <1>6, <2>1
    <2>4. ASSUME NEW v \in valid PROVE \E k \in DOMAIN rows : rows[k].id = v
      <3>1. PICK l \in 0 .. j - 1 : v = ids[l]
        BY <1>2
      <3>. QED  BY <1>5, <1>6, <2>2, <3>1
    <2>. QED  BY <2>3, <2>4
  <1>8. \A k, l \in DOMAIN rows : k < l => rows[k].id < rows[l].id
    <2>1. \A k \in 1 .. j : k - 1 \in 0 .. j - 1
      BY <1>0
    <2>2. \A k, l \in 1 .. j : k < l => k - 1 < l - 1
      BY <1>0
    <2>. QED  BY <1>2, <1>5, <1>6, <2>1, <2>2
  <1>9. m.text = "No valid certificates" <=> valid = {}
    <2>1. valid = {} <=> j = 0
      <3>1. j # 0 => 0 \in 0 .. j - 1
        BY <1>0
      <3>. QED  BY <1>2, <3>1
    <2>2. ids[i] = 0 /\ i = 0 <=> j = 0
      <3>1. CASE j = 0
        <4>1. i = 0 /\ 0 \in j .. n
          BY <1>0, <1>2, <3>1
        <4>. QED  BY <1>2, <3>1, <4>1
      <3>2. CASE j # 0
        <4>1. 0 \in 0 .. j - 1
          BY <1>0, <3>2
        <4>. QED  BY <1>2, <3>2, <4>1
      <3>. QED  BY <3>1, <3>2
    <2>3. m.text = IF ids[i] = 0 /\ i = 0 THEN "No valid certificates" ELSE "Certificate data"
      BY <1>1 DEF Shown
    <2>. QED  BY <2>1, <2>2, <2>3
  <1>10. m.rows = rows /\ m.valid = valid /\ m.since \in 1 .. certificateIDincr
    BY <1>1, <1>11 DEF AtTurn
  <1>12. /\ m.rows \in Seq(Listing) /\ TrueRows(m.rows, m.since)
         /\ {m.rows[k].id : k \in DOMAIN m.rows} = m.valid
         /\ \A k, l \in DOMAIN m.rows : k < l => m.rows[k].id < m.rows[l].id
    BY <1>5, <1>7, <1>8, <1>10
  <1>13. m.text = "No valid certificates" <=> m.valid = {}
    BY <1>9, <1>10
  <1>. QED  BY <1>10, <1>12, <1>13 DEF Shows

\* One turn of the loop of GetAllCerts.
LEMMA ReadRowStep ==
  ASSUME PageInv, ListInv, [FrontendNext]_allVars, NEW h \in Handler, ReadRow(h)
  PROVE  ListInv'
  <1>1. Inv /\ [Next]_vars
    BY ContractSteps DEF PageInv
  <1>2. PICK r : r = handler[h]
    OBVIOUS
  <1>3. PICK n, j : n \in Nat /\ AtTurn(r, n, j)
    BY <1>2 DEF ReadRow, ListInv
  <1>5. \A g \in Handler : g # h => handler'[g] = handler[g]
    BY DEF ReadRow, Finish, PageInv
  <1>6. CASE LastIndex(r.ids, r.i)
    <2>1. PICK m : m = Shown(r)
      OBVIOUS
    <2>2. message' = m /\ handler'[h] = Free
      BY <1>2, <1>6, <2>1 DEF ReadRow, Finish, PageInv, Shown
    <2>3. Shows(m)
      BY <1>1, <1>3, <1>6, <2>1, ListingShown
    <2>4. Shows(m)'
      BY <1>1, <2>3, ShowsOn
    <2>5. Shows(message)'
      BY <2>2, <2>4
    <2>6. \A g \in Handler : handler'[g] = handler[g] \/ handler'[g].at \in Places \ {"reading"}
      BY <1>5, <2>2 DEF Free, Places
    <2>. QED  BY <2>5, <2>6, OneAtTurn
  <1>7. CASE ~LastIndex(r.ids, r.i)
    <2>1. PICK q : q = Turned(r)
      OBVIOUS
    <2>2. message' = message /\ handler'[h] = q
      BY <1>2, <1>7, <2>1 DEF ReadRow, PageInv, Turned
    <2>3. AtTurn(q, n, j)
      BY <1>1, <1>3, <1>7, <2>1, TurnTaken
    <2>4. AtTurn(q, n, j)'
      BY <1>1, <1>3, <2>3, AtTurnOn
    <2>5. handler'[h].at = "reading" /\ \E m \in Nat : \E k : AtTurn(handler[h], m, k)'
      <3>1. AtTurn(handler[h], n, j)'
        BY <2>2, <2>4
      <3>. QED  BY <1>3, <2>2, <2>3, <3>1 DEF AtTurn
    <2>. QED  BY <1>5, <2>2, <2>5, OneAtTurn
  <1>. QED  BY <1>6, <1>7

\* Every step of the page and of the others keeps the listings right.
LEMMA ListStep == PageInv /\ ListInv /\ [FrontendNext]_allVars => ListInv'
  <1>. SUFFICES ASSUME PageInv, ListInv, [FrontendNext]_allVars PROVE ListInv'
    OBVIOUS
  <1>0. "rows" \notin DOMAIN Waiting /\ \A t : "rows" \notin DOMAIN Text(t)
    BY DEF Waiting, Text
  <1>1. ASSUME NEW h \in Handler, (\E call \in Calls : Submit(h, call)) \/ GetAllCerts(h) \/ GetCert(h)
                                  \/ Resolve(h) \/ Reject(h) \/ ReadCert(h) \/ ReadFails(h)
        PROVE  ListInv'
    <2>1. message' = message \/ "rows" \notin DOMAIN message'
      BY <1>0, <1>1 DEF Submit, GetAllCerts, GetCert, Resolve, Reject, ReadCert, ReadFails, Say
    <2>2. /\ handler'[h].at \in {"sent", "listing", "getting", "free"}
          /\ \A g \in Handler : g # h => handler'[g] = handler[g]
      <3>1. CASE (\E call \in Calls : Submit(h, call)) \/ GetAllCerts(h) \/ GetCert(h)
        <4>1. CASE \E call \in Calls : Submit(h, call)
          BY <4>1 DEF Submit, PageInv
        <4>2. CASE GetAllCerts(h)
          BY <4>2 DEF GetAllCerts, PageInv
        <4>3. CASE GetCert(h)
          BY <4>3 DEF GetCert, PageInv
        <4>. QED  BY <3>1, <4>1, <4>2, <4>3
      <3>2. CASE Resolve(h) \/ Reject(h) \/ ReadCert(h) \/ ReadFails(h)
        <4>1. Finish(h)
          BY <3>2 DEF Resolve, Reject, ReadCert, ReadFails
        <4>. QED  BY <4>1 DEF Finish, Free, PageInv
      <3>. QED  BY <1>1, <3>1, <3>2
    <2>. QED  BY <2>1, <2>2, ListingsKept DEF Places
  <1>2. ASSUME NEW h \in Handler, ReadList(h) PROVE ListInv'
    BY <1>2, ReadListStep
  <1>3. ASSUME NEW h \in Handler, ReadRow(h) PROVE ListInv'
    BY <1>3, ReadRowStep
  <1>4. ASSUME NEW i \in DOMAIN pool, NEW outcome \in {"mined", "reverted"}, Included(i, outcome)
        PROVE  ListInv'
    <2>1. message' = message
      BY <1>4 DEF Included
    <2>2. CASE pool[i].from = Nobody
      <3>1. handler' = handler
        BY <1>4, <2>2 DEF Included
      <3>. QED  BY <2>1, <3>1, ListingsKept
    <2>3. CASE pool[i].from # Nobody
      <3>1. PICK f : f = pool[i].from
        OBVIOUS
      <3>2. f \in Handler /\ "at" \in DOMAIN handler[f]
        BY <2>3, <3>1, PoolElement DEF PageInv
      <3>3. handler'[f].at = outcome /\ \A g \in Handler : g # f => handler'[g] = handler[g]
        BY <1>4, <2>3, <3>1, <3>2 DEF Included, PageInv
      <3>. QED  BY <2>1, <3>3, ListingsKept DEF Places
    <2>. QED  BY <2>2, <2>3
  <1>5. CASE LoadWallet
    BY <1>0, <1>5, ListingsKept DEF LoadWallet, Say
  <1>6. CASE Reload
    <2>1. \A g \in Handler : handler'[g] = Free
      BY <1>6 DEF Reload
    <2>. QED  BY <1>0, <1>6, <2>1, ListingsKept DEF Reload, Say, Free, Places
  <1>7. CASE Others \/ UNCHANGED allVars
    <2>1. message' = message /\ handler' = handler
      BY <1>7 DEF Others, allVars, pageVars
    <2>. QED  BY <2>1, ListingsKept
  <1>. QED  BY <1>1, <1>2, <1>3, <1>4, <1>5, <1>6, <1>7 DEF FrontendNext, Answer, Mine, OutOfGas

\* Both hold in every reachable state.
LEMMA ListInvAlwaysHolds == FrontendSpec => [](PageInv /\ ListInv)
  <1>1. FrontendInit => ListInv
    <2>. SUFFICES ASSUME FrontendInit PROVE ListInv
      OBVIOUS
    <2>1. "rows" \notin DOMAIN message
      BY DEF FrontendInit, Text
    <2>2. \A h \in Handler : handler[h].at = "free"
      BY DEF FrontendInit, Free
    <2>. QED  BY <2>1, <2>2 DEF ListInv, Places
  <1>2. FrontendSpec => []PageInv
    BY PageInvAlwaysHolds
  <1>. QED  BY <1>1, <1>2, ListStep, PTL DEF FrontendSpec

\* The page and the pool keep their types, and a handler that waits has its own
\* transaction in the pool.
THEOREM FrontendTypeCorrect == FrontendSpec => []FrontendTypeOK
  <1>1. PageInv /\ ListInv => FrontendTypeOK
    <2>. SUFFICES ASSUME PageInv, ListInv PROVE FrontendTypeOK
      OBVIOUS
    <2>1. ASSUME NEW i \in DOMAIN pool PROVE pool[i].call \in Calls
      BY PoolElement
    <2>2. "rows" \in DOMAIN message => \A k \in DOMAIN message.rows : message.rows[k] \in Listing
      <3>1. ASSUME "rows" \in DOMAIN message PROVE message.rows \in Seq(Listing)
        BY <3>1 DEF ListInv, Shows
      <3>. QED  BY <3>1, ElementOfSeq, LenProperties
    <2>. QED  BY <2>1, <2>2 DEF FrontendTypeOK, PageInv, ListInv, Waits, Places
  <1>. QED  BY <1>1, ListInvAlwaysHolds, PTL

\* The listing on the page names exactly the ids that were valid at the block of
\* its first read, whatever is added and revoked while it is fetched (GetAllCerts.js).
THEOREM ListingIsAlwaysSnapshot == FrontendSpec => []ListingIsSnapshot
  <1>1. PageInv /\ ListInv => ListingIsSnapshot
    <2>. SUFFICES ASSUME ListInv, "rows" \in DOMAIN message PROVE ListingIsSnapshot
      BY DEF ListingIsSnapshot
    <2>1. Shows(message)
      BY DEF ListInv
    <2>. QED  BY <2>1 DEF Shows, ListingIsSnapshot
  <1>. QED  BY <1>1, ListInvAlwaysHolds, PTL

\* What its rows say of the ids issued by then stays true while it is on the page.
THEOREM RowsAlwaysTrue == FrontendSpec => []RowsStayTrue
  <1>1. PageInv /\ ListInv => RowsStayTrue
    BY DEF ListInv, Shows, TrueRows, RowsStayTrue
  <1>. QED  BY <1>1, ListInvAlwaysHolds, PTL
=============================================================================
