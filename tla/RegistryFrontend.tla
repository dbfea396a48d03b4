-------------------------- MODULE RegistryFrontend --------------------------
(***************************************************************************)
(* The management page (sc_frontend/src/components) in front of the        *)
(* registry.  Every form runs an async handler: it writes the page's one   *)
(* message line, awaits the ledger, and writes the line again.  Handlers   *)
(* of one page overlap, nothing disables a form that waits, and other      *)
(* users call the contract between any two steps.                          *)
(*                                                                         *)
(* A submitted transaction lives in the node's pool, not in the page: a    *)
(* handler whose promise was rejected (block timeout, lost websocket), or  *)
(* whose page was reloaded, may still see its transaction mined.           *)
(***************************************************************************)
EXTENDS CertRegistry

CONSTANTS
  Handler, \* invocations of the page's handlers that may run at a time
  Calls,   \* transactions users submit on the page: a subset of Call
  Nobody,  \* tag of a pooled transaction no handler waits for any more
  MaxPool  \* bound of the model: transactions in the pool

ASSUME NobodyAssumption == Nobody \notin Handler
ASSUME MaxPoolAssumption == MaxPool \in Nat \ {0}

Call ==
  [op : {"addCertificate"}, certificate : CertString, expireDate : Dates]
    \union [op : {"revokeCertificate"}, certificate : CertString]
    \union [op : {"revokeCertificateByID"}, id : ID]

ASSUME CallsAssumption == Calls \subseteq Call

VARIABLES
  message, \* the page's message line
  handler, \* where each invocation is
  pool     \* sequence of transactions signed and sent, not mined yet

pageVars == <<message, handler, pool>>
allVars == <<vars, pageVars>>

Free == [at |-> "free"]
Busy(h) == handler[h] # Free

Text(t) == [text |-> t]
Waiting == Text("Waiting on transaction success...")

Say(t) == message' = Text(t)
Finish(h) == handler' = [handler EXCEPT ![h] = Free]

-----------------------------------------------------------------------------
(* AddCert, RevokeCert and RevokeCertByID: one shape, three calls.         *)

\* since is a history field: the first id not issued when the form was sent.
Submit(h, call) ==
  /\ ~Busy(h)
  /\ Len(pool) < MaxPool
  /\ message' = Waiting
  /\ handler' = [handler EXCEPT ![h] =
                   [at |-> "sent", call |-> call, since |-> certificateIDincr]]
  /\ pool' = Append(pool, [from |-> h, call |-> call])
  /\ UNCHANGED vars

Execute(call) ==
  \/ /\ call.op = "addCertificate"
     /\ AddCertificate(call.certificate, call.expireDate)
  \/ /\ call.op = "revokeCertificate"
     /\ RevokeCertificate(call.certificate)
  \/ /\ call.op = "revokeCertificateByID"
     /\ RevokeCertificateByID(call.id)

\* A block includes the pool's i-th transaction; blocks keep no order.
Included(i, outcome) ==
  /\ pool' = RemoveAt(pool, i)
  /\ handler' = IF pool[i].from = Nobody THEN handler
                ELSE [handler EXCEPT ![pool[i].from].at = outcome]
  /\ UNCHANGED message

Mine == \E i \in DOMAIN pool : Execute(pool[i].call) /\ Included(i, "mined")

\* More than the form's 1000000 gas: included without effect.
OutOfGas == \E i \in DOMAIN pool : Included(i, "reverted") /\ UNCHANGED vars

\* Mutant of Resolve: the await in front of send() is forgotten.
ResolveWithoutAwait(h) ==
  /\ handler[h].at \in {"sent", "mined"}
  /\ Say(IF handler[h].call.op = "addCertificate" THEN "Certificate sent" ELSE "Revoke sent")
  /\ Finish(h)
  /\ pool' = [i \in DOMAIN pool |-> IF pool[i].from = h THEN [pool[i] EXCEPT !.from = Nobody]
                                   ELSE pool[i]]
  /\ UNCHANGED vars

\* The awaited send() resolves with the receipt.
Resolve(h) ==
  /\ handler[h].at = "mined"
  /\ Say(IF handler[h].call.op = "addCertificate" THEN "Certificate sent" ELSE "Revoke sent")
  /\ Finish(h)
  /\ UNCHANGED <<pool, vars>>

\* The transactions of h, if still pooled, are nobody's from now on.
Orphaned(H) ==
  [i \in DOMAIN pool |-> IF pool[i].from \in H THEN [pool[i] EXCEPT !.from = Nobody]
                         ELSE pool[i]]

\* Mutant of Reject: no catch block.
RejectUncaught(h) ==
  /\ handler[h].at \in {"sent", "mined", "reverted"}
  /\ Finish(h)
  /\ pool' = Orphaned({h})
  /\ UNCHANGED <<message, vars>>

\* Mutant of Reject: a transaction that is never mined is awaited for ever.
RejectWithoutTimeout(h) ==
  /\ handler[h].at \in {"mined", "reverted"}
  /\ Say("ERROR")
  /\ Finish(h)
  /\ UNCHANGED <<pool, vars>>

\* It rejects: a revert, an account without wallet or balance (nothing is
\* sent), or an answer lost or too late (the transaction stays pooled).
Reject(h) ==
  /\ handler[h].at \in {"sent", "mined", "reverted"}
  /\ Say("ERROR")
  /\ Finish(h)
  /\ \/ \E i \in DOMAIN pool : pool[i].from = h /\ pool' = RemoveAt(pool, i)
     \/ pool' = Orphaned({h})
  /\ UNCHANGED vars

-----------------------------------------------------------------------------
(* GetAllCerts and GetCert: reads, outside any try block.                  *)

GetAllCerts(h) ==
  /\ ~Busy(h)
  /\ message' = Waiting
  /\ handler' = [handler EXCEPT ![h] = [at |-> "listing"]]
  /\ UNCHANGED <<pool, vars>>

\* await getAllCertificates().call(); valid and since are history fields,
\* what was valid and which id came next at that block.
ReadList(h) ==
  /\ handler[h].at = "listing"
  /\ handler' = [handler EXCEPT ![h] =
                   [at |-> "reading", ids |-> GetAllCertificates, i |-> 0, rows |-> <<>>,
                    valid |-> {id \in ID : Listed(id)}, since |-> certificateIDincr]]
  /\ UNCHANGED <<message, pool, vars>>

\* The line GetAllCerts prints about an id.
Row(id) ==
  [id |-> id, certificate |-> certificates[id].certificate,
   expireDate |-> certificates[id].expireDate, revoked |-> certificates[id].revoked]

\* The loop ends with the array, or in front of its first zero.
LastIndex(ids, i) == i + 1 \notin DOMAIN ids \/ ids[i + 1] = 0

\* Mutant of ReadRow: the id is taken from the registry's list of this moment.
ReadRowOfFreshList(h) ==
  LET r == handler[h]
      ids == GetAllCertificates
      rows == IF ids[r.i] # 0 THEN Append(r.rows, Row(ids[r.i])) ELSE r.rows
  IN  /\ r.at = "reading"
      /\ IF LastIndex(ids, r.i)
         THEN /\ message' = [text |-> IF ids[r.i] = 0 /\ r.i = 0 THEN "No valid certificates"
                                      ELSE "Certificate data",
                             rows |-> rows, valid |-> r.valid, since |-> r.since]
              /\ Finish(h)
         ELSE /\ handler' = [handler EXCEPT ![h].i = r.i + 1, ![h].rows = rows]
              /\ UNCHANGED message
      /\ UNCHANGED <<pool, vars>>

\* One turn of the loop: await getCertificateByID(ids[i]).call().
ReadRow(h) ==
  LET r == handler[h]
      id == r.ids[r.i]
      rows == IF id # 0 THEN Append(r.rows, Row(id)) ELSE r.rows
  IN  /\ r.at = "reading"
      /\ IF LastIndex(r.ids, r.i)
         THEN /\ message' = [text |-> IF id = 0 /\ r.i = 0 THEN "No valid certificates"
                                      ELSE "Certificate data",
                             rows |-> rows, valid |-> r.valid, since |-> r.since]
              /\ Finish(h)
         ELSE /\ handler' = [handler EXCEPT ![h].i = r.i + 1, ![h].rows = rows]
              /\ UNCHANGED message
      /\ UNCHANGED <<pool, vars>>

GetCert(h) ==
  /\ ~Busy(h)
  /\ message' = Waiting
  /\ handler' = [handler EXCEPT ![h] = [at |-> "getting"]]
  /\ UNCHANGED <<pool, vars>>

ReadCert(h) ==
  /\ handler[h].at = "getting"
  /\ Say("Cert data")
  /\ Finish(h)
  /\ UNCHANGED <<pool, vars>>

\* A call() that rejects ends the handler; nothing rewrites the message.
ReadFails(h) ==
  /\ handler[h].at \in {"listing", "reading", "getting"}
  /\ Finish(h)
  /\ UNCHANGED <<message, pool, vars>>

-----------------------------------------------------------------------------
\* WalletForm writes the message line too, whatever is pending.
LoadWallet ==
  /\ Say("Wallet successfully loaded")
  /\ UNCHANGED <<handler, pool, vars>>

\* Mutant of Reload: the page's handlers are gone, their transactions' tags not.
ReloadKeepsTags ==
  /\ Say("")
  /\ handler' = [h \in Handler |-> Free]
  /\ UNCHANGED <<pool, vars>>

\* A reload forgets every handler; the pool is the node's.
Reload ==
  /\ Say("")
  /\ handler' = [h \in Handler |-> Free]
  /\ pool' = Orphaned(Handler)
  /\ UNCHANGED vars

\* Anybody else calls the contract, or a block passes.
Others == Next /\ UNCHANGED pageVars

FrontendInit ==
  /\ Init
  /\ message = Text("")
  /\ handler = [h \in Handler |-> Free]
  /\ pool = <<>>

\* The steps a handler waits for.
Answer(h) == Resolve(h) \/ Reject(h) \/ ReadList(h) \/ ReadRow(h) \/ ReadCert(h) \/ ReadFails(h)

FrontendNext ==
  \/ \E h \in Handler :
       \/ \E call \in Calls : Submit(h, call)
       \/ GetAllCerts(h)
       \/ GetCert(h)
       \/ Answer(h)
  \/ Mine
  \/ OutOfGas
  \/ LoadWallet
  \/ Reload
  \/ Others

\* web3 settles every promise it returns: send() with the receipt, or with an
\* error after 50 blocks; call() with the answer or an error.
FrontendSpec ==
  FrontendInit /\ [][FrontendNext]_allVars /\ \A h \in Handler : WF_allVars(Answer(h))

-----------------------------------------------------------------------------
(* Properties.                                                             *)

Listing == [id : ID, certificate : CertString, expireDate : Nat, revoked : BOOLEAN]

\* Every page variable stays in its type, and a pooled transaction a handler
\* waits for is the one that handler sent.
FrontendTypeOK ==
  /\ DOMAIN handler = Handler
  /\ \A h \in Handler :
       handler[h].at \in {"free", "sent", "mined", "reverted", "listing", "reading", "getting"}
  /\ \A i \in DOMAIN pool :
       /\ pool[i].call \in Calls
       /\ pool[i].from # Nobody =>
            /\ handler[pool[i].from].at = "sent"
            /\ handler[pool[i].from].call = pool[i].call
            /\ \A k \in DOMAIN pool : pool[k].from = pool[i].from => k = i
  /\ "rows" \in DOMAIN message => \A k \in DOMAIN message.rows : message.rows[k] \in Listing

\* The listing on the page, fetched row by row while others add and revoke,
\* names exactly the ids that were valid at the block of its first read, each
\* once and in order: rows of later blocks never shift, add or drop an id.
ListingIsSnapshot ==
  "rows" \in DOMAIN message =>
    LET ids == [k \in DOMAIN message.rows |-> message.rows[k].id]
    IN  /\ {ids[k] : k \in DOMAIN ids} = message.valid
        /\ \A k, l \in DOMAIN ids : k < l => ids[k] < ids[l]
        /\ message.text = "No valid certificates" <=> message.valid = {}

\* What a row says of an id issued by then stays true as long as it is on the
\* page, and a certificate it shows as revoked is revoked for good.
RowsStayTrue ==
  "rows" \in DOMAIN message =>
    \A k \in DOMAIN message.rows :
      LET row == message.rows[k]
      IN  row.id < message.since =>
            /\ row.certificate = certificates[row.id].certificate
            /\ row.expireDate = certificates[row.id].expireDate
            /\ row.revoked => certificates[row.id].revoked

\* The success message is about the ledger: when it appears, the certificate
\* has an id issued after the form was sent, and a revoked string no valid
\* copy among the ids issued before, whatever others did between.
AnswersTrue ==
  [][\A h \in Handler : Resolve(h) =>
       LET call == handler[h].call
           since == handler[h].since
       IN  CASE call.op = "addCertificate" ->
                  \E id \in since .. certificateIDincr - 1 :
                    /\ certificates[id].certificate = call.certificate
                    /\ certificates[id].expireDate = call.expireDate
             [] call.op = "revokeCertificate" ->
                  \A id \in 1 .. since - 1 :
                    certificates[id].certificate = call.certificate => certificates[id].revoked
             [] call.op = "revokeCertificateByID" ->
                  call.id < since => certificates[call.id].revoked]_allVars

\* The page says it is waiting only while a handler is, except after a read
\* that failed: with overlapping handlers the last one to finish has the line.
AllFree == \A h \in Handler : ~Busy(h)
WaitsForSomebody ==
  [][message' = Waiting /\ AllFree' =>
       \/ message = Waiting /\ AllFree
       \/ \E h \in Handler : ReadFails(h)]_allVars

\* Every submission and every listing comes to an end.
EveryHandlerReturns == \A h \in Handler : Busy(h) ~> ~Busy(h)

\* The heading over the Get All button: "Extract all the VALID certificates
\* from the IOTA blockchain".
ListingShowsOnlyValid ==
  "rows" \in DOMAIN message =>
    \A k \in DOMAIN message.rows : ~message.rows[k].revoked
=============================================================================
