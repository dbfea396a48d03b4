------------------------ MODULE CertificateGenerator ------------------------
(***************************************************************************)
(* src/utils/generate_certificate.py: a private key, a certificate signed  *)
(* with it, a CA of its own, a request for the same key, and the           *)
(* certificate the CA makes of the request, each in a file that the next   *)
(* steps read again. Any step may raise, which main only prints, and the   *)
(* script may be killed while it writes; then it is run once more.         *)
(***************************************************************************)
EXTENDS Integers, Sequences

CONSTANTS
    Absent, Torn,    \* no such file, and one that was not written to its end
    MaxGenerations   \* bound: how often the script is run

ASSUME GeneratorAssumption == MaxGenerations \in Nat

VARIABLES
    generation,      \* which run of the script it is
    generating,      \* what it does next
    files

generator == <<generation, generating, files>>

\* The files, in the order they are written in, by private, certs and csr.
FileNames == << "myserver.pem", "myserver-selfsigned.der", "ca_application.pem",
                "ca_application.der", "myserver.csr", "myserver.der" >>

\* generate_private_key: never the same key twice.
NewKey(purpose) == <<generation, purpose>>

\* A certificate, of a key, signed with a key, in the name of an issuer's certificate.
Signed(key, by, issuer) == [key |-> key, by |-> by, issuer |-> issuer]

AppCertificate(key) == Signed(key, key, key)

Whole(name) == files[name] \notin {Absent, Torn}

\* A step reads whole files and writes one; or it raises before it has written.
Writes(name, reads, content, next) ==
    /\ generating = name
    /\ \A f \in reads : Whole(f)
    /\ \/ files' = [files EXCEPT ![name] = content] /\ generating' = next
       \/ files' = [files EXCEPT ![name] = Torn] /\ generating' = "ended"    \* killed
    /\ UNCHANGED generation

Raises ==
    /\ generating \in {FileNames[n] : n \in DOMAIN FileNames}
    /\ generating' = "ended"
    /\ UNCHANGED <<generation, files>>

StartGenerator ==
    /\ generating \in {"idle", "ended", "complete"} /\ generation < MaxGenerations
    /\ generation' = generation + 1
    /\ generating' = Head(FileNames)
    /\ UNCHANGED files

GeneratePrivateKeyForMyserver ==
    Writes("myserver.pem", {}, NewKey("myserver"), "myserver-selfsigned.der")

GenerateSelfSignedCertificate ==
    Writes("myserver-selfsigned.der", {"myserver.pem"}, AppCertificate(files["myserver.pem"]),
           "ca_application.pem")

\* The CA is made in memory and written in two files.
GenerateApplicationgroupCa ==
    \/ Writes("ca_application.pem", {}, NewKey("ca"), "ca_application.der")
    \/ Writes("ca_application.der", {}, AppCertificate(NewKey("ca")), "myserver.csr")

\* Mutant of GenerateCsr: the key that is generated first is not replaced by the
\* one in the file.
GenerateCsrForNewKey == Writes("myserver.csr", {"myserver.pem"}, [key |-> NewKey("unused")], "myserver.der")

\* A new key is generated, and forgotten for the one in the file.
GenerateCsr == Writes("myserver.csr", {"myserver.pem"}, [key |-> files["myserver.pem"]], "myserver.der")

SignCsr ==
    Writes("myserver.der", {"ca_application.der", "ca_application.pem", "myserver.csr"},
           Signed(files["myserver.csr"].key, files["ca_application.pem"], files["ca_application.der"].key),
           "complete")

GeneratorInit ==
    /\ generation = 0 /\ generating = "idle"
    /\ files = [f \in {FileNames[n] : n \in DOMAIN FileNames} |-> Absent]

GeneratorNext ==
    \/ StartGenerator \/ Raises
    \/ GeneratePrivateKeyForMyserver \/ GenerateSelfSignedCertificate \/ GenerateApplicationgroupCa
    \/ GenerateCsr \/ SignCsr

---------------------------------------------------------------------------
\* Whatever earlier runs of generate_certificate.py left: once it has come to its end
\* the CA's certificate is of the CA's key, and both certificates of the server are
\* of the server's key. And at any time, also after a run that broke off, what the
\* CA has signed verifies: the signature is of the key its issuer's certificate names.
FilesBelongTogether ==
    /\ generating = "complete" =>
          /\ files["ca_application.der"].key = files["ca_application.pem"]
          /\ \A f \in {"myserver-selfsigned.der", "myserver.csr", "myserver.der"} :
                files[f].key = files["myserver.pem"]
          /\ files["myserver.der"].issuer = files["ca_application.der"].key
    /\ Whole("myserver.der") => files["myserver.der"].by = files["myserver.der"].issuer
=============================================================================
