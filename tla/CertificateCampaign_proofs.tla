---------------------- MODULE CertificateCampaign_proofs ----------------------
(***************************************************************************)
(* Machine-checked proofs about the campaign over certificate sizes, for   *)
(* any plan, any sessions, anything left in the lab directory and any      *)
(* way its steps fail. Where a run is determines what it has prepared.     *)
(***************************************************************************)
EXTENDS CertificateCampaign, TLAPS

\* The files of a lab.
LabFiles == {"client_key", "server_key", "client_cert", "server_cert", "h1_trusts", "h2_trusts"}
\* The certificates of this run, for the keys the hosts have: its own, unless copying
\* one has failed.
ClientCert == Certificate("client", box.client_key)
ServerCert == Certificate("server", box.server_key)
RightKey(role, key) == key = bits \/ <<run, role>> \in faults
\* What metadata.env says when it is written.
Measured == [key_bits |-> bits, variant |-> variant, sessions_ok |-> tally.ok,
             thumbprints |-> {shared.client, shared.server}, packets |-> packets]

\* What the first steps of a run have prepared, when its next is the p-th: keys of its
\* size, no certificate of another run, then its own, in the right places.
Prepared(p) ==
    /\ p > 3 =>
          /\ RightKey("client", host.client_key) /\ RightKey("server", host.server_key)
          /\ host.client_cert = None /\ host.server_cert = None
          /\ host.h1_trusts = None /\ host.h2_trusts = None
    /\ p > 4 =>
          /\ box = [f \in LabFiles |-> box[f]]
          /\ RightKey("client", box.client_key) /\ RightKey("server", box.server_key)
          /\ box.server_cert = IF p > 6 THEN ServerCert ELSE None
          /\ box.client_cert = IF p > 7 THEN ClientCert ELSE None
    /\ p > 6 => box.server_key # None
    /\ p > 7 => box.client_key # None
    /\ p > 8 => shared.server = ServerCert
    /\ p > 9 => shared.client = ClientCert
    /\ p > 10 => box.h1_trusts = ServerCert
    /\ p > 11 => box.h2_trusts = ClientCert
    /\ p > 13 => server = [up |-> TRUE, cert |-> ServerCert, key |-> box.server_key, user |-> ClientCert]
    /\ p < 15 => session = "none"
    /\ p > 16 => \/ <<run, "metadata">> \in faults
                 \/ run \in DOMAIN metadata /\ metadata[run] = Measured
    /\ p > 17 => tally.ok > 0 /\ packets

\* The shape of the state; a campaign that is over has emptied the switch.
CampaignShape ==
    /\ run \in DOMAIN Plan
    /\ host = [f \in LabFiles |-> host[f]] /\ shared = [r \in Roles |-> shared[r]]
    /\ tally.ok \in Nat /\ tally.all \in Nat
    /\ exit_code \in {-1, 0, 1} /\ (exit_code # -1 => table = {})

\* A campaign that goes on is at some step, with what it needs for it.
RunPrepared == exit_code = -1 => \E p \in 1 .. 18 : step = Steps[p] /\ Prepared(p)

\* The inductive invariant: what the run checks holds, and what it depends on.
CampaignInv == CampaignShape /\ RunPrepared /\ SessionsAgree /\ RunsAreAccountedFor

\* The steps of a run are different from each other.
LEMMA StepsAre ==
    /\ DOMAIN Steps = 1 .. 18 /\ Head(Steps) = Steps[1]
    /\ \A m, n \in 1 .. 18 : Steps[m] = Steps[n] => m = n
<1>1. DOMAIN Steps = 1 .. 18 /\ Head(Steps) = Steps[1]
  BY DEF Steps
<1>2. ASSUME NEW m \in 1 .. 18, NEW n \in 1 .. 18, Steps[m] = Steps[n]
      PROVE  m = n
  BY <1>2 DEF Steps
<1> QED BY <1>1, <1>2

\* What follows a step is the next one.
LEMMA FollowingIs == \A n \in 1 .. 17 : Following(Steps[n]) = Steps[n + 1]
<1> SUFFICES ASSUME NEW n \in 1 .. 17
             PROVE  Following(Steps[n]) = Steps[n + 1]
  OBVIOUS
<1>1. n \in DOMAIN Steps /\ \A m \in DOMAIN Steps : Steps[m] = Steps[n] => m = n
  BY StepsAre
<1>2. (CHOOSE m \in DOMAIN Steps : Steps[m] = Steps[n]) = n
  BY <1>1
<1>3. 1 + n = n + 1
  OBVIOUS
<1> QED BY <1>2, <1>3 DEF Following

\* The plan is not empty.
LEMMA PlanIs == Len(Plan) \in Nat \ {0} /\ DOMAIN Plan = 1 .. Len(Plan)
<1>1. PICK k, r, v : k = Len(KeyBits) /\ r = Runs /\ v = Len(Variants)
  OBVIOUS
<1>2. k \in Nat \ {0} /\ r \in Nat \ {0} /\ v \in Nat \ {0}
  BY <1>1, CampaignAssumption
<1>3. \A a, b \in Nat \ {0} : a * b \in Nat \ {0}
  OBVIOUS
<1>4. (k * r) * v \in Nat \ {0}
  BY <1>2, <1>3
<1>5. PICK L \in Nat \ {0} : L = Len(KeyBits) * Runs * Len(Variants)
  BY <1>1, <1>4
<1> DEFINE entry(n) == [bits |-> KeyBits[1 + ((n - 1) \div (Runs * Len(Variants)))],
                        variant |-> Variants[1 + ((n - 1) % Len(Variants))]]
<1>6. Plan = [n \in 1 .. L |-> entry(n)]
  BY <1>5 DEF Plan
<1> HIDE DEF entry
<1>7. \A n : entry(n) \in {entry(m) : m \in {n}}
  OBVIOUS
<1>8. Plan \in Seq({entry(n) : n \in 1 .. L}) /\ Len(Plan) = L
  BY <1>6
<1> QED BY <1>6, <1>8

\* The size of a run's keys is one of the campaign's.
LEMMA BitsAre == run \in DOMAIN Plan => bits \in Nat
<1> SUFFICES ASSUME run \in DOMAIN Plan
             PROVE  bits \in Nat
  OBVIOUS
<1>1. PICK k, r, v : k = Len(KeyBits) /\ r = Runs /\ v = Len(Variants)
  OBVIOUS
<1>2. k \in Nat \ {0} /\ r \in Nat \ {0} /\ v \in Nat \ {0}
  BY <1>1, CampaignAssumption
<1>3. \A a, b \in Nat \ {0} : a * b \in Nat \ {0}
  OBVIOUS
<1>4. PICK m \in Nat \ {0} : m = r * v
  BY <1>2, <1>3
<1>5. Len(KeyBits) * Runs * Len(Variants) = k * m
  <2>1. \A a, b, c \in Nat : a * b * c = a * (b * c)
    OBVIOUS
  <2> QED BY <1>1, <1>2, <1>4, <2>1
<1>6. run \in 1 .. k * m /\ bits = KeyBits[1 + ((run - 1) \div m)]
  BY <1>1, <1>4, <1>5 DEF Plan, bits
<1>7. PICK q : q = (run - 1) \div m
  OBVIOUS
<1>8. q \in Nat /\ q * m <= run - 1
  BY <1>2, <1>3, <1>6, <1>7
<1>9. q < k
  <2>1. \A a \in Nat, b \in Nat : b <= a => b * m <= a * m
    OBVIOUS
  <2>2. k * m \in Nat \ {0}
    BY <1>2, <1>3
  <2> QED BY <1>2, <1>6, <1>8, <2>1, <2>2
<1>10. 1 + q \in 1 .. Len(KeyBits) /\ KeyBits \in Seq(Nat)
  BY <1>1, <1>2, <1>8, <1>9, CampaignAssumption
<1> QED BY <1>6, <1>7, <1>10

\* The steps by number.
LEMMA StepNames ==
    /\ Steps[1] = "client_key" /\ Steps[2] = "server_key" /\ Steps[3] = "install_keys"
    /\ Steps[4] = "start_lab" /\ Steps[5] = "wait_for_switch" /\ Steps[6] = "server_cert"
    /\ Steps[7] = "client_cert" /\ Steps[8] = "export_server" /\ Steps[9] = "export_client"
    /\ Steps[10] = "trust_server" /\ Steps[11] = "trust_client" /\ Steps[12] = "thumbprints"
    /\ Steps[13] = "start_server" /\ Steps[14] = "start_captures" /\ Steps[15] = "sessions"
    /\ Steps[16] = "stop_captures" /\ Steps[17] = "validate" /\ Steps[18] = "clean_lab"
BY DEF Steps

\* Where the campaign is, it has prepared what that step needs.
LEMMA PreparedAt ==
    ASSUME CampaignInv, exit_code = -1, NEW p \in 1 .. 18, step = Steps[p]
    PROVE  Prepared(p)
<1>1. PICK q \in 1 .. 18 : step = Steps[q] /\ Prepared(q)
  BY DEF CampaignInv, RunPrepared
<1>2. q = p
  BY <1>1, StepsAre
<1> QED BY <1>1, <1>2

\* Size and program are those of the run; what has gone wrong in it stays known.
LEMMA SameRun ==
    ASSUME run' = run
    PROVE  /\ bits' = bits /\ variant' = variant
           /\ box'.client_key = box.client_key => ClientCert' = ClientCert
           /\ box'.server_key = box.server_key => ServerCert' = ServerCert
<1>1. bits' = bits /\ variant' = variant
  BY DEF bits, variant
<1> QED BY <1>1 DEF ClientCert, ServerCert, Certificate

\* What would be written to metadata.env.
LEMMA SameMeasured ==
    ASSUME UNCHANGED <<run, tally, shared, packets>>
    PROVE  Measured' = Measured
BY SameRun DEF Measured

\* Runs that are over are accounted for as long as nobody writes to their results.
LEMMA AccountsStay ==
    ASSUME RunsAreAccountedFor, UNCHANGED <<run, failed_runs, exit_code>>, exit_code = -1, run \in Nat,
           faults \subseteq faults',
           \A n \in 1 .. run - 1 : n \in DOMAIN metadata =>
               n \in DOMAIN metadata' /\ metadata'[n] = metadata[n]
    PROVE  RunsAreAccountedFor'
<1>1. ASSUME NEW n \in 1 .. run' - 1
      PROVE  (n \in failed_runs \/ Sound(n))'
  <2>1. n \in 1 .. run - 1 /\ (n \in failed_runs \/ Sound(n))
    BY DEF RunsAreAccountedFor
  <2>2. CASE n \in failed_runs
    BY <2>2
  <2>3. CASE Sound(n)
    BY <2>1, <2>3 DEF Sound
  <2> QED BY <2>1, <2>2, <2>3
<1> QED BY <1>1 DEF RunsAreAccountedFor

\* What is left to show for a step within a run.
LEMMA Onward ==
    ASSUME CampaignInv, exit_code = -1, UNCHANGED <<run, failed_runs, exit_code>>,
           faults \subseteq faults',
           \A n \in 1 .. run - 1 : n \in DOMAIN metadata =>
               n \in DOMAIN metadata' /\ metadata'[n] = metadata[n],
           CampaignShape', NEW p \in 1 .. 18, step' = Steps[p], Prepared(p)',
           p < 15 \/ SessionsAgree'
    PROVE  CampaignInv'
<1>1. RunPrepared'
  BY DEF RunPrepared
<1>2. SessionsAgree'
  BY DEF Prepared, SessionsAgree
<1>3. run \in Nat
  BY PlanIs DEF CampaignInv, CampaignShape
<1>4. RunsAreAccountedFor'
  BY <1>3, AccountsStay DEF CampaignInv
<1> QED BY <1>1, <1>2, <1>4 DEF CampaignInv

\* A step that is done is followed by the next.
LEMMA StepGoes ==
    ASSUME NEW p \in 1 .. 17, step = Steps[p], GoOn
    PROVE  step' = Steps[p + 1]
BY FollowingIs DEF GoOn

\* The files of the lab directory after keys were copied and certificates removed.
LEMMA MaterialShape ==
    ASSUME CampaignInv, NEW copies, NEW kept, NEW left, KeyMaterial(copies, kept, left)
    PROVE  /\ host' = [f \in LabFiles |-> host'[f]] /\ shared' = [r \in Roles |-> shared'[r]]
           /\ \A f \in HostCertificates \ kept : host'[f] = None
<1>1. host = [f \in LabFiles |-> host[f]]
  BY DEF CampaignInv, CampaignShape
<1>2. PICK h : host' = Removed(h, kept) /\ DOMAIN h = LabFiles
  <2>1. PICK h : h = [host EXCEPT !.client_key = Copied("client", copies["client"], host.client_key),
                                  !.server_key = Copied("server", copies["server"], host.server_key)]
    OBVIOUS
  <2>2. DOMAIN h = DOMAIN host /\ DOMAIN host = LabFiles
    BY <1>1, <2>1
  <2> QED BY <2>1, <2>2 DEF KeyMaterial
<1>3. host' = [f \in LabFiles |-> IF f \in HostCertificates \ kept THEN None ELSE h[f]]
  BY <1>2 DEF Removed
<1>4. HostCertificates \subseteq LabFiles
  BY DEF HostCertificates, LabFiles
<1>5. shared' = [r \in Roles |-> shared'[r]]
  BY DEF KeyMaterial
<1> QED BY <1>3, <1>4, <1>5

\* The key a host has is the right one, or it is known that it could not be copied.
LEMMA KeysInstalled ==
    ASSUME CampaignInv, NEW copies \in Copies, NEW kept, NEW left, run' = run,
           KeyMaterial(copies, kept, left), Faults(Miscopied(copies)), kept \subseteq HostCertificates
    PROVE  RightKey("client", host.client_key)' /\ RightKey("server", host.server_key)'
<1>1. host = [f \in LabFiles |-> host[f]]
  BY DEF CampaignInv, CampaignShape
<1>2. /\ host'.client_key = Copied("client", copies["client"], host.client_key)
      /\ host'.server_key = Copied("server", copies["server"], host.server_key)
  BY <1>1 DEF KeyMaterial, Removed, LabFiles, HostCertificates
<1>3. ASSUME NEW role \in Roles, NEW old
      PROVE  Copied(role, copies[role], old) = bits \/ <<run, role>> \in faults'
  <2>1. CASE copies[role] = "whole"
    BY <2>1 DEF Copied, KeyFor
  <2>2. CASE copies[role] # "whole"
    BY <2>2 DEF Faults, Miscopied
  <2> QED BY <2>1, <2>2
<1>4. "client" \in Roles /\ "server" \in Roles
  BY DEF Roles
<1>5. bits' = bits
  BY SameRun
<1> QED BY <1>2, <1>3, <1>4, <1>5 DEF RightKey

\* Keys, lab and waiting.
LEMMA PreparationStep ==
    ASSUME CampaignInv,
           \/ GenerateKey("client", "client_key") \/ GenerateKey("server", "server_key")
           \/ InstallKeys \/ StartLab \/ Wait
    PROVE  CampaignInv'
<1> USE DEF At, disk, lab, results, outcome
<1>1. CASE GenerateKey("client", "client_key") \/ GenerateKey("server", "server_key")
  <2>1. PICK p \in 1 .. 2 : step = Steps[p]
    BY <1>1, StepNames DEF GenerateKey
  <2>2. exit_code = -1 /\ GoOn /\ UNCHANGED <<run, host, shared, lab, results, outcome>>
    BY <1>1 DEF GenerateKey
  <2>3. Prepared(p)
    BY <2>1, <2>2, PreparedAt
  <2>4. step' = Steps[p + 1] /\ p + 1 \in 1 .. 3
    BY <2>1, <2>2, StepGoes
  <2>5. CampaignShape'
    BY <2>2 DEF CampaignInv, CampaignShape
  <2>6. Prepared(p + 1)'
    BY <2>1, <2>2, <2>3, <2>4 DEF Prepared
  <2> QED BY <2>2, <2>4, <2>5, <2>6, Onward
<1>2. CASE InstallKeys
  <2>1. /\ step = Steps[3] /\ exit_code = -1 /\ GoOn
        /\ UNCHANGED <<run, keys, lab, results, metadata, failed_runs, exit_code>>
    BY <1>2, StepNames DEF InstallKeys
  <2>2. Prepared(3)
    BY <2>1, PreparedAt
  <2>3. step' = Steps[4]
    BY <2>1, StepGoes
  <2>0. PICK copies \in Copies : KeyMaterial(copies, {}, {}) /\ Faults(Miscopied(copies))
    BY <1>2 DEF InstallKeys
  <2>4. /\ host' = [f \in LabFiles |-> host'[f]] /\ shared' = [r \in Roles |-> shared'[r]]
        /\ host'.client_cert = None /\ host'.server_cert = None
        /\ host'.h1_trusts = None /\ host'.h2_trusts = None
    BY <2>0, MaterialShape DEF HostCertificates
  <2>7. faults \subseteq faults'
    BY <2>0 DEF Faults
  <2>9. RightKey("client", host.client_key)' /\ RightKey("server", host.server_key)'
    BY <2>0, <2>1, KeysInstalled DEF lab
  <2>5. CampaignShape'
    BY <2>1, <2>4 DEF CampaignInv, CampaignShape
  <2>6. Prepared(4)'
    BY <2>1, <2>2, <2>4, <2>9 DEF Prepared
  <2> QED BY <2>1, <2>3, <2>5, <2>6, <2>7, Onward
<1>3. CASE StartLab
  <2>1. /\ step = Steps[4] /\ exit_code = -1 /\ GoOn /\ box' = host /\ exit_code' = -1
        /\ UNCHANGED <<run, disk, myvar, results, outcome>>
    BY <1>3, StepNames DEF StartLab
  <2>2. Prepared(4)
    BY <2>1, PreparedAt
  <2>3. step' = Steps[5]
    BY <2>1, StepGoes
  <2>5. CampaignShape'
    BY <2>1 DEF CampaignInv, CampaignShape
  <2>6. Prepared(5)'
    BY <2>1, <2>2, SameRun DEF Prepared, RightKey, CampaignInv, CampaignShape
  <2> QED BY <2>1, <2>3, <2>5, <2>6, Onward
<1>4. CASE Wait
  <2>1. PICK p \in {5, 14} : step = Steps[p]
    BY <1>4, StepNames DEF Wait
  <2>2. exit_code = -1 /\ GoOn /\ UNCHANGED <<run, disk, lab, results, outcome>>
    BY <1>4 DEF Wait
  <2>3. Prepared(p)
    BY <2>1, <2>2, PreparedAt
  <2>4. step' = Steps[p + 1] /\ p + 1 \in {6, 15}
    BY <2>1, <2>2, StepGoes
  <2>5. CampaignShape'
    BY <2>2 DEF CampaignInv, CampaignShape
  <2>6. Prepared(p + 1)'
    BY <2>1, <2>2, <2>3, <2>4, SameRun DEF Prepared, RightKey
  <2>7. SessionsAgree'
    BY <2>2, SameRun DEF CampaignInv, SessionsAgree
  <2> QED BY <2>2, <2>4, <2>5, <2>6, <2>7, Onward
<1> QED BY <1>1, <1>2, <1>3, <1>4

\* The certificate is made, and the key if there is none.
LEMMA SelfSignedServer ==
    ASSUME CampaignShape, NEW b, b = [f \in LabFiles |-> b[f]], RightKey("server", b.server_key),
           b.server_cert = None
    PROVE  \E key : /\ key # None /\ RightKey("server", key)
                    /\ SelfSigned(b, "server") = [b EXCEPT !.server_key = key,
                                                           !.server_cert = Certificate("server", key)]
<1>1. bits # None /\ LibraryBits # None
  BY BitsAre, CampaignAssumption DEF CampaignShape
<1>2. PICK key : key = IF b.server_key = None THEN LibraryBits ELSE b.server_key
  OBVIOUS
<1>3. key # None /\ RightKey("server", key)
  BY <1>1, <1>2 DEF RightKey
<1>4. SelfSigned(b, "server") = [b EXCEPT !.server_key = key, !.server_cert = Certificate("server", key)]
  BY <1>2 DEF SelfSigned, KeyIn
<1> QED BY <1>3, <1>4

\* The same for the client.
LEMMA SelfSignedClient ==
    ASSUME CampaignShape, NEW b, b = [f \in LabFiles |-> b[f]], RightKey("client", b.client_key),
           b.client_cert = None
    PROVE  \E key : /\ key # None /\ RightKey("client", key)
                    /\ SelfSigned(b, "client") = [b EXCEPT !.client_key = key,
                                                           !.client_cert = Certificate("client", key)]
<1>1. bits # None /\ LibraryBits # None
  BY BitsAre, CampaignAssumption DEF CampaignShape
<1>2. PICK key : key = IF b.client_key = None THEN LibraryBits ELSE b.client_key
  OBVIOUS
<1>3. key # None /\ RightKey("client", key)
  BY <1>1, <1>2 DEF RightKey
<1>4. SelfSigned(b, "client") = [b EXCEPT !.client_key = key, !.client_cert = Certificate("client", key)]
  BY <1>2 DEF SelfSigned, KeyIn
<1> QED BY <1>3, <1>4

\* A key and its certificate are kept.
LEMMA SelfSignedKept ==
    ASSUME NEW b, b = [f \in LabFiles |-> b[f]]
    PROVE  /\ b.server_key # None /\ b.server_cert = Certificate("server", b.server_key)
                => SelfSigned(b, "server") = b
           /\ b.client_key # None /\ b.client_cert = Certificate("client", b.client_key)
                => SelfSigned(b, "client") = b
<1>1. b = [b EXCEPT !.server_key = b.server_key, !.server_cert = b.server_cert]
  BY DEF LabFiles
<1>2. b = [b EXCEPT !.client_key = b.client_key, !.client_cert = b.client_cert]
  BY DEF LabFiles
<1>3. ASSUME b.server_key # None, b.server_cert = Certificate("server", b.server_key)
      PROVE  SelfSigned(b, "server") = b
  BY <1>1, <1>3 DEF SelfSigned, KeyIn
<1>4. ASSUME b.client_key # None, b.client_cert = Certificate("client", b.client_key)
      PROVE  SelfSigned(b, "client") = b
  BY <1>2, <1>4 DEF SelfSigned, KeyIn
<1> QED BY <1>3, <1>4

\* Certificates are made, exported and trusted; thumbprints are listed; the server starts.
LEMMA CertificatesStep ==
    ASSUME CampaignInv,
           \/ SetupCertificate("server", "server_cert") \/ SetupCertificate("client", "client_cert")
           \/ Export("server", "export_server") \/ Export("client", "export_client")
           \/ Trust("server", "trust_server") \/ Trust("client", "trust_client")
           \/ UpdateThumbprints \/ StartServer
    PROVE  CampaignInv'
<1> USE DEF At, disk, lab, results, outcome
<1>1. CASE SetupCertificate("server", "server_cert")
  <2>1. /\ step = Steps[6] /\ exit_code = -1 /\ GoOn
        /\ UNCHANGED <<run, host, keys, shared, table, server, myvar, late, results, outcome>>
    BY <1>1, StepNames DEF SetupCertificate
  <2>2. Prepared(6)
    BY <2>1, PreparedAt
  <2>3. step' = Steps[7]
    BY <2>1, StepGoes
  <2>4. PICK key : /\ key # None /\ RightKey("server", key)
                   /\ box' = [box EXCEPT !.server_key = key, !.server_cert = Certificate("server", key)]
    <3>1. CampaignShape /\ box = [f \in LabFiles |-> box[f]]
          /\ RightKey("server", box.server_key) /\ box.server_cert = None
      BY <2>2 DEF Prepared, CampaignInv
    <3>2. \E key : /\ key # None /\ RightKey("server", key)
                   /\ SelfSigned(box, "server") = [box EXCEPT !.server_key = key,
                                                           !.server_cert = Certificate("server", key)]
      BY <3>1, SelfSignedServer
    <3> QED BY <1>1, <3>2 DEF SetupCertificate
  <2>5. CampaignShape'
    BY <2>1 DEF CampaignInv, CampaignShape
  <2>7. /\ box' = [f \in LabFiles |-> box'[f]] /\ box'.server_key = key
        /\ box'.server_cert = Certificate("server", key)
        /\ box'.client_key = box.client_key /\ box'.client_cert = box.client_cert
    <3>1. box = [f \in LabFiles |-> box[f]]
      BY <2>2 DEF Prepared
    <3>2. box' = [f \in LabFiles |-> box'[f]]
      BY <2>4, <3>1, Zenon
    <3> QED BY <2>4, <3>1, <3>2 DEF LabFiles
  <2>8. ServerCert' = Certificate("server", key) /\ ClientCert' = ClientCert
    BY <2>1, <2>7, SameRun DEF ServerCert, Certificate
  <2>9. RightKey("server", box.server_key)' /\ RightKey("client", box.client_key)'
    BY <2>1, <2>2, <2>4, <2>7, SameRun DEF Prepared, RightKey
  <2>6. Prepared(7)'
    BY <2>1, <2>2, <2>4, <2>7, <2>8, <2>9, SameRun DEF Prepared, RightKey
  <2> QED BY <2>1, <2>3, <2>5, <2>6, Onward
<1>2. CASE SetupCertificate("client", "client_cert")
  <2>1. /\ step = Steps[7] /\ exit_code = -1 /\ GoOn
        /\ UNCHANGED <<run, host, keys, shared, table, server, myvar, late, results, outcome>>
    BY <1>2, StepNames DEF SetupCertificate
  <2>2. Prepared(7)
    BY <2>1, PreparedAt
  <2>3. step' = Steps[8]
    BY <2>1, StepGoes
  <2>4. PICK key : /\ key # None /\ RightKey("client", key)
                   /\ box' = [box EXCEPT !.client_key = key, !.client_cert = Certificate("client", key)]
    <3>1. CampaignShape /\ box = [f \in LabFiles |-> box[f]]
          /\ RightKey("client", box.client_key) /\ box.client_cert = None
      BY <2>2 DEF Prepared, CampaignInv
    <3>2. \E key : /\ key # None /\ RightKey("client", key)
                   /\ SelfSigned(box, "client") = [box EXCEPT !.client_key = key,
                                                           !.client_cert = Certificate("client", key)]
      BY <3>1, SelfSignedClient
    <3> QED BY <1>2, <3>2 DEF SetupCertificate
  <2>5. CampaignShape'
    BY <2>1 DEF CampaignInv, CampaignShape
  <2>7. /\ box' = [f \in LabFiles |-> box'[f]] /\ box'.client_key = key
        /\ box'.client_cert = Certificate("client", key)
        /\ box'.server_key = box.server_key /\ box'.server_cert = box.server_cert
    <3>1. box = [f \in LabFiles |-> box[f]]
      BY <2>2 DEF Prepared
    <3>2. box' = [f \in LabFiles |-> box'[f]]
      BY <2>4, <3>1, Zenon
    <3> QED BY <2>4, <3>1, <3>2 DEF LabFiles
  <2>8. ClientCert' = Certificate("client", key) /\ ServerCert' = ServerCert
    BY <2>1, <2>7, SameRun DEF ClientCert, Certificate
  <2>9. RightKey("server", box.server_key)' /\ RightKey("client", box.client_key)'
    BY <2>1, <2>2, <2>4, <2>7, SameRun DEF Prepared, RightKey
  <2>6. Prepared(8)'
    BY <2>1, <2>2, <2>4, <2>7, <2>8, <2>9, SameRun DEF Prepared, RightKey
  <2> QED BY <2>1, <2>3, <2>5, <2>6, Onward
<1>3. CASE Export("server", "export_server")
  <2>1. /\ step = Steps[8] /\ exit_code = -1 /\ GoOn
        /\ UNCHANGED <<run, host, keys, box, table, server, myvar, late, results, outcome>>
    BY <1>3, StepNames DEF Export
  <2>2. Prepared(8)
    BY <2>1, PreparedAt
  <2>3. step' = Steps[9]
    BY <2>1, StepGoes
  <2>4. shared' = [shared EXCEPT !.server = box.server_cert] /\ shared' = [r \in Roles |-> shared'[r]]
        /\ shared'.server = ServerCert
    BY <1>3, <2>2 DEF Export, Prepared, CampaignInv, CampaignShape, Roles
  <2>5. CampaignShape'
    BY <2>1, <2>4 DEF CampaignInv, CampaignShape
  <2>6. Prepared(9)'
    BY <2>1, <2>2, <2>4, SameRun DEF Prepared, RightKey, LabFiles
  <2> QED BY <2>1, <2>3, <2>5, <2>6, Onward
<1>4. CASE Export("client", "export_client")
  <2>1. /\ step = Steps[9] /\ exit_code = -1 /\ GoOn
        /\ UNCHANGED <<run, host, keys, box, table, server, myvar, late, results, outcome>>
    BY <1>4, StepNames DEF Export
  <2>2. Prepared(9)
    BY <2>1, PreparedAt
  <2>3. step' = Steps[10]
    BY <2>1, StepGoes
  <2>4. shared' = [shared EXCEPT !.client = box.client_cert] /\ shared' = [r \in Roles |-> shared'[r]]
        /\ shared'.client = ClientCert /\ shared'.server = shared.server
    BY <1>4, <2>2 DEF Export, Prepared, CampaignInv, CampaignShape, Roles
  <2>5. CampaignShape'
    BY <2>1, <2>4 DEF CampaignInv, CampaignShape
  <2>6. Prepared(10)'
    BY <2>1, <2>2, <2>4, SameRun DEF Prepared, RightKey, LabFiles
  <2> QED BY <2>1, <2>3, <2>5, <2>6, Onward
<1>5. CASE Trust("server", "trust_server")
  <2>1. /\ step = Steps[10] /\ exit_code = -1 /\ GoOn
        /\ UNCHANGED <<run, host, keys, shared, table, server, myvar, late, results, outcome>>
    BY <1>5, StepNames DEF Trust
  <2>2. Prepared(10)
    BY <2>1, PreparedAt
  <2>3. step' = Steps[11]
    BY <2>1, StepGoes
  <2>4. box' = [box EXCEPT !.h1_trusts = ServerCert]
    BY <1>5, <2>2 DEF Trust, Prepared
  <2>5. CampaignShape'
    BY <2>1, <2>4 DEF CampaignInv, CampaignShape
  <2>6. Prepared(11)'
    BY <2>1, <2>2, <2>4, SameRun DEF Prepared, RightKey, LabFiles
  <2> QED BY <2>1, <2>3, <2>5, <2>6, Onward
<1>6. CASE Trust("client", "trust_client")
  <2>1. /\ step = Steps[11] /\ exit_code = -1 /\ GoOn
        /\ UNCHANGED <<run, host, keys, shared, table, server, myvar, late, results, outcome>>
    BY <1>6, StepNames DEF Trust
  <2>2. Prepared(11)
    BY <2>1, PreparedAt
  <2>3. step' = Steps[12]
    BY <2>1, StepGoes
  <2>4. box' = [box EXCEPT !.h2_trusts = ClientCert]
    BY <1>6, <2>2 DEF Trust, Prepared
  <2>5. CampaignShape'
    BY <2>1, <2>4 DEF CampaignInv, CampaignShape
  <2>6. Prepared(12)'
    BY <2>1, <2>2, <2>4, SameRun DEF Prepared, RightKey, LabFiles
  <2> QED BY <2>1, <2>3, <2>5, <2>6, Onward
<1>7. CASE UpdateThumbprints
  <2>1. /\ step = Steps[12] /\ exit_code = -1 /\ GoOn
        /\ UNCHANGED <<run, host, keys, shared, box, server, myvar, late, results, outcome>>
    BY <1>7, StepNames DEF UpdateThumbprints
  <2>2. Prepared(12)
    BY <2>1, PreparedAt
  <2>3. step' = Steps[13]
    BY <2>1, StepGoes
  <2>4. box' = box
    BY <2>1
  <2>5. CampaignShape'
    BY <2>1, <2>4 DEF CampaignInv, CampaignShape
  <2>6. Prepared(13)'
    BY <2>1, <2>2, <2>4, SameRun DEF Prepared, RightKey, LabFiles
  <2> QED BY <2>1, <2>3, <2>5, <2>6, Onward
<1>8. CASE StartServer
  <2>1. /\ step = Steps[13] /\ exit_code = -1 /\ GoOn
        /\ UNCHANGED <<run, host, keys, shared, table, late, results, outcome>>
    BY <1>8, StepNames DEF StartServer
  <2>2. Prepared(13)
    BY <2>1, PreparedAt
  <2>3. step' = Steps[14]
    BY <2>1, StepGoes
  <2>4. /\ box' = box
        /\ server' = [up |-> TRUE, cert |-> ServerCert, key |-> box.server_key, user |-> ClientCert]
    <3>1. box' = box
      BY <1>8, <2>2, SelfSignedKept DEF StartServer, Prepared, ServerCert
    <3>2. box'.server_cert = ServerCert
      BY <3>1, <2>2 DEF Prepared, LabFiles
    <3>3. box.h2_trusts = ClientCert
      BY <2>2 DEF Prepared
    <3>4. server' = [up |-> TRUE, cert |-> box'.server_cert, key |-> box'.server_key,
                     user |-> box.h2_trusts]
      BY <1>8 DEF StartServer
    <3> QED BY <3>1, <3>2, <3>3, <3>4
  <2>5. CampaignShape'
    BY <2>1, <2>4 DEF CampaignInv, CampaignShape
  <2>6. Prepared(14)'
    BY <2>1, <2>2, <2>4, SameRun DEF Prepared, RightKey, LabFiles
  <2> QED BY <2>1, <2>3, <2>5, <2>6, Onward
<1> QED BY <1>1, <1>2, <1>3, <1>4, <1>5, <1>6, <1>7, <1>8

\* With everything prepared, only the switch can refuse a session.
LEMMA Refused ==
    ASSUME Prepared(15), ~Accepted
    PROVE  variant = "extraction" /\ ~({shared.client, shared.server} \subseteq table)
<1>1. SelfSigned(box, "client") = box
  BY SelfSignedKept DEF Prepared, ClientCert
<1>3. ClientCert.key = box.client_key /\ ServerCert.key = box.server_key
  BY DEF ClientCert, ServerCert, Certificate
<1>4. /\ server.up /\ server.cert = ServerCert /\ server.user = ClientCert /\ server.key = box.server_key
      /\ box.h1_trusts = ServerCert /\ box.client_cert = ClientCert
      /\ shared.client = ClientCert /\ shared.server = ServerCert
  BY DEF Prepared
<1>5. ~Forwarded
  BY <1>1, <1>3, <1>4 DEF Accepted
<1> QED BY <1>4, <1>5 DEF Forwarded

\* Sessions of the client, which may be given up.
LEMMA SessionStep ==
    ASSUME CampaignInv, Connect \/ SetValue \/ ReadBack \/ SessionTimesOut
    PROVE  CampaignInv'
<1>1. /\ step = Steps[15] /\ exit_code = -1 /\ step' = step
      /\ UNCHANGED <<run, host, shared, table, server, faults, metadata, failed_runs, exit_code>>
  BY StepNames DEF At, Connect, SetValue, ReadBack, SessionTimesOut, disk, lab, outcome
<1>2. Prepared(15)
  BY <1>1, PreparedAt
<1>3. box' = box
  <2>1. SelfSigned(box, "client") = box
    BY <1>2, SelfSignedKept DEF Prepared, ClientCert
  <2> QED BY <2>1 DEF Connect, SetValue, ReadBack, SessionTimesOut, lab
<1>4. tally'.ok \in Nat /\ tally'.all \in Nat
  BY DEF CampaignInv, CampaignShape, Connect, SetValue, ReadBack, SessionTimesOut, Over
<1>5. CampaignShape'
  BY <1>1, <1>4 DEF CampaignInv, CampaignShape
<1>6. Prepared(15)'
  BY <1>1, <1>2, <1>3, SameRun DEF Prepared, RightKey
<1>7. session' = "rejected" => ~Accepted
  BY DEF Connect, SetValue, ReadBack, SessionTimesOut, Over
<1>8. SessionsAgree'
  BY <1>1, <1>2, <1>7, Refused, SameRun DEF SessionsAgree
<1> QED BY <1>1, <1>5, <1>6, <1>8, Onward

\* The sessions are counted, the results written and validated.
LEMMA EndOfRunStep ==
    ASSUME CampaignInv, SessionsDone \/ StopCaptures \/ Validate
    PROVE  CampaignInv'
<1>1. PICK p \in 15 .. 17 : step = Steps[p] /\ 
            ((p = 15 /\ SessionsDone) \/ (p = 16 /\ StopCaptures) \/ (p = 17 /\ Validate /\ Valid))
  <2>1. CASE SessionsDone
    <3>1. step = Steps[15] /\ 15 \in 15 .. 17
      BY <2>1, StepNames DEF At, SessionsDone
    <3> QED BY <2>1, <3>1
  <2>2. CASE StopCaptures
    <3>1. step = Steps[16] /\ 16 \in 15 .. 17
      BY <2>2, StepNames DEF At, StopCaptures
    <3> QED BY <2>2, <3>1
  <2>3. CASE Validate
    <3>1. step = Steps[17] /\ 17 \in 15 .. 17 /\ Valid
      BY <2>3, StepNames DEF At, Validate
    <3> QED BY <2>3, <3>1
  <2> QED BY <2>1, <2>2, <2>3
<1>2. /\ exit_code = -1 /\ GoOn
      /\ UNCHANGED <<run, host, shared, box, table, server, session, tally, failed_runs, exit_code>>
      /\ faults \subseteq faults' /\ (packets' = packets \/ p = 16)
  BY <1>1 DEF At, SessionsDone, StopCaptures, Validate, Faults, disk, lab, results, outcome
<1>3. step' = Steps[p + 1] /\ p + 1 \in 16 .. 18
  BY <1>1, <1>2, StepGoes
<1>4. Prepared(p)
  BY <1>1, <1>2, PreparedAt
<1>5. \/ metadata' = metadata /\ (p = 16 => <<run, "metadata">> \in faults')
      \/ metadata' = [n \in DOMAIN metadata \union {run} |->
                          IF n = run THEN Measured' ELSE metadata[n]]
  <2>1. bits' = bits /\ variant' = variant
    BY <1>2, SameRun
  <2>2. CASE StopCaptures
    <3>1. CASE Faults({"metadata"}) /\ UNCHANGED metadata
      BY <3>1 DEF Faults
    <3>2. CASE metadata' = [n \in DOMAIN metadata \union {run} |->
                  IF n = run THEN [key_bits |-> bits, variant |-> variant, sessions_ok |-> tally.ok,
                                   thumbprints |-> {shared.client, shared.server}, packets |-> packets']
                  ELSE metadata[n]]
      BY <1>2, <2>1, <3>2 DEF Measured
    <3> QED BY <2>2, <3>1, <3>2 DEF StopCaptures
  <2>3. CASE p # 16 /\ metadata' = metadata
    BY <2>3
  <2> QED BY <1>1, <2>2, <2>3 DEF SessionsDone, Validate, outcome
<1>6. \A n \in 1 .. run - 1 : n \in DOMAIN metadata =>
          n \in DOMAIN metadata' /\ metadata'[n] = metadata[n]
  BY <1>5, PlanIs DEF CampaignInv, CampaignShape
<1>7. CampaignShape'
  BY <1>2 DEF CampaignInv, CampaignShape
<1>8. p > 15 => \/ <<run, "metadata">> \in faults'
                \/ run \in DOMAIN metadata' /\ metadata'[run] = Measured'
  <2>1. CASE p = 16
    BY <1>5, <2>1
  <2>2. CASE p = 17
    <3>1. Measured' = Measured
      BY <1>2, <2>2, SameMeasured
    <3> QED BY <1>2, <1>4, <1>5, <2>2, <3>1 DEF Prepared
  <2> QED BY <1>1, <2>1, <2>2
<1>9. RightKey("server", box.server_key)' /\ RightKey("client", box.client_key)'
  BY <1>1, <1>2, <1>4, SameRun DEF Prepared, RightKey
<1>12. RightKey("server", host.server_key)' /\ RightKey("client", host.client_key)'
  BY <1>1, <1>2, <1>4, SameRun DEF Prepared, RightKey
<1>10. Prepared(p + 1)'
  BY <1>1, <1>2, <1>3, <1>4, <1>8, <1>9, <1>12, SameRun DEF Prepared, Valid
<1>11. SessionsAgree'
  BY <1>2, SameRun DEF CampaignInv, SessionsAgree
<1> QED BY <1>2, <1>3, <1>6, <1>7, <1>10, <1>11, Onward

\* The counting loop, and the client of a session that was given up.
LEMMA BackgroundStep ==
    ASSUME CampaignInv, ServerReads \/ ServerCounts \/ SetValueLate
    PROVE  CampaignInv'
<1>1. /\ exit_code = -1
      /\ UNCHANGED <<run, step, host, shared, box, table, server, session, tally, packets, faults,
                     metadata, failed_runs, exit_code>>
  BY DEF ServerReads, ServerCounts, SetValueLate, disk, results, outcome
<1>2. PICK p \in 1 .. 18 : step = Steps[p] /\ Prepared(p)
  BY <1>1 DEF CampaignInv, RunPrepared
<1>3. CampaignShape'
  BY <1>1 DEF CampaignInv, CampaignShape
<1>4. Measured' = Measured
  BY <1>1, SameMeasured
<1>5. Prepared(p)'
  BY <1>1, <1>2, <1>4, SameRun DEF Prepared, RightKey
<1>6. SessionsAgree'
  BY <1>1, SameRun DEF CampaignInv, SessionsAgree
<1> QED BY <1>1, <1>2, <1>3, <1>5, <1>6, Onward

\* The next run starts, with the last one accounted for.
LEMMA RunBegun ==
    ASSUME CampaignInv, exit_code = -1, exit_code' = -1, StartRun(run + 1), run < Len(Plan),
           CampaignShape', metadata' = metadata, faults \subseteq faults',
           failed_runs \subseteq failed_runs', run \in failed_runs' \/ Sound(run)
    PROVE  CampaignInv'
<1>1. run \in Nat /\ run' = run + 1 /\ run' \in DOMAIN Plan
  BY PlanIs DEF CampaignInv, CampaignShape, StartRun
<1>3. step' = Steps[1] /\ Prepared(1)'
  BY StepsAre DEF StartRun, Prepared
<1>4. RunPrepared'
  BY <1>3 DEF RunPrepared
<1>5. SessionsAgree'
  BY DEF SessionsAgree, StartRun
<1>6. ASSUME NEW n \in 1 .. run' - 1
      PROVE  (n \in failed_runs \/ Sound(n))'
  <2>1. n \in 1 .. run - 1 \/ n = run
    BY <1>1
  <2>2. n \in failed_runs' \/ Sound(n)
    BY <2>1 DEF CampaignInv, RunsAreAccountedFor
  <2> QED BY <2>2 DEF Sound
<1>7. RunsAreAccountedFor'
  BY <1>6 DEF RunsAreAccountedFor
<1> QED BY <1>4, <1>5, <1>7 DEF CampaignInv

\* The campaign ends, with the exit code that is due.
LEMMA CampaignFinished ==
    ASSUME CampaignInv, exit_code = -1, NEW code \in {0, 1}, Finish(code),
           CampaignShape', metadata' = metadata, faults \subseteq faults',
           failed_runs \subseteq failed_runs', run \in failed_runs' \/ Sound(run), code = 0 <=> failed_runs' = {}
    PROVE  CampaignInv'
<1>1. exit_code' = code /\ table' = {} /\ UNCHANGED <<run, step, session, tally>>
  BY DEF Finish, results
<1>2. CampaignShape' /\ RunPrepared'
  BY <1>1 DEF RunPrepared
<1>3. SessionsAgree'
  BY <1>1, SameRun DEF CampaignInv, SessionsAgree
<1>4. \A n \in 1 .. run - 1 : (n \in failed_runs \/ Sound(n))'
  BY <1>1 DEF CampaignInv, RunsAreAccountedFor, Sound
<1>5. (run \in failed_runs \/ Sound(run))'
  BY <1>1 DEF Sound
<1>6. RunsAreAccountedFor'
  BY <1>1, <1>4, <1>5 DEF RunsAreAccountedFor
<1> QED BY <1>2, <1>3, <1>6 DEF CampaignInv

\* A run ends well, or a step of it fails.
LEMMA OverStep ==
    ASSUME CampaignInv, CleanLab \/ StepFails \/ InstallFails
    PROVE  CampaignInv'
<1>0. exit_code = -1 /\ run \in 1 .. Len(Plan) /\ Len(Plan) \in Nat
  BY PlanIs DEF CleanLab, StepFails, InstallFails, At, CampaignInv, CampaignShape
<1>3. ASSUME StartRun(run + 1) \/ Finish(0) \/ Finish(1), StartRun(run + 1) => run < Len(Plan) /\ exit_code' = -1,
             host' = [f \in LabFiles |-> host'[f]], shared' = [r \in Roles |-> shared'[r]]
      PROVE  CampaignShape'
  <2>1. CASE StartRun(run + 1)
    BY <1>0, <1>3, <2>1, PlanIs DEF CampaignShape, StartRun
  <2>2. CASE Finish(0) \/ Finish(1)
    BY <1>3, <2>2 DEF CampaignInv, CampaignShape, Finish, results
  <2> QED BY <1>3, <2>1, <2>2
<1>1. CASE CleanLab
  <2>1. UNCHANGED <<host, shared, metadata, faults>> /\ failed_runs' = failed_runs
    BY <1>1 DEF CleanLab, disk
  <2>6. host' = [f \in LabFiles |-> host'[f]] /\ shared' = [r \in Roles |-> shared'[r]]
    BY <2>1 DEF CampaignInv, CampaignShape
  <2>2. Prepared(18)
    BY <1>0, <1>1, PreparedAt, StepNames DEF CleanLab, At
  <2>3. Sound(run)
    <3>1. CASE <<run, "metadata">> \in faults
      BY <3>1 DEF Sound
    <3>2. CASE run \in DOMAIN metadata /\ metadata[run] = Measured
      <4>1. /\ metadata[run].thumbprints = {ClientCert, ServerCert}
            /\ metadata[run].sessions_ok > 0 /\ metadata[run].packets
        BY <2>2, <3>2 DEF Prepared, Measured
      <4>2. /\ ClientCert.of = "client" /\ ClientCert.made = run /\ ClientCert.key = box.client_key
            /\ ServerCert.of = "server" /\ ServerCert.made = run /\ ServerCert.key = box.server_key
        BY DEF ClientCert, ServerCert, Certificate
      <4>3. {<<c.of, c.made>> : c \in metadata[run].thumbprints} = {<<role, run>> : role \in Roles}
        BY <4>1, <4>2 DEF Roles
      <4>4. \A c \in metadata[run].thumbprints : c.key = Plan[run].bits \/ <<run, c.of>> \in faults
        BY <2>2, <4>1, <4>2 DEF Prepared, RightKey, bits
      <4> QED BY <3>2, <4>1, <4>3, <4>4 DEF Sound
    <3> QED BY <2>2, <3>1, <3>2 DEF Prepared
  <2>4. CASE run < Len(Plan)
    <3>1. StartRun(run + 1) /\ exit_code' = -1
      BY <1>0, <1>1, <2>4 DEF CleanLab
    <3>2. CampaignShape'
      BY <1>3, <2>4, <2>6, <3>1
    <3> QED BY <1>0, <2>1, <2>3, <2>4, <3>1, <3>2, RunBegun
  <2>5. CASE ~(run < Len(Plan))
    <3>1. PICK code \in {0, 1} : code = IF failed_runs = {} THEN 0 ELSE 1
      OBVIOUS
    <3>2. Finish(code)
      BY <1>1, <2>5, <3>1 DEF CleanLab
    <3>3. ~StartRun(run + 1)
      BY <1>0, <3>2 DEF StartRun, Finish
    <3>4. CampaignShape'
      BY <1>3, <2>6, <3>1, <3>2, <3>3
    <3> QED BY <1>0, <2>1, <2>3, <3>1, <3>2, <3>4, CampaignFinished
  <2> QED BY <2>4, <2>5
<1>2. CASE StepFails \/ InstallFails
  <2>1. metadata' = metadata /\ failed_runs' = failed_runs \union {run} /\ faults \subseteq faults'
    BY <1>2 DEF StepFails, InstallFails, Fail, Faults
  <2>6. host' = [f \in LabFiles |-> host'[f]] /\ shared' = [r \in Roles |-> shared'[r]]
    <3>1. CASE StepFails
      BY <3>1 DEF StepFails, CampaignInv, CampaignShape
    <3>2. CASE InstallFails
      <4>1. PICK copies, kept, left : KeyMaterial(copies, kept, left)
        BY <3>2 DEF InstallFails
      <4> QED BY <4>1, MaterialShape
    <3> QED BY <1>2, <3>1, <3>2
  <2>2. CASE Finish(1)
    <3>1. ~StartRun(run + 1)
      BY <1>0, <2>2 DEF StartRun, Finish
    <3>2. CampaignShape'
      BY <1>3, <2>2, <2>6, <3>1
    <3> QED BY <1>0, <2>1, <2>2, <3>2, CampaignFinished
  <2>3. CASE NextRun /\ run < Len(Plan)
    <3>1. StartRun(run + 1) /\ exit_code' = -1
      BY <1>0, <2>3 DEF NextRun
    <3>2. CampaignShape'
      BY <1>3, <2>3, <2>6, <3>1
    <3> QED BY <1>0, <2>1, <2>3, <3>1, <3>2, RunBegun
  <2>4. CASE NextRun /\ ~(run < Len(Plan))
    <3>1. failed_runs' # {}
      BY <2>1
    <3>2. Finish(1)
      BY <2>4, <3>1 DEF NextRun
    <3> QED BY <2>2, <3>2
  <2> QED BY <1>2, <2>2, <2>3, <2>4 DEF StepFails, InstallFails, Fail
<1> QED BY <1>1, <1>2

\* Every step keeps the invariant: one lemma for each phase of a run.
LEMMA CampaignStep ==
    ASSUME CampaignInv, CampaignNext
    PROVE  CampaignInv'
BY PreparationStep, CertificatesStep, SessionStep, EndOfRunStep, BackgroundStep, OverStep
   DEF CampaignNext, CampaignProceeds

\* The invariant depends on nothing outside the campaign.
LEMMA CampaignStutters ==
    ASSUME CampaignInv, UNCHANGED campaign
    PROVE  CampaignInv'
<1>1. UNCHANGED <<run, step, host, shared, box, table, server, session, tally, packets, faults,
                  metadata, failed_runs, exit_code>>
  BY DEF campaign, disk, lab, results, outcome
<1>2. CampaignShape' /\ Measured' = Measured
  BY <1>1, SameMeasured DEF CampaignInv, CampaignShape
<1>3. SessionsAgree'
  BY <1>1, SameRun DEF CampaignInv, SessionsAgree
<1>4. RunsAreAccountedFor'
  BY <1>1 DEF CampaignInv, RunsAreAccountedFor, Sound
<1>5. RunPrepared'
  <2>1. ASSUME NEW p \in 1 .. 18, Prepared(p) PROVE Prepared(p)'
    BY <1>1, <1>2, <2>1, SameRun DEF Prepared, RightKey
  <2> QED BY <1>1, <2>1 DEF CampaignInv, RunPrepared
<1> QED BY <1>2, <1>3, <1>4, <1>5 DEF CampaignInv

\* A campaign starts with nothing prepared, whatever is left in the lab directory.
LEMMA CampaignStarts ==
    ASSUME NEW leftover \in Leftovers, NEW abort, CampaignInit(leftover, abort)
    PROVE  CampaignInv
<1>1. run = 1 /\ 1 \in DOMAIN Plan
  BY PlanIs DEF CampaignInit
<1>2. leftover.host = [f \in LabFiles |-> leftover.host[f]]
      /\ leftover.shared = [r \in Roles |-> leftover.shared[r]]
  BY CampaignAssumption DEF Labs, LabFiles
<1>3. CampaignShape
  BY <1>1, <1>2 DEF CampaignInit, CampaignShape
<1>4. step = Steps[1] /\ Prepared(1)
  BY StepsAre DEF CampaignInit, Prepared
<1>5. RunPrepared
  BY <1>4 DEF RunPrepared
<1>6. SessionsAgree /\ RunsAreAccountedFor
  BY <1>1 DEF CampaignInit, SessionsAgree, RunsAreAccountedFor
<1> QED BY <1>3, <1>5, <1>6 DEF CampaignInv
=============================================================================
