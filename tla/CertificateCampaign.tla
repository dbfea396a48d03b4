------------------------ MODULE CertificateCampaign ------------------------
(***************************************************************************)
(* src/testbeds/1client_1server/run_cert_size_overhead.sh and the programs *)
(* it runs on the hosts h1 and h2 and on the switch: keys of several sizes *)
(* are generated once, certificates for every run, and client sessions go  *)
(* through the switch while it is captured. A run that cannot be completed *)
(* is recorded and the campaign goes on.                                   *)
(*                                                                         *)
(* Kathara (external) copies the host directories of h1 and h2 into their  *)
(* containers when it starts the lab, mounts shared, and forgets the       *)
(* containers when it cleans up.                                           *)
(***************************************************************************)
EXTENDS Integers, Sequences, SequencesExt, FiniteSets

CONSTANTS
    KeyBits,         \* the key sizes of the campaign, in order
    Runs,            \* runs of each size and variant
    Variants,        \* the P4 programs, in order
    Sessions,        \* client sessions of a run
    Leftovers,       \* what earlier work may have left in the lab directory
    LibraryBits,     \* the size of a key the containers make for want of one
    None, PartKey,   \* no file, and a key that was not copied to its end
    MaxFaults        \* bound: how much goes wrong with the files of the host

VARIABLES
    run, step,       \* the position in the campaign, and in a run
    keys,            \* <<role, bits>> of the cached keys
    host,            \* files of h1 and h2 in the lab directory
    shared,          \* the directory that all containers share
    box,             \* files in the containers
    table,           \* certificates whose thumbprint the switch lists
    server,          \* what the OPC UA server loaded when it started
    myvar, counting, \* MyVariable, and whether the server is about to count it up
    session, late,   \* the session, and whether one given up still runs
    tally,           \* sessions that were good, and all sessions
    packets,         \* there are captures with packets in them
    faults,          \* history: <<run, what>> could not be copied, removed or written
    abort_on_failure,
    metadata,        \* run that has a metadata.env -> what it says
    failed_runs,
    exit_code        \* of the campaign, -1 while it runs

disk == <<keys, host, shared>>
lab == <<box, table, server, myvar, counting, late>>
results == <<session, tally, packets>>
outcome == <<faults, abort_on_failure, metadata, failed_runs, exit_code>>
campaign == <<run, step, disk, lab, results, outcome>>

Roles == {"client", "server"}

Certificates == [of : Roles, key : Nat, made : Nat]
Labs == [client_key : Nat \union {None}, server_key : Nat \union {None},
         client_cert : Certificates \union {None}, server_cert : Certificates \union {None},
         h1_trusts : Certificates \union {None}, h2_trusts : Certificates \union {None}]

ASSUME CampaignAssumption ==
    /\ Runs \in Nat \ {0} /\ Sessions \in Nat \ {0}
    /\ LibraryBits \in Nat /\ MaxFaults \in Nat /\ None \notin Nat
    /\ KeyBits \in Seq(Nat) \ {<<>>} /\ Variants \in Seq(STRING) \ {<<>>}
    /\ Leftovers # {}
    /\ Leftovers \subseteq [host : Labs, shared : [Roles -> Certificates \union {None}]]

\* What there is to know of a certificate: whose it is, the key it was made for,
\* and in which run. Its thumbprint is as unique as that.
Certificate(role, bits) == [of |-> role, key |-> bits, made |-> run]

Plan == [n \in 1 .. Len(KeyBits) * Runs * Len(Variants) |->
            [bits |-> KeyBits[1 + ((n - 1) \div (Runs * Len(Variants)))],
             variant |-> Variants[1 + ((n - 1) % Len(Variants))]]]
bits == Plan[run].bits
variant == Plan[run].variant

NoLab == [client_key |-> None, server_key |-> None,
          client_cert |-> None, server_cert |-> None,
          h1_trusts |-> None, h2_trusts |-> None]
ServerDown == [up |-> FALSE]

---------------------------------------------------------------------------
\* A run: its steps, in order. A step that cannot be done ends the run.

Steps == << "client_key", "server_key", "install_keys", "start_lab", "wait_for_switch",
            "server_cert", "client_cert", "export_server", "export_client",
            "trust_server", "trust_client", "thumbprints", "start_server", "start_captures",
            "sessions", "stop_captures", "validate", "clean_lab" >>

Following(s) == Steps[1 + CHOOSE n \in DOMAIN Steps : Steps[n] = s]

At(s) == exit_code = -1 /\ step = s
GoOn == step' = Following(step)

StartRun(n) ==
    /\ run' = n /\ step' = Head(Steps)
    /\ tally' = [ok |-> 0, all |-> 0] /\ packets' = FALSE /\ session' = "none"

\* cleanup is trapped: the lab goes down whichever way the campaign ends.
Finish(code) ==
    /\ exit_code' = code
    /\ box' = NoLab /\ server' = ServerDown /\ table' = {} /\ counting' = FALSE /\ late' = FALSE
    /\ UNCHANGED <<run, step, results>>

\* The next run or the end; the lab may still be up.
NextRun ==
    IF run < Len(Plan)
    THEN StartRun(run + 1) /\ UNCHANGED <<box, table, server, counting, late, exit_code>>
    ELSE Finish(IF failed_runs' = {} THEN 0 ELSE 1)

Fail ==
    /\ failed_runs' = failed_runs \union {run}
    /\ IF abort_on_failure THEN Finish(1) ELSE NextRun
    /\ UNCHANGED <<keys, myvar, metadata, abort_on_failure>>

\* What goes wrong in this run with files of the host.
Faults(what) ==
    /\ faults' = faults \union {<<run, w>> : w \in what}
    /\ what # {} => Cardinality(faults') <= MaxFaults

---------------------------------------------------------------------------
\* Key material: cached by role and size, copied into the lab directory, where
\* every certificate is removed. Called in a condition, the script does not stop at
\* a command that fails: nobody looks at the status of cp, and rm's is the result.

\* Mutant of KeyFor: one cache directory for all sizes.
KeyForRoleOnly(role) ==
    IF \E b \in Range(KeyBits) : <<role, b>> \in keys
    THEN CHOOSE b \in Range(KeyBits) : <<role, b>> \in keys ELSE bits

\* The size of the key that is found or made for a role.
KeyFor(role) == bits

\* The key is written under another name first: a cached key is a whole one.
GenerateKey(role, s) ==
    /\ At(s)
    /\ keys' = keys \union {<<role, KeyFor(role)>>}
    /\ GoOn
    /\ UNCHANGED <<run, host, shared, lab, results, outcome>>

HostCertificates == {"client_cert", "server_cert", "h1_trusts", "h2_trusts"}

\* Mutant of Removed: the certificates of h1 and h2 stay.
RemovedTrustedOnly(h, kept) == [h EXCEPT !.h1_trusts = None, !.h2_trusts = None]

\* All but those that cannot be removed.
Removed(h, kept) ==
    [f \in DOMAIN h |-> IF f \in HostCertificates \ kept THEN None ELSE h[f]]

\* A key that is not copied leaves the old one, or part of the new.
Copied(role, copy, old) ==
    CASE copy = "whole" -> KeyFor(role)
      [] copy = "none" -> old
      [] copy = "part" -> PartKey

KeyMaterial(copies, kept, left) ==
    /\ host' = Removed([host EXCEPT !.client_key = Copied("client", copies["client"], host.client_key),
                                    !.server_key = Copied("server", copies["server"], host.server_key)], kept)
    /\ shared' = [role \in Roles |-> IF role \in left THEN shared[role] ELSE None]

Copies == [Roles -> {"whole", "none", "part"}]
Miscopied(copies) == {role \in Roles : copies[role] # "whole"}

InstallKeys ==
    /\ At("install_keys")
    /\ \E copies \in Copies : Faults(Miscopied(copies)) /\ KeyMaterial(copies, {}, {})
    /\ GoOn
    /\ UNCHANGED <<run, keys, lab, results, abort_on_failure, metadata, failed_runs, exit_code>>

\* rm fails, possibly only on a file of no interest.
InstallFails ==
    /\ At("install_keys")
    /\ \E copies \in Copies :
          /\ Faults(Miscopied(copies) \union {"rm"})
          /\ \E kept \in SUBSET HostCertificates, left \in SUBSET Roles : KeyMaterial(copies, kept, left)
    /\ Fail

\* Whatever was running is gone.
StartLab ==
    /\ At("start_lab")
    /\ box' = host
    /\ server' = ServerDown /\ table' = {} /\ counting' = FALSE /\ late' = FALSE
    /\ GoOn
    /\ UNCHANGED <<run, disk, myvar, results, outcome>>

---------------------------------------------------------------------------
\* Certificates. setup_self_signed_certificate (asyncua) makes a key if there is none,
\* and keeps a certificate it finds, as long as its name and dates are right.

KeyIn(b, role) == IF role = "client" THEN b.client_key ELSE b.server_key

SelfSigned(b, role) ==
    LET key == IF KeyIn(b, role) = None THEN LibraryBits ELSE KeyIn(b, role)
        cert == IF role = "client" THEN b.client_cert ELSE b.server_cert
        made == IF cert = None THEN Certificate(role, key) ELSE cert
    IN  IF role = "client" THEN [b EXCEPT !.client_key = key, !.client_cert = made]
        ELSE [b EXCEPT !.server_key = key, !.server_cert = made]

\* Part of a key cannot be loaded.
SetupCertificate(role, s) ==
    /\ At(s) /\ KeyIn(box, role) # PartKey
    /\ box' = SelfSigned(box, role)
    /\ GoOn
    /\ UNCHANGED <<run, disk, table, server, myvar, counting, late, results, outcome>>

Export(role, s) ==
    /\ At(s)
    /\ shared' = IF role = "client" THEN [shared EXCEPT !.client = box.client_cert]
                 ELSE [shared EXCEPT !.server = box.server_cert]
    /\ GoOn
    /\ UNCHANGED <<run, keys, host, lab, results, outcome>>

\* Each host trusts the certificate of the other.
Trust(role, s) ==
    /\ At(s)
    /\ box' = IF role = "server" THEN [box EXCEPT !.h1_trusts = shared.server]
              ELSE [box EXCEPT !.h2_trusts = shared.client]
    /\ GoOn
    /\ UNCHANGED <<run, disk, table, server, myvar, counting, late, results, outcome>>

\* update_thumbprints.sh: simple_switch_CLI reports an entry that is refused and
\* goes on.
UpdateThumbprints ==
    /\ At("thumbprints")
    /\ \E listed \in IF variant = "extraction" THEN SUBSET {shared.client, shared.server} ELSE {{}} :
          table' = listed
    /\ GoOn
    /\ UNCHANGED <<run, disk, box, server, myvar, counting, late, results, outcome>>

---------------------------------------------------------------------------
\* The server: certificates and users are loaded once, then a loop counts.

StartServer ==
    /\ At("start_server")
    /\ box' = SelfSigned(box, "server")
    /\ server' = [up |-> TRUE, cert |-> box'.server_cert, key |-> box'.server_key,
                  user |-> box.h2_trusts]
    /\ myvar' = "counted" /\ counting' = FALSE
    /\ GoOn
    /\ UNCHANGED <<run, disk, table, late, results, outcome>>

ServerReads ==
    /\ exit_code = -1
    /\ server.up /\ ~counting
    /\ counting' = TRUE
    /\ UNCHANGED <<run, step, disk, box, table, server, myvar, late, results, outcome>>

ServerCounts ==
    /\ exit_code = -1
    /\ counting
    /\ myvar' = "counted" /\ counting' = FALSE
    /\ UNCHANGED <<run, step, disk, box, table, server, late, results, outcome>>

---------------------------------------------------------------------------
\* The sessions of the client.

\* What the switch lets through: the request names the server by its
\* certificate, the response the client.
Forwarded == variant = "extraction" => {box.client_cert, box.h1_trusts} \subseteq table

Accepted ==
    LET b == SelfSigned(box, "client")
    IN  /\ server.up
        /\ b.h1_trusts = server.cert /\ server.user = b.client_cert
        /\ b.client_cert.key = b.client_key /\ server.cert.key = server.key
        /\ Forwarded

Over(result) ==
    /\ session' = result
    /\ tally' = [ok |-> tally.ok + (IF result = "ok" THEN 1 ELSE 0), all |-> tally.all + 1]

InSession == session \in {"connected", "written"}

Connect ==
    /\ At("sessions") /\ ~InSession /\ tally.all < Sessions
    /\ box' = SelfSigned(box, "client")
    /\ IF Accepted THEN session' = "connected" /\ UNCHANGED tally ELSE Over("rejected")
    /\ UNCHANGED <<run, step, disk, table, server, myvar, counting, late, packets, outcome>>

SetValue ==
    /\ session = "connected" /\ At("sessions")
    /\ session' = "written" /\ myvar' = "written"
    /\ UNCHANGED <<run, step, disk, box, table, server, counting, late, tally, packets, outcome>>

ReadBack ==
    /\ session = "written" /\ At("sessions")
    /\ Over(IF myvar = "written" THEN "ok" ELSE "mismatch")
    /\ UNCHANGED <<run, step, disk, lab, packets, outcome>>

\* timeout ends the command on the host; in the container the client goes on.
SessionTimesOut ==
    /\ InSession /\ At("sessions")
    /\ Over("timed_out")
    /\ late' = (late \/ session = "connected")
    /\ UNCHANGED <<run, step, disk, box, table, server, myvar, counting, packets, outcome>>

SetValueLate ==
    /\ late /\ exit_code = -1
    /\ late' = FALSE /\ myvar' = "written"
    /\ UNCHANGED <<run, step, disk, box, table, server, counting, results, outcome>>

---------------------------------------------------------------------------
\* The end of a run.

SessionsDone ==
    /\ At("sessions") /\ ~InSession /\ tally.all = Sessions
    /\ GoOn
    /\ UNCHANGED <<run, disk, lab, results, outcome>>

\* Captures may be missing or empty: stopping and copying them may fail. metadata.env
\* is written, whatever came of the sessions, and nobody checks that it could be.
StopCaptures ==
    /\ At("stop_captures")
    /\ packets' \in BOOLEAN
    /\ \/ /\ metadata' = [n \in DOMAIN metadata \union {run} |->
                  IF n = run THEN [key_bits |-> bits, variant |-> variant, sessions_ok |-> tally.ok,
                                   thumbprints |-> {shared.client, shared.server}, packets |-> packets']
                  ELSE metadata[n]]
          /\ Faults({})
       \/ UNCHANGED metadata /\ Faults({"metadata"})
    /\ GoOn
    /\ UNCHANGED <<run, disk, lab, session, tally, failed_runs, exit_code, abort_on_failure>>

\* Mutant of Valid: the captures are not counted.
ValidAnyway == tally.ok > 0
Valid == tally.ok > 0 /\ packets

Validate ==
    /\ At("validate") /\ Valid
    /\ GoOn
    /\ UNCHANGED <<run, disk, lab, results, outcome>>

CleanLab ==
    /\ At("clean_lab")
    /\ IF run < Len(Plan)
       THEN /\ StartRun(run + 1)
            /\ box' = NoLab /\ server' = ServerDown /\ table' = {} /\ counting' = FALSE /\ late' = FALSE
            /\ UNCHANGED exit_code
       ELSE Finish(IF failed_runs = {} THEN 0 ELSE 1)
    /\ UNCHANGED <<disk, myvar, faults, metadata, failed_runs, abort_on_failure>>

\* A deadline or a command that fails; captures are stopped and sessions counted
\* whatever happens.
Wait ==
    /\ \/ At("wait_for_switch") \/ At("start_captures")
    /\ GoOn
    /\ UNCHANGED <<run, disk, lab, results, outcome>>

MayFail ==
    \/ step \in Range(Steps) \ {"client_key", "server_key", "install_keys", "sessions",
                                 "stop_captures", "validate"}
    \/ step = "client_key" /\ <<"client", KeyFor("client")>> \notin keys
    \/ step = "server_key" /\ <<"server", KeyFor("server")>> \notin keys
    \/ step = "validate" /\ ~Valid

StepFails == exit_code = -1 /\ MayFail /\ Fail /\ UNCHANGED <<host, shared, faults>>

CampaignInit(leftover, abort) ==
    /\ run = 1 /\ step = Head(Steps)
    /\ abort_on_failure = abort
    /\ keys = {}
    /\ host = leftover.host /\ shared = leftover.shared
    /\ box = NoLab /\ table = {} /\ server = ServerDown
    /\ myvar = "counted" /\ counting = FALSE
    /\ session = "none" /\ late = FALSE
    /\ tally = [ok |-> 0, all |-> 0] /\ packets = FALSE
    /\ faults = {} /\ metadata = <<>>
    /\ failed_runs = {}
    /\ exit_code = -1

CampaignProceeds ==
    \/ GenerateKey("client", "client_key") \/ GenerateKey("server", "server_key")
    \/ InstallKeys \/ InstallFails \/ StartLab \/ Wait
    \/ SetupCertificate("server", "server_cert") \/ SetupCertificate("client", "client_cert")
    \/ Export("server", "export_server") \/ Export("client", "export_client")
    \/ Trust("server", "trust_server") \/ Trust("client", "trust_client")
    \/ UpdateThumbprints \/ StartServer
    \/ Connect \/ SetValue \/ ReadBack \/ SessionTimesOut \/ SessionsDone
    \/ StopCaptures \/ Validate \/ CleanLab
    \/ StepFails

CampaignNext == CampaignProceeds \/ ServerReads \/ ServerCounts \/ SetValueLate

---------------------------------------------------------------------------
\* No session is refused for its certificates. The keys are older than the run,
\* the lab directory may hold certificates of other runs, and the server loads its
\* user only once: all the same, whoever is refused has not been listed in the
\* switch (run_cert_size_overhead.sh prepares both certificates before it starts the
\* server, and removes old ones before that).
SessionsAgree ==
    session = "rejected" =>
        variant = "extraction" /\ ~({shared.client, shared.server} \subseteq table)

\* A run that is over is either listed as failed, or its metadata says what was
\* measured: sessions that succeeded and were captured, with a certificate of each host
\* made in this run, for a key of the size in its directory name. Two failures go
\* unnoticed: that of copying a key, whose host then uses another one, and that of
\* writing the metadata. The exit code tells failed runs from others.
Sound(n) ==
    \/ <<n, "metadata">> \in faults
    \/ /\ n \in DOMAIN metadata
       /\ metadata[n].sessions_ok > 0 /\ metadata[n].packets
       /\ {<<c.of, c.made>> : c \in metadata[n].thumbprints} = {<<role, n>> : role \in Roles}
       /\ \A c \in metadata[n].thumbprints : c.key = Plan[n].bits \/ <<n, c.of>> \in faults

RunsAreAccountedFor ==
    /\ \A n \in 1 .. run - 1 : n \in failed_runs \/ Sound(n)
    /\ exit_code = 0 => failed_runs = {} /\ Sound(run)
    /\ exit_code = 1 => failed_runs # {} /\ (run \in failed_runs \/ Sound(run))
=============================================================================
