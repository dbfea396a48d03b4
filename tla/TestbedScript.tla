--------------------------- MODULE TestbedScript ---------------------------
(***************************************************************************)
(* src/testbeds/ot-security-testbed/testbed.py: installs what the testbed  *)
(* needs, makes its certificates, and builds, starts and stops it with     *)
(* Docker, all in one invocation if the operator wants it.                 *)
(***************************************************************************)
EXTENDS Integers, Sequences, SequencesExt

CONSTANTS
    Invocations,    \* the command lines an operator uses
    MaxInvocations  \* bound: how many of them

No == "no"     \* an option that is not given, a file that is not there

\* What argparse accepts. The last option is stored as FALSE when it is given.
Versions == {"prod", "local", "dev"}
CommandLines ==
    [install : {No, "debian", "ubuntu", "arch"}, build : {No} \union Versions,
     start : {No} \union Versions, stop : BOOLEAN, sudo_consent : BOOLEAN]

ASSUME ScriptAssumption == MaxInvocations \in Nat /\ Invocations \subseteq CommandLines

VARIABLES
    args,           \* the command line of the invocation, or what the last came to
    invocations,
    todo,           \* what is left to do of it
    asked,          \* the question that waits for an answer
    installed,      \* packages
    certificates,   \* create-certs.sh has been through
    ran,            \* history: the commands that were run, whether the operator had
                    \* confirmed each, and the command line
    dhparam,        \* nginx/dhparam.pem exists
    currently_running, \* the file of that name
    up              \* versions whose containers are up

tools == <<installed, certificates, ran>>
docker == <<dhparam, currently_running, up>>
testbed == <<args, invocations, todo, asked, tools, docker>>

---------------------------------------------------------------------------
\* What an invocation does: installation steps, each of which asks first, the
\* certificates, then the verbs of Docker. A command is a record; sudo says that
\* the word occurs in it.

Command(name, sudo) == [do |-> "command", name |-> name, sudo |-> sudo]
Compose(verb) == [do |-> verb, name |-> "docker_compose", sudo |-> TRUE]
Step(name, commands) == [do |-> "step", name |-> name, commands |-> commands]

DebianOpenssl == <<Command("openssl", TRUE)>>
\* Whoever wants to keep old versions of Docker is the one who loses them: the
\* question offers YES, and the command runs on a no.
DebianDocker ==
    << [do |-> "old_docker"], Command("dependencies", TRUE), Command("keyrings", TRUE), Command("gpg", TRUE),
       Command("sources", TRUE), Command("update", TRUE), Command("docker", TRUE) >>
UbuntuDocker == DebianDocker
ArchOpenssl == <<>>
ArchDocker == <<Command("docker", TRUE)>>

Installer ==
    [debian |-> << Step("openssl", DebianOpenssl), Step("docker", DebianDocker), [do |-> "certificates"] >>,
     ubuntu |-> << Step("openssl", DebianOpenssl), Step("docker", UbuntuDocker), [do |-> "certificates"] >>,
     arch |-> << Step("openssl", ArchOpenssl), Step("docker", ArchDocker), [do |-> "certificates"] >>]

Todo(a) ==
    (IF a.install = No THEN <<>> ELSE Installer[a.install])
    \o (IF a.build = No THEN <<>> ELSE <<Compose("build")>>)
    \o (IF a.start = No THEN <<>> ELSE << [do |-> "dhparam"], [do |-> "write"], Compose("up") >>)
    \o (IF a.stop THEN <<Compose("down")>> ELSE <<>>)

Invoke(a) ==
    /\ args.status # "running" /\ invocations < MaxInvocations
    /\ args' = [status |-> "running", line |-> a]
    /\ invocations' = invocations + 1
    /\ todo' = Todo(a)
    /\ UNCHANGED <<asked, tools, docker>>

Now(what) == args.status = "running" /\ todo # <<>> /\ Head(todo).do = what /\ asked = No
Proceed == todo' = Tail(todo) /\ UNCHANGED args
Exit == args' = [args EXCEPT !.status = "failed"] /\ todo' = <<>>
Records(confirmed) ==
    ran' = ran \union {[command |-> Head(todo), confirmed |-> confirmed, line |-> args.line]}

---------------------------------------------------------------------------
\* execute_installation_step

AskStep ==
    /\ Now("step")
    /\ asked' = "step"
    /\ UNCHANGED <<args, invocations, todo, tools, docker>>

AnswerStep ==
    /\ asked = "step"
    /\ asked' = No
    /\ \/ todo' = Head(todo).commands \o Tail(todo) /\ UNCHANGED args    \* yes
       \/ Proceed                                                        \* skip
       \/ Exit
    /\ UNCHANGED <<invocations, tools, docker>>

AskOldDocker ==
    /\ Now("old_docker")
    /\ \/ Proceed                                                        \* yes
       \/ todo' = <<Command("remove", FALSE)>> \o Tail(todo) /\ UNCHANGED args
    /\ UNCHANGED <<invocations, asked, tools, docker>>

---------------------------------------------------------------------------
\* execute_command. The condition reads (consent and root) or (root and not yes):
\* with the consent that is the default, nothing is asked and nothing runs.

Asks(sudo) == ~args.line.sudo_consent /\ sudo

\* Mutant of RefusesUnasked: consent is enough.
RefusesNothing(sudo) == FALSE

RefusesUnasked(sudo) == args.line.sudo_consent /\ sudo

AskSudo ==
    /\ Now("command") /\ Asks(Head(todo).sudo)
    /\ asked' = "sudo"
    /\ UNCHANGED <<args, invocations, todo, tools, docker>>

\* The command may fail, which aborts the installation.
Run(confirmed) ==
    /\ Records(confirmed)
    /\ \/ installed' = installed \union {Head(todo).name} /\ Proceed
       \/ Exit /\ UNCHANGED installed

AnswerSudo ==
    /\ asked = "sudo"
    /\ asked' = No
    /\ \/ Run(TRUE)
       \/ Exit /\ UNCHANGED <<installed, ran>>
    /\ UNCHANGED <<invocations, certificates, docker>>

ExecuteCommand ==
    /\ Now("command") /\ ~Asks(Head(todo).sudo)
    /\ IF RefusesUnasked(Head(todo).sudo) THEN Exit /\ UNCHANGED <<installed, ran>> ELSE Run(FALSE)
    /\ UNCHANGED <<invocations, asked, certificates, docker>>

CreateCertificates ==
    /\ Now("certificates")
    /\ \/ certificates' = TRUE /\ Proceed
       \/ Exit /\ UNCHANGED certificates
    /\ UNCHANGED <<invocations, asked, installed, ran, docker>>

---------------------------------------------------------------------------
\* Build, start and stop: docker compose is run with sudo, and nobody is asked.

Build ==
    /\ Now("build")
    /\ Records(FALSE)
    /\ Proceed \/ Exit
    /\ UNCHANGED <<invocations, asked, installed, certificates, docker>>

\* Without a shell the whole line is taken for the name of a program: there is
\* no such program, and nobody catches that.
GenerateDhparam ==
    /\ Now("dhparam")
    /\ IF args.line.start = "prod" /\ ~dhparam THEN Exit ELSE Proceed
    /\ UNCHANGED <<invocations, asked, tools, docker>>

WriteCurrentlyRunning ==
    /\ Now("write")
    /\ currently_running' = args.line.start
    /\ Proceed
    /\ UNCHANGED <<invocations, asked, tools, dhparam, up>>

Up ==
    /\ Now("up")
    /\ Records(FALSE)
    /\ \/ up' = up \union {args.line.start} /\ Proceed
       \/ Exit /\ UNCHANGED up
    /\ UNCHANGED <<invocations, asked, installed, certificates, dhparam, currently_running>>

\* Without the file nothing is run.
Down ==
    /\ Now("down")
    /\ IF currently_running = No THEN Exit /\ UNCHANGED <<ran, up>>
       ELSE /\ Records(FALSE)
            /\ \/ up' = up \ {currently_running} /\ Proceed
               \/ Exit /\ UNCHANGED up
    /\ UNCHANGED <<invocations, asked, installed, certificates, dhparam, currently_running>>

Return ==
    /\ args.status = "running" /\ todo = <<>>
    /\ args' = [args EXCEPT !.status = "done"]
    /\ UNCHANGED <<invocations, todo, asked, tools, docker>>

TestbedInit(dhparams) ==
    /\ args = [status |-> "none"] /\ invocations = 0 /\ todo = <<>> /\ asked = No
    /\ installed = {} /\ certificates = FALSE /\ ran = {}
    /\ dhparam \in dhparams /\ currently_running = No /\ up = {}

InvocationProceeds ==
    \/ AskStep \/ AnswerStep \/ AskOldDocker \/ AskSudo \/ AnswerSudo \/ ExecuteCommand
    \/ CreateCertificates \/ Build \/ GenerateDhparam \/ WriteCurrentlyRunning \/ Up \/ Down \/ Return

TestbedNext == (\E a \in Invocations : Invoke(a)) \/ InvocationProceeds

---------------------------------------------------------------------------
\* What has been run with sudo: a command of the installer that the operator was shown
\* and confirmed, which with the consent that is the default is none (testbed.py's
\* condition mixes the option and the answer without parentheses), or docker compose to
\* build, start or stop, which the command line of that invocation asks for.
SudoIsConfirmed ==
    \A r \in ran : r.command.sudo =>
        \/ r.confirmed /\ ~r.line.sudo_consent
        \/ r.command.do = "build" /\ r.line.build # No
        \/ r.command.do = "up" /\ r.line.start # No
        \/ r.command.do = "down" /\ r.line.stop
=============================================================================
