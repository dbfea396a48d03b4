--------------------------- MODULE LabTools_proofs ---------------------------
(***************************************************************************)
(* Machine-checked proofs about the tools of an operator: the script of the *)
(* OT testbed, the certificate generator, the client of the switch's event *)
(* log, wallet and feed of the management page, and the exchange over the  *)
(* Tangle; and the theorems for all of them, with the campaign's, for any  *)
(* number of iterations, accounts, events, messages and programs.          *)
(***************************************************************************)
EXTENDS LabTools, CertificateCampaign_proofs, TLAPS

\* What an invocation may have to do, by its command line.
Packages == {"openssl", "docker", "dependencies", "keyrings", "gpg", "sources", "update", "remove"}
CommandSet == [do : {"command"}, name : Packages, sudo : BOOLEAN]
QuestionSet == {[do |-> "old_docker"]}
StepSet == [do : {"step"}, name : Packages, commands : Seq(CommandSet \union QuestionSet)]
OtherSet == {[do |-> "certificates"], [do |-> "dhparam"], [do |-> "write"]}
Verbs(line) == {Compose(verb) : verb \in {v \in {"build", "up", "down"} :
                    (v = "build" /\ line.build # No) \/ (v = "up" /\ line.start # No) \/ (v = "down" /\ line.stop)}}
TodoSet(line) == CommandSet \union QuestionSet \union StepSet \union OtherSet \union Verbs(line)

\* What is left to do is of the command line; who is asked is asked about the next of it.
TestbedInv ==
    /\ args.status = "running" => /\ args = [status |-> "running", line |-> args.line]
                                  /\ todo \in Seq(TodoSet(args.line))
    /\ asked # No => args.status = "running" /\ todo # <<>>
    /\ asked = "step" => Head(todo).do = "step"
    /\ asked = "sudo" => Head(todo).do = "command" /\ ~args.line.sudo_consent
    /\ SudoIsConfirmed

\* The members of the set by what they do.
LEMMA TodoIs ==
    ASSUME NEW line, NEW x \in TodoSet(line)
    PROVE  /\ x.do = "step" => x \in StepSet
           /\ x.do \in {"build", "up", "down"} => x \in Verbs(line)
           /\ x \in Verbs(line) => \/ x.do = "build" /\ line.build # No
                                   \/ x.do = "up" /\ line.start # No
                                   \/ x.do = "down" /\ line.stop
<1>1. x \in CommandSet => x.do = "command"
  BY DEF CommandSet
<1>2. x \in QuestionSet => x.do = "old_docker"
  BY DEF QuestionSet
<1>3. x \in StepSet => x.do = "step"
  BY DEF StepSet
<1>4. x \in OtherSet => x.do \in {"certificates", "dhparam", "write"}
  BY DEF OtherSet
<1>5. x \in Verbs(line) => \/ x.do = "build" /\ line.build # No
                           \/ x.do = "up" /\ line.start # No
                           \/ x.do = "down" /\ line.stop
  <2> SUFFICES ASSUME x \in Verbs(line)
               PROVE  \/ x.do = "build" /\ line.build # No
                      \/ x.do = "up" /\ line.start # No
                      \/ x.do = "down" /\ line.stop
    OBVIOUS
  <2>1. PICK verb \in {"build", "up", "down"} :
            /\ x = Compose(verb)
            /\ \/ verb = "build" /\ line.build # No
               \/ verb = "up" /\ line.start # No
               \/ verb = "down" /\ line.stop
    BY Zenon DEF Verbs
  <2>2. x.do = verb
    BY <2>1 DEF Compose
  <2> QED BY <2>1, <2>2
<1> QED BY <1>1, <1>2, <1>3, <1>4, <1>5 DEF TodoSet

\* What a command line asks for is of it.
LEMMA TodoOfLine == ASSUME NEW a \in CommandLines PROVE Todo(a) \in Seq(TodoSet(a))
<1> DEFINE T == TodoSet(a)
<1>1. a.install # No => Installer[a.install] \in Seq(T)
  <2> DEFINE C == CommandSet \union QuestionSet
  <2>1. /\ DebianOpenssl \in Seq(C) /\ DebianDocker \in Seq(C) /\ UbuntuDocker \in Seq(C)
        /\ ArchOpenssl \in Seq(C) /\ ArchDocker \in Seq(C)
    <3>1. /\ Command("openssl", TRUE) \in C /\ Command("dependencies", TRUE) \in C
          /\ Command("keyrings", TRUE) \in C /\ Command("gpg", TRUE) \in C
          /\ Command("sources", TRUE) \in C /\ Command("update", TRUE) \in C
          /\ Command("docker", TRUE) \in C
      <4>1. \A name \in Packages, sudo \in BOOLEAN : Command(name, sudo) \in CommandSet
        BY DEF Command, CommandSet
      <4>2. \A name \in Packages : Command(name, TRUE) \in C
        BY <4>1, Zenon
      <4>3. /\ "openssl" \in Packages /\ "dependencies" \in Packages /\ "keyrings" \in Packages
            /\ "gpg" \in Packages /\ "sources" \in Packages /\ "update" \in Packages /\ "docker" \in Packages
        BY DEF Packages
      <4> QED BY <4>2, <4>3, Zenon
    <3>2. [do |-> "old_docker"] \in C
      BY DEF QuestionSet
    <3> HIDE DEF C
    <3>3. /\ \A x \in C : <<x>> \in Seq(C)
          /\ \A t, u, v, w, x, y, z \in C : <<t, u, v, w, x, y, z>> \in Seq(C)
          /\ <<>> \in Seq(C)
      OBVIOUS
    <3>4. DebianOpenssl \in Seq(C) /\ ArchDocker \in Seq(C) /\ ArchOpenssl \in Seq(C)
      BY <3>1, <3>3, Zenon DEF DebianOpenssl, ArchDocker, ArchOpenssl
    <3>5. DebianDocker \in Seq(C)
      BY <3>1, <3>2, <3>3, Zenon DEF DebianDocker
    <3> QED BY <3>4, <3>5 DEF UbuntuDocker
  <2>2. /\ Step("openssl", DebianOpenssl) \in StepSet /\ Step("docker", DebianDocker) \in StepSet
        /\ Step("docker", UbuntuDocker) \in StepSet /\ Step("openssl", ArchOpenssl) \in StepSet
        /\ Step("docker", ArchDocker) \in StepSet
    <3>1. \A name \in Packages, cs \in Seq(C) : Step(name, cs) \in StepSet
      BY DEF Step, StepSet
    <3>2. "openssl" \in Packages /\ "docker" \in Packages
      BY DEF Packages
    <3> HIDE DEF C
    <3> QED BY <2>1, <3>1, <3>2, Zenon
  <2>3. [do |-> "certificates"] \in OtherSet
    BY DEF OtherSet
  <2>4. StepSet \subseteq T /\ OtherSet \subseteq T
    BY DEF TodoSet
  <2>5. \A x, y, z \in T : <<x, y, z>> \in Seq(T)
    OBVIOUS
  <2>6. /\ << Step("openssl", DebianOpenssl), Step("docker", DebianDocker), [do |-> "certificates"] >> \in Seq(T)
        /\ << Step("openssl", DebianOpenssl), Step("docker", UbuntuDocker), [do |-> "certificates"] >> \in Seq(T)
        /\ << Step("openssl", ArchOpenssl), Step("docker", ArchDocker), [do |-> "certificates"] >> \in Seq(T)
    BY <2>2, <2>3, <2>4, <2>5, Zenon
  <2>7. a.install # No => a.install \in {"debian", "ubuntu", "arch"}
    BY DEF CommandLines
  <2> HIDE DEF T
  <2>8. Installer["debian"] \in Seq(T) /\ Installer["ubuntu"] \in Seq(T) /\ Installer["arch"] \in Seq(T)
    BY <2>6 DEF Installer
  <2> QED BY <2>7, <2>8
<1>2. OtherSet \subseteq T /\ Verbs(a) \subseteq T
  BY DEF TodoSet
<1>3. a.build # No => Compose("build") \in Verbs(a)
  BY DEF Verbs
<1>4. a.start # No => Compose("up") \in Verbs(a)
  BY DEF Verbs
<1>5. a.stop => Compose("down") \in Verbs(a)
  BY DEF Verbs
<1>6. [do |-> "dhparam"] \in OtherSet /\ [do |-> "write"] \in OtherSet
  BY DEF OtherSet
<1> HIDE DEF T
<1>7. PICK i \in Seq(T) : i = IF a.install = No THEN <<>> ELSE Installer[a.install]
  <2>1. (IF a.install = No THEN <<>> ELSE Installer[a.install]) \in Seq(T)
    BY <1>1
  <2> QED BY <2>1, Zenon
<1>8. PICK b \in Seq(T) : b = IF a.build = No THEN <<>> ELSE <<Compose("build")>>
  <2>1. (IF a.build = No THEN <<>> ELSE <<Compose("build")>>) \in Seq(T)
    BY <1>2, <1>3
  <2> QED BY <2>1, Zenon
<1>9. PICK s \in Seq(T) : s = IF a.start = No THEN <<>>
                              ELSE << [do |-> "dhparam"], [do |-> "write"], Compose("up") >>
  <2>1. a.start # No => [do |-> "dhparam"] \in T /\ [do |-> "write"] \in T /\ Compose("up") \in T
    BY <1>2, <1>4, <1>6
  <2>2. \A x, y, z \in T : <<x, y, z>> \in Seq(T)
    OBVIOUS
  <2>3. (IF a.start = No THEN <<>> ELSE << [do |-> "dhparam"], [do |-> "write"], Compose("up") >>) \in Seq(T)
    <3>1. CASE a.start = No
      BY <3>1
    <3>2. CASE a.start # No
      BY <3>2, <2>1, <2>2, Zenon
    <3> QED BY <3>1, <3>2
  <2> QED BY <2>3, Zenon
<1>10. PICK d \in Seq(T) : d = IF a.stop THEN <<Compose("down")>> ELSE <<>>
  <2>1. (IF a.stop THEN <<Compose("down")>> ELSE <<>>) \in Seq(T)
    BY <1>2, <1>5
  <2> QED BY <2>1, Zenon
<1>11. ((i \o b) \o s) \o d \in Seq(T)
  OBVIOUS
<1> QED BY <1>7, <1>8, <1>9, <1>10, <1>11 DEF Todo, T

\* A command is recorded as it was run.
LEMMA Recorded ==
    ASSUME SudoIsConfirmed, NEW confirmed, Records(confirmed),
           Head(todo).sudo => \/ confirmed /\ ~args.line.sudo_consent
                              \/ Head(todo).do = "build" /\ args.line.build # No
                              \/ Head(todo).do = "up" /\ args.line.start # No
                              \/ Head(todo).do = "down" /\ args.line.stop
    PROVE  SudoIsConfirmed'
<1>1. PICK command, line : command = Head(todo) /\ line = args.line
  OBVIOUS
<1>2. PICK r : r = [command |-> command, confirmed |-> confirmed, line |-> line]
  OBVIOUS
<1>3. ran' = ran \union {r}
  BY <1>1, <1>2 DEF Records
<1>4. r.command = command /\ r.confirmed = confirmed /\ r.line = line
  BY <1>2
<1> QED BY <1>1, <1>3, <1>4, Zenon DEF SudoIsConfirmed

\* An invocation that goes on has one thing less to do, and one that ends nothing.
LEMMA Shortened ==
    ASSUME TestbedInv, args.status = "running", todo # <<>>, asked' = No, SudoIsConfirmed',
           Proceed \/ Exit
    PROVE  TestbedInv'
<1> DEFINE T == TodoSet(args.line)
<1>1. todo \in Seq(T)
  BY DEF TestbedInv
<1>2. CASE Proceed
  <2>1. todo' \in Seq(T) /\ args' = args
    <3> HIDE DEF T
    <3> QED BY <1>1, <1>2 DEF Proceed
  <2> QED BY <2>1 DEF TestbedInv, No
<1>3. CASE Exit
  <2>1. args'.status # "running"
    <3>1. PICK line : args = [status |-> "running", line |-> line]
      BY DEF TestbedInv
    <3> QED BY <1>3, <3>1 DEF Exit
  <2> QED BY <2>1 DEF TestbedInv, No
<1> QED BY <1>2, <1>3

\* Every step of testbed.py that runs a command with sudo asks first, or was asked to.
LEMMA SudoStep ==
    ASSUME TestbedInv, [TestbedNext]_testbed
    PROVE  TestbedInv'
<1>0. args.status = "running" /\ todo # <<>> => Head(todo) \in TodoSet(args.line)
  <2> DEFINE T == TodoSet(args.line)
  <2> SUFFICES ASSUME args.status = "running", todo # <<>> PROVE Head(todo) \in T
    OBVIOUS
  <2>1. todo \in Seq(T)
    BY DEF TestbedInv
  <2> HIDE DEF T
  <2> QED BY <2>1
<1>1. CASE UNCHANGED testbed
  BY <1>1 DEF testbed, tools, TestbedInv, SudoIsConfirmed
<1>2. ASSUME NEW a \in Invocations, Invoke(a)
      PROVE  TestbedInv'
  <2>1. a \in CommandLines /\ asked = No /\ asked' = No /\ UNCHANGED ran
    BY <1>2, ScriptAssumption DEF Invoke, TestbedInv, tools
  <2>2. args' = [status |-> "running", line |-> a] /\ args'.line = a /\ todo' = Todo(a)
    BY <1>2 DEF Invoke
  <2>3. todo' \in Seq(TodoSet(args'.line))
    BY <2>1, <2>2, TodoOfLine
  <2>4. SudoIsConfirmed'
    BY <2>1 DEF TestbedInv, SudoIsConfirmed
  <2> QED BY <2>1, <2>2, <2>3, <2>4 DEF TestbedInv, No
<1>3. UNCHANGED ran => SudoIsConfirmed'
  BY DEF TestbedInv, SudoIsConfirmed
<1>4. CASE AskStep \/ AskSudo
  <2>1. /\ args.status = "running" /\ todo # <<>> /\ UNCHANGED <<args, todo, ran>>
        /\ (asked' = "step" /\ Head(todo).do = "step") \/ (asked' = "sudo" /\ Head(todo).do = "command" /\ ~args.line.sudo_consent)
    BY <1>4 DEF AskStep, AskSudo, Now, Asks, tools
  <2> QED BY <2>1, <1>3 DEF TestbedInv, No
<1>5. CASE AnswerStep
  <2>1. args.status = "running" /\ todo # <<>> /\ Head(todo).do = "step" /\ asked' = No /\ UNCHANGED ran
    BY <1>5 DEF AnswerStep, TestbedInv, No, tools
  <2>2. CASE Proceed \/ Exit
    BY <2>1, <2>2, <1>3, Shortened
  <2>3. CASE todo' = Head(todo).commands \o Tail(todo) /\ UNCHANGED args
    <3> DEFINE T == TodoSet(args.line)
    <3>1. Head(todo) \in StepSet
      BY <1>0, <2>1, TodoIs
    <3>2. PICK cs : cs = Head(todo).commands /\ cs \in Seq(CommandSet \union QuestionSet)
      BY <3>1 DEF StepSet
    <3>3. CommandSet \union QuestionSet \subseteq T
      BY DEF TodoSet
    <3>4. todo \in Seq(T)
      BY <2>1 DEF TestbedInv
    <3> HIDE DEF T
    <3>5. cs \in Seq(T)
      <4> DEFINE C == CommandSet \union QuestionSet
      <4>1. cs \in Seq(C) /\ C \subseteq T
        BY <3>2, <3>3
      <4> HIDE DEF C
      <4> QED BY <4>1
    <3>6. cs \o Tail(todo) \in Seq(T)
      BY <2>1, <3>4, <3>5
    <3>7. todo' \in Seq(TodoSet(args'.line))
      BY <2>3, <3>2, <3>6 DEF T
    <3> QED BY <2>1, <2>3, <3>7, <1>3 DEF TestbedInv, No
  <2> QED BY <1>5, <2>2, <2>3 DEF AnswerStep
<1>6. CASE AskOldDocker
  <2>1. args.status = "running" /\ todo # <<>> /\ asked = No /\ asked' = No /\ UNCHANGED ran
    BY <1>6 DEF AskOldDocker, Now, tools
  <2>2. CASE Proceed
    BY <2>1, <2>2, <1>3, Shortened
  <2>3. CASE todo' = <<Command("remove", FALSE)>> \o Tail(todo) /\ UNCHANGED args
    <3> DEFINE T == TodoSet(args.line)
    <3>0. Command("remove", FALSE) \in T
      <4>1. \A name \in Packages, sudo \in BOOLEAN : Command(name, sudo) \in CommandSet
        BY DEF Command, CommandSet
      <4>2. \A name \in Packages : Command(name, FALSE) \in CommandSet
        BY <4>1, Zenon
      <4>4. "remove" \in Packages
        BY DEF Packages
      <4>3. Command("remove", FALSE) \in CommandSet
        BY <4>2, <4>4, Zenon
      <4> QED BY <4>3 DEF TodoSet
    <3>1. PICK c \in T : c = Command("remove", FALSE)
      BY <3>0, Zenon
    <3>2. c \in T
      OBVIOUS
    <3>3. todo \in Seq(T)
      BY <2>1 DEF TestbedInv
    <3> HIDE DEF T
    <3>4. <<c>> \o Tail(todo) \in Seq(T)
      BY <2>1, <3>2, <3>3
    <3>5. todo' \in Seq(TodoSet(args'.line))
      BY <2>3, <3>1, <3>4 DEF T
    <3> QED BY <2>1, <2>3, <3>5, <1>3 DEF TestbedInv, No
  <2> QED BY <1>6, <2>2, <2>3 DEF AskOldDocker
<1>7. CASE AnswerSudo
  <2>1. /\ args.status = "running" /\ todo # <<>> /\ asked' = No
        /\ Head(todo).do = "command" /\ ~args.line.sudo_consent
    BY <1>7 DEF AnswerSudo, TestbedInv, No
  <2>2. SudoIsConfirmed' /\ (Proceed \/ Exit)
    <3>1. CASE Run(TRUE)
      BY <2>1, <3>1, Recorded DEF Run, TestbedInv
    <3>2. CASE Exit /\ UNCHANGED ran
      BY <3>2, <1>3
    <3> QED BY <1>7, <3>1, <3>2 DEF AnswerSudo, Run
  <2> QED BY <2>1, <2>2, Shortened
<1>8. CASE ExecuteCommand
  <2>1. args.status = "running" /\ todo # <<>> /\ asked = No /\ asked' = No
    BY <1>8 DEF ExecuteCommand, Now
  <2>2. SudoIsConfirmed' /\ (Proceed \/ Exit)
    <3>1. CASE ~Head(todo).sudo /\ Run(FALSE)
      BY <3>1, Recorded DEF Run, TestbedInv
    <3>2. CASE Exit /\ UNCHANGED ran
      BY <3>2, <1>3
    <3>3. Asks(Head(todo).sudo) \/ RefusesUnasked(Head(todo).sudo) \/ ~Head(todo).sudo
      BY Zenon DEF Asks, RefusesUnasked
    <3> QED BY <1>8, <3>1, <3>2, <3>3 DEF ExecuteCommand
  <2> QED BY <2>1, <2>2, Shortened
<1>9. CASE CreateCertificates \/ GenerateDhparam \/ WriteCurrentlyRunning
  <2>1. /\ args.status = "running" /\ todo # <<>> /\ asked = No /\ asked' = No /\ UNCHANGED ran
        /\ Proceed \/ Exit
    BY <1>9 DEF CreateCertificates, GenerateDhparam, WriteCurrentlyRunning, Now, tools
  <2> QED BY <2>1, <1>3, Shortened
<1>10. CASE Build \/ Up \/ Down
  <2>1. /\ args.status = "running" /\ todo # <<>> /\ asked = No /\ asked' = No
        /\ Head(todo).do \in {"build", "up", "down"} /\ (UNCHANGED ran \/ Records(FALSE))
        /\ Proceed \/ Exit
    BY <1>10 DEF Build, Up, Down, Now
  <2>2. \/ Head(todo).do = "build" /\ args.line.build # No
        \/ Head(todo).do = "up" /\ args.line.start # No
        \/ Head(todo).do = "down" /\ args.line.stop
    BY <1>0, <2>1, TodoIs
  <2>3. SudoIsConfirmed'
    BY <2>1, <2>2, <1>3, Recorded DEF TestbedInv
  <2> QED BY <2>1, <2>3, Shortened
<1>11. CASE Return
  BY <1>11, <1>3 DEF Return, TestbedInv, tools, No
<1> QED
  BY <1>1, <1>2, <1>4, <1>5, <1>6, <1>7, <1>8, <1>9, <1>10, <1>11 DEF TestbedNext, InvocationProceeds

---------------------------------------------------------------------------
\* The files generate_certificate.py writes.
FileSet == {"myserver.pem", "myserver-selfsigned.der", "ca_application.pem",
            "ca_application.der", "myserver.csr", "myserver.der"}

\* By where the generator is, what it has read fits what is in its files: it may have
\* been started again over files of earlier runs, whole ones and torn ones.
GeneratedSoFar ==
    /\ files = [f \in FileSet |-> files[f]]
    /\ generating \in {"ca_application.pem", "ca_application.der", "myserver.csr", "myserver.der", "complete"}
          => files["myserver-selfsigned.der"].key = files["myserver.pem"]
    /\ generating \in {"ca_application.der", "myserver.csr", "myserver.der", "complete"}
          => files["ca_application.pem"] = NewKey("ca")
    /\ generating \in {"myserver.csr", "myserver.der", "complete"}
          => files["ca_application.der"] = AppCertificate(NewKey("ca"))
    /\ generating \in {"myserver.der", "complete"}
          => files["myserver.csr"].key = files["myserver.pem"]

\* The files fit as far as the generator has come, and when it has come to its end.
GeneratorInv == GeneratedSoFar /\ FilesBelongTogether

\* The set is the range of the sequence of file names.
LEMMA FileSetIs == {FileNames[n] : n \in DOMAIN FileNames} = FileSet
BY DEF FileNames, FileSet

\* One step for each file that is written; every one may raise before it, or tear it.
LEMMA GeneratorStep ==
    ASSUME GeneratorInv, [GeneratorNext]_generator
    PROVE  GeneratorInv'
<1> USE DEF GeneratorInv, GeneratedSoFar, FilesBelongTogether, Whole
<1>1. CASE UNCHANGED generator
  BY <1>1 DEF generator, NewKey
<1>2. CASE StartGenerator
  <2>1. generating' = "myserver.pem" /\ UNCHANGED files
    BY <1>2 DEF StartGenerator, FileNames
  <2> QED BY <2>1
<1>3. CASE Raises
  BY <1>3 DEF Raises
<1>4. ASSUME NEW name \in FileSet, NEW reads, NEW content, NEW next, Writes(name, reads, content, next)
      PROVE  /\ files' = [f \in FileSet |-> files'[f]]
             /\ \A f \in FileSet \ {name} : files'[f] = files[f]
             /\ generating = name /\ UNCHANGED generation
             /\ \/ files'[name] = content /\ generating' = next
                \/ files'[name] = Torn /\ generating' = "ended"
  BY <1>4 DEF Writes
<1>5. CASE GeneratePrivateKeyForMyserver
  <2> DEFINE content == NewKey("myserver")
  <2> HIDE DEF content
  <2>1. Writes("myserver.pem", {}, content, "myserver-selfsigned.der")
    BY <1>5 DEF GeneratePrivateKeyForMyserver, content
  <2> QED BY <2>1, <1>4 DEF FileSet
<1>6. CASE GenerateSelfSignedCertificate
  <2> DEFINE content == AppCertificate(files["myserver.pem"])
  <2>1. content.key = files["myserver.pem"]
    BY DEF AppCertificate, Signed
  <2> HIDE DEF content
  <2>2. Writes("myserver-selfsigned.der", {"myserver.pem"}, content, "ca_application.pem")
    BY <1>6 DEF GenerateSelfSignedCertificate, content
  <2> QED BY <2>1, <2>2, <1>4 DEF FileSet
<1>7. CASE Writes("ca_application.pem", {}, NewKey("ca"), "ca_application.der")
  BY <1>7, <1>4 DEF FileSet, NewKey
<1>8. CASE Writes("ca_application.der", {}, AppCertificate(NewKey("ca")), "myserver.csr")
  BY <1>8, <1>4 DEF FileSet, NewKey, AppCertificate, Signed
<1>9. CASE GenerateCsr
  <2> DEFINE content == [key |-> files["myserver.pem"]]
  <2>1. content.key = files["myserver.pem"]
    OBVIOUS
  <2> HIDE DEF content
  <2>2. Writes("myserver.csr", {"myserver.pem"}, content, "myserver.der")
    BY <1>9 DEF GenerateCsr, content
  <2> QED BY <2>1, <2>2, <1>4 DEF FileSet, NewKey, AppCertificate, Signed
<1>10. CASE SignCsr
  <2> DEFINE content == Signed(files["myserver.csr"].key, files["ca_application.pem"],
                               files["ca_application.der"].key)
  <2>1. /\ content.key = files["myserver.csr"].key
        /\ content.by = files["ca_application.pem"]
        /\ content.issuer = files["ca_application.der"].key
    BY DEF Signed
  <2>2. AppCertificate(NewKey("ca")).key = NewKey("ca")
    BY DEF AppCertificate, Signed
  <2> HIDE DEF content
  <2>3. Writes("myserver.der", {"ca_application.der", "ca_application.pem", "myserver.csr"}, content,
               "complete")
    BY <1>10 DEF SignCsr, content
  <2>4. UNCHANGED <<NewKey("ca"), AppCertificate(NewKey("ca"))>>
    BY <2>3, <1>4 DEF FileSet, NewKey, AppCertificate, Signed
  <2> QED BY <2>1, <2>2, <2>3, <2>4, <1>4 DEF FileSet
<1> QED
  BY <1>1, <1>2, <1>3, <1>5, <1>6, <1>7, <1>8, <1>9, <1>10
     DEF GeneratorNext, GenerateApplicationgroupCa

---------------------------------------------------------------------------
\* Where in what is on its way to the client the program changes.
Changes == {n \in DOMAIN log : log[n].type = "CONFIG_CHANGE"}

\* After the last change of program that is on its way, everything on its way was
\* logged by the program the switch runs now, or is followed by a lost announcement.
LogOfProgram ==
    /\ log \in Seq(Messages) /\ program \in Nat
    /\ subscriber \in [at : {"off", "connecting", "asking", "named", "receiving", "reloading"},
                       json : BOOLEAN, thrift : BOOLEAN]
    /\ ~Listening => log = <<>>
    /\ \A n \in DOMAIN log : (\A c \in Changes : c < n) => log[n].cut \/ log[n].of = program

\* A client that has loaded names, with no change on its way, has the names of the
\* program the switch runs, unless it was misled.
NamesOfProgram ==
    \/ subscriber.at = "named"
    \/ subscriber.at = "receiving" /\ Changes = {}
    => Misled \/ names = Programs[program]

\* What the program that logged an event calls it.
Named(p) == NameIn(Programs[p.event.of], MsgTypes[p.event.type].kind, p.event.id)
\* A printed name is right, or the client knows why it may not be.
PrintedInTime(p) == p # Unnamed => p.misled \/ p.overtaken \/ p.name = Named(p)

\* What is on its way, what the client knows, and what it printed.
EventLogInv == LogOfProgram /\ NamesOfProgram /\ PrintedInTime(printed)

\* The invariant gives what the run checks.
LEMMA EventLogInvImplies == EventLogInv => NamesCatchUp
BY DEF EventLogInv, LogOfProgram, NamesOfProgram, PrintedInTime, Named, NamesCatchUp, Changes

\* The message that announces a new program is one the client can unpack.
LEMMA ConfigChangeKnown == "CONFIG_CHANGE" \in DOMAIN MsgTypes
<1>1. "CONFIG_CHANGE" \in DOMAIN ConfigChange
  BY DEF ConfigChange
<1> HIDE DEF ConfigChange
<1> QED BY <1>1 DEF MsgTypes

\* A message is appended: of the program, or a change of it.
LEMMA LogGrows ==
    ASSUME LogOfProgram, NEW m \in Messages, log' = Append(log, m), UNCHANGED subscriber,
           Listening, program' \in Nat,
           m.type = "CONFIG_CHANGE" \/ (m.of = program' /\ UNCHANGED program)
    PROVE  /\ LogOfProgram'
           /\ Changes' = {} => Changes = {} /\ UNCHANGED program
<1> USE DEF LogOfProgram, Changes
<1>1. /\ log' \in Seq(Messages) /\ Len(log') = Len(log) + 1
      /\ \A n \in DOMAIN log : n \in DOMAIN log' /\ log'[n] = log[n]
      /\ log'[Len(log) + 1] = m
      /\ DOMAIN log' = DOMAIN log \union {Len(log) + 1} /\ Len(log) \in Nat
      /\ DOMAIN log = 1 .. Len(log)
  OBVIOUS
<1>2. (m.type = "CONFIG_CHANGE" => Len(log) + 1 \in Changes') /\ Changes \subseteq Changes'
  BY <1>1
<1>3. ASSUME NEW n \in DOMAIN log', \A c \in Changes' : c < n
      PROVE  log'[n].cut \/ log'[n].of = program'
  <2>1. m.type # "CONFIG_CHANGE"
    BY <1>1, <1>2, <1>3
  <2>2. CASE n = Len(log) + 1
    BY <2>1, <2>2, <1>1
  <2>3. CASE n \in DOMAIN log
    BY <2>1, <2>3, <1>1, <1>2, <1>3
  <2> QED BY <2>2, <2>3, <1>1
<1>4. Changes' = {} => Changes = {} /\ UNCHANGED program
  BY <1>2
<1> QED BY <1>1, <1>3, <1>4 DEF Listening

\* What is on its way is marked, all of it.
LEMMA LogCut ==
    ASSUME LogOfProgram, log' = [n \in DOMAIN log |-> [log[n] EXCEPT !.cut = TRUE]],
           UNCHANGED subscriber, program' \in Nat
    PROVE  LogOfProgram'
<1> DEFINE types == DOMAIN MsgTypes \union {"DIGEST"}
<1>1. log \in Seq(Messages) /\ Messages = [type : types, id : Nat, ints : Nat, of : Nat, cut : BOOLEAN]
  BY DEF LogOfProgram, Messages
<1> HIDE DEF types
<1>2. \A x \in Messages : [x EXCEPT !.cut = TRUE] \in Messages /\ [x EXCEPT !.cut = TRUE].cut
  BY <1>1
<1>3. DOMAIN log' = DOMAIN log /\ DOMAIN log = 1 .. Len(log) /\ Len(log) \in Nat
  BY <1>1
<1>4. ASSUME NEW n \in DOMAIN log' PROVE log'[n] \in Messages /\ log'[n].cut
  <2> DEFINE M == Messages
  <2>0. log \in Seq(M) /\ n \in DOMAIN log
    BY <1>1, <1>3
  <2>1. PICK x \in M : x = log[n]
    <3> HIDE DEF M
    <3> QED BY <2>0
  <2>2. log'[n] = [x EXCEPT !.cut = TRUE]
    BY <1>3, <2>1, Zenon
  <2> QED BY <1>2, <2>1, <2>2
<1>5. log' \in Seq(Messages)
  <2> DEFINE M == Messages
  <2>1. \A n \in DOMAIN log' : log'[n] \in M
    BY <1>4
  <2>2. PICK l \in Nat : l = Len(log)
    BY <1>3
  <2>3. log' = [n \in 1 .. l |-> log'[n]]
    BY <1>3, <2>2, Zenon
  <2> HIDE DEF M
  <2>4. \A n \in 1 .. l : log'[n] \in M
    BY <2>1, <1>3, <2>2
  <2>6. PICK f : f = log'
    OBVIOUS
  <2>7. f = [n \in 1 .. l |-> f[n]] /\ \A n \in 1 .. l : f[n] \in M
    BY <2>3, <2>4, <2>6
  <2>8. [n \in 1 .. l |-> f[n]] \in Seq(M)
    BY <2>7, <2>2
  <2>5. log' \in Seq(M)
    BY <2>6, <2>7, <2>8
  <2> QED BY <2>5 DEF M
<1>6. ~Listening' => log' = <<>>
  BY <1>3 DEF LogOfProgram, Listening
<1> QED BY <1>4, <1>5, <1>6 DEF LogOfProgram

\* A message is taken: the others keep their order.
LEMMA LogShrinks ==
    ASSUME LogOfProgram, log # <<>>, log' = Tail(log), UNCHANGED program, Listening',
           subscriber' \in [at : {"receiving", "reloading"}, json : BOOLEAN, thrift : BOOLEAN]
    PROVE  /\ LogOfProgram'
           /\ Changes' = {n \in DOMAIN log' : n + 1 \in Changes}
           /\ Changes' = {} /\ Head(log).type # "CONFIG_CHANGE" => Changes = {}
<1> USE DEF LogOfProgram, Changes
<1>1. /\ log' \in Seq(Messages) /\ Len(log') = Len(log) - 1 /\ Len(log) \in Nat \ {0}
      /\ DOMAIN log = 1 .. Len(log) /\ DOMAIN log' = 1 .. Len(log')
      /\ \A n \in DOMAIN log' : n + 1 \in DOMAIN log /\ log'[n] = log[n + 1]
      /\ Head(log) = log[1]
  OBVIOUS
<1>2. Changes' = {n \in DOMAIN log' : n + 1 \in Changes}
  BY <1>1
<1>3. ASSUME NEW c \in Changes, c # 1
      PROVE  c - 1 \in Changes'
  BY <1>1, <1>3, <1>2
<1>4. ASSUME NEW n \in DOMAIN log', \A c \in Changes' : c < n
      PROVE  log'[n].cut \/ log'[n].of = program'
  <2>1. ASSUME NEW c \in Changes PROVE c < n + 1
    <3>1. c \in Nat /\ n \in Nat \ {0}
      BY <1>1
    <3>2. CASE c # 1
      <4>1. c - 1 < n
        BY <1>3, <1>4, <3>2
      <4> QED BY <4>1, <3>1
    <3> QED BY <3>1, <3>2
  <2> QED BY <2>1, <1>1
<1>5. Changes' = {} /\ Head(log).type # "CONFIG_CHANGE" => Changes = {}
  <2> SUFFICES ASSUME Changes' = {}, Head(log).type # "CONFIG_CHANGE", NEW c \in Changes PROVE FALSE
    OBVIOUS
  <2>1. c = 1
    BY <1>3
  <2> QED BY <2>1, <1>1
<1> QED BY <1>1, <1>2, <1>4, <1>5

\* Every step of the switch and of its client keeps the invariant.
LEMMA EventLogStep ==
    ASSUME EventLogInv, [EventLogNext]_eventlog
    PROVE  EventLogInv'
<1> USE EventLogAssumption DEF EventLogInv
<1>1. CASE UNCHANGED eventlog
  BY <1>1 DEF eventlog, LogOfProgram, NamesOfProgram, PrintedInTime, Named, Changes, Misled, Listening
<1>2. UNCHANGED printed => PrintedInTime(printed)'
  BY DEF PrintedInTime, Named
<1>3. ASSUME NEW p \in DOMAIN Programs, NEW m \in Logged[p], LogEvent(m)
      PROVE  EventLogInv'
  <2>1. PICK e : e = [m EXCEPT !.of = program, !.cut = FALSE] /\ e \in Messages /\ e.of = program
    <3> DEFINE types == DOMAIN MsgTypes \union {"DIGEST"}
    <3>1. m \in Messages /\ program \in Nat
          /\ Messages = [type : types, id : Nat, ints : Nat, of : Nat, cut : BOOLEAN]
      BY <1>3 DEF Messages, LogOfProgram
    <3> HIDE DEF types
    <3>2. PICK e : e = [m EXCEPT !.of = program, !.cut = FALSE]
      OBVIOUS
    <3>3. e = [type |-> m.type, id |-> m.id, ints |-> m.ints, of |-> program, cut |-> FALSE]
      BY <3>1, <3>2
    <3>4. e.of = program
      BY <3>3
    <3>5. e \in Messages
      BY <3>1, <3>3
    <3> QED BY <3>2, <3>4, <3>5
  <2>2. LogOfProgram' /\ (Changes' = {} => Changes = {} /\ UNCHANGED program)
    <3>1. CASE log' = Append(log, e)
      BY <2>1, <3>1, <1>3, LogGrows DEF LogEvent, LogOfProgram
    <3>2. CASE log' = log
      BY <3>2, <1>3 DEF LogEvent, LogOfProgram, Changes, Listening
    <3> QED BY <2>1, <3>1, <3>2, <1>3 DEF LogEvent
  <2>3. NamesOfProgram'
    BY <2>2, <1>3 DEF NamesOfProgram, LogEvent, Misled
  <2> QED BY <2>2, <2>3, <1>2, <1>3 DEF LogEvent
<1>4. CASE ExchangeProgram
  <2> DEFINE m == Announcement
  <2>1. program' = program + 1 /\ program \in Nat /\ UNCHANGED subscriber
    BY <1>4 DEF ExchangeProgram, LogOfProgram
  <2>2. program' \in Nat /\ program + 1 \in Nat /\ m.type = "CONFIG_CHANGE"
    BY <2>1 DEF Announcement
  <2>3. m \in Messages
    BY <2>2, ConfigChangeKnown DEF Messages, Announcement
  <2> HIDE DEF m
  <2>4. \/ Listening /\ log' = Append(log, m) /\ UNCHANGED missed
        \/ /\ log' = [n \in DOMAIN log |-> [log[n] EXCEPT !.cut = TRUE]]
           /\ missed' = (missed \/ Listening \/ subscriber.at = "named")
    BY <1>4 DEF ExchangeProgram, m
  <2>5. CASE Listening /\ log' = Append(log, m) /\ UNCHANGED missed
    <3>1. LogOfProgram' /\ (Changes' = {} => Changes = {} /\ UNCHANGED program)
      BY <2>1, <2>2, <2>3, <2>4, <2>5, LogGrows
    <3>2. NamesOfProgram'
      BY <3>1, <2>5, <1>4 DEF NamesOfProgram, ExchangeProgram, Misled, Listening
    <3> QED BY <3>1, <3>2, <1>2, <1>4 DEF ExchangeProgram
  <2>6. CASE /\ log' = [n \in DOMAIN log |-> [log[n] EXCEPT !.cut = TRUE]]
             /\ missed' = (missed \/ Listening \/ subscriber.at = "named")
    <3>1. LogOfProgram'
      BY <2>1, <2>2, <2>6, LogCut
    <3>2. NamesOfProgram'
      BY <2>1, <2>6 DEF NamesOfProgram, Misled, Listening
    <3> QED BY <3>1, <3>2, <1>2, <1>4 DEF ExchangeProgram
  <2> QED BY <2>4, <2>5, <2>6
<1>5. ASSUME NEW json \in BOOLEAN, NEW socket \in BOOLEAN, StartClient(json, socket)
      PROVE  EventLogInv'
  <2>1. subscriber' \in [at : {"named", "connecting"}, json : BOOLEAN, thrift : BOOLEAN]
        /\ (subscriber'.at = "named" => subscriber'.json)
    BY <1>5 DEF StartClient
  <2>2. LogOfProgram'
    BY <2>1, <1>5 DEF StartClient, LogOfProgram, Changes, Listening
  <2>3. NamesOfProgram'
    BY <2>1 DEF NamesOfProgram, Misled
  <2> QED BY <2>2, <2>3, <1>2, <1>5 DEF StartClient
<1>6. CASE ConnectThrift
  <2>1. LogOfProgram'
    BY <1>6 DEF ConnectThrift, GoesTo, LogOfProgram, Changes, Listening
  <2>2. NamesOfProgram'
    BY <1>6 DEF ConnectThrift, GoesTo, NamesOfProgram, LogOfProgram, Misled
  <2> QED BY <2>1, <2>2, <1>2, <1>6 DEF ConnectThrift
<1>7. CASE GetJsonConfig
  <2>1. LogOfProgram'
    BY <1>7 DEF GetJsonConfig, GoesTo, LogOfProgram, Changes, Listening
  <2>2. NamesOfProgram'
    BY <1>7 DEF GetJsonConfig, GoesTo, LoadNames, NamesOfProgram, LogOfProgram
  <2> QED BY <2>1, <2>2, <1>2, <1>7 DEF GetJsonConfig
<1>8. CASE SubscribeLog
  <2>1. LogOfProgram'
    BY <1>8 DEF SubscribeLog, GoesTo, LogOfProgram, Changes, Listening
  <2>2. NamesOfProgram'
    BY <1>8 DEF SubscribeLog, GoesTo, NamesOfProgram, LogOfProgram, Misled
  <2> QED BY <2>1, <2>2, <1>2, <1>8 DEF SubscribeLog
<1>9. ASSUME NEW m \in Range(log), Received(m), UNCHANGED <<program, subscriber, names, missed>>,
             m.type # "CONFIG_CHANGE"
      PROVE  LogOfProgram' /\ NamesOfProgram' /\ (Changes' = {} => Changes = {})
  <2>1. LogOfProgram' /\ (Changes' = {} => Changes = {})
    BY <1>9, LogShrinks DEF Received, LogOfProgram, Listening
  <2>2. NamesOfProgram'
    BY <2>1, <1>9 DEF NamesOfProgram, Misled, Received
  <2> QED BY <2>1, <2>2
<1>10. CASE UnknownMessage
  <2>1. PICK m \in Range(log) :
            Received(m) /\ m.type \notin DOMAIN MsgTypes
            /\ UNCHANGED <<program, subscriber, names, missed, printed>>
    BY <1>10 DEF UnknownMessage
  <2>2. m.type # "CONFIG_CHANGE"
    BY <2>1, ConfigChangeKnown
  <2> QED BY <2>1, <2>2, <1>2, <1>9
<1>11. CASE PrintMessage
  <2>1. PICK m \in Range(log) :
            /\ Received(m) /\ m.type # "CONFIG_CHANGE"
            /\ printed' = [event |-> m, name |-> NameLookup(MsgTypes[m.type].kind, m.id),
                           misled |-> Misled \/ m.cut,
                           overtaken |-> \E later \in Range(Tail(log)) : later.type = "CONFIG_CHANGE"]
            /\ UNCHANGED <<program, subscriber, names, missed>>
    BY <1>11 DEF PrintMessage
  <2>2. LogOfProgram' /\ NamesOfProgram' /\ (Changes' = {} => Changes = {})
    BY <2>1, <1>9
  <2>3. CASE \E later \in Range(Tail(log)) : later.type = "CONFIG_CHANGE"
    <3>1. printed'.overtaken
      BY <2>1, <2>3, Zenon
    <3> QED BY <3>1, <2>2, Zenon DEF PrintedInTime
  <2>4. CASE Misled \/ m.cut
    <3>1. printed'.misled
      BY <2>1, <2>4, Zenon
    <3> QED BY <3>1, <2>2, Zenon DEF PrintedInTime
  <2>5. CASE ~Misled /\ ~m.cut /\ ~\E later \in Range(Tail(log)) : later.type = "CONFIG_CHANGE"
    <3>1. \A n \in DOMAIN log' : log'[n] \in Range(Tail(log))
      BY <2>1 DEF Received, Range
    <3>2. Changes' = {}
      BY <3>1, <2>5 DEF Changes
    <3>3. names = Programs[program] /\ Changes = {}
      BY <3>2, <2>1, <2>2, <2>5 DEF NamesOfProgram, Received
    <3>7. log # <<>> /\ m = Head(log)
      BY <2>1 DEF Received
    <3>8. 1 \in DOMAIN log /\ log[1] = m
      <4> DEFINE M == Messages
      <4>1. log \in Seq(M)
        BY DEF LogOfProgram
      <4> HIDE DEF M
      <4> QED BY <4>1, <3>7
    <3>9. log[1].cut \/ log[1].of = program
      BY <3>3, <3>8 DEF LogOfProgram
    <3>4. m.of = program
      BY <3>8, <3>9, <2>5
    <3>5. printed'.event = m /\ printed'.name = NameIn(names, MsgTypes[m.type].kind, m.id)
      BY <2>1 DEF NameLookup
    <3>6. printed'.name = Named(printed)'
      BY <3>3, <3>4, <3>5 DEF Named
    <3> QED BY <3>6, <2>2, Zenon DEF PrintedInTime
  <2> QED BY <2>3, <2>4, <2>5
<1>12. ASSUME subscriber' = [subscriber EXCEPT !.at = "off"], log' = <<>>,
              UNCHANGED <<program, names, missed, printed>>
       PROVE  EventLogInv'
  <2>1. LogOfProgram'
    BY <1>12 DEF LogOfProgram, Changes
  <2>2. NamesOfProgram'
    BY <1>12 DEF NamesOfProgram, LogOfProgram
  <2> QED BY <2>1, <2>2, <1>2, <1>12
<1>13. CASE UnpackFails
  BY <1>13, <1>12 DEF UnpackFails, GoesTo
<1>14. CASE ReceiveConfigChange
  <2>1. CASE GoesTo("reloading") /\ log' = Tail(log)
    <3>1. PICK m \in Range(log) : m = Head(log) /\ UNCHANGED <<program, names, missed, printed>>
      BY <1>14 DEF ReceiveConfigChange
    <3>2. log # <<>>
      BY <3>1 DEF Range
    <3>3. subscriber' \in [at : {"receiving", "reloading"}, json : BOOLEAN, thrift : BOOLEAN]
          /\ subscriber'.at = "reloading"
      BY <2>1 DEF GoesTo, LogOfProgram
    <3>4. LogOfProgram'
      BY <3>1, <3>2, <3>3, <2>1, LogShrinks DEF Listening
    <3>5. NamesOfProgram'
      BY <3>3 DEF NamesOfProgram
    <3> QED BY <3>1, <3>4, <3>5, <1>2
  <2>2. CASE GoesTo("off") /\ log' = <<>>
    BY <1>14, <2>2, <1>12 DEF ReceiveConfigChange, GoesTo
  <2> QED BY <1>14, <2>1, <2>2 DEF ReceiveConfigChange
<1>15. CASE JsonInit
  <2>1. LogOfProgram'
    <3>1. CASE log' = log /\ subscriber' = [subscriber EXCEPT !.at = "receiving", !.json = FALSE]
      BY <1>15, <3>1 DEF JsonInit, LogOfProgram, Changes, Listening
    <3>2. CASE log' = <<>> /\ GoesTo("off")
      BY <1>15, <3>2 DEF JsonInit, GoesTo, LogOfProgram, Changes
    <3> QED BY <1>15, <3>1, <3>2 DEF JsonInit
  <2>2. NamesOfProgram'
    <3>1. CASE names' = Programs[program]
      BY <1>15, <3>1 DEF JsonInit, NamesOfProgram
    <3>2. CASE GoesTo("off")
      BY <3>2 DEF GoesTo, NamesOfProgram, LogOfProgram
    <3> QED BY <1>15, <3>1, <3>2 DEF JsonInit, LoadNames
  <2> QED BY <2>1, <2>2, <1>2, <1>15 DEF JsonInit
<1> QED
  BY <1>1, <1>3, <1>4, <1>5, <1>6, <1>7, <1>8, <1>10, <1>11, <1>13, <1>14, <1>15 DEF EventLogNext

---------------------------------------------------------------------------
\* What is held of the accounts is saved with them, under one password, and the
\* default account is held.
WalletInv ==
    /\ created \in Nat
    /\ held \in Wallets /\ (held.all # {} => held.first \in held.all)
    /\ saved # NoWallet =>
          saved \in [wallet : Wallets, password : Passwords] /\ saved.wallet.first \in saved.wallet.all
    /\ held.all # {} => saved # NoWallet /\ held.all \subseteq saved.wallet.all
    /\ default # NoWallet => default \in held.all

\* A subscription, and a line on the page.
Subscription == [name : EventNames, since : Nat, arriving : Seq(Nat)]
Line == [name : {"error"}] \union [name : EventNames, event : Nat]

\* The shape of the feed.
FeedTypes ==
    /\ mined \in Seq(EventNames) /\ subscriptions \in Seq(Subscription) /\ shown \in Seq(Line)
    /\ connected \in BOOLEAN

\* Timers and subscriptions together name each event at most once, in their order.
SubscribedOnce ==
    /\ timers \in {<<>>, <<"revokedCertificate">>, <<"sendCertificate", "revokedCertificate">>}
    /\ ~done => timers = <<>> /\ subscriptions = <<>>
    /\ timers = <<"sendCertificate", "revokedCertificate">> => subscriptions = <<>>
    /\ timers = <<"revokedCertificate">> =>
          \A i \in DOMAIN subscriptions : subscriptions[i].name = "sendCertificate"
    /\ \A i, j \in DOMAIN subscriptions : subscriptions[i].name = subscriptions[j].name => i = j

\* Every line is an error or has its subscription; a lost connection brings
\* nothing more; and nobody subscribed after the last event.
LinesOfSubscriptions ==
    /\ \A k \in DOMAIN shown :
          shown[k].name = "error" \/ \E i \in DOMAIN subscriptions : subscriptions[i].name = shown[k].name
    /\ \A i \in DOMAIN subscriptions :
          /\ ~connected => subscriptions[i].arriving = <<>>
          /\ subscriptions[i].since <= Len(mined)

\* The feed: its shape, who subscribed, whose lines are shown, and that they are faithful.
FeedInv == FeedTypes /\ SubscribedOnce /\ LinesOfSubscriptions /\ FeedIsFaithful

\* Creating, loading, rendering and reloading keep the wallet invariant.
LEMMA WalletStep ==
    ASSUME WalletInv, [PageNext]_page
    PROVE  WalletInv'
<1> USE DEF WalletInv, storage, accounts
<1>1. CASE UNCHANGED <<created, saved, held, default>>
  BY <1>1
<1>2. ASSUME NEW pwd \in Passwords, Create(pwd)
      PROVE  WalletInv'
  <2> DEFINE new == [first |-> created + 1, all |-> {created + 1}]
  <2>1. /\ created' = created + 1 /\ UNCHANGED default
        /\ held' = Adding(held, new) /\ saved' = [wallet |-> held', password |-> pwd]
    BY <1>2 DEF Create
  <2>2. held'.all = held.all \union {created + 1} /\ held' \in Wallets /\ held'.first \in held'.all
    BY <2>1 DEF Adding, Wallets
  <2>3. /\ saved' \in [wallet : Wallets, password : Passwords] /\ saved'.wallet = held'
    BY <2>1, <2>2
  <2>4. saved' # NoWallet
    BY <2>3, SessionAssumption
  <2>5. created' \in Nat /\ (default' # NoWallet => default' \in held'.all)
    BY <2>1, <2>2
  <2>6. saved'.wallet.first \in saved'.wallet.all /\ held'.all \subseteq saved'.wallet.all
    BY <2>2, <2>3
  <2> QED BY <2>2, <2>3, <2>4, <2>5, <2>6
<1>3. ASSUME NEW pwd \in Passwords, Load(pwd)
      PROVE  WalletInv'
  <2>1. UNCHANGED <<created, saved>> /\ held'.all # {} /\ default' = held'.first
        /\ held' = IF saved = NoWallet THEN held ELSE Adding(held, saved.wallet)
    BY <1>3 DEF Load
  <2>2. CASE saved = NoWallet
    BY <2>1, <2>2
  <2>3. CASE saved # NoWallet
    <3>1. held' = Adding(held, saved.wallet) /\ saved.wallet \in Wallets
      BY <2>1, <2>3
    <3>2. /\ held'.all = held.all \union saved.wallet.all
          /\ held' \in Wallets /\ held'.first \in held'.all
      BY <3>1, <2>3 DEF Adding, Wallets
    <3> QED BY <2>1, <2>3, <3>2
  <2> QED BY <2>2, <2>3
<1>4. CASE ReloadPage
  BY <1>4 DEF ReloadPage, NoAccount, Wallets
<1>5. \/ UNCHANGED page \/ BalanceArrives \/ BalanceFails \/ Render \/ SubscribeEvent
      \/ (\E name \in EventNames : Emit(name))
      \/ (\E i \in DOMAIN subscriptions : PrintEvent(i))
      \/ ConnectionLost
      => UNCHANGED <<created, saved, held, default>>
  BY DEF page, BalanceArrives, BalanceFails, Render, SubscribeEvent, Emit, PrintEvent, ConnectionLost
<1> QED
  BY <1>1, <1>2, <1>3, <1>4, <1>5 DEF PageNext

---------------------------------------------------------------------------
\* If nothing but errors are printed, what a subscription has printed stays the same.
LEMMA OnlyErrorsPrinted ==
    ASSUME NEW s \in Subscription, DOMAIN shown \subseteq DOMAIN shown',
           \A k \in DOMAIN shown : shown'[k] = shown[k],
           \A k \in DOMAIN shown' \ DOMAIN shown : shown'[k].name = "error"
    PROVE  Lines(s)' = Lines(s) /\ Printed(s)' = Printed(s)
<1>1. s.name # "error"
  BY DEF Subscription, EventNames
<1>2. Lines(s)' = Lines(s)
  BY <1>1 DEF Lines
<1>3. \A k \in Lines(s) : k \in DOMAIN shown
  BY DEF Lines
<1> QED BY <1>2, <1>3, Zenon DEF Printed

\* A feed is faithful when every subscription is, looked at one by one.
LEMMA EachFaithful ==
    ASSUME \A i \in DOMAIN subscriptions' :
              \E t \in Subscription : t = subscriptions'[i] /\ IsFaithful(t)'
    PROVE  FeedIsFaithful'
<1> SUFFICES ASSUME NEW i \in DOMAIN subscriptions'
             PROVE  IsFaithful(subscriptions[i])'
  BY DEF FeedIsFaithful
<1>1. PICK t \in Subscription : t = subscriptions'[i] /\ IsFaithful(t)'
  OBVIOUS
<1> QED BY <1>1, Zenon DEF IsFaithful, Due, Lines, Printed

\* Nothing that a subscription depends on changes.
LEMMA StillFaithful ==
    ASSUME NEW s \in Subscription, IsFaithful(s), Due(s)' = Due(s), Lines(s)' = Lines(s),
           \A k \in Lines(s) : shown'[k] = shown[k], UNCHANGED connected
    PROVE  IsFaithful(s)'
<1>1. Printed(s)' = Printed(s)
  BY DEF Printed
<1> QED BY <1>1 DEF IsFaithful

\* A step that touches neither events nor lines.
LEMMA FeedUnchanged ==
    ASSUME FeedInv, UNCHANGED <<mined, subscriptions, shown, connected>>, SubscribedOnce'
    PROVE  FeedInv'
<1> QED
  BY DEF FeedInv, FeedTypes, LinesOfSubscriptions, FeedIsFaithful, IsFaithful, Due, Lines, Printed

\* An event is mined: it becomes due for its subscribers, and is on its way to them.
LEMMA EmitStep ==
    ASSUME FeedInv, NEW name \in EventNames, Emit(name)
    PROVE  FeedInv'
<1>1. /\ FeedTypes /\ SubscribedOnce /\ LinesOfSubscriptions /\ FeedIsFaithful
      /\ UNCHANGED <<shown, connected, done, timers>>
      /\ mined' = Append(mined, name) /\ DOMAIN subscriptions' = DOMAIN subscriptions
  BY DEF FeedInv, Emit, subscribing
<1>0. PICK N \in Nat : N = Len(mined) + 1
  BY <1>1 DEF FeedTypes
<1>2. /\ mined' \in Seq(EventNames) /\ Len(mined') = N /\ N \in Nat /\ N = Len(mined) + 1
      /\ DOMAIN mined = 1 .. Len(mined) /\ DOMAIN mined' = DOMAIN mined \union {N}
      /\ mined'[N] = name /\ \A n \in DOMAIN mined : mined'[n] = mined[n] /\ n \in Nat /\ n < N
  BY <1>1, <1>0 DEF FeedTypes
<1>3. ASSUME NEW i \in DOMAIN subscriptions
      PROVE  \E t \in Subscription :
                /\ t = subscriptions'[i] /\ IsFaithful(t)'
                /\ t.name = subscriptions[i].name /\ t.since = subscriptions[i].since
                /\ ~connected => t.arriving = <<>>
  <2>1. PICK s \in Subscription : s = subscriptions[i] /\ IsFaithful(s)
    BY <1>1 DEF FeedTypes, FeedIsFaithful
  <2>2. s.since <= Len(mined) /\ (~connected => s.arriving = <<>>) /\ s.since \in Nat
    BY <1>1, <2>1 DEF LinesOfSubscriptions, Subscription
  <2>3. Lines(s)' = Lines(s) /\ Printed(s)' = Printed(s)
    BY <1>1 DEF Lines, Printed
  <2>4. Due(s)' = Due(s) \union (IF s.name = name THEN {N} ELSE {})
    BY <1>2, <2>2 DEF Due
  <2>5. Due(s) \subseteq DOMAIN mined
    BY DEF Due
  <2>6. subscriptions'[i] = IF connected /\ s.name = name
                            THEN [s EXCEPT !.arriving = Append(@, N)] ELSE s
    BY <2>1, <1>1, <1>2 DEF Emit
  <2>7. CASE connected /\ s.name = name
    <3>a. PICK t : t = [s EXCEPT !.arriving = Append(@, N)]
      OBVIOUS
    <3>1. /\ t \in Subscription /\ t.name = s.name /\ t.since = s.since
          /\ t.arriving = Append(s.arriving, N) /\ s.arriving \in Seq(Nat)
      <4>1. s.arriving \in Seq(Nat) /\ Append(s.arriving, N) \in Seq(Nat)
        BY <1>2 DEF Subscription
      <4> QED BY <4>1, <3>a DEF Subscription
    <3>2. Range(t.arriving) = Range(s.arriving) \union {N}
      <4>1. /\ DOMAIN t.arriving = DOMAIN s.arriving \union {Len(s.arriving) + 1}
            /\ t.arriving[Len(s.arriving) + 1] = N
            /\ \A k \in DOMAIN s.arriving : t.arriving[k] = s.arriving[k]
        BY <3>1, <1>2
      <4> QED BY <4>1 DEF Range
    <3>3. Due(t)' = Due(s)' /\ Lines(t)' = Lines(s) /\ Printed(t)' = Printed(s)
      <4>1. Due(t)' = Due(s)' /\ Lines(t)' = Lines(s)'
        BY <3>1 DEF Due, Lines
      <4>2. Printed(t)' = Printed(s)'
        BY <4>1, Zenon DEF Printed
      <4> QED BY <4>1, <4>2, <2>3
    <3>4. Due(s) = Printed(s) \union Range(s.arriving)
      BY <2>1, <2>7 DEF IsFaithful
    <3>5. \A e \in Printed(s) \union Range(s.arriving) : e < N
      BY <3>4, <2>5, <1>2
    <3>6. \A k, l \in DOMAIN t.arriving : k < l => t.arriving[k] < t.arriving[l]
      <4> SUFFICES ASSUME NEW k \in DOMAIN t.arriving, NEW l \in DOMAIN t.arriving, k < l
                   PROVE  t.arriving[k] < t.arriving[l]
        OBVIOUS
      <4>1. k \in DOMAIN s.arriving /\ t.arriving[k] = s.arriving[k]
        BY <3>1, <1>2
      <4>2. CASE l \in DOMAIN s.arriving
        BY <4>1, <4>2, <3>1, <1>2, <2>1 DEF IsFaithful
      <4>3. CASE t.arriving[l] = N
        BY <4>1, <4>3, <3>5 DEF Range
      <4> QED BY <4>2, <4>3, <3>1, <1>2
    <3>7. Due(t)' = Printed(t)' \union Range(t.arriving)
      BY <3>2, <3>3, <3>4, <2>4, <2>7
    <3>8. \A k, l \in Lines(t)' : k < l => shown'[k].event < shown'[l].event
      BY <3>3, <1>1, <2>1 DEF IsFaithful
    <3>9. \A e \in Printed(t)', n \in Range(t.arriving) : e < n
      BY <3>2, <3>3, <3>5, <2>1 DEF IsFaithful
    <3>10. IsFaithful(t)'
      <4>1. connected'
        BY <2>7, <1>1
      <4> QED BY <4>1, <3>6, <3>7, <3>8, <3>9, Zenon DEF IsFaithful
    <3>11. subscriptions'[i] = t
      BY <2>6, <2>7, <3>a
    <3> QED BY <3>1, <3>10, <3>11, <2>1, <2>7
  <2>8. CASE ~(connected /\ s.name = name)
    <3>1. IsFaithful(s)'
      <4>1. CASE connected
        <5>1. Due(s)' = Due(s)
          BY <2>4, <2>8, <4>1
        <5> QED BY <5>1, <2>1, <2>3, <1>1, StillFaithful
      <4>2. CASE ~connected
        <5>1. Printed(s) \subseteq Due(s) /\ \A e \in Printed(s), n \in Due(s) \ Printed(s) : e < n
          BY <4>2, <2>1 DEF IsFaithful
        <5>2. \A e \in Printed(s) : e < N
          BY <5>1, <2>5, <1>2
        <5> QED BY <5>1, <5>2, <4>2, <2>1, <2>3, <2>4, <1>1 DEF IsFaithful
      <4> QED BY <4>1, <4>2
    <3> QED BY <3>1, <2>1, <2>2, <2>6, <2>8
  <2> QED BY <2>7, <2>8
<1>4. FeedTypes'
  <2>1. \A i \in DOMAIN subscriptions' : subscriptions'[i] \in Subscription
    BY <1>1, <1>3
  <2>2. subscriptions' \in Seq(Subscription)
    <3>1. subscriptions' = [i \in DOMAIN subscriptions |-> subscriptions'[i]]
      BY DEF Emit
    <3>2. DOMAIN subscriptions = 1 .. Len(subscriptions) /\ Len(subscriptions) \in Nat
      BY <1>1 DEF FeedTypes
    <3> QED BY <3>1, <3>2, <2>1, <1>1
  <2> QED BY <2>2, <1>1, <1>2 DEF FeedTypes
<1>5. SubscribedOnce'
  <2>1. \A i \in DOMAIN subscriptions : subscriptions'[i].name = subscriptions[i].name
    BY <1>3
  <2>2. subscriptions = <<>> => subscriptions' = <<>>
    BY <1>1, <1>4 DEF FeedTypes
  <2> QED BY <2>1, <2>2, <1>1 DEF SubscribedOnce
<1>6. LinesOfSubscriptions'
  <2>1. ASSUME NEW i \in DOMAIN subscriptions'
        PROVE  /\ ~connected' => subscriptions'[i].arriving = <<>>
               /\ subscriptions'[i].since <= Len(mined')
    <3>1. subscriptions[i].since <= Len(mined) /\ subscriptions[i].since \in Nat
      <4>1. subscriptions[i] \in Subscription
        BY <1>1 DEF FeedTypes
      <4>2. subscriptions[i].since \in Nat
        BY <4>1 DEF Subscription
      <4> QED BY <4>2, <1>1 DEF LinesOfSubscriptions
    <3> QED BY <3>1, <1>1, <1>2, <1>3
  <2>2. \A k \in DOMAIN shown :
          shown[k].name = "error" \/ \E i \in DOMAIN subscriptions' : subscriptions'[i].name = shown[k].name
    BY <1>1, <1>3 DEF LinesOfSubscriptions
  <2> QED BY <2>1, <2>2, <1>1 DEF LinesOfSubscriptions
<1>7. FeedIsFaithful'
  BY <1>1, <1>3, EachFaithful
<1> QED BY <1>4, <1>5, <1>6, <1>7 DEF FeedInv

\* An event is printed: it moves from what is on its way to what is shown.
LEMMA PrintEventStep ==
    ASSUME FeedInv, NEW i \in DOMAIN subscriptions, PrintEvent(i)
    PROVE  FeedInv'
<1>1. FeedTypes /\ SubscribedOnce /\ LinesOfSubscriptions /\ FeedIsFaithful
  BY DEF FeedInv
<1>2. PICK s \in Subscription : s = subscriptions[i] /\ IsFaithful(s)
  BY <1>1 DEF FeedTypes, FeedIsFaithful
<1>3. /\ s.arriving # <<>> /\ s.arriving \in Seq(Nat) /\ s.name \in EventNames
      /\ UNCHANGED <<done, timers, connected, mined>>
      /\ shown' = Append(shown, [name |-> s.name, event |-> Head(s.arriving)])
      /\ subscriptions' = [subscriptions EXCEPT ![i].arriving = Tail(@)]
  BY <1>2 DEF PrintEvent, subscribing, Subscription
<1>4. PICK e, t, N :
        /\ e = Head(s.arriving) /\ t = [s EXCEPT !.arriving = Tail(@)] /\ N = Len(shown) + 1
  OBVIOUS
<1>5. /\ e \in Nat /\ e = s.arriving[1] /\ Tail(s.arriving) \in Seq(Nat)
      /\ \A k \in DOMAIN Tail(s.arriving) :
            k \in Nat /\ k + 1 \in DOMAIN s.arriving /\ k + 1 > 1 /\ Tail(s.arriving)[k] = s.arriving[k + 1]
      /\ \A k \in DOMAIN s.arriving : k \in Nat /\ (k = 1 \/ k - 1 \in DOMAIN Tail(s.arriving))
      /\ 1 \in DOMAIN s.arriving
  <2>1. PICK q \in Seq(Nat) : q = s.arriving /\ q # <<>> /\ e = Head(q)
    BY <1>3, <1>4
  <2>2. e \in Nat /\ e = q[1] /\ Tail(q) \in Seq(Nat) /\ 1 \in DOMAIN q
    BY <2>1
  <2>3. /\ DOMAIN q = 1 .. Len(q) /\ DOMAIN Tail(q) = 1 .. Len(q) - 1 /\ Len(q) \in Nat \ {0}
        /\ \A k \in DOMAIN Tail(q) : Tail(q)[k] = q[k + 1]
    BY <2>1
  <2>4. /\ \A k \in DOMAIN Tail(q) : k \in Nat /\ k + 1 \in DOMAIN q /\ k + 1 > 1
        /\ \A k \in DOMAIN q : k \in Nat /\ (k = 1 \/ k - 1 \in DOMAIN Tail(q))
    BY <2>3
  <2> QED BY <2>1, <2>2, <2>3, <2>4
<1>6. /\ t \in Subscription /\ t.name = s.name /\ t.since = s.since /\ t.arriving = Tail(s.arriving)
  BY <1>4, <1>5 DEF Subscription
<1>7. /\ subscriptions' \in Seq(Subscription) /\ DOMAIN subscriptions' = DOMAIN subscriptions
      /\ subscriptions'[i] = t
      /\ \A j \in DOMAIN subscriptions : j # i => subscriptions'[j] = subscriptions[j]
  <2>1. subscriptions' = [subscriptions EXCEPT ![i] = t]
    BY <1>2, <1>3, <1>4
  <2> QED BY <2>1, <1>1, <1>6 DEF FeedTypes
<1>8. \A j \in DOMAIN subscriptions :
        /\ subscriptions'[j].name = subscriptions[j].name
        /\ subscriptions'[j].since = subscriptions[j].since
  BY <1>2, <1>6, <1>7
<1>9. /\ shown' \in Seq(Line) /\ N \in Nat /\ N \notin DOMAIN shown
      /\ DOMAIN shown' = DOMAIN shown \union {N}
      /\ shown'[N] = [name |-> s.name, event |-> e]
      /\ \A k \in DOMAIN shown : shown'[k] = shown[k] /\ k \in Nat /\ k < N
  <2>1. [name |-> s.name, event |-> e] \in Line
    BY <1>3, <1>5 DEF Line
  <2>2. shown \in Seq(Line) /\ shown' = Append(shown, [name |-> s.name, event |-> e])
    BY <1>1, <1>3, <1>4 DEF FeedTypes
  <2> QED BY <2>1, <2>2, <1>4
<1>10. connected
  BY <1>1, <1>2, <1>3 DEF LinesOfSubscriptions
<1>11. IsFaithful(t)'
  <2>1. Lines(t)' = Lines(s) \union {N} /\ N \notin Lines(s)
    BY <1>6, <1>9 DEF Lines
  <2>2. \A k \in Lines(s) : shown'[k].event = shown[k].event /\ shown[k].event \in Printed(s) /\ k < N
    BY <1>9 DEF Lines, Printed
  <2>3. shown'[N].event = e
    BY <1>9
  <2>4. Printed(t)' = Printed(s) \union {e}
    <3>1. Printed(t)' = {shown'[k].event : k \in Lines(s) \union {N}}
      BY <2>1 DEF Printed
    <3> QED BY <3>1, <2>2, <2>3 DEF Printed
  <2>5. Due(t)' = Due(s)
    BY <1>3, <1>6 DEF Due
  <2>6. Range(s.arriving) = Range(t.arriving) \union {e}
    <3>1. \A k \in DOMAIN s.arriving : s.arriving[k] \in Range(t.arriving) \union {e}
      <4> SUFFICES ASSUME NEW k \in DOMAIN s.arriving, k # 1
                   PROVE  s.arriving[k] \in Range(t.arriving)
        BY <1>5
      <4>1. k - 1 \in DOMAIN Tail(s.arriving) /\ k \in Nat
        BY <1>5
      <4>2. Tail(s.arriving)[k - 1] = s.arriving[(k - 1) + 1] /\ (k - 1) + 1 = k
        BY <4>1, <1>5
      <4> QED BY <4>1, <4>2, <1>6 DEF Range
    <3>2. \A k \in DOMAIN t.arriving : t.arriving[k] \in Range(s.arriving)
      BY <1>5, <1>6 DEF Range
    <3> QED BY <3>1, <3>2, <1>5 DEF Range
  <2>7. Due(s) = Printed(s) \union Range(s.arriving)
    BY <1>2, <1>10 DEF IsFaithful
  <2>8. \A f \in Printed(s) : f < e
    BY <1>2, <2>6 DEF IsFaithful
  <2>9. \A k, l \in Lines(t)' : k < l => shown'[k].event < shown'[l].event
    <3> SUFFICES ASSUME NEW k \in Lines(s) \union {N}, NEW l \in Lines(s) \union {N}, k < l
                 PROVE  shown'[k].event < shown'[l].event
      BY <2>1
    <3>1. k \in Lines(s)
      BY <2>2, <1>9 DEF Lines
    <3>2. CASE l \in Lines(s)
      BY <3>1, <3>2, <2>2, <1>2 DEF IsFaithful
    <3>3. CASE l = N
      BY <3>1, <3>3, <2>2, <2>3, <2>8
    <3> QED BY <3>2, <3>3
  <2>10. \A k, l \in DOMAIN t.arriving : k < l => t.arriving[k] < t.arriving[l]
    <3> SUFFICES ASSUME NEW k \in DOMAIN t.arriving, NEW l \in DOMAIN t.arriving, k < l
                 PROVE  t.arriving[k] < t.arriving[l]
      OBVIOUS
    <3>1. k + 1 \in DOMAIN s.arriving /\ l + 1 \in DOMAIN s.arriving /\ k + 1 < l + 1
      BY <1>5, <1>6
    <3> QED BY <3>1, <1>2, <1>5, <1>6 DEF IsFaithful
  <2>11. \A f \in Printed(t)', n \in Range(t.arriving) : f < n
    <3> SUFFICES ASSUME NEW f \in Printed(s) \union {e}, NEW k \in DOMAIN t.arriving
                 PROVE  f < t.arriving[k]
      BY <2>4 DEF Range
    <3>1. CASE f = e
      <4>1. k + 1 \in DOMAIN s.arriving /\ 1 < k + 1 /\ t.arriving[k] = s.arriving[k + 1]
        BY <1>5, <1>6
      <4> QED BY <3>1, <4>1, <1>2, <1>5 DEF IsFaithful
    <3>2. CASE f \in Printed(s)
      BY <3>2, <2>6, <1>2 DEF IsFaithful, Range
    <3> QED BY <3>1, <3>2
  <2>12. Due(t)' = Printed(t)' \union Range(t.arriving)
    BY <2>4, <2>5, <2>6, <2>7
  <2>13. connected'
    BY <1>3, <1>10
  <2> QED BY <2>9, <2>10, <2>11, <2>12, <2>13, Zenon DEF IsFaithful
<1>12. ASSUME NEW j \in DOMAIN subscriptions, j # i
       PROVE  \E u \in Subscription : u = subscriptions'[j] /\ IsFaithful(u)'
  <2>1. PICK u \in Subscription : u = subscriptions[j] /\ IsFaithful(u)
    BY <1>1 DEF FeedTypes, FeedIsFaithful
  <2>2. u.name # s.name
    BY <2>1, <1>2, <1>12, <1>1 DEF SubscribedOnce
  <2>3. Lines(u)' = Lines(u) /\ \A k \in Lines(u) : shown'[k] = shown[k]
    BY <2>2, <1>9 DEF Lines
  <2>4. Due(u)' = Due(u)
    BY <1>3 DEF Due
  <2>5. IsFaithful(u)'
    BY <2>1, <2>3, <2>4, <1>3, StillFaithful
  <2> QED BY <2>1, <2>5, <1>7, <1>12
<1>13. FeedIsFaithful'
  <2>1. \A j \in DOMAIN subscriptions' : \E u \in Subscription : u = subscriptions'[j] /\ IsFaithful(u)'
    BY <1>6, <1>7, <1>11, <1>12
  <2> QED BY <2>1, EachFaithful
<1>14. FeedTypes'
  BY <1>1, <1>3, <1>7, <1>9 DEF FeedTypes
<1>15. SubscribedOnce'
  <2>1. subscriptions = <<>> => subscriptions' = <<>>
    BY <1>1, <1>7 DEF FeedTypes
  <2> QED BY <2>1, <1>8, <1>7, <1>1, <1>3 DEF SubscribedOnce
<1>16. LinesOfSubscriptions'
  <2>1. \A j \in DOMAIN subscriptions' : subscriptions'[j].since <= Len(mined')
    BY <1>8, <1>7, <1>3, <1>1 DEF LinesOfSubscriptions
  <2>2. ASSUME NEW k \in DOMAIN shown'
        PROVE  \/ shown'[k].name = "error"
               \/ \E j \in DOMAIN subscriptions' : subscriptions'[j].name = shown'[k].name
    <3>1. CASE k \in DOMAIN shown
      <4>1. shown[k].name = "error" \/ \E j \in DOMAIN subscriptions : subscriptions[j].name = shown[k].name
        BY <3>1, <1>1 DEF LinesOfSubscriptions
      <4> QED BY <3>1, <4>1, <1>7, <1>8, <1>9
    <3>2. CASE k = N
      BY <3>2, <1>6, <1>7, <1>9
    <3> QED BY <3>1, <3>2, <1>9
  <2> QED BY <2>1, <2>2, <1>3, <1>10 DEF LinesOfSubscriptions
<1> QED BY <1>13, <1>14, <1>15, <1>16 DEF FeedInv

\* A timer subscribes: nothing is due yet. Or it fails, and an error is printed.
LEMMA SubscribeEventStep ==
    ASSUME FeedInv, SubscribeEvent
    PROVE  FeedInv'
<1>1. FeedTypes /\ SubscribedOnce /\ LinesOfSubscriptions /\ FeedIsFaithful
      /\ timers # <<>> /\ timers' = Tail(timers) /\ UNCHANGED <<done, connected, mined>>
  BY DEF FeedInv, SubscribeEvent
<1>2. PICK name \in EventNames :
        /\ name = Head(timers)
        /\ \/ timers' = <<>>
           \/ timers' = <<"revokedCertificate">> /\ name = "sendCertificate" /\ subscriptions = <<>>
        /\ \A i \in DOMAIN subscriptions : subscriptions[i].name # name
  <2>1. CASE timers = <<"revokedCertificate">>
    <3>1. Head(timers) = "revokedCertificate" /\ timers' = <<>>
      BY <2>1, <1>1
    <3>2. \A i \in DOMAIN subscriptions : subscriptions[i].name = "sendCertificate"
      BY <2>1, <1>1 DEF SubscribedOnce
    <3> QED BY <3>1, <3>2 DEF EventNames
  <2>2. CASE timers = <<"sendCertificate", "revokedCertificate">>
    <3>1. Head(timers) = "sendCertificate" /\ timers' = <<"revokedCertificate">>
      BY <2>2, <1>1
    <3>2. subscriptions = <<>>
      BY <2>2, <1>1 DEF SubscribedOnce
    <3> QED BY <3>1, <3>2 DEF EventNames
  <2> QED BY <2>1, <2>2, <1>1 DEF SubscribedOnce
<1>3. done
  BY <1>1 DEF SubscribedOnce
<1>4. CASE ~connected
  <2>1. shown' = Append(shown, [name |-> "error"]) /\ UNCHANGED subscriptions
    BY <1>4 DEF SubscribeEvent
  <2>2. /\ shown' \in Seq(Line) /\ DOMAIN shown \subseteq DOMAIN shown'
        /\ \A k \in DOMAIN shown : shown'[k] = shown[k]
        /\ \A k \in DOMAIN shown' \ DOMAIN shown : shown'[k].name = "error"
    <3>1. [name |-> "error"] \in Line
      BY DEF Line
    <3> QED BY <3>1, <2>1, <1>1 DEF FeedTypes
  <2>3. FeedIsFaithful'
    <3> SUFFICES ASSUME NEW i \in DOMAIN subscriptions'
                 PROVE  \E t \in Subscription : t = subscriptions'[i] /\ IsFaithful(t)'
      BY EachFaithful
    <3>1. PICK s \in Subscription : s = subscriptions[i] /\ IsFaithful(s)
      BY <2>1, <1>1 DEF FeedTypes, FeedIsFaithful
    <3>2. Lines(s)' = Lines(s) /\ \A k \in Lines(s) : shown'[k] = shown[k]
      BY <2>2, OnlyErrorsPrinted DEF Lines
    <3>3. Due(s)' = Due(s)
      BY <1>1 DEF Due
    <3> QED BY <3>1, <3>2, <3>3, <2>1, <1>1, StillFaithful
  <2>4. FeedTypes' /\ LinesOfSubscriptions'
    BY <2>1, <2>2, <1>1 DEF FeedTypes, LinesOfSubscriptions
  <2>5. SubscribedOnce'
    BY <2>1, <1>1, <1>2, <1>3 DEF SubscribedOnce
  <2> QED BY <2>3, <2>4, <2>5 DEF FeedInv
<1>5. CASE connected
  <2>1. PICK s, N :
          s = [name |-> name, since |-> Len(mined), arriving |-> <<>>] /\ N = Len(subscriptions) + 1
    OBVIOUS
  <2>2. subscriptions' = Append(subscriptions, s) /\ UNCHANGED shown
    BY <1>2, <1>5, <2>1 DEF SubscribeEvent
  <2>3. s \in Subscription /\ s.name = name /\ s.since = Len(mined) /\ s.arriving = <<>>
    BY <2>1, <1>1 DEF Subscription, FeedTypes
  <2>4. /\ subscriptions' \in Seq(Subscription) /\ DOMAIN subscriptions' = DOMAIN subscriptions \union {N}
        /\ N \notin DOMAIN subscriptions
        /\ subscriptions'[N] = s /\ \A i \in DOMAIN subscriptions : subscriptions'[i] = subscriptions[i]
    BY <2>1, <2>2, <2>3, <1>1 DEF FeedTypes
  <2>5. IsFaithful(s)'
    <3>1. Lines(s)' = {}
      BY <1>1, <1>2, <2>2, <2>3 DEF Lines, LinesOfSubscriptions, EventNames
    <3>2. Printed(s)' = {}
      BY <3>1 DEF Printed
    <3>3. Due(s)' = {}
      BY <1>1, <2>3 DEF Due, FeedTypes
    <3>4. Range(s.arriving) = {} /\ DOMAIN s.arriving = {}
      BY <2>3 DEF Range
    <3> QED BY <3>1, <3>2, <3>3, <3>4, <1>1, <1>5 DEF IsFaithful
  <2>6. FeedIsFaithful'
    <3> SUFFICES ASSUME NEW i \in DOMAIN subscriptions
                 PROVE  \E t \in Subscription : t = subscriptions'[i] /\ IsFaithful(t)'
      BY <2>3, <2>4, <2>5, EachFaithful
    <3>1. PICK t \in Subscription : t = subscriptions[i] /\ IsFaithful(t)
      BY <1>1 DEF FeedTypes, FeedIsFaithful
    <3>2. Due(t)' = Due(t) /\ Lines(t)' = Lines(t)
      BY <1>1, <2>2 DEF Due, Lines
    <3>3. IsFaithful(t)'
      BY <3>1, <3>2, <2>2, <1>1, StillFaithful
    <3> QED BY <3>1, <3>3, <2>4
  <2>7. FeedTypes'
    BY <2>2, <2>4, <1>1 DEF FeedTypes
  <2>8. LinesOfSubscriptions'
    <3>1. \A i \in DOMAIN subscriptions' : subscriptions'[i].since <= Len(mined')
      BY <2>3, <2>4, <1>1 DEF LinesOfSubscriptions, FeedTypes
    <3> QED BY <3>1, <2>2, <2>4, <1>1, <1>5 DEF LinesOfSubscriptions
  <2>9. SubscribedOnce'
    <3>1. timers' \in {<<>>, <<"revokedCertificate">>} /\ done'
      BY <1>1, <1>2, <1>3
    <3>2. timers' = <<"revokedCertificate">> =>
            \A i \in DOMAIN subscriptions' : subscriptions'[i].name = "sendCertificate"
      BY <1>2, <2>3, <2>4
    <3>3. \A i, j \in DOMAIN subscriptions' : subscriptions'[i].name = subscriptions'[j].name => i = j
      BY <1>1, <1>2, <2>3, <2>4 DEF SubscribedOnce
    <3> QED BY <3>1, <3>2, <3>3 DEF SubscribedOnce
  <2> QED BY <2>6, <2>7, <2>8, <2>9 DEF FeedInv
<1> QED BY <1>4, <1>5, <1>1 DEF FeedTypes

\* The connection is lost: what was on its way never arrives.
LEMMA ConnectionLostStep ==
    ASSUME FeedInv, ConnectionLost
    PROVE  FeedInv'
<1>1. /\ FeedTypes /\ SubscribedOnce /\ LinesOfSubscriptions /\ FeedIsFaithful
      /\ connected /\ ~connected' /\ connected' \in BOOLEAN /\ UNCHANGED <<done, timers, mined>>
      /\ subscriptions' = [i \in DOMAIN subscriptions |-> [subscriptions[i] EXCEPT !.arriving = <<>>]]
  BY DEF FeedInv, ConnectionLost, subscribing
<1>2. /\ shown' \in Seq(Line) /\ DOMAIN shown \subseteq DOMAIN shown'
      /\ \A k \in DOMAIN shown : shown'[k] = shown[k]
      /\ \A k \in DOMAIN shown' \ DOMAIN shown : shown'[k].name = "error"
  <2>1. CASE UNCHANGED shown
    BY <2>1, <1>1 DEF FeedTypes
  <2>2. CASE shown' = shown \o [i \in DOMAIN subscriptions |-> [name |-> "error"]]
    <3> DEFINE errors == [i \in DOMAIN subscriptions |-> [name |-> "error"]]
    <3>1. [name |-> "error"] \in Line
      BY DEF Line
    <3>2. errors \in Seq(Line) /\ \A k \in DOMAIN errors : errors[k].name = "error"
      BY <3>1, <1>1 DEF FeedTypes
    <3> HIDE DEF errors
    <3>3. shown \in Seq(Line) /\ shown' = shown \o errors
      BY <2>2, <1>1 DEF FeedTypes, errors
    <3> QED BY <3>2, <3>3
  <2> QED BY <2>1, <2>2 DEF ConnectionLost
<1>3. ASSUME NEW i \in DOMAIN subscriptions
      PROVE  \E t \in Subscription :
                /\ t = subscriptions'[i] /\ IsFaithful(t)' /\ t.arriving = <<>>
                /\ t.name = subscriptions[i].name /\ t.since = subscriptions[i].since
  <2>1. PICK s \in Subscription : s = subscriptions[i] /\ IsFaithful(s)
    BY <1>1 DEF FeedTypes, FeedIsFaithful
  <2>2. PICK t : t = [s EXCEPT !.arriving = <<>>]
    OBVIOUS
  <2>3. t \in Subscription /\ t.name = s.name /\ t.since = s.since /\ t.arriving = <<>>
    <3>1. <<>> \in Seq(Nat)
      OBVIOUS
    <3> QED BY <2>2, <3>1 DEF Subscription
  <2>4. Lines(t)' = Lines(s) /\ Printed(t)' = Printed(s) /\ Due(t)' = Due(s)
    <3>1. Lines(t)' = Lines(s)'
      BY <2>3 DEF Lines
    <3>2. Printed(t)' = Printed(s)'
      BY <3>1 DEF Printed
    <3>3. Due(t)' = Due(s)
      BY <2>3, <1>1 DEF Due
    <3> QED BY <3>1, <3>2, <3>3, <1>2, OnlyErrorsPrinted
  <2>5. \A k \in Lines(s) : shown'[k] = shown[k]
    BY <1>2 DEF Lines
  <2>6. Range(t.arriving) = {} /\ DOMAIN t.arriving = {}
    BY <2>3 DEF Range
  <2>7. IsFaithful(t)'
    BY <2>1, <2>4, <2>5, <2>6, <1>1 DEF IsFaithful
  <2> QED BY <2>1, <2>2, <2>3, <2>7, <1>1
<1>4. DOMAIN subscriptions' = DOMAIN subscriptions
  BY <1>1
<1>5. FeedTypes'
  <2>1. \A i \in DOMAIN subscriptions' : subscriptions'[i] \in Subscription
    BY <1>3, <1>4
  <2>2. subscriptions' = [i \in DOMAIN subscriptions |-> subscriptions'[i]]
    BY <1>1
  <2>3. DOMAIN subscriptions = 1 .. Len(subscriptions) /\ Len(subscriptions) \in Nat
    BY <1>1 DEF FeedTypes
  <2>4. subscriptions' \in Seq(Subscription)
    BY <2>1, <2>2, <2>3, <1>4
  <2> QED BY <2>4, <1>1, <1>2 DEF FeedTypes
<1>6. SubscribedOnce'
  <2>1. \A i \in DOMAIN subscriptions : subscriptions'[i].name = subscriptions[i].name
    BY <1>3
  <2>2. subscriptions = <<>> => subscriptions' = <<>>
    BY <1>4, <1>5, <1>1 DEF FeedTypes
  <2> QED BY <2>1, <2>2, <1>4, <1>1 DEF SubscribedOnce
<1>7. LinesOfSubscriptions'
  <2>1. \A i \in DOMAIN subscriptions' :
          subscriptions'[i].arriving = <<>> /\ subscriptions'[i].since <= Len(mined')
    BY <1>1, <1>3, <1>4 DEF LinesOfSubscriptions
  <2>2. ASSUME NEW k \in DOMAIN shown', k \in DOMAIN shown
        PROVE  \/ shown'[k].name = "error"
               \/ \E i \in DOMAIN subscriptions' : subscriptions'[i].name = shown'[k].name
    <3>1. shown[k].name = "error" \/ \E i \in DOMAIN subscriptions : subscriptions[i].name = shown[k].name
      BY <2>2, <1>1 DEF LinesOfSubscriptions
    <3>2. \A i \in DOMAIN subscriptions : subscriptions'[i].name = subscriptions[i].name
      BY <1>3
    <3> QED BY <2>2, <3>1, <3>2, <1>2, <1>4
  <2> QED BY <2>1, <2>2, <1>2 DEF LinesOfSubscriptions
<1>8. FeedIsFaithful'
  BY <1>3, <1>4, EachFaithful
<1> QED BY <1>5, <1>6, <1>7, <1>8 DEF FeedInv

\* Every step of the page keeps its feed faithful.
LEMMA FeedStep ==
    ASSUME FeedInv, [PageNext]_page
    PROVE  FeedInv'
<1> USE DEF storage, accounts, subscribing, receiving
<1>1. ASSUME UNCHANGED <<done, timers, connected, subscriptions, shown, mined>>
      PROVE  FeedInv'
  <2>1. SubscribedOnce'
    BY <1>1 DEF FeedInv, SubscribedOnce
  <2> QED BY <2>1, <1>1, FeedUnchanged
<1>2. CASE UNCHANGED page \/ (\E pwd \in Passwords : Create(pwd) \/ Load(pwd)) \/ BalanceArrives \/ BalanceFails
  <2>1. UNCHANGED <<done, timers, connected, subscriptions, shown, mined>>
    BY <1>2 DEF page, Create, Load, BalanceArrives, BalanceFails
  <2> QED BY <2>1, <1>1
<1>3. CASE Render
  <2>1. /\ ~done /\ timers = <<>> /\ subscriptions = <<>> /\ done'
        /\ timers' = <<>> \o <<"sendCertificate", "revokedCertificate">>
        /\ UNCHANGED <<mined, subscriptions, shown, connected>>
    BY <1>3 DEF Render, FeedInv, SubscribedOnce
  <2>2. timers' = <<"sendCertificate", "revokedCertificate">>
    BY <2>1
  <2>3. SubscribedOnce'
    BY <2>1, <2>2 DEF SubscribedOnce
  <2> QED BY <2>1, <2>3, FeedUnchanged
<1>4. CASE ReloadPage
  <2>1. /\ done' = FALSE /\ timers' = <<>> /\ connected' = TRUE /\ subscriptions' = <<>> /\ shown' = <<>>
        /\ mined' = mined /\ mined \in Seq(EventNames)
    BY <1>4 DEF ReloadPage, FeedInv, FeedTypes
  <2> QED BY <2>1 DEF FeedInv, FeedTypes, SubscribedOnce, LinesOfSubscriptions, FeedIsFaithful
<1> QED
  BY <1>2, <1>3, <1>4, SubscribeEventStep, EmitStep, PrintEventStep, ConnectionLostStep DEF PageNext


---------------------------------------------------------------------------
\* Messages, parts of rows, and the two log files.
Mail == [by : {"sender", "others"}, of : Nat, wellformed : BOOLEAN]
Parts == [what : {"index", "init", "sync", "before", "after", "duration", "received", "decoded"},
          by : {"loop", "sender", "others"}, of : Nat]
Logs == [rows : SUBSET Seq(Parts), open : Seq(Parts)]

\* What the iteration has written of its row, by where its script is.
Times(i) == << Part("index", i), Part("init", i), Part("sync", i), Part("before", i) >>
Written == [sync |-> 2, read |-> 3, send |-> 4, attached |-> 4]
EndsWithTimes(open, i, n) == Len(open) >= n /\ \A k \in 1 .. n : open[Len(open) - n + k] = Times(i)[k]

\* A complete row of the sender is of one iteration.
SenderRowIsGenuine(row) ==
    SenderRow(row) =>
        row = << Part("index", row[1].of), Part("init", row[1].of), Part("sync", row[1].of),
                 Part("before", row[1].of), Part("after", row[1].of) >>

\* The open row of the sender ends with the times of the iteration it is in.
SenderInv ==
    /\ sender \in [i : Nat, at : {"loop", "sync", "read", "send", "attached"}]
    /\ sender_log \in Logs
    /\ IF Senders[kind].indexed
       THEN sender.at # "loop" => EndsWithTimes(sender_log.open, sender.i, Written[sender.at])
       ELSE sender_log.open = <<>>
    /\ \A row \in sender_log.rows : SenderRowIsGenuine(row)

\* What the two ways to write to a log do to it.
LEMMA WriteWrites ==
    ASSUME NEW l \in Logs, NEW p \in Parts
    PROVE  /\ Write(l, p) \in Logs /\ Write(l, p).rows = l.rows
           /\ Write(l, p).open = Append(l.open, p)
           /\ WriteLine(l, p) \in Logs /\ WriteLine(l, p).rows = l.rows \union {Append(l.open, p)}
           /\ WriteLine(l, p).open = <<>>
<1>1. l.rows \subseteq Seq(Parts) /\ l.open \in Seq(Parts) /\ Append(l.open, p) \in Seq(Parts) /\ <<>> \in Seq(Parts)
  BY DEF Logs
<1>2. Write(l, p) = [rows |-> l.rows, open |-> Append(l.open, p)]
  BY DEF Write, Logs
<1> QED BY <1>1, <1>2 DEF Logs, WriteLine

\* What a part may be.
Whats == {"index", "init", "sync", "before", "after", "duration", "received", "decoded"}

\* A time is a part of the iteration that took it.
LEMMA PartIsPart ==
    ASSUME NEW i \in Nat, NEW what \in Whats
    PROVE  Part(what, i) \in Parts /\ Part(what, i).of = i /\ Part(what, i).what = what
BY DEF Part, Parts, Whats

\* A part about a message is of who sent it.
LEMMA MessagePartIsPart ==
    ASSUME NEW m \in Mail, NEW what \in Whats
    PROVE  /\ MessagePart(what, m) \in Parts /\ MessagePart(what, m).of = m.of
           /\ MessagePart(what, m).by = m.by /\ MessagePart(what, m).what = what
BY DEF MessagePart, Parts, Mail, Whats

\* Writing the next time makes the row longer by the next of its times.
LEMMA TimesAppended ==
    ASSUME NEW open \in Seq(Parts), NEW i \in Nat, NEW n \in 0 .. 3, EndsWithTimes(open, i, n)
    PROVE  EndsWithTimes(Append(open, Times(i)[n + 1]), i, n + 1)
<1>1. \A k \in 1 .. 4 : Times(i)[k] \in Parts
  BY PartIsPart DEF Times, Whats
<1> HIDE DEF Times
<1> DEFINE longer == Append(open, Times(i)[n + 1])
<1>2. /\ Len(longer) = Len(open) + 1 /\ Len(open) \in Nat
      /\ longer[Len(open) + 1] = Times(i)[n + 1]
      /\ \A k \in 1 .. Len(open) : longer[k] = open[k]
  BY <1>1
<1> HIDE DEF longer
<1>3. ASSUME NEW k \in 1 .. n + 1
      PROVE  longer[Len(longer) - (n + 1) + k] = Times(i)[k]
  <2>1. CASE k = n + 1
    <3>1. Len(longer) - (n + 1) + k = Len(open) + 1
      BY <2>1, <1>2
    <3> QED BY <2>1, <3>1, <1>2
  <2>2. CASE k \in 1 .. n
    <3>1. Len(longer) - (n + 1) + k = Len(open) - n + k /\ Len(open) - n + k \in 1 .. Len(open)
      BY <2>2, <1>2 DEF EndsWithTimes
    <3> QED BY <2>2, <3>1, <1>2 DEF EndsWithTimes
  <2> QED BY <2>1, <2>2
<1> QED BY <1>2, <1>3 DEF EndsWithTimes, longer

\* The elements of a row that grew by one.
LEMMA AppendIs ==
    ASSUME NEW open \in Seq(Parts), NEW p \in Parts
    PROVE  /\ Append(open, p) \in Seq(Parts) /\ Len(open) \in Nat /\ Len(Append(open, p)) = Len(open) + 1
           /\ Append(open, p)[Len(open) + 1] = p
           /\ \A k \in 1 .. Len(open) : Append(open, p)[k] = open[k] /\ open[k] \in Parts
<1>1. Append(open, p) \in Seq(Parts) /\ Len(open) \in Nat /\ Len(Append(open, p)) = Len(open) + 1
  OBVIOUS
<1>2. Append(open, p)[Len(open) + 1] = p
  OBVIOUS
<1>3. \A k \in 1 .. Len(open) : Append(open, p)[k] = open[k] /\ open[k] \in Parts
  OBVIOUS
<1> QED BY <1>1, <1>2, <1>3

\* A row of five, by its elements.
LEMMA FiveParts ==
    ASSUME NEW open \in Seq(Parts), Len(open) = 4, NEW p \in Parts
    PROVE  Append(open, p) = << open[1], open[2], open[3], open[4], p >>
<1>1. /\ Append(open, p) \in Seq(Parts) /\ Len(Append(open, p)) = Len(open) + 1
      /\ Append(open, p)[Len(open) + 1] = p
      /\ \A k \in 1 .. Len(open) : Append(open, p)[k] = open[k] /\ open[k] \in Parts
  BY AppendIs
<1>2. Len(open) + 1 = 5
  OBVIOUS
<1>3. open[1] \in Parts /\ open[2] \in Parts /\ open[3] \in Parts /\ open[4] \in Parts
  BY <1>1
<1> DEFINE five == << open[1], open[2], open[3], open[4], p >>
<1>4. five \in Seq(Parts) /\ Len(five) = 5
  BY <1>3
<1>5. \A k \in 1 .. 5 : Append(open, p)[k] = five[k]
  BY <1>1, <1>2
<1> HIDE DEF five
<1>6. Append(open, p) = five
  BY <1>1, <1>4, <1>5
<1> QED BY <1>6 DEF five

\* Every step of the sender loop keeps its rows genuine.
LEMMA SenderStep ==
    ASSUME SenderInv, [ExchangeNext]_exchange
    PROVE  SenderInv'
<1> USE DEF sending, listening
<1>0. /\ sender \in [i : Nat, at : {"loop", "sync", "read", "send", "attached"}]
      /\ sender.i \in Nat /\ sender_log \in Logs /\ sender_log.open \in Seq(Parts)
      /\ \A row \in sender_log.rows : SenderRowIsGenuine(row)
  BY DEF SenderInv, Logs
<1>1. CASE UNCHANGED <<kind, sender, sender_log>>
  BY <1>1 DEF SenderInv
<1>2. CASE StartSender
  <2>1. /\ sender'.at = "sync" /\ sender'.i = sender.i /\ UNCHANGED kind
        /\ sender' \in [i : Nat, at : {"loop", "sync", "read", "send", "attached"}]
    BY <1>0, <1>2 DEF StartSender, Sends
  <2>2. CASE Senders[kind].indexed
    <3> DEFINE one == Write(sender_log, Part("index", sender.i))
    <3>1. sender_log' = Write(one, Part("init", sender.i))
      BY <1>2, <2>2 DEF StartSender
    <3>2. one \in Logs /\ one.rows = sender_log.rows /\ one.open = Append(sender_log.open, Times(sender.i)[1])
      <4>1. Part("index", sender.i) \in Parts
        BY <1>0, PartIsPart DEF Whats
      <4> QED BY <4>1, <1>0, WriteWrites DEF Times
    <3> HIDE DEF one
    <3>3. sender_log' \in Logs /\ sender_log'.rows = sender_log.rows
          /\ sender_log'.open = Append(one.open, Times(sender.i)[2])
      <4>1. Part("init", sender.i) \in Parts
        BY <1>0, PartIsPart DEF Whats
      <4> QED BY <4>1, <3>1, <3>2, WriteWrites DEF Times
    <3>4. EndsWithTimes(sender_log.open, sender.i, 0)
      BY <1>0 DEF EndsWithTimes
    <3>5. EndsWithTimes(one.open, sender.i, 1) /\ one.open \in Seq(Parts)
      BY <1>0, <3>2, <3>4, TimesAppended DEF Logs
    <3>6. EndsWithTimes(sender_log'.open, sender.i, 2)
      BY <1>0, <3>3, <3>5, TimesAppended
    <3> QED BY <1>0, <2>1, <2>2, <3>3, <3>6 DEF SenderInv, Written
  <2>3. CASE ~Senders[kind].indexed
    BY <2>1, <2>3, <1>2 DEF StartSender, SenderInv
  <2> QED BY <2>2, <2>3
<1>3. ASSUME NEW from \in {"sync", "read"}, NEW what, NEW where,
             \/ from = "sync" /\ what = "sync" /\ where = "read"
             \/ from = "read" /\ what = "before" /\ where = "send",
             SenderAt(from), Sends(where), UNCHANGED kind,
             sender_log' = IF Senders[kind].indexed THEN Write(sender_log, Part(what, sender.i)) ELSE sender_log
      PROVE  SenderInv'
  <2>1. /\ sender'.at = where /\ sender'.i = sender.i /\ sender.at = from
        /\ sender' \in [i : Nat, at : {"loop", "sync", "read", "send", "attached"}]
    BY <1>0, <1>3 DEF SenderAt, Sends
  <2>2. CASE Senders[kind].indexed
    <3>1. PICK n \in 2 .. 3 : Written[from] = n /\ Written[where] = n + 1 /\ Part(what, sender.i) = Times(sender.i)[n + 1]
      BY <1>3 DEF Written, Times
    <3>2. /\ sender_log' \in Logs /\ sender_log'.rows = sender_log.rows
          /\ sender_log'.open = Append(sender_log.open, Times(sender.i)[n + 1])
      <4>1. Part(what, sender.i) \in Parts
        BY <1>0, <1>3, PartIsPart DEF Whats
      <4>2. sender_log' = Write(sender_log, Part(what, sender.i))
        BY <1>3, <2>2
      <4>3. /\ sender_log' \in Logs /\ sender_log'.rows = sender_log.rows
            /\ sender_log'.open = Append(sender_log.open, Part(what, sender.i))
        BY <4>1, <4>2, <1>0, WriteWrites
      <4> QED BY <4>3, <3>1, Zenon
    <3>3. EndsWithTimes(sender_log.open, sender.i, n)
      BY <1>3, <2>1, <2>2, <3>1 DEF SenderInv
    <3>4. EndsWithTimes(sender_log'.open, sender.i, n + 1)
      BY <1>0, <3>2, <3>3, TimesAppended
    <3> QED BY <1>0, <1>3, <2>1, <2>2, <3>1, <3>2, <3>4 DEF SenderInv
  <2>3. CASE ~Senders[kind].indexed
    BY <2>1, <2>3, <1>3 DEF SenderInv
  <2> QED BY <2>2, <2>3
<1>4. CASE SyncAccount
  BY <1>4, <1>3 DEF SyncAccount
<1>5. CASE ReadCertificate
  BY <1>5, <1>3 DEF ReadCertificate
<1>6. CASE Attach
  <2>1. /\ sender'.at = "attached" /\ sender.at = "send" /\ sender'.i = sender.i /\ UNCHANGED <<kind, sender_log>>
        /\ sender' \in [i : Nat, at : {"loop", "sync", "read", "send", "attached"}]
    BY <1>0, <1>6 DEF Attach, SenderAt, Sends
  <2> QED BY <2>1 DEF SenderInv, Written
<1>7. CASE SendReturns
  <2>1. /\ sender'.at = "loop" /\ sender.at = "attached" /\ UNCHANGED kind
        /\ sender' \in [i : Nat, at : {"loop", "sync", "read", "send", "attached"}]
    BY <1>0, <1>7 DEF SendReturns, SenderAt, NextIteration
  <2>2. CASE Senders[kind].indexed
    <3> DEFINE row == Append(sender_log.open, Part("after", sender.i))
    <3>1. sender_log' \in Logs /\ sender_log'.rows = sender_log.rows \union {row}
      <4>1. Part("after", sender.i) \in Parts
        BY <1>0, PartIsPart DEF Whats
      <4> QED BY <4>1, <1>0, <1>7, <2>2, WriteWrites DEF SendReturns
    <3>2. EndsWithTimes(sender_log.open, sender.i, 4)
      BY <2>1, <2>2 DEF SenderInv, Written
    <3>3. ASSUME Len(row) = 5
          PROVE  row = << Part("index", sender.i), Part("init", sender.i), Part("sync", sender.i),
                          Part("before", sender.i), Part("after", sender.i) >>
      <4>1. Part("after", sender.i) \in Parts
        BY <1>0, PartIsPart DEF Whats
      <4>2. PICK p : p = Part("after", sender.i)
        OBVIOUS
      <4>3. PICK open \in Seq(Parts) : open = sender_log.open
        BY <1>0
      <4>4. Len(open) = 4
        <5>1. row = Append(open, p) /\ p \in Parts
          BY <4>1, <4>2, <4>3
        <5>2. Len(row) = Len(open) + 1 /\ Len(open) \in Nat
          BY <5>1, <4>3
        <5>3. \A n \in Nat : n + 1 = 5 => n = 4
          OBVIOUS
        <5> HIDE DEF row
        <5> QED BY <5>2, <5>3, <3>3
      <4>5. /\ open[1] = Part("index", sender.i) /\ open[2] = Part("init", sender.i)
            /\ open[3] = Part("sync", sender.i) /\ open[4] = Part("before", sender.i)
        BY <3>2, <4>3, <4>4 DEF EndsWithTimes, Times
      <4>6. row = Append(open, p) /\ p \in Parts
        BY <4>1, <4>2, <4>3
      <4>7. Append(open, p) = << open[1], open[2], open[3], open[4], p >>
        BY <4>3, <4>4, <4>6, FiveParts
      <4> QED BY <4>2, <4>5, <4>6, <4>7, Zenon
    <3>4. SenderRowIsGenuine(row)
      <4>1. Part("index", sender.i).of = sender.i
        BY DEF Part
      <4> HIDE DEF row
      <4> QED BY <3>3, <4>1 DEF SenderRowIsGenuine, SenderRow
    <3> QED BY <1>0, <2>1, <2>2, <3>1, <3>4 DEF SenderInv
  <2>3. CASE ~Senders[kind].indexed
    <3>1. /\ sender_log' \in Logs /\ sender_log'.open = <<>>
          /\ sender_log'.rows = sender_log.rows \union {Append(sender_log.open, Part("duration", sender.i))}
      <4>1. Part("duration", sender.i) \in Parts
        BY <1>0, PartIsPart DEF Whats
      <4> QED BY <4>1, <1>0, <1>7, <2>3, WriteWrites DEF SendReturns
    <3>2. Len(Append(sender_log.open, Part("duration", sender.i))) # 5
      BY <2>3, <1>0 DEF SenderInv
    <3>3. SenderRowIsGenuine(Append(sender_log.open, Part("duration", sender.i)))
      BY <3>2 DEF SenderRowIsGenuine, SenderRow
    <3> QED BY <1>0, <2>1, <2>3, <3>1, <3>3 DEF SenderInv
  <2> QED BY <2>2, <2>3
<1>8. CASE SenderRaises
  <2>1. /\ sender'.at = "loop" /\ UNCHANGED <<kind, sender_log>>
        /\ sender' \in [i : Nat, at : {"loop", "sync", "read", "send", "attached"}]
    BY <1>0, <1>8 DEF SenderRaises, NextIteration
  <2> QED BY <2>1 DEF SenderInv
<1>9. \/ UNCHANGED exchange \/ StoreMnemonic \/ (\E name \in AccountScripts(kind) : CreateAccount(name))
      \/ (\E m \in foreign : OthersSend(m)) \/ StartListener \/ ListenMqtt \/ ListenerRaises \/ Callback
      \/ CallbackRaises \/ Decode \/ SetEvent \/ ExitListener
      => UNCHANGED <<kind, sender, sender_log>>
  BY DEF exchange, StoreMnemonic, CreateAccount, OthersSend, StartListener, ListenMqtt, ListenerRaises, Callback,
         CallbackRaises, Decode, SetEvent, ExitListener
<1> QED
  BY <1>1, <1>2, <1>4, <1>5, <1>6, <1>7, <1>8, <1>9 DEF ExchangeNext

---------------------------------------------------------------------------
\* A message of the sender's is of an iteration that got so far as to send.
Sent(m) == m.by = "sender" => m.of < sender.i \/ (m.of = sender.i /\ sender.at = "attached")
\* Of two messages of the sender's the first is of an earlier iteration.
Before(m, n) == m.by = "sender" /\ n.by = "sender" => m.of < n.of
Begun(i) == i < listener.i \/ (i = listener.i /\ listener.at # "loop")

\* The shape of the listener, of the feed and of the log; nothing is taken unsubscribed.
ListenerTypes ==
    /\ listener \in [i : Nat, at : {"loop", "started", "subscribed"}, event : SUBSET Mail]
    /\ feed \in Seq(Mail) /\ foreign \subseteq Foreign
    /\ taken \in [at : {"none", "deaf"}] \union [at : {"received", "decoded"}, m : Mail]
    /\ listener_log \in Logs
    /\ listener.at # "subscribed" => taken.at = "none"

\* The sender's messages on their way, taken and logged are in the order in which they
\* were sent, none twice.
MailInOrder ==
    /\ \A k \in DOMAIN feed : Sent(feed[k])
    /\ \A k, l \in DOMAIN feed : k < l => Before(feed[k], feed[l])
    /\ taken.at = "received" => Sent(taken.m) /\ \A k \in DOMAIN feed : Before(taken.m, feed[k])
    /\ \A row \in listener_log.rows : ListenerRow(row) =>
          /\ Sent(row[3])
          /\ \A k \in DOMAIN feed : Before(row[3], feed[k])
          /\ taken.at = "received" => Before(row[3], taken.m)

\* Rows are begun in the order of the iterations of the listener.
IndicesGrow ==
    /\ \A row \in listener_log.rows : ListenerRow(row) => Begun(row[1].of)
    /\ \A k \in DOMAIN listener_log.open : listener_log.open[k].what = "index" =>
          /\ Begun(listener_log.open[k].of)
          /\ \A row \in listener_log.rows : ListenerRow(row) => row[1].of < listener_log.open[k].of

\* What a complete row says was received and decoded is one message, and a row of a
\* later iteration is of a later message.
RowsOfOneMessage ==
    /\ IF Listeners[kind].indexed
       THEN taken.at = "received" =>
               LET open == listener_log.open
               IN  Len(open) > 0 /\ open[Len(open)] = MessagePart("received", taken.m)
       ELSE listener_log = EmptyLog
    /\ \A row \in listener_log.rows : ListenerRow(row) =>
          /\ row[2] = MessagePart("received", row[3]) /\ row[3].what = "decoded"
          /\ \A other \in listener_log.rows :
                ListenerRow(other) /\ other[1].of > row[1].of => Before(row[3], other[3])

\* Scripts that ask for the issuer take nothing but what the admin sent.
OnlyTheAdmin ==
    Listeners[kind].admin_only =>
        /\ \A m \in listener.event : FromAdmin(m)
        /\ taken.at = "decoded" => FromAdmin(taken.m)

\* The listener: its shape, the order of messages and rows, and what a row is about.
ListenerInv == ListenerTypes /\ MailInOrder /\ IndicesGrow /\ RowsOfOneMessage /\ OnlyTheAdmin
\* Both sides of the exchange.
ExchangeInv == SenderInv /\ ListenerInv

\* A complete row of the listener is three parts.
LEMMA RowParts ==
    ASSUME ListenerTypes, NEW row \in listener_log.rows, ListenerRow(row)
    PROVE  row \in Seq(Parts) /\ row[1] \in Parts /\ row[2] \in Parts /\ row[3] \in Parts
<1>1. row \in Seq(Parts) /\ Len(row) = 3
  BY DEF ListenerTypes, Logs, ListenerRow
<1>2. DOMAIN row = 1 .. 3
  BY <1>1
<1> QED BY <1>1, <1>2

\* The invariant gives what the run checks.
LEMMA ExchangeInvImplies == ExchangeInv => RowsAreGenuine
<1> SUFFICES ASSUME ExchangeInv PROVE RowsAreGenuine
  OBVIOUS
<1>1. \A row \in sender_log.rows : SenderRowIsGenuine(row)
  BY DEF ExchangeInv, SenderInv
<1>2. \A row \in listener_log.rows : ListenerRow(row) =>
          /\ row[2] = MessagePart("received", row[3]) /\ row[3].what = "decoded"
          /\ \A other \in listener_log.rows :
                ListenerRow(other) /\ other[1].of > row[1].of => Before(row[3], other[3])
  BY DEF ExchangeInv, ListenerInv, RowsOfOneMessage
<1>3. Listeners[kind].admin_only => \A m \in listener.event : FromAdmin(m)
  BY DEF ExchangeInv, ListenerInv, OnlyTheAdmin
<1>4. \A row \in listener_log.rows : ListenerRow(row) =>
          /\ row[2] = MessagePart("received", row[3]) /\ row[3].what = "decoded"
          /\ \A other \in listener_log.rows :
                ListenerRow(other) /\ other[1].of > row[1].of
                /\ other[3].by = "sender" /\ row[3].by = "sender" => other[3].of > row[3].of
  <2> SUFFICES ASSUME NEW row \in listener_log.rows, ListenerRow(row), NEW other \in listener_log.rows,
                      ListenerRow(other), other[1].of > row[1].of,
                      other[3].by = "sender", row[3].by = "sender"
               PROVE  other[3].of > row[3].of
    BY <1>2
  <2>1. row[3].of < other[3].of
    BY <1>2 DEF Before
  <2>2. row[3] \in Parts /\ other[3] \in Parts
    BY RowParts DEF ExchangeInv, ListenerInv
  <2> QED BY <2>1, <2>2 DEF Parts
<1> QED BY <1>1, <1>3, <1>4 DEF RowsAreGenuine, SenderRowIsGenuine

\* What was sent stays sent: iterations only go on.
LEMMA SentStays ==
    ASSUME SenderInv, [ExchangeNext]_exchange, NEW m, m.of \in Nat, Sent(m)
    PROVE  Sent(m)'
<1>1. sender \in [i : Nat, at : {"loop", "sync", "read", "send", "attached"}]
  BY DEF SenderInv
<1>2. \/ sender' = sender
      \/ sender.at # "attached" /\ sender' = [sender EXCEPT !.at = sender'.at]
      \/ sender' = [i |-> sender.i + 1, at |-> "loop"]
  BY DEF ExchangeNext, exchange, sending, listening, StartSender, SyncAccount, ReadCertificate, Attach, SendReturns,
         SenderRaises, Sends, NextIteration, SenderAt, StoreMnemonic, CreateAccount, OthersSend, StartListener,
         ListenMqtt, ListenerRaises, Callback, CallbackRaises, Decode, SetEvent, ExitListener
<1> QED BY <1>1, <1>2 DEF Sent

\* The order of messages stays when none is sent, taken or logged.
LEMMA MailStaysInOrder ==
    ASSUME SenderInv, ListenerTypes, MailInOrder, [ExchangeNext]_exchange,
           UNCHANGED <<feed, taken, listener_log>>
    PROVE  MailInOrder'
<1>1. \A m \in Mail : Sent(m) => Sent(m)'
  BY SentStays DEF Mail
<1>2. \A m \in Parts : Sent(m) => Sent(m)'
  BY SentStays DEF Parts
<1>3. \A k \in DOMAIN feed : feed[k] \in Mail
  BY DEF ListenerTypes
<1>4. taken.at = "received" => taken.m \in Mail
  BY DEF ListenerTypes
<1>5. \A row \in listener_log.rows : ListenerRow(row) => row[3] \in Parts
  BY RowParts
<1>6. \A k \in DOMAIN feed : Sent(feed[k])'
  BY <1>1, <1>3 DEF MailInOrder
<1>7. taken.at = "received" => Sent(taken.m)'
  BY <1>1, <1>4 DEF MailInOrder
<1>8. \A row \in listener_log.rows : ListenerRow(row) => Sent(row[3])'
  BY <1>2, <1>5 DEF MailInOrder
<1> QED BY <1>6, <1>7, <1>8 DEF MailInOrder, Before, Sent

\* A step of the sender, or of others, that sends nothing.
LEMMA QuietStep ==
    ASSUME SenderInv, ListenerInv, [ExchangeNext]_exchange, UNCHANGED <<kind, feed, foreign, listening>>
    PROVE  ListenerInv'
<1>1. MailInOrder'
  BY MailStaysInOrder DEF ListenerInv, listening
<1> QED
  BY <1>1 DEF ListenerInv, listening, ListenerTypes, IndicesGrow, RowsOfOneMessage, OnlyTheAdmin, Begun

\* A message reaches the listener: of the sender's, it is its latest.
LEMMA DeliverStep ==
    ASSUME SenderInv, ListenerInv, [ExchangeNext]_exchange, NEW m \in Mail, Deliver(m), foreign' \subseteq Foreign,
           UNCHANGED <<kind, listening>>, Sent(m)',
           m.by = "sender" => m.of = sender.i /\ sender.at # "attached"
    PROVE  ListenerInv'
<1>0. /\ ListenerTypes /\ MailInOrder /\ UNCHANGED <<listener, taken, listener_log>>
      /\ feed \in Seq(Mail) /\ sender.i \in Nat
  BY DEF ListenerInv, listening, ListenerTypes, SenderInv
<1>1. \A n \in Mail : Sent(n) => Sent(n)' /\ Before(n, m)
  BY SentStays, <1>0 DEF Mail, Before, Sent
<1>2. \A n \in Parts : Sent(n) => Sent(n)' /\ Before(n, m)
  BY SentStays, <1>0 DEF Parts, Before, Sent, Mail
<1>3. CASE feed' = feed
  <2>1. MailInOrder'
    BY <1>0, <1>3, MailStaysInOrder
  <2> QED
    BY <2>1, <1>3 DEF ListenerInv, listening, ListenerTypes, IndicesGrow, RowsOfOneMessage, OnlyTheAdmin, Begun
<1>4. CASE feed' = Append(feed, m)
  <2>1. PICK N : N = Len(feed) + 1
    OBVIOUS
  <2>2. /\ feed' \in Seq(Mail) /\ DOMAIN feed' = DOMAIN feed \union {N} /\ feed'[N] = m
        /\ \A k \in DOMAIN feed : feed'[k] = feed[k] /\ feed[k] \in Mail /\ k \in Nat /\ k < N /\ N \in Nat
    BY <1>0, <1>4, <2>1
  <2>3. \A k \in DOMAIN feed : Sent(feed[k]) /\ Sent(feed[k])' /\ Before(feed[k], m)
    BY <2>2, <1>1, <1>0 DEF MailInOrder
  <2>4. \A k \in DOMAIN feed' : Sent(feed[k])'
    <3> SUFFICES ASSUME NEW k \in DOMAIN feed' PROVE Sent(feed[k])'
      OBVIOUS
    <3>1. CASE k = N
      BY <3>1, <2>2 DEF Sent
    <3>2. CASE k \in DOMAIN feed
      BY <3>2, <2>2, <2>3 DEF Sent
    <3> QED BY <3>1, <3>2, <2>2
  <2>5. \A k, l \in DOMAIN feed' : k < l => Before(feed'[k], feed'[l])
    <3> SUFFICES ASSUME NEW k \in DOMAIN feed', NEW l \in DOMAIN feed', k < l
                 PROVE  Before(feed'[k], feed'[l])
      OBVIOUS
    <3>1. k \in DOMAIN feed
      BY <2>2
    <3>2. CASE l = N
      BY <3>1, <3>2, <2>2, <2>3
    <3>3. CASE l \in DOMAIN feed
      BY <3>1, <3>3, <2>2, <1>0 DEF MailInOrder
    <3> QED BY <3>2, <3>3, <2>2
  <2>6. taken.at = "received" => Sent(taken.m)' /\ \A k \in DOMAIN feed' : Before(taken.m, feed'[k])
    <3> SUFFICES ASSUME taken.at = "received"
                 PROVE  Sent(taken.m)' /\ \A k \in DOMAIN feed' : Before(taken.m, feed'[k])
      OBVIOUS
    <3>1. PICK n \in Mail : n = taken.m /\ Sent(n) /\ \A k \in DOMAIN feed : Before(n, feed[k])
      BY <1>0 DEF ListenerTypes, MailInOrder
    <3>2. Sent(n)' /\ Before(n, m)
      BY <3>1, <1>1
    <3>3. n = taken'.m
      BY <3>1, <1>0
    <3> QED BY <3>1, <3>2, <3>3, <2>2 DEF Sent
  <2>7. \A row \in listener_log.rows : ListenerRow(row) =>
          /\ Sent(row[3])'
          /\ \A k \in DOMAIN feed' : Before(row[3], feed'[k])
          /\ taken.at = "received" => Before(row[3], taken.m)
    <3> SUFFICES ASSUME NEW row \in listener_log.rows, ListenerRow(row)
                 PROVE  /\ Sent(row[3])'
                        /\ \A k \in DOMAIN feed' : Before(row[3], feed'[k])
                        /\ taken.at = "received" => Before(row[3], taken.m)
      OBVIOUS
    <3>1. /\ row[3] \in Parts /\ Sent(row[3]) /\ \A k \in DOMAIN feed : Before(row[3], feed[k])
          /\ taken.at = "received" => Before(row[3], taken.m)
      BY <1>0, RowParts DEF MailInOrder
    <3>2. Sent(row[3])' /\ Before(row[3], m)
      BY <3>1, <1>2
    <3> QED BY <3>1, <3>2, <2>2
  <2>8. MailInOrder'
    BY <2>4, <2>5, <2>6, <2>7, <1>0 DEF MailInOrder, Before, Sent
  <2> QED
    BY <2>2, <2>8, <1>0 DEF ListenerInv, ListenerTypes, IndicesGrow, RowsOfOneMessage, OnlyTheAdmin, Begun
<1> QED BY <1>3, <1>4 DEF Deliver

\* What writing one part does to the listener's log.
LEMMA LogWrite ==
    ASSUME listener_log \in Logs, NEW p \in Parts, NEW N, N = Len(listener_log.open) + 1,
           listener_log' = Write(listener_log, p)
    PROVE  /\ listener_log' \in Logs /\ listener_log'.rows = listener_log.rows
           /\ N = Len(listener_log'.open) /\ N > 0 /\ N \notin DOMAIN listener_log.open
           /\ DOMAIN listener_log'.open = DOMAIN listener_log.open \union {N}
           /\ listener_log'.open[N] = p
           /\ \A k \in DOMAIN listener_log.open : listener_log'.open[k] = listener_log.open[k]
<1>1. listener_log.open \in Seq(Parts)
  BY DEF Logs
<1>2. listener_log' \in Logs /\ listener_log'.rows = listener_log.rows
      /\ listener_log'.open = Append(listener_log.open, p)
  BY WriteWrites
<1>3. PICK open \in Seq(Parts) : open = listener_log.open
  BY <1>1
<1>4. DOMAIN open = 1 .. Len(open) /\ DOMAIN Append(open, p) = 1 .. Len(open) + 1
  OBVIOUS
<1> QED BY <1>2, <1>3, <1>4, AppendIs

\* An iteration begins: its index starts a row, or spoils the one that was open.
LEMMA StartListenerStep ==
    ASSUME SenderInv, ListenerInv, StartListener
    PROVE  ListenerInv'
<1>1. /\ ListenerTypes /\ MailInOrder /\ IndicesGrow /\ RowsOfOneMessage /\ OnlyTheAdmin
      /\ listener.at = "loop" /\ listener.i \in Nat /\ taken.at = "none"
      /\ listener' = [listener EXCEPT !.at = "started"] /\ UNCHANGED <<kind, sender, feed, foreign, taken>>
  BY DEF ListenerInv, ListenerTypes, StartListener, sending
<1>2. /\ listener' \in [i : Nat, at : {"loop", "started", "subscribed"}, event : SUBSET Mail]
      /\ listener'.at = "started" /\ listener'.i = listener.i /\ listener'.event = listener.event
  BY <1>1 DEF ListenerTypes
<1>3. \A n \in Nat : Begun(n) => Begun(n)' /\ n < listener.i
  BY <1>1, <1>2 DEF Begun
<1>4. CASE ~Listeners[kind].indexed
  <2>1. listener_log' = listener_log /\ listener_log = EmptyLog
    BY <1>1, <1>4 DEF StartListener, RowsOfOneMessage
  <2>2. IndicesGrow'
    BY <2>1 DEF IndicesGrow, EmptyLog
  <2> QED
    BY <1>1, <1>2, <1>4, <2>1, <2>2
       DEF ListenerInv, ListenerTypes, MailInOrder, Sent, RowsOfOneMessage, OnlyTheAdmin
<1>5. CASE Listeners[kind].indexed
  <2>1. PICK N, p : N = Len(listener_log.open) + 1 /\ p = Part("index", listener.i)
    OBVIOUS
  <2>2. p \in Parts /\ p.of = listener.i
    BY <1>1, <2>1, PartIsPart DEF Whats
  <2>3. listener_log' = Write(listener_log, p) /\ listener_log \in Logs
    BY <1>1, <1>5, <2>1 DEF StartListener, ListenerTypes
  <2>4. /\ listener_log' \in Logs /\ listener_log'.rows = listener_log.rows
        /\ DOMAIN listener_log'.open = DOMAIN listener_log.open \union {N}
        /\ listener_log'.open[N] = p
        /\ \A k \in DOMAIN listener_log.open :
              listener_log'.open[k] = listener_log.open[k] /\ listener_log.open[k] \in Parts
    BY <2>1, <2>2, <2>3, LogWrite DEF Logs
  <2>5. \A row \in listener_log.rows : ListenerRow(row) =>
            row[1].of \in Nat /\ Begun(row[1].of)' /\ row[1].of < listener.i
    <3>1. \A row \in listener_log.rows : ListenerRow(row) => row[1].of \in Nat
      BY <1>1, RowParts DEF Parts
    <3> QED BY <3>1, <1>1, <1>3 DEF IndicesGrow
  <2>6. ASSUME NEW k \in DOMAIN listener_log'.open, listener_log'.open[k].what = "index"
        PROVE  /\ Begun(listener_log.open[k].of)'
               /\ \A row \in listener_log.rows : ListenerRow(row) => row[1].of < listener_log'.open[k].of
    <3>1. CASE k = N
      BY <3>1, <2>2, <2>4, <2>5, <1>2 DEF Begun
    <3>2. CASE k \in DOMAIN listener_log.open
      <4>1. listener_log'.open[k] = listener_log.open[k] /\ listener_log.open[k].of \in Nat
        BY <3>2, <2>4 DEF Parts
      <4>2. /\ Begun(listener_log.open[k].of)
            /\ \A row \in listener_log.rows : ListenerRow(row) => row[1].of < listener_log.open[k].of
        BY <3>2, <4>1, <2>6, <1>1 DEF IndicesGrow
      <4>3. listener_log.open[k].of < listener.i
        BY <4>1, <4>2, <1>3
      <4> QED BY <4>1, <4>2, <4>3, <1>2 DEF Begun
    <3> QED BY <3>1, <3>2, <2>4
  <2>7. IndicesGrow'
    BY <2>4, <2>5, <2>6 DEF IndicesGrow, Begun
  <2> QED
    BY <1>1, <1>2, <1>5, <2>4, <2>7
       DEF ListenerInv, ListenerTypes, MailInOrder, Sent, RowsOfOneMessage, OnlyTheAdmin
<1> QED BY <1>4, <1>5

\* Steps of the listener that write nothing and take nothing.
LEMMA ListenerMovesOn ==
    ASSUME SenderInv, ListenerInv, UNCHANGED <<kind, sender, foreign, listener_log>>,
           listener' \in [i : Nat, at : {"loop", "started", "subscribed"}, event : SUBSET Mail],
           listener.i < listener'.i \/ (listener'.i = listener.i /\ listener.at # "loop" /\ listener'.at # "loop"),
           \/ UNCHANGED <<feed, taken>> /\ (listener'.at # "subscribed" => taken.at = "none")
           \/ UNCHANGED feed /\ listener'.at = "subscribed" /\ taken' \in [at : {"none", "deaf"}]
           \/ feed' = <<>> /\ taken' = Nobody,
           listener'.event \subseteq listener.event
             \/ (taken.at = "decoded" /\ listener'.event = listener.event \union {taken.m})
    PROVE  ListenerInv'
<1>1. ListenerTypes /\ MailInOrder /\ IndicesGrow /\ RowsOfOneMessage /\ OnlyTheAdmin
  BY DEF ListenerInv
<1>2. taken' = taken \/ taken'.at \in {"none", "deaf"}
  BY DEF Nobody
<1>3. feed' = feed \/ feed' = <<>>
  OBVIOUS
<1>4. ListenerTypes'
  <2>1. taken' \in [at : {"none", "deaf"}] \union [at : {"received", "decoded"}, m : Mail]
    <3>1. taken \in [at : {"none", "deaf"}] \union [at : {"received", "decoded"}, m : Mail]
      BY <1>1 DEF ListenerTypes
    <3>2. Nobody \in [at : {"none", "deaf"}]
      BY DEF Nobody
    <3> QED BY <3>1, <3>2
  <2>2. feed' \in Seq(Mail)
    <3>1. feed \in Seq(Mail) /\ <<>> \in Seq(Mail)
      BY <1>1 DEF ListenerTypes
    <3> QED BY <3>1, <1>3
  <2>3. listener'.at # "subscribed" => taken'.at = "none"
    BY DEF Nobody
  <2> QED BY <1>1, <2>1, <2>2, <2>3 DEF ListenerTypes
<1>5. MailInOrder'
  BY <1>1, <1>2, <1>3 DEF MailInOrder, Sent
<1>6. listener.i \in Nat /\ listener'.i \in Nat
  BY <1>1 DEF ListenerTypes
<1>7. \A n \in Nat : Begun(n) => Begun(n)'
  BY <1>6 DEF Begun
<1>8. \A row \in listener_log.rows : ListenerRow(row) => row[1].of \in Nat
  BY <1>1, RowParts DEF Parts
<1>9. \A k \in DOMAIN listener_log.open : listener_log.open[k].of \in Nat
  <2>1. listener_log.open \in Seq(Parts)
    BY <1>1 DEF ListenerTypes, Logs
  <2>2. \A k \in DOMAIN listener_log.open : listener_log.open[k] \in Parts
    BY <2>1
  <2> QED BY <2>2 DEF Parts
<1>10. IndicesGrow'
  <2>1. \A row \in listener_log.rows : ListenerRow(row) => Begun(row[1].of)'
    BY <1>1, <1>7, <1>8 DEF IndicesGrow
  <2>2. \A k \in DOMAIN listener_log.open :
          listener_log.open[k].what = "index" => Begun(listener_log.open[k].of)'
    BY <1>1, <1>7, <1>9 DEF IndicesGrow
  <2> QED BY <2>1, <2>2, <1>1 DEF IndicesGrow, Begun
<1>11. RowsOfOneMessage'
  BY <1>1, <1>2 DEF RowsOfOneMessage
<1>12. OnlyTheAdmin'
  BY <1>1, <1>2 DEF OnlyTheAdmin, FromAdmin
<1> QED BY <1>4, <1>5, <1>10, <1>11, <1>12 DEF ListenerInv

\* A message is taken, and the time it was received is written.
LEMMA CallbackStep ==
    ASSUME SenderInv, ListenerInv, Callback
    PROVE  ListenerInv'
<1>1. /\ ListenerTypes /\ MailInOrder /\ IndicesGrow /\ RowsOfOneMessage /\ OnlyTheAdmin
      /\ listener.at = "subscribed" /\ taken.at = "none" /\ feed # <<>> /\ feed \in Seq(Mail)
      /\ feed' = Tail(feed) /\ UNCHANGED <<kind, sender, foreign, listener>>
  BY DEF ListenerInv, ListenerTypes, Callback, sending
<1>2. PICK m \in Mail : m = Head(feed) /\ m = feed[1] /\ 1 \in DOMAIN feed
  BY <1>1
<1>3. taken' = [at |-> "received", m |-> m]
  BY <1>2 DEF Callback
<1>4. /\ feed' \in Seq(Mail)
      /\ \A k \in DOMAIN feed' : k \in Nat /\ k + 1 \in DOMAIN feed /\ 1 < k + 1 /\ feed'[k] = feed[k + 1]
  <2>1. PICK q \in Seq(Mail) : q = feed /\ q # <<>> /\ feed' = Tail(q)
    BY <1>1
  <2>2. /\ DOMAIN q = 1 .. Len(q) /\ DOMAIN Tail(q) = 1 .. Len(q) - 1 /\ Len(q) \in Nat \ {0}
        /\ \A k \in DOMAIN Tail(q) : Tail(q)[k] = q[k + 1]
    BY <2>1
  <2>3. \A k \in DOMAIN Tail(q) : k \in Nat /\ k + 1 \in DOMAIN q /\ 1 < k + 1
    BY <2>2
  <2> QED BY <2>1, <2>2, <2>3
<1>5. /\ listener_log' \in Logs /\ listener_log'.rows = listener_log.rows
      /\ \A k \in DOMAIN listener_log'.open : listener_log'.open[k].what = "index" =>
            k \in DOMAIN listener_log.open /\ listener_log'.open[k] = listener_log.open[k]
      /\ IF Listeners[kind].indexed
         THEN Len(listener_log'.open) > 0
              /\ listener_log'.open[Len(listener_log'.open)] = MessagePart("received", m)
         ELSE listener_log' = EmptyLog
  <2>1. CASE Listeners[kind].indexed
    <3>1. PICK N, p : N = Len(listener_log.open) + 1 /\ p = MessagePart("received", m)
      OBVIOUS
    <3>2. p \in Parts /\ p.what = "received"
      BY <3>1, MessagePartIsPart DEF Whats
    <3>3. listener_log' = Write(listener_log, p) /\ listener_log \in Logs
      BY <1>1, <1>2, <2>1, <3>1 DEF Callback, ListenerTypes
    <3>4. /\ listener_log' \in Logs /\ listener_log'.rows = listener_log.rows
          /\ N = Len(listener_log'.open) /\ N > 0
          /\ DOMAIN listener_log'.open = DOMAIN listener_log.open \union {N}
          /\ listener_log'.open[N] = p
          /\ \A k \in DOMAIN listener_log.open : listener_log'.open[k] = listener_log.open[k]
      BY <3>1, <3>2, <3>3, LogWrite
    <3> QED BY <2>1, <3>1, <3>2, <3>4
  <2>2. CASE ~Listeners[kind].indexed
    BY <2>2, <1>1 DEF Callback, RowsOfOneMessage, ListenerTypes
  <2> QED BY <2>1, <2>2
<1>6. ListenerTypes'
  BY <1>1, <1>3, <1>4, <1>5 DEF ListenerTypes
<1>7. MailInOrder'
  <2>1. \A k \in DOMAIN feed' : Sent(feed[k])'
    BY <1>1, <1>4 DEF MailInOrder, Sent
  <2>2. \A k, l \in DOMAIN feed' : k < l => Before(feed'[k], feed'[l])
    <3> SUFFICES ASSUME NEW k \in DOMAIN feed', NEW l \in DOMAIN feed', k < l
                 PROVE  Before(feed'[k], feed'[l])
      OBVIOUS
    <3>1. k + 1 \in DOMAIN feed /\ l + 1 \in DOMAIN feed /\ k + 1 < l + 1
      BY <1>4
    <3> QED BY <3>1, <1>1, <1>4 DEF MailInOrder
  <2>3. taken'.m = m /\ Sent(taken.m)' /\ \A k \in DOMAIN feed' : Before(m, feed'[k])
    BY <1>1, <1>2, <1>3, <1>4 DEF MailInOrder, Sent
  <2>4. \A row \in listener_log.rows : ListenerRow(row) =>
          Sent(row[3])' /\ (\A k \in DOMAIN feed' : Before(row[3], feed'[k])) /\ Before(row[3], m)
    BY <1>1, <1>2, <1>4 DEF MailInOrder, Sent
  <2> QED BY <2>1, <2>2, <2>3, <2>4, <1>3, <1>5 DEF MailInOrder, Before, Sent
<1>8. IndicesGrow'
  BY <1>1, <1>5 DEF IndicesGrow, Begun
<1>9. RowsOfOneMessage'
  BY <1>1, <1>3, <1>5 DEF RowsOfOneMessage
<1>10. OnlyTheAdmin'
  BY <1>1, <1>3 DEF OnlyTheAdmin
<1> QED BY <1>6, <1>7, <1>8, <1>9, <1>10 DEF ListenerInv

\* What was taken is decoded: its row is complete.
LEMMA DecodeStep ==
    ASSUME SenderInv, ListenerInv, Decode
    PROVE  ListenerInv'
<1>1. /\ ListenerTypes /\ MailInOrder /\ IndicesGrow /\ RowsOfOneMessage /\ OnlyTheAdmin
      /\ taken.at = "received" /\ UNCHANGED <<kind, sender, feed, foreign, listener>>
      /\ listener.at = "subscribed" /\ listener_log \in Logs
  BY DEF ListenerInv, ListenerTypes, Decode, sending
<1>2. PICK m \in Mail : m = taken.m /\ taken = [at |-> "received", m |-> m]
  BY <1>1 DEF ListenerTypes
<1>3. /\ taken' \in [at : {"none", "deaf"}] \union [at : {"received", "decoded"}, m : Mail]
      /\ taken'.at # "received"
      /\ Listeners[kind].admin_only /\ taken'.at = "decoded" => FromAdmin(taken'.m)
  <2>1. taken' = IF Listeners[kind].admin_only => FromAdmin(m)
                 THEN [at |-> "decoded", m |-> m] ELSE Nobody
    BY <1>2 DEF Decode
  <2>2. CASE Listeners[kind].admin_only => FromAdmin(m)
    BY <2>1, <2>2
  <2>3. CASE ~(Listeners[kind].admin_only => FromAdmin(m))
    BY <2>1, <2>3 DEF Nobody
  <2> QED BY <2>2, <2>3
<1>4. CASE ~Listeners[kind].indexed
  <2>1. listener_log' = listener_log
    BY <1>4 DEF Decode
  <2> QED
    BY <2>1, <1>1, <1>3, <1>4
       DEF ListenerInv, ListenerTypes, MailInOrder, Sent, IndicesGrow, Begun, RowsOfOneMessage, OnlyTheAdmin
<1>5. CASE Listeners[kind].indexed
  <2>1. PICK p, new, open : /\ p = MessagePart("decoded", m) /\ new = Append(open, p)
                            /\ open = listener_log.open
    OBVIOUS
  <2>2. p \in Parts /\ p.what = "decoded" /\ p.by = m.by /\ p.of = m.of
    BY <2>1, MessagePartIsPart DEF Whats
  <2>3. open \in Seq(Parts)
    BY <1>1, <2>1 DEF Logs
  <2>4. /\ listener_log' \in Logs /\ listener_log'.rows = listener_log.rows \union {new}
        /\ listener_log'.open = <<>>
    BY <1>1, <1>2, <1>5, <2>1, <2>2, WriteWrites DEF Decode
  <2>5. ASSUME ListenerRow(new)
        PROVE  /\ new[1] = open[1] /\ open[1].what = "index" /\ 1 \in DOMAIN open
               /\ new[2] = MessagePart("received", m) /\ new[3] = p
    <3>1. /\ Len(new) = Len(open) + 1 /\ Len(open) \in Nat /\ new[Len(open) + 1] = p
          /\ \A k \in 1 .. Len(open) : new[k] = open[k]
      BY <2>1, <2>2, <2>3, AppendIs
    <3>2. \A n \in Nat : n + 1 = 3 => n = 2
      OBVIOUS
    <3>3. Len(open) = 2
      BY <3>1, <3>2, <2>5 DEF ListenerRow
    <3>4. open[Len(open)] = MessagePart("received", m)
      BY <1>1, <1>2, <1>5, <2>1 DEF RowsOfOneMessage
    <3>5. DOMAIN open = 1 .. Len(open)
      BY <2>3
    <3>6. new[1] = open[1] /\ new[2] = open[2] /\ 1 \in DOMAIN open
      BY <3>1, <3>3, <3>5
    <3>7. new[3] = p
      BY <3>1, <3>3
    <3> QED BY <3>3, <3>4, <3>6, <3>7, <2>5 DEF ListenerRow
  <2>6. ListenerTypes'
    BY <1>1, <1>3, <2>4 DEF ListenerTypes
  <2>7. MailInOrder'
    <3>1. Sent(p)' /\ \A k \in DOMAIN feed : Before(p, feed[k])
      BY <1>1, <1>2, <2>2 DEF MailInOrder, Sent, Before
    <3>2. ASSUME NEW row \in listener_log'.rows, ListenerRow(row)
          PROVE  Sent(row[3])' /\ \A k \in DOMAIN feed : Before(row[3], feed[k])
      <4>1. CASE row = new
        BY <4>1, <3>1, <3>2, <2>5 DEF Sent
      <4>2. CASE row \in listener_log.rows
        BY <4>2, <3>2, <1>1 DEF MailInOrder, Sent
      <4> QED BY <4>1, <4>2, <2>4
    <3> QED BY <3>2, <1>1, <1>3 DEF MailInOrder, Sent
  <2>8. IndicesGrow'
    <3>1. ASSUME NEW row \in listener_log'.rows, ListenerRow(row)
          PROVE  Begun(row[1].of)'
      <4>1. CASE row = new
        BY <4>1, <3>1, <2>1, <2>5, <1>1 DEF IndicesGrow, Begun
      <4>2. CASE row \in listener_log.rows
        BY <4>2, <3>1, <1>1 DEF IndicesGrow, Begun
      <4> QED BY <4>1, <4>2, <2>4
    <3> QED BY <3>1, <2>4 DEF IndicesGrow, Begun
  <2>9. ASSUME NEW row \in listener_log'.rows, ListenerRow(row)
        PROVE  /\ row[2] = MessagePart("received", row[3]) /\ row[3].what = "decoded"
               /\ \A other \in listener_log'.rows :
                     ListenerRow(other) /\ other[1].of > row[1].of => Before(row[3], other[3])
    <3>1. CASE row = new
      <4>1. row[2] = MessagePart("received", row[3]) /\ row[3].what = "decoded"
        BY <3>1, <2>2, <2>5, <2>9 DEF MessagePart
      <4>2. ASSUME NEW other \in listener_log'.rows, ListenerRow(other), other[1].of > row[1].of
            PROVE  FALSE
        <5>1. CASE other = new
          <6>1. new[1] \in Parts
            BY <2>3, <2>5, <2>9, <3>1
          <6> QED BY <5>1, <6>1, <3>1, <4>2 DEF Parts
        <5>2. CASE other \in listener_log.rows
          <6>1. other[1].of < open[1].of /\ new[1] = open[1]
            BY <5>2, <4>2, <3>1, <2>1, <2>5, <2>9, <1>1 DEF IndicesGrow
          <6>2. open[1] \in Parts /\ other[1] \in Parts
            BY <5>2, <4>2, <3>1, <2>3, <2>5, <2>9, <1>1, RowParts
          <6> QED BY <6>1, <6>2, <3>1, <4>2 DEF Parts
        <5> QED BY <5>1, <5>2, <2>4
      <4> QED BY <4>1, <4>2
    <3>2. CASE row \in listener_log.rows
      <4>1. /\ row[2] = MessagePart("received", row[3]) /\ row[3].what = "decoded"
            /\ \A other \in listener_log.rows :
                  ListenerRow(other) /\ other[1].of > row[1].of => Before(row[3], other[3])
            /\ Before(row[3], m)
        BY <3>2, <2>9, <1>1, <1>2 DEF RowsOfOneMessage, MailInOrder
      <4>2. ListenerRow(new) => Before(row[3], new[3])
        BY <4>1, <2>2, <2>5 DEF Before
      <4> QED BY <4>1, <4>2, <2>4
    <3> QED BY <3>1, <3>2, <2>4
  <2>10. RowsOfOneMessage'
    BY <2>9, <1>1, <1>3, <1>5 DEF RowsOfOneMessage
  <2>11. OnlyTheAdmin'
    BY <1>1, <1>3 DEF OnlyTheAdmin
  <2> QED BY <2>6, <2>7, <2>8, <2>10, <2>11 DEF ListenerInv
<1> QED BY <1>4, <1>5

\* Every step of senders, listeners and others keeps the invariant.
LEMMA ExchangeStep ==
    ASSUME ExchangeInv, [ExchangeNext]_exchange
    PROVE  ExchangeInv'
<1> USE ExchangeAssumption DEF sending, listening
<1>1. SenderInv /\ ListenerInv /\ ListenerTypes /\ OnlyTheAdmin
  BY DEF ExchangeInv, ListenerInv
<1>2. SenderInv'
  BY <1>1, SenderStep
<1>3. CASE \/ UNCHANGED exchange \/ StoreMnemonic \/ (\E name \in AccountScripts(kind) : CreateAccount(name))
           \/ StartSender \/ SyncAccount \/ ReadCertificate \/ SendReturns \/ SenderRaises
  <2>1. UNCHANGED <<kind, feed, foreign, listening>>
    BY <1>3 DEF exchange, StoreMnemonic, CreateAccount, StartSender, SyncAccount, ReadCertificate, SendReturns,
                SenderRaises
  <2> QED BY <2>1, <1>1, <1>2, QuietStep DEF ExchangeInv
<1>4. CASE Attach
  <2>1. PICK m \in Mail : m = [by |-> "sender", of |-> sender.i, wellformed |-> TRUE]
    BY <1>1 DEF SenderInv, Mail
  <2>2. /\ Deliver(m) /\ UNCHANGED <<kind, foreign, listening>> /\ sender.at = "send"
        /\ sender' = [sender EXCEPT !.at = "attached"]
    BY <1>4, <2>1 DEF Attach, SenderAt, Sends
  <2>3. Sent(m)'
    BY <1>1, <2>1, <2>2 DEF Sent, SenderInv
  <2> QED BY <2>1, <2>2, <2>3, <1>1, <1>2, DeliverStep DEF ExchangeInv, ListenerTypes
<1>5. ASSUME NEW m \in foreign, OthersSend(m)
      PROVE  ExchangeInv'
  <2>1. m \in Mail /\ m.by = "others"
    BY <1>1 DEF ListenerTypes, Mail
  <2>2. Deliver(m) /\ foreign' \subseteq Foreign /\ UNCHANGED <<kind, listening>> /\ Sent(m)'
    BY <1>1, <1>5, <2>1 DEF OthersSend, ListenerTypes, Sent
  <2> QED BY <2>1, <2>2, <1>1, <1>2, DeliverStep DEF ExchangeInv
<1>6. CASE ListenMqtt \/ ListenerRaises \/ CallbackRaises \/ SetEvent \/ ExitListener
  <2>0. /\ listener \in [i : Nat, at : {"loop", "started", "subscribed"}, event : SUBSET Mail] /\ listener.i \in Nat
        /\ (listener.at # "subscribed" => taken.at = "none")
        /\ (taken.at = "decoded" => taken.m \in Mail)
    BY <1>1 DEF ListenerTypes
  <2>1. CASE ListenMqtt
    BY <2>0, <2>1, <1>1, <1>2, ListenerMovesOn DEF ListenMqtt, ExchangeInv
  <2>2. CASE ListenerRaises
    <3>1. /\ listener' \in [i : Nat, at : {"loop", "started", "subscribed"}, event : SUBSET Mail]
          /\ listener'.i = listener.i + 1 /\ listener'.event = listener.event /\ taken.at = "none"
          /\ UNCHANGED <<kind, sender, foreign, feed, taken, listener_log>>
      <4>1. /\ listener' = [listener EXCEPT !.i = listener.i + 1, !.at = "loop"] /\ listener.i + 1 \in Nat
            /\ listener.at = "started" /\ UNCHANGED <<kind, sender, foreign, feed, taken, listener_log>>
        BY <2>0, <2>2 DEF ListenerRaises
      <4> QED BY <4>1, <2>0
    <3>2. listener.i < listener'.i
      BY <2>0, <3>1
    <3>3. ListenerInv'
      BY <3>1, <3>2, <1>1, ListenerMovesOn
    <3> QED BY <3>3, <1>2 DEF ExchangeInv
  <2>3. CASE CallbackRaises
    BY <2>0, <2>3, <1>1, <1>2, ListenerMovesOn DEF CallbackRaises, ExchangeInv, Nobody
  <2>4. CASE SetEvent
    BY <2>0, <2>4, <1>1, <1>2, ListenerMovesOn DEF SetEvent, ExchangeInv, Nobody
  <2>5. CASE ExitListener
    BY <2>0, <2>5, <1>1, <1>2, ListenerMovesOn DEF ExitListener, ExchangeInv
  <2> QED BY <1>6, <2>1, <2>2, <2>3, <2>4, <2>5
<1>7. CASE StartListener \/ Callback \/ Decode
  BY <1>1, <1>2, <1>7, StartListenerStep, CallbackStep, DecodeStep DEF ExchangeInv
<1> QED
  BY <1>3, <1>4, <1>5, <1>6, <1>7 DEF ExchangeNext

---------------------------------------------------------------------------
\* testbed.py, for any invocations and answers: a command of the installer is run with
\* sudo only after its question was answered with yes, and docker compose, which is run
\* with sudo unasked, only where the command line asks for it.
THEOREM SudoConfirmed == Spec => []SudoIsConfirmed
<1>1. Init => TestbedInv
  BY DEF Init, TestbedInit, TestbedInv, SudoIsConfirmed, No
<1>2. TestbedInv /\ [Next]_vars => TestbedInv'
  <2>1. [Next]_vars => [TestbedNext]_testbed
    BY DEF Next, vars
  <2> QED BY <2>1, SudoStep
<1>3. TestbedInv => SudoIsConfirmed
  BY DEF TestbedInv
<1> QED
  BY <1>1, <1>2, <1>3, PTL DEF Spec

\* The tools that are not used start from one of their states.
LEMMA VariedIs == ASSUME NEW t, NEW S, S # {} PROVE Varied(t, S) \subseteq S
BY DEF Varied

\* The campaign's inductive invariant, among the other tools.
LEMMA CampaignInvariant == Spec => []CampaignInv
<1>1. Init => CampaignInv
  <2> SUFFICES ASSUME Init PROVE CampaignInv
    OBVIOUS
  <2>1. Varied("campaign", Leftovers) \subseteq Leftovers
    BY CampaignAssumption, VariedIs
  <2>2. PICK leftover \in Leftovers, abort \in Varied("campaign", BOOLEAN) : CampaignInit(leftover, abort)
    BY <2>1 DEF Init
  <2> QED BY <2>2, CampaignStarts
<1>2. CampaignInv /\ [Next]_vars => CampaignInv'
  <2>1. [Next]_vars => CampaignNext \/ UNCHANGED campaign
    BY DEF Next, vars
  <2> QED BY <2>1, CampaignStep, CampaignStutters
<1> QED
  BY <1>1, <1>2, PTL DEF Spec

\* run_cert_size_overhead.sh, for any plan and leftovers, any steps that fail and any number
\* of files that cannot be copied, removed or written: a run that is over is listed as
\* failed or has metadata of sessions that were captured, with certificates of its own
\* run, and of its own key size unless that key could not be copied; the exit code tells
\* the two apart. Metadata that could not be written is the other exception.
THEOREM CampaignAccounted == Spec => []RunsAreAccountedFor
<1>1. CampaignInv => RunsAreAccountedFor
  BY DEF CampaignInv
<1> QED
  BY <1>1, CampaignInvariant, PTL

\* run_cert_size_overhead.sh and generate_certificate.py: no session is refused for its
\* certificates, and the generated files belong together, whatever was left by runs
\* before, also by runs that broke off.
THEOREM CertificatesAlwaysAgree == Spec => []CertificatesAgree
<1>1. Init => GeneratorInv
  <2> SUFFICES ASSUME Init PROVE GeneratorInv
    OBVIOUS
  <2>1. generating = "idle" /\ files = [f \in FileSet |-> Absent]
    BY FileSetIs DEF Init, GeneratorInit
  <2>2. ~Whole("myserver.der")
    BY <2>1 DEF Whole, FileSet
  <2> QED BY <2>1, <2>2 DEF GeneratorInv, GeneratedSoFar, FilesBelongTogether
<1>2. GeneratorInv /\ [Next]_vars => GeneratorInv'
  <2>1. [Next]_vars => [GeneratorNext]_generator
    BY DEF Next, vars
  <2> QED BY <2>1, GeneratorStep
<1>3. CampaignInv /\ GeneratorInv => CertificatesAgree
  BY DEF CampaignInv, GeneratorInv, CertificatesAgree
<1> QED
  BY <1>1, <1>2, <1>3, CampaignInvariant, PTL DEF Spec

\* The exchange over the Tangle (mqtt/ and its scripts), for any number of iterations and
\* any messages of others: a complete row is of one iteration, or of one message.
THEOREM RowsGenuine == Spec => []RowsAreGenuine
<1>1. Init => ExchangeInv
  <2> SUFFICES ASSUME Init PROVE ExchangeInv
    OBVIOUS
  <2>1. SenderInv
    BY DEF Init, ExchangeInit, SenderInv, EmptyLog, Logs
  <2>2. ListenerInv
    <3>1. /\ sender = [i |-> 1, at |-> "loop"] /\ feed = <<>> /\ foreign = Foreign
          /\ listener = [i |-> 1, at |-> "loop", event |-> {}]
          /\ taken = [at |-> "none"] /\ listener_log = EmptyLog
          /\ EmptyLog \in Logs /\ EmptyLog.rows = {} /\ EmptyLog.open = <<>>
      BY DEF Init, ExchangeInit, Nobody, EmptyLog, Logs
    <3>2. ListenerTypes
      BY <3>1 DEF ListenerTypes
    <3>3. MailInOrder
      BY <3>1 DEF MailInOrder
    <3>4. IndicesGrow
      BY <3>1 DEF IndicesGrow
    <3>5. RowsOfOneMessage
      BY <3>1 DEF RowsOfOneMessage
    <3>6. OnlyTheAdmin
      BY <3>1 DEF OnlyTheAdmin
    <3> QED BY <3>2, <3>3, <3>4, <3>5, <3>6 DEF ListenerInv
  <2> QED BY <2>1, <2>2 DEF ExchangeInv
<1>2. ExchangeInv /\ [Next]_vars => ExchangeInv'
  <2>1. [Next]_vars => [ExchangeNext]_exchange
    BY DEF Next, vars
  <2> QED BY <2>1, ExchangeStep
<1> QED
  BY <1>1, <1>2, ExchangeInvImplies, PTL DEF Spec

\* App.js and nanomsg_client.py, for any accounts, events, messages and programs: the page
\* prints every event it subscribed to once and in order, and acts for an account that is
\* saved; whatever messages of the event log are lost, its client prints the names of the
\* program that logged them, or ahead of an announcement of another, unless an
\* announcement was lost or came before it subscribed.
THEOREM SubscribersServed == Spec => []SubscribersAgree
<1>1. Init => EventLogInv /\ WalletInv /\ FeedInv
  <2> SUFFICES ASSUME Init PROVE EventLogInv /\ WalletInv /\ FeedInv
    OBVIOUS
  <2>1. EventLogInv
    BY EventLogAssumption DEF Init, EventLogInit, EventLogInv, LogOfProgram, NamesOfProgram, PrintedInTime, Changes
  <2>2. WalletInv
    BY DEF Init, PageInit, WalletInv, NoAccount, Wallets
  <2>3. FeedInv
    BY DEF Init, PageInit, FeedInv, FeedTypes, SubscribedOnce, LinesOfSubscriptions, FeedIsFaithful
  <2> QED BY <2>1, <2>2, <2>3
<1>2. EventLogInv /\ [Next]_vars => EventLogInv'
  <2>1. [Next]_vars => [EventLogNext]_eventlog
    BY DEF Next, vars
  <2> QED BY <2>1, EventLogStep
<1>3. WalletInv /\ [Next]_vars => WalletInv'
  <2>1. [Next]_vars => [PageNext]_page
    BY DEF Next, vars
  <2> QED BY <2>1, WalletStep
<1>4. FeedInv /\ [Next]_vars => FeedInv'
  <2>1. [Next]_vars => [PageNext]_page
    BY DEF Next, vars
  <2> QED BY <2>1, FeedStep
<1>5. EventLogInv /\ WalletInv /\ FeedInv => SubscribersAgree
  BY EventLogInvImplies DEF WalletInv, FeedInv, DefaultAccountIsSaved, PageSessionAgrees,
                           SubscribersAgree
<1> QED
  BY <1>1, <1>2, <1>3, <1>4, <1>5, PTL DEF Spec
=============================================================================
