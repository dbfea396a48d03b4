# Pk-IOTA: a TLA+ verification of its certificate management

Pk-IOTA distributes and revokes OPC UA certificates. A smart contract on the IOTA EVM ledger records
certificates and revocations, a web page manages them, and P4 switches in front of the OPC UA devices
let an `OpenSecureChannel` (OPN) message pass only if the thumbprint it carries is listed. The
repository adds the testbeds in which this is measured: a simulated industrial process, lab scripts
that run campaigns, and an analysis of the captured traffic.

This directory models the parts that keep state and make decisions, checks them with TLC on small
instances and proves the most important facts with TLAPS for every value of the constants.
`PROJECT.json` holds the same in machine readable form: runs, the source lines each definition
translates, hazards, findings and theorems.

## Inventory

| Component | State | Operations | Interacts through | What is hard | Correct when |
|---|---|---|---|---|---|
| Registry contract `OCSP_v1.2_newcompiler.sol` | mapping of certificates, id array, id counter | `addCertificate`, `createStruct`, `revokeCertificate`, `revokeCertificateByID`, four views | transactions, events | call sequences nobody planned, inclusive scans over 1-based ids, a public helper | issued records are final, revocation is complete, listings are exact |
| Page `sc_frontend/src` | message line, pending handlers | three forms, listing, single read | web3 promises, the node's pool | overlapping handlers, reads of several blocks, timeouts of a transaction that is mined later | a success message is true, a listing is of one block, nobody waits for ever |
| Its wallet and event feed | accounts in memory and storage, subscriptions | create, save, load, subscribe | browser storage, websocket | StrictMode renders twice, delayed subscriptions, reloads | each event is printed once, a saved account acts |
| P4 switch `opcua_extraction.p4` | headers and metadata of a packet, two tables | parser states, ingress control | frames, table commands | 16 and 32 bit arithmetic in bits, errors at any state, tables edited meanwhile | listed thumbprints required of all supported messages, nothing else dropped |
| Switch event log client `nanomsg_client.py` | names of the program's objects | subscribe, name, print, ask for names again | BMv2 event log, Thrift | the program is exchanged among events in flight, messages are lost | events are named by the program that logged them, but for exchanges it was not told of |
| Control plane `update_thumbprints.sh` | tables | clear, add | `simple_switch_CLI` | non-atomic update | the table is not left half filled unnoticed |
| Campaign `run_cert_size_overhead.sh`, its client and server | keys, certificates, lab, results | twenty steps per run, retry, clean up | Kathara, shared files, OPC UA | a step fails or times out, files of earlier work | a run is reported for what it was; certificates fit |
| Capture scripts | one tcpdump per interface and direction | start, stop | files | order among moving traffic | reported drops are drops |
| Capture analysis `common_pcap_analysis.py`, `generic_overhead_analyzer.py` | FIFO queue per fingerprint, results per run | discover, parse, pair, count, grade, summarise | pcap files | retransmissions, torn files, captures of different length | counts add up, no pair is wrong, a passed grade is earned |
| OT simulator `simulator/*.py` | actuators, water, temperature, damage, cache, mutex | tick, read, write, reset | five threads | Python threads interleave between any two field accesses | a request is seen whole, a read is fresh and ordered |
| Modbus server `modbus_server.py` | none of its own | validate, read, write of four tables | simulator | addresses shifted by one, inclusive bounds | what is accepted is served |
| OPC UA server `opc_ua_server.py` | nodes | publish each second | simulator | a round is not atomic, clients write | no node lags more than a round |
| Visualizer page `visualizer.py`, `index.js` | what it drew | fetch, reset | HTTP | answers overtake each other | what it draws was so |
| PLC program `heater.st` | inputs, outputs | a scan each 20 ms, a poll each 250 ms | Modbus | stale inputs, resets, coils set one by one | fill and drain exclude each other but for the moment of a write, no damage |
| Exchange scripts `IOTA_src/mqtt` | logs, wallet | send, listen, verify, loops | MQTT feed, Tangle | loss between two subscriptions, killed scripts | a row of the log is of one message |
| Testbed script `testbed.py` | files it leaves, packages | install, make certificates, build, start, stop | apt, Docker, an operator | answers and options combined | the installer runs nothing with sudo unasked |
| Certificate generator `generate_certificate.py` | six files | five steps | files | a step raises, the script is killed | the files fit each other |

## Modules

| Module | Models |
|---|---|
| `CertRegistry` | the contract: one action per function that writes, one operator per view; blocks move the clock |
| `OCSPLedger`, `CertRegistryRefinement` | what the contract promises (an append-only list of certificates and a growing set of revoked numbers), and the mapping from its storage to that |
| `RegistryFrontend` | the page's forms and reads, composed with `CertRegistry`, the node's pool and other users |
| `OpcuaExtraction` | the P4 program |
| `SimulatorMiddleware` | `simulator_middleware.py` among the threads that call it |
| `HeaterProcess`, `ModbusServer`, `HeaterPlant` | the simulated tank; the four Modbus tables; both with PLC, OPC UA server and page |
| `CaptureSession`, `PcapAnalysis`, `OverheadReport`, `OverheadCampaign` | captures around moving frames; parsing and pairing; discovery, grading, summary; the three together |
| `CertificateCampaign`, `TangleExchange`, `TestbedScript`, `PageSession`, `CertificateGenerator`, `SwitchEventLog` | one tool each |
| `LabTools` | these six side by side: a state picks one of them |
| `*_proofs` | theorems about `CertRegistry`, `RegistryFrontend`, `OpcuaExtraction`, `SimulatorMiddleware`, `HeaterPlant`, `OverheadCampaign` and `LabTools`; those about the campaign's steps are in `CertificateCampaign_proofs`, which `LabTools_proofs` extends |
| `MC*` | constants, symmetry and views of the runs |

### CertRegistry

`certificates`, `certificateIDs` and `certificateIDincr` are the contract's storage. The mapping is total:
slots never written read as zeros. `createStruct` is declared `public`, so it is a transaction of its own
(`CreateStruct`), which writes the next slot without consuming it; `AddCertificate` is the same write
followed by the increment and the event. `revokeCertificate` has its `break` commented out: it revokes
every match of an inclusive scan. `receipt` holds the events of the last transaction. `SlotLeft` bounds
the ids; on the EVM the same guard is the impossibility of 2^256 calls.

*Argument.* Slots are numbered from 1, scans run over `0 .. length`, and `createStruct` makes array and
counter drift apart. `CounterAndArrayAgree` is the inductive invariant that keeps the scans right: the
array is never shorter than the counter says, nothing is written ahead of the counter, and a write into
the slot of the counter has pushed an entry. `WrittenSlotsScanned` follows, and from it that a revocation
leaves no copy. Issued records are final because every write goes to the counter's slot.

`ListingExact` compares the loop of `getAllCertificates` with the set it should return. The loop is a fold,
so the proof first shows that the recursive function under the fold exists, and then goes by induction over
the naturals: after `n` entries the accumulator holds the valid ids among the first `n`, ascending. The
induction is stated about sets (what holds of 0 and of `n + 1` with `n` holds of all) and proved from the least
element of a set of numbers, since the library's version takes an operator as parameter.

### OpcuaExtraction

A packet is the few numbers the parser reads. `state` is the parser state, `left` the bytes after the
cursor, and each parser state that extracts or branches is an action; the states that only select are
part of the action that leads to them. An extraction that does not fit the frame or the header ends the
parser, and BMv2 hands the packet to ingress with that header invalid. Lengths keep their width:
`payload_length` is 16 bits that count bits, varbit lengths are `8 * n` on 32 bits, comparisons are
unsigned. `TableAdd` and `TableClear` (the commands of `update_thumbprints.sh`) come between any two steps.

`Decision` says what the switch is for without words and states; `DecisionAsMeant` compares the two at
every ingress step. It excludes the payload sizes of the finding below and frames no IP stack builds.

*Argument.* `CursorInv` says, for each parser state, which part of a regular frame is behind the cursor and
that the frame has passed every test on the way; at `ingress` it says that the two flags are what the whole
message makes them. Each step is one case: either the extraction fits, and the cursor moves by what the
next state expects, or the frame is too short for the rest, and `Oversized` and `Checked` are both false.
The words enter in two places: `PayloadLength` (16 bits of bits are the payload modulo 8192 bytes) and
`UriFits` (a varbit of `8 * n` bits takes `n` bytes, unless `n` is negative, when it fits no frame).

### RegistryFrontend

A handler is idle, has sent a transaction, or is between two reads of a listing. The forms share one
shape (`Submit`, then `Resolve` or `Reject`). `pool` holds signed transactions: blocks take them in any
order, run them out of gas, and take those of handlers that gave up or were reloaded (`Nobody`).
`Others` is any step of `CertRegistry`. `since` and `valid` are history fields that only properties read.

*Argument.* `PageInv` ties each pooled transaction to one handler that waits for it. What a handler may
report (`Holds`: its certificate is recorded, or no valid copy of it is left) becomes true in the block that
takes the transaction and stays true, since issued records are final. `ListInv` stands beside it for the
handlers that list: at its turn a row is of the block it is read in, the ids are those `ListingExact` gives
for the first read, and what the rows shown so far say of issued ids stays true, again because records are
final and a revocation is not undone.

### SimulatorMiddleware

Every access to a field of the simulator is a step, since Python may switch threads between any two.
`read_data` and `write_data` hold the mutex, a web reset and the ticks do not. A tick reads the
temperature and writes it back, so a reset in between is lost. The wall clock may step back, which is the
only case in which the cache is used, and it is copied without the mutex (`CopyCache`). Of nine values
read, six are kept: the four actuators and the two gauges that are functions of one quantity. `changed` is
a history set: who changed an actuator during whose call.

### HeaterProcess, ModbusServer, HeaterPlant

`HeaterProcess` is the process itself, field by field: a tick loads a field, and stores it in a later step; a
reset writes the fields in their order; a read takes the sensors one after the other, the low one before the
high one; a write sets one coil after the other. Read and write hold the mutex, and tick and reset come between
any two of their steps. The water level of a tick has two parts, one for each valve. So a reset that falls into
a tick is undone in part (`torn` notes a level stored by such a tick during a read). Levels count fill units,
temperatures half degrees: a tick moves the temperature by less than a half degree, and several of them between
two polls of the PLC by no more than one.

`ModbusServer` holds validation and callbacks of the four tables on addresses as pymodbus passes them, one
higher than in the request. `HeaterPlant` connects the process to what a deployment has of: the PLC (`Scan`
is one cycle of `heater.st`; its master reads the inputs, writes its outputs coil by coil, and reads the
registers, and its button is a coil of the PLC that never reaches the simulator), other Modbus clients, the
OPC UA server (a snapshot per round, then node after node; values written by clients never reach the
simulator and stay in the nodes until a snapshot taken later is published; the thread may die while it
starts and the others go on), and the page (fetches are answered in any order).

*Argument.* Four invariants each have a reason of their own: readers see the low sensor first and no
step but a tick that loaded before a reset raises the level under a reader (`TickInv`, `ReadInv`); the
master's two valve outputs are computed from opposite conditions, and what a write of it has not set yet is
what will make them so (`CoilsInv`), so both valves are open only between two steps of such a write, when
nobody can read; a round publishes nodes in order (`NodesInv`); each address that `validate` accepts has a
field behind it (`ServedInv`).

`DryHeatIsBrief` follows the master's cycle: a dry write means that the level was not high when the coils
were written, so the next poll reads the high sensor off, the scan after it switches the heater off, and the
third write is `off` (`DryInv`; `MasterInv` says that only the master reads for the PLC, before its scan). No
damage is the same chain with the temperature in it (`HeatInv`, `OffInv`, `HarmlessInv`): below `max_temp`
when the master last read that it is, a half degree more after each of the two readings that may pass until
the heater is off. `Margin` states what numbers that needs, and `NeverDamagedWhileControlled` assumes it:
the ambient temperature below `max_temp`, `max_temp` and a half degree, plus one half for every reset, below
the temperature that does damage, and a pressure of at most 500 up to there. The half per reset is for a tick that
undoes a part of a reset and so hides one reading. The program's 95 and 97 degrees leave room for two
resets. With a third, TLC would reach damage in the model, because the model lets the temperature stay
while the tank refills; in the program a refill takes some 95 ticks, in which the heater cools by about ten
degrees.

### CaptureSession, PcapAnalysis, OverheadReport, OverheadCampaign

`CaptureSession` is the switch with one tcpdump per interface and direction. The scripts start them one
after the other, stop the ingress captures, wait, and stop the egress captures; frames may be moving all the
while, be copied, dropped, reordered, and are stamped when they are captured. `passage` is the history of
every frame.

`PcapAnalysis` translates the parser (record by record, VLAN, padding, the lengths of the OPN security
header), the classes, and `analyze_paths`: egress packets take the oldest ingress packet of their
fingerprint. `OverheadReport` translates discovery, which passes over places it cannot read, the grades, the
summary over pairs of variants and the exit status. Means and deviations are fractions; a deviation is taken
by its square and a confidence interval by its factor. `OverheadCampaign` saves the live captures among
those of earlier runs and analyses all of them; pairing is one action per packet.

What the code does and no property objects to: egress packets without a partner are counted and never
graded; a variant or a direction that is missing goes unnoticed unless it is required; two directories of the
same run and variant overwrite each other in the results and both appear in `per_run.csv`; failed runs
enter the summary.

*Argument.* One invariant for each property, the later ones using the earlier.

- `FifoInv` (`PairingIsFifo`): each queue holds increasing places of packets with its own fingerprint, every
  place in it is later than those already paired, and pairs grow in the egress place.
- `TypeInv` (`TypeOK`) is by part: what captures, directories and records are (`SessionInv`), what queues
  and pairs point at (`PairInv`), what is stored (`ReportInv`). Reading and sorting select positions of a
  sequence; the lemmas about them say that counting the positions of a finite set numbers them.
- `CoverInv` and `StoredInv` (`CountsAddUp`): every ingress packet is paired, in its queue or still to come, every
  egress packet is paired, unmatched or still to come, and what is stored are counters that add up. The
  differences of the summary are sums of fractions, taken by induction over the finite set of runs.
- `GradeInv` (`PassIsEarned`): what is stored is what the last record of its key says. With nothing left over and
  no negative delay, each packet that entered has one of its own that left later, at any time.
- `MeasuredInv` (`DropsAreReal`, `NegativeDelayMeansMissedIngress`) relates captures to history: `HistoryInv`
  says who is capturing when, that stamps are of the past, that a capture holds exactly the passages seen
  by it, and that of frames none of which was seen on its way out alone no more had left than come, at any
  time. `LoneInv`: an egress packet without a partner never gets one. Reading, sorting and pairing keep the
  count of every key, so what stays in a queue is what came and did not leave.

`CampaignsAssumption` says what a campaign is: places that hold captures of the switches of the lab, one of
which may be the live one. Beyond that, what is in the files is free.

### The tools

`CertificateCampaign`: keys once, certificates and a lab for every run, sessions through the switch while it
is captured. Any step may fail or time out; errexit is off inside a function called from a condition,
so some failures go on: a key that cannot be copied (lines 198-199) leaves the old one, none, or part of the
new one, and the run is recorded with the `key_bits` of its directory all the same; `metadata.env` may fail to
be written, and a run without it counts as measured. The `rm` of the old certificates is the last command of
its function, so when it fails the run does. `faults` is the history of these, and `Sound` names the two that
go unnoticed as exceptions. A key that is missing in a container is made there, of the size of the library;
part of a key cannot be loaded, which fails the run. Captures may be empty or missing. `metadata.env` is
written for failed runs too, and a failing last clean-up fails a measured run. `openssl` and `stat` are taken
to work on a certificate that is there. A client that timed out on the host goes on in its container.
The server adds one to `MyVariable` in two steps, around the writes of clients.

`TangleExchange`: four pairs of scripts that send a certificate as tagged data and get it from the feed of a
node, each restarted by a shell loop; messages between two subscriptions are lost, callbacks raise or are cut
off. The iterations of the loops may drift apart, after which the evaluation compares times of different
messages. Nothing is delivered twice. In three listeners the check of the admin's key is commented out.

`TestbedScript`: options and answers of `testbed.py`. With its defaults every sudo command of the installer ends
the script unasked; `--build`, `--start` and `--stop` run `sudo docker compose` without a question, whatever the
options; `ran` records every command with the command line that led to it, and whether it was confirmed.
"uninstall old docker" runs on a no; `.currently-running` is written before `up`.

`PageSession`: the module variable `done` keeps a second rendering from subscribing twice; the websocket
does not reconnect; whoever creates an account without loading first overwrites the saved ones. A wallet is
kept as its first account, the only one the page ever acts for, and the set of all of them.

`CertificateGenerator`: a failure is printed and the script ends with 0; killed while it writes, it leaves a
torn file.

`SwitchEventLog`: names are asked for over another connection than the events come by, before the client
subscribes. An exchange of the program in between is never noticed. The log is a PUB/SUB socket: any message may
be lost, at any time, and the client says so itself of the time it asks for names again (line 484). A lost
announcement leaves the names of the old program until another one arrives, so what is printed then is the
named exception (`missed`, and `cut` for what was logged before the loss and is printed after it). The switch
may be gone when names are asked for, which ends the client. With both `--json` and `--socket` a
configuration change ends the client; unknown types are skipped, a message of unexpected length is not caught.

*Argument.* `LabTools` runs one tool, so each has an invariant of its own, and the theorems combine it with the
fact that the others have not moved. `CampaignInv`: the position in the eighteen steps determines what a run has
prepared (`Prepared`), so a session that starts finds keys and certificates of its own run, and `metadata.env`
is written from them, except where `faults` says otherwise. `GeneratorInv`: by where the generator is, what it
has read fits what is in its files, whole or torn ones of earlier generations among them. `WalletInv` and
`FeedInv`: what is held of the accounts is saved with them, timers and subscriptions together name each event at
most once, and every line has its subscription. `EventLogInv`: after the last announcement under way, everything
under way was logged by the program the switch runs or is ahead of an announcement that was lost, and a client
that missed none, with none under way, has the names of that program. `ExchangeInv` (`SenderInv`,
`ListenerInv`): the sender's open row ends with the times of the iteration it is in, and the listener's mail is
in the order of its messages. `TestbedInv`: what is left to do is of the command line, so a `docker compose`
that comes up is one it asks for, and an answer is about the next command.

## Runs

| Run | Instance | Shows |
|---|---|---|
| `registry` | 2 certificate strings (symmetric), 4 ids, expiry dates 0 and 1, times 0 and 1 | all contract properties and the refinement |
| `switch` | about 500 frames on both sides of every comparison, 2 thumbprints, a table of 1 | the decision, the chunk loop, that each frame gets a decision |
| `switch_jumbo` | the same | **violation**: see findings |
| `frontend_forms` | 2 handlers (symmetric), 2 ids, 3 calls, 2 pooled transactions | success messages are true, nobody seems to wait |
| `frontend_listing` | 1 handler, 3 ids, dates 1, times 0 and 1 | listings are snapshots, handlers return |
| `frontend_valid` | the same | **violation** |
| `simulator` | a Modbus thread, an OPC UA reader, a resetting web worker, 2 coil requests, clock 0 and 1, 1 tick | whole writes, fresh reads |
| `simulator_gauges`, `simulator_caching` | the same | **violations** |
| `plant` | four deployments: controlled (PLC, reset), pressed (PLC, its button), published (OPC UA, Modbus clients), watched (page, Modbus clients); a tank of 2 units, 8 requests, 2 resets, 2 fetches | no damage and hardly any dry heat under control, valves exclude each other but within a write, ordered sensors, accepted requests served, nodes lag one round, the tank fills |
| `report` | one live session of at most 3 frames of two kinds and 2 moments, among saved captures; 8 directories that are only analysed | pairs, counts, real drops, negative delays, earned grades |
| `tools` | each tool alone: 2 key sizes, 2 programs, 2 sessions; 2 iterations; 3 invocations; 3 accounts, 4 events; 3 generations; 3 programs, 4 logged events | certificates fit, runs are accounted for, rows are genuine, sudo is confirmed or asked for, subscribers are told the truth as far as it reaches them |

*Bounds.* Two certificate strings give duplicates and a different one; four ids let array and
counter drift apart by more than one and still leave a slot to issue. Dates 0 and 1 with times 0 and 1 give
never valid, expiring and expired. The frames of `switch` are the boundaries of each comparison (0, 255,
256, 511, 512, the bound and one more, null, negative) with payloads one byte short, exact and longer.
Two handlers are what an overlap needs; a listing needs one handler and other users. The heater of `plant`
starts half a degree below the temperature the PLC switches it off at, and its pressure passes no limit
earlier; a tank of two units has a level below, between and above the sensors; the requests lie on both
sides of every bound of the tables. Two resets fall between any two steps and into each
other's wake; they and the button of the PLC are tried one at a time, and the theorems about the plant have no such
limit. Three frames are
the least with a copy and another frame between. The saved captures of `report` are a clean pair, a torn
file, odd frames and a clock that was set back. Two sessions and one run per size and variant
let a session outlive its timeout into the next, and a run start in the files of the one before; the
directory is new, or one somebody worked in. One file operation on the host goes wrong (`MaxFaults`), which
TLC combines with every failing step; the theorems are for any number of them. Four logged events leave room for
lost ones and a lost announcement between two that arrive. Two iterations let the loops drift apart by one. The
named bounds (`Max*`) appear in guards and nowhere else.

Two resets are all that the margin of the argument above allows (`HeaterPlant`).

*Symmetry and views.* `Cert` is only compared for equality and so are handlers; the runs with
symmetry check no liveness. `McView` drops the clock once `written_to` is set, and the cache too unless a
thread is about to copy it: `read_data` then never reads them (the flag is never lowered), and no checked
property does except in `TypeOK`, which every step that sets them preserves.

*Fairness.* `OpcuaExtraction` assumes weak fairness of the switch's own steps: its thread takes a packet
through to a decision. `RegistryFrontend` assumes it of the answers a handler awaits: web3 settles `send()`
with a receipt or, after 50 blocks, with an error, and `call()` with a value or an error. No fairness of the
node is assumed: a transaction may stay pooled for ever. `HeaterPlant` assumes it of what runs in loops of
its own: the PLC's scan between two polls, its Modbus master, and the tick's thread. A reset need not even end,
and nobody is assumed to press a button or to stop. The other modules state safety only.

*Deadlock* is checked in every run but `tools`, where a script that is done stops.

## Findings

- **Jumbo frames** (`switch_jumbo`). `payload_length` counts bits in 16 bits, so a payload of 8192 to 8199
  bytes reads as 0 to 7 bytes and is accepted unparsed. Campaigns run with an MTU of 9000.
- **Listing** (`frontend_valid`). The heading promises the valid certificates, but rows are fetched after the
  list; one revoked in between is printed with `revoked:true`.
- **Gauges** (`simulator_gauges`). The middleware is said to handle synchronization; the tick takes no mutex,
  so two gauges of one answer may show different ticks.
- **Caching** (`simulator_caching`). The age test subtracts the wrong way round; the cache is never used.

Smaller disagreements met on the way, without a run: `--dont-ask-sudo` is documented as not asking
(`src/testbeds/ot-security-testbed/readme.md:32`) and is the option that makes the installer ask, while
without it no command with sudo is run and with neither is `docker compose` asked about; a
production start without `nginx/dhparam.pem` raises instead of saying so; stopping what is not running
raises.

## Proofs

`tlapm` checks every leaf; only the named assumptions of the modules are used (a blank string is no
certificate, bounds are naturals, frames are of type `Packet`, requests name a table, ...).

| Theorem | Says |
|---|---|
| `CertRegistry_proofs!TypeCorrect`, `CounterAndArrayAlwaysAgree`, `WrittenSlotsAlwaysScanned` | the invariants, from `TypeOK` and `CounterAndArrayAgree`, which are inductive together |
| `IssuedRecordsAreFinal`, `RevocationIsComplete` | action properties, from the same invariant |
| `EventsAlwaysAccountForIssued` | action property: an id is issued with the event of its content and no other way, and turns revoked only with the event that names it |
| `ListingAlwaysExact` | the listing is the valid ids before the first zero, in order, for any number of ids; by induction over the loop |
| `RegistryImplementsLedger` | initial states map to initial states; `AddCertificate` maps to `Issue`, revocations to `RevokeNumber`, `RevokeEvery` or a stutter, `CreateStruct` to a stutter |
| `RegistryFrontend_proofs!AnswersAlwaysTrue`, `WaitingIsNeverLeftBehind` | from `PageInv` above and the contract's invariant, for any number of handlers and of pooled transactions |
| `FrontendTypeCorrect`, `ListingIsAlwaysSnapshot`, `RowsAlwaysTrue` | from `ListInv` above: a listing names the ids valid at its first read, and what a row says of them stays so, however long the rows take |
| `OpcuaExtraction_proofs!TypeCorrect`, `ChunkLoopAlwaysExact` | `TypeOK /\ ChunkInv` is inductive; `ChunkInv` says that chunks and remainder add up to the announced length and that the upper bound was checked before the loop |
| `DecisionAlwaysAsMeant` | from `CursorInv` above: the decision about every regular frame, of any size and with any lengths in it, whatever the tables become meanwhile |
| `SimulatorMiddleware_proofs!TypeCorrect`, `ReadsAlwaysSeeWholeWrites`, `ReadsAreAlwaysFresh` | for any number of threads. The invariant adds to the two properties that whoever is inside a read or a write holds the mutex, that the flag is up before a write starts, and that while it is down every coil, in the model, in the cache and in every unfinished read, is off. The last holds on for a thread that has decided to copy the cache until someone changes an actuator, which leaves a note |
| `HeaterPlant_proofs!SensorsAlwaysOrdered`, `FillAndDrainAlwaysExclude`, `NodesAlwaysLagOneRound`, `AcceptedRequestsAlwaysServed` | for a tank and sensors of any size, any deployment and any requests, from the four invariants above; the valves are both open only while the PLC is between two coils of a write |
| `PlantTypeCorrect`, `DryHeatAlwaysBrief` | for the same, however often it is reset |
| `NeverDamagedWhileControlled` | for any tank, requests and deployments, under `Margin` |
| `OverheadCampaign_proofs!PairingAlwaysFifo` | for captures of any length and any campaign, from `FifoInv` |
| `CampaignTypeCorrect`, `CountsAlwaysAddUp`, `PassAlwaysEarned` | for the same, with any saved captures, torn or odd, from `TypeInv`, `StoredInv` and `GradeInv` |
| `QuantileIsNearestRank` | about `QuantileSorted` on its own: for any latencies the least value that the given percentage of them do not exceed |
| `DropsAlwaysReal`, `NegativeDelayAlwaysMissedIngress` | for any traffic and any schedule of scripts and switch, from `MeasuredInv` |
| `LabTools_proofs!SudoConfirmed`, `CampaignAccounted`, `CertificatesAlwaysAgree`, `RowsGenuine`, `SubscribersServed` | for any plan, leftovers, sessions, failing steps and file operations, iterations, accounts, events, losses and programs, from the invariants of the tools |

Every invariant and every action property of the passing runs is proved.

Only model-checked:

- liveness (`EveryPacketDecided`, `EveryHandlerReturns`, `FillsUp`): it rests on fairness and `ENABLED`, which
  are out of the prover's reach;
- the table of `TCritical95`, and that high quantiles are not below the median: `StatisticsAssumption` in
  `PcapAnalysis` is evaluated by TLC over bounded inputs, and no proof cites it;
- the four violations, which are counterexamples.

Folds, `SelectSeq` and recursive functions are proved about here by showing that the function exists and by
induction over a set of numbers or of subsets, written out for the formula at hand.

## Hazards no property covers

Some hazards `PROJECT.json` lists are behaviours of the models that no property objects to, because the
program does nothing about them and says nothing of them:

- revoking an id that is not issued yet is undone when it is issued (`OCSP_v1.2_newcompiler.sol:53`);
- a read of the page that fails leaves the line at waiting (`GetAllCerts.js:20`), which `WaitsForSomebody` excepts;
- events mined before the page subscribed are never shown (`App.js:103`);
- a thumbprint table that is half filled refuses sessions, and no step notices (`update_thumbprints.sh:13`);
- a client that was given up writes during a later session, the same value as every other, so the session
  that reads it back is counted as good; one that reads back the server's count fails
  (`run_cert_size_overhead.sh:385`, `ua_server_with_encryption.py:95`);
- creating an account without loading first overwrites the saved ones (`wallet.js:11`);
- the iterations of sender and listener drift apart (`test2_time.sh:6`), and the page's answers overtake each
  other (`index.js:291`).

## What is left

A proof that `FairSpec` of each module makes something happen, once the prover knows `ENABLED`. The lemmas
about selecting, sorting and numbering in `OverheadCampaign_proofs` speak of sequences only, and would serve
better in a module of their own.

Not modelled, and why:

- The other three campaign runners (`run_otsec_overhead.sh`, `run_motra_overhead.sh`,
  `run_maynard_overhead.sh`) have the outline of the one that is modelled over other labs. What the first
  adds, thumbprints learned from running containers, depends on images that are not in the repository.
- The timing forms of the page: loops over `addCertificate` that keep times and nothing else.
- The forwarding baselines in P4: the same forwarding without the check.
- The attack scripts of the OT testbed and `scapy_modbus.py`, which is vendored: they are clients of what is
  modelled, and a Modbus client of `HeaterPlant` sends any request.
- The Tamarin and ProVerif models of the protocol, which are formal already; image builds, historian and
  proxy configurations, plots and measurement data.
