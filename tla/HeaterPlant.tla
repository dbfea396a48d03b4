---------------------------- MODULE HeaterPlant ----------------------------
(***************************************************************************)
(* The simulated heater and everything that is connected to it: the PLC    *)
(* with heater.st and its Modbus master, other Modbus clients, the OPC UA  *)
(* server that publishes the process (opc_ua_server.py), and the page that *)
(* shows and resets it (visualizer.py, static/index.js).                   *)
(***************************************************************************)
EXTENDS HeaterProcess, ModbusServer

CONSTANTS
    Deployments,  \* name -> the parts that are connected
    Requests,     \* Modbus requests of other clients
    MaxResets,    \* bound: resets somebody clicks
    MaxFetches,   \* bound: fetches of the page that are under way
    MaxDry        \* bound of a history counter

\* pymodbus knows four tables; only coils are written by these clients.
ASSUME RequestsAssumption ==
    \A name \in DOMAIN Requests :
        LET req == Requests[name]
        IN  /\ name \notin {"nobody", "plc", "opcua", "page"}
            /\ req.table \in {"co", "di", "ir", "hr"} /\ (req.write => req.table = "co")
            /\ req.start \in Nat /\ req.count \in Nat \ {0}
            /\ req.write => req.values \in Seq(BOOLEAN) /\ Len(req.values) = req.count

ASSUME BoundsAssumption == MaxResets \in Nat /\ MaxFetches \in Nat /\ MaxDry \in Nat

max_temp == 95
max_pressure == 500

VARIABLES
    deployment,
    plc,          \* the image of heater.st: inputs, outputs, the button
    cycle,        \* where the Modbus master of the PLC is
    dry_writes,   \* history: how many coil writes in a row have turned the heater
                  \* on since the tank was last full
    resets,
    answer,       \* how the last request of another Modbus client ended
    opcua_server, \* "starting", "up" or "down"
    nodes,        \* which snapshot each OPC UA node shows
    published,    \* how many nodes the publishing round has done
    fetches,      \* snapshots on their way to the page
    shown         \* what the page shows

control == <<plc, cycle, dry_writes>>
opcua == <<opcua_server, nodes, published>>
page == <<fetches, shown>>
vars == <<process, deployment, control, resets, answer, opcua, page>>

Connected(part) == part \in Deployments[deployment]

---------------------------------------------------------------------------
\* heater.st. The task runs every 20 ms on the image the master refreshes every
\* 250 ms, so it runs at least once between two polls.

\* Mutant of WaterOn: the other sensor.
WaterOnUntilLow == ~plc.level_sensor_low /\ plc.on_button
\* Mutant of HeaterOn: LE for LT.
HeaterOnUpTo ==
    /\ plc.on_button /\ plc.level_sensor_high
    /\ plc.thermometer <= max_temp /\ plc.pressure_gauge < max_pressure
\* Mutant of HeaterOn: the level is forgotten.
HeaterOnDry ==
    plc.on_button /\ plc.thermometer < max_temp /\ plc.pressure_gauge < max_pressure
\* Mutant of DrainOn: the button is forgotten.
DrainOnAlways == plc.level_sensor_low

WaterOn == ~plc.level_sensor_high /\ plc.on_button
DrainOn == ~plc.on_button /\ plc.level_sensor_low
HeaterOn ==
    /\ plc.on_button /\ plc.level_sensor_high
    /\ plc.thermometer < max_temp /\ plc.pressure_gauge < max_pressure

Scan ==
    /\ Connected("plc")
    /\ plc' = [plc EXCEPT !.water_on = WaterOn, !.drain_on = DrainOn, !.heater_on = HeaterOn]
    /\ cycle' = [cycle EXCEPT !.scanned = TRUE]
    /\ UNCHANGED <<process, deployment, dry_writes, resets, answer, opcua, page>>

\* The button is a coil of the PLC itself, which somebody sets.
PressButton ==
    /\ Connected("plc") /\ Connected("button")
    /\ plc' = [plc EXCEPT !.on_button = ~@]
    /\ UNCHANGED <<process, deployment, cycle, dry_writes, resets, answer, opcua, page>>

---------------------------------------------------------------------------
\* A tick is about to store a higher temperature.
Rising == tick.part = "temperature" /\ tick.held > temperature

\* The Modbus master: discrete inputs, coils, input registers.

DiscreteInputs == [table |-> "di", start |-> 0, count |-> 2]
OutputCoils == [table |-> "co", start |-> 0, count |-> 3,
                values |-> <<plc.heater_on, plc.water_on, plc.drain_on>>]
InputRegisters == [table |-> "ir", start |-> 0, count |-> 2]

PollBegins ==
    /\ Connected("plc")
    /\ cycle.at = "inputs" /\ cycle.scanned
    /\ BeginRead("plc")
    /\ UNCHANGED <<deployment, control, resets, answer, opcua, page>>

PollInputs ==
    LET values == GetValues(DiscreteInputs, Snapshot)
    IN  /\ cycle.at = "inputs"
        /\ EndRead("plc")
        /\ plc' = [plc EXCEPT !.level_sensor_low = values[1], !.level_sensor_high = values[2]]
        /\ cycle' = [cycle EXCEPT !.at = "coils"]
        /\ UNCHANGED <<deployment, dry_writes, resets, answer, opcua, page>>

\* The request carries the outputs of the moment; a scan may follow while the
\* coils are being set.
PollCoils ==
    /\ cycle.at = "coils"
    /\ BeginWrite("plc", CoilWrite(OutputCoils))
    /\ cycle' = [cycle EXCEPT !.at = "writing"]
    /\ dry_writes' = IF plc.heater_on /\ ~Field("level_sensor_high")
                     THEN Min({dry_writes + 1, MaxDry}) ELSE 0
    /\ UNCHANGED <<deployment, plc, resets, answer, opcua, page>>

PollWrites ==
    /\ cycle.at = "writing"
    /\ WriteNext("plc")
    /\ cycle' = [cycle EXCEPT !.at = IF writing' = Idle THEN "registers" ELSE "writing"]
    /\ UNCHANGED <<deployment, plc, dry_writes, resets, answer, opcua, page>>

\* A read like the other, in one step: it asks nothing of the level sensors.
PollRegisters ==
    LET values == GetValues(InputRegisters, [f \in Range(RegisterAt) |-> Field(f)])
    IN  /\ cycle.at = "registers"
        /\ MutexFree
        /\ plc' = [plc EXCEPT !.thermometer = values[1], !.pressure_gauge = values[2]]
        /\ cycle' = [at |-> "inputs", scanned |-> FALSE, risen |-> Rising]
        /\ UNCHANGED <<process, deployment, dry_writes, resets, answer, opcua, page>>

---------------------------------------------------------------------------
\* The process itself. Three ticks fit between two polls, a third of a degree
\* near max_temp: the temperature rises by a half at most once.

TickLoads ==
    \E d \in 0 .. 1 :
        /\ tick.part = "temperature" /\ d = 1 /\ act["heater_on"] => ~cycle.risen
        /\ Load(d)
        /\ cycle' = [cycle EXCEPT !.risen = @ \/ (tick.part = "temperature" /\ d = 1 /\ act["heater_on"])]
        /\ UNCHANGED <<deployment, plc, dry_writes, resets, answer, opcua, page>>

TickStores ==
    /\ Store
    /\ dry_writes' = IF water_level' > HighMark THEN 0 ELSE dry_writes
    /\ UNCHANGED <<deployment, plc, cycle, resets, answer, opcua, page>>

---------------------------------------------------------------------------
\* Other Modbus clients.

Operate(name) ==
    LET req == Requests[name]
    IN  /\ Connected("modbus")
        /\ \/ ~Validate(req) /\ answer' = "illegal_address" /\ UNCHANGED process
           \/ /\ Validate(req) /\ req.write
              /\ IF WriteFails(req)
                 THEN answer' = "failure" /\ UNCHANGED process
                 ELSE answer' = "written" /\ BeginWrite(name, CoilWrite(req))
           \/ /\ Validate(req) /\ ~req.write
              /\ BeginRead(name)
              /\ UNCHANGED answer
        /\ UNCHANGED <<deployment, control, resets, opcua, page>>

OperatorWrites(name) ==
    /\ WriteNext(name)
    /\ UNCHANGED <<deployment, control, resets, answer, opcua, page>>

OperatorReads(name) ==
    /\ EndRead(name)
    /\ answer' = IF DOMAIN GetValues(Requests[name], Snapshot) = Addresses(Requests[name])
                THEN "read" ELSE "failure"
    /\ UNCHANGED <<deployment, control, resets, opcua, page>>

---------------------------------------------------------------------------
\* The OPC UA server: each second a snapshot, published node by node. A node
\* shows the snapshot being published, the one before, or what a client wrote since
\* the last snapshot was taken or before that.

Published == << "heater_on", "water_on", "drain_on", "thermometer", "pressure_gauge",
                "level_sensor_low", "level_sensor_high" >>
Writable == {"heater_on", "water_on", "drain_on"}

\* Certificates, endpoint and nodes are set up before clients are let in. What raises
\* there ends this thread and none of the others.
StartOpcUaServer ==
    /\ Connected("opcua") /\ opcua_server = "starting"
    /\ opcua_server' \in {"up", "down"}
    /\ UNCHANGED <<process, deployment, control, resets, answer, nodes, published, page>>

RoundBegins ==
    /\ opcua_server = "up"
    /\ published = Len(Published)
    /\ BeginRead("opcua")
    /\ UNCHANGED <<deployment, control, resets, answer, opcua, page>>

RoundReads ==
    /\ EndRead("opcua")
    /\ nodes' = [n \in Range(Published) |->
                    IF nodes[n] \in {"client", "old client"} THEN "old client" ELSE "previous"]
    /\ published' = 0
    /\ UNCHANGED <<deployment, control, resets, answer, opcua_server, page>>

\* Mutant of Publish: the last node is left out.
PublishAllButLast ==
    /\ published < Len(Published)
    /\ nodes' = IF published + 1 = Len(Published) THEN nodes
                ELSE [nodes EXCEPT ![Published[published + 1]] = "current"]
    /\ published' = published + 1
    /\ UNCHANGED <<process, deployment, control, resets, answer, opcua_server, page>>

Publish ==
    /\ published < Len(Published)
    /\ nodes' = [nodes EXCEPT ![Published[published + 1]] = "current"]
    /\ published' = published + 1
    /\ UNCHANGED <<process, deployment, control, resets, answer, opcua_server, page>>

ClientWrites(n) ==
    /\ opcua_server = "up"
    /\ nodes' = [nodes EXCEPT ![n] = "client"]
    /\ UNCHANGED <<process, deployment, control, resets, answer, opcua_server, published, page>>

---------------------------------------------------------------------------
\* The page fetches the state every half second and draws what comes back, in
\* the order in which it comes back.

Fetch ==
    /\ Connected("page")
    /\ Len(fetches) < MaxFetches
    /\ BeginRead("page")
    /\ UNCHANGED <<deployment, control, resets, answer, opcua, page>>

Respond ==
    /\ EndRead("page")
    /\ fetches' = Append(fetches, [low |-> Snapshot["level_sensor_low"],
                                   high |-> Snapshot["level_sensor_high"]])
    /\ UNCHANGED <<deployment, control, resets, answer, opcua, shown>>

SetData(n) ==
    LET data == fetches[n]
    IN  /\ shown' = [upper |-> data.high /\ data.low, lower |-> data.low]
        /\ fetches' = RemoveAt(fetches, n)
        /\ UNCHANGED <<process, deployment, control, resets, answer, opcua>>

\* The reset button, its request and the loop of the reset.
Reset ==
    /\ Connected("reset")
    /\ resetting > 0 \/ resets < MaxResets
    /\ resets' = IF resetting = 0 THEN resets + 1 ELSE resets
    /\ ResetField
    /\ UNCHANGED <<deployment, control, answer, opcua, page>>

---------------------------------------------------------------------------
Init ==
    /\ ProcessInit
    /\ deployment \in DOMAIN Deployments
    /\ plc = [on_button |-> TRUE, level_sensor_low |-> FALSE, level_sensor_high |-> FALSE,
              thermometer |-> 0, pressure_gauge |-> 0,
              heater_on |-> FALSE, water_on |-> FALSE, drain_on |-> FALSE]
    /\ cycle = [at |-> "inputs", scanned |-> FALSE, risen |-> FALSE]
    /\ dry_writes = 0
    /\ resets = 0
    /\ answer = "none"
    /\ opcua_server = "starting"
    /\ nodes = [n \in Range(Published) |-> "initial"]
    /\ published = Len(Published)
    /\ fetches = <<>>
    /\ shown = [upper |-> FALSE, lower |-> FALSE]

Poll == PollBegins \/ PollInputs \/ PollCoils \/ PollWrites \/ PollRegisters
Tick == TickLoads \/ TickStores
Others ==
    \/ PressButton \/ Reset
    \/ \E name \in DOMAIN Requests : Operate(name) \/ OperatorWrites(name) \/ OperatorReads(name)
    \/ StartOpcUaServer \/ RoundBegins \/ RoundReads \/ Publish \/ \E n \in Writable : ClientWrites(n)
    \/ Fetch \/ Respond \/ \E n \in DOMAIN fetches : SetData(n)

Next == Scan \/ Poll \/ Tick \/ Others

\* The threads of the simulator and of the PLC keep running: the tick, the master,
\* and a task at least once between two polls. A reset need not even end.
Spec == Init /\ [][Next]_vars /\ WF_vars(~cycle.scanned /\ Scan) /\ WF_vars(Poll) /\ WF_vars(Tick)

---------------------------------------------------------------------------
\* The fields keep their ranges, and nothing is left behind by a thread that
\* is not at work.
TypeOK ==
    /\ act \in [Coils -> BOOLEAN]
    /\ water_level \in 0 .. Full /\ temperature \in Ambient .. TooHot + 1 /\ damage \in 0 .. MaxDamage
    /\ tick.held # Nothing =>
         tick.held \in CASE tick.part = "temperature" -> Ambient .. TooHot + 1
                         [] tick.part \in {"fill", "drain"} -> 0 .. Full
                         [] tick.part = "damage" -> 0 .. MaxDamage
    /\ resetting \in 0 .. Len(ResetOrder) - 1
    /\ reading.by \in {"nobody", "plc", "opcua", "page"} \union DOMAIN Requests
    /\ writing = Idle \/ writing.by \in {"plc"} \union DOMAIN Requests
    /\ writing # Idle => DOMAIN writing.left \subseteq Coils /\ \A c \in DOMAIN writing.left : writing.left[c] \in BOOLEAN
    /\ published \in 0 .. Len(Published)
    /\ opcua_server # "up" => published = Len(Published) /\ reading.by # "opcua"
    /\ Len(fetches) <= MaxFetches

\* heater.st switches the heater off at max_temp, and the tick damages the
\* heater two degrees above. As long as the PLC is the only Modbus client, the
\* time from a reading through a scan to the coil is short enough, also when the
\* process is reset under its feet and the tick undoes a part of that. Each such reset
\* hides one reading and costs a half degree, because a tank refills here without
\* cooling the heater: with the margin of the program it holds for two resets.
NoDamageWhileControlled == ~Connected("modbus") => damage = 0

\* A heater must not be on in a tank that is not full (heater.st: heater_on
\* needs level_sensor_high). The inputs of a scan are older than its outputs, so
\* after a reset or a quick press of the button it may be, but no longer than for
\* two writes of the Modbus master.
DryHeatIsBrief == dry_writes <= 2

\* The valves work against each other only while the PLC is writing: it opens one
\* before it closes the other, because its coils are set one by one, and nobody can
\* read them then. heater.st never asks for both, and a reset in the middle only
\* closes valves.
FillAndDrainExclude ==
    ~Connected("modbus") /\ act["water_on"] /\ act["drain_on"] => writing.by = "plc" /\ reading = Idle

\* Whatever moment a read ends at, it has not seen water at the high sensor and none
\* at the low one: read_data asks the low sensor first, and between the two the tank
\* may be emptied by a reset but not filled. The exception is a tick that stores a
\* level it loaded before that reset.
SensorsOrdered ==
    reading # Idle => (Snapshot["level_sensor_high"] => Snapshot["level_sensor_low"] \/ reading.torn)

\* What validate lets through, the callbacks can answer (modbus_server.py).
AcceptedRequestsServed == answer # "failure"

\* No OPC UA client sees a value older than the snapshot before the one being
\* published, and what a client has written is overwritten by the next snapshot:
\* neither is left once the round has passed the node.
NodesLagOneRound ==
    \A k \in DOMAIN Published : nodes[Published[k]] \in {"previous", "old client"} => k > published

\* With the button held the tank is full in the end and stays so, whatever was
\* reset on the way.
FillsUp == Connected("plc") /\ <>[]plc.on_button => <>[](water_level > HighMark)
=============================================================================
