------------------------ MODULE HeaterPlant_proofs ------------------------
(***************************************************************************)
(* Machine-checked proofs about the simulated plant, for a tank of any     *)
(* size with its sensors anywhere, any heater, any requests of other       *)
(* Modbus clients and any way to connect the parts.                        *)
(***************************************************************************)
EXTENDS HeaterPlant, TLAPS

\* Min and Max of two numbers.
LEMMA MinOfTwo ==
    ASSUME NEW a \in Int, NEW b \in Int
    PROVE  Min({a, b}) = IF a <= b THEN a ELSE b
  <1>. DEFINE m == IF a <= b THEN a ELSE b
  <1>1. m \in {a, b} /\ \A y \in {a, b} : m <= y
    OBVIOUS
  <1>2. \A x \in {a, b} : (\A y \in {a, b} : x <= y) => x = m
    OBVIOUS
  <1>. HIDE DEF m
  <1>3. Min({a, b}) = m
    BY <1>1, <1>2 DEF Min
  <1>. QED  BY <1>3 DEF m

\* The greater of two numbers.
LEMMA MaxOfTwo ==
    ASSUME NEW a \in Int, NEW b \in Int
    PROVE  Max({a, b}) = IF a >= b THEN a ELSE b
  <1>. DEFINE m == IF a >= b THEN a ELSE b
  <1>1. m \in {a, b} /\ \A y \in {a, b} : m >= y
    OBVIOUS
  <1>2. \A x \in {a, b} : (\A y \in {a, b} : x >= y) => x = m
    OBVIOUS
  <1>. HIDE DEF m
  <1>3. Max({a, b}) = m
    BY <1>1, <1>2 DEF Max
  <1>. QED  BY <1>3 DEF m

---------------------------------------------------------------------------
\* What any step of the plant does to the process.
ProcessMoves ==
    \/ \E by : BeginRead(by)
    \/ \E by : EndRead(by)
    \/ \E by, coils : SetCoil(by, coils)
    \/ \E d \in 0 .. 1 : Load(d)
    \/ Store
    \/ ResetField
    \/ UNCHANGED process

\* There are no other moves of the process.
LEMMA NextMoves == [Next]_vars => ProcessMoves
  <1>1. ASSUME Scan PROVE ProcessMoves
    BY <1>1 DEF Scan, ProcessMoves
  <1>2. ASSUME Poll PROVE ProcessMoves
    BY <1>2 DEF Poll, PollBegins, PollInputs, PollCoils, PollWrites, PollRegisters,
               BeginWrite, WriteNext, ProcessMoves
  <1>3. ASSUME Tick PROVE ProcessMoves
    BY <1>3 DEF Tick, TickLoads, TickStores, ProcessMoves
  <1>4. ASSUME Others PROVE ProcessMoves
    <2>1. CASE PressButton
      BY <2>1 DEF PressButton, ProcessMoves
    <2>2. CASE Reset
      BY <2>2 DEF Reset, ProcessMoves
    <2>3. CASE \E name \in DOMAIN Requests : Operate(name) \/ OperatorWrites(name) \/ OperatorReads(name)
      BY <2>3 DEF Operate, OperatorWrites, OperatorReads, BeginWrite, WriteNext, ProcessMoves
    <2>4. CASE StartOpcUaServer \/ RoundBegins \/ RoundReads \/ Publish \/ \E n \in Writable : ClientWrites(n)
      BY <2>4 DEF StartOpcUaServer, RoundBegins, RoundReads, Publish, ClientWrites, ProcessMoves
    <2>5. CASE Fetch \/ Respond \/ \E n \in DOMAIN fetches : SetData(n)
      BY <2>5 DEF Fetch, Respond, SetData, ProcessMoves
    <2>. QED  BY <1>4, <2>1, <2>2, <2>3, <2>4, <2>5 DEF Others
  <1>5. ASSUME UNCHANGED vars PROVE ProcessMoves
    BY <1>5 DEF vars, ProcessMoves
  <1>. QED  BY <1>1, <1>2, <1>3, <1>4, <1>5 DEF Next

---------------------------------------------------------------------------
(* SensorsOrdered.  A read that found no water at the low sensor ends with *)
(* the level at most one above that sensor, unless it saw a torn tick:     *)
(* what a tick holds and no reset overtook is at most one above the level. *)

TickInv ==
    /\ {"part", "held", "stale"} \subseteq DOMAIN tick
    /\ tick.part \in {"temperature", "fill", "drain", "damage"}
    /\ tick.stale \in BOOLEAN
    /\ water_level \in Nat
    /\ tick.part \in {"fill", "drain"} /\ tick.held # Nothing =>
          tick.held \in Nat /\ (~tick.stale => tick.held <= water_level + 1)
    /\ tick.part = "drain" /\ tick.held # Nothing /\ ~tick.stale => tick.held <= water_level

LowSeen == reading.first["level_sensor_low"]

ReadInv ==
    reading # Idle =>
        /\ {"by", "first", "filled", "torn"} \subseteq DOMAIN reading
        /\ reading.filled \in BOOLEAN /\ reading.torn \in BOOLEAN /\ LowSeen \in BOOLEAN
        /\ ~LowSeen /\ ~reading.torn =>
              water_level <= IF reading.filled THEN LowMark + 1 ELSE LowMark

\* What a tick loads is at most one above the level.
LEMMA LoadKeepsTick ==
    ASSUME TickInv, NEW d \in 0 .. 1, Load(d)
    PROVE  TickInv'
  <1>1. \/ tick' = [tick EXCEPT !.part = Then(@)]
        \/ \E v : /\ tick' = [tick EXCEPT !.held = v]
                  /\ tick.part = "fill" => v \in Nat /\ v <= water_level + 1
                  /\ tick.part = "drain" => v \in Nat /\ v <= water_level
    <2>0. Full \in Nat /\ water_level \in Nat
      BY ProcessAssumption DEF TickInv
    <2>1. CASE tick.part = "fill"
      <3>1. Filled(water_level) \in Nat /\ Filled(water_level) <= water_level + 1
        BY <2>0, MinOfTwo DEF Filled
      <3>. QED  BY <2>1, <3>1 DEF Load, Hold, PassOver
    <2>1a. CASE tick.part = "drain"
      <3>1. Drained(water_level) \in Nat /\ Drained(water_level) <= water_level
        BY <2>0, MaxOfTwo DEF Drained
      <3>. QED  BY <2>1a, <3>1 DEF Load, Hold, PassOver
    <2>2. CASE tick.part = "temperature"
      BY <2>2 DEF Load, Hold, PassOver
    <2>3. CASE tick.part = "damage"
      BY <2>3 DEF Load, Hold, PassOver
    <2>. QED  BY <2>1, <2>1a, <2>2, <2>3 DEF TickInv
  <1>2. tick.held = Nothing /\ water_level' = water_level /\ water_level \in Nat
    BY DEF Load, TickInv
  <1>3. Then(tick.part) \in {"temperature", "fill", "drain", "damage"}
    BY DEF Then, TickInv
  <1>. QED  BY <1>1, <1>2, <1>3 DEF TickInv

\* Every step keeps both.
LEMMA SensorStep == TickInv /\ ReadInv /\ [Next]_vars => TickInv' /\ ReadInv'
  <1>. SUFFICES ASSUME TickInv, ReadInv, ProcessMoves PROVE TickInv' /\ ReadInv'
    BY NextMoves
  <1>0. LowMark \in Nat /\ HighMark \in Nat /\ LowMark < HighMark /\ water_level \in Nat
    BY ProcessAssumption DEF TickInv
  <1>1. ASSUME NEW by, BeginRead(by) PROVE TickInv' /\ ReadInv'
    <2>1. UNCHANGED <<tick, water_level>>
      BY <1>1 DEF BeginRead
    <2>2. reading'.first["level_sensor_low"] = (water_level > LowMark)
      BY <1>1 DEF BeginRead, FirstRead, Field, Coils
    <2>3. /\ reading'.filled = FALSE /\ reading'.torn = FALSE
          /\ {"by", "first", "filled", "torn"} \subseteq DOMAIN reading'
      BY <1>1 DEF BeginRead
    <2>4. TickInv'
      BY <2>1 DEF TickInv
    <2>5. LowSeen' = (water_level > LowMark) /\ water_level' = water_level
      BY <2>1, <2>2 DEF LowSeen
    <2>6. CASE water_level > LowMark
      <3>1. LowSeen' = TRUE
        BY <2>5, <2>6
      <3>2. ReadInv'
        BY <2>3, <3>1, Zenon DEF ReadInv
      <3>. QED  BY <2>4, <3>2
    <2>7. CASE ~(water_level > LowMark)
      <3>1. LowSeen' = FALSE
        <4>1. (water_level > LowMark) \in BOOLEAN
          BY <1>0
        <4>. QED  BY <2>5, <2>7, <4>1, Zenon
      <3>2. water_level' <= LowMark
        BY <1>0, <2>1, <2>7
      <3>3. (IF reading'.filled THEN LowMark + 1 ELSE LowMark) = LowMark
        BY <2>3
      <3>4. ReadInv'
        BY <2>3, <3>1, <3>2, <3>3, Zenon DEF ReadInv
      <3>. QED  BY <2>4, <3>4
    <2>. QED  BY <2>6, <2>7
  <1>2. ASSUME NEW by, EndRead(by) PROVE TickInv' /\ ReadInv'
    BY <1>2 DEF EndRead, TickInv, ReadInv
  <1>3. ASSUME NEW by, NEW coils, SetCoil(by, coils) PROVE TickInv' /\ ReadInv'
    BY <1>3 DEF SetCoil, TickInv, ReadInv, LowSeen
  <1>4. ASSUME NEW d \in 0 .. 1, Load(d) PROVE TickInv' /\ ReadInv'
    <2>1. ReadInv'
      BY <1>4 DEF Load, ReadInv, LowSeen
    <2>. QED  BY <1>4, <2>1, LoadKeepsTick
  <1>5. ASSUME Store PROVE TickInv' /\ ReadInv'
    <2>1. TickInv'
      <3>1. /\ tick'.part = Then(tick.part) /\ tick'.held = Nothing /\ tick'.stale = FALSE
            /\ {"part", "held", "stale"} \subseteq DOMAIN tick'
        BY <1>5 DEF Store
      <3>2. Then(tick.part) \in {"temperature", "fill", "drain", "damage"}
        BY DEF Then, TickInv
      <3>3. water_level' \in Nat
        BY <1>5 DEF Store, FieldOf, TickInv
      <3>. QED  BY <3>1, <3>2, <3>3 DEF TickInv
    <2>2. CASE tick.part \notin {"fill", "drain"} \/ reading = Idle
      <3>1. reading' = reading
        BY <1>5, <2>2 DEF Store, FieldOf, TickInv
      <3>2. reading # Idle => water_level' = water_level
        BY <1>5, <2>2 DEF Store, FieldOf, TickInv
      <3>. QED  BY <2>1, <3>1, <3>2 DEF ReadInv, LowSeen
    <2>3. CASE tick.part \in {"fill", "drain"} /\ reading # Idle
      <3>1. /\ reading' = [reading EXCEPT !.filled = @ \/ tick.part = "fill", !.torn = @ \/ tick.stale]
            /\ water_level' = tick.held /\ tick.held # Nothing
            /\ tick.part = "fill" => ~reading.filled
        BY <1>5, <2>3 DEF Store, FieldOf
      <3>2. /\ reading'.filled = (reading.filled \/ tick.part = "fill")
            /\ reading'.torn = (reading.torn \/ tick.stale)
            /\ reading'.first = reading.first /\ DOMAIN reading' = DOMAIN reading
        BY <2>3, <3>1 DEF ReadInv
      <3>3. LowSeen' = LowSeen
        BY <3>2 DEF LowSeen
      <3>4. reading.torn \in BOOLEAN /\ LowSeen \in BOOLEAN /\ tick.stale \in BOOLEAN
            /\ reading.filled \in BOOLEAN
        BY <2>3 DEF ReadInv, TickInv
      <3>5. ~LowSeen /\ ~reading.torn =>
               water_level <= IF reading.filled THEN LowMark + 1 ELSE LowMark
        BY <2>3, <3>1 DEF ReadInv
      <3>6. ~tick.stale => water_level' <= water_level + 1 /\ (tick.part = "drain" => water_level' <= water_level)
        BY <2>3, <3>1 DEF TickInv
      <3>7. water_level' \in Nat
        BY <2>3, <3>1 DEF TickInv
      <3>7a. reading'.filled \in BOOLEAN /\ (tick.part = "fill" => reading'.filled)
        BY <3>2, <3>4
      <3>8. ~LowSeen /\ ~reading.torn /\ ~tick.stale =>
               water_level' <= IF reading'.filled THEN LowMark + 1 ELSE LowMark
        <4>. SUFFICES ASSUME ~LowSeen, ~reading.torn, ~tick.stale
                      PROVE  water_level' <= IF reading'.filled THEN LowMark + 1 ELSE LowMark
          OBVIOUS
        <4>1. CASE tick.part = "fill"
          BY <1>0, <3>1, <3>5, <3>6, <3>7, <3>7a, <4>1
        <4>2. CASE tick.part = "drain"
          <5>1. reading'.filled = reading.filled
            BY <3>2, <3>4, <4>2
          <5>. QED  BY <1>0, <3>5, <3>6, <3>7, <4>2, <5>1
        <4>. QED  BY <2>3, <4>1, <4>2
      <3>9. reading'.torn \in BOOLEAN /\ (~reading'.torn => ~reading.torn /\ ~tick.stale)
        BY <3>2, <3>4
      <3>10. ReadInv'
        BY <2>3, <3>2, <3>3, <3>4, <3>7a, <3>8, <3>9 DEF ReadInv
      <3>. QED  BY <2>1, <3>10
    <2>. QED  BY <2>1, <2>2, <2>3
  <1>6. ASSUME ResetField PROVE TickInv' /\ ReadInv'
    <2>1. reading' = reading /\ water_level' \in {0, water_level}
      BY <1>6 DEF ResetField
    <2>2. ReadInv'
      BY <1>0, <2>1 DEF ReadInv, LowSeen
    <2>3. /\ DOMAIN tick' = DOMAIN tick /\ tick'.part = tick.part /\ tick'.held = tick.held
          /\ tick'.stale \in BOOLEAN
          /\ ~tick'.stale => ~tick.stale
          /\ tick.held # Nothing /\ tick.part \in {"fill", "drain"} /\ ~tick'.stale
                => water_level' = water_level
      BY <1>6 DEF ResetField, FieldOf, TickInv
    <2>. QED  BY <1>0, <2>1, <2>2, <2>3 DEF TickInv
  <1>7. ASSUME UNCHANGED process PROVE TickInv' /\ ReadInv'
    BY <1>7 DEF process, TickInv, ReadInv, LowSeen
  <1>. QED  BY <1>1, <1>2, <1>3, <1>4, <1>5, <1>6, <1>7 DEF ProcessMoves

\* Whatever is drawn, published or answered never has water above none, for a
\* tank of any size, except where a tick undid a reset.
THEOREM SensorsAlwaysOrdered == Spec => []SensorsOrdered
  <1>1. Init => TickInv /\ ReadInv
    BY DEF Init, ProcessInit, TickInv, ReadInv, Nothing
  <1>2. TickInv /\ ReadInv => SensorsOrdered
    <2>. SUFFICES ASSUME TickInv, ReadInv, reading # Idle, Snapshot["level_sensor_high"], ~reading.torn
                  PROVE  Snapshot["level_sensor_low"]
      BY DEF SensorsOrdered
    <2>1. Snapshot["level_sensor_high"] = (water_level > HighMark)
      BY DEF Snapshot, FirstRead, Field, Coils, Gauges
    <2>2. Snapshot["level_sensor_low"] = LowSeen
      BY DEF Snapshot, FirstRead, Coils, Gauges, LowSeen
    <2>3. LowMark \in Nat /\ HighMark \in Nat /\ LowMark < HighMark /\ water_level \in Nat
      BY ProcessAssumption DEF TickInv
    <2>. QED  BY <2>1, <2>2, <2>3 DEF ReadInv
  <1>. QED  BY <1>1, <1>2, SensorStep, PTL DEF Spec

---------------------------------------------------------------------------
\* What the master writes into the coils: the outputs of heater.st.
LEMMA MasterWrites ==
    /\ CoilWrite(OutputCoils)["heater_on"] = plc.heater_on
    /\ CoilWrite(OutputCoils)["water_on"] = plc.water_on
    /\ CoilWrite(OutputCoils)["drain_on"] = plc.drain_on
    /\ DOMAIN CoilWrite(OutputCoils) = {"heater_on", "water_on", "drain_on"}
  <1>. DEFINE values == <<plc.heater_on, plc.water_on, plc.drain_on>>
  <1>1. {CoilAt[i] : i \in Addresses(OutputCoils)} = {"heater_on", "water_on", "drain_on"}
    <2>1. Addresses(OutputCoils) = {1, 2, 3}
      BY DEF Addresses, OutputCoils
    <2>. QED  BY <2>1 DEF CoilAt
  <1>2. OutputCoils.values = values /\ OutputCoils.start = 0
    BY DEF OutputCoils
  <1>3. /\ DOMAIN values = {1, 2, 3}
        /\ values[1] = plc.heater_on /\ values[2] = plc.water_on /\ values[3] = plc.drain_on
    OBVIOUS
  <1>3a. (CHOOSE n \in {1, 2, 3} : CoilAt[0 + n] = "heater_on") = 1
    BY DEF CoilAt
  <1>4. (CHOOSE n \in {1, 2, 3} : CoilAt[0 + n] = "water_on") = 2
    BY DEF CoilAt
  <1>5. (CHOOSE n \in {1, 2, 3} : CoilAt[0 + n] = "drain_on") = 3
    BY DEF CoilAt
  <1>. HIDE DEF values
  <1>6. CoilWrite(OutputCoils) =
          [c \in {"heater_on", "water_on", "drain_on"} |->
             values[CHOOSE n \in {1, 2, 3} : CoilAt[0 + n] = c]]
    BY <1>1, <1>2, <1>3 DEF CoilWrite
  <1>7. ASSUME NEW c \in {"heater_on", "water_on", "drain_on"}
        PROVE  CoilWrite(OutputCoils)[c] = values[CHOOSE n \in {1, 2, 3} : CoilAt[0 + n] = c]
    BY <1>6
  <1>8. CoilWrite(OutputCoils)["water_on"] = values[2]
    BY <1>4, <1>7, Zenon
  <1>9. CoilWrite(OutputCoils)["drain_on"] = values[3]
    BY <1>5, <1>7, Zenon
  <1>10. DOMAIN CoilWrite(OutputCoils) = {"heater_on", "water_on", "drain_on"}
    BY <1>6
  <1>11. CoilWrite(OutputCoils)["heater_on"] = values[1]
    BY <1>3a, <1>7, Zenon
  <1>. QED  BY <1>3, <1>8, <1>9, <1>10, <1>11

\* The steps of that write: the heater, the water, the drain.
LEMMA HeaterIsFirst ==
    ASSUME NEW by, NEW coils, SetCoil(by, coils), DOMAIN coils = {"heater_on", "water_on", "drain_on"}
    PROVE  /\ act' = [act EXCEPT !["heater_on"] = coils["heater_on"]]
           /\ writing' = [by |-> by, left |-> Restrict(coils, {"water_on", "drain_on"})]
  <1>1. DOMAIN coils # {"heater_on"} /\ DOMAIN coils \ {"heater_on"} = {"water_on", "drain_on"}
    OBVIOUS
  <1>2. PICK c \in DOMAIN coils :
            /\ \A other \in DOMAIN coils : Place[c] <= Place[other]
            /\ act' = [act EXCEPT ![c] = coils[c]]
            /\ writing' = IF DOMAIN coils = {c} THEN Idle
                          ELSE [by |-> by, left |-> Restrict(coils, DOMAIN coils \ {c})]
    BY DEF SetCoil
  <1>3. c = "heater_on"
    <2>1. Place[c] <= Place["heater_on"] /\ c \in {"heater_on", "water_on", "drain_on"}
      BY <1>2
    <2>. QED  BY <2>1 DEF Place
  <1>. QED  BY <1>1, <1>2, <1>3

LEMMA WaterIsSecond ==
    ASSUME NEW by, NEW coils, SetCoil(by, coils), DOMAIN coils = {"water_on", "drain_on"}
    PROVE  /\ act' = [act EXCEPT !["water_on"] = coils["water_on"]]
           /\ writing' = [by |-> by, left |-> Restrict(coils, {"drain_on"})]
  <1>1. DOMAIN coils # {"water_on"} /\ DOMAIN coils \ {"water_on"} = {"drain_on"}
    OBVIOUS
  <1>2. PICK c \in DOMAIN coils :
            /\ \A other \in DOMAIN coils : Place[c] <= Place[other]
            /\ act' = [act EXCEPT ![c] = coils[c]]
            /\ writing' = IF DOMAIN coils = {c} THEN Idle
                          ELSE [by |-> by, left |-> Restrict(coils, DOMAIN coils \ {c})]
    BY DEF SetCoil
  <1>3. c = "water_on"
    <2>1. Place[c] <= Place["water_on"] /\ c \in {"water_on", "drain_on"}
      BY <1>2
    <2>. QED  BY <2>1 DEF Place
  <1>. QED  BY <1>1, <1>2, <1>3

LEMMA DrainIsLast ==
    ASSUME NEW by, NEW coils, SetCoil(by, coils), DOMAIN coils = {"drain_on"}
    PROVE  act' = [act EXCEPT !["drain_on"] = coils["drain_on"]] /\ writing' = Idle
  BY DEF SetCoil

(* FillAndDrainExclude.  It is not inductive: the outputs of heater.st never
   open both valves, the master copies them coil by coil under the mutex, and
   a reset only closes valves. *)
WaterLeft ==
    /\ writing.by = "plc" /\ DOMAIN writing.left = {"water_on", "drain_on"}
    /\ ~(writing.left["water_on"] /\ writing.left["drain_on"])

DrainLeft ==
    /\ writing.by = "plc" /\ DOMAIN writing.left = {"drain_on"}
    /\ ~(act["water_on"] /\ writing.left["drain_on"])

CoilsInv ==
    /\ DOMAIN act = Coils
    /\ {"water_on", "drain_on"} \subseteq DOMAIN plc
    /\ ~(plc.water_on /\ plc.drain_on)
    /\ reading = Idle \/ writing = Idle
    /\ ~Connected("modbus") =>
         \/ writing = Idle /\ ~(act["water_on"] /\ act["drain_on"])
         \/ WaterLeft \/ DrainLeft

\* No coil is set at first.
LEMMA CoilsInit == Init => CoilsInv
  BY DEF Init, ProcessInit, CoilsInv, Coils

\* Every step keeps CoilsInv.
LEMMA CoilsStep == CoilsInv /\ [Next]_vars => CoilsInv'
  <1>. SUFFICES ASSUME CoilsInv, [Next]_vars PROVE CoilsInv'
    OBVIOUS
  <1>a. Idle.by = "nobody" /\ \A name \in DOMAIN Requests : name # "plc"
    BY RequestsAssumption DEF Idle
  <1>0. ASSUME UNCHANGED <<act, deployment, writing>>, DOMAIN plc' = DOMAIN plc,
               ~(plc'.water_on /\ plc'.drain_on), reading' = Idle \/ writing = Idle
        PROVE  CoilsInv'
    BY <1>0 DEF CoilsInv, WaterLeft, DrainLeft, Connected
  <1>1. CASE Scan
    <2>1. plc'.water_on = WaterOn /\ plc'.drain_on = DrainOn /\ DOMAIN plc' = DOMAIN plc
      BY <1>1 DEF Scan, CoilsInv
    <2>2. ~(plc'.water_on /\ plc'.drain_on)
      BY <2>1 DEF WaterOn, DrainOn
    <2>. QED  BY <1>0, <1>1, <2>1, <2>2 DEF Scan, process, CoilsInv
  <1>2. ASSUME UNCHANGED <<act, deployment, writing>>, DOMAIN plc' = DOMAIN plc,
               plc'.water_on = plc.water_on, plc'.drain_on = plc.drain_on,
               reading' = Idle \/ writing = Idle
        PROVE  CoilsInv'
    BY <1>0, <1>2 DEF CoilsInv
  <1>2a. reading = Idle \/ writing = Idle
    BY DEF CoilsInv
  <1>3. CASE PressButton
    BY <1>2, <1>2a, <1>3 DEF PressButton, process, CoilsInv
  <1>4. CASE PollInputs
    BY <1>2, <1>4 DEF PollInputs, EndRead, CoilsInv
  <1>5. CASE PollRegisters
    BY <1>2, <1>2a, <1>5 DEF PollRegisters, process, CoilsInv
  <1>6. CASE PollCoils
    <2>1. /\ SetCoil("plc", CoilWrite(OutputCoils)) /\ UNCHANGED <<deployment, plc>>
          /\ reading = Idle /\ writing = Idle
      BY <1>6 DEF PollCoils, BeginWrite, MutexFree
    <2>2. /\ act' = [act EXCEPT !["heater_on"] = CoilWrite(OutputCoils)["heater_on"]]
          /\ writing' = [by |-> "plc", left |-> Restrict(CoilWrite(OutputCoils), {"water_on", "drain_on"})]
      BY <2>1, MasterWrites, HeaterIsFirst
    <2>3. /\ DOMAIN Restrict(CoilWrite(OutputCoils), {"water_on", "drain_on"}) = {"water_on", "drain_on"}
          /\ Restrict(CoilWrite(OutputCoils), {"water_on", "drain_on"})["water_on"] = plc.water_on
          /\ Restrict(CoilWrite(OutputCoils), {"water_on", "drain_on"})["drain_on"] = plc.drain_on
      BY MasterWrites DEF Restrict
    <2>4. WaterLeft'
      BY <2>2, <2>3 DEF WaterLeft, CoilsInv
    <2>5. reading' = Idle /\ DOMAIN act' = Coils
      BY <2>1, <2>2 DEF SetCoil, CoilsInv
    <2>. QED  BY <2>1, <2>4, <2>5 DEF CoilsInv
  <1>6a. CASE PollWrites
    <2>1. /\ SetCoil("plc", writing.left) /\ writing.by = "plc" /\ UNCHANGED <<deployment, plc>>
          /\ writing # Idle
      BY <1>6a, <1>a DEF PollWrites, WriteNext
    <2>2. reading' = Idle
      BY <1>2a, <2>1 DEF SetCoil
    <2>3. DOMAIN act' = Coils
      BY <2>1 DEF SetCoil, CoilsInv
    <2>4. ASSUME ~Connected("modbus"), WaterLeft PROVE DrainLeft'
      <3>1. /\ act' = [act EXCEPT !["water_on"] = writing.left["water_on"]]
            /\ writing' = [by |-> "plc", left |-> Restrict(writing.left, {"drain_on"})]
        BY <2>1, <2>4, WaterIsSecond DEF WaterLeft
      <3>2. /\ DOMAIN Restrict(writing.left, {"drain_on"}) = {"drain_on"}
            /\ Restrict(writing.left, {"drain_on"})["drain_on"] = writing.left["drain_on"]
        BY <2>4 DEF WaterLeft, Restrict
      <3>3. act'["water_on"] = writing.left["water_on"]
        BY <3>1 DEF CoilsInv, Coils
      <3>. QED  BY <2>4, <3>1, <3>2, <3>3 DEF WaterLeft, DrainLeft
    <2>5. ASSUME ~Connected("modbus"), DrainLeft
          PROVE  writing' = Idle /\ ~(act'["water_on"] /\ act'["drain_on"])
      <3>1. act' = [act EXCEPT !["drain_on"] = writing.left["drain_on"]] /\ writing' = Idle
        BY <2>1, <2>5, DrainIsLast DEF DrainLeft
      <3>2. act'["drain_on"] = writing.left["drain_on"] /\ act'["water_on"] = act["water_on"]
        BY <3>1 DEF CoilsInv, Coils
      <3>. QED  BY <2>5, <3>1, <3>2 DEF DrainLeft
    <2>6. ~Connected("modbus") => WaterLeft \/ DrainLeft
      BY <2>1 DEF CoilsInv
    <2>. QED  BY <2>1, <2>2, <2>3, <2>4, <2>5, <2>6 DEF CoilsInv, Connected
  <1>7. ASSUME NEW name \in DOMAIN Requests, Operate(name) PROVE CoilsInv'
    <2>1. Connected("modbus") /\ UNCHANGED <<deployment, plc>>
      BY <1>7 DEF Operate, control
    <2>2. DOMAIN act' = Coils /\ (reading' = Idle \/ writing' = Idle)
      BY <1>2a, <1>7 DEF Operate, BeginWrite, MutexFree, SetCoil, BeginRead, process, CoilsInv
    <2>. QED  BY <2>1, <2>2 DEF CoilsInv, Connected
  <1>7a. ASSUME NEW name \in DOMAIN Requests, OperatorWrites(name) PROVE CoilsInv'
    <2>1. /\ writing.by = name /\ writing # Idle /\ SetCoil(name, writing.left)
          /\ UNCHANGED <<deployment, plc>>
      BY <1>7a, RequestsAssumption DEF OperatorWrites, WriteNext, control, Idle
    <2>2. Connected("modbus")
      BY <1>a, <2>1 DEF CoilsInv, WaterLeft, DrainLeft
    <2>3. DOMAIN act' = Coils /\ reading' = Idle
      BY <1>2a, <2>1 DEF SetCoil, CoilsInv
    <2>. QED  BY <2>1, <2>2, <2>3 DEF CoilsInv, Connected
  <1>8. CASE Reset
    <2>1. act' = act \/ \E f \in Coils : act' = [act EXCEPT ![f] = FALSE]
      BY <1>8 DEF Reset, ResetField
    <2>2. /\ DOMAIN act' = Coils
          /\ act'["water_on"] = act["water_on"] \/ act'["water_on"] = FALSE
          /\ act'["drain_on"] = act["drain_on"] \/ act'["drain_on"] = FALSE
      BY <2>1 DEF CoilsInv, Coils
    <2>3. UNCHANGED <<deployment, plc, reading, writing>>
      BY <1>8 DEF Reset, ResetField, control
    <2>. QED  BY <1>2a, <2>2, <2>3 DEF CoilsInv, WaterLeft, DrainLeft, Connected
  <1>9. CASE PollBegins \/ Tick
    <2>1. UNCHANGED <<act, deployment, plc, writing>>
      BY <1>9 DEF PollBegins, BeginRead, Tick, TickLoads, TickStores, Load, Store, control
    <2>2. reading' = Idle \/ writing = Idle
      BY <1>2a, <1>9 DEF PollBegins, BeginRead, MutexFree, Tick, TickLoads, TickStores, Load, Store
    <2>. QED  BY <1>2, <2>1, <2>2
  <1>10. CASE StartOpcUaServer \/ RoundBegins \/ RoundReads \/ Publish \/ \E n \in Writable : ClientWrites(n)
    <2>1. UNCHANGED <<act, deployment, plc, writing>> /\ (reading' = Idle \/ writing = Idle)
      BY <1>2a, <1>10 DEF StartOpcUaServer, RoundBegins, RoundReads, Publish, ClientWrites,
                   BeginRead, MutexFree, EndRead, process, control
    <2>. QED  BY <1>2, <2>1
  <1>11. CASE Fetch \/ Respond \/ (\E n \in DOMAIN fetches : SetData(n)) \/ \E name \in DOMAIN Requests : OperatorReads(name)
    <2>1. UNCHANGED <<act, deployment, plc, writing>> /\ (reading' = Idle \/ writing = Idle)
      BY <1>2a, <1>11 DEF Fetch, Respond, SetData, OperatorReads, BeginRead, MutexFree, EndRead, process, control
    <2>. QED  BY <1>2, <2>1
  <1>12. CASE UNCHANGED vars
    BY <1>2, <1>2a, <1>12 DEF vars, process, control
  <1>. QED
    BY <1>1, <1>3, <1>4, <1>5, <1>6, <1>6a, <1>7, <1>7a, <1>8, <1>9, <1>10, <1>11, <1>12 DEF Next, Poll, Others

\* Without other Modbus clients the valves work against each other only between two
\* steps of a write of the PLC, when nobody reads, whatever a reset does in between
\* (heater.st, simulator_middleware.py:235, simulator.py:323).
THEOREM FillAndDrainAlwaysExclude == Spec => []FillAndDrainExclude
  <1>1. Init => CoilsInv
    BY CoilsInit
  <1>2. CoilsInv => FillAndDrainExclude
    <2>. SUFFICES ASSUME CoilsInv, ~Connected("modbus"), act["water_on"], act["drain_on"]
                  PROVE  writing.by = "plc" /\ reading = Idle
      BY DEF FillAndDrainExclude
    <2>1. WaterLeft \/ DrainLeft
      BY DEF CoilsInv
    <2>2. writing.by = "plc" /\ writing # Idle
      BY <2>1 DEF WaterLeft, DrainLeft, Idle
    <2>. QED  BY <2>2 DEF CoilsInv
  <1>. QED  BY <1>1, <1>2, CoilsStep, PTL DEF Spec
---------------------------------------------------------------------------
\* NodesLagOneRound, for nodes that are published in order.
NodesInv ==
    /\ published \in Nat
    /\ DOMAIN nodes = Range(Published)
    /\ NodesLagOneRound

\* Every step keeps NodesInv.
LEMMA NodesStep == NodesInv /\ [Next]_vars => NodesInv'
  <1>. SUFFICES ASSUME NodesInv, [Next]_vars PROVE NodesInv'
    OBVIOUS
  <1>0. ASSUME UNCHANGED <<nodes, published>> PROVE NodesInv'
    BY <1>0 DEF NodesInv, NodesLagOneRound
  <1>a. \A k \in DOMAIN Published : Published[k] \in Range(Published) /\ k \in Nat \ {0}
    BY DEF Published, Range
  <1>1. CASE RoundReads
    <2>1. published' = 0 /\ DOMAIN nodes' = Range(Published)
      BY <1>1 DEF RoundReads
    <2>2. \A k \in DOMAIN Published : k > published'
      BY <1>a, <2>1
    <2>3. NodesLagOneRound'
      BY <2>2, Zenon DEF NodesLagOneRound
    <2>. QED  BY <2>1, <2>3 DEF NodesInv
  <1>2. CASE Publish
    <2>0. \A v \in {"previous", "old client"} : v # "current"
      OBVIOUS
    <2>1. /\ published' = published + 1
          /\ nodes' = [nodes EXCEPT ![Published[published + 1]] = "current"]
      BY <1>2 DEF Publish
    <2>2. ASSUME NEW k \in DOMAIN Published, nodes'[Published[k]] \in {"previous", "old client"}
          PROVE  k > published + 1
      <3>1. nodes[Published[k]] \in {"previous", "old client"} /\ k # published + 1
        BY <1>a, <2>1, <2>2 DEF NodesInv
      <3>2. k > published
        BY <3>1, Zenon DEF NodesInv, NodesLagOneRound
      <3>3. k \in Nat /\ published \in Nat
        BY <1>a DEF NodesInv
      <3>4. k # published + 1
        BY <3>1
      <3>. QED  BY <3>2, <3>3, <3>4
    <2>3. NodesLagOneRound'
      BY <2>1, <2>2, Zenon DEF NodesLagOneRound
    <2>4. published' \in Nat /\ DOMAIN nodes' = Range(Published)
      BY <2>1 DEF NodesInv
    <2>. QED  BY <2>3, <2>4 DEF NodesInv
  <1>3. ASSUME NEW n \in Writable, ClientWrites(n) PROVE NodesInv'
    <2>1. nodes' = [nodes EXCEPT ![n] = "client"] /\ published' = published
      BY <1>3 DEF ClientWrites
    <2>2. ASSUME NEW k \in DOMAIN Published, nodes'[Published[k]] \in {"previous", "old client"}
          PROVE  nodes[Published[k]] \in {"previous", "old client"}
      BY <1>a, <2>1, <2>2 DEF NodesInv
    <2>. QED  BY <2>1, <2>2 DEF NodesInv, NodesLagOneRound
  <1>4. CASE Scan \/ PressButton \/ Reset \/ Poll \/ Tick
    BY <1>0, <1>4 DEF Scan, PressButton, Reset, Poll, PollBegins, PollInputs, PollCoils,
                      PollWrites, PollRegisters, Tick, TickLoads, TickStores, opcua
  <1>5. CASE \E name \in DOMAIN Requests : Operate(name) \/ OperatorWrites(name) \/ OperatorReads(name)
    BY <1>0, <1>5 DEF Operate, OperatorWrites, OperatorReads, opcua
  <1>6. CASE StartOpcUaServer \/ RoundBegins \/ Fetch \/ Respond \/ \E n \in DOMAIN fetches : SetData(n)
    BY <1>0, <1>6 DEF StartOpcUaServer, RoundBegins, Fetch, Respond, SetData, opcua
  <1>7. CASE UNCHANGED vars
    BY <1>0, <1>7 DEF vars, opcua
  <1>. QED  BY <1>1, <1>2, <1>3, <1>4, <1>5, <1>6, <1>7 DEF Next, Others

\* No OPC UA node shows more than one round old data once its turn has come, nor what
\* a client wrote before the round (opc_ua_server.py).
THEOREM NodesAlwaysLagOneRound == Spec => []NodesLagOneRound
  <1>1. Init => NodesInv
    <2>1. ASSUME Init, NEW k \in DOMAIN Published PROVE nodes[Published[k]] = "initial"
      BY <2>1 DEF Init, Range
    <2>2. "initial" \notin {"previous", "old client"}
      OBVIOUS
    <2>3. Init => NodesLagOneRound
      BY <2>1, <2>2, Zenon DEF NodesLagOneRound
    <2>. QED  BY <2>3 DEF Init, NodesInv, Published
  <1>2. NodesInv => NodesLagOneRound
    BY DEF NodesInv
  <1>. QED  BY <1>1, <1>2, NodesStep, PTL DEF Spec
---------------------------------------------------------------------------
(* AcceptedRequestsServed: a request under way was validated, for any set of
   requests. *)
LEMMA ValidatedIsServed ==
    ASSUME NEW name \in DOMAIN Requests, Validate(Requests[name])
    PROVE  /\ Requests[name].write => ~WriteFails(Requests[name])
           /\ \A data : DOMAIN GetValues(Requests[name], data) = Addresses(Requests[name])
  <1>. DEFINE req == Requests[name]
  <1>1. req.table \in {"co", "di", "ir", "hr"} /\ (req.write => req.table = "co")
    BY RequestsAssumption
  <1>2. req.table # "hr"
    BY DEF Validate, HoldingValidate
  <1>3. req.start \in Nat /\ req.count \in Nat
    BY RequestsAssumption
  <1>. HIDE DEF req
  <1>4. ASSUME req.write PROVE ~WriteFails(req)
    <2>1. CoilValidate(Addresses(req))
      BY <1>1, <1>4 DEF Validate, req
    <2>2. DOMAIN CoilAt = 1 .. 4 /\ Addresses(req) \subseteq Int
      BY <1>3 DEF CoilAt, Addresses
    <2>3. \A i \in Int : 1 <= i /\ i < 5 => i \in 1 .. 4
      OBVIOUS
    <2>. QED  BY <2>1, <2>2, <2>3 DEF CoilValidate, WriteFails
  <1>5. ASSUME NEW data PROVE DOMAIN GetValues(req, data) = Addresses(req)
    BY <1>1, <1>2 DEF GetValues, CoilRead, DiscreteRead, InputRegRead, ValuesOf
  <1>. QED  BY <1>4, <1>5 DEF req

ServedInv ==
    /\ AcceptedRequestsServed
    /\ "by" \in DOMAIN reading
    /\ reading.by \in DOMAIN Requests => Validate(Requests[reading.by])

\* Every step keeps ServedInv.
LEMMA ServedStep == ServedInv /\ [Next]_vars => ServedInv'
  <1>. SUFFICES ASSUME ServedInv, [Next]_vars PROVE ServedInv'
    OBVIOUS
  <1>a. \A name \in DOMAIN Requests : name \notin {"nobody", "plc", "opcua", "page"}
    BY RequestsAssumption
  <1>0. ASSUME answer' = answer, reading' = reading \/ reading' = Idle
        PROVE  ServedInv'
    BY <1>0, <1>a DEF ServedInv, AcceptedRequestsServed, Idle
  <1>1. ASSUME answer' = answer, NEW by \in {"plc", "opcua", "page"}, BeginRead(by)
        PROVE  ServedInv'
    <2>1. "by" \in DOMAIN reading' /\ reading'.by = by
      BY <1>1 DEF BeginRead
    <2>. QED  BY <1>1, <1>a, <2>1 DEF ServedInv, AcceptedRequestsServed
  <1>2. CASE PollBegins \/ RoundBegins \/ Fetch
    <2>1. CASE PollBegins
      BY <1>1, <2>1 DEF PollBegins
    <2>2. CASE RoundBegins
      BY <1>1, <2>2 DEF RoundBegins
    <2>3. CASE Fetch
      BY <1>1, <2>3 DEF Fetch
    <2>. QED  BY <1>2, <2>1, <2>2, <2>3
  <1>3. ASSUME NEW name \in DOMAIN Requests, Operate(name) PROVE ServedInv'
    <2>1. CASE ~Validate(Requests[name]) /\ answer' = "illegal_address" /\ UNCHANGED process
      BY <2>1 DEF ServedInv, AcceptedRequestsServed, process
    <2>2. CASE Validate(Requests[name]) /\ Requests[name].write
      <3>1. answer' = "written" /\ SetCoil(name, CoilWrite(Requests[name]))
        BY <1>3, <2>2, ValidatedIsServed DEF Operate, BeginWrite
      <3>. QED  BY <3>1 DEF SetCoil, ServedInv, AcceptedRequestsServed
    <2>3. CASE Validate(Requests[name]) /\ ~Requests[name].write
      <3>1. BeginRead(name) /\ answer' = answer
        BY <1>3, <2>3 DEF Operate
      <3>2. "by" \in DOMAIN reading' /\ reading'.by = name
        BY <3>1 DEF BeginRead
      <3>. QED  BY <2>3, <3>1, <3>2 DEF ServedInv, AcceptedRequestsServed
    <2>. QED  BY <1>3, <2>1, <2>2, <2>3 DEF Operate
  <1>4. ASSUME NEW name \in DOMAIN Requests, OperatorReads(name) PROVE ServedInv'
    <2>1. reading.by = name /\ reading' = Idle
      BY <1>4 DEF OperatorReads, EndRead
    <2>2. answer' = "read"
      BY <1>4, <2>1, ValidatedIsServed DEF OperatorReads, ServedInv
    <2>. QED  BY <1>a, <2>1, <2>2 DEF ServedInv, AcceptedRequestsServed, Idle
  <1>5. CASE Scan \/ PressButton \/ Reset \/ PollInputs \/ PollCoils \/ PollWrites \/ PollRegisters \/ TickLoads
    BY <1>0, <1>5 DEF Scan, PressButton, Reset, ResetField, PollInputs, EndRead, PollCoils,
                      PollWrites, BeginWrite, WriteNext, SetCoil, PollRegisters, TickLoads, Load, process
  <1>5a. CASE \E name \in DOMAIN Requests : OperatorWrites(name)
    BY <1>0, <1>5a DEF OperatorWrites, WriteNext, SetCoil
  <1>6. CASE TickStores
    <2>1. /\ answer' = answer
          /\ reading' = reading \/ reading' = [reading EXCEPT !.filled = @ \/ tick.part = "fill", !.torn = @ \/ tick.stale]
      BY <1>6 DEF TickStores, Store
    <2>2. DOMAIN reading' = DOMAIN reading /\ reading'.by = reading.by
      BY <2>1 DEF ServedInv
    <2>. QED  BY <2>1, <2>2 DEF ServedInv, AcceptedRequestsServed
  <1>7. CASE StartOpcUaServer \/ RoundReads \/ Publish \/ \E n \in Writable : ClientWrites(n)
    BY <1>0, <1>7 DEF StartOpcUaServer, RoundReads, EndRead, Publish, ClientWrites, process
  <1>8. CASE Respond \/ \E n \in DOMAIN fetches : SetData(n)
    BY <1>0, <1>8 DEF Respond, EndRead, SetData, process
  <1>9. CASE UNCHANGED vars
    BY <1>0, <1>9 DEF vars, process
  <1>. QED
    BY <1>2, <1>3, <1>4, <1>5, <1>5a, <1>6, <1>7, <1>8, <1>9 DEF Next, Poll, Tick, Others

\* No validated request ends in an exception of a callback, whatever it asks for
\* (modbus_server.py).
THEOREM AcceptedRequestsAlwaysServed == Spec => []AcceptedRequestsServed
  <1>1. Init => ServedInv
    BY RequestsAssumption DEF Init, ProcessInit, ServedInv, AcceptedRequestsServed, Idle
  <1>2. ServedInv => AcceptedRequestsServed
    BY DEF ServedInv
  <1>. QED  BY <1>1, <1>2, ServedStep, PTL DEF Spec

---------------------------------------------------------------------------
\* The types of the process, and that a tick holds what fits its part.
Held == CASE tick.part = "temperature" -> Ambient .. TooHot + 1
          [] tick.part \in {"fill", "drain"} -> 0 .. Full
          [] tick.part = "damage" -> 0 .. MaxDamage

Writers == {"plc"} \union DOMAIN Requests

CoilValues(coils) == DOMAIN coils \subseteq Coils /\ \A c \in DOMAIN coils : coils[c] \in BOOLEAN

WritingTypes == writing = Idle \/ (writing.by \in Writers /\ CoilValues(writing.left))

ProcessTypes ==
    /\ WritingTypes
    /\ act \in [Coils -> BOOLEAN]
    /\ water_level \in 0 .. Full /\ temperature \in Ambient .. TooHot + 1 /\ damage \in 0 .. MaxDamage
    /\ tick = [part |-> tick.part, held |-> tick.held, stale |-> tick.stale]
    /\ tick.part \in {"temperature", "fill", "drain", "damage"} /\ tick.stale \in BOOLEAN
    /\ tick.held # Nothing => tick.held \in Held
    /\ resetting \in 0 .. 6

\* The fields in the order in which a reset sets them.
LEMMA ResetOrderIs ==
    /\ Len(ResetOrder) = 7
    /\ ResetOrder[1] = "heater_on" /\ ResetOrder[2] = "water_on" /\ ResetOrder[3] = "drain_on"
    /\ ResetOrder[4] = "on_button" /\ ResetOrder[5] = "water_level" /\ ResetOrder[6] = "temperature"
    /\ ResetOrder[7] = "damage"
  BY DEF ResetOrder

\* What a tick loads fits.
LEMMA LoadTypes ==
    ASSUME ProcessTypes, NEW d \in 0 .. 1, Load(d)
    PROVE  ProcessTypes'
  <1>0. /\ Full \in Nat /\ Ambient \in Nat /\ TooHot \in Nat /\ Ambient < TooHot /\ MaxDamage \in Nat
        /\ UNCHANGED <<act, water_level, temperature, damage, resetting>> /\ tick.held = Nothing
        /\ WritingTypes'
    BY ProcessAssumption DEF Load, ProcessTypes, WritingTypes
  <1>1. ASSUME NEW v, tick' = [tick EXCEPT !.held = v], v \in Held
        PROVE  ProcessTypes'
    <2>1. tick' = [part |-> tick.part, held |-> v, stale |-> tick.stale]
      BY <1>1 DEF ProcessTypes
    <2>2. Held' = Held
      BY <2>1 DEF Held
    <2>. QED  BY <1>0, <1>1, <2>1, <2>2 DEF ProcessTypes
  <1>2. ASSUME PassOver PROVE ProcessTypes'
    <2>1. tick' = [part |-> Then(tick.part), held |-> tick.held, stale |-> tick.stale]
      BY <1>2 DEF PassOver, ProcessTypes
    <2>2. Then(tick.part) \in {"temperature", "fill", "drain", "damage"}
      BY DEF Then, ProcessTypes
    <2>. QED  BY <1>0, <2>1, <2>2 DEF ProcessTypes
  <1>3. CASE tick.part = "temperature"
    <2>1. /\ temperature + d \in Int /\ temperature - d \in Int
          /\ Min({temperature + d, TooHot + 1}) \in Ambient .. TooHot + 1
          /\ Max({temperature - d, Ambient}) \in Ambient .. TooHot + 1
      <3>1. temperature + d \in Int /\ temperature - d \in Int /\ TooHot + 1 \in Int /\ Ambient \in Int
            /\ temperature \in Ambient .. TooHot + 1
        BY <1>0 DEF ProcessTypes
      <3>2. /\ Min({temperature + d, TooHot + 1}) = IF temperature + d <= TooHot + 1
                                                   THEN temperature + d ELSE TooHot + 1
            /\ Max({temperature - d, Ambient}) = IF temperature - d >= Ambient
                                                THEN temperature - d ELSE Ambient
        BY <3>1, MinOfTwo, MaxOfTwo
      <3>. QED  BY <1>0, <3>1, <3>2
    <2>2. \E v \in Ambient .. TooHot + 1 : tick' = [tick EXCEPT !.held = v]
      BY <1>3, <2>1 DEF Load, Hold
    <2>. QED  BY <1>1, <1>3, <2>2 DEF Held
  <1>4. CASE tick.part \in {"fill", "drain"}
    <2>1. Filled(water_level) \in 0 .. Full
      <3>1. water_level \in 0 .. Full /\ water_level + 1 \in Int /\ Full \in Int
        BY <1>0 DEF ProcessTypes
      <3>2. Min({water_level + 1, Full}) = IF water_level + 1 <= Full THEN water_level + 1 ELSE Full
        BY <3>1, MinOfTwo
      <3>. QED  BY <1>0, <3>1, <3>2 DEF Filled
    <2>2. Drained(water_level) \in 0 .. Full
      <3>1. water_level \in 0 .. Full /\ water_level - 1 \in Int /\ 0 \in Int
        BY <1>0 DEF ProcessTypes
      <3>2. Max({water_level - 1, 0}) = IF water_level - 1 >= 0 THEN water_level - 1 ELSE 0
        BY <3>1, MaxOfTwo
      <3>. QED  BY <1>0, <3>1, <3>2 DEF Drained
    <2>3. PassOver \/ Hold(Filled(water_level)) \/ Hold(Drained(water_level))
      BY <1>4 DEF Load
    <2>. QED  BY <1>1, <1>2, <1>4, <2>1, <2>2, <2>3 DEF Held, Hold
  <1>5. CASE tick.part = "damage"
    <2>1. Min({damage + 1, MaxDamage}) \in 0 .. MaxDamage
      <3>1. damage \in 0 .. MaxDamage /\ damage + 1 \in Int /\ MaxDamage \in Int
        BY <1>0 DEF ProcessTypes
      <3>2. Min({damage + 1, MaxDamage}) = IF damage + 1 <= MaxDamage THEN damage + 1 ELSE MaxDamage
        BY <3>1, MinOfTwo
      <3>. QED  BY <1>0, <3>1, <3>2
    <2>2. PassOver \/ Hold(Min({damage + 1, MaxDamage}))
      BY <1>5 DEF Load
    <2>. QED  BY <1>1, <1>2, <1>5, <2>1, <2>2 DEF Held, Hold
  <1>. QED  BY <1>3, <1>4, <1>5 DEF ProcessTypes

\* What a tick holds fits where it is stored.
LEMMA StoreTypes ==
    ASSUME ProcessTypes, Store
    PROVE  ProcessTypes'
  <1>1. tick' = [part |-> Then(tick.part), held |-> Nothing, stale |-> FALSE] /\ UNCHANGED <<act, resetting>>
    BY DEF Store
  <1>2. Then(tick.part) \in {"temperature", "fill", "drain", "damage"}
    BY DEF Then, ProcessTypes
  <1>3. water_level' \in 0 .. Full /\ temperature' \in Ambient .. TooHot + 1 /\ damage' \in 0 .. MaxDamage
    BY DEF Store, FieldOf, ProcessTypes, Held
  <1>4. WritingTypes'
    BY DEF Store, ProcessTypes, WritingTypes
  <1>. QED  BY <1>1, <1>2, <1>3, <1>4 DEF ProcessTypes

\* A reset sets every field to a value in its range.
LEMMA ResetTypes ==
    ASSUME ProcessTypes, ResetField
    PROVE  ProcessTypes'
  <1>0. /\ Full \in Nat /\ Ambient \in Nat /\ TooHot \in Nat /\ Ambient < TooHot /\ MaxDamage \in Nat
    BY ProcessAssumption
  <1>1. resetting' \in 0 .. 6
    BY ResetOrderIs DEF ResetField, ProcessTypes
  <1>2. act' \in [Coils -> BOOLEAN]
    BY DEF ResetField, ProcessTypes
  <1>3. water_level' \in 0 .. Full /\ temperature' \in Ambient .. TooHot + 1 /\ damage' \in 0 .. MaxDamage
    BY <1>0 DEF ResetField, ProcessTypes
  <1>4. /\ tick' = [part |-> tick.part, held |-> tick.held, stale |-> tick'.stale]
        /\ tick'.stale \in BOOLEAN
    BY DEF ResetField, ProcessTypes
  <1>5. WritingTypes'
    BY DEF ResetField, ProcessTypes, WritingTypes
  <1>. QED  BY <1>1, <1>2, <1>3, <1>4, <1>5 DEF ProcessTypes, Held

\* What is written to the coils is what the master's image or a request says.
LEMMA WriteTypes ==
    ASSUME ProcessTypes, NEW by \in Writers, NEW coils, SetCoil(by, coils), CoilValues(coils)
    PROVE  ProcessTypes'
  <1>1. PICK c \in DOMAIN coils :
            /\ act' = [act EXCEPT ![c] = coils[c]]
            /\ writing' = IF DOMAIN coils = {c} THEN Idle
                          ELSE [by |-> by, left |-> Restrict(coils, DOMAIN coils \ {c})]
    BY DEF SetCoil
  <1>2. act' \in [Coils -> BOOLEAN]
    BY <1>1 DEF ProcessTypes, CoilValues
  <1>3. CoilValues(Restrict(coils, DOMAIN coils \ {c}))
    BY DEF CoilValues, Restrict
  <1>4. WritingTypes'
    BY <1>1, <1>3 DEF WritingTypes
  <1>5. UNCHANGED <<water_level, temperature, damage, tick, resetting>>
    BY DEF SetCoil
  <1>. QED  BY <1>2, <1>4, <1>5 DEF ProcessTypes, Held

\* What a request writes is what it carries, a Boolean for each coil it names.
LEMMA RequestTypes ==
    ASSUME NEW name \in DOMAIN Requests, Requests[name].write, ~WriteFails(Requests[name]),
           NEW c \in DOMAIN CoilWrite(Requests[name])
    PROVE  c \in Coils /\ CoilWrite(Requests[name])[c] \in BOOLEAN
  <1>1. PICK req : req = Requests[name]
    OBVIOUS
  <1>2. req.values \in Seq(BOOLEAN) /\ Len(req.values) = req.count /\ req.count \in Nat /\ req.start \in Nat
    BY <1>1, RequestsAssumption
  <1>3. CoilWrite(req) = [k \in {CoilAt[i] : i \in Addresses(req)} |->
                            req.values[CHOOSE n \in DOMAIN req.values : CoilAt[req.start + n] = k]]
    BY DEF CoilWrite
  <1>4. PICK i \in Addresses(req) : c = CoilAt[i]
    BY <1>1, <1>3
  <1>5. i - req.start \in DOMAIN req.values /\ req.start + (i - req.start) = i
    BY <1>2 DEF Addresses
  <1>6. PICK n : n = CHOOSE m \in DOMAIN req.values : CoilAt[req.start + m] = c
    OBVIOUS
  <1>7. n \in DOMAIN req.values
    BY <1>4, <1>5, <1>6
  <1>8. req.values[n] \in BOOLEAN
    BY <1>2, <1>7
  <1>9. CoilWrite(req)[c] = req.values[n]
    BY <1>1, <1>3, <1>6
  <1>10. c \in Coils
    <2>1. i \in {1, 2, 3, 4}
      BY <1>1, <1>4 DEF WriteFails, CoilAt
    <2>. QED  BY <1>4, <2>1 DEF CoilAt, Coils
  <1>. QED  BY <1>1, <1>8, <1>9, <1>10, Zenon

---------------------------------------------------------------------------
\* The types of the whole plant: the OPC UA server works only when it is up, and a
\* fetch under way has its place.
PlcFields == {"on_button", "level_sensor_low", "level_sensor_high", "thermometer",
              "pressure_gauge", "heater_on", "water_on", "drain_on"}
Readers == {"plc", "opcua", "page"} \union DOMAIN Requests
Reads == [by : Readers, first : [{"level_sensor_low"} -> BOOLEAN], filled : BOOLEAN, torn : BOOLEAN]
Drawn == [low : BOOLEAN, high : BOOLEAN]

PlcTypes ==
    /\ DOMAIN plc = PlcFields
    /\ plc.heater_on \in BOOLEAN /\ plc.water_on \in BOOLEAN /\ plc.drain_on \in BOOLEAN
    /\ cycle = [at |-> cycle.at, scanned |-> cycle.scanned, risen |-> cycle.risen]
    /\ cycle.at \in {"inputs", "coils", "writing", "registers"}
    /\ cycle.scanned \in BOOLEAN /\ cycle.risen \in BOOLEAN
    /\ resets \in 0 .. MaxResets

ReadTypes ==
    /\ reading = Idle \/ reading \in Reads
    /\ published \in 0 .. 7 /\ opcua_server \in {"starting", "up", "down"}
    /\ opcua_server # "up" => published = 7 /\ reading.by # "opcua"
    /\ fetches \in Seq(Drawn) /\ Len(fetches) <= MaxFetches
    /\ reading.by = "page" => Len(fetches) < MaxFetches

PlantTypes == ProcessTypes /\ PlcTypes /\ ReadTypes

\* Every step keeps the types of the process.
LEMMA ProcessStep ==
    ASSUME PlantTypes, [Next]_vars
    PROVE  ProcessTypes'
  <1>0. ProcessTypes /\ PlcTypes
    BY DEF PlantTypes
  <1>1. ASSUME UNCHANGED <<act, water_level, temperature, damage, tick, resetting, writing>> PROVE ProcessTypes'
    BY <1>0, <1>1 DEF ProcessTypes, WritingTypes, Held
  <1>2. CASE PollCoils
    <2>1. CoilValues(CoilWrite(OutputCoils))
      BY <1>0, MasterWrites DEF PlcTypes, CoilValues, Coils
    <2>. QED  BY <1>0, <1>2, <2>1, WriteTypes DEF PollCoils, BeginWrite, Writers
  <1>2a. ASSUME NEW by \in Writers, WriteNext(by) PROVE ProcessTypes'
    <2>1. SetCoil(by, writing.left) /\ writing.by = by /\ writing # Idle
      BY <1>2a, RequestsAssumption DEF WriteNext, Idle, Writers
    <2>2. CoilValues(writing.left)
      BY <1>0, <2>1 DEF ProcessTypes, WritingTypes
    <2>. QED  BY <1>0, <2>1, <2>2, WriteTypes
  <1>2b. CASE PollWrites \/ \E name \in DOMAIN Requests : OperatorWrites(name)
    BY <1>2a, <1>2b DEF PollWrites, OperatorWrites, Writers
  <1>3. ASSUME NEW name \in DOMAIN Requests, Operate(name) PROVE ProcessTypes'
    <2>1. CASE Requests[name].write /\ ~WriteFails(Requests[name]) /\ SetCoil(name, CoilWrite(Requests[name]))
      <3>1. CoilValues(CoilWrite(Requests[name]))
        BY <2>1, RequestTypes DEF CoilValues
      <3>. QED  BY <1>0, <2>1, <3>1, WriteTypes DEF Writers
    <2>2. CASE UNCHANGED process \/ BeginRead(name)
      BY <1>1, <2>2 DEF process, BeginRead
    <2>. QED  BY <1>3, <2>1, <2>2 DEF Operate, BeginWrite
  <1>4. CASE Reset
    BY <1>0, <1>4, ResetTypes DEF Reset
  <1>5. CASE Tick
    BY <1>0, <1>5, LoadTypes, StoreTypes DEF Tick, TickLoads, TickStores
  <1>6. CASE Scan \/ PollBegins \/ PollInputs \/ PollRegisters \/ PressButton \/ UNCHANGED vars
    BY <1>1, <1>6 DEF Scan, PollBegins, PollInputs, PollRegisters, PressButton, BeginRead, EndRead,
                      process, vars
  <1>7. CASE StartOpcUaServer \/ RoundBegins \/ RoundReads \/ Publish \/ \E n \in Writable : ClientWrites(n)
    BY <1>1, <1>7 DEF StartOpcUaServer, RoundBegins, RoundReads, Publish, ClientWrites, BeginRead,
                      EndRead, process
  <1>8. CASE Fetch \/ Respond \/ (\E n \in DOMAIN fetches : SetData(n)) \/ \E name \in DOMAIN Requests : OperatorReads(name)
    BY <1>1, <1>8 DEF Fetch, Respond, SetData, OperatorReads, BeginRead, EndRead, process
  <1>. QED
    BY <1>2, <1>2b, <1>3, <1>4, <1>5, <1>6, <1>7, <1>8 DEF Next, Poll, Others

\* Every step keeps the types of the PLC and its master.
LEMMA PlcStep ==
    ASSUME PlantTypes, [Next]_vars
    PROVE  PlcTypes'
  <1>0. PlcTypes /\ MaxResets \in Nat
    BY BoundsAssumption DEF PlantTypes
  <1>1. CASE Scan
    <2>1. plc' = [plc EXCEPT !.water_on = WaterOn, !.drain_on = DrainOn, !.heater_on = HeaterOn]
      BY <1>1 DEF Scan
    <2>2. WaterOn \in BOOLEAN /\ DrainOn \in BOOLEAN /\ HeaterOn \in BOOLEAN
      BY DEF WaterOn, DrainOn, HeaterOn
    <2>3. DOMAIN plc' = PlcFields /\ plc'.heater_on \in BOOLEAN /\ plc'.water_on \in BOOLEAN
          /\ plc'.drain_on \in BOOLEAN
      BY <1>0, <2>1, <2>2 DEF PlcTypes, PlcFields
    <2>. QED  BY <1>0, <1>1, <2>3 DEF Scan, PlcTypes
  <1>2. CASE PressButton
    BY <1>0, <1>2 DEF PressButton, PlcTypes, PlcFields
  <1>3. CASE PollInputs
    BY <1>0, <1>3 DEF PollInputs, PlcTypes, PlcFields
  <1>4. CASE PollCoils \/ PollWrites
    BY <1>0, <1>4 DEF PollCoils, PollWrites, PlcTypes
  <1>5. CASE PollRegisters
    <2>1. Rising \in BOOLEAN
      BY DEF Rising
    <2>. QED  BY <1>0, <1>5, <2>1 DEF PollRegisters, PlcTypes, PlcFields
  <1>6. CASE TickLoads
    BY <1>0, <1>6 DEF TickLoads, PlcTypes
  <1>7. CASE Reset
    BY <1>0, <1>7 DEF Reset, PlcTypes, control
  <1>8. CASE UNCHANGED <<plc, cycle, resets>>
    BY <1>0, <1>8 DEF PlcTypes
  <1>9. CASE PollBegins \/ TickStores \/ \E name \in DOMAIN Requests : Operate(name) \/ OperatorWrites(name) \/ OperatorReads(name)
    BY <1>8, <1>9 DEF PollBegins, TickStores, Operate, OperatorWrites, OperatorReads, control
  <1>10. CASE StartOpcUaServer \/ RoundBegins \/ RoundReads \/ Publish \/ \E n \in Writable : ClientWrites(n)
    BY <1>8, <1>10 DEF StartOpcUaServer, RoundBegins, RoundReads, Publish, ClientWrites, control
  <1>11. CASE Fetch \/ Respond \/ \E n \in DOMAIN fetches : SetData(n)
    BY <1>8, <1>11 DEF Fetch, Respond, SetData, control
  <1>12. CASE UNCHANGED vars
    BY <1>8, <1>12 DEF vars, control
  <1>. QED
    BY <1>1, <1>2, <1>3, <1>4, <1>5, <1>6, <1>7, <1>9, <1>10, <1>11, <1>12 DEF Next, Poll, Tick, Others

\* A read that begins has asked the low sensor.
LEMMA BeginReadTypes ==
    ASSUME PlantTypes, NEW by \in Readers, BeginRead(by)
    PROVE  reading' \in Reads /\ reading'.by = by
  <1>1. (water_level > LowMark) \in BOOLEAN
    BY ProcessAssumption DEF PlantTypes, ProcessTypes
  <1>2. reading' = [by |-> by, first |-> [f \in {"level_sensor_low"} |-> Field(f)],
                    filled |-> FALSE, torn |-> FALSE]
    BY DEF BeginRead, FirstRead
  <1>3. Field("level_sensor_low") = (water_level > LowMark)
    BY DEF Field, Coils
  <1>4. [f \in {"level_sensor_low"} |-> Field(f)] \in [{"level_sensor_low"} -> BOOLEAN]
    BY <1>1, <1>3
  <1>. QED  BY <1>2, <1>4 DEF Reads

\* Every step keeps the types of the reads and of what is made of them.
LEMMA ReadStep ==
    ASSUME PlantTypes, [Next]_vars
    PROVE  ReadTypes'
  <1>0. ReadTypes /\ MaxFetches \in Nat /\ Len(Published) = 7
    BY BoundsAssumption DEF PlantTypes, Published
  <1>a. /\ Idle.by = "nobody" /\ {"plc", "opcua", "page"} \subseteq Readers /\ DOMAIN Requests \subseteq Readers
        /\ \A name \in DOMAIN Requests : name \notin {"nobody", "plc", "opcua", "page"}
    BY RequestsAssumption DEF Idle, Readers
  <1>1. ASSUME UNCHANGED <<published, opcua_server, fetches>>, reading' = reading \/ reading' = Idle
        PROVE  ReadTypes'
    BY <1>0, <1>1, <1>a DEF ReadTypes
  <1>2. ASSUME UNCHANGED <<published, opcua_server, fetches>>, NEW by \in Readers, BeginRead(by),
               by = "opcua" => opcua_server = "up", by = "page" => Len(fetches) < MaxFetches
        PROVE  ReadTypes'
    BY <1>0, <1>2, BeginReadTypes DEF ReadTypes
  <1>3. CASE PollBegins \/ RoundBegins \/ Fetch
    <2>1. CASE PollBegins
      BY <1>2, <1>a, <2>1 DEF PollBegins, opcua, page
    <2>2. CASE RoundBegins
      BY <1>2, <1>a, <2>2 DEF RoundBegins, opcua, page
    <2>3. CASE Fetch
      BY <1>2, <1>a, <2>3 DEF Fetch, opcua, page
    <2>. QED  BY <1>3, <2>1, <2>2, <2>3
  <1>4. ASSUME NEW name \in DOMAIN Requests, Operate(name) PROVE ReadTypes'
    <2>1. UNCHANGED <<published, opcua_server, fetches>>
      BY <1>4 DEF Operate, opcua, page
    <2>2. UNCHANGED process \/ SetCoil(name, CoilWrite(Requests[name])) \/ BeginRead(name)
      BY <1>4 DEF Operate, BeginWrite
    <2>. QED  BY <1>1, <1>2, <1>a, <2>1, <2>2 DEF process, SetCoil
  <1>5. CASE Scan \/ PressButton \/ Reset \/ PollInputs \/ PollCoils \/ PollWrites \/ PollRegisters \/ TickLoads
    BY <1>1, <1>5 DEF Scan, PressButton, Reset, ResetField, PollInputs, EndRead, PollCoils,
                      PollWrites, BeginWrite, WriteNext, SetCoil, PollRegisters, TickLoads, Load, process, opcua, page
  <1>6. CASE \E name \in DOMAIN Requests : OperatorWrites(name) \/ OperatorReads(name)
    BY <1>1, <1>6 DEF OperatorWrites, WriteNext, SetCoil, OperatorReads, EndRead, opcua, page
  <1>7. CASE TickStores
    <2>1. UNCHANGED <<published, opcua_server, fetches>>
      BY <1>7 DEF TickStores, opcua, page
    <2>2. \/ reading' = reading
          \/ reading # Idle /\ reading' = [reading EXCEPT !.filled = @ \/ tick.part = "fill", !.torn = @ \/ tick.stale]
      BY <1>7 DEF TickStores, Store
    <2>3. CASE reading # Idle /\ reading' = [reading EXCEPT !.filled = @ \/ tick.part = "fill", !.torn = @ \/ tick.stale]
      <3>1. reading \in Reads /\ (reading.torn \/ tick.stale) \in BOOLEAN
            /\ (reading.filled \/ tick.part = "fill") \in BOOLEAN
        BY <1>0, <2>3 DEF ReadTypes
      <3>2. reading' \in Reads /\ reading'.by = reading.by
        BY <2>3, <3>1 DEF Reads
      <3>. QED  BY <1>0, <2>1, <3>2 DEF ReadTypes
    <2>. QED  BY <1>1, <2>1, <2>2, <2>3
  <1>8. CASE StartOpcUaServer
    BY <1>0, <1>8 DEF StartOpcUaServer, ReadTypes, process, page
  <1>9. CASE RoundReads
    <2>1. published' = 0 /\ opcua_server' = opcua_server /\ fetches' = fetches
          /\ reading.by = "opcua" /\ reading' = Idle
      BY <1>9 DEF RoundReads, EndRead, page
    <2>. QED  BY <1>0, <1>a, <2>1 DEF ReadTypes
  <1>10. CASE Publish
    BY <1>0, <1>10 DEF Publish, ReadTypes, process, page
  <1>11. CASE \E n \in Writable : ClientWrites(n)
    BY <1>1, <1>11 DEF ClientWrites, process, page
  <1>12. CASE Respond
    <2>1. /\ reading.by = "page" /\ reading' = Idle /\ UNCHANGED <<published, opcua_server>>
          /\ fetches' = Append(fetches, [low |-> Snapshot["level_sensor_low"],
                                         high |-> Snapshot["level_sensor_high"]])
      BY <1>12 DEF Respond, EndRead, opcua
    <2>2. reading \in Reads
      BY <1>0, <1>a, <2>1 DEF ReadTypes
    <2>3. Snapshot["level_sensor_low"] = reading.first["level_sensor_low"]
          /\ Snapshot["level_sensor_high"] = (water_level > HighMark)
      BY DEF Snapshot, FirstRead, Field, Coils, Gauges
    <2>4. reading.first["level_sensor_low"] \in BOOLEAN /\ (water_level > HighMark) \in BOOLEAN
      BY <2>2, ProcessAssumption DEF Reads, PlantTypes, ProcessTypes
    <2>5. [low |-> Snapshot["level_sensor_low"], high |-> Snapshot["level_sensor_high"]] \in Drawn
      BY <2>3, <2>4 DEF Drawn
    <2>6. fetches' \in Seq(Drawn) /\ Len(fetches') = Len(fetches) + 1
      BY <1>0, <2>1, <2>5 DEF ReadTypes
    <2>. QED  BY <1>0, <1>a, <2>1, <2>6 DEF ReadTypes
  <1>13. ASSUME NEW n \in DOMAIN fetches, SetData(n) PROVE ReadTypes'
    <2>1. fetches' = RemoveAt(fetches, n) /\ UNCHANGED <<published, opcua_server, reading>>
      BY <1>13 DEF SetData, opcua, process
    <2>2. fetches \in Seq(Drawn) /\ Len(fetches) \in Nat /\ n \in 1 .. Len(fetches)
      BY <1>0, <1>13 DEF ReadTypes
    <2>3. /\ SubSeq(fetches, 1, n - 1) \in Seq(Drawn) /\ Len(SubSeq(fetches, 1, n - 1)) = n - 1
          /\ SubSeq(fetches, n + 1, Len(fetches)) \in Seq(Drawn)
          /\ Len(SubSeq(fetches, n + 1, Len(fetches))) = Len(fetches) - n
      BY <2>2
    <2>a. PICK before \in Seq(Drawn), after \in Seq(Drawn) :
             before = SubSeq(fetches, 1, n - 1) /\ after = SubSeq(fetches, n + 1, Len(fetches))
      BY <2>3
    <2>b. fetches' = before \o after
      BY <2>1, <2>a DEF RemoveAt
    <2>c. before \o after \in Seq(Drawn) /\ Len(before \o after) = Len(before) + Len(after)
      OBVIOUS
    <2>4. fetches' \in Seq(Drawn) /\ Len(fetches') = Len(fetches) - 1
      <3>1. Len(before) = n - 1 /\ Len(after) = Len(fetches) - n
        BY <2>3, <2>a
      <3>2. PICK l \in Nat : l = Len(fetches)
        BY <2>2
      <3>3. n \in Int /\ (n - 1) + (l - n) = l - 1
        BY <2>2
      <3>. QED  BY <2>b, <2>c, <3>1, <3>2, <3>3
    <2>. QED  BY <1>0, <2>1, <2>4 DEF ReadTypes
  <1>14. CASE UNCHANGED vars
    BY <1>1, <1>14 DEF vars, process, opcua, page
  <1>. QED
    BY <1>3, <1>4, <1>5, <1>6, <1>7, <1>8, <1>9, <1>10, <1>11, <1>12, <1>13, <1>14
    DEF Next, Poll, Tick, Others

\* Nothing is under way at first.
LEMMA PlantInit == Init => PlantTypes
  <1>. SUFFICES ASSUME Init PROVE PlantTypes
    OBVIOUS
  <1>1. ProcessTypes
    BY ProcessAssumption DEF Init, ProcessInit, ProcessTypes, WritingTypes, Nothing
  <1>2. PlcTypes
    BY BoundsAssumption DEF Init, PlcTypes, PlcFields
  <1>3. ReadTypes
    BY BoundsAssumption DEF Init, ProcessInit, ReadTypes, Published, Idle
  <1>. QED  BY <1>1, <1>2, <1>3 DEF PlantTypes

\* Every step keeps the types of the plant.
LEMMA PlantStep == PlantTypes /\ [Next]_vars => PlantTypes'
  BY ProcessStep, PlcStep, ReadStep DEF PlantTypes

\* The simulator and everything connected to it keep their types, for any tank, any
\* deployment and any requests; a thread that is not at work has left nothing behind.
THEOREM PlantTypeCorrect == Spec => []TypeOK
  <1>1. PlantTypes => TypeOK
    <2>. SUFFICES ASSUME PlantTypes PROVE TypeOK
      OBVIOUS
    <2>1. reading.by \in {"nobody", "plc", "opcua", "page"} \union DOMAIN Requests
      BY DEF PlantTypes, ReadTypes, Idle, Reads, Readers
    <2>2. Len(Published) = 7 /\ Len(ResetOrder) = 7
      BY ResetOrderIs DEF Published
    <2>. QED  BY <2>1, <2>2 DEF PlantTypes, ProcessTypes, WritingTypes, CoilValues, Writers, ReadTypes, Held, TypeOK
  <1>. QED  BY <1>1, PlantInit, PlantStep, PTL DEF Spec

---------------------------------------------------------------------------
(* DryHeatIsBrief.  The master writes what the last scan found, and a scan  *)
(* finds what the last poll of the inputs read.  So the first dry write is  *)
(* followed by a poll that reads the level as too low, the scan after it    *)
(* switches the heater off, and the write after the second is not dry.      *)
MasterInv ==
    /\ reading.by = "plc" => cycle.at = "inputs" /\ cycle.scanned
    /\ writing.by = "plc" => DOMAIN writing.left \subseteq {"water_on", "drain_on"}

DryInv ==
    /\ dry_writes \in 0 .. 2
    /\ dry_writes > 0 => ~(water_level > HighMark)
    /\ dry_writes > 0 /\ cycle.at = "coils" => ~plc.level_sensor_high
    /\ dry_writes = 2 => ~plc.level_sensor_high
    /\ dry_writes = 2 /\ (cycle.at = "inputs" => cycle.scanned) =>
         cycle.at \in {"writing", "registers"} \/ ~plc.heater_on

\* What the master reads of the high sensor is what the level is when the read ends.
LEMMA InputsRead ==
    GetValues(DiscreteInputs, Snapshot)[2] = (water_level > HighMark)
  <1>1. Addresses(DiscreteInputs) = {1, 2} /\ DiscreteInputs.table = "di"
    BY DEF Addresses, DiscreteInputs
  <1>2. GetValues(DiscreteInputs, Snapshot) = ValuesOf(DiscreteAt, Snapshot, {1, 2})
    BY <1>1 DEF GetValues, DiscreteRead
  <1>3. ValuesOf(DiscreteAt, Snapshot, {1, 2})[2] = Snapshot["level_sensor_high"]
    BY DEF ValuesOf, DiscreteAt
  <1>4. Snapshot["level_sensor_high"] = (water_level > HighMark)
    BY DEF Snapshot, FirstRead, Field, Coils, Gauges
  <1>. QED  BY <1>2, <1>3, <1>4

\* The registers the master reads: the temperature, to the degree.
LEMMA RegistersRead ==
    GetValues(InputRegisters, [f \in Range(RegisterAt) |-> Field(f)])[1] = Degrees(temperature)
  <1>. DEFINE data == [f \in Range(RegisterAt) |-> Field(f)]
  <1>1. Addresses(InputRegisters) = {1, 2} /\ InputRegisters.table = "ir"
    BY DEF Addresses, InputRegisters
  <1>2. GetValues(InputRegisters, data) = ValuesOf(RegisterAt, data, {1, 2})
    BY <1>1 DEF GetValues, InputRegRead
  <1>3. ValuesOf(RegisterAt, data, {1, 2})[1] = data["thermometer"]
    BY DEF ValuesOf, RegisterAt
  <1>4. "thermometer" \in Range(RegisterAt)
    BY DEF RegisterAt, Range
  <1>5. Field("thermometer") = Degrees(temperature)
    BY DEF Field, Coils
  <1>. QED  BY <1>2, <1>3, <1>4, <1>5

\* Only the master reads for the PLC, and only between a scan and its write.
LEMMA MasterStep ==
    ASSUME PlantTypes, MasterInv, [Next]_vars
    PROVE  MasterInv'
  <1>a. /\ Idle.by = "nobody"
        /\ \A name \in DOMAIN Requests : name # "plc"
    BY RequestsAssumption DEF Idle
  <1>1. ASSUME reading' = reading \/ reading'.by # "plc", cycle'.at = cycle.at,
               cycle.scanned => cycle'.scanned, writing' = writing \/ writing'.by # "plc"
        PROVE  MasterInv'
    BY <1>1 DEF MasterInv
  <1>2. CASE Scan
    BY <1>1, <1>2 DEF Scan, process, PlantTypes, PlcTypes
  <1>3. CASE PollBegins
    BY <1>3 DEF PollBegins, BeginRead, control, MasterInv
  <1>4. CASE PollInputs \/ PollRegisters
    <2>1. reading' = Idle /\ writing' = writing
      BY <1>4 DEF PollInputs, EndRead, PollRegisters, MutexFree, process
    <2>. QED  BY <1>a, <2>1 DEF MasterInv
  <1>4a. CASE PollCoils
    <2>1. SetCoil("plc", CoilWrite(OutputCoils)) /\ reading' = Idle
      BY <1>4a DEF PollCoils, BeginWrite, MutexFree, SetCoil
    <2>2. writing' = [by |-> "plc", left |-> Restrict(CoilWrite(OutputCoils), {"water_on", "drain_on"})]
      BY <2>1, MasterWrites, HeaterIsFirst
    <2>. QED  BY <1>a, <2>1, <2>2 DEF MasterInv, Restrict
  <1>4b. CASE PollWrites
    <2>1. SetCoil("plc", writing.left) /\ writing.by = "plc" /\ reading' = reading /\ cycle.at = "writing"
      BY <1>4b DEF PollWrites, WriteNext, SetCoil
    <2>2. reading'.by # "plc"
      BY <2>1 DEF MasterInv
    <2>3. PICK c : writing' = Idle \/ writing' = [by |-> "plc", left |-> Restrict(writing.left, DOMAIN writing.left \ {c})]
      BY <2>1 DEF SetCoil
    <2>4. writing'.by = "plc" => DOMAIN writing'.left \subseteq {"water_on", "drain_on"}
      BY <1>a, <2>1, <2>3 DEF MasterInv, Restrict
    <2>. QED  BY <2>2, <2>4 DEF MasterInv
  <1>5. CASE TickLoads
    BY <1>1, <1>5 DEF TickLoads, Load, PlantTypes, PlcTypes
  <1>6. CASE TickStores
    <2>1. cycle' = cycle /\ writing' = writing
      BY <1>6 DEF TickStores, Store
    <2>2. reading' = reading \/ (reading # Idle /\ reading' = [reading EXCEPT !.filled = @ \/ tick.part = "fill", !.torn = @ \/ tick.stale])
      BY <1>6 DEF TickStores, Store
    <2>3. reading'.by = reading.by
      BY <2>2 DEF PlantTypes, ReadTypes, Reads
    <2>. QED  BY <2>1, <2>3 DEF MasterInv
  <1>7. CASE PressButton \/ Reset
    BY <1>1, <1>7 DEF PressButton, Reset, ResetField, process, control
  <1>8. ASSUME NEW name \in DOMAIN Requests, Operate(name) \/ OperatorWrites(name) \/ OperatorReads(name) PROVE MasterInv'
    <2>1. cycle' = cycle
      BY <1>8 DEF Operate, OperatorWrites, OperatorReads, control
    <2>2. CASE UNCHANGED process \/ BeginRead(name) \/ EndRead(name)
      <3>1. writing' = writing
        BY <2>2 DEF BeginRead, EndRead, process
      <3>2. reading' = reading \/ reading'.by # "plc"
        BY <1>a, <2>2 DEF BeginRead, EndRead, process
      <3>. QED  BY <1>1, <2>1, <3>1, <3>2
    <2>3. ASSUME NEW coils, SetCoil(name, coils) PROVE MasterInv'
      <3>1. reading' = reading
        BY <2>3 DEF SetCoil
      <3>2. PICK left : writing' = Idle \/ writing' = [by |-> name, left |-> left]
        BY <2>3 DEF SetCoil
      <3>3. writing'.by # "plc"
        BY <1>a, <3>2
      <3>. QED  BY <1>1, <2>1, <3>1, <3>3
    <2>. QED
      BY <1>8, <2>2, <2>3 DEF Operate, OperatorWrites, OperatorReads, BeginWrite, WriteNext
  <1>9. CASE StartOpcUaServer \/ RoundBegins \/ RoundReads \/ Publish \/ \E n \in Writable : ClientWrites(n)
    <2>1. cycle' = cycle /\ writing' = writing
      BY <1>9 DEF StartOpcUaServer, RoundBegins, RoundReads, Publish, ClientWrites,
                  BeginRead, EndRead, process, control
    <2>2. reading' = reading \/ BeginRead("opcua") \/ EndRead("opcua")
      BY <1>9 DEF StartOpcUaServer, RoundBegins, RoundReads, Publish, ClientWrites, process
    <2>3. reading' = reading \/ reading'.by # "plc"
      BY <1>a, <2>2 DEF BeginRead, EndRead
    <2>. QED  BY <1>1, <2>1, <2>3
  <1>10. CASE Fetch \/ Respond \/ \E n \in DOMAIN fetches : SetData(n)
    BY <1>1, <1>10, <1>a DEF Fetch, Respond, SetData, BeginRead, EndRead, process, control
  <1>11. CASE UNCHANGED vars
    BY <1>1, <1>11 DEF vars, process, control
  <1>. QED
    BY <1>2, <1>3, <1>4, <1>4a, <1>4b, <1>5, <1>6, <1>7, <1>8, <1>9, <1>10, <1>11
    DEF Next, Poll, Tick, Others

\* Every step keeps DryInv.
LEMMA DryStep ==
    ASSUME PlantTypes, MasterInv, DryInv, [Next]_vars
    PROVE  DryInv'
  <1>0. /\ ProcessTypes /\ PlcTypes /\ HighMark \in Nat /\ Full \in Nat /\ water_level \in Int
        /\ DOMAIN plc = PlcFields /\ MaxDry \in Nat
    BY ProcessAssumption, BoundsAssumption DEF PlantTypes, ProcessTypes, PlcTypes
  <1>1. ASSUME dry_writes' = dry_writes, water_level' = water_level \/ water_level' = 0,
               plc'.level_sensor_high = plc.level_sensor_high, plc'.heater_on = plc.heater_on,
               cycle'.at = cycle.at, cycle'.scanned = cycle.scanned
        PROVE  DryInv'
    <2>1. water_level' > HighMark => water_level > HighMark
      BY <1>0, <1>1
    <2>. QED  BY <1>1, <2>1 DEF DryInv
  <1>2. CASE Scan
    <2>1. /\ plc'.heater_on = HeaterOn /\ plc'.level_sensor_high = plc.level_sensor_high
          /\ UNCHANGED <<dry_writes, water_level>> /\ cycle'.at = cycle.at
      BY <1>0, <1>2 DEF Scan, process, PlcFields, PlcTypes
    <2>2. ~plc.level_sensor_high => ~HeaterOn
      BY DEF HeaterOn
    <2>. QED  BY <2>1, <2>2 DEF DryInv
  <1>3. CASE PollInputs
    <2>1. reading.by = "plc" /\ cycle.at = "inputs"
      BY <1>3 DEF PollInputs, EndRead
    <2>2. cycle.scanned
      BY <2>1 DEF MasterInv
    <2>3. /\ plc'.level_sensor_high = (water_level > HighMark) /\ plc'.heater_on = plc.heater_on
          /\ UNCHANGED <<dry_writes, water_level>> /\ cycle'.at = "coils"
      BY <1>0, <1>3, InputsRead DEF PollInputs, EndRead, PlcFields, PlcTypes
    <2>4. water_level > HighMark \/ ~plc'.level_sensor_high
      BY <2>3, Zenon
    <2>. QED  BY <2>1, <2>2, <2>3, <2>4 DEF DryInv
  <1>4. CASE PollCoils
    <2>1. /\ cycle.at = "coils" /\ cycle'.at = "writing" /\ UNCHANGED <<plc, water_level>>
          /\ dry_writes' = IF plc.heater_on /\ ~Field("level_sensor_high")
                           THEN Min({dry_writes + 1, MaxDry}) ELSE 0
      BY <1>0, <1>4 DEF PollCoils, BeginWrite, SetCoil, PlcTypes
    <2>2. Field("level_sensor_high") = (water_level > HighMark)
      BY DEF Field, Coils
    <2>3. dry_writes + 1 \in Int /\ MaxDry \in Int /\ dry_writes \in 0 .. 2
      BY <1>0 DEF DryInv
    <2>4. Min({dry_writes + 1, MaxDry}) = IF dry_writes + 1 <= MaxDry THEN dry_writes + 1 ELSE MaxDry
      BY <2>3, MinOfTwo
    <2>5. CASE plc.heater_on /\ ~(water_level > HighMark)
      <3>1. dry_writes # 2
        BY <2>1, <2>5 DEF DryInv
      <3>2. dry_writes' \in 0 .. 2 /\ (dry_writes' = 2 => dry_writes > 0)
        BY <1>0, <2>1, <2>2, <2>3, <2>4, <2>5, <3>1
      <3>. QED  BY <2>1, <2>5, <3>2 DEF DryInv
    <2>6. CASE ~(plc.heater_on /\ ~(water_level > HighMark))
      <3>1. ~(plc.heater_on /\ ~Field("level_sensor_high"))
        BY <2>2, <2>6, Zenon
      <3>2. dry_writes' = 0
        BY <2>1, <3>1
      <3>. QED  BY <3>2 DEF DryInv
    <2>. QED  BY <2>5, <2>6
  <1>4a. CASE PollWrites
    <2>1. /\ cycle'.at \in {"writing", "registers"} /\ UNCHANGED <<plc, water_level, dry_writes>>
      BY <1>0, <1>4a DEF PollWrites, WriteNext, SetCoil, PlcTypes
    <2>. QED  BY <2>1 DEF DryInv
  <1>5. CASE PollRegisters
    <2>1. /\ cycle'.at = "inputs" /\ cycle'.scanned = FALSE /\ UNCHANGED <<dry_writes, water_level>>
          /\ plc'.level_sensor_high = plc.level_sensor_high
      BY <1>0, <1>5 DEF PollRegisters, process, PlcFields
    <2>. QED  BY <2>1 DEF DryInv
  <1>6. CASE TickLoads
    BY <1>0, <1>1, <1>6 DEF TickLoads, Load, PlcTypes
  <1>7. CASE TickStores
    <2>1. UNCHANGED <<plc, cycle>> /\ dry_writes' = IF water_level' > HighMark THEN 0 ELSE dry_writes
      BY <1>7 DEF TickStores
    <2>. QED  BY <2>1 DEF DryInv
  <1>8. CASE PressButton
    BY <1>0, <1>1, <1>8 DEF PressButton, process, PlcFields
  <1>9. CASE Reset
    <2>1. water_level' = water_level \/ water_level' = 0
      BY <1>9 DEF Reset, ResetField
    <2>. QED  BY <1>1, <1>9, <2>1 DEF Reset, control
  <1>10. ASSUME NEW name \in DOMAIN Requests, Operate(name) \/ OperatorWrites(name) \/ OperatorReads(name) PROVE DryInv'
    <2>1. water_level' = water_level
      BY <1>10 DEF Operate, OperatorWrites, OperatorReads, BeginRead, EndRead, BeginWrite, WriteNext, SetCoil, process
    <2>. QED  BY <1>1, <1>10, <2>1 DEF Operate, OperatorWrites, OperatorReads, control
  <1>11. CASE StartOpcUaServer \/ RoundBegins \/ RoundReads \/ Publish \/ \E n \in Writable : ClientWrites(n)
    BY <1>1, <1>11 DEF StartOpcUaServer, RoundBegins, RoundReads, Publish, ClientWrites,
                       BeginRead, EndRead, process, control
  <1>12. CASE PollBegins \/ Fetch \/ Respond \/ \E n \in DOMAIN fetches : SetData(n)
    BY <1>1, <1>12 DEF PollBegins, Fetch, Respond, SetData, BeginRead, EndRead, process, control
  <1>13. CASE UNCHANGED vars
    BY <1>1, <1>13 DEF vars, process, control
  <1>. QED
    BY <1>2, <1>3, <1>4, <1>4a, <1>5, <1>6, <1>7, <1>8, <1>9, <1>10, <1>11, <1>12, <1>13
    DEF Next, Poll, Tick, Others

\* In every deployment, for any tank and however often the process is reset under the
\* PLC or its button pressed, at most two writes in a row switch the heater on in a tank
\* that is not full (heater.st, simulator.py).
THEOREM DryHeatAlwaysBrief == Spec => []DryHeatIsBrief
  <1>1. Init => MasterInv /\ DryInv
    BY ProcessAssumption DEF Init, ProcessInit, MasterInv, DryInv, Idle
  <1>2. PlantTypes /\ MasterInv /\ DryInv /\ [Next]_vars => MasterInv' /\ DryInv'
    BY MasterStep, DryStep
  <1>3. DryInv => DryHeatIsBrief
    BY DEF DryInv, DryHeatIsBrief
  <1>. QED  BY <1>1, <1>2, <1>3, PlantInit, PlantStep, PTL DEF Spec

---------------------------------------------------------------------------
(* NoDamageWhileControlled.  Between two readings the temperature rises by *)
(* at most a half degree (TickLoads), so it is below max_temp when the     *)
(* master last read that it is, at max_temp when it has risen once since,  *)
(* and a half more when the heater is still on after the next reading.     *)
(* A tick that undoes what a reset did to the temperature adds a half for  *)
(* that reset, because the reset has hidden the reading before it.         *)
Tight(k) == temperature <= k /\ (tick.part = "temperature" => tick.held <= k)

\* The resets that have set the temperature.
Charged == IF resetting \in 1 .. 5 THEN resets - 1 ELSE resets

TooWarm == ~(plc.thermometer < max_temp)

ResetInv == resetting > 0 => resets > 0

HeatInv ==
    /\ Tight(2 * max_temp + 1 + Charged)
    /\ ~TooWarm => Tight(2 * max_temp + Charged)
    /\ ~TooWarm /\ ~cycle.risen => Tight(2 * max_temp - 1)
    /\ TooWarm /\ ~cycle.risen /\ (act["heater_on"] \/ plc.heater_on) => Tight(2 * max_temp + Charged)
    /\ tick.part = "temperature" => tick.held <= temperature + 1 \/ tick.held <= 2 * max_temp + Charged

OffInv ==
    /\ TooWarm /\ (cycle.at = "inputs" => cycle.scanned) => ~plc.heater_on
    /\ TooWarm /\ cycle.at \in {"writing", "registers"} => ~act["heater_on"]

HarmlessInv == damage = 0 /\ (tick.part = "damage" => tick.held = Nothing)

\* The margin between what heater.st switches off at and what does damage, which the
\* numbers of the simulator leave: 95 and 97 degrees, and a pressure of 382 at 97.
Margin ==
    /\ Ambient < 2 * max_temp /\ 2 * max_temp + 1 + MaxResets < TooHot
    /\ \A d \in DOMAIN PressureAt : d <= Degrees(TooHot) => PressureAt[d] <= 500

\* What the proofs below use of the types.
LEMMA HeatTypes ==
    ASSUME PlantTypes
    PROVE  /\ Ambient \in Nat /\ TooHot \in Nat /\ Ambient < TooHot /\ MaxResets \in Nat
           /\ temperature \in Int /\ Ambient <= temperature
           /\ tick.part = "temperature" => tick.held \in Int
           /\ tick = [part |-> tick.part, held |-> tick.held, stale |-> tick.stale]
           /\ tick.part \in {"temperature", "fill", "drain", "damage"}
           /\ resets \in Int /\ 0 <= resets /\ resets <= MaxResets
           /\ resetting \in 0 .. 6
           /\ ResetInv => Charged \in Int /\ 0 <= Charged /\ Charged <= MaxResets
           /\ act \in [Coils -> BOOLEAN]
           /\ DOMAIN plc = PlcFields
           /\ cycle = [at |-> cycle.at, scanned |-> cycle.scanned, risen |-> cycle.risen]
           /\ cycle.risen \in BOOLEAN
  <1>1. ProcessTypes /\ PlcTypes
    BY DEF PlantTypes
  <1>2. Ambient \in Nat /\ TooHot \in Nat /\ Ambient < TooHot /\ MaxResets \in Nat
    BY ProcessAssumption, BoundsAssumption
  <1>3. resets \in Int /\ 0 <= resets /\ resets <= MaxResets /\ resetting \in 0 .. 6
    BY <1>1, <1>2 DEF ProcessTypes, PlcTypes
  <1>4. ResetInv => Charged \in Int /\ 0 <= Charged /\ Charged <= MaxResets
    BY <1>2, <1>3 DEF ResetInv, Charged
  <1>5. tick.part = "temperature" => tick.held \in Int
    BY <1>1, <1>2 DEF ProcessTypes, Held, Nothing
  <1>. QED  BY <1>1, <1>2, <1>3, <1>4, <1>5 DEF ProcessTypes, PlcTypes

\* A bound holds for every greater one.
LEMMA TightIsMonotonic ==
    ASSUME PlantTypes, NEW j \in Int, NEW k \in Int, j <= k, Tight(j)
    PROVE  Tight(k)
  BY HeatTypes DEF Tight

\* What HeatInv, OffInv and HarmlessInv are about.
HeatVars == <<act, temperature, damage, tick, resetting, plc, cycle, resets>>

\* A step that touches none of it keeps them.
LEMMA HeatFrame ==
    ASSUME UNCHANGED HeatVars, ResetInv, HeatInv, OffInv, HarmlessInv
    PROVE  ResetInv' /\ HeatInv' /\ OffInv' /\ HarmlessInv'
  <1>1. Charged' = Charged /\ TooWarm' = TooWarm
    BY DEF HeatVars, Charged, TooWarm
  <1>. QED  BY <1>1 DEF HeatVars, ResetInv, HeatInv, OffInv, HarmlessInv, Tight

\* A tick loads: the temperature rises once after a reading, and never after a warm one
\* that has reached the coil. It is never hot enough for damage.
LEMMA HeatLoads ==
    ASSUME Margin, PlantTypes, ResetInv, HeatInv, OffInv, HarmlessInv, TickLoads
    PROVE  ResetInv' /\ HeatInv' /\ OffInv' /\ HarmlessInv'
  <1>0. PICK d \in 0 .. 1 :
            /\ tick.part = "temperature" /\ d = 1 /\ act["heater_on"] => ~cycle.risen
            /\ Load(d)
            /\ cycle' = [cycle EXCEPT !.risen = @ \/ (tick.part = "temperature" /\ d = 1 /\ act["heater_on"])]
    BY DEF TickLoads
  <1>1. /\ UNCHANGED <<act, temperature, damage, resetting, plc, resets>>
        /\ cycle'.at = cycle.at /\ cycle'.scanned = cycle.scanned
        /\ Charged' = Charged /\ TooWarm' = TooWarm
        /\ tick.held = Nothing
    BY <1>0, HeatTypes DEF TickLoads, Load, Charged, TooWarm
  <1>2. OffInv' /\ ResetInv'
    BY <1>1 DEF OffInv, ResetInv
  <1>3. Charged \in Int /\ 0 <= Charged /\ Charged <= MaxResets
    BY HeatTypes
  <1>4. CASE tick.part = "temperature"
    <2>1. PICK v : /\ tick'.part = "temperature" /\ tick'.held = v
                   /\ v \in Int /\ v <= temperature + 1
                   /\ ~(d = 1 /\ act["heater_on"]) => v <= temperature
      <3>1. temperature + d \in Int /\ temperature - d \in Int /\ TooHot + 1 \in Int /\ Ambient \in Int
        BY HeatTypes
      <3>2. /\ Min({temperature + d, TooHot + 1}) = IF temperature + d <= TooHot + 1
                                                   THEN temperature + d ELSE TooHot + 1
            /\ Max({temperature - d, Ambient}) = IF temperature - d >= Ambient
                                                THEN temperature - d ELSE Ambient
        BY <3>1, MinOfTwo, MaxOfTwo
      <3>3. tick' = [tick EXCEPT !.held = IF act["heater_on"] THEN Min({temperature + d, TooHot + 1})
                                          ELSE Max({temperature - d, Ambient})]
        BY <1>0, <1>4 DEF Load, Hold
      <3>4. /\ tick'.part = "temperature"
            /\ tick'.held = IF act["heater_on"] THEN Min({temperature + d, TooHot + 1})
                            ELSE Max({temperature - d, Ambient})
        BY <1>4, <3>3, HeatTypes
      <3>. QED  BY <3>1, <3>2, <3>4, HeatTypes
    <2>2. HarmlessInv'
      BY <1>1, <2>1 DEF HarmlessInv
    <2>3. CASE d = 1 /\ act["heater_on"]
      <3>1. ~cycle.risen /\ cycle'.risen
        BY <1>0, <1>4, <2>3, HeatTypes
      <3>2. temperature <= 2 * max_temp + Charged /\ (~TooWarm => temperature <= 2 * max_temp - 1)
        BY <1>3, <2>3, <3>1, HeatTypes DEF HeatInv, Tight, max_temp
      <3>3. v <= 2 * max_temp + 1 + Charged /\ (~TooWarm => v <= 2 * max_temp + Charged)
        BY <1>3, <2>1, <3>2, HeatTypes DEF max_temp
      <3>4. HeatInv'
        BY <1>1, <1>3, <2>1, <3>1, <3>2, <3>3, HeatTypes DEF HeatInv, Tight, max_temp
      <3>. QED  BY <1>2, <2>2, <3>4
    <2>4. CASE ~(d = 1 /\ act["heater_on"])
      <3>1. cycle'.risen = cycle.risen
        BY <1>0, <2>4, HeatTypes
      <3>2. ASSUME NEW k \in Int, Tight(k) PROVE Tight(k)'
        BY <1>1, <2>1, <2>4, <3>2, HeatTypes DEF Tight
      <3>3. HeatInv'
        BY <1>1, <1>3, <2>1, <3>1, <3>2, HeatTypes DEF HeatInv, max_temp
      <3>. QED  BY <1>2, <2>2, <3>3
    <2>. QED  BY <2>3, <2>4
  <1>5. CASE tick.part # "temperature"
    <2>1. cycle'.risen = cycle.risen
      BY <1>0, <1>5, HeatTypes
    <2>2. tick.part = "damage" => PassOver
      <3>. SUFFICES ASSUME tick.part = "damage" PROVE PassOver
        OBVIOUS
      <3>1. temperature < TooHot
        BY <1>3, HeatTypes DEF HeatInv, Tight, Margin, max_temp
      <3>2. Degrees(temperature) \in DOMAIN PressureAt /\ Degrees(temperature) <= Degrees(TooHot)
        BY <3>1, HeatTypes, ProcessAssumption DEF Degrees
      <3>3. PressureAt[Degrees(temperature)] <= 500 /\ PressureAt[Degrees(temperature)] \in Nat
        BY <3>2, ProcessAssumption DEF Margin
      <3>4. ~MayBeHot
        BY <3>1, <3>3, HeatTypes DEF MayBeHot
      <3>. QED  BY <1>0, <3>4 DEF Load
    <2>3. /\ tick'.part = "temperature" => tick'.held = Nothing
          /\ tick'.part = "damage" => tick'.held = Nothing
      <3>1. CASE tick.part = "damage"
        <4>1. tick'.held = Nothing
          BY <1>1, <2>2, <3>1, HeatTypes DEF PassOver
        <4>. QED  BY <4>1
      <3>2. CASE tick.part \in {"fill", "drain"}
        <4>1. CASE PassOver
          <5>1. tick'.held = Nothing
            BY <1>1, <4>1, HeatTypes DEF PassOver
          <5>. QED  BY <5>1
        <4>2. ASSUME NEW v, Hold(v) PROVE tick'.part \in {"fill", "drain"}
          BY <3>2, <4>2, HeatTypes DEF Hold
        <4>. QED  BY <1>0, <3>2, <4>1, <4>2 DEF Load
      <3>. QED  BY <1>5, <3>1, <3>2, HeatTypes
    <2>4. ASSUME NEW k \in Nat, Tight(k) PROVE Tight(k)'
      BY <1>1, <2>3, <2>4 DEF Tight, Nothing
    <2>5. /\ 2 * max_temp + 1 + Charged \in Nat /\ 2 * max_temp + Charged \in Nat /\ 2 * max_temp - 1 \in Nat
          /\ Nothing <= temperature + 1
      BY <1>3, HeatTypes DEF max_temp, Nothing
    <2>6. HeatInv'
      BY <1>1, <2>1, <2>3, <2>4, <2>5 DEF HeatInv
    <2>7. HarmlessInv'
      BY <1>1, <2>3 DEF HarmlessInv
    <2>. QED  BY <1>2, <2>6, <2>7
  <1>. QED  BY <1>4, <1>5

\* A tick stores what HeatInv bounds already.
LEMMA HeatStores ==
    ASSUME Margin, PlantTypes, ResetInv, HeatInv, OffInv, HarmlessInv, TickStores
    PROVE  ResetInv' /\ HeatInv' /\ OffInv' /\ HarmlessInv'
  <1>1. /\ UNCHANGED <<act, resetting, plc, cycle, resets>>
        /\ temperature' = IF tick.part = "temperature" THEN tick.held ELSE temperature
        /\ damage' = IF tick.part = "damage" THEN tick.held ELSE damage
        /\ tick.held # Nothing
        /\ tick'.held = Nothing
        /\ Charged' = Charged /\ TooWarm' = TooWarm
    BY DEF TickStores, Store, FieldOf, Charged, TooWarm
  <1>2. OffInv' /\ ResetInv' /\ HarmlessInv'
    BY <1>1 DEF OffInv, ResetInv, HarmlessInv
  <1>3. Charged \in Int /\ 0 <= Charged /\ Charged <= MaxResets
    BY HeatTypes
  <1>4. ASSUME NEW k \in Nat, Tight(k) PROVE Tight(k)'
    BY <1>1, <1>4 DEF Tight, Nothing
  <1>5. /\ 2 * max_temp + 1 + Charged \in Nat /\ 2 * max_temp + Charged \in Nat /\ 2 * max_temp - 1 \in Nat
        /\ Nothing <= 2 * max_temp + Charged
    BY <1>3, HeatTypes DEF max_temp, Nothing
  <1>6. HeatInv'
    BY <1>1, <1>4, <1>5 DEF HeatInv
  <1>. QED  BY <1>2, <1>6

\* A scan and the polls: a reading below max_temp bounds the temperature anew, and a
\* warm one has switched the heater off when the next is taken.
LEMMA HeatPolls ==
    ASSUME PlantTypes, MasterInv, ResetInv, HeatInv, OffInv, HarmlessInv, Scan \/ Poll
    PROVE  ResetInv' /\ HeatInv' /\ OffInv' /\ HarmlessInv'
  <1>0. Charged \in Int /\ 0 <= Charged
    BY HeatTypes
  <1>1. CASE Scan
    <2>1. /\ UNCHANGED <<act, temperature, damage, tick, resetting, resets>>
          /\ plc'.thermometer = plc.thermometer /\ plc'.heater_on = HeaterOn
          /\ cycle'.at = cycle.at /\ cycle'.risen = cycle.risen
      BY <1>1, HeatTypes DEF Scan, process, PlcFields
    <2>2. Charged' = Charged /\ TooWarm' = TooWarm /\ (TooWarm => ~HeaterOn)
      BY <2>1 DEF Charged, TooWarm, HeaterOn
    <2>. QED  BY <2>1, <2>2 DEF ResetInv, HeatInv, OffInv, HarmlessInv, Tight
  <1>2. CASE PollBegins
    BY <1>2, HeatFrame DEF PollBegins, BeginRead, control, HeatVars
  <1>3. CASE PollInputs
    <2>1. reading.by = "plc"
      BY <1>3 DEF PollInputs, EndRead
    <2>2. cycle.at = "inputs" /\ cycle.scanned
      BY <2>1 DEF MasterInv
    <2>3. /\ UNCHANGED <<act, temperature, damage, tick, resetting, resets>>
          /\ plc'.thermometer = plc.thermometer /\ plc'.heater_on = plc.heater_on
          /\ cycle'.at = "coils" /\ cycle'.risen = cycle.risen
      BY <1>3, HeatTypes DEF PollInputs, EndRead, PlcFields
    <2>4. Charged' = Charged /\ TooWarm' = TooWarm
      BY <2>3 DEF Charged, TooWarm
    <2>. QED  BY <2>2, <2>3, <2>4 DEF ResetInv, HeatInv, OffInv, HarmlessInv, Tight
  <1>4. CASE PollCoils
    <2>0. SetCoil("plc", CoilWrite(OutputCoils))
      BY <1>4 DEF PollCoils, BeginWrite
    <2>1. act'["heater_on"] = plc.heater_on
      <3>1. act' = [act EXCEPT !["heater_on"] = plc.heater_on]
        BY <2>0, MasterWrites, HeaterIsFirst
      <3>. QED  BY <3>1, HeatTypes DEF Coils
    <2>2. /\ UNCHANGED <<plc, temperature, damage, tick, resetting, resets>>
          /\ cycle.at = "coils" /\ cycle'.at = "writing" /\ cycle'.risen = cycle.risen
      BY <1>4, <2>0, HeatTypes DEF PollCoils, SetCoil
    <2>3. Charged' = Charged /\ TooWarm' = TooWarm
      BY <2>2 DEF Charged, TooWarm
    <2>4. ~plc.heater_on => ~act'["heater_on"]
      BY <2>1, Zenon
    <2>. QED  BY <2>2, <2>3, <2>4 DEF ResetInv, HeatInv, OffInv, HarmlessInv, Tight
  <1>4a. CASE PollWrites
    <2>1. SetCoil("plc", writing.left) /\ writing.by = "plc" /\ cycle.at = "writing"
      BY <1>4a DEF PollWrites, WriteNext
    <2>2. PICK c \in {"water_on", "drain_on"} : act' = [act EXCEPT ![c] = writing.left[c]]
      BY <2>1 DEF SetCoil, MasterInv
    <2>3. act'["heater_on"] = act["heater_on"]
      BY <2>2, HeatTypes DEF Coils
    <2>4. /\ UNCHANGED <<plc, temperature, damage, tick, resetting, resets>>
          /\ cycle'.at \in {"writing", "registers"} /\ cycle'.risen = cycle.risen
      BY <1>4a, <2>1, HeatTypes DEF PollWrites, SetCoil
    <2>5. Charged' = Charged /\ TooWarm' = TooWarm
      BY <2>4 DEF Charged, TooWarm
    <2>. QED  BY <2>1, <2>3, <2>4, <2>5 DEF ResetInv, HeatInv, OffInv, HarmlessInv, Tight
  <1>5. CASE PollRegisters
    <2>1. /\ UNCHANGED <<act, temperature, damage, tick, resetting, resets>>
          /\ plc'.thermometer = Degrees(temperature) /\ plc'.heater_on = plc.heater_on
          /\ cycle.at = "registers"
          /\ cycle'.at = "inputs" /\ cycle'.scanned = FALSE /\ cycle'.risen = Rising
      BY <1>5, RegistersRead, HeatTypes DEF PollRegisters, process, PlcFields
    <2>2. Charged' = Charged
      BY <2>1 DEF Charged
    <2>3. ~TooWarm' => temperature <= 2 * max_temp - 1
      <3>1. \A t \in Int : t \div 2 < 95 => t <= 189
        OBVIOUS
      <3>2. ~TooWarm' => temperature \div 2 < 95
        BY <2>1 DEF TooWarm, Degrees, max_temp
      <3>3. temperature \in Int
        BY HeatTypes
      <3>. QED  BY <3>1, <3>2, <3>3 DEF max_temp
    <2>4. ~TooWarm' => Tight(2 * max_temp + Charged)
      BY <1>0, <2>3, HeatTypes DEF HeatInv, Tight, max_temp
    <2>5. ~TooWarm' /\ ~Rising => Tight(2 * max_temp - 1)
      BY <2>3, HeatTypes DEF Rising, Tight, max_temp
    <2>6. act["heater_on"] \/ plc.heater_on => Tight(2 * max_temp + Charged)
      BY <2>1 DEF HeatInv, OffInv
    <2>7. ASSUME NEW k PROVE Tight(k)' <=> Tight(k)
      BY <2>1 DEF Tight
    <2>8. ~cycle'.risen => ~Rising
      BY <2>1, Zenon
    <2>9. Tight(2 * max_temp + 1 + Charged)'
      BY <2>1, <2>2 DEF HeatInv, Tight
    <2>10. /\ ~TooWarm' => Tight(2 * max_temp + Charged)'
           /\ ~TooWarm' /\ ~Rising => Tight(2 * max_temp - 1)'
           /\ act["heater_on"] \/ plc.heater_on => Tight(2 * max_temp + Charged)'
      BY <2>1, <2>2, <2>4, <2>5, <2>6 DEF Tight
    <2>11. HeatInv'
      BY <2>1, <2>2, <2>8, <2>9, <2>10 DEF HeatInv
    <2>12. OffInv'
      BY <2>1 DEF OffInv
    <2>. QED  BY <2>1, <2>11, <2>12 DEF ResetInv, HarmlessInv
  <1>. QED  BY <1>1, <1>2, <1>3, <1>4, <1>4a, <1>5 DEF Poll

\* A reset: what the tick still holds of the old temperature is charged to it.
LEMMA HeatResets ==
    ASSUME Margin, PlantTypes, ResetInv, HeatInv, OffInv, HarmlessInv, Reset
    PROVE  ResetInv' /\ HeatInv' /\ OffInv' /\ HarmlessInv'
  <1>0. /\ Charged \in Int /\ 0 <= Charged
        /\ resets \in Int /\ 0 <= resets /\ resetting \in 0 .. 6
    BY HeatTypes
  <1>1. /\ UNCHANGED <<plc, cycle>> /\ TooWarm' = TooWarm
        /\ tick'.part = tick.part /\ tick'.held = tick.held
        /\ damage' = 0
        /\ resets' = IF resetting = 0 THEN resets + 1 ELSE resets
        /\ resetting' = IF resetting = 6 THEN 0 ELSE resetting + 1
    BY ResetOrderIs, HeatTypes DEF Reset, ResetField, control, TooWarm, HarmlessInv
  <1>2. act'["heater_on"] => act["heater_on"]
    BY HeatTypes DEF Reset, ResetField, Coils
  <1>3. OffInv' /\ HarmlessInv'
    BY <1>1, <1>2 DEF OffInv, HarmlessInv
  <1>4. ResetInv'
    BY <1>0, <1>1 DEF ResetInv
  <1>5. CASE resetting = 5
    <2>1. temperature' = Ambient
      BY <1>5, ResetOrderIs DEF Reset, ResetField
    <2>2. Charged' = Charged + 1
      BY <1>0, <1>1, <1>5 DEF Charged
    <2>3. Ambient <= 2 * max_temp - 1 /\ Ambient \in Int
      BY HeatTypes DEF Margin, max_temp
    <2>4. ASSUME NEW j \in Int, NEW k \in Int, j <= k, Tight(j), 2 * max_temp - 1 <= k
          PROVE  temperature' <= k /\ (tick'.part = "temperature" => tick'.held <= k)
      BY <1>1, <2>1, <2>3, <2>4, HeatTypes DEF Tight, max_temp
    <2>5. ASSUME NEW k \in Int, Tight(k), 2 * max_temp - 1 <= k
          PROVE  temperature' <= k /\ (tick'.part = "temperature" => tick'.held <= k)
      BY <1>1, <2>1, <2>3, <2>5, HeatTypes DEF Tight, max_temp
    <2>6. PICK m \in Int : m = 2 * max_temp /\ m >= 1
      BY DEF max_temp
    <2>7. PICK e \in Int : e = Charged /\ 0 <= e
      BY <1>0
    <2>8. Tight(m + 1 + e)'
      <3>1. Tight(m + 1 + e)
        BY <2>6, <2>7 DEF HeatInv
      <3>. QED  BY <2>5, <2>6, <2>7, <3>1 DEF Tight
    <2>9. Tight(m + 1 + (e + 1))'
      BY <2>4, <2>6, <2>7, HeatTypes DEF HeatInv, Tight
    <2>10. ~TooWarm => Tight(m + (e + 1))'
      BY <2>4, <2>6, <2>7 DEF HeatInv, Tight
    <2>11. ~TooWarm /\ ~cycle.risen => Tight(m - 1)'
      BY <2>5, <2>6, <2>7 DEF HeatInv, Tight
    <2>12. TooWarm /\ ~cycle.risen /\ (act["heater_on"] \/ plc.heater_on) => Tight(m + (e + 1))'
      BY <2>4, <2>6, <2>7 DEF HeatInv, Tight
    <2>13. tick'.part = "temperature" => tick'.held <= m + (e + 1)
      <3>1. m + (e + 1) = m + 1 + e
        BY <2>6, <2>7
      <3>. QED  BY <2>8, <3>1 DEF Tight
    <2>14. HeatInv'
      BY <1>1, <1>2, <2>2, <2>6, <2>7, <2>9, <2>10, <2>11, <2>12, <2>13 DEF HeatInv
    <2>. QED  BY <1>3, <1>4, <2>14
  <1>6. CASE resetting # 5
    <2>1. temperature' = temperature
      <3>1. ResetOrder[resetting + 1] # "temperature"
        BY <1>0, <1>6, ResetOrderIs
      <3>. QED  BY <3>1 DEF Reset, ResetField
    <2>2. Charged' = Charged
      BY <1>0, <1>1, <1>6 DEF Charged
    <2>3. HeatInv'
      BY <1>1, <1>2, <2>1, <2>2 DEF HeatInv, Tight
    <2>. QED  BY <1>3, <1>4, <2>3
  <1>. QED  BY <1>5, <1>6

\* What holds as long as the PLC is the only Modbus client.
ControlledInv == ~Connected("modbus") => HeatInv /\ OffInv /\ HarmlessInv

\* Every step keeps what holds under control, whatever is connected besides.
LEMMA HeatStep ==
    ASSUME Margin, PlantTypes, CoilsInv, MasterInv, ResetInv, ControlledInv, [Next]_vars
    PROVE  ResetInv' /\ ControlledInv'
  <1>1. deployment' = deployment
    BY DEF Next, Scan, Poll, PollBegins, PollInputs, PollCoils, PollWrites, PollRegisters, Tick, TickLoads,
           TickStores, Others, PressButton, Reset, Operate, OperatorWrites, OperatorReads, StartOpcUaServer, RoundBegins, RoundReads,
           Publish, ClientWrites, Fetch, Respond, SetData, vars
  <1>2. ResetInv'
    <2>1. CASE Reset
      BY <2>1, ResetOrderIs, HeatTypes DEF Reset, ResetField, ResetInv
    <2>2. CASE UNCHANGED <<resetting, resets>>
      BY <2>2 DEF ResetInv
    <2>3. CASE Scan \/ Poll \/ Tick
      BY <2>2, <2>3 DEF Scan, Poll, PollBegins, PollInputs, PollCoils, PollWrites, PollRegisters, Tick,
                        TickLoads, TickStores, BeginRead, EndRead, BeginWrite, WriteNext, SetCoil, Load, Store, process
    <2>4. ASSUME Others, ~Reset PROVE UNCHANGED <<resetting, resets>>
      BY <2>4 DEF Others, PressButton, Operate, OperatorWrites, OperatorReads, StartOpcUaServer, RoundBegins,
           RoundReads, Publish, ClientWrites, Fetch, Respond, SetData, BeginRead, EndRead, BeginWrite,
           WriteNext, SetCoil, process
    <2>. QED  BY <2>1, <2>2, <2>3, <2>4 DEF Next, vars, process
  <1>3. ASSUME ~Connected("modbus") PROVE HeatInv' /\ OffInv' /\ HarmlessInv'
    <2>0. HeatInv /\ OffInv /\ HarmlessInv
      BY <1>3 DEF ControlledInv
    <2>1. CASE Scan \/ Poll
      BY <2>0, <2>1, HeatPolls
    <2>2. CASE Tick
      BY <2>0, <2>2, HeatLoads, HeatStores DEF Tick
    <2>3. CASE Reset
      BY <2>0, <2>3, HeatResets
    <2>4. CASE PressButton
      <3>1. /\ UNCHANGED <<act, temperature, damage, tick, resetting, cycle, resets>>
            /\ plc'.thermometer = plc.thermometer /\ plc'.heater_on = plc.heater_on
        BY <2>4, HeatTypes DEF PressButton, process, PlcFields
      <3>2. Charged' = Charged /\ TooWarm' = TooWarm
        BY <3>1 DEF Charged, TooWarm
      <3>. QED  BY <2>0, <3>1, <3>2 DEF HeatInv, OffInv, HarmlessInv, Tight
    <2>5. CASE UNCHANGED HeatVars
      BY <2>0, <2>5, HeatFrame
    <2>6. CASE \E name \in DOMAIN Requests : Operate(name) \/ OperatorWrites(name) \/ OperatorReads(name)
      <3>1. ASSUME NEW name \in DOMAIN Requests PROVE ~WriteNext(name)
        BY <1>3, RequestsAssumption DEF CoilsInv, WaterLeft, DrainLeft, WriteNext, Idle
      <3>. QED  BY <1>3, <2>5, <2>6, <3>1 DEF Operate, OperatorWrites, OperatorReads, EndRead, control, HeatVars
    <2>7. CASE StartOpcUaServer \/ RoundBegins \/ RoundReads \/ Publish \/ \E n \in Writable : ClientWrites(n)
      BY <2>5, <2>7 DEF StartOpcUaServer, RoundBegins, RoundReads, Publish, ClientWrites, BeginRead,
                        EndRead, process, control, HeatVars
    <2>8. CASE Fetch \/ Respond \/ \E n \in DOMAIN fetches : SetData(n)
      BY <2>5, <2>8 DEF Fetch, Respond, SetData, BeginRead, EndRead, process, control, HeatVars
    <2>9. CASE UNCHANGED vars
      BY <2>5, <2>9 DEF vars, process, control, HeatVars
    <2>. QED
      BY <2>1, <2>2, <2>3, <2>4, <2>6, <2>7, <2>8, <2>9 DEF Next, Others
  <1>. QED  BY <1>1, <1>2, <1>3 DEF ControlledInv, Connected

\* The heater is never damaged as long as the PLC is the only Modbus client, for any
\* tank and however the PLC, the ticks and the resets interleave, if the margin above
\* max_temp is wide enough for the resets (heater.st, simulator.py).
THEOREM NeverDamagedWhileControlled ==
    ASSUME Margin
    PROVE  Spec => []NoDamageWhileControlled
  <1>1. Init => MasterInv /\ ResetInv /\ ControlledInv /\ CoilsInv
    <2>. SUFFICES ASSUME Init PROVE MasterInv /\ ResetInv /\ ControlledInv
      BY CoilsInit
    <2>1. MasterInv /\ ResetInv
      BY DEF Init, ProcessInit, MasterInv, ResetInv, Idle
    <2>2. /\ act["heater_on"] = FALSE /\ plc.heater_on = FALSE /\ plc.thermometer = 0
          /\ temperature = Ambient /\ damage = 0 /\ tick.part = "temperature" /\ tick.held = Nothing
          /\ Charged = 0
      BY DEF Init, ProcessInit, Coils, Charged
    <2>3. Ambient \in Nat /\ Ambient <= 2 * max_temp - 1
      BY ProcessAssumption DEF Margin, max_temp
    <2>4. HeatInv
      BY <2>2, <2>3 DEF HeatInv, Tight, TooWarm, Nothing, max_temp
    <2>5. OffInv /\ HarmlessInv
      BY <2>2 DEF OffInv, HarmlessInv
    <2>. QED  BY <2>1, <2>4, <2>5 DEF ControlledInv
  <1>2. PlantTypes /\ CoilsInv /\ MasterInv /\ ResetInv /\ ControlledInv /\ [Next]_vars
           => CoilsInv' /\ MasterInv' /\ ResetInv' /\ ControlledInv'
    BY CoilsStep, MasterStep, HeatStep
  <1>3. ControlledInv => NoDamageWhileControlled
    BY DEF ControlledInv, HarmlessInv, NoDamageWhileControlled
  <1>. QED  BY <1>1, <1>2, <1>3, PlantInit, PlantStep, PTL DEF Spec
=============================================================================
