--------------------------- MODULE HeaterProcess ---------------------------
(***************************************************************************)
(* src/testbeds/ot-security-testbed/industrial-process/simulator/          *)
(* simulator.py, and read_data and write_data of simulator_middleware.py   *)
(* as its callers see them: a tank that is filled, heated and drained by a *)
(* thread that ticks without the mutex, while others read snapshots and    *)
(* write coils under it and reset everything without it.                   *)
(*                                                                         *)
(* The water level counts fill_rate units, the temperature half degrees: a *)
(* tick moves it by less than one, so it is the same or the next after it. *)
(* The pressure is int(temp ** 1.3), taken at the whole degree.            *)
(***************************************************************************)
EXTENDS Integers, Sequences, SequencesExt, FiniteSetsExt, Functions

CONSTANTS
    Full,        \* the level of a full tank
    LowMark,     \* the low sensor is on above it
    HighMark,    \* the high sensor is on above it
    Ambient,     \* temperature of a heater that was never on
    TooHot,      \* hotter than this does damage
    PressureAt,  \* degrees -> pressure
    MaxDamage    \* bound: damage is not counted further

Degrees(halves) == halves \div 2

ASSUME ProcessAssumption ==
    /\ LowMark \in Nat /\ HighMark \in Nat /\ Full \in Nat
    /\ LowMark < HighMark /\ HighMark < Full
    /\ Ambient \in Nat /\ TooHot \in Nat /\ Ambient < TooHot
    /\ MaxDamage \in Nat
    /\ DOMAIN PressureAt = Degrees(Ambient) .. Degrees(TooHot + 1)
    /\ \A d \in DOMAIN PressureAt : PressureAt[d] \in Nat

Coils == {"heater_on", "water_on", "drain_on", "on_button"}
Gauges == {"level_sensor_low", "level_sensor_high", "thermometer", "pressure_gauge", "damage"}

VARIABLES
    act,           \* the coils
    water_level, temperature, damage,
    tick,          \* which part of a tick is due, and what it is about to store
    resetting,     \* how many fields a reset has set, 0 when none is under way
    reading,       \* the read that holds the mutex
    writing        \* the write that holds the mutex, with the coils left to set

process == <<act, water_level, temperature, damage, tick, resetting, reading, writing>>

Nothing == -1    \* a tick holds no value between a store and the next load

Idle == [by |-> "nobody"]

ProcessInit ==
    /\ act = [c \in Coils |-> FALSE]
    /\ water_level = 0 /\ temperature = Ambient /\ damage = 0
    /\ tick = [part |-> "temperature", held |-> Nothing, stale |-> FALSE]
    /\ resetting = 0
    /\ reading = Idle
    /\ writing = Idle

---------------------------------------------------------------------------
\* The tick. Each part loads a field and stores it again; stale is a history
\* field: a reset set the field in between. The water level has two parts, one
\* for each valve.

Then(part) == CASE part = "temperature" -> "fill" [] part = "fill" -> "drain"
                [] part = "drain" -> "damage" [] part = "damage" -> "temperature"

FieldOf(part) == IF part \in {"fill", "drain"} THEN "water_level" ELSE part

Hold(v) == tick' = [tick EXCEPT !.held = v]
PassOver == tick' = [tick EXCEPT !.part = Then(@)]

\* A temperature counted as TooHot may be slightly more.
MayBeHot == temperature >= TooHot \/ PressureAt[Degrees(temperature)] > 500
MayBeCold == temperature <= TooHot /\ PressureAt[Degrees(temperature)] <= 500

\* Mutant of Filled: no min.
FilledOver(level) == level + 1

\* What an open valve makes of a level.
Filled(level) == Min({level + 1, Full})
Drained(level) == Max({level - 1, 0})

\* By d half degrees up or down, and never below the ambience. What is too hot by
\* more than half a degree is not counted further.
Load(d) ==
    /\ tick.held = Nothing
    /\ CASE tick.part = "temperature" ->
              Hold(IF act["heater_on"] THEN Min({temperature + d, TooHot + 1})
                   ELSE Max({temperature - d, Ambient}))
         [] tick.part = "fill" -> IF act["water_on"] THEN Hold(Filled(water_level)) ELSE PassOver
         [] tick.part = "drain" -> IF act["drain_on"] THEN Hold(Drained(water_level)) ELSE PassOver
         [] tick.part = "damage" ->
              \/ MayBeHot /\ Hold(Min({damage + 1, MaxDamage}))
              \/ MayBeCold /\ PassOver
    /\ UNCHANGED <<act, water_level, temperature, damage, resetting, reading, writing>>

\* A read takes much less time than filling the tank from one sensor to the
\* other: the tank is filled by one unit at most while it lasts.
Store ==
    LET f == FieldOf(tick.part)
    IN  /\ tick.held # Nothing
        /\ tick.part = "fill" /\ reading # Idle => ~reading.filled
        /\ temperature' = IF f = "temperature" THEN tick.held ELSE temperature
        /\ water_level' = IF f = "water_level" THEN tick.held ELSE water_level
        /\ damage' = IF f = "damage" THEN tick.held ELSE damage
        /\ reading' = IF f = "water_level" /\ reading # Idle
                      THEN [reading EXCEPT !.filled = @ \/ tick.part = "fill",
                                           !.torn = @ \/ tick.stale]
                      ELSE reading
        /\ tick' = [part |-> Then(tick.part), held |-> Nothing, stale |-> FALSE]
        /\ UNCHANGED <<act, resetting, writing>>

---------------------------------------------------------------------------
\* reset, one field after the other, without the mutex.

ResetOrder == << "heater_on", "water_on", "drain_on", "on_button",
                 "water_level", "temperature", "damage" >>

ResetField ==
    LET f == ResetOrder[resetting + 1]
    IN  /\ resetting' = IF resetting + 1 = Len(ResetOrder) THEN 0 ELSE resetting + 1
        /\ act' = IF f \in Coils THEN [act EXCEPT ![f] = FALSE] ELSE act
        /\ water_level' = IF f = "water_level" THEN 0 ELSE water_level
        /\ temperature' = IF f = "temperature" THEN Ambient ELSE temperature
        /\ damage' = IF f = "damage" THEN 0 ELSE damage
        /\ tick' = [tick EXCEPT !.stale = @ \/ (tick.held # Nothing /\ FieldOf(tick.part) = f)]
        /\ UNCHANGED <<reading, writing>>

---------------------------------------------------------------------------
\* read_data and write_data, which hold the mutex. A read takes two steps here,
\* with other threads in between: it has asked the low level sensor and not yet
\* the high one. The coils, which only a reset may change under it, count as
\* read in the second step. SimulatorMiddleware has it field by field.

MutexFree == reading = Idle /\ writing = Idle

\* Mutant of FirstRead: the two level sensors swapped.
FirstReadSwapped == {"level_sensor_high"}

FirstRead == {"level_sensor_low"}

Field(f) ==
    CASE f \in Coils -> act[f]
      [] f = "level_sensor_low" -> water_level > LowMark
      [] f = "level_sensor_high" -> water_level > HighMark
      [] f = "thermometer" -> Degrees(temperature)
      [] f = "pressure_gauge" -> PressureAt[Degrees(temperature)]
      [] f = "damage" -> damage

BeginRead(by) ==
    /\ MutexFree
    /\ reading' = [by |-> by, first |-> [f \in FirstRead |-> Field(f)],
                   filled |-> FALSE, torn |-> FALSE]
    /\ UNCHANGED <<act, water_level, temperature, damage, tick, resetting, writing>>

\* What the read returns.
Snapshot == [f \in Coils \union Gauges |-> IF f \in FirstRead THEN reading.first[f] ELSE Field(f)]

EndRead(by) ==
    /\ reading.by = by
    /\ reading' = Idle
    /\ UNCHANGED <<act, water_level, temperature, damage, tick, resetting, writing>>

\* A write sets one coil after the other, in the order of SimulatorWriteData, and
\* leaves out those that are None. The mutex is released with the last.
Place == [heater_on |-> 1, water_on |-> 2, drain_on |-> 3, on_button |-> 4]

SetCoil(by, coils) ==
    \E c \in DOMAIN coils :
        /\ \A other \in DOMAIN coils : Place[c] <= Place[other]
        /\ act' = [act EXCEPT ![c] = coils[c]]
        /\ writing' = IF DOMAIN coils = {c} THEN Idle
                      ELSE [by |-> by, left |-> Restrict(coils, DOMAIN coils \ {c})]
        /\ UNCHANGED <<water_level, temperature, damage, tick, resetting, reading>>

BeginWrite(by, coils) == MutexFree /\ SetCoil(by, coils)

WriteNext(by) == writing.by = by /\ SetCoil(by, writing.left)
=============================================================================
