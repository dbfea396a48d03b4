--------------------------- MODULE ModbusServer ---------------------------
(***************************************************************************)
(* src/testbeds/ot-security-testbed/industrial-process/simulator/          *)
(* modbus_server.py: which requests the four tables accept and what their  *)
(* callbacks make of them. pymodbus adds one to the address of a request   *)
(* and asks validate before it calls getValues or setValues.               *)
(***************************************************************************)
EXTENDS Integers, Sequences, Functions

CoilAt == << "heater_on", "water_on", "drain_on", "on_button" >>
DiscreteAt == << "level_sensor_low", "level_sensor_high" >>
RegisterAt == << "thermometer", "pressure_gauge" >>

\* A request names a table, a first address counted from 0, and what is to be
\* written there or how much is to be read.
Addresses(req) == req.start + 1 .. req.start + req.count

\* Mutant of CoilValidate: <= for <.
CoilValidateInclusive(addresses) == \A i \in addresses : 1 <= i /\ i <= 5

CoilValidate(addresses) == \A i \in addresses : 1 <= i /\ i < 5
InputValidate(addresses) == \A i \in addresses : 1 <= i /\ i <= 2
DiscreteValidate(addresses) == \A i \in addresses : 1 <= i /\ i <= 2
HoldingValidate(addresses) == FALSE

Validate(req) ==
    CASE req.table = "co" -> CoilValidate(Addresses(req))
      [] req.table = "di" -> DiscreteValidate(Addresses(req))
      [] req.table = "ir" -> InputValidate(Addresses(req))
      [] req.table = "hr" -> HoldingValidate(Addresses(req))

\* The read callbacks, on what the simulator returned: 0 where a table has
\* nothing.
ValuesOf(names, data, addresses) ==
    [i \in addresses |-> IF i \in DOMAIN names THEN data[names[i]] ELSE 0]

CoilRead(data, addresses) == ValuesOf(CoilAt, data, addresses)
DiscreteRead(data, addresses) == ValuesOf(DiscreteAt, data, addresses)
InputRegRead(data, addresses) == ValuesOf(RegisterAt, data, addresses)

GetValues(req, data) ==
    CASE req.table = "co" -> CoilRead(data, Addresses(req))
      [] req.table = "di" -> DiscreteRead(data, Addresses(req))
      [] req.table = "ir" -> InputRegRead(data, Addresses(req))

\* coil_write_callback raises at an address it does not know, before it has
\* written anything. values is a sequence.
WriteFails(req) == ~(Addresses(req) \subseteq DOMAIN CoilAt)

CoilWrite(req) ==
    LET named == {CoilAt[i] : i \in Addresses(req)}
    IN  [c \in named |-> req.values[CHOOSE n \in DOMAIN req.values : CoilAt[req.start + n] = c]]
=============================================================================
