------------------------ MODULE SimulatorMiddleware ------------------------
(***************************************************************************)
(* The middleware of the industrial process simulator                      *)
(* (simulator_middleware.py) between the physical model and the threads    *)
(* main.py starts.  The Modbus reactor is one thread and the only writer;  *)
(* it, the OPC UA loop and the web workers read; a web worker also resets. *)
(*                                                                         *)
(* Python may switch threads between any two accesses to a field, so a     *)
(* read, a write and a reset take a step per field.  The mutex orders      *)
(* read_data and write_data; the model's tick and reset do not take it.    *)
(*                                                                         *)
(* Of the physical model only the temperature is kept, as the moment of    *)
(* the process it belongs to: both gauges are functions of it.  A tick     *)
(* reads it and writes it back, and may come between any two steps.        *)
(***************************************************************************)
EXTENDS Integers, Sequences

CONSTANTS
  Modbus,   \* the Modbus server's thread
  Readers,  \* threads that read: Modbus server, OPC UA loop, web workers
  Web,      \* the web workers
  Nobody,   \* the mutex is free
  Writes,   \* coil writes a PLC sends: a subset of WriteData
  CacheAge, \* 0.1 s, in the units of the clock
  MaxNow,   \* bounds of the model: the clock,
  MaxMoment \* and the ticks

Thread == Readers \union Web \union {Modbus}
Coils == {"heater_on", "water_on", "drain_on", "on_button"}
WriteData == UNION {[C -> BOOLEAN] : C \in SUBSET Coils}

ASSUME ThreadsAssumption == Nobody \notin Thread
ASSUME WritesAssumption == Writes \subseteq WriteData
ASSUME BoundsAssumption == CacheAge \in Nat /\ MaxNow \in Nat /\ MaxMoment \in Nat

VARIABLES
  act,            \* the simulator's four actuators
  moment,         \* the temperature, in ticks since a reset
  ticking,        \* the moment a running tick has read, or NoTick
  mutex,
  written_to,
  time_last_read,
  cache,          \* the values of the last read, in ReadOrder
  now,            \* time(): the wall clock
  req,            \* what each thread is doing
  changed         \* history: <<reader, who>>: act changed during its last call

middleware == <<mutex, written_to, time_last_read, cache>>
process == <<moment, ticking>>
vars == <<act, process, middleware, now, req, changed>>

-----------------------------------------------------------------------------
\* The keyword arguments of SimulatorReadData, in the order they are
\* evaluated; of the gauges the two that are functions of the temperature.
ReadOrder ==
  <<"drain_on", "heater_on", "thermometer", "pressure_gauge", "water_on", "on_button">>

\* The fields of SimulatorWriteData, in the order data.dict() gives them.
WriteOrder == <<"heater_on", "water_on", "drain_on", "on_button">>

Field(f) == IF f \in Coils THEN act[f] ELSE moment
NoTick == -1
Gauges == {k \in 1 .. Len(ReadOrder) : ReadOrder[k] \notin Coils}

Idle == [at |-> "idle"]
Goto(t, r) == req' = [req EXCEPT ![t] = r]

\* Who changed the actuators under the calls that are running.
By(who) == changed' = changed \union {<<t, who>> : t \in {u \in Readers : req[u] # Idle}}

\* read_data: the cache is copied when nothing was ever written and the clock
\* says so; the other readers wait for the mutex.
ReadData(t) ==
  /\ req[t] = Idle
  /\ Goto(t, [at |-> IF written_to \/ time_last_read - now < CacheAge
                     THEN "read_wait" ELSE "copy"])
  /\ changed' = {note \in changed : note[1] # t}
  /\ UNCHANGED <<act, process, middleware, now>>

\* The copy is made without the mutex, of whatever the cache is by then.
CopyCache(t) ==
  /\ req[t].at = "copy"
  /\ Goto(t, [at |-> "return", data |-> cache])
  /\ UNCHANGED <<act, process, middleware, now, changed>>

\* Mutant of Acquire: write_data does not take the mutex.
AcquireToReadOnly(t) ==
  /\ \/ /\ mutex = Nobody /\ mutex' = t
        /\ req[t].at = "read_wait"
        /\ Goto(t, [at |-> "read", data |-> <<>>])
     \/ /\ UNCHANGED mutex
        /\ req[t].at = "write_wait"
        /\ Goto(t, [at |-> "write", i |-> 1, data |-> req[t].data])
  /\ UNCHANGED <<act, process, written_to, time_last_read, cache, now, changed>>

Acquire(t) ==
  /\ mutex = Nobody
  /\ mutex' = t
  /\ \/ /\ req[t].at = "read_wait"
        /\ Goto(t, [at |-> "read", data |-> <<>>])
     \/ /\ req[t].at = "write_wait"
        /\ Goto(t, [at |-> "write", i |-> 1, data |-> req[t].data])
  /\ UNCHANGED <<act, process, written_to, time_last_read, cache, now, changed>>

\* One attribute of the simulator at a time; data is the sequence of values.
ReadField(t) ==
  /\ req[t].at = "read"
  /\ Len(req[t].data) < Len(ReadOrder)
  /\ Goto(t, [req[t] EXCEPT !.data = Append(@, Field(ReadOrder[Len(@) + 1]))])
  /\ UNCHANGED <<act, process, middleware, now, changed>>

\* Mutant of FinishRead: the flag is lowered once the cache is filled.
FinishReadLowersFlag(t) ==
  /\ req[t].at = "read"
  /\ Len(req[t].data) = Len(ReadOrder)
  /\ cache' = req[t].data
  /\ time_last_read' = now
  /\ mutex' = Nobody
  /\ written_to' = FALSE
  /\ Goto(t, [at |-> "return", data |-> req[t].data])
  /\ UNCHANGED <<act, process, now, changed>>

\* The cache is replaced and copied, and the mutex released.
FinishRead(t) ==
  /\ req[t].at = "read"
  /\ Len(req[t].data) = Len(ReadOrder)
  /\ cache' = req[t].data
  /\ time_last_read' = now
  /\ mutex' = Nobody
  /\ Goto(t, [at |-> "return", data |-> req[t].data])
  /\ UNCHANGED <<act, process, written_to, now, changed>>

Return(t) ==
  /\ req[t].at = "return"
  /\ Goto(t, Idle)
  /\ UNCHANGED <<act, process, middleware, now, changed>>

\* coil_write_callback collects the coils of one Modbus request, then
\* write_data: the flag goes up before the mutex is taken.
WriteCoils(data) ==
  /\ req[Modbus] = Idle
  /\ Goto(Modbus, [at |-> "write_wait", data |-> data])
  /\ written_to' = TRUE
  /\ UNCHANGED <<act, process, mutex, time_last_read, cache, now, changed>>

\* setattr for each coil the request carries.
WriteField(t) ==
  LET c == WriteOrder[req[t].i]
  IN  /\ req[t].at = "write"
      /\ req[t].i <= Len(WriteOrder)
      /\ Goto(t, [req[t] EXCEPT !.i = @ + 1])
      /\ IF c \in DOMAIN req[t].data /\ act[c] # req[t].data[c]
         THEN act' = [act EXCEPT ![c] = req[t].data[c]] /\ By("write")
         ELSE UNCHANGED <<act, changed>>
      /\ UNCHANGED <<process, middleware, now>>

FinishWrite(t) ==
  /\ req[t].at = "write"
  /\ req[t].i > Len(WriteOrder)
  /\ mutex' = Nobody
  /\ Goto(t, Idle)
  /\ UNCHANGED <<act, process, written_to, time_last_read, cache, now, changed>>

\* GET /api/reset: Simulator.reset, field by field and without the mutex.
ResetOrder == Append(WriteOrder, "process")

Reset(t) ==
  /\ req[t] = Idle
  /\ Goto(t, [at |-> "reset", i |-> 1])
  /\ UNCHANGED <<act, process, middleware, now, changed>>

ResetField(t) ==
  LET f == ResetOrder[req[t].i]
  IN  /\ req[t].at = "reset"
      /\ IF req[t].i < Len(ResetOrder) THEN Goto(t, [req[t] EXCEPT !.i = @ + 1])
         ELSE Goto(t, Idle)
      /\ IF f \in Coils /\ act[f]
         THEN act' = [act EXCEPT ![f] = FALSE] /\ By("reset")
         ELSE UNCHANGED <<act, changed>>
      /\ moment' = IF f = "process" THEN 0 ELSE moment
      /\ UNCHANGED <<ticking, middleware, now>>

\* Simulator.__tick, in its own thread and without the mutex: the temperature
\* is read and written back, so a reset between the two is lost.
TickReads ==
  /\ ticking = NoTick
  /\ moment < MaxMoment
  /\ ticking' = moment
  /\ UNCHANGED <<act, moment, middleware, now, req, changed>>

TickWrites ==
  /\ ticking # NoTick
  /\ moment' = ticking + 1
  /\ ticking' = NoTick
  /\ UNCHANGED <<act, middleware, now, req, changed>>

\* The wall clock runs, and steps back when it is adjusted.
Clock ==
  /\ now' \in 0 .. MaxNow
  /\ UNCHANGED <<act, process, middleware, req, changed>>

-----------------------------------------------------------------------------
\* Mutant of Init: the constructor leaves the cache for the first read.
InitWithoutCache ==
  /\ act = [c \in Coils |-> FALSE]
  /\ moment = 0 /\ ticking = NoTick
  /\ mutex = Nobody /\ written_to = FALSE
  /\ now \in 0 .. MaxNow /\ time_last_read = now
  /\ cache = <<>>
  /\ req = [t \in Thread |-> Idle]
  /\ changed = {}

\* The middleware's constructor filled the cache before any thread started.
Init ==
  /\ act = [c \in Coils |-> FALSE]
  /\ moment = 0 /\ ticking = NoTick
  /\ mutex = Nobody /\ written_to = FALSE
  /\ now \in 0 .. MaxNow /\ time_last_read = now
  /\ cache = [k \in 1 .. Len(ReadOrder) |-> Field(ReadOrder[k])]
  /\ req = [t \in Thread |-> Idle]
  /\ changed = {}

Request(t) ==
  \/ t \in Readers /\ ReadData(t)
  \/ t = Modbus /\ \E data \in Writes : WriteCoils(data)
  \/ t \in Web /\ Reset(t)

\* What a thread inside a call does without waiting for the mutex.
Work(t) ==
  \/ CopyCache(t) \/ ReadField(t) \/ FinishRead(t) \/ Return(t)
  \/ WriteField(t) \/ FinishWrite(t) \/ ResetField(t)

Next ==
  \/ TickReads \/ TickWrites
  \/ \E t \in Thread : Request(t) \/ Acquire(t) \/ Work(t)
  \/ Clock

Spec == Init /\ [][Next]_vars

-----------------------------------------------------------------------------
(* Properties.                                                             *)

Snapshot(t) == req[t].data   \* of a thread that reads or returns

\* Every variable stays in its type.
TypeOK ==
  /\ act \in [Coils -> BOOLEAN]
  /\ moment \in 0 .. MaxMoment /\ ticking \in {NoTick} \union 0 .. MaxMoment - 1
  /\ mutex \in Thread \union {Nobody} /\ written_to \in BOOLEAN
  /\ time_last_read \in 0 .. MaxNow /\ now \in 0 .. MaxNow
  /\ Len(cache) = Len(ReadOrder)
  /\ DOMAIN req = Thread /\ changed \subseteq Readers \X {"write", "reset"}

Current(t) ==
  \A k \in 1 .. Len(Snapshot(t)) : ReadOrder[k] \in Coils => Snapshot(t)[k] = act[ReadOrder[k]]

\* A coil request is never seen half done: what a read has collected of the
\* coils, field by field, is what they are, whoever writes meanwhile, unless
\* a reset (which takes no mutex) changed them under it.
ReadsSeeWholeWrites ==
  \A t \in Readers : req[t].at = "read" /\ <<t, "reset">> \notin changed => Current(t)

\* A value served from the cache is not older than the request: whatever the
\* clock did, a read during which no actuator changed returns the actuators
\* as they are, so a PLC always reads back the coils it wrote.
ReadIsFresh ==
  \A t \in Readers :
    req[t].at = "return" /\ <<t, "write">> \notin changed /\ <<t, "reset">> \notin changed
      => Current(t)

\* docs/src/simulator.md: the middleware "handles synchronization": the two
\* gauges of one answer then show the same moment of the process.
GaugesAgree ==
  \A t \in Thread : req[t].at = "return" =>
    \A k, l \in Gauges : Snapshot(t)[k] = Snapshot(t)[l]

\* docs/src/simulator.md: "and caching (in order to reduce load on the
\* simulation model)": a read within 0.1 s of the last one, with nothing
\* written, does not touch the model.
CachingReducesLoad ==
  [][\A t \in Thread :
       ReadData(t) /\ ~written_to /\ now - time_last_read \in 0 .. CacheAge - 1
         => req'[t].at = "copy"]_vars
=============================================================================
