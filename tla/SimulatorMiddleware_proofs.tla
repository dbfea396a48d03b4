--------------------- MODULE SimulatorMiddleware_proofs ---------------------
(***************************************************************************)
(* Machine-checked proofs about the middleware, for any number of reading  *)
(* and resetting threads, any coil requests and any clock.                 *)
(*                                                                         *)
(* Three facts carry the properties: who is inside a read or a write holds *)
(* the mutex, no write is under way before written_to is up, and as long   *)
(* as it is down everything that was ever read of the coils is off.        *)
(***************************************************************************)
EXTENDS SimulatorMiddleware, SequenceTheorems, TLAPS

Value == BOOLEAN \union Int

RequestRecord ==
  UNION {{Idle},
         [at : {"read_wait", "copy"}],
         [at : {"read", "return"}, data : Seq(Value)],
         [at : {"write_wait"}, data : Writes],
         [at : {"write"}, i : 1 .. 5, data : Writes],
         [at : {"reset"}, i : 1 .. 5]}

TypeInv ==
  /\ act \in [Coils -> BOOLEAN]
  /\ moment \in 0 .. MaxMoment /\ ticking \in {NoTick} \union 0 .. MaxMoment - 1
  /\ mutex \in Thread \union {Nobody} /\ written_to \in BOOLEAN
  /\ time_last_read \in 0 .. MaxNow /\ now \in 0 .. MaxNow
  /\ cache \in Seq(Value) /\ Len(cache) = Len(ReadOrder)
  /\ req \in [Thread -> RequestRecord]
  /\ changed \subseteq Readers \X {"write", "reset"}

LockInv == \A t \in Thread : req[t].at \in {"read", "write"} => mutex = t

FlagInv == \A t \in Thread : req[t].at \in {"write_wait", "write"} => written_to

OffIn(data) == \A k \in 1 .. Len(data) : ReadOrder[k] \in Coils => data[k] = FALSE

AllOff ==
  /\ \A c \in Coils : act[c] = FALSE
  /\ OffIn(cache)
  /\ \A t \in Thread : req[t].at = "read" => OffIn(req[t].data)

Undisturbed(t) == <<t, "write">> \notin changed /\ <<t, "reset">> \notin changed

QuietInv ==
  (~written_to \/ \E t \in Readers : req[t].at = "copy" /\ Undisturbed(t)) => AllOff

Inv == TypeInv /\ LockInv /\ FlagInv /\ QuietInv /\ ReadsSeeWholeWrites /\ ReadIsFresh

-----------------------------------------------------------------------------
\* The field lists, element by element.
LEMMA Orders ==
  /\ Len(ReadOrder) = 6 /\ Len(WriteOrder) = 4 /\ Len(ResetOrder) = 5
  /\ \A i \in 1 .. 4 : WriteOrder[i] \in Coils
  BY SMT DEF ReadOrder, WriteOrder, ResetOrder, Coils

\* What a request record says of its state and its fields.
LEMMA RequestFields ==
  ASSUME NEW r \in RequestRecord
  PROVE  /\ r.at = "idle" => r = Idle
         /\ r.at \in {"read", "return"} =>
              r = [at |-> r.at, data |-> r.data] /\ r.data \in Seq(Value)
         /\ r.at = "write_wait" => r.data \in Writes
         /\ r.at = "write" =>
              r = [at |-> "write", i |-> r.i, data |-> r.data]
                /\ r.i \in 1 .. 5 /\ r.data \in Writes
         /\ r.at = "reset" => r = [at |-> "reset", i |-> r.i] /\ r.i \in 1 .. 5
  BY SMT DEF RequestRecord, Idle

\* One attribute of the simulator reads as a value.
LEMMA FieldValue == TypeInv => \A f : Field(f) \in Value
  <1>. SUFFICES ASSUME TypeInv, NEW f PROVE Field(f) \in Value
    OBVIOUS
  <1>1. CASE f \in Coils
    BY <1>1 DEF Field, Value, TypeInv
  <1>2. CASE f \notin Coils
    BY <1>2, BoundsAssumption DEF Field, Value, TypeInv
  <1>. QED  BY <1>1, <1>2

-----------------------------------------------------------------------------
\* Every thread's request stays a request, whoever moves on.
LEMMA GotoType ==
  ASSUME TypeInv, NEW t \in Thread, NEW r \in RequestRecord, Goto(t, r)
  PROVE  /\ req' \in [Thread -> RequestRecord]
         /\ req'[t] = r
         /\ \A u \in Thread \ {t} : req'[u] = req[u]
  BY DEF TypeInv, Goto

\* A note about who changed the actuators names a reader.
LEMMA NotesType ==
  ASSUME TypeInv, NEW who \in {"write", "reset"}, By(who)
  PROVE  changed' \subseteq Readers \X {"write", "reset"}
  BY DEF TypeInv, By

\* Each step of a thread keeps the types.
LEMMA TypeOfThreadStep ==
  ASSUME TypeInv, NEW t \in Thread, Request(t) \/ Acquire(t) \/ Work(t)
  PROVE  TypeInv'
  <1>r. req[t] \in RequestRecord
    BY DEF TypeInv
  <1>m. Modbus \in Thread
    BY DEF Thread
  <1>i. Idle \in RequestRecord
    BY DEF RequestRecord
  <1>1. CASE t \in Readers /\ ReadData(t)
    <2>1. PICK s \in {"read_wait", "copy"} : Goto(t, [at |-> s])
      BY <1>1 DEF ReadData
    <2>2. [at |-> s] \in RequestRecord
      BY DEF RequestRecord
    <2>3. req' \in [Thread -> RequestRecord]
      BY <2>1, <2>2, GotoType
    <2>. QED  BY <1>1, <2>3 DEF ReadData, TypeInv, process, middleware
  <1>2. CASE t = Modbus /\ \E data \in Writes : WriteCoils(data)
    <2>1. PICK data \in Writes : WriteCoils(data)
      BY <1>2
    <2>2. [at |-> "write_wait", data |-> data] \in RequestRecord
      BY DEF RequestRecord
    <2>3. req' \in [Thread -> RequestRecord]
      BY <1>m, <2>1, <2>2, GotoType DEF WriteCoils
    <2>. QED  BY <2>1, <2>3 DEF WriteCoils, TypeInv, process
  <1>3. CASE t \in Web /\ Reset(t)
    <2>1. [at |-> "reset", i |-> 1] \in RequestRecord
      BY SMT DEF RequestRecord
    <2>2. req' \in [Thread -> RequestRecord]
      BY <1>3, <2>1, GotoType DEF Reset
    <2>. QED  BY <1>3, <2>2 DEF Reset, TypeInv, process, middleware
  <1>4. CASE Acquire(t)
    <2>1. [at |-> "read", data |-> <<>>] \in RequestRecord
      BY SMT DEF RequestRecord, Value
    <2>2. ASSUME req[t].at = "write_wait"
          PROVE  [at |-> "write", i |-> 1, data |-> req[t].data] \in RequestRecord
      <3>1. req[t].data \in Writes
        BY <1>r, <2>2, RequestFields
      <3>. QED  BY <3>1, SMT DEF RequestRecord
    <2>3. req' \in [Thread -> RequestRecord]
      BY <1>4, <2>1, <2>2, GotoType DEF Acquire
    <2>. QED  BY <1>4, <2>3 DEF Acquire, TypeInv, process
  <1>5. CASE CopyCache(t)
    <2>1. [at |-> "return", data |-> cache] \in RequestRecord
      BY DEF RequestRecord, TypeInv
    <2>2. req' \in [Thread -> RequestRecord]
      BY <1>5, <2>1, GotoType DEF CopyCache
    <2>. QED  BY <1>5, <2>2 DEF CopyCache, TypeInv, process, middleware
  <1>6. CASE ReadField(t)
    <2>d. req[t].data \in Seq(Value) /\ req[t] = [at |-> "read", data |-> req[t].data]
      BY <1>r, <1>6, RequestFields DEF ReadField
    <2> DEFINE v == Field(ReadOrder[Len(req[t].data) + 1])
               next == [at |-> "read", data |-> Append(req[t].data, v)]
    <2>v. v \in Value
      BY FieldValue
    <2>1. Append(req[t].data, v) \in Seq(Value)
      BY <2>d, <2>v, AppendProperties
    <2>2. next \in RequestRecord
      BY <2>1 DEF RequestRecord
    <2>3. [req[t] EXCEPT !.data = Append(@, Field(ReadOrder[Len(@) + 1]))] = next
      <3>1. \A w : [req[t] EXCEPT !.data = w] = [at |-> "read", data |-> w]
        BY <2>d
      <3>. QED  BY <3>1
    <2>4. req' \in [Thread -> RequestRecord]
      BY <1>6, <2>2, <2>3, GotoType DEF ReadField
    <2>. QED  BY <1>6, <2>4 DEF ReadField, TypeInv, process, middleware
  <1>7. CASE FinishRead(t)
    <2>d. req[t].data \in Seq(Value)
      BY <1>r, <1>7, RequestFields DEF FinishRead
    <2>1. [at |-> "return", data |-> req[t].data] \in RequestRecord
      BY <2>d DEF RequestRecord
    <2>2. req' \in [Thread -> RequestRecord]
      BY <1>7, <2>1, GotoType DEF FinishRead
    <2>. QED  BY <1>7, <2>d, <2>2 DEF FinishRead, TypeInv, process
  <1>8. CASE Return(t)
    <2>1. req' \in [Thread -> RequestRecord]
      BY <1>8, <1>i, GotoType DEF Return
    <2>. QED  BY <1>8, <2>1 DEF Return, TypeInv, process, middleware
  <1>9. CASE WriteField(t)
    <2>d. /\ req[t] = [at |-> "write", i |-> req[t].i, data |-> req[t].data]
          /\ req[t].i \in 1 .. 4 /\ req[t].data \in Writes
      BY <1>r, <1>9, RequestFields, Orders DEF WriteField
    <2> DEFINE next == [at |-> "write", i |-> req[t].i + 1, data |-> req[t].data]
               c == WriteOrder[req[t].i]
    <2>1. next \in RequestRecord
      BY <2>d, SMT DEF RequestRecord
    <2>2. [req[t] EXCEPT !.i = @ + 1] = next
      BY <2>d
    <2>3. req' \in [Thread -> RequestRecord]
      BY <1>9, <2>1, <2>2, GotoType DEF WriteField
    <2>4. act' \in [Coils -> BOOLEAN]
      <3>1. c \in DOMAIN req[t].data => req[t].data[c] \in BOOLEAN
        BY <2>d, WritesAssumption DEF WriteData
      <3>. QED  BY <1>9, <3>1 DEF WriteField, TypeInv
    <2>5. changed' \subseteq Readers \X {"write", "reset"}
      BY <1>9, NotesType DEF WriteField, TypeInv
    <2>. QED  BY <1>9, <2>3, <2>4, <2>5 DEF WriteField, TypeInv, process, middleware
  <1>10. CASE FinishWrite(t)
    <2>1. req' \in [Thread -> RequestRecord]
      BY <1>10, <1>i, GotoType DEF FinishWrite
    <2>. QED  BY <1>10, <2>1 DEF FinishWrite, TypeInv, process
  <1>11. CASE ResetField(t)
    <2>d. req[t] = [at |-> "reset", i |-> req[t].i] /\ req[t].i \in 1 .. 5
      BY <1>r, <1>11, RequestFields DEF ResetField
    <2> DEFINE next == [at |-> "reset", i |-> req[t].i + 1]
    <2>1. [req[t] EXCEPT !.i = @ + 1] = next
      BY <2>d
    <2>2. req[t].i < Len(ResetOrder) => next \in RequestRecord
      BY <2>d, Orders, SMT DEF RequestRecord
    <2>3. req' \in [Thread -> RequestRecord]
      BY <1>11, <1>i, <2>1, <2>2, GotoType DEF ResetField
    <2>4. act' \in [Coils -> BOOLEAN]
      BY <1>11 DEF ResetField, TypeInv
    <2>5. changed' \subseteq Readers \X {"write", "reset"}
      BY <1>11, NotesType DEF ResetField, TypeInv
    <2>6. moment' \in 0 .. MaxMoment
      BY <1>11, BoundsAssumption DEF ResetField, TypeInv
    <2>. QED  BY <1>11, <2>3, <2>4, <2>5, <2>6 DEF ResetField, TypeInv, middleware
  <1>. QED  BY <1>1, <1>2, <1>3, <1>4, <1>5, <1>6, <1>7, <1>8, <1>9, <1>10, <1>11
            DEF Request, Work

-----------------------------------------------------------------------------
\* A step of a thread moves that thread only.
LEMMA GotoMoves ==
  ASSUME TypeInv, NEW t \in Thread, NEW r, Goto(t, r)
  PROVE  req'[t] = r /\ \A u \in Thread \ {t} : req'[u] = req[u]
  BY DEF TypeInv, Goto

\* Where each step of a thread leads.
Moves(t) ==
  /\ \A u \in Thread \ {t} : req'[u] = req[u]
  /\ ReadData(t) => req'[t].at \in {"read_wait", "copy"}
  /\ (t = Modbus /\ \E data \in Writes : WriteCoils(data)) => req'[t].at = "write_wait"
  /\ Reset(t) => req'[t].at = "reset"
  /\ Acquire(t) => \/ req[t].at = "read_wait" /\ req'[t] = [at |-> "read", data |-> <<>>]
                   \/ req[t].at = "write_wait" /\ req'[t].at = "write"
  /\ CopyCache(t) => req'[t] = [at |-> "return", data |-> cache]
  /\ ReadField(t) =>
       req'[t] = [at |-> "read",
                  data |-> Append(req[t].data, Field(ReadOrder[Len(req[t].data) + 1]))]
  /\ FinishRead(t) => req'[t] = [at |-> "return", data |-> req[t].data]
  /\ Return(t) => req'[t].at = "idle"
  /\ WriteField(t) => req'[t].at = "write"
  /\ FinishWrite(t) => req'[t].at = "idle"
  /\ ResetField(t) => req'[t].at \in {"reset", "idle"}

\* A step of a thread moves that thread only, and there.
LEMMA StepMoves ==
  ASSUME TypeInv, NEW t \in Thread, Request(t) \/ Acquire(t) \/ Work(t)
  PROVE  Moves(t)
  <1>r. req[t] \in RequestRecord
    BY DEF TypeInv
  <1>0. Modbus \in Thread
    BY DEF Thread
  <1>1. ASSUME ReadData(t)
        PROVE  /\ req'[t].at \in {"read_wait", "copy"}
               /\ \A u \in Thread \ {t} : req'[u] = req[u]
    BY <1>1, GotoMoves DEF ReadData
  <1>2. ASSUME NEW data \in Writes, t = Modbus, WriteCoils(data)
        PROVE  /\ req'[t].at = "write_wait"
               /\ \A u \in Thread \ {t} : req'[u] = req[u]
    BY <1>2, GotoMoves DEF WriteCoils
  <1>3. ASSUME Reset(t)
        PROVE  req'[t].at = "reset" /\ \A u \in Thread \ {t} : req'[u] = req[u]
    BY <1>3, GotoMoves DEF Reset
  <1>4. ASSUME Acquire(t)
        PROVE  /\ \/ req[t].at = "read_wait" /\ req'[t] = [at |-> "read", data |-> <<>>]
                  \/ req[t].at = "write_wait" /\ req'[t].at = "write"
               /\ \A u \in Thread \ {t} : req'[u] = req[u]
    BY <1>4, GotoMoves DEF Acquire
  <1>5. ASSUME CopyCache(t)
        PROVE  /\ req'[t] = [at |-> "return", data |-> cache]
               /\ \A u \in Thread \ {t} : req'[u] = req[u]
    BY <1>5, GotoMoves DEF CopyCache
  <1>6. ASSUME ReadField(t)
        PROVE  /\ req'[t] = [at |-> "read",
                             data |-> Append(req[t].data, Field(ReadOrder[Len(req[t].data) + 1]))]
               /\ \A u \in Thread \ {t} : req'[u] = req[u]
    <2>1. req[t] = [at |-> "read", data |-> req[t].data]
      BY <1>r, <1>6, RequestFields DEF ReadField
    <2>2. \A w : [req[t] EXCEPT !.data = w] = [at |-> "read", data |-> w]
      BY <2>1
    <2>. QED  BY <1>6, <2>2, GotoMoves DEF ReadField
  <1>7. ASSUME FinishRead(t)
        PROVE  /\ req'[t] = [at |-> "return", data |-> req[t].data]
               /\ \A u \in Thread \ {t} : req'[u] = req[u]
    BY <1>7, GotoMoves DEF FinishRead
  <1>8. ASSUME Return(t)
        PROVE  req'[t].at = "idle" /\ \A u \in Thread \ {t} : req'[u] = req[u]
    BY <1>8, GotoMoves DEF Return, Idle
  <1>9. ASSUME WriteField(t)
        PROVE  req'[t].at = "write" /\ \A u \in Thread \ {t} : req'[u] = req[u]
    <2>1. req[t] = [at |-> "write", i |-> req[t].i, data |-> req[t].data]
      BY <1>r, <1>9, RequestFields DEF WriteField
    <2>2. \A w : [req[t] EXCEPT !.i = w].at = "write"
      BY <2>1
    <2>. QED  BY <1>9, <2>2, GotoMoves DEF WriteField
  <1>10. ASSUME FinishWrite(t)
         PROVE  req'[t].at = "idle" /\ \A u \in Thread \ {t} : req'[u] = req[u]
    BY <1>10, GotoMoves DEF FinishWrite, Idle
  <1>11. ASSUME ResetField(t)
         PROVE  /\ req'[t].at \in {"reset", "idle"}
                /\ \A u \in Thread \ {t} : req'[u] = req[u]
    <2>1. req[t] = [at |-> "reset", i |-> req[t].i]
      BY <1>r, <1>11, RequestFields DEF ResetField
    <2>2. \A w : [req[t] EXCEPT !.i = w].at = "reset"
      BY <2>1
    <2>3. PICK r : Goto(t, r) /\ r.at \in {"reset", "idle"}
      <3>1. CASE req[t].i < Len(ResetOrder)
        BY <1>11, <2>2, <3>1 DEF ResetField
      <3>2. CASE ~(req[t].i < Len(ResetOrder))
        BY <1>11, <3>2 DEF ResetField, Idle
      <3>. QED  BY <3>1, <3>2
    <2>. QED  BY <2>3, GotoMoves
  <1>. QED  BY <1>1, <1>2, <1>3, <1>4, <1>5, <1>6, <1>7, <1>8, <1>9, <1>10, <1>11
            DEF Request, Work, Moves

\* Two threads are never inside read_data's or write_data's critical section.
LEMMA LockStep ==
  ASSUME TypeInv, LockInv, NEW t \in Thread, Request(t) \/ Acquire(t) \/ Work(t)
  PROVE  LockInv'
  <1>0. Moves(t)
    BY StepMoves
  <1>1. \A u \in Thread \ {t} : req'[u] = req[u]
    BY <1>0 DEF Moves
  <1>2. CASE Request(t)
    <2>1. req'[t].at \notin {"read", "write"} /\ mutex' = mutex
      BY <1>2, <1>0 DEF Moves, Request, ReadData, WriteCoils, Reset, middleware
    <2>. QED  BY <1>1, <2>1 DEF LockInv
  <1>3. CASE Acquire(t)
    BY <1>1, <1>3, ThreadsAssumption DEF LockInv, Acquire
  <1>4. CASE FinishRead(t) \/ FinishWrite(t)
    <2>1. mutex = t /\ req'[t].at \notin {"read", "write"}
      BY <1>4, <1>0 DEF Moves, LockInv, FinishRead, FinishWrite
    <2>. QED  BY <1>1, <2>1 DEF LockInv
  <1>5. CASE CopyCache(t) \/ Return(t) \/ ResetField(t)
    <2>1. req'[t].at \notin {"read", "write"} /\ mutex' = mutex
      BY <1>5, <1>0 DEF Moves, CopyCache, Return, ResetField, middleware
    <2>. QED  BY <1>1, <2>1 DEF LockInv
  <1>6. CASE ReadField(t) \/ WriteField(t)
    <2>1. mutex = t /\ mutex' = mutex
      BY <1>6 DEF LockInv, ReadField, WriteField, middleware
    <2>. QED  BY <1>1, <2>1 DEF LockInv
  <1>. QED  BY <1>2, <1>3, <1>4, <1>5, <1>6 DEF Work

\* The flag is up from before a write waits for the mutex, and stays up.
LEMMA FlagStep ==
  ASSUME TypeInv, FlagInv, NEW t \in Thread, Request(t) \/ Acquire(t) \/ Work(t)
  PROVE  FlagInv' /\ (written_to => written_to')
  <1>0. Moves(t)
    BY StepMoves
  <1>1. \A u \in Thread \ {t} : req'[u] = req[u]
    BY <1>0 DEF Moves
  <1>2. CASE t = Modbus /\ \E data \in Writes : WriteCoils(data)
    BY <1>1, <1>2 DEF FlagInv, WriteCoils
  <1>3. CASE \/ ReadData(t) \/ Reset(t) \/ CopyCache(t)
             \/ ReadField(t) \/ FinishRead(t) \/ Return(t) \/ FinishWrite(t) \/ ResetField(t)
    <2>1. req'[t].at \notin {"write_wait", "write"}
      BY <1>3, <1>0 DEF Moves
    <2>2. written_to' = written_to
      BY <1>3 DEF ReadData, Reset, CopyCache, ReadField, FinishRead, Return, FinishWrite,
                  ResetField, middleware
    <2>. QED  BY <1>1, <2>1, <2>2 DEF FlagInv
  <1>4. CASE Acquire(t)
    <2>1. req'[t].at = "write" => req[t].at = "write_wait"
      BY <1>4, <1>0 DEF Moves
    <2>2. req'[t].at # "write_wait"
      BY <1>4, <1>0 DEF Moves
    <2>. QED  BY <1>1, <1>4, <2>1, <2>2 DEF FlagInv, Acquire
  <1>5. CASE WriteField(t)
    BY <1>1, <1>5, <1>0 DEF Moves, FlagInv, WriteField, middleware
  <1>6. CASE Request(t)
    BY <1>2, <1>3, <1>6 DEF Request
  <1>7. CASE Work(t)
    BY <1>3, <1>5, <1>7 DEF Work
  <1>. QED  BY <1>4, <1>6, <1>7

-----------------------------------------------------------------------------
\* Whoever changes an actuator leaves a note for every reader in a call.
LEMMA Noted ==
  ASSUME NEW who, By(who), NEW u \in Readers, req[u] # Idle
  PROVE  <<u, who>> \in changed'
  BY DEF By

\* What a step does to the actuators, the cache and the notes.
Effects(t) ==
  /\ \/ act' = act
     \/ WriteField(t) /\ By("write")
     \/ ResetField(t) /\ By("reset") /\ \E f \in Coils : act[f]
  /\ cache' = cache \/ FinishRead(t)
  /\ \A u \in Readers, who \in {"write", "reset"} :
       <<u, who>> \in changed /\ u # t => <<u, who>> \in changed'

\* Only a coil request and a reset change actuators, and notes about other
\* threads stay.
LEMMA StepEffects ==
  ASSUME TypeInv, NEW t \in Thread, Request(t) \/ Acquire(t) \/ Work(t)
  PROVE  Effects(t)
  <1>1. CASE ReadData(t)
    BY <1>1 DEF ReadData, middleware, Effects
  <1>2. CASE t = Modbus /\ \E data \in Writes : WriteCoils(data)
    BY <1>2 DEF WriteCoils, Effects
  <1>3. CASE \/ Reset(t) \/ CopyCache(t) \/ ReadField(t) \/ Return(t)
             \/ Acquire(t) \/ FinishRead(t) \/ FinishWrite(t)
    BY <1>3 DEF Reset, CopyCache, ReadField, Return, Acquire, FinishRead, FinishWrite,
                middleware, Effects
  <1>4. CASE WriteField(t)
    <2>1. \/ act' = act /\ changed' = changed
          \/ By("write")
      BY <1>4 DEF WriteField
    <2>2. changed \subseteq changed'
      BY <2>1 DEF By
    <2>3. cache' = cache
      BY <1>4 DEF WriteField, middleware
    <2>. QED  BY <1>4, <2>1, <2>2, <2>3 DEF Effects
  <1>5. CASE ResetField(t)
    <2>1. \/ act' = act /\ changed' = changed
          \/ By("reset") /\ \E f \in Coils : act[f]
      BY <1>5 DEF ResetField
    <2>2. changed \subseteq changed'
      BY <2>1 DEF By
    <2>3. cache' = cache
      BY <1>5 DEF ResetField, middleware
    <2>. QED  BY <1>5, <2>1, <2>2, <2>3 DEF Effects
  <1>6. CASE Request(t)
    BY <1>1, <1>2, <1>3, <1>6 DEF Request
  <1>7. CASE Work(t)
    BY <1>3, <1>4, <1>5, <1>7 DEF Work
  <1>. QED  BY <1>3, <1>6, <1>7

\* A field appended to a read is the last element, the others keep their place.
LEMMA AppendField ==
  ASSUME NEW d \in Seq(Value), NEW v \in Value
  PROVE  /\ Append(d, v) \in Seq(Value) /\ Len(Append(d, v)) = Len(d) + 1
         /\ \A k \in 1 .. Len(d) + 1 :
              Append(d, v)[k] = IF k = Len(d) + 1 THEN v ELSE d[k]
  BY AppendProperties, LenProperties

\* What a read has collected stays what the actuators are.
LEMMA CurrentStep ==
  ASSUME TypeInv, LockInv, ReadsSeeWholeWrites,
         NEW t \in Thread, Request(t) \/ Acquire(t) \/ Work(t)
  PROVE  ReadsSeeWholeWrites'
  <1>0. Moves(t) /\ Effects(t)
    BY StepMoves, StepEffects
  <1>. SUFFICES ASSUME NEW u \in Readers, req'[u].at = "read", <<u, "reset">> \notin changed'
                PROVE  Current(u)'
    BY DEF ReadsSeeWholeWrites
  <1>u. u \in Thread
    BY DEF Thread
  <1>1. CASE u # t
    <2>1. req'[u] = req[u] /\ <<u, "reset">> \notin changed /\ req[u] # Idle
      <3>1. req'[u] = req[u]
        BY <1>0, <1>1, <1>u DEF Moves
      <3>2. <<u, "reset">> \notin changed
        BY <1>0, <1>1 DEF Effects
      <3>3. req[u] # Idle
        BY <3>1 DEF Idle
      <3>. QED  BY <3>1, <3>2, <3>3
    <2>2. ~WriteField(t)
      BY <1>1, <1>u, <2>1 DEF LockInv, WriteField
    <2>3. act' = act
      BY <1>0, <2>1, <2>2, Noted DEF Effects
    <2>. QED  BY <2>1, <2>3 DEF ReadsSeeWholeWrites, Current, Snapshot
  <1>2. CASE u = t /\ Acquire(t)
    <2>1. req'[u].data = <<>>
      BY <1>0, <1>2 DEF Moves
    <2>. QED  BY <2>1, SMT DEF Current, Snapshot
  <1>3. CASE u = t /\ ReadField(t)
    <2> DEFINE d == req[u].data
               v == Field(ReadOrder[Len(d) + 1])
    <2>1. req'[u].data = Append(d, v)
      BY <1>0, <1>3 DEF Moves
    <2>2. act' = act /\ changed' = changed /\ req[u].at = "read"
      BY <1>3 DEF ReadField
    <2>3. d \in Seq(Value) /\ v \in Value
      BY <1>u, <2>2, RequestFields, FieldValue DEF TypeInv
    <2>4. \A k \in 1 .. Len(d) : ReadOrder[k] \in Coils => d[k] = act[ReadOrder[k]]
      BY <2>2 DEF ReadsSeeWholeWrites, Current, Snapshot
    <2>5. ReadOrder[Len(d) + 1] \in Coils => v = act[ReadOrder[Len(d) + 1]]
      BY DEF Field
    <2>6. Len(d) \in Nat
      BY <2>3, LenProperties
    <2>. HIDE DEF d, v
    <2>7. \A k \in 1 .. Len(Append(d, v)) :
            ReadOrder[k] \in Coils => Append(d, v)[k] = act[ReadOrder[k]]
      BY <2>3, <2>4, <2>5, <2>6, AppendField
    <2>. QED  BY <2>1, <2>2, <2>7 DEF Current, Snapshot
  <1>4. CASE u = t /\ Request(t)
    BY <1>0, <1>4 DEF Moves, Request
  <1>5. CASE u = t /\ Work(t) /\ ~ReadField(t)
    BY <1>0, <1>5 DEF Moves, Work
  <1>. QED  BY <1>1, <1>2, <1>3, <1>4, <1>5

\* With nothing written yet, all that was read of the coils stays off.
LEMMA QuietStep ==
  ASSUME TypeInv, LockInv, FlagInv, QuietInv,
         NEW t \in Thread, Request(t) \/ Acquire(t) \/ Work(t)
  PROVE  QuietInv'
  <1>0. Moves(t) /\ Effects(t) /\ (written_to => written_to')
    BY StepMoves, StepEffects, FlagStep
  <1>. SUFFICES ASSUME ~written_to' \/ \E u \in Readers : req'[u].at = "copy" /\ Undisturbed(u)'
                PROVE  AllOff'
    BY DEF QuietInv
  <1>1. AllOff
    <2>1. CASE ~written_to'
      BY <1>0, <2>1 DEF QuietInv
    <2>2. ASSUME NEW u \in Readers, req'[u].at = "copy", Undisturbed(u)' PROVE AllOff
      <3>u. u \in Thread
        BY DEF Thread
      <3>1. CASE u # t
        BY <1>0, <2>2, <3>1, <3>u DEF Moves, Effects, Undisturbed, QuietInv
      <3>2. CASE u = t
        <4>1. ReadData(t)
          BY <1>0, <2>2, <3>2 DEF Moves, Request, Work
        <4>2. ~written_to
          BY <2>2, <3>2, <3>u, <4>1, GotoMoves DEF ReadData
        <4>. QED  BY <4>2 DEF QuietInv
      <3>. QED  BY <3>1, <3>2
    <2>. QED  BY <2>1, <2>2
  <1>2. act' = act
    <2>1. ~ResetField(t) \/ act' = act
      BY <1>0, <1>1 DEF Effects, AllOff, WriteField, ResetField
    <2>2. ASSUME WriteField(t), By("write") PROVE FALSE
      <3>1. written_to'
        BY <1>0, <2>2 DEF FlagInv, WriteField
      <3>2. PICK u \in Readers : req'[u].at = "copy" /\ Undisturbed(u)'
        BY <3>1
      <3>3. u \in Thread /\ u # t
        BY <1>0, <2>2, <3>2 DEF Moves, Thread
      <3>4. req[u].at = "copy" /\ req[u] # Idle
        BY <1>0, <3>2, <3>3 DEF Moves, Idle
      <3>. QED  BY <2>2, <3>2, <3>4, Noted DEF Undisturbed
    <2>. QED  BY <1>0, <2>1, <2>2 DEF Effects
  <1>3. OffIn(cache)'
    <2>1. CASE FinishRead(t)
      <3>1. cache' = req[t].data /\ req[t].at = "read"
        BY <2>1 DEF FinishRead
      <3>. QED  BY <1>1, <3>1 DEF AllOff, OffIn
    <2>2. CASE cache' = cache
      BY <1>1, <2>2 DEF AllOff, OffIn
    <2>. QED  BY <1>0, <2>1, <2>2 DEF Effects
  <1>4. ASSUME NEW u \in Thread, req'[u].at = "read" PROVE OffIn(req'[u].data)
    <2>1. CASE u # t
      BY <1>0, <1>1, <1>4, <2>1 DEF Moves, AllOff
    <2>2. CASE u = t /\ Acquire(t)
      <3>1. req'[u].data = <<>>
        BY <1>0, <1>4, <2>2 DEF Moves
      <3>. QED  BY <3>1, SMT DEF OffIn
    <2>3. CASE u = t /\ ReadField(t)
      <3> DEFINE d == req[u].data
                 v == Field(ReadOrder[Len(d) + 1])
      <3>1. req'[u].data = Append(d, v)
        BY <1>0, <2>3 DEF Moves
      <3>2. req[u].at = "read"
        BY <2>3 DEF ReadField
      <3>3. d \in Seq(Value) /\ v \in Value
        BY <3>2, RequestFields, FieldValue DEF TypeInv
      <3>4. \A k \in 1 .. Len(d) : ReadOrder[k] \in Coils => d[k] = FALSE
        BY <1>1, <3>2 DEF AllOff, OffIn
      <3>5. ReadOrder[Len(d) + 1] \in Coils => v = FALSE
        BY <1>1 DEF Field, AllOff
      <3>6. Len(d) \in Nat
        BY <3>3, LenProperties
      <3>. HIDE DEF d, v
      <3>7. OffIn(Append(d, v))
        BY <3>3, <3>4, <3>5, <3>6, AppendField DEF OffIn
      <3>. QED  BY <3>1, <3>7
    <2>4. CASE u = t /\ Request(t)
      BY <1>0, <1>4, <2>4 DEF Moves, Request
    <2>5. CASE u = t /\ Work(t) /\ ~ReadField(t)
      BY <1>0, <1>4, <2>5 DEF Moves, Work
    <2>. QED  BY <2>1, <2>2, <2>3, <2>4, <2>5
  <1>. QED  BY <1>1, <1>2, <1>3, <1>4 DEF AllOff

\* An answer that nobody disturbed stays what the actuators are.
LEMMA FreshStep ==
  ASSUME TypeInv, QuietInv, ReadsSeeWholeWrites, ReadIsFresh,
         NEW t \in Thread, Request(t) \/ Acquire(t) \/ Work(t)
  PROVE  ReadIsFresh'
  <1>0. Moves(t) /\ Effects(t)
    BY StepMoves, StepEffects
  <1>. SUFFICES ASSUME NEW u \in Readers, req'[u].at = "return", Undisturbed(u)'
                PROVE  Current(u)'
    BY DEF ReadIsFresh, Undisturbed
  <1>u. u \in Thread
    BY DEF Thread
  <1>1. CASE u # t
    <2>1. req'[u] = req[u] /\ Undisturbed(u) /\ req[u] # Idle
      BY <1>0, <1>1, <1>u DEF Moves, Effects, Undisturbed, Idle
    <2>2. act' = act
      BY <1>0, <2>1, Noted DEF Effects, Undisturbed
    <2>. QED  BY <2>1, <2>2 DEF ReadIsFresh, Undisturbed, Current, Snapshot
  <1>2. CASE u = t /\ FinishRead(t)
    <2>1. req'[u].data = req[u].data
      BY <1>0, <1>2 DEF Moves
    <2>2. act' = act /\ changed' = changed /\ req[u].at = "read"
      BY <1>2 DEF FinishRead
    <2>. QED  BY <2>1, <2>2 DEF ReadsSeeWholeWrites, Undisturbed, Current, Snapshot
  <1>3. CASE u = t /\ CopyCache(t)
    <2>1. req'[u].data = cache
      BY <1>0, <1>3 DEF Moves
    <2>2. act' = act /\ changed' = changed /\ req[u].at = "copy"
      BY <1>3 DEF CopyCache
    <2>3. AllOff
      BY <2>2 DEF QuietInv, Undisturbed
    <2>. QED  BY <2>1, <2>2, <2>3 DEF AllOff, OffIn, Current, Snapshot
  <1>4. CASE u = t /\ (Request(t) \/ Acquire(t))
    BY <1>0, <1>4 DEF Moves, Request
  <1>5. CASE u = t /\ Work(t) /\ ~FinishRead(t) /\ ~CopyCache(t)
    BY <1>0, <1>5 DEF Moves, Work
  <1>. QED  BY <1>1, <1>2, <1>3, <1>4, <1>5

-----------------------------------------------------------------------------
\* The constructor's read leaves a cache in which every coil is off.
LEMMA InitInv == Init => Inv
  <1>. SUFFICES ASSUME Init PROVE Inv
    OBVIOUS
  <1>1. \A t \in Thread : req[t] = Idle
    BY DEF Init
  <1>2. \A c \in Coils : act[c] = FALSE
    BY DEF Init
  <1>3. \A f : Field(f) \in Value
    BY SMT DEF Field, Value, Init
  <1>4. Len(ReadOrder) \in Nat
    BY Orders
  <1>5. cache = [k \in 1 .. Len(ReadOrder) |-> Field(ReadOrder[k])]
    BY DEF Init
  <1>6. cache \in Seq(Value) /\ Len(cache) = Len(ReadOrder)
    BY <1>3, <1>4, <1>5
  <1>7. OffIn(cache)
    BY <1>2, <1>5, <1>6 DEF OffIn, Field
  <1>8. req \in [Thread -> RequestRecord]
    BY DEF Init, RequestRecord
  <1>9. TypeInv
    <2>1. moment \in 0 .. MaxMoment
      BY BoundsAssumption DEF Init
    <2>2. act \in [Coils -> BOOLEAN] /\ written_to \in BOOLEAN
      BY DEF Init
    <2>3. ticking = NoTick /\ mutex = Nobody /\ changed = {}
      BY DEF Init
    <2>4. time_last_read \in 0 .. MaxNow /\ now \in 0 .. MaxNow
      BY DEF Init
    <2>. QED  BY <1>6, <1>8, <2>1, <2>2, <2>3, <2>4 DEF TypeInv
  <1>10. \A t \in Thread : req[t].at = "idle"
    BY <1>1 DEF Idle
  <1>11. Readers \subseteq Thread
    BY DEF Thread
  <1>12. AllOff
    BY <1>2, <1>7, <1>10 DEF AllOff
  <1>. QED  BY <1>9, <1>10, <1>11, <1>12
            DEF Inv, LockInv, FlagInv, QuietInv, ReadsSeeWholeWrites, ReadIsFresh

\* Every step keeps the invariant: those of threads by the lemmas above, the
\* tick, the clock and stuttering because they touch nothing it is about.
LEMMA InvStep == Inv /\ [Next]_vars => Inv'
  <1>. SUFFICES ASSUME Inv, [Next]_vars PROVE Inv'
    OBVIOUS
  <1>1. ASSUME NEW t \in Thread, Request(t) \/ Acquire(t) \/ Work(t) PROVE Inv'
    BY <1>1, TypeOfThreadStep, LockStep, FlagStep, QuietStep, CurrentStep, FreshStep DEF Inv
  <1>2. ASSUME UNCHANGED <<act, mutex, written_to, cache, req, changed>>
        PROVE  (LockInv /\ FlagInv /\ QuietInv /\ ReadsSeeWholeWrites /\ ReadIsFresh)'
    BY <1>2 DEF Inv, LockInv, FlagInv, QuietInv, AllOff, OffIn, Undisturbed,
                ReadsSeeWholeWrites, ReadIsFresh, Current, Snapshot
  <1>3. CASE TickReads
    <2>1. TypeInv'
      BY <1>3, BoundsAssumption DEF TickReads, Inv, TypeInv, middleware
    <2>. QED  BY <1>2, <1>3, <2>1 DEF TickReads, Inv, middleware
  <1>4. CASE TickWrites
    <2>1. TypeInv'
      BY <1>4, BoundsAssumption DEF TickWrites, Inv, TypeInv, middleware, NoTick
    <2>. QED  BY <1>2, <1>4, <2>1 DEF TickWrites, Inv, middleware
  <1>5. CASE Clock
    <2>1. TypeInv'
      BY <1>5 DEF Clock, Inv, TypeInv, middleware, process
    <2>. QED  BY <1>2, <1>5, <2>1 DEF Clock, Inv, middleware
  <1>6. CASE UNCHANGED vars
    <2>1. TypeInv'
      BY <1>6 DEF vars, Inv, TypeInv, middleware, process
    <2>. QED  BY <1>2, <1>6, <2>1 DEF vars, Inv, middleware
  <1>. QED  BY <1>1, <1>3, <1>4, <1>5, <1>6 DEF Next

\* The mutex is held by whoever reads or writes, and the other facts with it.
LEMMA InvAlwaysHolds == Spec => []Inv
  BY InitInv, InvStep, PTL DEF Spec

\* Every reachable state of the middleware is in its type.
THEOREM TypeCorrect == Spec => []TypeOK
  <1>1. Inv => TypeOK
    BY DEF Inv, TypeInv, TypeOK
  <1>. QED  BY <1>1, InvAlwaysHolds, PTL

\* No read of coil values, by any thread, ever sees half of a coil request.
THEOREM ReadsAlwaysSeeWholeWrites == Spec => []ReadsSeeWholeWrites
  <1>1. Inv => ReadsSeeWholeWrites
    BY DEF Inv
  <1>. QED  BY <1>1, InvAlwaysHolds, PTL

\* No answer, from the cache or not, is older than its request, whatever the
\* wall clock does.
THEOREM ReadsAreAlwaysFresh == Spec => []ReadIsFresh
  <1>1. Inv => ReadIsFresh
    BY DEF Inv
  <1>. QED  BY <1>1, InvAlwaysHolds, PTL
=============================================================================
