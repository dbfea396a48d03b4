--------------------------- MODULE SwitchEventLog ---------------------------
(***************************************************************************)
(* src/testbeds/1client_1server/s1/nanomsg_client.py (and its copy for     *)
(* Maynard): it subscribes to the event log of the software switch and     *)
(* prints each event under the names the P4 program has for what it        *)
(* mentions. The program of the switch may be exchanged; names are then    *)
(* asked for again, over another connection than the events come by.       *)
(*                                                                         *)
(* The switch (external) logs in order, and its log reaches those who are  *)
(* subscribed by then, as far as it reaches them: any message may be lost. *)
(***************************************************************************)
EXTENDS Integers, Sequences, SequencesExt, FiniteSetsExt

CONSTANTS
    Programs,      \* what the switch may run, in the order it is loaded: each a
                   \* function <<kind, id>> -> name
    Logged,        \* messages of the switch, by program number
    ByFile,        \* the program whose description --json may name
    Unnamed,       \* nothing to print
    MaxLogged      \* bound: messages on their way

VARIABLES
    program,       \* what the switch runs, a number
    subscriber,    \* the client: where it is, its options, its connection
    names,         \* name_map: a function, for the names of no program the empty one
    log,           \* messages that are on their way
    missed,        \* history: an exchange the client has not been told of
    printed        \* history: the last event printed

eventlog == <<program, subscriber, names, log, missed, printed>>

---------------------------------------------------------------------------
\* MSG_TYPES and the classes of messages: the kind of thing a message is about, if
\* it has a name, and how many integers follow its header.

Format(kind, ints) == [kind |-> kind, ints |-> ints]

PacketMessages == [t \in {"PACKET_IN", "PACKET_OUT"} |-> Format("port", 1)]
ParserMessages ==
    [t \in {"PARSER_START", "PARSER_DONE", "PARSER_EXTRACT"} |->
        Format(IF t = "PARSER_EXTRACT" THEN "header" ELSE "parser", 1)]
DeparserMessages ==
    [t \in {"DEPARSER_START", "DEPARSER_DONE", "DEPARSER_EMIT"} |->
        Format(IF t = "DEPARSER_EMIT" THEN "header" ELSE "deparser", 1)]
ChecksumMessages == [t \in {"CHECKSUM_UPDATE"} |-> Format("checksum", 1)]
PipelineMessages == [t \in {"PIPELINE_START", "PIPELINE_DONE"} |-> Format("pipeline", 1)]
\* with a result, and with the handle of the entry
ConditionMessages == [t \in {"CONDITION_EVAL"} |-> Format("condition", 2)]
TableMessages == [t \in {"TABLE_HIT", "TABLE_MISS"} |-> Format("table", IF t = "TABLE_HIT" THEN 2 ELSE 1)]
ActionMessages == [t \in {"ACTION_EXECUTE"} |-> Format("action", 1)]
ConfigChange == [t \in {"CONFIG_CHANGE"} |-> Format("none", 0)]

MsgTypes ==
    LET classes == {PacketMessages, ParserMessages, DeparserMessages, ChecksumMessages, PipelineMessages,
                    ConditionMessages, TableMessages, ActionMessages, ConfigChange}
        ClassOf(t) == CHOOSE c \in classes : t \in DOMAIN c
    IN  [t \in UNION {DOMAIN c : c \in classes} |-> ClassOf(t)[t]]

\* A message: its type, which need not be one of those, what it is about, the integers
\* that follow its header, the program that logged it, and (history) whether the
\* announcement of an exchange behind it was lost.
Messages == [type : DOMAIN MsgTypes \union {"DIGEST"}, id : Nat, ints : Nat, of : Nat, cut : BOOLEAN]

ASSUME EventLogAssumption ==
    MaxLogged \in Nat /\ \A p \in DOMAIN Programs : Logged[p] \subseteq Messages

\* NameMap. A port has no name.
LoadNames(p) == names' = p

NameIn(map, kind, id) == IF <<kind, id>> \in DOMAIN map THEN map[<<kind, id>>] ELSE Unnamed
NameLookup(kind, id) == NameIn(names, kind, id)

---------------------------------------------------------------------------
\* The switch.

Listening == subscriber.at \in {"receiving", "reloading"}

LogEvent(m) ==
    /\ Listening /\ Len(log) < MaxLogged
    /\ m \in Logged[program]
    /\ log' \in {log, Append(log, [m EXCEPT !.of = program, !.cut = FALSE])}
    /\ UNCHANGED <<program, subscriber, names, missed, printed>>

Announcement == [type |-> "CONFIG_CHANGE", id |-> 0, ints |-> 0, of |-> program + 1, cut |-> FALSE]

\* A client that has its names, or is getting others, does not hear of it when the
\* announcement is lost or it is not subscribed yet.
ExchangeProgram ==
    /\ program < Len(Programs)
    /\ program' = program + 1
    /\ \/ /\ Listening /\ Len(log) < MaxLogged
          /\ log' = Append(log, Announcement)
          /\ UNCHANGED missed
       \/ /\ log' = [n \in DOMAIN log |-> [log[n] EXCEPT !.cut = TRUE]]
          /\ missed' = (missed \/ Listening \/ subscriber.at = "named")
    /\ UNCHANGED <<subscriber, names, printed>>

---------------------------------------------------------------------------
\* main. With both options the switch is not asked for anything.

GoesTo(where) == subscriber' = [subscriber EXCEPT !.at = where]

StartClient(json, socket) ==
    /\ subscriber.at = "off"
    /\ subscriber' = [at |-> IF json /\ socket THEN "named" ELSE "connecting",
                      json |-> json, thrift |-> ~(json /\ socket)]
    /\ LoadNames(IF json THEN ByFile ELSE <<>>)
    /\ missed' = FALSE
    /\ UNCHANGED <<program, log, printed>>

\* Neither a switch nor its event log need be there.
ConnectThrift ==
    /\ subscriber.at = "connecting"
    /\ \/ GoesTo(IF subscriber.json THEN "named" ELSE "asking")
       \/ GoesTo("off")
    /\ UNCHANGED <<program, names, log, missed, printed>>

\* The switch may have gone by now, which is not caught, neither here nor below.
GetJsonConfig ==
    /\ subscriber.at = "asking"
    /\ \/ LoadNames(Programs[program]) /\ GoesTo("named")
       \/ GoesTo("off") /\ UNCHANGED names
    /\ UNCHANGED <<program, log, missed, printed>>

SubscribeLog ==
    /\ subscriber.at = "named"
    /\ GoesTo("receiving")
    /\ UNCHANGED <<program, names, log, missed, printed>>

---------------------------------------------------------------------------
\* The names come from --json, or a program was exchanged after they had been asked
\* for and nothing told the client: it asks first and subscribes then, and once it is
\* subscribed an announcement may be lost.
Misled == subscriber.json \/ missed

\* recv_msgs

Received(m) == subscriber.at = "receiving" /\ log # <<>> /\ m = Head(log) /\ log' = Tail(log)

UnknownMessage ==
    \E m \in Range(log) :
        /\ Received(m)
        /\ m.type \notin DOMAIN MsgTypes
        /\ UNCHANGED <<program, subscriber, names, missed, printed>>

\* A message that is longer or shorter than its class expects is not caught.
UnpackFails ==
    \E m \in Range(log) :
        /\ subscriber.at = "receiving" /\ m = Head(log)
        /\ m.type \in DOMAIN MsgTypes /\ m.ints # MsgTypes[m.type].ints
        /\ GoesTo("off") /\ log' = <<>>
        /\ UNCHANGED <<program, names, missed, printed>>

Extracted(m) == m.type \in DOMAIN MsgTypes /\ m.ints = MsgTypes[m.type].ints

\* overtaken: an exchange is announced that the names may already be of.
PrintMessage ==
    \E m \in Range(log) :
        /\ Received(m)
        /\ Extracted(m) /\ m.type # "CONFIG_CHANGE"
        /\ printed' = [event |-> m, name |-> NameLookup(MsgTypes[m.type].kind, m.id),
                       misled |-> Misled \/ m.cut,
                       overtaken |-> \E later \in Range(Tail(log)) : later.type = "CONFIG_CHANGE"]
        /\ UNCHANGED <<program, subscriber, names, missed>>

\* Mutant of ReceiveConfigChange: the change is printed like any other message.
PrintConfigChange ==
    \E m \in Range(log) :
        /\ Received(m)
        /\ Extracted(m) /\ m.type = "CONFIG_CHANGE"
        /\ UNCHANGED <<program, subscriber, names, missed, printed>>

\* json_init: without a connection the client exits.
ReceiveConfigChange ==
    \E m \in Range(log) :
        /\ subscriber.at = "receiving" /\ m = Head(log)
        /\ Extracted(m) /\ m.type = "CONFIG_CHANGE"
        /\ IF subscriber.thrift THEN GoesTo("reloading") /\ log' = Tail(log)
           ELSE GoesTo("off") /\ log' = <<>>
        /\ UNCHANGED <<program, names, missed, printed>>

JsonInit ==
    /\ subscriber.at = "reloading"
    /\ \/ /\ LoadNames(Programs[program])
          /\ subscriber' = [subscriber EXCEPT !.at = "receiving", !.json = FALSE]
          /\ missed' = FALSE /\ UNCHANGED log
       \/ GoesTo("off") /\ log' = <<>> /\ UNCHANGED <<names, missed>>
    /\ UNCHANGED <<program, printed>>

EventLogInit ==
    /\ program = 1
    /\ subscriber = [at |-> "off", json |-> FALSE, thrift |-> FALSE]
    /\ names = <<>> /\ log = <<>> /\ missed = FALSE
    /\ printed = Unnamed

EventLogNext ==
    \/ \E p \in DOMAIN Programs : \E m \in Logged[p] : LogEvent(m)
    \/ ExchangeProgram
    \/ \E json, socket \in BOOLEAN : StartClient(json, socket)
    \/ ConnectThrift \/ GetJsonConfig \/ SubscribeLog
    \/ UnknownMessage \/ UnpackFails \/ PrintMessage \/ ReceiveConfigChange \/ JsonInit

---------------------------------------------------------------------------
\* The client names things by the program that logged them, unless it was misled: by a
\* file, or by an exchange whose announcement was lost or came before it subscribed,
\* which lasts until the next announcement that arrives. What follows the last
\* announced exchange on its way is of the program the switch runs, or ahead of an
\* exchange of which it will not hear; with no announcement on its way the names are
\* of that program; and what is printed under the names of another program is printed
\* ahead of an announcement.
NamesCatchUp ==
    LET changes == {n \in DOMAIN log : log[n].type = "CONFIG_CHANGE"}
        named == NameIn(Programs[printed.event.of], MsgTypes[printed.event.type].kind, printed.event.id)
    IN  /\ \A n \in DOMAIN log : (\A c \in changes : c < n) => log[n].cut \/ log[n].of = program
        /\ subscriber.at = "receiving" /\ ~Misled /\ changes = {} => names = Programs[program]
        /\ printed # Unnamed => printed.misled \/ printed.overtaken \/ printed.name = named
=============================================================================
