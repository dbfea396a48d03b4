-------------------------- MODULE CaptureSession --------------------------
(***************************************************************************)
(* One measured run: a switch that forwards or drops frames while the      *)
(* capture scripts start and stop one tcpdump per interface and direction. *)
(* start_captures.sh starts them one after the other; stop_captures.sh     *)
(* stops the ingress captures, waits, and stops the egress captures.       *)
(* Traffic may be live from before the first capture to after the last:    *)
(* in some testbeds the devices never pause.                               *)
(***************************************************************************)
EXTENDS Integers, Sequences, FiniteSets, SequencesExt

CONSTANTS
    Traffic,      \* frames that may come, each with the interface it comes from
    MaxFrames,    \* bound: frames per session, copies included
    MaxTime       \* bound: ticks of the clock that stamps captured packets

ASSUME SessionAssumption == MaxFrames \in Nat /\ MaxTime \in Nat

Ifaces == {"eth0", "eth1"}
Other(iface) == IF iface = "eth0" THEN "eth1" ELSE "eth0"
Captures == [iface : Ifaces, dir : {"in", "out"}]

\* The order in which start_captures.sh starts them.
StartOrder == << [iface |-> "eth0", dir |-> "in"], [iface |-> "eth0", dir |-> "out"],
                 [iface |-> "eth1", dir |-> "in"], [iface |-> "eth1", dir |-> "out"] >>
Ingress == {c \in Captures : c.dir = "in"}

VARIABLES
    phase,      \* how far the capture scripts are
    running,    \* the tcpdump processes that run
    pcap,       \* what each wrote
    passage,    \* history: every frame that came, whether captured, and its fate
    time

session == <<phase, running, pcap, passage, time>>

SessionInit ==
    /\ phase = "starting"
    /\ running = {}
    /\ pcap = [c \in Captures |-> <<>>]
    /\ passage = <<>>
    /\ time = 0

---------------------------------------------------------------------------
\* The scripts.

StartCapture ==
    /\ phase = "starting"
    /\ LET n == Cardinality(running) + 1
       IN  /\ running' = running \union {StartOrder[n]}
           /\ phase' = IF n = Len(StartOrder) THEN "capturing" ELSE phase
    /\ UNCHANGED <<pcap, passage, time>>

\* Mutant of StopIngress: all captures are killed at once.
StopAllAtOnce ==
    /\ phase = "capturing"
    /\ running' = {}
    /\ phase' = "draining"
    /\ UNCHANGED <<pcap, passage, time>>

StopIngress ==
    /\ phase = "capturing"
    /\ running' = running \ Ingress
    /\ phase' = "draining"
    /\ UNCHANGED <<pcap, passage, time>>

Inside == {n \in DOMAIN passage : passage[n].fate = "inside"}

\* The pause between the two is longer than a frame stays in the switch:
\* what an ingress capture has seen is out again.
StopEgress ==
    /\ phase = "draining"
    /\ \A n \in Inside : ~passage[n].seen_in
    /\ running' = {}
    /\ phase' = "stopped"
    /\ UNCHANGED <<pcap, passage, time>>

---------------------------------------------------------------------------
\* The switch and the clock.

Seen(c, frame) ==
    pcap' = IF c \in running
            THEN [pcap EXCEPT ![c] = Append(@, [ts |-> time, frame |-> frame, whole |-> TRUE])]
            ELSE pcap

Arrive(f) ==
    LET c == [iface |-> f.iface, dir |-> "in"]
    IN  /\ phase # "stopped"
        /\ Len(passage) < MaxFrames
        /\ Seen(c, f.frame)
        /\ passage' = Append(passage, [frame |-> f.frame, iface |-> f.iface, fate |-> "inside",
                                       seen_in |-> c \in running, seen_out |-> FALSE,
                                       while |-> phase])
        /\ UNCHANGED <<phase, running, time>>

Leave(n) ==
    LET c == [iface |-> Other(passage[n].iface), dir |-> "out"]
    IN  /\ phase # "stopped"
        /\ Seen(c, passage[n].frame)
        /\ passage' = [passage EXCEPT ![n].fate = "left", ![n].seen_out = c \in running]
        /\ UNCHANGED <<phase, running, time>>

Drop(n) ==
    /\ phase # "stopped"
    /\ passage' = [passage EXCEPT ![n].fate = "dropped"]
    /\ UNCHANGED <<phase, running, pcap, time>>

TimePasses ==
    /\ phase # "stopped"
    /\ time < MaxTime
    /\ time' = time + 1
    /\ UNCHANGED <<phase, running, pcap, passage>>

SessionStep ==
    \/ StartCapture \/ StopIngress \/ StopEgress
    \/ \E f \in Traffic : Arrive(f)
    \/ \E n \in Inside : Leave(n) \/ Drop(n)
    \/ TimePasses
=============================================================================
