--------------------------- MODULE PcapAnalysis ---------------------------
(***************************************************************************)
(* src/testbeds/common_pcap_analysis.py: how the packets of two sets of    *)
(* captures, what entered a switch and what left it, are read, classified  *)
(* and paired by fingerprint in FIFO order, and what is counted.           *)
(*                                                                         *)
(* A frame is the few fields the parser looks at; hdr stands for the       *)
(* addresses, ids, numbers and the checksum, which are only compared.      *)
(* Digests are taken to be free of collisions.                             *)
(***************************************************************************)
EXTENDS Integers, Sequences, FiniteSets, SequencesExt, FiniteSetsExt

CONSTANT Fields   \* what the parser reads of each frame there is

CLASS_OPN_CERT == "opcua_opn_cert"
CLASS_OPN_NO_CERT == "opcua_opn_no_cert"
CLASS_OTHER == "opcua_other"
class_all == "opcua_all"
Classes == {CLASS_OPN_CERT, CLASS_OPN_NO_CERT, CLASS_OTHER, class_all}

None == [none |-> TRUE]

\* The position that a numbering of positions gives the number n.
Nth(n, rank) == CHOOSE p \in DOMAIN rank : rank[p] = n

\* The elements of s at some of its positions, in order.
At(s, positions) ==
    LET rank == [p \in positions |-> Cardinality({q \in positions : q <= p})]
    IN  [n \in 1 .. Cardinality(positions) |-> s[Nth(n, rank)]]

\* The elements of s by the keys of their positions, in their order where keys agree.
SortedBy(s, key) ==
    LET upto(p) == {q \in DOMAIN s : key[q] < key[p] \/ (key[q] = key[p] /\ q <= p)}
        rank == [p \in DOMAIN s |-> Cardinality(upto(p))]
    IN  [n \in DOMAIN s |-> s[Nth(n, rank)]]

---------------------------------------------------------------------------
\* Reading

\* A file is a header, good or not, and records; a record cut short ends
\* the file.
IterPcap(file) ==
    LET torn == {n \in DOMAIN file.records : ~file.records[n].whole}
    IN  IF ~file.header THEN <<>>
        ELSE IF torn = {} THEN file.records
        ELSE SubSeq(file.records, 1, Min(torn) - 1)

\* Where the IP header starts: behind one VLAN tag at most.
Offset(f) == IF f.vlan THEN 18 ELSE 14

IsTcp(f) ==
    /\ f.len >= Offset(f) + 20
    /\ f.ipv4
    /\ f.ihl >= 20
    /\ f.len >= Offset(f) + f.ihl + 20
    /\ f.tcp
    /\ f.data_off >= 20

\* What the capture holds of the payload: bounded by the frame and by the
\* total length of IP, and empty when the headers reach past both.
PayloadLen(f) ==
    LET cap_end == Min({f.len, Offset(f) + f.total_len})
    IN  Max({0, cap_end - (Offset(f) + f.ihl + f.data_off)})

\* What is kept of the security header of an OPN message.
OpcuaOpnInfo(has_sender_certificate, thumb) ==
    [sender_certificate |-> has_sender_certificate, receiver_thumbprint |-> thumb]

\* The security header of an OPN message in a payload of len bytes. A
\* length of -1 is a null string and takes no bytes.
ParseOpn(len, msg) ==
    LET policy_end == 16 + Max({0, msg.policy_len})
        cert_end == policy_end + 4 + Max({0, msg.cert_len})
        has_cert == len >= policy_end + 4 /\ msg.cert_len > 0
        has_thumb == /\ len >= policy_end + 4
                     /\ msg.thumb_len > 0
                     /\ len >= cert_end + 4 + msg.thumb_len
    IN  IF len < 16 \/ ~msg.opn THEN None
        ELSE OpcuaOpnInfo(has_cert, IF has_thumb THEN msg.thumb ELSE None)

PacketClasses(len, msg) ==
    {class_all} \union
    IF len = 0 THEN {}
    ELSE IF ParseOpn(len, msg) = None THEN {CLASS_OTHER}
    ELSE IF ParseOpn(len, msg).sender_certificate THEN {CLASS_OPN_CERT}
    ELSE {CLASS_OPN_NO_CERT}

\* Two frames have one key when nothing but their moment of capture differs.
PacketKey(f) == <<f.hdr, f.src_port, f.dst_port, f.rst, PayloadLen(f), f.msg>>

\* What is kept of a captured frame.
ParseIpv4Tcp(ts, f) ==
    [ts |-> ts,
     key |-> PacketKey(f),
     is_rst |-> f.rst,
     classes |-> PacketClasses(PayloadLen(f), f.msg),
     opn |-> ParseOpn(PayloadLen(f), f.msg)]

OnPort(f, port) == IsTcp(f) /\ port \in {f.src_port, f.dst_port}

IterPortPackets(pcaps, port) ==
    LET read == FlattenSeq([n \in DOMAIN pcaps |-> IterPcap(pcaps[n])])
        kept == At(read, {n \in DOMAIN read : OnPort(Fields[read[n].frame], port)})
    IN  [n \in DOMAIN kept |-> ParseIpv4Tcp(kept[n].ts, Fields[kept[n].frame])]

\* sorted(..., key=ts): by time, and in the order read when times agree.
SortedByTs(s) == SortedBy(s, [n \in DOMAIN s |-> s[n].ts])

CountKey(s, k) == Cardinality({n \in DOMAIN s : s[n].key = k})

\* A hash over the sorted keys: a function of how often each key occurs.
IngressFingerprint(pcaps, port) ==
    LET s == IterPortPackets(pcaps, port)
    IN  [k \in {s[n].key : n \in DOMAIN s} |-> CountKey(s, k)]

---------------------------------------------------------------------------
\* Statistics, as fractions <<numerator, denominator>>.

NaN == <<0, 0>>
IsNaN(x) == x[2] = 0
Whole(n) == <<n, 1>>
SumOf(s) == FoldLeft(LAMBDA a, b : a + b, 0, s)

SafeMean(s) == IF s = <<>> THEN NaN ELSE <<SumOf(s), Len(s)>>

\* Of a sorted sequence. The percentage of the length is taken to be exact.
QuantileSorted(s, percent) ==
    IF s = <<>> THEN NaN
    ELSE Whole(s[Max({1, Min({(percent * Len(s) + 99) \div 100, Len(s)})})])

Median(s) ==
    IF s = <<>> THEN NaN
    ELSE <<s[(Len(s) + 1) \div 2] + s[(Len(s) + 2) \div 2], 2>>

\* The square of the standard deviation.
SafeVariance(s) ==
    LET squares == [n \in DOMAIN s |-> s[n] * s[n]]
    IN  IF Len(s) < 2 THEN NaN
        ELSE <<Len(s) * SumOf(squares) - SumOf(s) * SumOf(s), Len(s) * (Len(s) - 1)>>

\* In thousandths.
TCritical95(df) ==
    LET table == << 12706, 4303, 3182, 2776, 2571, 2447, 2365, 2306, 2262, 2228, 2201, 2179, 2160, 2145, 2131,
                    2120, 2110, 2101, 2093, 2086, 2080, 2074, 2069, 2064, 2060, 2056, 2052, 2048, 2045, 2042 >>
    IN  IF df <= 0 THEN NaN ELSE IF df \in DOMAIN table THEN <<table[df], 1000>> ELSE <<1960, 1000>>

\* How many standard errors the interval of n differences reaches to both sides.
Ci95HalfWidth(n) == IF n < 2 THEN NaN ELSE TCritical95(n - 1)

\* A quantile is the nearest rank: the least value that so many percent of the values
\* do not exceed. It lies among the values, and not below the median when it is a
\* high one. A second interval is never wider by its factor than one of fewer runs.
ASSUME StatisticsAssumption ==
    /\ \A s \in UNION {[1 .. n -> 0 .. 3] : n \in 1 .. 4} :
          (\A n \in 1 .. Len(s) - 1 : s[n] <= s[n + 1]) =>
              \A percent \in {50, 95, 99} :
                  LET q == QuantileSorted(s, percent)[1]
                      upto(v) == 100 * Cardinality({n \in DOMAIN s : s[n] <= v})
                  IN  /\ q \in Range(s) /\ upto(q) >= percent * Len(s)
                      /\ \A v \in Range(s) : v < q => upto(v) < percent * Len(s)
                      /\ percent > 50 => 2 * q >= Median(s)[1]
    /\ \A df \in 1 .. 40 : TCritical95(df + 1)[1] <= TCritical95(df)[1]

---------------------------------------------------------------------------
\* Pairing

VARIABLES
    ingress_events,    \* packets that entered, by time
    egress_events,     \* packets that left, by time
    ingress_q,         \* per key, ingress packets that wait for their copy
    i, j,              \* how many of each are done
    pairs,             \* <<ingress, egress>> in the order they were paired
    unmatched_egress   \* egress packets that found no ingress packet

pairing == <<ingress_events, egress_events, ingress_q, i, j, pairs, unmatched_egress>>

PairingInit ==
    /\ ingress_events = <<>> /\ egress_events = <<>>
    /\ ingress_q = <<>>
    /\ i = 0 /\ j = 0
    /\ pairs = <<>> /\ unmatched_egress = <<>>

\* Mutant of AnalyzePaths: the pairs of the capture before are kept.
AnalyzePathsAccumulates(ingress, egress) ==
    /\ ingress_events' = ingress
    /\ egress_events' = egress
    /\ ingress_q' = [k \in {ingress[n].key : n \in DOMAIN ingress} |-> <<>>]
    /\ i' = 0 /\ j' = 0
    /\ UNCHANGED <<pairs, unmatched_egress>>

AnalyzePaths(ingress, egress) ==
    /\ ingress_events' = ingress
    /\ egress_events' = egress
    /\ ingress_q' = [k \in {ingress[n].key : n \in DOMAIN ingress} |-> <<>>]
    /\ i' = 0 /\ j' = 0
    /\ pairs' = <<>> /\ unmatched_egress' = <<>>

\* Mutant of EnqueueIngress: appendleft for append.
EnqueueIngressInFront ==
    /\ i < Len(ingress_events)
    /\ i' = i + 1
    /\ ingress_q' = [ingress_q EXCEPT ![ingress_events[i + 1].key] = <<i + 1>> \o @]
    /\ UNCHANGED <<ingress_events, egress_events, j, pairs, unmatched_egress>>

EnqueueIngress ==
    /\ i < Len(ingress_events)
    /\ i' = i + 1
    /\ ingress_q' = [ingress_q EXCEPT ![ingress_events[i + 1].key] = Append(@, i + 1)]
    /\ UNCHANGED <<ingress_events, egress_events, j, pairs, unmatched_egress>>

Waiting(k) == k \in DOMAIN ingress_q /\ ingress_q[k] # <<>>

\* Mutant of PairEgress: pop for popleft.
PairEgressNewest ==
    LET k == egress_events[j + 1].key
    IN  /\ i = Len(ingress_events)
        /\ j < Len(egress_events)
        /\ Waiting(k)
        /\ j' = j + 1
        /\ pairs' = Append(pairs, <<Last(ingress_q[k]), j + 1>>)
        /\ ingress_q' = [ingress_q EXCEPT ![k] = Front(@)]
        /\ UNCHANGED <<ingress_events, egress_events, i, unmatched_egress>>

PairEgress ==
    LET k == egress_events[j + 1].key
    IN  /\ i = Len(ingress_events)
        /\ j < Len(egress_events)
        /\ Waiting(k)
        /\ j' = j + 1
        /\ pairs' = Append(pairs, <<Head(ingress_q[k]), j + 1>>)
        /\ ingress_q' = [ingress_q EXCEPT ![k] = Tail(@)]
        /\ UNCHANGED <<ingress_events, egress_events, i, unmatched_egress>>

LoneEgress ==
    /\ i = Len(ingress_events)
    /\ j < Len(egress_events)
    /\ ~Waiting(egress_events[j + 1].key)
    /\ j' = j + 1
    /\ unmatched_egress' = Append(unmatched_egress, j + 1)
    /\ UNCHANGED <<ingress_events, egress_events, ingress_q, i, pairs>>

PairingStep == EnqueueIngress \/ PairEgress \/ LoneEgress

Paired == i = Len(ingress_events) /\ j = Len(egress_events)

---------------------------------------------------------------------------
\* Results

Delay(p) == egress_events[p[2]].ts - ingress_events[p[1]].ts

Entered(c) == {n \in DOMAIN ingress_events : c \in ingress_events[n].classes}
Left(c) == {n \in DOMAIN egress_events : c \in egress_events[n].classes}

\* Ingress packets still queued when all egress packets are through.
\* Mutant of UnmatchedIngress: one packet of each queue, if for while.
UnmatchedIngressOnePerQueue ==
    {Head(ingress_q[k]) : k \in {x \in DOMAIN ingress_q : ingress_q[x] # <<>>}}

UnmatchedIngress == UNION {Range(ingress_q[k]) : k \in DOMAIN ingress_q}

\* The counters of one traffic class. A pair counts for the classes of its
\* ingress packet, and its delay only when it is not negative.
Results(c) ==
    LET matched == {n \in DOMAIN pairs : pairs[n][1] \in Entered(c)}
        late == {n \in matched : Delay(pairs[n]) < 0}
    IN  [ingress_packets |-> Cardinality(Entered(c)),
         egress_packets |-> Cardinality(Left(c)),
         matched_packets |-> Cardinality(matched),
         unmatched_ingress |-> Cardinality(UnmatchedIngress \intersect Entered(c)),
         unmatched_egress |-> Cardinality(Range(unmatched_egress) \intersect Left(c)),
         rst_ingress |-> Cardinality({n \in Entered(c) : ingress_events[n].is_rst}),
         rst_egress |-> Cardinality({n \in Left(c) : egress_events[n].is_rst}),
         negative_delay_matches |-> Cardinality(late),
         latencies |-> LET timed == At(pairs, matched \ late)
                           d == [n \in DOMAIN timed |-> Delay(timed[n])]
                       IN  SortedBy(d, d)]
=============================================================================
