------------------------- MODULE OverheadCampaign -------------------------
(***************************************************************************)
(* A campaign: one run is measured live (CaptureSession), its captures are *)
(* saved among those of earlier runs, and the whole directory is analysed  *)
(* (OverheadReport). What the report claims is compared with what happened *)
(* in the switch and with what is in the files.                            *)
(***************************************************************************)
EXTENDS CaptureSession, OverheadReport

\* Campaigns a run may start from, by name: which analyzer with which arguments, the
\* places of its directory, and the place the live run is saved to (0: none,
\* the directory is only analysed again).
CONSTANT Campaigns

\* A file of tcpdump, and a place with files of some switches, per direction, and
\* with those under the fixed names.
Captured == [ts : Int, frame : DOMAIN Fields, whole : BOOLEAN]
PcapFile == [header : BOOLEAN, records : Seq(Captured)]
Switches == {"s1", "s_it", "s_plc", "s_ot", "s_lsensor"}
Place(switches) ==
    [run_index : Int, variant : STRING, key_bits : Int,
     pcaps : [switches -> [{"in", "out"} -> Seq(PcapFile)]],
     simple : [{"in", "out"} -> PcapFile \union {None}]]

ASSUME CampaignsAssumption ==
    /\ Traffic \subseteq [frame : DOMAIN Fields, iface : Ifaces]
    /\ \A c \in DOMAIN Campaigns :
          LET plan == Campaigns[c]
          IN  /\ plan.analyzer \in {"otsec", "motra", "maynard", "cert_size"}
              /\ plan.places \in Seq(Range(plan.places))
              /\ \A p \in Range(plan.places) :
                    \E switches \in SUBSET Switches :
                        p \in Place(switches) /\ (plan.analyzer = "cert_size" => "s1" \in switches)
              /\ plan.live \in 0 .. Len(plan.places)

VARIABLE campaign

Plan == Campaigns[campaign]

vars == <<campaign, session, report, pairing>>

LiveFiles(dir) ==
    [n \in 1 .. 2 |-> [header |-> TRUE,
                       records |-> pcap[[iface |-> <<"eth0", "eth1">>[n], dir |-> dir]]]]

\* The directory, the live captures copied into it.
Places ==
    IF Plan.live = 0 THEN Plan.places
    ELSE [Plan.places EXCEPT ![Plan.live].pcaps =
             [s1 |-> [d \in {"in", "out"} |-> LiveFiles(d)]]]

Init ==
    /\ campaign \in DOMAIN Campaigns
    /\ SessionInit
    /\ PairingInit
    /\ ReportInit({Plan.args})

Measure ==
    /\ Plan.live # 0
    /\ SessionStep
    /\ UNCHANGED <<campaign, report, pairing>>

StartReport ==
    /\ Plan.live = 0 \/ phase = "stopped"
    /\ records = <<>>
    /\ DiscoverRecords(Plan.analyzer, Places)
    /\ UNCHANGED <<campaign, session>>

Report ==
    /\ ReportStep
    /\ UNCHANGED <<campaign, session>>

\* The analyzer has exited.
Exited ==
    /\ exit # "none"
    /\ UNCHANGED vars

Next == Measure \/ StartReport \/ Report \/ Exited

Spec == Init /\ [][Next]_vars

---------------------------------------------------------------------------
\* The loops stay within what they read, and every place of the report is
\* about a record that was discovered.
TypeOK ==
    /\ phase \in {"starting", "capturing", "draining", "stopped"}
    /\ running \subseteq Captures
    /\ i \in 0 .. Len(ingress_events) /\ j \in 0 .. Len(egress_events)
    /\ \A k \in DOMAIN ingress_q : Range(ingress_q[k]) \subseteq 1 .. i
    /\ Range(pairs) \subseteq (1 .. i) \X (1 .. j)
    /\ Range(unmatched_egress) \subseteq 1 .. j
    /\ analyzed \in 0 .. Len(records)
    /\ DOMAIN fingerprints = DOMAIN values
    /\ DOMAIN values = Range(per_run_rows)
    /\ exit \in {"none", "no_captures", "ok", "failed"}

\* Pairing (analyze_paths): no packet is in two pairs, the packets of a pair
\* are copies of one frame, and of two pairs of copies the earlier ingress
\* goes with the earlier egress. So a duplicate neither takes the place of
\* two packets nor makes two packets swap their delays.
PairingIsFifo ==
    \A m, n \in DOMAIN pairs :
        /\ ingress_events[pairs[m][1]].key = egress_events[pairs[m][2]].key
        /\ m # n => pairs[m][1] # pairs[n][1] /\ pairs[m][2] # pairs[n][2]
        /\ /\ m < n
           /\ ingress_events[pairs[m][1]].key = ingress_events[pairs[n][1]].key
           => pairs[m][1] < pairs[n][1] /\ pairs[m][2] < pairs[n][2]

\* The rows of a pair of variants that some run has a value for, and those
\* of another pair that are about the same.
RowsOf(pair) == {row \in summary : row.pair = pair /\ row.runs # {}}
SameMetric(row, other) ==
    /\ row.runs = other.runs
    /\ <<row.dims, row.class, row.metric>> = <<other.dims, other.class, other.metric>>

\* The counters of every stored class add up: what entered is paired or
\* unmatched, what left is paired or unmatched, every pair has a latency or a negative
\* delay, and the classes of the payload never count a packet twice (results of
\* analyze_paths).
CountersAddUp(counters) ==
    /\ \A c \in Classes :
          LET v == counters[c]
          IN  /\ v.ingress_packets = v.matched_packets + v.unmatched_ingress
              /\ v.egress_packets = v.matched_packets + v.unmatched_egress
              /\ v.matched_packets = v.negative_delay_matches + Len(v.latencies)
    /\ counters[CLASS_OPN_CERT].ingress_packets
         + counters[CLASS_OPN_NO_CERT].ingress_packets
         + counters[CLASS_OTHER].ingress_packets <= counters[class_all].ingress_packets

\* So do the differences of the summary: over the same runs the way from one
\* program to another is as long by the third (run_report).
DifferencesAddUp ==
    \A first \in RowsOf(<<"ip_forward", "opcua_forward">>) :
    \A second \in {r \in RowsOf(<<"opcua_forward", "extraction">>) : SameMetric(r, first)} :
    \A both \in {r \in RowsOf(<<"ip_forward", "extraction">>) : SameMetric(r, first)} :
       Minus(both.delta_abs, Plus(first.delta_abs, second.delta_abs))[1] = 0

\* Both, of all that was stored and of the summary.
CountsAddUp ==
    /\ \A k \in DOMAIN values : CountersAddUp(values[k])
    /\ DifferencesAddUp

\* The pairing under way is about the live run.
LivePaired ==
    /\ loaded /\ Paired /\ Plan.live # 0
    /\ LET rec == records[analyzed + 1] IN
       /\ rec.ingress_pcaps = LiveFiles("in") /\ rec.egress_pcaps = LiveFiles("out")
       /\ rec.run_index = Plan.places[Plan.live].run_index
       /\ rec.variant = CanonicalVariant(Plan.places[Plan.live].variant)

Copies(k) ==
    {n \in DOMAIN passage : LET f == Fields[passage[n].frame]
                            IN  OnPort(f, Port) /\ ParseIpv4Tcp(0, f).key = k}

\* A copy whose egress was captured and whose ingress was not.
Foreign(k) == \E n \in Copies(k) : passage[n].seen_out /\ ~passage[n].seen_in

\* stop_captures.sh: "killing everything at once records ingress packets
\* whose egress copy was never captured, which the analyzer counts as a fake
\* drop". With its order, the packets reported as dropped are those the switch
\* dropped; only what came while the captures were still being started may be
\* reported falsely, and only a copy seen on its way out alone may hide a drop.
DropsAreReal ==
    LivePaired =>
        \A k \in DOMAIN ingress_q :
            \/ Foreign(k)
            \/ \E n \in Copies(k) : passage[n].while = "starting"
            \/ Len(ingress_q[k]) = Cardinality({n \in Copies(k) : /\ passage[n].seen_in
                                                                  /\ passage[n].fate = "dropped"})

\* A negative delay never comes from copies and reordering in the switch: it
\* says that a copy left which the ingress captures had missed.
NegativeDelayMeansMissedIngress ==
    LivePaired =>
        \A n \in DOMAIN pairs :
            Delay(pairs[n]) < 0 => Foreign(ingress_events[pairs[n][1]].key)

\* With --fail-on-quality and no drops tolerated, exit status 0 means for each
\* graded capture: at any time, at least as many copies of a frame were still
\* to leave as were still to enter; and with --require-same-ingress all variants
\* of a run saw the same frames equally often. The files are counted here
\* without pairing anything.
PassIsEarned ==
    exit = "ok" /\ args.fail_on_quality /\ args.max_drop_pct = 0 =>
        \A k \in DOMAIN values :
            LET last == Max({n \in DOMAIN records : per_run_rows[n] = k})
                ingress == IterPortPackets(records[last].ingress_pcaps, Port)
                egress == IterPortPackets(records[last].egress_pcaps, Port)
                from(s, e) == Cardinality({n \in DOMAIN s : s[n].key = e.key /\ s[n].ts >= e.ts})
            IN  /\ ingress # <<>>
                /\ \A n \in DOMAIN ingress : from(ingress, ingress[n]) <= from(egress, ingress[n])
                /\ args.require_same_ingress =>
                       \A k2 \in DOMAIN values : Unit(k2) = Unit(k) =>
                           LET last2 == Max({n \in DOMAIN records : per_run_rows[n] = k2})
                               other == IterPortPackets(records[last2].ingress_pcaps, Port)
                           IN  \A n \in DOMAIN ingress : CountKey(ingress, ingress[n].key)
                                                           = CountKey(other, ingress[n].key)
=============================================================================
