-------------------------- MODULE OverheadReport --------------------------
(***************************************************************************)
(* src/testbeds/generic_overhead_analyzer.py and its four callers: the     *)
(* captures of a campaign are discovered in its directory, analysed one by *)
(* one, graded per run, and summarised per pair of variants.               *)
(*                                                                         *)
(* A directory is a sequence, in the order of its names, of the places     *)
(* where captures may be.                                                  *)
(***************************************************************************)
EXTENDS PcapAnalysis

CONSTANT Port

VARIANTS == {"ip_forward", "opcua_forward", "extraction"}
CanonicalVariant(name) == IF name = "forward" THEN "opcua_forward" ELSE name
DELTA_PAIRS == {<<"ip_forward", "opcua_forward">>, <<"opcua_forward", "extraction">>,
                <<"ip_forward", "extraction">>}

---------------------------------------------------------------------------
\* Discovery: places whose run is not a number, whose variant is unknown or
\* that lack the files of one direction are passed over.

CaptureRecord(place, dims, ingress, egress) ==
    [run_index |-> place.run_index, variant |-> CanonicalVariant(place.variant), dims |-> dims,
     ingress_pcaps |-> ingress, egress_pcaps |-> egress]

Valid(place) == /\ place.run_index \in Nat
                /\ CanonicalVariant(place.variant) \in VARIANTS

DiscoverSwitches(places, switches) ==
    LET captured(p) == {n \in DOMAIN switches : /\ switches[n] \in DOMAIN p.pcaps
                                                /\ p.pcaps[switches[n]]["in"] # <<>>
                                                /\ p.pcaps[switches[n]]["out"] # <<>>}
        of(p, sw) == CaptureRecord(p, sw, p.pcaps[sw]["in"], p.pcaps[sw]["out"])
        records(p) == LET s == At(switches, captured(p)) IN [n \in DOMAIN s |-> of(p, s[n])]
        valid == At(places, {n \in DOMAIN places : Valid(places[n])})
    IN  FlattenSeq([n \in DOMAIN valid |-> records(valid[n])])

\* One capture for each direction, under a fixed name.
DiscoverSimple(places) ==
    LET named(p) == Valid(p) /\ p.simple["in"] # None /\ p.simple["out"] # None
        found == At(places, {n \in DOMAIN places : named(places[n])})
    IN  [n \in DOMAIN found |->
            CaptureRecord(found[n], "", <<found[n].simple["in"]>>, <<found[n].simple["out"]>>)]

\* A level of key sizes between run and variant; s1 is the only switch.
DiscoverCertSize(places) ==
    LET named(p) == /\ Valid(p) /\ p.key_bits \in Nat
                    /\ p.pcaps["s1"]["in"] # <<>> /\ p.pcaps["s1"]["out"] # <<>>
        found == At(places, {n \in DOMAIN places : named(places[n])})
    IN  [n \in DOMAIN found |->
            CaptureRecord(found[n], found[n].key_bits, found[n].pcaps["s1"]["in"],
                          found[n].pcaps["s1"]["out"])]

\* The four analyzers.
AnalyzeOtsec(places) == DiscoverSwitches(places, <<"s1">>)
AnalyzeMotra(places) == DiscoverSwitches(places, <<"s_it", "s_plc", "s_ot", "s_lsensor">>)
AnalyzeCertSize(places) == DiscoverCertSize(places)
AnalyzeMaynard(places) ==
    LET of_switch == DiscoverSwitches(places, <<"s1">>)
    IN  IF of_switch # <<>>
        THEN [n \in DOMAIN of_switch |-> [of_switch[n] EXCEPT !.dims = ""]]
        ELSE DiscoverSimple(places)

Discover(analyzer, places) ==
    CASE analyzer = "otsec" -> AnalyzeOtsec(places)
      [] analyzer = "motra" -> AnalyzeMotra(places)
      [] analyzer = "maynard" -> AnalyzeMaynard(places)
      [] analyzer = "cert_size" -> AnalyzeCertSize(places)

---------------------------------------------------------------------------
VARIABLES
    args,          \* the command line: thresholds and flags
    records,       \* what was discovered
    analyzed,      \* how many of them are analysed
    loaded,        \* the next record is being paired
    values,        \* <<run, dims, variant>> -> class -> counters
    fingerprints,  \* <<run, dims, variant>> -> fingerprint of its ingress
    per_run_rows,  \* the record each block of per_run.csv is about
    summary,       \* rows of summary.csv
    quality,       \* <<run, dims>> -> reasons to fail it
    exit           \* "none" while it runs, then its exit status

report == <<args, records, analyzed, loaded, values, fingerprints, per_run_rows,
            summary, quality, exit>>

ReportInit(choices) ==
    /\ args \in choices
    /\ records = <<>> /\ analyzed = 0 /\ loaded = FALSE
    /\ values = <<>> /\ fingerprints = <<>>
    /\ per_run_rows = <<>> /\ summary = {} /\ quality = <<>>
    /\ exit = "none"

Unit(k) == <<k[1], k[2]>>
Units(vals) == {Unit(k) : k \in DOMAIN vals}
VariantsOf(vals, u) == {v \in VARIANTS : <<u[1], u[2], v>> \in DOMAIN vals}

---------------------------------------------------------------------------
\* Quality: thresholds are whole percents of the ingress packets.

\* Mutant of FailsOn: drops are weighed against the egress packets.
FailsOnEgress(reason, all, a) ==
    CASE reason = "empty_capture" -> all.ingress_packets = 0 \/ all.egress_packets = 0
      [] reason = "no_matches" -> all.matched_packets = 0
      [] reason = "rst" -> 100 * (all.rst_ingress + all.rst_egress) > a.max_rst_pct * all.ingress_packets
      [] reason = "negative_delay" -> all.negative_delay_matches > 0
      [] reason = "drop" -> all.ingress_packets > all.egress_packets

\* The reasons a variant may fail for, from its counters over all classes.
FailsOn(reason, all, a) ==
    LET rst == all.rst_ingress + all.rst_egress
    IN  CASE reason = "empty_capture" -> all.ingress_packets = 0 \/ all.egress_packets = 0
          [] reason = "no_matches" -> all.matched_packets = 0
          [] reason = "rst" -> /\ all.ingress_packets > 0
                               /\ 100 * rst > a.max_rst_pct * all.ingress_packets
          [] reason = "negative_delay" -> all.negative_delay_matches > 0
          [] reason = "drop" -> /\ all.ingress_packets > 0
                                /\ 100 * all.unmatched_ingress
                                     > a.max_drop_pct * all.ingress_packets

VariantReasons == {"empty_capture", "no_matches", "rst", "negative_delay", "drop"}

\* A run has no reason for a variant that is missing: only those present count.
QualityReasons(vals, fps, u, a) ==
    LET variants == VariantsOf(vals, u)
        of(v) == vals[<<u[1], u[2], v>>]
    IN  {x \in VariantReasons \X variants : FailsOn(x[1], of(x[2])[class_all], a)}
        \union {<<"no_opn_cert", v>> : v \in
                  {w \in variants \intersect {"extraction"} :
                      /\ a.require_extraction_opn_cert
                      /\ of(w)[CLASS_OPN_CERT].ingress_packets = 0}}
        \union {<<"fingerprint_mismatch", v>> : v \in
                  {w \in variants : /\ a.require_same_ingress
                                    /\ \E x \in variants : fps[<<u[1], u[2], x>>]
                                                             # fps[<<u[1], u[2], w>>]}}

---------------------------------------------------------------------------
\* Summary: a difference of two variants is taken over the runs that have a
\* value for both. A latency has none without a pair, its deviation (the square of
\* it here) none without two, a drop rate none without an ingress packet.

LATENCY_METRICS == {"latency_mean", "latency_median", "latency_p95", "latency_p99", "latency_std"}
COUNT_METRICS == {"ingress_packets", "egress_packets", "matched_packets", "unmatched_ingress",
                  "unmatched_egress", "drop_rate", "rst_ingress", "rst_egress", "negative_delay_matches"}
SUMMARY_METRICS == LATENCY_METRICS \union COUNT_METRICS

Value(counters, metric) ==
    CASE metric = "latency_mean" -> SafeMean(counters.latencies)
      [] metric = "latency_median" -> Median(counters.latencies)
      [] metric = "latency_p95" -> QuantileSorted(counters.latencies, 95)
      [] metric = "latency_p99" -> QuantileSorted(counters.latencies, 99)
      [] metric = "latency_std" -> SafeVariance(counters.latencies)
      [] metric = "drop_rate" -> <<100 * counters.unmatched_ingress, counters.ingress_packets>>
      [] OTHER -> Whole(counters[metric])

Plus(x, y) == <<x[1] * y[2] + y[1] * x[2], x[2] * y[2]>>
Minus(x, y) == Plus(x, <<-y[1], y[2]>>)
MeanOver(runs, value) ==
    LET sum == FoldSet(LAMBDA run, x : Plus(value[run], x), Whole(0), runs)
    IN  IF runs = {} THEN NaN ELSE <<sum[1], sum[2] * Cardinality(runs)>>

\* Mutant of PairedRuns: a run without the candidate is taken in where it has none.
RunsOfBaseline(vals, dims, pair, c, metric) ==
    {run \in {u[1] : u \in {x \in Units(vals) : x[2] = dims}} :
        /\ pair[1] \in VariantsOf(vals, <<run, dims>>)
        /\ ~IsNaN(Value(vals[<<run, dims, pair[1]>>][c], metric))}

PairedRuns(vals, dims, pair, c, metric) ==
    {run \in {u[1] : u \in {x \in Units(vals) : x[2] = dims}} :
        \A v \in {pair[1], pair[2]} :
            /\ v \in VariantsOf(vals, <<run, dims>>)
            /\ ~IsNaN(Value(vals[<<run, dims, v>>][c], metric))}

SummaryRow(vals, dims, c, metric, pair) ==
    LET runs == PairedRuns(vals, dims, pair, c, metric)
        of(v) == [run \in runs |-> Value(vals[<<run, dims, v>>][c], metric)]
        base_mean == MeanOver(runs, of(pair[1]))
        delta_abs == MeanOver(runs, [run \in runs |-> Minus(of(pair[2])[run], of(pair[1])[run])])
    IN  [dims |-> dims, class |-> c, metric |-> metric, pair |-> pair, runs |-> runs,
         baseline_mean |-> base_mean,
         candidate_mean |-> MeanOver(runs, of(pair[2])),
         delta_abs |-> delta_abs,
         delta_pct |-> IF base_mean[1] = 0 THEN NaN
                       ELSE <<100 * delta_abs[1] * base_mean[2], delta_abs[2] * base_mean[1]>>,
         ci95 |-> Ci95HalfWidth(Cardinality(runs))]

SummaryRows(vals) ==
    {SummaryRow(vals, d, c, m, p) :
        d \in {u[2] : u \in Units(vals)}, c \in Classes, m \in SUMMARY_METRICS, p \in DELTA_PAIRS}

---------------------------------------------------------------------------
\* run_report.

DiscoverRecords(analyzer, places) ==
    /\ exit = "none"
    /\ records' = Discover(analyzer, places)
    /\ exit' = IF records' = <<>> THEN "no_captures" ELSE "none"
    /\ UNCHANGED <<args, analyzed, loaded, values, fingerprints, per_run_rows, summary, quality, pairing>>

LoadRecord ==
    /\ exit = "none" /\ ~loaded
    /\ analyzed < Len(records)
    /\ loaded' = TRUE
    /\ LET rec == records[analyzed + 1]
       IN  \E ingress \in {SortedByTs(IterPortPackets(rec.ingress_pcaps, Port))},
              egress \in {SortedByTs(IterPortPackets(rec.egress_pcaps, Port))} :
              AnalyzePaths(ingress, egress)
    /\ UNCHANGED <<args, records, analyzed, values, fingerprints, per_run_rows, summary, quality, exit>>

PairRecord ==
    /\ loaded
    /\ PairingStep
    /\ UNCHANGED report

StoreResult ==
    /\ loaded /\ Paired
    /\ LET rec == records[analyzed + 1]
           k == <<rec.run_index, rec.dims, rec.variant>>
           stored == DOMAIN values \union {k}
       IN  /\ values' = [x \in stored |-> IF x = k THEN [c \in Classes |-> Results(c)] ELSE values[x]]
           /\ fingerprints' = [x \in stored |-> IF x = k THEN IngressFingerprint(rec.ingress_pcaps, Port)
                                                ELSE fingerprints[x]]
           /\ per_run_rows' = Append(per_run_rows, k)
    /\ analyzed' = analyzed + 1
    /\ loaded' = FALSE
    /\ UNCHANGED <<args, records, summary, quality, exit, pairing>>

WriteReport ==
    /\ exit = "none" /\ ~loaded
    /\ records # <<>> /\ analyzed = Len(records)
    /\ summary' = SummaryRows(values)
    /\ quality' = [u \in Units(values) |-> QualityReasons(values, fingerprints, u, args)]
    /\ exit' = IF args.fail_on_quality /\ \E u \in Units(values) : quality'[u] # {}
               THEN "failed" ELSE "ok"
    /\ UNCHANGED <<args, records, analyzed, loaded, values, fingerprints, per_run_rows, pairing>>

ReportStep == LoadRecord \/ PairRecord \/ StoreResult \/ WriteReport
=============================================================================
