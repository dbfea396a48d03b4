------------------------ MODULE MCOverheadCampaign ------------------------
(***************************************************************************)
(* A live run with an OPN message, a reply and a copy of either, among     *)
(* saved runs with the files a campaign may leave behind.                  *)
(***************************************************************************)
EXTENDS OverheadCampaign

Message(opn, cert, thumb) ==
    [opn |-> opn, policy_len |-> 4, cert_len |-> cert, thumb_len |-> 20, thumb |-> thumb]

\* A whole frame with a payload of n bytes.
Segment(hdr, src, dst, n, rst, msg) ==
    [hdr |-> hdr, len |-> 54 + n, vlan |-> FALSE, ipv4 |-> TRUE, ihl |-> 20, total_len |-> 40 + n,
     tcp |-> TRUE, data_off |-> 20, src_port |-> src, dst_port |-> dst, rst |-> rst, msg |-> msg]

Open == Segment("c1", 50000, 4840, 90, FALSE, Message(TRUE, 30, "thumb"))
Reset == Segment("s2", 4840, 50000, 0, TRUE, Message(FALSE, 0, "thumb"))

\* Frames by name: OPN messages with and without a certificate, a reply, a
\* reset, and frames the parser treats specially.
MCFields ==
    [open |-> Open,
     open_none |-> Segment("c2", 50000, 4840, 60, FALSE, Message(TRUE, -1, "thumb")),
     reply |-> Segment("s1", 4840, 50000, 40, FALSE, Message(FALSE, 0, "thumb")),
     reset |-> Reset,
     tagged |-> [Open EXCEPT !.vlan = TRUE, !.len = @ + 4],
     runt |-> [Open EXCEPT !.len = 50],
     padded |-> [Reset EXCEPT !.len = 60, !.rst = FALSE],
     ssh |-> [Open EXCEPT !.src_port = 22, !.dst_port = 50022]]

MCTraffic == {[frame |-> "open", iface |-> "eth0"], [frame |-> "reply", iface |-> "eth1"]}

Record(ts, f) == [ts |-> ts, frame |-> f, whole |-> TRUE]
File(recs) == [header |-> TRUE, records |-> recs]
Empty == [header |-> FALSE, records |-> <<>>]

Pcaps(in, out) == [d \in {"in", "out"} |-> IF d = "in" THEN in ELSE out]
NoFile == Pcaps(None, None)
PlaceOf(run, variant, in, out) ==
    [run_index |-> run, variant |-> variant, key_bits |-> 2048,
     pcaps |-> [s1 |-> Pcaps(in, out)], simple |-> NoFile]

\* Captures of earlier runs: a clean one, one that tcpdump did not finish
\* writing, one with odd frames, and one taken while the clock was set back.
Clean == << <<File(<<Record(0, "open"), Record(1, "open")>>), File(<<Record(1, "reply")>>)>>,
            <<File(<<Record(2, "reply")>>), File(<<Record(0, "open"), Record(2, "open")>>)>> >>
Torn == << <<File(<<Record(0, "open"), [Record(1, "reset") EXCEPT !.whole = FALSE], Record(1, "open")>>), Empty>>,
           <<File(<<>>), File(<<Record(0, "open")>>)>> >>
Odd == << <<File(<<Record(0, "tagged"), Record(0, "runt"), Record(0, "open_none"), Record(1, "padded"),
                   Record(1, "ssh"), Record(2, "reset")>>)>>,
          <<File(<<Record(1, "reset"), Record(1, "open_none"), Record(1, "tagged"), Record(2, "reset")>>)>> >>
Back == << <<File(<<Record(5, "open"), Record(6, "open")>>)>>, <<File(<<Record(2, "open"), Record(6, "open")>>)>> >>

Saved(run, variant, captures) == PlaceOf(run, variant, captures[1], captures[2])

Arguments(fail, drop, opn, same) ==
    [fail_on_quality |-> fail, max_drop_pct |-> drop, max_rst_pct |-> 2,
     require_extraction_opn_cert |-> opn, require_same_ingress |-> same]
Smoke == Arguments(TRUE, 0, TRUE, FALSE)
Replay == Arguments(TRUE, 0, FALSE, TRUE)
Main == Arguments(FALSE, 0, TRUE, FALSE)

Campaign(a, options, places, live) ==
    [analyzer |-> a, args |-> options, places |-> places, live |-> live]

\* What the analyzers read besides a live run: a run directory whose name has
\* no number, a variant under its old name beside the new one, a direction
\* that is missing, the two layouts of Maynard, and several switches.
Disk ==
    [ names |-> Campaign("otsec", Smoke, <<Saved(-1, "extraction", Clean), Saved(1, "bridge", Clean)>>, 0),
      renamed |-> Campaign("otsec", Smoke, <<Saved(1, "forward", Torn), Saved(1, "opcua_forward", Clean)>>, 0),
      partial |-> Campaign("otsec", Main, <<Saved(1, "extraction", Back), Saved(1, "ip_forward", Odd),
                                PlaceOf(2, "extraction", <<>>, Clean[2])>>, 0),
      replay |-> Campaign("maynard", Replay, <<Saved(1, "extraction", Clean), Saved(1, "ip_forward", Clean)>>, 0),
      replay_simple |-> Campaign("maynard", Replay,
               <<[PlaceOf(1, "extraction", <<>>, <<>>) EXCEPT !.simple = Pcaps(Clean[1][1], Clean[2][2])],
                 [PlaceOf(1, "ip_forward", <<>>, <<>>) EXCEPT !.simple = Pcaps(Torn[1][1], Torn[2][2])]>>, 0),
      three |-> Campaign("otsec", Main,
               <<Saved(1, "ip_forward", Clean), Saved(1, "opcua_forward", Back), Saved(1, "extraction", Odd),
                 Saved(2, "ip_forward", Odd), Saved(2, "opcua_forward", Clean), Saved(2, "extraction", Torn),
                 Saved(3, "ip_forward", Back)>>, 0),
      sizes |-> Campaign("cert_size", Smoke,
               <<Saved(1, "ip_forward", Clean), [Saved(1, "ip_forward", Clean) EXCEPT !.key_bits = -1],
                 [Saved(2, "ip_forward", Odd) EXCEPT !.key_bits = 4096]>>, 0),
      switches |-> Campaign("motra", Main,
               <<[Saved(1, "extraction", Clean) EXCEPT
                    !.pcaps = [s_it |-> Pcaps(Clean[1], Clean[2]), s_plc |-> Pcaps(Odd[1], <<>>),
                               s_ot |-> Pcaps(Back[1], Back[2])]]>>, 0) ]

Live ==
    [ live_new |-> Campaign("otsec", Smoke, <<Saved(1, "extraction", Clean), Saved(1, "ip_forward", Clean)>>, 1),
      live_old |-> Campaign("otsec", Replay, <<Saved(1, "extraction", Clean), Saved(1, "ip_forward", Clean)>>, 2) ]

MCCampaigns == Disk @@ Live
=============================================================================
