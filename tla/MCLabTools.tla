----------------------------- MODULE MCLabTools -----------------------------
(***************************************************************************)
(* Two key sizes, one run each of a switch program with the table and of   *)
(* one without; two iterations of the exchange among messages of others; *)
(* three invocations of the script of the testbed; three runs of the       *)
(* generator; a switch that loads three programs one after the other.      *)
(***************************************************************************)
EXTENDS LabTools

MCKeyBits == <<2048, 4096>>
MCVariants == <<"extraction", "ip_forward">>

Old(role) == [of |-> role, key |-> 1024, made |-> 0]

\* A fresh checkout, and a directory somebody has worked in by hand.
MCLeftovers ==
    {[host |-> NoLab, shared |-> [client |-> None, server |-> None]],
     [host |-> [client_key |-> 1024, server_key |-> 1024, client_cert |-> Old("client"),
                server_cert |-> Old("server"), h1_trusts |-> Old("server"), h2_trusts |-> Old("client")],
      shared |-> [client |-> Old("client"), server |-> Old("server")]]}

MCForeign ==
    {[by |-> "others", of |-> 0, wellformed |-> TRUE], [by |-> "others", of |-> 0, wellformed |-> FALSE]}

Line(install, consent, start, stop) ==
    [install |-> install, sudo_consent |-> consent, build |-> start, start |-> start, stop |-> stop]

MCInvocations ==
    {Line("ubuntu", FALSE, No, FALSE), Line("debian", TRUE, No, FALSE), Line("arch", FALSE, "prod", FALSE),
     Line(No, TRUE, "dev", FALSE), Line(No, TRUE, "prod", TRUE), Line(No, TRUE, No, TRUE)}

\* Table 0 of one program is not table 0 of the next. The last has no names.
MCPrograms ==
    << <<"table", 0>> :> "dmac_forward",
       (<<"table", 0>> :> "thumbprint_table") @@ (<<"table", 1>> :> "dmac_forward")
           @@ (<<"action", 0>> :> "drop"),
       <<>> >>
MCByFile == MCPrograms[2]

Event(type, id, ints) == [type |-> type, id |-> id, ints |-> ints, of |-> 0, cut |-> FALSE]

\* The last program logs a type no class is for, and a message of another length.
MCLogged ==
    << {Event("PACKET_IN", 1, 1), Event("TABLE_HIT", 0, 2)},
       {Event("TABLE_HIT", 0, 2), Event("TABLE_MISS", 1, 1)},
       {Event("ACTION_EXECUTE", 0, 1), Event("DIGEST", 0, 1), Event("TABLE_MISS", 0, 2)} >>
=============================================================================
