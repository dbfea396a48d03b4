------------------------------ MODULE LabTools ------------------------------
(***************************************************************************)
(* What an operator works with: the campaign over certificate sizes, the   *)
(* certificate exchange over the Tangle, the script of the OT testbed,     *)
(* wallet and feed of the management page, the certificate generator, and  *)
(* the client of the switch's event log. They share nothing: one of them   *)
(* is chosen, and the state of the others stays as it is.                  *)
(***************************************************************************)
EXTENDS CertificateCampaign, TangleExchange, TestbedScript, PageSession,
        CertificateGenerator, SwitchEventLog

VARIABLE tool

vars == <<tool, campaign, exchange, testbed, page, generator, eventlog>>

\* What may vary in the tool that is used; the others start from any one state.
Varied(t, S) == IF tool = t THEN S ELSE {CHOOSE x \in S : TRUE}

Init ==
    /\ tool \in {"campaign", "exchange", "testbed", "page", "generator", "eventlog"}
    /\ \E leftover \in Varied("campaign", Leftovers), abort \in Varied("campaign", BOOLEAN) :
          CampaignInit(leftover, abort)
    /\ ExchangeInit(Varied("exchange", DOMAIN Listeners),
                    Varied("exchange", {"empty", "mnemonic", "Alice", "Giacomo"}))
    /\ TestbedInit(Varied("testbed", BOOLEAN))
    /\ PageInit
    /\ GeneratorInit
    /\ EventLogInit

Next ==
    \/ tool = "campaign" /\ CampaignNext
       /\ UNCHANGED <<tool, exchange, testbed, page, generator, eventlog>>
    \/ tool = "exchange" /\ ExchangeNext
       /\ UNCHANGED <<tool, campaign, testbed, page, generator, eventlog>>
    \/ tool = "testbed" /\ TestbedNext
       /\ UNCHANGED <<tool, campaign, exchange, page, generator, eventlog>>
    \/ tool = "page" /\ PageNext
       /\ UNCHANGED <<tool, campaign, exchange, testbed, generator, eventlog>>
    \/ tool = "generator" /\ GeneratorNext
       /\ UNCHANGED <<tool, campaign, exchange, testbed, page, eventlog>>
    \/ tool = "eventlog" /\ EventLogNext
       /\ UNCHANGED <<tool, campaign, exchange, testbed, page, generator>>

Spec == Init /\ [][Next]_vars

---------------------------------------------------------------------------
\* Wherever this repository makes keys and certificates, what is used later fits:
\* the sessions of a campaign (run_cert_size_overhead.sh), and the files of the
\* certificate generator (generate_certificate.py).
CertificatesAgree == SessionsAgree /\ FilesBelongTogether

\* Who subscribes is told the truth: the page prints every event that comes after it
\* subscribed once and acts for a saved account (App.js, wallet.js), and the client of
\* the switch's event log names things by the program that logged them, but for the
\* announcements it missed (nanomsg_client.py).
SubscribersAgree == PageSessionAgrees /\ NamesCatchUp
=============================================================================
