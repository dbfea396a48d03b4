---------------------------- MODULE PageSession ----------------------------
(***************************************************************************)
(* The management page's wallet and event feed (App.js, wallet.js,         *)
(* WalletForm.js): accounts are kept in the browser under a password, and  *)
(* a page that has loaded one subscribes, once, to the events of the       *)
(* contract and prints each as it comes. The forms are RegistryFrontend's. *)
(*                                                                         *)
(* The contract and the node (external) emit events in the order they are  *)
(* mined, and a subscription gets those mined after it.                    *)
(***************************************************************************)
EXTENDS Integers, Sequences, SequencesExt

CONSTANTS
    Passwords,
    NoWallet,     \* nothing saved, or no default account
    MaxAccounts,  \* bound: accounts created
    MaxEvents     \* bound: events mined

\* A wallet is its first account, the only one that is ever asked for, and all of them.
Wallets == [first : Nat, all : SUBSET Nat]

ASSUME SessionAssumption ==
    /\ MaxAccounts \in Nat /\ MaxEvents \in Nat
    /\ NoWallet \notin [wallet : Wallets, password : Passwords]

VARIABLES
    created,       \* accounts ever created: 1 .. created
    saved,         \* the wallet in the browser's storage
    held,          \* the wallet in the page's memory
    default,       \* web3.eth.defaultAccount
    loading,       \* a load awaits the balance
    loaded, done,  \* React's state, and the variable outside of the component
    timers,        \* subscriptions to be made, in the order they are due
    connected,     \* the websocket
    subscriptions,
    mined,         \* names of the events mined, in order
    shown           \* what the page has printed

storage == <<created, saved>>
accounts == <<held, default, loading, loaded>>
subscribing == <<done, timers>>
receiving == <<connected, subscriptions, shown>>
page == <<storage, accounts, subscribing, receiving, mined>>

EventNames == {"sendCertificate", "revokedCertificate"}

---------------------------------------------------------------------------
\* The wallet. Creating adds an account to those in memory and saves them all,
\* over what had been saved.

NoAccount == [first |-> 0, all |-> {}]
Adding(wallet, other) ==
    [first |-> IF wallet.all = {} THEN other.first ELSE wallet.first, all |-> wallet.all \union other.all]

\* Mutant of Create: only the new account is saved.
CreateAndSaveOne(pwd) ==
    LET new == [first |-> created + 1, all |-> {created + 1}]
    IN  /\ created < MaxAccounts
        /\ created' = created + 1
        /\ held' = Adding(held, new)
        /\ saved' = [wallet |-> new, password |-> pwd]
        /\ UNCHANGED <<default, loading, loaded, subscribing, receiving, mined>>

Create(pwd) ==
    LET new == [first |-> created + 1, all |-> {created + 1}]
    IN  /\ created < MaxAccounts
        /\ created' = created + 1
        /\ held' = Adding(held, new)
        /\ saved' = [wallet |-> held', password |-> pwd]
        /\ UNCHANGED <<default, loading, loaded, subscribing, receiving, mined>>

\* Decrypted accounts are added to those in memory, but none twice. Without
\* any, or with a wrong password, an exception is caught and nothing is said.
Load(pwd) ==
    /\ saved # NoWallet => saved.password = pwd
    /\ held' = IF saved = NoWallet THEN held ELSE Adding(held, saved.wallet)
    /\ held'.all # {}
    /\ default' = held'.first
    /\ loading' = TRUE
    /\ UNCHANGED <<storage, loaded, subscribing, receiving, mined>>

BalanceArrives ==
    /\ loading /\ connected
    /\ loading' = FALSE /\ loaded' = TRUE
    /\ UNCHANGED <<storage, held, default, subscribing, receiving, mined>>

BalanceFails ==
    /\ loading
    /\ loading' = FALSE
    /\ UNCHANGED <<storage, held, default, loaded, subscribing, receiving, mined>>

---------------------------------------------------------------------------
\* App renders whenever any state of it changes.

\* Mutant of Render: every rendering sets the timers.
RenderAgain ==
    /\ loaded /\ Len(timers) < 4
    /\ done' = TRUE
    /\ timers' = timers \o <<"sendCertificate", "revokedCertificate">>
    /\ UNCHANGED <<storage, accounts, receiving, mined>>

Render ==
    /\ loaded /\ ~done
    /\ done' = TRUE
    /\ timers' = timers \o <<"sendCertificate", "revokedCertificate">>    \* after 3 s and 7 s
    /\ UNCHANGED <<storage, accounts, receiving, mined>>

\* subscribeNewCert and subscribeRevoke
SubscribeEvent ==
    /\ timers # <<>>
    /\ timers' = Tail(timers)
    /\ IF connected
       THEN /\ subscriptions' = Append(subscriptions,
                    [name |-> Head(timers), since |-> Len(mined), arriving |-> <<>>])
            /\ UNCHANGED shown
       ELSE /\ shown' = Append(shown, [name |-> "error"])
            /\ UNCHANGED subscriptions
    /\ UNCHANGED <<storage, accounts, done, connected, mined>>

\* A transaction of anybody's.
Emit(name) ==
    /\ Len(mined) < MaxEvents
    /\ mined' = Append(mined, name)
    /\ subscriptions' = [i \in DOMAIN subscriptions |->
            IF connected /\ subscriptions[i].name = name
            THEN [subscriptions[i] EXCEPT !.arriving = Append(@, Len(mined'))] ELSE subscriptions[i]]
    /\ UNCHANGED <<storage, accounts, subscribing, connected, shown>>

\* The callback of a subscription, with an event.
PrintEvent(i) ==
    LET s == subscriptions[i]
    IN  /\ s.arriving # <<>>
        /\ shown' = Append(shown, [name |-> s.name, event |-> Head(s.arriving)])
        /\ subscriptions' = [subscriptions EXCEPT ![i].arriving = Tail(@)]
        /\ UNCHANGED <<storage, accounts, subscribing, connected, mined>>

\* Nothing connects again. The callbacks may or may not be told.
ConnectionLost ==
    /\ connected
    /\ connected' = FALSE
    /\ subscriptions' = [i \in DOMAIN subscriptions |-> [subscriptions[i] EXCEPT !.arriving = <<>>]]
    /\ \/ UNCHANGED shown
       \/ shown' = shown \o [i \in DOMAIN subscriptions |-> [name |-> "error"]]
    /\ UNCHANGED <<storage, accounts, subscribing, mined>>

\* A reload: the storage is the browser's.
ReloadPage ==
    /\ held' = NoAccount /\ default' = NoWallet /\ loading' = FALSE /\ loaded' = FALSE
    /\ done' = FALSE /\ timers' = <<>>
    /\ connected' = TRUE /\ subscriptions' = <<>> /\ shown' = <<>>
    /\ UNCHANGED <<storage, mined>>

PageInit ==
    /\ created = 0 /\ saved = NoWallet
    /\ held = NoAccount /\ default = NoWallet /\ loading = FALSE /\ loaded = FALSE
    /\ done = FALSE /\ timers = <<>>
    /\ connected = TRUE /\ subscriptions = <<>> /\ shown = <<>>
    /\ mined = <<>>

PageNext ==
    \/ \E pwd \in Passwords : Create(pwd) \/ Load(pwd)
    \/ BalanceArrives \/ BalanceFails \/ Render \/ SubscribeEvent
    \/ \E name \in EventNames : Emit(name)
    \/ \E i \in DOMAIN subscriptions : PrintEvent(i)
    \/ ConnectionLost \/ ReloadPage

---------------------------------------------------------------------------
\* What a subscription has to print, and what the page has printed under its name.
Due(s) == {n \in DOMAIN mined : n > s.since /\ mined[n] = s.name}
Lines(s) == {k \in DOMAIN shown : shown[k].name = s.name}
Printed(s) == {shown[k].event : k \in Lines(s)}

\* What a subscription has printed and what is on its way to it are the events of
\* its name mined since, in their order and none twice, however often wallets are
\* loaded and the page is rendered; what was printed before the connection was lost is
\* the beginning of that.
IsFaithful(s) ==
    /\ IF connected THEN Due(s) = Printed(s) \union Range(s.arriving)
       ELSE Printed(s) \subseteq Due(s) /\ \A e \in Printed(s), n \in Due(s) \ Printed(s) : e < n
    /\ \A k, l \in Lines(s) : k < l => shown[k].event < shown[l].event
    /\ \A k, l \in DOMAIN s.arriving : k < l => s.arriving[k] < s.arriving[l]
    /\ \A e \in Printed(s), n \in Range(s.arriving) : e < n

FeedIsFaithful == \A i \in DOMAIN subscriptions : IsFaithful(subscriptions[i])

\* The account the page sends from is one it can sign for, and the wallet saved
\* in the browser has it: it is not lost with the page.
DefaultAccountIsSaved ==
    default # NoWallet =>
        default \in held.all /\ saved # NoWallet /\ default \in saved.wallet.all

\* The two together: what the page shows of the registry, and whom it acts for.
PageSessionAgrees == FeedIsFaithful /\ DefaultAccountIsSaved
=============================================================================
