--------------------------- MODULE TangleExchange ---------------------------
(***************************************************************************)
(* src/IOTA_src/mqtt: a certificate is sent as the tagged data of a        *)
(* transaction, and listeners get it from the MQTT feed of a node. Shell   *)
(* loops start the sender and the listener again and again; both append    *)
(* what they time to a log, and tests/IOTA/mqtt_test_results/scripts/      *)
(* sum_time_mqtt.py matches the rows of the two logs by their index.       *)
(*                                                                         *)
(* A message is who sent it and, of the sender's own, in which iteration;  *)
(* a part of a row is what was timed and for what.                         *)
(***************************************************************************)
EXTENDS Integers, Sequences, SequencesExt, FiniteSetsExt

CONSTANTS
    Iterations,     \* of either loop
    Foreign         \* messages that others may send under the same tag

ASSUME ExchangeAssumption ==
    /\ Iterations \in Nat \ {0}
    /\ Foreign \subseteq [by : {"others"}, of : Nat, wellformed : BOOLEAN]

VARIABLES
    kind,           \* which of the four pairs of scripts is used
    wallet,         \* what 1_create_account.py has made: nothing, the mnemonic, or
                    \* the account of a name
    sender,         \* the sender loop: iteration, and where its script is
    sender_log,
    feed,           \* messages on their way to the subscribed listener
    foreign,        \* messages others may still send
    listener,       \* the listener loop: iteration, where its script is, event set
    taken,          \* the message the callback works on, and where it is
    listener_log

sending == <<wallet, sender, sender_log>>
listening == <<listener, taken, listener_log>>
exchange == <<kind, sending, feed, foreign, listening>>

---------------------------------------------------------------------------
\* The scripts differ in what they log and whom they believe. The first pair sends
\* the file it is given and times the sending alone, and its listener wants to
\* see the key of the admin; in the other three that test is commented out.

NosignListener == [indexed |-> FALSE, admin_only |-> TRUE]
TxtListener == [indexed |-> TRUE, admin_only |-> FALSE]
PemListener == [indexed |-> TRUE, admin_only |-> FALSE]
DerListener == [indexed |-> TRUE, admin_only |-> FALSE]

NosignSender == [indexed |-> FALSE, account |-> "Alice"]
TxtSender == [indexed |-> TRUE, account |-> "Giacomo"]
PemSender == [indexed |-> TRUE, account |-> "Giacomo"]
DerSender == [indexed |-> TRUE, account |-> "Giacomo"]

Listeners == [nosign |-> NosignListener, txt |-> TxtListener, pem |-> PemListener, der |-> DerListener]
Senders == [nosign |-> NosignSender, txt |-> TxtSender, pem |-> PemSender, der |-> DerSender]

---------------------------------------------------------------------------
\* A log is its finished rows and the parts of the open one.

\* A part says what was timed and in which iteration, or for which message.
Part(what, i) == [what |-> what, by |-> "loop", of |-> i]
MessagePart(what, m) == [what |-> what, by |-> m.by, of |-> m.of]

EmptyLog == [rows |-> {}, open |-> <<>>]
Write(log, part) == [log EXCEPT !.open = Append(@, part)]
WriteLine(log, part) == [rows |-> log.rows \union {Append(log.open, part)}, open |-> <<>>]

---------------------------------------------------------------------------
\* 1_create_account.py. Each directory has a copy, and the copies differ in the name
\* of the account: a listener's directory makes Alice, a sender's makes Giacomo, and the
\* first pair, which shares one directory, Alice. They store the mnemonic, make the
\* account and set its defaults for sync.

NosignAccount == "Alice"
TxtListenerAccount == "Alice"
PemListenerAccount == "Alice"
DerListenerAccount == "Alice"
TxtSenderAccount == "Giacomo"
PemSenderAccount == "Giacomo"
DerSenderAccount == "Giacomo"

\* The scripts that work on the wallet of the sender. Its path in .env is relative to
\* where a script is run: both, when they are run from one place.
AccountScripts(k) ==
    CASE k = "nosign" -> {NosignAccount}
      [] k = "txt" -> {TxtListenerAccount, TxtSenderAccount}
      [] k = "pem" -> {PemListenerAccount, PemSenderAccount}
      [] k = "der" -> {DerListenerAccount, DerSenderAccount}

\* The mnemonic can be stored only once: the script that comes second raises here, and
\* so does one that is run again after it was stopped before it made its account.
StoreMnemonic ==
    /\ wallet = "empty"
    /\ wallet' = "mnemonic"
    /\ UNCHANGED <<kind, sender, sender_log, feed, foreign, listening>>

CreateAccount(name) ==
    /\ wallet = "mnemonic"
    /\ wallet' = name
    /\ UNCHANGED <<kind, sender, sender_log, feed, foreign, listening>>

---------------------------------------------------------------------------
\* 3_sender_*.py in its loop.

SenderAt(where) == sender.at = where
Sends(where) == sender' = [sender EXCEPT !.at = where]
NextIteration == sender' = [i |-> sender.i + 1, at |-> "loop"]

StartSender ==
    /\ SenderAt("loop") /\ sender.i <= Iterations
    /\ Sends("sync")
    /\ sender_log' = IF Senders[kind].indexed
                     THEN Write(Write(sender_log, Part("index", sender.i)), Part("init", sender.i))
                     ELSE sender_log
    /\ UNCHANGED <<kind, wallet, feed, foreign, listening>>

\* get_account raises without an account of that name, and sync when the node does not answer.
SyncAccount ==
    /\ SenderAt("sync") /\ wallet = Senders[kind].account
    /\ Sends("read")
    /\ sender_log' = IF Senders[kind].indexed THEN Write(sender_log, Part("sync", sender.i)) ELSE sender_log
    /\ UNCHANGED <<kind, wallet, feed, foreign, listening>>

ReadCertificate ==
    /\ SenderAt("read")
    /\ Sends("send")
    /\ sender_log' = IF Senders[kind].indexed THEN Write(sender_log, Part("before", sender.i)) ELSE sender_log
    /\ UNCHANGED <<kind, wallet, feed, foreign, listening>>

\* A message reaches those who are subscribed when it is attached.
Deliver(m) == feed' = IF listener.at = "subscribed" THEN Append(feed, m) ELSE feed

Attach ==
    /\ SenderAt("send")
    /\ Sends("attached")
    /\ Deliver([by |-> "sender", of |-> sender.i, wellformed |-> TRUE])
    /\ UNCHANGED <<kind, wallet, sender_log, foreign, listening>>

SendReturns ==
    /\ SenderAt("attached")
    /\ NextIteration
    /\ sender_log' = IF Senders[kind].indexed THEN WriteLine(sender_log, Part("after", sender.i))
                     ELSE WriteLine(sender_log, Part("duration", sender.i))
    /\ UNCHANGED <<kind, wallet, feed, foreign, listening>>

\* An exception ends the script: before the transaction is attached, or after.
SenderRaises ==
    /\ sender.at \in {"sync", "read", "send", "attached"}
    /\ NextIteration
    /\ UNCHANGED <<kind, wallet, sender_log, feed, foreign, listening>>

OthersSend(m) ==
    /\ m \in foreign
    /\ foreign' = foreign \ {m}
    /\ Deliver(m)
    /\ UNCHANGED <<kind, sending, listening>>

---------------------------------------------------------------------------
\* 2_listener_*.py in its loop. The SDK calls back on a thread of its own, one
\* message after the other.

StartListener ==
    /\ listener.at = "loop" /\ listener.i <= Iterations
    /\ listener' = [listener EXCEPT !.at = "started"]
    /\ listener_log' = IF Listeners[kind].indexed THEN Write(listener_log, Part("index", listener.i))
                       ELSE listener_log
    /\ UNCHANGED <<kind, sending, feed, foreign, taken>>

ListenMqtt ==
    /\ listener.at = "started"
    /\ listener' = [listener EXCEPT !.at = "subscribed"]
    /\ UNCHANGED <<kind, sending, feed, foreign, taken, listener_log>>

\* Without a node to connect to the client raises.
ListenerRaises ==
    /\ listener.at = "started"
    /\ listener' = [listener EXCEPT !.i = @ + 1, !.at = "loop"]
    /\ UNCHANGED <<kind, sending, feed, foreign, taken, listener_log>>

Nobody == [at |-> "none"]

Callback ==
    /\ listener.at = "subscribed" /\ taken.at = "none" /\ feed # <<>>
    /\ taken' = [at |-> "received", m |-> Head(feed)]
    /\ feed' = Tail(feed)
    /\ listener_log' = IF Listeners[kind].indexed THEN Write(listener_log, MessagePart("received", Head(feed)))
                       ELSE listener_log
    /\ UNCHANGED <<kind, sending, foreign, listener>>

\* The text of the event is cut apart; what does not look as expected raises, and
\* the SDK may or may not call back again.
CallbackRaises ==
    /\ taken.at = "received" /\ ~taken.m.wellformed
    /\ taken' \in {Nobody, [at |-> "deaf"]}
    /\ UNCHANGED <<kind, sending, feed, foreign, listener, listener_log>>

FromAdmin(m) == m.by = "sender"

\* Mutant of Decode: the event is set whoever sent the message.
DecodeAnyway ==
    /\ taken.at = "received" /\ taken.m.wellformed
    /\ listener_log' = IF Listeners[kind].indexed THEN WriteLine(listener_log, MessagePart("decoded", taken.m))
                       ELSE listener_log
    /\ taken' = [taken EXCEPT !.at = "decoded"]
    /\ UNCHANGED <<kind, sending, feed, foreign, listener>>

Decode ==
    /\ taken.at = "received" /\ taken.m.wellformed
    /\ listener_log' = IF Listeners[kind].indexed THEN WriteLine(listener_log, MessagePart("decoded", taken.m))
                       ELSE listener_log
    /\ taken' = IF Listeners[kind].admin_only => FromAdmin(taken.m)
                THEN [taken EXCEPT !.at = "decoded"] ELSE Nobody
    /\ UNCHANGED <<kind, sending, feed, foreign, listener>>

SetEvent ==
    /\ taken.at = "decoded"
    /\ listener' = [listener EXCEPT !.event = @ \union {taken.m}]
    /\ taken' = Nobody
    /\ UNCHANGED <<kind, sending, feed, foreign, listener_log>>

\* The main thread has waited for the event: it unsubscribes and exits, whatever
\* the callback is doing by then.
ExitListener ==
    /\ listener.at = "subscribed" /\ listener.event # {}
    /\ listener' = [i |-> listener.i + 1, at |-> "loop", event |-> {}]
    /\ feed' = <<>> /\ taken' = Nobody
    /\ UNCHANGED <<kind, sending, foreign, listener_log>>

---------------------------------------------------------------------------
ExchangeInit(kinds, wallets) ==
    /\ kind \in kinds
    /\ wallet \in wallets
    /\ sender = [i |-> 1, at |-> "loop"] /\ sender_log = EmptyLog
    /\ feed = <<>> /\ foreign = Foreign
    /\ listener = [i |-> 1, at |-> "loop", event |-> {}]
    /\ taken = Nobody /\ listener_log = EmptyLog

ExchangeNext ==
    \/ StoreMnemonic \/ \E name \in AccountScripts(kind) : CreateAccount(name)
    \/ StartSender \/ SyncAccount \/ ReadCertificate \/ Attach \/ SendReturns \/ SenderRaises
    \/ \E m \in foreign : OthersSend(m)
    \/ StartListener \/ ListenMqtt \/ ListenerRaises \/ Callback \/ CallbackRaises \/ Decode \/ SetEvent \/ ExitListener

---------------------------------------------------------------------------
\* The rows the evaluation uses: of the right number of parts, the first an
\* index. A part is followed by a separator or ends the row.

\* Mutant of ListenerRow: at least three parts.
ListenerRowLoose(row) == Len(row) >= 3 /\ row[1].what = "index"

ListenerRow(row) == Len(row) = 3 /\ row[1].what = "index"
SenderRow(row) == Len(row) = 5 /\ row[1].what = "index"

\* Scripts are killed and raise in the middle of a row, and the next one goes on in
\* it: still, every row the evaluation accepts holds the times of one iteration,
\* or of one message. No message has two rows, and the rows of the sender's messages
\* are in the order they were sent in. (The iterations of the two loops drift apart
\* once a message is missed or a listener does not start.) Where the admin's key is
\* asked for, only the admin's certificates end a listener.
RowsAreGenuine ==
    /\ \A row \in sender_log.rows :
          SenderRow(row) =>
              row = << Part("index", row[1].of), Part("init", row[1].of), Part("sync", row[1].of),
                       Part("before", row[1].of), Part("after", row[1].of) >>
    /\ \A row \in listener_log.rows :
          ListenerRow(row) =>
              /\ row[2] = MessagePart("received", row[3]) /\ row[3].what = "decoded"
              /\ \A other \in listener_log.rows :
                    ListenerRow(other) /\ other[1].of > row[1].of
                    /\ other[3].by = "sender" /\ row[3].by = "sender" =>
                        other[3].of > row[3].of
    /\ Listeners[kind].admin_only => \A m \in listener.event : FromAdmin(m)
=============================================================================
