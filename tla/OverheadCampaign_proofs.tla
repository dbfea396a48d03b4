---------------------- MODULE OverheadCampaign_proofs ----------------------
(***************************************************************************)
(* The pairing of analyze_paths is right for captures of any length, with  *)
(* any duplicates and losses, whatever campaign they come from.            *)
(*                                                                         *)
(* FifoInv, the inductive invariant, says what the queues hold between two *)
(* steps: positions that are done, in order, each in the queue of its own  *)
(* key, and all of them behind what has been paired of that key.           *)
(*                                                                         *)
(* TypeInv, the inductive invariant of TypeOK, says what captures, places, *)
(* records and events are, down to the fields that discovery and pairing   *)
(* read. That the analyzers keep it rests on the lemmas about At, SortedBy *)
(* and FlattenSeq: counting the positions of a finite set numbers them.    *)
(*                                                                         *)
(* That the counters add up needs CoverInv (nothing gets lost between the  *)
(* events, the pairs, the queues and the unmatched) and StoredInv (what is *)
(* stored are counters); the differences of the summary are then sums of   *)
(* fractions, taken by induction over the set of runs.                     *)
(*                                                                         *)
(* That a pass is earned needs GradeInv: what is stored is what the last   *)
(* record of the key says, and with nothing left over and no negative      *)
(* delay every packet that entered has one of its own that left later.     *)
(*                                                                         *)
(* That drops are real needs MeasuredInv: the captures hold what was seen, *)
(* and of frames never seen on their way out alone no more had left than   *)
(* come, at any time. Reading, sorting and pairing keep the counts of a    *)
(* key; so what stays in its queue is what came and did not leave.         *)
(*                                                                         *)
(* At the end, the quantiles of the latencies are of the nearest rank.     *)
(***************************************************************************)
EXTENDS OverheadCampaign, SequenceTheorems, FiniteSetTheorems, FunctionTheorems, TLAPS

\* A queue of key k: positions among the first n that are of that key, in order.
InOrder(events, s, k, n) ==
    /\ s \in Seq(Nat)
    /\ \A m \in 1 .. Len(s) : s[m] <= n /\ events[s[m]].key = k
    /\ \A l, m \in 1 .. Len(s) : l < m => s[l] < s[m]

\* The pairs <<a[n], b[n]>> are of equal keys, and in order.
Ordered(ingress, egress, p, m, n) ==
    /\ \A x \in 1 .. Len(p) : /\ p[x][1] \in Nat /\ p[x][1] <= m /\ p[x][2] \in Nat /\ p[x][2] <= n
                              /\ ingress[p[x][1]].key = egress[p[x][2]].key
    /\ \A x, y \in 1 .. Len(p) :
          x < y => /\ p[x][2] < p[y][2]
                   /\ ingress[p[x][1]].key = ingress[p[y][1]].key => p[x][1] < p[y][1]

\* What is paired of key k is ahead of all of its queue s.
Ahead(events, p, k, s) ==
    \A n \in 1 .. Len(p) : events[p[n][1]].key = k => \A m \in 1 .. Len(s) : p[n][1] < s[m]

FifoInv ==
    /\ i \in Nat /\ j \in Nat
    /\ pairs \in Seq(Nat \X Nat)
    /\ \A k \in DOMAIN ingress_q : InOrder(ingress_events, ingress_q[k], k, i)
    /\ Ordered(ingress_events, egress_events, pairs, i, j)
    /\ \A k \in DOMAIN ingress_q : Ahead(ingress_events, pairs, k, ingress_q[k])

---------------------------------------------------------------------------
\* Facts about sequences: one at whose end something is put, and one whose first is taken.
LEMMA AppendFacts ==
    ASSUME NEW S, NEW s \in Seq(S), NEW x \in S, NEW t, t = Append(s, x)
    PROVE  /\ t \in Seq(S) /\ Len(t) = Len(s) + 1 /\ Len(s) \in Nat
           /\ t[Len(s) + 1] = x
           /\ \A m \in 1 .. Len(s) : t[m] = s[m] /\ s[m] \in S
           /\ \A m \in 1 .. Len(t) : m \in 1 .. Len(s) \/ m = Len(s) + 1
  OBVIOUS

\* A sequence whose first element is taken.
LEMMA TailFacts ==
    ASSUME NEW s \in Seq(Nat), s # <<>>, NEW t, t = Tail(s)
    PROVE  /\ t \in Seq(Nat) /\ Len(t) = Len(s) - 1 /\ Len(s) \in Nat
           /\ \A m \in 1 .. Len(t) : t[m] = s[m + 1] /\ m + 1 \in 2 .. Len(s) /\ t[m] \in Nat
           /\ Head(s) = s[1] /\ 1 \in 1 .. Len(s) /\ s[1] \in Nat
  OBVIOUS

\* Order of naturals.
LEMMA LessIsTransitive ==
    ASSUME NEW a \in Nat, NEW b \in Nat, NEW c \in Nat, a < b, b < c PROVE a < c
  OBVIOUS

\* An empty queue is in order, and all is ahead of it.
LEMMA EmptyQueue ==
    ASSUME NEW events, NEW p, NEW k, NEW n, NEW s, s = <<>>
    PROVE  InOrder(events, s, k, n) /\ Ahead(events, p, k, s)
  <1>1. s \in Seq(Nat) /\ Len(s) = 0
    OBVIOUS
  <1>. QED  BY <1>1 DEF InOrder, Ahead

\* Without pairs there is nothing out of order.
LEMMA NoPairs ==
    ASSUME NEW ingress, NEW egress, NEW m, NEW n, NEW p, p = <<>>
    PROVE  p \in Seq(Nat \X Nat) /\ Ordered(ingress, egress, p, m, n)
  <1>1. p \in Seq(Nat \X Nat) /\ Len(p) = 0
    OBVIOUS
  <1>. QED  BY <1>1 DEF Ordered

\* The next position keeps its queue in order, and the others too.
LEMMA Enqueued ==
    ASSUME NEW events, NEW p, NEW k, NEW n \in Nat, NEW s, InOrder(events, s, k, n),
           Ahead(events, p, k, s), \A x \in 1 .. Len(p) : p[x][1] \in Nat /\ p[x][1] <= n,
           events[n + 1].key = k, NEW t, t = Append(s, n + 1)
    PROVE  InOrder(events, t, k, n + 1) /\ Ahead(events, p, k, t)
  <1>1. /\ t \in Seq(Nat) /\ Len(t) = Len(s) + 1 /\ Len(s) \in Nat
        /\ t[Len(s) + 1] = n + 1
        /\ \A m \in 1 .. Len(s) : t[m] = s[m] /\ s[m] \in Nat
        /\ \A m \in 1 .. Len(t) : m \in 1 .. Len(s) \/ m = Len(s) + 1
    <2>1. s \in Seq(Nat) /\ n + 1 \in Nat
      BY DEF InOrder
    <2>. QED  BY <2>1, AppendFacts
  <1>2. \A m \in 1 .. Len(t) : t[m] <= n + 1 /\ events[t[m]].key = k
    BY <1>1 DEF InOrder
  <1>3. \A l, m \in 1 .. Len(t) : l < m => t[l] < t[m]
    BY <1>1 DEF InOrder
  <1>4. Ahead(events, p, k, t)
    BY <1>1 DEF Ahead
  <1>. QED  BY <1>1, <1>2, <1>3, <1>4 DEF InOrder

\* A queue of another key stays in order when the count goes up.
LEMMA NotEnqueued ==
    ASSUME NEW events, NEW k, NEW n \in Nat, NEW s, InOrder(events, s, k, n)
    PROVE  InOrder(events, s, k, n + 1)
  <1>1. s \in Seq(Nat) /\ \A m \in 1 .. Len(s) : s[m] \in Nat
    BY DEF InOrder
  <1>. QED  BY <1>1 DEF InOrder

\* Whoever is taken from a queue is ahead of the rest of it and behind what was taken before.
LEMMA Dequeued ==
    ASSUME NEW ingress, NEW egress, NEW k, NEW m \in Nat, NEW n \in Nat,
           NEW s, s # <<>>, InOrder(ingress, s, k, m),
           NEW p \in Seq(Nat \X Nat), Ordered(ingress, egress, p, m, n), Ahead(ingress, p, k, s),
           egress[n + 1].key = k, NEW r, r = Append(p, <<Head(s), n + 1>>), NEW t, t = Tail(s)
    PROVE  /\ r \in Seq(Nat \X Nat) /\ Ordered(ingress, egress, r, m, n + 1)
           /\ InOrder(ingress, t, k, m) /\ Ahead(ingress, r, k, t)
  <1>1. /\ t \in Seq(Nat) /\ Len(t) = Len(s) - 1 /\ Len(s) \in Nat
        /\ \A x \in 1 .. Len(t) : t[x] = s[x + 1] /\ x + 1 \in 2 .. Len(s) /\ t[x] \in Nat
        /\ Head(s) = s[1] /\ 1 \in 1 .. Len(s) /\ s[1] \in Nat
    <2>1. s \in Seq(Nat)
      BY DEF InOrder
    <2>. QED  BY <2>1, TailFacts
  <1>2. s[1] <= m /\ ingress[s[1]].key = k
    BY <1>1 DEF InOrder
  <1>3. DEFINE last == <<s[1], n + 1>>
  <1>4. last \in Nat \X Nat /\ last[1] = s[1] /\ last[2] = n + 1
    BY <1>1
  <1>. HIDE DEF last
  <1>5. /\ r \in Seq(Nat \X Nat) /\ Len(r) = Len(p) + 1 /\ Len(p) \in Nat
        /\ r[Len(p) + 1] = last
        /\ \A x \in 1 .. Len(p) : r[x] = p[x]
        /\ \A x \in 1 .. Len(r) : x \in 1 .. Len(p) \/ x = Len(p) + 1
    <2>1. r = Append(p, last)
      BY <1>1 DEF last
    <2>. QED  BY <1>4, <2>1, AppendFacts
  <1>6. \A x \in 1 .. Len(p) : /\ r[x] = p[x] /\ p[x][1] \in Nat /\ p[x][1] <= m
                               /\ p[x][2] \in Nat /\ p[x][2] <= n
                               /\ ingress[p[x][1]].key = egress[p[x][2]].key
                               /\ ingress[p[x][1]].key = k => p[x][1] < s[1]
    BY <1>1, <1>5 DEF Ordered, Ahead
  <1>7. Ordered(ingress, egress, r, m, n + 1)
    <2>1. ASSUME NEW x \in 1 .. Len(r)
          PROVE  /\ r[x][1] \in Nat /\ r[x][1] <= m /\ r[x][2] \in Nat /\ r[x][2] <= n + 1
                 /\ ingress[r[x][1]].key = egress[r[x][2]].key
      <3>1. CASE x \in 1 .. Len(p)
        BY <1>6, <3>1
      <3>2. CASE x = Len(p) + 1
        BY <1>1, <1>2, <1>4, <1>5, <3>2
      <3>. QED  BY <1>5, <3>1, <3>2
    <2>2. ASSUME NEW x \in 1 .. Len(r), NEW y \in 1 .. Len(r), x < y
          PROVE  /\ r[x][2] < r[y][2]
                 /\ ingress[r[x][1]].key = ingress[r[y][1]].key => r[x][1] < r[y][1]
      <3>1. x \in 1 .. Len(p)
        BY <1>5, <2>2
      <3>2. CASE y \in 1 .. Len(p)
        BY <1>6, <2>2, <3>1, <3>2 DEF Ordered
      <3>3. CASE y = Len(p) + 1
        BY <1>2, <1>4, <1>5, <1>6, <3>1, <3>3
      <3>. QED  BY <1>5, <3>2, <3>3
    <2>. QED  BY <2>1, <2>2 DEF Ordered
  <1>8. InOrder(ingress, t, k, m)
    <2>1. \A x \in 1 .. Len(t) : t[x] <= m /\ ingress[t[x]].key = k
      BY <1>1 DEF InOrder
    <2>2. \A x, y \in 1 .. Len(t) : x < y => t[x] < t[y]
      BY <1>1 DEF InOrder
    <2>. QED  BY <1>1, <2>1, <2>2 DEF InOrder
  <1>9. Ahead(ingress, r, k, t)
    <2>. SUFFICES ASSUME NEW x \in 1 .. Len(r), ingress[r[x][1]].key = k, NEW y \in 1 .. Len(t)
                  PROVE  r[x][1] < t[y]
      BY DEF Ahead
    <2>1. t[y] \in Nat /\ s[1] \in Nat /\ s[1] < t[y]
      BY <1>1 DEF InOrder
    <2>2. CASE x \in 1 .. Len(p)
      <3>1. r[x] = p[x] /\ p[x][1] \in Nat /\ (ingress[p[x][1]].key = k => p[x][1] < s[1])
        BY <1>6, <2>2
      <3>2. r[x][1] < s[1] /\ r[x][1] \in Nat
        BY <3>1
      <3>. QED  BY <2>1, <3>2, LessIsTransitive
    <2>3. CASE x = Len(p) + 1
      BY <1>4, <1>5, <2>1, <2>3
    <2>. QED  BY <1>5, <2>2, <2>3
  <1>. QED  BY <1>5, <1>7, <1>8, <1>9

\* Pairs of another key are ahead of a queue as they were.
LEMMA NotDequeued ==
    ASSUME NEW events, NEW k, NEW s, NEW p \in Seq(Nat \X Nat), Ahead(events, p, k, s),
           NEW x \in Nat, NEW y \in Nat, events[x].key # k, NEW r, r = Append(p, <<x, y>>)
    PROVE  Ahead(events, r, k, s)
  <1>. DEFINE last == <<x, y>>
  <1>1. last \in Nat \X Nat /\ last[1] = x
    OBVIOUS
  <1>2. r = Append(p, last)
    OBVIOUS
  <1>. HIDE DEF last
  <1>3. /\ r[Len(p) + 1] = last
        /\ \A n \in 1 .. Len(p) : r[n] = p[n]
        /\ \A n \in 1 .. Len(r) : n \in 1 .. Len(p) \/ n = Len(p) + 1
    BY <1>1, <1>2, AppendFacts
  <1>. QED  BY <1>1, <1>3 DEF Ahead

---------------------------------------------------------------------------
\* A packet that enters.
LEMMA EnqueueKeepsFifo == FifoInv /\ EnqueueIngress => FifoInv'
  <1>. SUFFICES ASSUME FifoInv, EnqueueIngress PROVE FifoInv'
    OBVIOUS
  <1>. DEFINE k0 == ingress_events[i + 1].key
  <1>1. /\ i' = i + 1 /\ j' = j /\ pairs' = pairs
        /\ ingress_events' = ingress_events /\ egress_events' = egress_events
        /\ DOMAIN ingress_q' = DOMAIN ingress_q
    BY DEF EnqueueIngress
  <1>2. k0 \in DOMAIN ingress_q => ingress_q'[k0] = Append(ingress_q[k0], i + 1)
    BY DEF EnqueueIngress
  <1>3. \A k \in DOMAIN ingress_q : k # k0 => ingress_q'[k] = ingress_q[k]
    BY DEF EnqueueIngress
  <1>4. i \in Nat /\ j \in Nat
    BY DEF FifoInv
  <1>5. \A n \in 1 .. Len(pairs) : pairs[n][1] \in Nat /\ pairs[n][1] <= i
    BY DEF FifoInv, Ordered
  <1>. HIDE DEF k0
  <1>6. ASSUME NEW k \in DOMAIN ingress_q
        PROVE  /\ InOrder(ingress_events, ingress_q'[k], k, i + 1)
               /\ Ahead(ingress_events, pairs, k, ingress_q'[k])
    <2>1. InOrder(ingress_events, ingress_q[k], k, i) /\ Ahead(ingress_events, pairs, k, ingress_q[k])
      BY DEF FifoInv
    <2>2. CASE k = k0
      <3>1. ingress_events[i + 1].key = k
        BY <2>2 DEF k0
      <3>2. ingress_q'[k] = Append(ingress_q[k], i + 1)
        BY <1>2, <2>2
      <3>. QED  BY <1>4, <1>5, <2>1, <3>1, <3>2, Enqueued
    <2>3. CASE k # k0
      <3>1. ingress_q'[k] = ingress_q[k]
        BY <1>3, <2>3
      <3>. QED  BY <1>4, <2>1, <3>1, NotEnqueued
    <2>. QED  BY <2>2, <2>3
  <1>7. Ordered(ingress_events, egress_events, pairs, i + 1, j)
    <2>1. Ordered(ingress_events, egress_events, pairs, i, j)
      BY DEF FifoInv
    <2>. QED  BY <1>4, <2>1 DEF Ordered
  <1>8. pairs \in Seq(Nat \X Nat)
    BY DEF FifoInv
  <1>9. i + 1 \in Nat
    BY <1>4
  <1>. QED  BY <1>1, <1>4, <1>6, <1>7, <1>8, <1>9 DEF FifoInv

\* A packet that leaves and finds its copy.
LEMMA PairKeepsFifo == FifoInv /\ PairEgress => FifoInv'
  <1>. SUFFICES ASSUME FifoInv, PairEgress PROVE FifoInv'
    OBVIOUS
  <1>. DEFINE k0 == egress_events[j + 1].key
  <1>1. /\ i' = i /\ j' = j + 1 /\ pairs' = Append(pairs, <<Head(ingress_q[k0]), j + 1>>)
        /\ ingress_events' = ingress_events /\ egress_events' = egress_events
        /\ DOMAIN ingress_q' = DOMAIN ingress_q
        /\ k0 \in DOMAIN ingress_q /\ ingress_q[k0] # <<>>
    BY DEF PairEgress, Waiting
  <1>2. ingress_q'[k0] = Tail(ingress_q[k0])
    BY <1>1 DEF PairEgress
  <1>3. \A k \in DOMAIN ingress_q : k # k0 => ingress_q'[k] = ingress_q[k]
    BY DEF PairEgress
  <1>4. i \in Nat /\ j \in Nat /\ j + 1 \in Nat
    BY DEF FifoInv
  <1>5. pairs \in Seq(Nat \X Nat) /\ Ordered(ingress_events, egress_events, pairs, i, j)
    BY DEF FifoInv
  <1>6. \A k \in DOMAIN ingress_q :
          InOrder(ingress_events, ingress_q[k], k, i) /\ Ahead(ingress_events, pairs, k, ingress_q[k])
    BY DEF FifoInv
  <1>7. egress_events[j + 1].key = k0
    OBVIOUS
  <1>. HIDE DEF k0
  <1>8. /\ pairs' \in Seq(Nat \X Nat) /\ Ordered(ingress_events, egress_events, pairs', i, j + 1)
        /\ InOrder(ingress_events, ingress_q'[k0], k0, i)
        /\ Ahead(ingress_events, pairs', k0, ingress_q'[k0])
    BY <1>1, <1>2, <1>4, <1>5, <1>6, <1>7, Dequeued
  <1>9. Head(ingress_q[k0]) \in Nat /\ ingress_events[Head(ingress_q[k0])].key = k0
    <2>1. ingress_q[k0] \in Seq(Nat)
      BY <1>1, <1>6 DEF InOrder
    <2>2. Head(ingress_q[k0]) = ingress_q[k0][1] /\ 1 \in 1 .. Len(ingress_q[k0]) /\ ingress_q[k0][1] \in Nat
      BY <1>1, <2>1, TailFacts
    <2>. QED  BY <1>1, <1>6, <2>2 DEF InOrder
  <1>10. ASSUME NEW k \in DOMAIN ingress_q
         PROVE  /\ InOrder(ingress_events, ingress_q'[k], k, i)
                /\ Ahead(ingress_events, pairs', k, ingress_q'[k])
    <2>1. CASE k = k0
      BY <1>8, <2>1
    <2>2. CASE k # k0
      <3>1. ingress_q'[k] = ingress_q[k]
        BY <1>3, <2>2
      <3>2. Ahead(ingress_events, pairs', k, ingress_q[k])
        BY <1>1, <1>4, <1>5, <1>6, <1>9, <2>2, NotDequeued
      <3>. QED  BY <1>6, <3>1, <3>2
    <2>. QED  BY <2>1, <2>2
  <1>. QED  BY <1>1, <1>4, <1>8, <1>10 DEF FifoInv

\* A packet that leaves and finds no other disturbs nothing.
LEMMA LoneKeepsFifo == FifoInv /\ LoneEgress => FifoInv'
  <1>. SUFFICES ASSUME FifoInv, LoneEgress PROVE FifoInv'
    OBVIOUS
  <1>1. j' = j + 1 /\ UNCHANGED <<ingress_events, egress_events, ingress_q, i, pairs>>
    BY DEF LoneEgress
  <1>2. j \in Nat /\ j + 1 \in Nat
    BY DEF FifoInv
  <1>3. Ordered(ingress_events, egress_events, pairs, i, j + 1)
    <2>1. Ordered(ingress_events, egress_events, pairs, i, j)
      BY DEF FifoInv
    <2>. QED  BY <1>2, <2>1 DEF Ordered
  <1>. QED  BY <1>1, <1>2, <1>3 DEF FifoInv

\* What is not a step of the pairing leaves it alone.
LEMMA UnchangedKeepsFifo == FifoInv /\ UNCHANGED pairing => FifoInv'
  BY DEF FifoInv, pairing

\* A new pairing starts with empty queues.
LEMMA FreshIsFifo ==
    ASSUME NEW ingress, NEW egress, AnalyzePaths(ingress, egress)
    PROVE  FifoInv'
  <1>1. i' = 0 /\ j' = 0 /\ pairs' = <<>> /\ \A k \in DOMAIN ingress_q' : ingress_q'[k] = <<>>
    BY DEF AnalyzePaths
  <1>2. pairs' \in Seq(Nat \X Nat) /\ Ordered(ingress_events', egress_events', pairs', i', j')
    BY <1>1, NoPairs
  <1>3. ASSUME NEW k \in DOMAIN ingress_q'
        PROVE  InOrder(ingress_events', ingress_q'[k], k, i') /\ Ahead(ingress_events', pairs', k, ingress_q'[k])
    BY <1>1, EmptyQueue
  <1>. QED  BY <1>1, <1>2, <1>3 DEF FifoInv

\* FifoInv is inductive: every step of a campaign keeps it.
LEMMA FifoStep == FifoInv /\ [Next]_vars => FifoInv'
  <1>. SUFFICES ASSUME FifoInv, [Next]_vars PROVE FifoInv'
    OBVIOUS
  <1>1. CASE Measure \/ StartReport \/ Exited \/ UNCHANGED vars
    <2>. UNCHANGED pairing
      BY <1>1 DEF Measure, StartReport, DiscoverRecords, Exited, vars
    <2>. QED  BY UnchangedKeepsFifo
  <1>2. CASE StoreResult \/ WriteReport
    <2>. UNCHANGED pairing
      BY <1>2 DEF StoreResult, WriteReport
    <2>. QED  BY UnchangedKeepsFifo
  <1>3. CASE LoadRecord
    <2>1. PICK ingress, egress : AnalyzePaths(ingress, egress)
      BY <1>3 DEF LoadRecord
    <2>. QED  BY <2>1, FreshIsFifo
  <1>4. CASE PairRecord
    BY <1>4, EnqueueKeepsFifo, PairKeepsFifo, LoneKeepsFifo DEF PairRecord, PairingStep
  <1>. QED  BY <1>1, <1>2, <1>3, <1>4 DEF Next, Report, ReportStep

\* Before the first record nothing is paired.
LEMMA FifoInit == Init => FifoInv
  <1>. SUFFICES ASSUME PairingInit PROVE FifoInv
    BY DEF Init
  <1>1. i = 0 /\ j = 0 /\ pairs = <<>> /\ DOMAIN ingress_q = {}
    BY DEF PairingInit
  <1>. QED  BY <1>1, NoPairs DEF FifoInv

\* No packet is in two pairs, pairs are of copies of one frame, and copies are
\* paired in the order they came and left in, for captures of every length.
THEOREM PairingAlwaysFifo == Spec => []PairingIsFifo
  <1>1. FifoInv => PairingIsFifo
    <2>. SUFFICES ASSUME FifoInv PROVE PairingIsFifo
      OBVIOUS
    <2>1. DOMAIN pairs = 1 .. Len(pairs) /\ Len(pairs) \in Nat
      BY DEF FifoInv
    <2>2. Ordered(ingress_events, egress_events, pairs, i, j)
      BY DEF FifoInv
    <2>. QED  BY <2>1, <2>2 DEF PairingIsFifo, Ordered
  <1>. QED  BY <1>1, FifoInit, FifoStep, PTL DEF Spec

\* Every set of naturals that is not empty has a least element.
LEMMA LeastNatural ==
  ASSUME NEW X \in SUBSET Nat, X # {}
  PROVE  \E n \in X : \A m \in X : n <= m
  <1>. DEFINE Below == {0 .. n - 1 : n \in X}
  <1>1. Below \subseteq FiniteSubsetsOf(Nat)
    <2>1. ASSUME NEW n \in X PROVE 0 .. n - 1 \in FiniteSubsetsOf(Nat)
      <3>1. IsFiniteSet(0 .. n - 1)
        BY FS_Interval
      <3>2. 0 .. n - 1 \in SUBSET Nat
        OBVIOUS
      <3>. QED  BY <3>1, <3>2 DEF FiniteSubsetsOf
    <2>. QED  BY <2>1
  <1>2. PICK B \in Below : \A C \in Below : ~(<<C, B>> \in StrictSubsetOrdering(Nat))
    <2>1. Below # {}
      OBVIOUS
    <2>2. IsWellFoundedOn(StrictSubsetOrdering(Nat), FiniteSubsetsOf(Nat))
      BY FS_StrictSubsetOrderingWellFounded
    <2>. HIDE DEF Below
    <2>. QED  BY <1>1, <2>1, <2>2, WFMin
  <1>3. PICK n \in X : B = 0 .. n - 1
    OBVIOUS
  <1>4. ASSUME NEW m \in X, m < n PROVE FALSE
    <2>1. 0 .. m - 1 \in Below /\ 0 .. m - 1 \subseteq B /\ B \subseteq Nat
      BY <1>3, <1>4
    <2>2. m \in B /\ m \notin 0 .. m - 1
      BY <1>3, <1>4
    <2>. QED  BY <1>2, <2>1, <2>2 DEF StrictSubsetOrdering
  <1>. QED  BY <1>4

\* Induction: what holds of 0 and of n + 1 with n holds of all, as sets.
LEMMA InductionOnNat ==
  ASSUME NEW S, 0 \in S, \A n \in Nat : n \in S => n + 1 \in S
  PROVE  \A n \in Nat : n \in S
  <1>. DEFINE X == Nat \ S
  <1>. SUFFICES ASSUME X # {} PROVE FALSE
    OBVIOUS
  <1>1. PICK n \in X : \A m \in X : n <= m
    BY LeastNatural
  <1>2. n # 0 /\ n - 1 \in Nat
    OBVIOUS
  <1>3. n - 1 \in S
    BY <1>1, <1>2
  <1>4. (n - 1) + 1 \in S
    BY <1>2, <1>3
  <1>. QED  BY <1>2, <1>4

\* Where every two members of a finite set are ordered, how many are up to one
\* numbers them from 1 on.
LEMMA RanksNumber ==
  ASSUME NEW S, IsFiniteSet(S), NEW up \in [S -> SUBSET S],
         \A p \in S : p \in up[p],
         \A p, q \in S : p # q => \/ up[p] \subseteq up[q] /\ q \notin up[p]
                                  \/ up[q] \subseteq up[p] /\ p \notin up[q]
  PROVE  /\ [p \in S |-> Cardinality(up[p])] \in Bijection(S, 1 .. Cardinality(S))
         /\ \A p, q \in S : up[p] \subseteq up[q] /\ q \notin up[p]
                             => Cardinality(up[p]) < Cardinality(up[q])
         /\ Cardinality(S) \in Nat
  <1>. DEFINE rank == [p \in S |-> Cardinality(up[p])]
              T == 1 .. Cardinality(S)
  <1>1. Cardinality(S) \in Nat
    BY FS_CardinalityType
  <1>2. ASSUME NEW p \in S
        PROVE  IsFiniteSet(up[p]) /\ Cardinality(up[p]) \in Nat /\ Cardinality(up[p]) \in T
    <2>1. up[p] \in SUBSET S
      OBVIOUS
    <2>2. IsFiniteSet(up[p]) /\ Cardinality(up[p]) <= Cardinality(S)
      BY <2>1, FS_Subset
    <2>3. Cardinality(up[p]) \in Nat /\ (Cardinality(up[p]) = 0 <=> up[p] = {})
      BY <2>2, FS_CardinalityType, FS_EmptySet
    <2>. QED  BY <1>1, <2>2, <2>3
  <1>3. ASSUME NEW p \in S, NEW q \in S, up[p] \subseteq up[q] /\ q \notin up[p]
        PROVE  Cardinality(up[p]) < Cardinality(up[q])
    <2>1. Cardinality(up[p]) <= Cardinality(up[q]) /\ Cardinality(up[p]) # Cardinality(up[q])
      BY <1>2, <1>3, FS_Subset
    <2>. QED  BY <1>2, <2>1
  <1>4. rank \in Injection(S, T)
    <2>1. rank \in [S -> T]
      BY <1>2
    <2>2. \A p, q \in S : rank[p] = rank[q] => p = q
      <3>. SUFFICES ASSUME NEW p \in S, NEW q \in S, p # q PROVE Cardinality(up[p]) # Cardinality(up[q])
        OBVIOUS
      <3>1. Cardinality(up[p]) < Cardinality(up[q]) \/ Cardinality(up[q]) < Cardinality(up[p])
        BY <1>3
      <3>. QED  BY <1>2, <3>1
    <2>. HIDE DEF rank, T
    <2>. QED  BY <2>1, <2>2, Fun_IsInj
  <1>5. IsFiniteSet(T) /\ Cardinality(T) = Cardinality(S)
    BY <1>1, FS_Interval
  <1>6. rank \in Surjection(S, T)
    <2>. HIDE DEF rank, T
    <2>. QED  BY <1>4, <1>5, FS_Injection
  <1>. QED  BY <1>1, <1>3, <1>4, <1>6 DEF Bijection

\* A numbering read backwards.
LEMMA NumbersRead ==
  ASSUME NEW S, NEW n \in Nat, NEW rank \in Bijection(S, 1 .. n)
  PROVE  \E g \in Bijection(1 .. n, S) :
           /\ g = [m \in 1 .. n |-> Nth(m, rank)]
           /\ \A m \in 1 .. n : rank[g[m]] = m
  <1>. DEFINE g == [m \in 1 .. n |-> Nth(m, rank)]
  <1>1. /\ rank \in [S -> 1 .. n] /\ DOMAIN rank = S
        /\ \A p, q \in S : rank[p] = rank[q] => p = q
        /\ \A m \in 1 .. n : \E p \in S : rank[p] = m
    BY DEF Bijection, Injection, IsInjective, Surjection
  <1>2. ASSUME NEW m \in 1 .. n PROVE g[m] \in S /\ rank[g[m]] = m
    BY <1>1 DEF Nth
  <1>3. ASSUME NEW p \in S PROVE g[rank[p]] = p
    BY <1>1, <1>2
  <1>4. g \in [1 .. n -> S]
    BY <1>2
  <1>5. g \in Injection(1 .. n, S) /\ g \in Surjection(1 .. n, S)
    <2>1. \A a, b \in 1 .. n : g[a] = g[b] => a = b
      BY <1>2
    <2>2. \A p \in S : \E m \in 1 .. n : g[m] = p
      BY <1>1, <1>3
    <2>. HIDE DEF g
    <2>. QED  BY <1>4, <2>1, <2>2, Fun_IsInj, Fun_IsSurj
  <1>6. g \in Bijection(1 .. n, S)
    BY <1>5 DEF Bijection
  <1>. HIDE DEF g
  <1>7. g = [m \in 1 .. n |-> Nth(m, rank)]
    BY DEF g
  <1>. QED  BY <1>2, <1>6, <1>7

---------------------------------------------------------------------------
\* The elements of a sequence at some positions are numbered in the order of the positions.
LEMMA AtNumbers ==
  ASSUME NEW s, NEW n \in Nat, NEW P \in SUBSET (1 .. n)
  PROVE  /\ Cardinality(P) \in Nat
         /\ \E g \in Bijection(1 .. Cardinality(P), P) :
              /\ At(s, P) = [m \in 1 .. Cardinality(P) |-> s[g[m]]]
              /\ \A l, m \in 1 .. Cardinality(P) : l < m => g[l] < g[m]
  <1>. DEFINE up == [p \in P |-> {q \in P : q <= p}]
              rank == [p \in P |-> Cardinality({q \in P : q <= p})]
  <1>1. IsFiniteSet(P)
    <2>1. IsFiniteSet(1 .. n)
      BY FS_Interval
    <2>. QED  BY <2>1, FS_Subset
  <1>0. \A p \in P : p \in Nat /\ up[p] = {q \in P : q <= p}
    OBVIOUS
  <1>3. \A p, q \in P : p < q => up[p] \subseteq up[q] /\ q \notin up[p]
    <2>. SUFFICES ASSUME NEW p \in P, NEW q \in P, p < q PROVE up[p] \subseteq up[q] /\ q \notin up[p]
      OBVIOUS
    <2>1. p \in Nat /\ q \in Nat /\ up[p] = {x \in P : x <= p} /\ up[q] = {x \in P : x <= q}
      BY <1>0
    <2>. HIDE DEF up
    <2>2. \A x \in P : x \in Nat
      BY <1>0
    <2>3. \A x \in P : x <= p => x <= q
      BY <2>1, <2>2
    <2>4. ~(q <= p)
      BY <2>1
    <2>. QED  BY <2>1, <2>3, <2>4
  <1>2. /\ up \in [P -> SUBSET P]
        /\ \A p \in P : p \in up[p]
        /\ \A p, q \in P : p # q => \/ up[p] \subseteq up[q] /\ q \notin up[p]
                                    \/ up[q] \subseteq up[p] /\ p \notin up[q]
    <2>1. \A p, q \in P : p < q \/ q < p \/ p = q
      BY <1>0
    <2>. QED  BY <1>0, <1>3, <2>1
  <1>4. /\ rank \in Bijection(P, 1 .. Cardinality(P))
        /\ \A p, q \in P : up[p] \subseteq up[q] /\ q \notin up[p]
                           => Cardinality(up[p]) < Cardinality(up[q])
        /\ Cardinality(P) \in Nat
    <2>1. rank = [p \in P |-> Cardinality(up[p])]
      OBVIOUS
    <2>. HIDE DEF up, rank
    <2>. QED  BY <1>1, <1>2, <2>1, RanksNumber
  <1>. DEFINE c == Cardinality(P)
  <1>5. PICK g \in Bijection(1 .. c, P) :
          /\ g = [m \in 1 .. c |-> Nth(m, rank)]
          /\ \A m \in 1 .. c : rank[g[m]] = m
    <2>. HIDE DEF rank
    <2>. QED  BY <1>4, NumbersRead
  <1>6. At(s, P) = [m \in 1 .. c |-> s[g[m]]]
    <2>1. At(s, P) = [m \in 1 .. c |-> s[Nth(m, rank)]]
      BY DEF At
    <2>. HIDE DEF rank
    <2>. QED  BY <1>5, <2>1
  <1>7. ASSUME NEW l \in 1 .. c, NEW m \in 1 .. c, l < m PROVE g[l] < g[m]
    <2>1. g[l] \in P /\ g[m] \in P
      BY <1>5 DEF Bijection, Injection
    <2>2. rank[g[l]] = l /\ rank[g[m]] = m
      <3>. HIDE DEF rank
      <3>. QED  BY <1>5
    <2>a. \A p \in P : rank[p] = Cardinality(up[p])
      OBVIOUS
    <2>3. Cardinality(up[g[l]]) = l /\ Cardinality(up[g[m]]) = m
      <3>. HIDE DEF up, rank
      <3>. QED  BY <2>1, <2>2, <2>a
    <2>4. g[m] < g[l] => Cardinality(up[g[m]]) < Cardinality(up[g[l]])
      <3>. HIDE DEF up
      <3>. QED  BY <1>3, <1>4, <2>1
    <2>5. g[m] # g[l] /\ ~(g[m] < g[l])
      <3>. HIDE DEF up
      <3>. QED  BY <1>7, <2>3, <2>4
    <2>6. PICK a \in Nat, b \in Nat : a = g[l] /\ b = g[m]
      BY <1>0, <2>1
    <2>. QED  BY <2>5, <2>6
  <1>. QED  BY <1>4, <1>5, <1>6, <1>7

\* Sorting numbers the positions by their keys.
LEMMA SortedNumbers ==
  ASSUME NEW s, NEW n \in Nat, DOMAIN s = 1 .. n, NEW key \in [1 .. n -> Int]
  PROVE  \E g \in Bijection(1 .. n, 1 .. n) :
           /\ SortedBy(s, key) = [m \in 1 .. n |-> s[g[m]]]
           /\ \A l, m \in 1 .. n : l < m => key[g[l]] <= key[g[m]]
  <1>. DEFINE P == DOMAIN s
              up == [p \in P |-> {q \in P : key[q] < key[p] \/ (key[q] = key[p] /\ q <= p)}]
              rank == [p \in P |-> Cardinality({q \in P : key[q] < key[p] \/ (key[q] = key[p] /\ q <= p)})]
  <1>1. IsFiniteSet(P) /\ Cardinality(P) = n
    BY FS_Interval
  <1>2. /\ up \in [P -> SUBSET P]
        /\ \A p \in P : p \in up[p]
        /\ \A p, q \in P : p # q => \/ up[p] \subseteq up[q] /\ q \notin up[p]
                                    \/ up[q] \subseteq up[p] /\ p \notin up[q]
    OBVIOUS
  <1>3. \A p, q \in P : key[p] < key[q] => up[p] \subseteq up[q] /\ q \notin up[p]
    OBVIOUS
  <1>4. /\ rank \in Bijection(P, 1 .. n)
        /\ \A p, q \in P : up[p] \subseteq up[q] /\ q \notin up[p]
                           => Cardinality(up[p]) < Cardinality(up[q])
    <2>1. rank = [p \in P |-> Cardinality(up[p])]
      OBVIOUS
    <2>. HIDE DEF up, P, rank
    <2>. QED  BY <1>1, <1>2, <2>1, RanksNumber
  <1>5. PICK g \in Bijection(1 .. n, P) :
          /\ g = [m \in 1 .. n |-> Nth(m, rank)]
          /\ \A m \in 1 .. n : rank[g[m]] = m
    <2>1. rank \in Bijection(P, 1 .. n)
      BY <1>4
    <2>. HIDE DEF rank, P, up
    <2>. QED  BY <2>1, NumbersRead
  <1>6. SortedBy(s, key) = [m \in 1 .. n |-> s[g[m]]]
    <2>1. SortedBy(s, key) = [m \in 1 .. n |-> s[Nth(m, rank)]]
      BY DEF SortedBy
    <2>. HIDE DEF rank
    <2>. QED  BY <1>5, <2>1
  <1>7. ASSUME NEW l \in 1 .. n, NEW m \in 1 .. n, l < m PROVE key[g[l]] <= key[g[m]]
    <2>1. g[l] \in P /\ g[m] \in P
      BY <1>5 DEF Bijection, Injection
    <2>2. rank[g[l]] = l /\ rank[g[m]] = m
      <3>. HIDE DEF rank
      <3>. QED  BY <1>5
    <2>a. \A p \in P : rank[p] = Cardinality(up[p])
      OBVIOUS
    <2>3. Cardinality(up[g[l]]) = l /\ Cardinality(up[g[m]]) = m
      <3>. HIDE DEF up, rank
      <3>. QED  BY <2>1, <2>2, <2>a
    <2>4. key[g[m]] < key[g[l]] => Cardinality(up[g[m]]) < Cardinality(up[g[l]])
      <3>. HIDE DEF up
      <3>. QED  BY <1>3, <1>4, <2>1
    <2>5. ~(key[g[m]] < key[g[l]])
      <3>. HIDE DEF up
      <3>. QED  BY <1>7, <2>3, <2>4
    <2>. QED  BY <2>1, <2>5
  <1>. QED  BY <1>5, <1>6, <1>7

---------------------------------------------------------------------------
\* A sequence is what has the positions 1 to some number.
LEMMA FunctionIsSeq ==
  ASSUME NEW V, NEW n \in Nat, NEW f \in [1 .. n -> V]
  PROVE  f \in Seq(V) /\ Len(f) = n
  OBVIOUS

\* What At takes of a sequence is one, of as many elements as positions.
LEMMA AtType ==
  ASSUME NEW V, NEW s \in Seq(V), NEW P \in SUBSET (DOMAIN s)
  PROVE  At(s, P) \in Seq(V) /\ Len(At(s, P)) = Cardinality(P) /\ Cardinality(P) \in Nat
  <1>1. PICK n \in Nat : n = Len(s) /\ DOMAIN s = 1 .. n
    OBVIOUS
  <1>2. P \in SUBSET (1 .. n)
    BY <1>1
  <1>3. PICK c \in Nat : c = Cardinality(P)
    BY <1>2, AtNumbers
  <1>4. PICK g \in Bijection(1 .. c, P) :
          /\ At(s, P) = [m \in 1 .. c |-> s[g[m]]]
          /\ \A l, m \in 1 .. c : l < m => g[l] < g[m]
    <2>1. \E g \in Bijection(1 .. Cardinality(P), P) :
              /\ At(s, P) = [m \in 1 .. Cardinality(P) |-> s[g[m]]]
              /\ \A l, m \in 1 .. Cardinality(P) : l < m => g[l] < g[m]
      BY <1>2, AtNumbers
    <2>. QED  BY <1>3, <2>1
  <1>5. \A m \in 1 .. c : g[m] \in P
    BY DEF Bijection, Injection
  <1>6. PICK f \in [1 .. c -> V] : f = At(s, P)
    BY <1>1, <1>4, <1>5
  <1>7. f \in Seq(V) /\ Len(f) = c
    OBVIOUS
  <1>. QED  BY <1>3, <1>6, <1>7

\* What is at all of those positions is what At holds.
LEMMA AtHolds ==
  ASSUME NEW U, NEW V, NEW s \in Seq(U), NEW P \in SUBSET (DOMAIN s), \A n \in P : s[n] \in V
  PROVE  At(s, P) \in Seq(V)
  <1>1. PICK n \in Nat : n = Len(s) /\ DOMAIN s = 1 .. n
    OBVIOUS
  <1>2. P \in SUBSET (1 .. n)
    BY <1>1
  <1>3. PICK c \in Nat : c = Cardinality(P)
    BY <1>2, AtNumbers
  <1>4. PICK g \in Bijection(1 .. c, P) :
          /\ At(s, P) = [m \in 1 .. c |-> s[g[m]]]
          /\ \A l, m \in 1 .. c : l < m => g[l] < g[m]
    <2>1. \E g \in Bijection(1 .. Cardinality(P), P) :
              /\ At(s, P) = [m \in 1 .. Cardinality(P) |-> s[g[m]]]
              /\ \A l, m \in 1 .. Cardinality(P) : l < m => g[l] < g[m]
      BY <1>2, AtNumbers
    <2>. QED  BY <1>3, <2>1
  <1>5. \A m \in 1 .. c : g[m] \in P
    BY DEF Bijection, Injection
  <1>6. PICK f \in [1 .. c -> V] : f = At(s, P)
    BY <1>1, <1>4, <1>5
  <1>7. f \in Seq(V)
    OBVIOUS
  <1>. QED  BY <1>6, <1>7

\* Sorting gives a sequence of the same elements and length.
LEMMA SortedType ==
  ASSUME NEW V, NEW s \in Seq(V), NEW key \in [DOMAIN s -> Int]
  PROVE  SortedBy(s, key) \in Seq(V) /\ Len(SortedBy(s, key)) = Len(s)
  <1>1. PICK n \in Nat : n = Len(s) /\ DOMAIN s = 1 .. n
    OBVIOUS
  <1>2. key \in [1 .. n -> Int]
    BY <1>1
  <1>3. PICK g \in Bijection(1 .. n, 1 .. n) :
          /\ SortedBy(s, key) = [m \in 1 .. n |-> s[g[m]]]
          /\ \A l, m \in 1 .. n : l < m => key[g[l]] <= key[g[m]]
    <2>1. PICK t : t = s
      OBVIOUS
    <2>2. DOMAIN t = 1 .. n
      BY <1>1, <2>1
    <2>3. \E g \in Bijection(1 .. n, 1 .. n) :
            /\ SortedBy(t, key) = [m \in 1 .. n |-> t[g[m]]]
            /\ \A l, m \in 1 .. n : l < m => key[g[l]] <= key[g[m]]
      BY <1>2, <2>2, SortedNumbers
    <2>. QED  BY <2>1, <2>3
  <1>4. \A m \in 1 .. n : g[m] \in 1 .. n
    BY DEF Bijection, Injection
  <1>5. PICK f \in [1 .. n -> V] : f = SortedBy(s, key)
    <2>1. \A m \in 1 .. n : s[g[m]] \in V
      BY <1>1, <1>4
    <2>. QED  BY <1>3, <2>1
  <1>6. f \in Seq(V) /\ Len(f) = n
    OBVIOUS
  <1>. QED  BY <1>1, <1>5, <1>6

\* A sequence of sequences, one behind the other. As a fold over the first of them.
IsFlat(f, ss) ==
  f = [m \in 1 .. Len(ss) |-> IF m = 1 THEN ss[1] ELSE f[m - 1] \o ss[m]]

\* The fold exists: it is built up one sequence at a time.
LEMMA FlatExists ==
  ASSUME NEW V, NEW ss \in Seq(Seq(V))
  PROVE  \E f \in [1 .. Len(ss) -> Seq(V)] : IsFlat(f, ss)
  <1>. DEFINE Is(n, f) == f = [m \in 1 .. n |-> IF m = 1 THEN ss[1] ELSE f[m - 1] \o ss[m]]
              Exists(n) == \E f \in [1 .. n -> Seq(V)] : Is(n, f)
              S == {n \in Nat : n <= Len(ss) => Exists(n)}
  <1>0. Len(ss) \in Nat /\ \A m \in 1 .. Len(ss) : ss[m] \in Seq(V)
    OBVIOUS
  <1>1. 0 \in S
    <2>1. [m \in 1 .. 0 |-> ss[m]] \in [1 .. 0 -> Seq(V)]
      OBVIOUS
    <2>2. Is(0, [m \in 1 .. 0 |-> ss[m]])
      OBVIOUS
    <2>3. Exists(0)
      BY <2>1, <2>2
    <2>. HIDE DEF Exists
    <2>. QED  BY <2>3
  <1>2. ASSUME NEW n \in Nat, n \in S PROVE n + 1 \in S
    <2>. SUFFICES ASSUME n + 1 <= Len(ss) PROVE Exists(n + 1)
      <3>. HIDE DEF Exists
      <3>. QED  OBVIOUS
    <2>0. Exists(n)
      <3>. HIDE DEF Exists
      <3>. QED  BY <1>0, <1>2
    <2>1. PICK f \in [1 .. n -> Seq(V)] : Is(n, f)
      BY <2>0
    <2>2. n + 1 \in 1 .. Len(ss) /\ (n # 0 => n \in 1 .. n)
      BY <1>0
    <2>. DEFINE last == IF n = 0 THEN ss[1] ELSE f[n] \o ss[n + 1]
                g == [m \in 1 .. n + 1 |-> IF m = n + 1 THEN last ELSE f[m]]
    <2>3. last \in Seq(V)
      <3>1. CASE n = 0
        BY <1>0, <2>2, <3>1
      <3>2. CASE n # 0
        <4>1. f[n] \in Seq(V) /\ ss[n + 1] \in Seq(V)
          BY <1>0, <2>2, <3>2
        <4>. QED  BY <3>2, <4>1
      <3>. QED  BY <3>1, <3>2
    <2>4. g \in [1 .. n + 1 -> Seq(V)]
      <3>. HIDE DEF last
      <3>1. ASSUME NEW m \in 1 .. n + 1, m # n + 1 PROVE m \in 1 .. n
        BY <3>1
      <3>. QED  BY <2>3, <3>1
    <2>5. ASSUME NEW m \in 1 .. n + 1 PROVE g[m] = IF m = 1 THEN ss[1] ELSE g[m - 1] \o ss[m]
      <3>1. CASE m = n + 1 /\ n = 0
        BY <3>1
      <3>2. CASE m = n + 1 /\ n # 0
        <4>1. g[m] = f[n] \o ss[n + 1] /\ m # 1 /\ m - 1 = n
          <5>1. g[m] = last
            <6>. HIDE DEF last
            <6>. QED  BY <3>2
          <5>2. last = f[n] \o ss[n + 1]
            BY <3>2
          <5>3. m # 1 /\ m - 1 = n
            <6>. HIDE DEF g
            <6>. QED  BY <3>2
          <5>. HIDE DEF g, last
          <5>. QED  BY <5>1, <5>2, <5>3
        <4>2. g[n] = f[n]
          <5>. HIDE DEF last
          <5>1. n \in 1 .. n + 1 /\ n # n + 1
            BY <3>2
          <5>. QED  BY <5>1
        <4>. HIDE DEF g
        <4>. QED  BY <3>2, <4>1, <4>2
      <3>3. CASE m # n + 1
        <4>. HIDE DEF last
        <4>1. m \in 1 .. n
          BY <3>3
        <4>2. f[m] = IF m = 1 THEN ss[1] ELSE f[m - 1] \o ss[m]
          BY <2>1, <4>1
        <4>3. g[m] = f[m] /\ (m # 1 => g[m - 1] = f[m - 1])
          BY <3>3, <4>1
        <4>. HIDE DEF g
        <4>. QED  BY <4>2, <4>3
      <3>. QED  BY <3>1, <3>2, <3>3
    <2>6. Is(n + 1, g)
      <3>1. DOMAIN g = 1 .. n + 1
        OBVIOUS
      <3>. HIDE DEF g
      <3>. QED  BY <2>4, <2>5, <3>1
    <2>. HIDE DEF g, Is
    <2>. QED  BY <2>4, <2>6
  <1>3. Len(ss) \in S
    <2>. HIDE DEF S
    <2>. QED  BY <1>0, <1>1, <1>2, InductionOnNat
  <1>4. Exists(Len(ss))
    <2>. HIDE DEF Exists
    <2>. QED  BY <1>0, <1>3
  <1>. QED  BY <1>4 DEF IsFlat

\* So FlattenSeq, which chooses it, gives a sequence.
LEMMA FlattenType ==
  ASSUME NEW V, NEW ss \in Seq(Seq(V))
  PROVE  FlattenSeq(ss) \in Seq(V)
  <1>1. CASE Len(ss) = 0
    <2>1. FlattenSeq(ss) = ss /\ ss = <<>>
      BY <1>1 DEF FlattenSeq
    <2>. QED  BY <2>1
  <1>2. CASE Len(ss) # 0
    <2>1. Len(ss) \in Nat /\ Len(ss) \in 1 .. Len(ss)
      BY <1>2
    <2>2. PICK f \in [1 .. Len(ss) -> Seq(V)] : IsFlat(f, ss)
      BY FlatExists
    <2>3. FlattenSeq(ss) = (CHOOSE g : IsFlat(g, ss))[Len(ss)]
      BY <1>2 DEF FlattenSeq, IsFlat
    <2>4. PICK g : g = CHOOSE x : IsFlat(x, ss)
      OBVIOUS
    <2>5. IsFlat(g, ss)
      BY <2>2, <2>4
    <2>. DEFINE S == {m \in Nat : m \in 1 .. Len(ss) => g[m] \in Seq(V)}
    <2>6. \A m \in 1 .. Len(ss) : g[m] = IF m = 1 THEN ss[1] ELSE g[m - 1] \o ss[m]
      BY <2>5 DEF IsFlat
    <2>7. ASSUME NEW m \in Nat, m \in S PROVE m + 1 \in S
      <3>. SUFFICES ASSUME m + 1 \in 1 .. Len(ss) PROVE g[m + 1] \in Seq(V)
        OBVIOUS
      <3>1. ss[m + 1] \in Seq(V) /\ ss[1] \in Seq(V)
        BY <2>1
      <3>2. m = 0 \/ g[m] \in Seq(V)
        BY <2>1, <2>7
      <3>3. g[m + 1] = IF m = 0 THEN ss[1] ELSE g[m] \o ss[m + 1]
        BY <2>6
      <3>. QED  BY <3>1, <3>2, <3>3
    <2>8. Len(ss) \in S
      <3>1. 0 \in S
        OBVIOUS
      <3>. HIDE DEF S
      <3>. QED  BY <2>1, <2>7, <3>1, InductionOnNat
    <2>. QED  BY <2>1, <2>3, <2>4, <2>8
  <1>. QED  BY <1>1, <1>2

---------------------------------------------------------------------------
\* What is read of a frame in a capture.
Packet == {ParseIpv4Tcp(ts, Fields[f]) : ts \in Int, f \in DOMAIN Fields}

Dims == Switches \union {""} \union Nat

\* What discovery may find, and a key that results are stored under.
Discovered == [run_index : Nat, variant : VARIANTS, dims : Dims,
               ingress_pcaps : Seq(PcapFile), egress_pcaps : Seq(PcapFile)]
Key == Nat \X Dims \X VARIANTS

\* What a file holds up to where it is torn is a sequence of records.
LEMMA IterPcapType ==
  ASSUME NEW file \in PcapFile
  PROVE  IterPcap(file) \in Seq(Captured)
  <1>1. PICK r \in Seq(Captured) : r = file.records
    BY DEF PcapFile
  <1>2. PICK torn : torn = {n \in DOMAIN r : ~r[n].whole}
    OBVIOUS
  <1>3. IterPcap(file) = IF ~file.header THEN <<>> ELSE IF torn = {} THEN r ELSE SubSeq(r, 1, Min(torn) - 1)
    BY <1>1, <1>2 DEF IterPcap
  <1>4. torn # {} => SubSeq(r, 1, Min(torn) - 1) \in Seq(Captured)
    <2>. SUFFICES ASSUME torn # {} PROVE SubSeq(r, 1, Min(torn) - 1) \in Seq(Captured)
      OBVIOUS
    <2>1. torn \in SUBSET Nat /\ torn \in SUBSET (1 .. Len(r)) /\ Len(r) \in Nat
      BY <1>2
    <2>2. PICK m \in torn : m = Min(torn)
      <3>1. \E n \in torn : \A l \in torn : n <= l
        BY <2>1, LeastNatural
      <3>. QED  BY <3>1 DEF Min
    <2>3. m - 1 \in Int /\ m - 1 <= Len(r)
      BY <2>1
    <2>. QED  BY <2>1, <2>2, <2>3
  <1>. QED  BY <1>3, <1>4

\* The packets of files are a sequence of packets.
LEMMA IterPortPacketsType ==
  ASSUME NEW pcaps \in Seq(PcapFile), NEW port
  PROVE  IterPortPackets(pcaps, port) \in Seq(Packet)
  <1>1. [n \in DOMAIN pcaps |-> IterPcap(pcaps[n])] \in Seq(Seq(Captured))
    <2>1. \A n \in DOMAIN pcaps : IterPcap(pcaps[n]) \in Seq(Captured)
      BY IterPcapType
    <2>2. PICK m \in Nat : DOMAIN pcaps = 1 .. m
      OBVIOUS
    <2>3. [n \in 1 .. m |-> IterPcap(pcaps[n])] \in [1 .. m -> Seq(Captured)]
      BY <2>1, <2>2
    <2>4. PICK f \in [1 .. m -> Seq(Captured)] : f = [n \in DOMAIN pcaps |-> IterPcap(pcaps[n])]
      BY <2>2, <2>3
    <2>5. f \in Seq(Seq(Captured))
      OBVIOUS
    <2>. QED  BY <2>4, <2>5
  <1>2. PICK read \in Seq(Captured) : read = FlattenSeq([n \in DOMAIN pcaps |-> IterPcap(pcaps[n])])
    BY <1>1, FlattenType
  <1>3. PICK wanted \in SUBSET (DOMAIN read) : wanted = {n \in DOMAIN read : OnPort(Fields[read[n].frame], port)}
    OBVIOUS
  <1>4. PICK kept \in Seq(Captured) : kept = At(read, wanted)
    BY AtType
  <1>5. IterPortPackets(pcaps, port) = [n \in DOMAIN kept |-> ParseIpv4Tcp(kept[n].ts, Fields[kept[n].frame])]
    BY <1>2, <1>3, <1>4 DEF IterPortPackets
  <1>6. PICK m \in Nat : DOMAIN kept = 1 .. m
    OBVIOUS
  <1>7. \A n \in 1 .. m : ParseIpv4Tcp(kept[n].ts, Fields[kept[n].frame]) \in Packet
    <2>1. \A n \in 1 .. m : kept[n].ts \in Int /\ kept[n].frame \in DOMAIN Fields
      <3>1. \A n \in 1 .. m : kept[n] \in Captured
        BY <1>6
      <3>2. \A c \in Captured : c.ts \in Int /\ c.frame \in DOMAIN Fields
        BY DEF Captured
      <3>. QED  BY <3>1, <3>2
    <2>. QED  BY <2>1 DEF Packet
  <1>8. PICK f \in [1 .. m -> Packet] : f = IterPortPackets(pcaps, port)
    BY <1>5, <1>6, <1>7
  <1>9. f \in Seq(Packet)
    OBVIOUS
  <1>. QED  BY <1>8, <1>9

\* Sorted, they still are.
LEMMA SortedByTsType ==
  ASSUME NEW s \in Seq(Packet)
  PROVE  SortedByTs(s) \in Seq(Packet) /\ Len(SortedByTs(s)) = Len(s)
  <1>1. \A n \in DOMAIN s : s[n].ts \in Int
    <2>1. \A p \in Packet : p.ts \in Int
      BY DEF Packet, ParseIpv4Tcp
    <2>. QED  BY <2>1
  <1>2. [n \in DOMAIN s |-> s[n].ts] \in [DOMAIN s -> Int]
    BY <1>1
  <1>. QED  BY <1>2, SortedType DEF SortedByTs

---------------------------------------------------------------------------
AnyPlace == UNION {Place(switches) : switches \in SUBSET Switches}

\* A valid place has what a record of it needs.
LEMMA RecordOfPlace ==
  ASSUME NEW p \in AnyPlace, Valid(p), NEW d \in Dims,
         NEW ingress \in Seq(PcapFile), NEW egress \in Seq(PcapFile)
  PROVE  CaptureRecord(p, d, ingress, egress) \in Discovered
  BY DEF Valid, CaptureRecord, Discovered

\* The files of a switch that a place has.
LEMMA FilesOfPlace ==
  ASSUME NEW p \in AnyPlace, NEW sw \in DOMAIN p.pcaps
  PROVE  sw \in Switches /\ p.pcaps[sw]["in"] \in Seq(PcapFile) /\ p.pcaps[sw]["out"] \in Seq(PcapFile)
  <1>1. PICK switches \in SUBSET Switches : p.pcaps \in [switches -> [{"in", "out"} -> Seq(PcapFile)]]
    <2>1. PICK switches \in SUBSET Switches : p \in Place(switches)
      BY DEF AnyPlace
    <2>2. p.pcaps \in [switches -> [{"in", "out"} -> Seq(PcapFile)]]
      BY <2>1 DEF Place
    <2>. QED  BY <2>2
  <1>2. sw \in switches /\ p.pcaps[sw] \in [{"in", "out"} -> Seq(PcapFile)]
    BY <1>1
  <1>. QED  BY <1>1, <1>2

\* Discovery by switches finds a sequence of records.
LEMMA DiscoverSwitchesType ==
  ASSUME NEW places \in Seq(AnyPlace), NEW switches \in Seq(Switches)
  PROVE  DiscoverSwitches(places, switches) \in Seq(Discovered)
  <1>. DEFINE captured(p) == {n \in DOMAIN switches : /\ switches[n] \in DOMAIN p.pcaps
                                                     /\ p.pcaps[switches[n]]["in"] # <<>>
                                                     /\ p.pcaps[switches[n]]["out"] # <<>>}
              of(p, sw) == CaptureRecord(p, sw, p.pcaps[sw]["in"], p.pcaps[sw]["out"])
              found(p) == [n \in DOMAIN At(switches, captured(p)) |-> of(p, At(switches, captured(p))[n])]
              valid == At(places, {n \in DOMAIN places : Valid(places[n])})
  <1>1. DiscoverSwitches(places, switches) = FlattenSeq([n \in DOMAIN valid |-> found(valid[n])])
    BY DEF DiscoverSwitches
  <1>2. ASSUME NEW p \in AnyPlace, Valid(p) PROVE found(p) \in Seq(Discovered)
    <2>1. PICK P \in SUBSET (DOMAIN switches) :
            /\ P = captured(p)
            /\ \A n \in P : switches[n] \in DOMAIN p.pcaps
      <3>1. PICK P : P = captured(p)
        OBVIOUS
      <3>2. \A n \in P : n \in DOMAIN switches /\ switches[n] \in DOMAIN p.pcaps
        BY <3>1
      <3>. HIDE DEF captured
      <3>. QED  BY <3>1, <3>2
    <2>. DEFINE S == {sw \in Switches : sw \in DOMAIN p.pcaps}
    <2>2. PICK s : s = At(switches, P) /\ s \in Seq(S)
      <3>1. \A n \in P : switches[n] \in S
        BY <2>1
      <3>. HIDE DEF S
      <3>. QED  BY <2>1, <3>1, AtHolds
    <2>3. \A sw \in S : of(p, sw) \in Discovered
      BY <1>2, RecordOfPlace, FilesOfPlace DEF Dims
    <2>4. found(p) = [n \in DOMAIN s |-> of(p, s[n])]
      BY <2>1, <2>2
    <2>. HIDE DEF found, of, S, captured
    <2>5. PICK m \in Nat : DOMAIN s = 1 .. m
      BY <2>2
    <2>6. \A n \in 1 .. m : of(p, s[n]) \in Discovered
      BY <2>2, <2>3, <2>5
    <2>7. PICK f \in [1 .. m -> Discovered] : f = found(p)
      BY <2>4, <2>5, <2>6
    <2>8. f \in Seq(Discovered)
      OBVIOUS
    <2>. QED  BY <2>7, <2>8
  <1>3. valid \in Seq({p \in AnyPlace : Valid(p)})
    <2>1. PICK P \in SUBSET (DOMAIN places) : P = {n \in DOMAIN places : Valid(places[n])}
      OBVIOUS
    <2>2. \A n \in P : places[n] \in {p \in AnyPlace : Valid(p)}
      BY <2>1
    <2>. QED  BY <2>1, <2>2, AtHolds
  <1>4. [n \in DOMAIN valid |-> found(valid[n])] \in Seq(Seq(Discovered))
    <2>1. PICK v \in Seq({p \in AnyPlace : Valid(p)}) : v = valid
      BY <1>3
    <2>. HIDE DEF found, valid
    <2>2. PICK m \in Nat : DOMAIN v = 1 .. m
      OBVIOUS
    <2>3. \A n \in 1 .. m : found(v[n]) \in Seq(Discovered)
      <3>1. \A n \in 1 .. m : v[n] \in AnyPlace /\ Valid(v[n])
        BY <2>2
      <3>. QED  BY <1>2, <3>1
    <2>4. PICK f \in [1 .. m -> Seq(Discovered)] : f = [n \in DOMAIN valid |-> found(valid[n])]
      BY <2>1, <2>2, <2>3
    <2>5. f \in Seq(Seq(Discovered))
      OBVIOUS
    <2>. QED  BY <2>4, <2>5
  <1>. HIDE DEF valid, found
  <1>. QED  BY <1>1, <1>4, FlattenType

\* Two captures under fixed names.
LEMMA DiscoverSimpleType ==
  ASSUME NEW places \in Seq(AnyPlace)
  PROVE  DiscoverSimple(places) \in Seq(Discovered)
  <1>. DEFINE named(p) == Valid(p) /\ p.simple["in"] # None /\ p.simple["out"] # None
              of(p) == CaptureRecord(p, "", <<p.simple["in"]>>, <<p.simple["out"]>>)
              V == {p \in AnyPlace : named(p)}
  <1>1. PICK P \in SUBSET (DOMAIN places) : P = {n \in DOMAIN places : named(places[n])}
    OBVIOUS
  <1>2. PICK s : s = At(places, P) /\ s \in Seq(V)
    <2>1. \A n \in P : places[n] \in V
      BY <1>1
    <2>. HIDE DEF V
    <2>. QED  BY <2>1, AtHolds
  <1>3. DiscoverSimple(places) = [n \in DOMAIN s |-> of(s[n])]
    BY <1>1, <1>2 DEF DiscoverSimple
  <1>4. ASSUME NEW p \in V PROVE of(p) \in Discovered
    <2>1. p \in AnyPlace /\ Valid(p)
      OBVIOUS
    <2>2. p.simple["in"] \in PcapFile /\ p.simple["out"] \in PcapFile
      <3>1. PICK switches \in SUBSET Switches : p \in Place(switches)
        BY DEF AnyPlace
      <3>2. p.simple \in [{"in", "out"} -> PcapFile \union {None}]
        BY <3>1 DEF Place
      <3>. QED  BY <3>2
    <2>3. PICK a, b : a = <<p.simple["in"]>> /\ b = <<p.simple["out"]>> /\ a \in Seq(PcapFile) /\ b \in Seq(PcapFile)
      <3>1. PICK x \in PcapFile, y \in PcapFile : x = p.simple["in"] /\ y = p.simple["out"]
        BY <2>2
      <3>2. <<x>> \in Seq(PcapFile) /\ <<y>> \in Seq(PcapFile)
        OBVIOUS
      <3>. QED  BY <3>1, <3>2
    <2>4. "" \in Dims
      BY DEF Dims
    <2>. HIDE DEF V
    <2>. QED  BY <2>1, <2>3, <2>4, RecordOfPlace
  <1>. HIDE DEF of, V
  <1>5. PICK m \in Nat : DOMAIN s = 1 .. m
    BY <1>2
  <1>6. \A n \in 1 .. m : of(s[n]) \in Discovered
    BY <1>2, <1>4, <1>5
  <1>7. PICK f \in [1 .. m -> Discovered] : f = DiscoverSimple(places)
    BY <1>3, <1>5, <1>6
  <1>8. f \in Seq(Discovered)
    OBVIOUS
  <1>. QED  BY <1>7, <1>8

\* Key sizes.
LEMMA DiscoverCertSizeType ==
  ASSUME NEW places \in Seq(AnyPlace), \A n \in DOMAIN places : "s1" \in DOMAIN places[n].pcaps
  PROVE  DiscoverCertSize(places) \in Seq(Discovered)
  <1>. DEFINE named(p) == /\ Valid(p) /\ p.key_bits \in Nat
                          /\ p.pcaps["s1"]["in"] # <<>> /\ p.pcaps["s1"]["out"] # <<>>
              of(p) == CaptureRecord(p, p.key_bits, p.pcaps["s1"]["in"], p.pcaps["s1"]["out"])
              V == {p \in AnyPlace : named(p) /\ "s1" \in DOMAIN p.pcaps}
  <1>1. PICK P \in SUBSET (DOMAIN places) : P = {n \in DOMAIN places : named(places[n])}
    OBVIOUS
  <1>2. PICK s : s = At(places, P) /\ s \in Seq(V)
    <2>1. \A n \in P : places[n] \in V
      BY <1>1
    <2>. HIDE DEF V
    <2>. QED  BY <2>1, AtHolds
  <1>3. DiscoverCertSize(places) = [n \in DOMAIN s |-> of(s[n])]
    BY <1>1, <1>2 DEF DiscoverCertSize
  <1>4. ASSUME NEW p \in V PROVE of(p) \in Discovered
    <2>1. p \in AnyPlace /\ Valid(p) /\ p.key_bits \in Dims /\ "s1" \in DOMAIN p.pcaps
      BY DEF Dims
    <2>2. p.pcaps["s1"]["in"] \in Seq(PcapFile) /\ p.pcaps["s1"]["out"] \in Seq(PcapFile)
      BY <2>1, FilesOfPlace
    <2>. HIDE DEF V
    <2>. QED  BY <2>1, <2>2, RecordOfPlace
  <1>. HIDE DEF of, V
  <1>5. PICK m \in Nat : DOMAIN s = 1 .. m
    BY <1>2
  <1>6. \A n \in 1 .. m : of(s[n]) \in Discovered
    BY <1>2, <1>4, <1>5
  <1>7. PICK f \in [1 .. m -> Discovered] : f = DiscoverCertSize(places)
    BY <1>3, <1>5, <1>6
  <1>8. f \in Seq(Discovered)
    OBVIOUS
  <1>. QED  BY <1>7, <1>8

\* All four analyzers.
LEMMA DiscoverType ==
  ASSUME NEW places \in Seq(AnyPlace), NEW analyzer \in {"otsec", "motra", "maynard", "cert_size"},
         analyzer = "cert_size" => \A n \in DOMAIN places : "s1" \in DOMAIN places[n].pcaps
  PROVE  Discover(analyzer, places) \in Seq(Discovered)
  <1>1. CASE analyzer = "otsec"
    <2>1. <<"s1">> \in Seq(Switches)
      BY DEF Switches
    <2>2. Discover(analyzer, places) = DiscoverSwitches(places, <<"s1">>)
      BY <1>1 DEF Discover, AnalyzeOtsec
    <2>. QED  BY <2>1, <2>2, DiscoverSwitchesType
  <1>2. CASE analyzer = "motra"
    <2>1. <<"s_it", "s_plc", "s_ot", "s_lsensor">> \in Seq(Switches)
      BY DEF Switches
    <2>2. Discover(analyzer, places) = DiscoverSwitches(places, <<"s_it", "s_plc", "s_ot", "s_lsensor">>)
      BY <1>2 DEF Discover, AnalyzeMotra
    <2>. QED  BY <2>1, <2>2, DiscoverSwitchesType
  <1>3. CASE analyzer = "maynard"
    <2>1. <<"s1">> \in Seq(Switches)
      BY DEF Switches
    <2>2. PICK s \in Seq(Discovered) : s = DiscoverSwitches(places, <<"s1">>)
      BY <2>1, DiscoverSwitchesType
    <2>3. Discover(analyzer, places) = IF s # <<>> THEN [n \in DOMAIN s |-> [s[n] EXCEPT !.dims = ""]]
                                       ELSE DiscoverSimple(places)
      BY <1>3, <2>2 DEF Discover, AnalyzeMaynard
    <2>4. PICK m \in Nat : DOMAIN s = 1 .. m
      OBVIOUS
    <2>5. \A n \in 1 .. m : [s[n] EXCEPT !.dims = ""] \in Discovered
      <3>1. \A r \in Discovered : [r EXCEPT !.dims = ""] \in Discovered
        BY DEF Discovered, Dims
      <3>2. \A n \in 1 .. m : s[n] \in Discovered
        BY <2>4
      <3>. QED  BY <3>1, <3>2
    <2>6. PICK f \in [1 .. m -> Discovered] : f = [n \in DOMAIN s |-> [s[n] EXCEPT !.dims = ""]]
      BY <2>4, <2>5
    <2>7. f \in Seq(Discovered)
      OBVIOUS
    <2>. QED  BY <2>3, <2>6, <2>7, DiscoverSimpleType
  <1>4. CASE analyzer = "cert_size"
    <2>1. Discover(analyzer, places) = DiscoverCertSize(places)
      BY <1>4 DEF Discover, AnalyzeCertSize
    <2>. QED  BY <1>4, <2>1, DiscoverCertSizeType
  <1>. QED  BY <1>1, <1>2, <1>3, <1>4

---------------------------------------------------------------------------
Passage == [frame : DOMAIN Fields, iface : Ifaces, fate : {"inside", "left", "dropped"},
            seen_in : BOOLEAN, seen_out : BOOLEAN,
            while : {"starting", "capturing", "draining", "stopped"}]

\* The inductive invariant of the types. While captures are being started, less
\* than all of them run.
SessionInv ==
  /\ phase \in {"starting", "capturing", "draining", "stopped"}
  /\ running \subseteq Captures /\ IsFiniteSet(running)
  /\ phase = "starting" => Cardinality(running) \in 0 .. 3
  /\ pcap \in [Captures -> Seq(Captured)]
  /\ passage \in Seq(Passage)
  /\ time \in Nat

PairInv ==
  /\ ingress_events \in Seq(Packet) /\ egress_events \in Seq(Packet)
  /\ i \in 0 .. Len(ingress_events) /\ j \in 0 .. Len(egress_events)
  /\ \A k \in DOMAIN ingress_q : ingress_q[k] \in Seq(1 .. i)
  /\ pairs \in Seq((1 .. i) \X (1 .. j))
  /\ unmatched_egress \in Seq(1 .. j)

ReportInv ==
  /\ campaign \in DOMAIN Campaigns
  /\ records \in Seq(Discovered)
  /\ analyzed \in 0 .. Len(records)
  /\ loaded \in BOOLEAN /\ (loaded => analyzed < Len(records))
  /\ per_run_rows \in Seq(Key) /\ Len(per_run_rows) = analyzed
  /\ DOMAIN values = Range(per_run_rows) /\ DOMAIN fingerprints = DOMAIN values
  /\ exit \in {"none", "no_captures", "ok", "failed"}

TypeInv == SessionInv /\ PairInv /\ ReportInv

---------------------------------------------------------------------------
\* A frame that a capture may see leaves the captures well typed.
LEMMA SeenType ==
  ASSUME SessionInv, NEW c, NEW frame \in DOMAIN Fields, Seen(c, frame)
  PROVE  pcap' \in [Captures -> Seq(Captured)]
  <1>1. pcap \in [Captures -> Seq(Captured)] /\ time \in Int /\ running \subseteq Captures
    BY DEF SessionInv
  <1>2. CASE c \in running
    <2>1. PICK r : r = [ts |-> time, frame |-> frame, whole |-> TRUE]
      OBVIOUS
    <2>2. r \in Captured
      BY <1>1, <2>1 DEF Captured
    <2>3. pcap' = [pcap EXCEPT ![c] = Append(pcap[c], r)]
      BY <1>2, <2>1 DEF Seen
    <2>4. pcap[c] \in Seq(Captured)
      BY <1>1, <1>2
    <2>5. Append(pcap[c], r) \in Seq(Captured)
      BY <2>2, <2>4
    <2>. QED  BY <1>1, <2>3, <2>5
  <1>3. CASE c \notin running
    BY <1>1, <1>3 DEF Seen
  <1>. QED  BY <1>2, <1>3

\* One capture more, or all started.
LEMMA StartCaptureType == SessionInv /\ StartCapture => SessionInv'
  <1>. SUFFICES ASSUME SessionInv, StartCapture PROVE SessionInv'
    OBVIOUS
  <1>1. PICK n : n = Cardinality(running) + 1 /\ n \in 1 .. 4
    BY DEF SessionInv, StartCapture
  <1>2. running' = running \union {StartOrder[n]} /\ phase' = IF n = 4 THEN "capturing" ELSE phase
    BY <1>1 DEF StartCapture, StartOrder
  <1>3. StartOrder[n] \in Captures
    <2>1. n = 1 \/ n = 2 \/ n = 3 \/ n = 4
      BY <1>1
    <2>. QED  BY <2>1 DEF StartOrder, Captures, Ifaces
  <1>4. IsFiniteSet(running') /\ Cardinality(running') \in Nat /\ Cardinality(running') <= n
    <2>1. IsFiniteSet(running) /\ Cardinality(running) \in Nat
      BY FS_CardinalityType DEF SessionInv
    <2>2. PICK x : x = StartOrder[n]
      OBVIOUS
    <2>3. IsFiniteSet(running') /\ Cardinality(running') = IF x \in running THEN n - 1 ELSE n
      BY <1>1, <1>2, <2>1, <2>2, FS_AddElement
    <2>. QED  BY <1>1, <2>1, <2>3
  <1>5. phase' = "starting" => Cardinality(running') \in 0 .. 3
    BY <1>1, <1>2, <1>4
  <1>6. phase = "starting" /\ UNCHANGED <<pcap, passage, time>>
    BY DEF StartCapture
  <1>7. phase' \in {"starting", "capturing"}
    BY <1>2, <1>6
  <1>8. running' \subseteq Captures
    BY <1>2, <1>3 DEF SessionInv
  <1>. QED  BY <1>4, <1>5, <1>6, <1>7, <1>8 DEF SessionInv

\* The other steps of a session.
LEMMA SessionType == SessionInv /\ SessionStep => SessionInv'
  <1>. SUFFICES ASSUME SessionInv, SessionStep PROVE SessionInv'
    OBVIOUS
  <1>0. \A n \in DOMAIN passage : passage[n] \in Passage
    BY DEF SessionInv
  <1>1. CASE StartCapture
    BY <1>1, StartCaptureType
  <1>2. CASE StopIngress
    <2>1. running \ Ingress \in SUBSET running /\ IsFiniteSet(running)
      BY DEF SessionInv
    <2>2. IsFiniteSet(running \ Ingress)
      BY <2>1, FS_Subset
    <2>. QED  BY <1>2, <2>2 DEF StopIngress, SessionInv
  <1>3. CASE StopEgress
    <2>1. IsFiniteSet({})
      BY FS_EmptySet
    <2>. QED  BY <1>3, <2>1 DEF StopEgress, SessionInv
  <1>4. ASSUME NEW f \in Traffic, Arrive(f) PROVE SessionInv'
    <2>1. f.frame \in DOMAIN Fields /\ f.iface \in Ifaces
      BY CampaignsAssumption
    <2>2. pcap' \in [Captures -> Seq(Captured)]
      BY <1>4, <2>1, SeenType DEF Arrive
    <2>3. PICK p : p = [frame |-> f.frame, iface |-> f.iface, fate |-> "inside",
                        seen_in |-> [iface |-> f.iface, dir |-> "in"] \in running,
                        seen_out |-> FALSE, while |-> phase]
      OBVIOUS
    <2>4. p \in Passage
      BY <2>1, <2>3 DEF Passage, SessionInv
    <2>5. passage' = Append(passage, p)
      BY <1>4, <2>3 DEF Arrive
    <2>6. passage' \in Seq(Passage)
      BY <2>4, <2>5 DEF SessionInv
    <2>. QED  BY <1>4, <2>2, <2>6 DEF Arrive, SessionInv
  <1>5. ASSUME NEW n \in Inside, Leave(n) PROVE SessionInv'
    <2>1. n \in DOMAIN passage /\ passage[n] \in Passage
      BY <1>0 DEF Inside
    <2>2. pcap' \in [Captures -> Seq(Captured)]
      <3>1. passage[n].frame \in DOMAIN Fields
        BY <2>1 DEF Passage
      <3>. QED  BY <1>5, <3>1, SeenType DEF Leave
    <2>3. PICK b \in BOOLEAN : passage' = [passage EXCEPT ![n].fate = "left", ![n].seen_out = b]
      <3>1. PICK c : passage' = [passage EXCEPT ![n].fate = "left", ![n].seen_out = c \in running]
        BY <1>5 DEF Leave
      <3>2. (c \in running) \in BOOLEAN
        OBVIOUS
      <3>. QED  BY <3>1, <3>2
    <2>4. PICK p : p = [passage[n] EXCEPT !.fate = "left", !.seen_out = b]
      OBVIOUS
    <2>5. p \in Passage
      BY <2>1, <2>4 DEF Passage
    <2>6. passage' = [passage EXCEPT ![n] = p]
      BY <2>3, <2>4
    <2>7. passage' \in Seq(Passage)
      BY <2>1, <2>5, <2>6 DEF SessionInv
    <2>. QED  BY <1>5, <2>2, <2>7 DEF Leave, SessionInv
  <1>6. ASSUME NEW n \in Inside, Drop(n) PROVE SessionInv'
    <2>1. n \in DOMAIN passage /\ passage[n] \in Passage
      BY <1>0 DEF Inside
    <2>2. PICK p : p = [passage[n] EXCEPT !.fate = "dropped"]
      OBVIOUS
    <2>3. p \in Passage
      BY <2>1, <2>2 DEF Passage
    <2>4. passage' = [passage EXCEPT ![n] = p]
      BY <1>6, <2>2 DEF Drop
    <2>5. passage' \in Seq(Passage)
      BY <2>1, <2>3, <2>4 DEF SessionInv
    <2>. QED  BY <1>6, <2>5 DEF Drop, SessionInv
  <1>7. CASE TimePasses
    BY <1>7 DEF TimePasses, SessionInv
  <1>. QED  BY <1>1, <1>2, <1>3, <1>4, <1>5, <1>6, <1>7 DEF SessionStep

---------------------------------------------------------------------------
\* A sequence over a set is one over a larger set.
LEMMA SeqWider ==
  ASSUME NEW A, NEW B, A \subseteq B, NEW s \in Seq(A)
  PROVE  s \in Seq(B)
  <1>1. PICK n \in Nat : s \in [1 .. n -> A]
    OBVIOUS
  <1>2. s \in [1 .. n -> B]
    BY <1>1
  <1>. QED  BY <1>2

\* What is taken from a sequence, and what is left.
LEMMA HeadAndTail ==
  ASSUME NEW S, NEW s \in Seq(S), s # <<>>
  PROVE  Head(s) \in S /\ Tail(s) \in Seq(S)
  OBVIOUS

\* Events that the pairing runs over, and a fresh start.
LEMMA FreshType ==
  ASSUME NEW ingress \in Seq(Packet), NEW egress \in Seq(Packet), AnalyzePaths(ingress, egress)
  PROVE  PairInv'
  <1>1. /\ ingress_events' = ingress /\ egress_events' = egress
        /\ i' = 0 /\ j' = 0 /\ pairs' = <<>> /\ unmatched_egress' = <<>>
        /\ \A k \in DOMAIN ingress_q' : ingress_q'[k] = <<>>
    BY DEF AnalyzePaths
  <1>2. Len(ingress) \in Nat /\ Len(egress) \in Nat
    OBVIOUS
  <1>3. <<>> \in Seq(1 .. 0) /\ <<>> \in Seq((1 .. 0) \X (1 .. 0))
    OBVIOUS
  <1>4. 0 \in 0 .. Len(ingress) /\ 0 \in 0 .. Len(egress)
    BY <1>2
  <1>. QED  BY <1>1, <1>3, <1>4 DEF PairInv

\* A step of the pairing puts and takes positions that are done.
LEMMA PairingType == PairInv /\ PairingStep => PairInv'
  <1>. SUFFICES ASSUME PairInv, PairingStep PROVE PairInv'
    OBVIOUS
  <1>0. PICK li \in Nat, lj \in Nat : li = Len(ingress_events) /\ lj = Len(egress_events)
    BY DEF PairInv
  <1>1. i \in 0 .. li /\ j \in 0 .. lj
    BY <1>0 DEF PairInv
  <1>2. ingress_events' = ingress_events /\ egress_events' = egress_events
    BY DEF PairingStep, EnqueueIngress, PairEgress, LoneEgress
  <1>3. CASE EnqueueIngress
    <2>1. i' = i + 1 /\ j' = j /\ pairs' = pairs /\ unmatched_egress' = unmatched_egress /\ i < li
      BY <1>0, <1>3 DEF EnqueueIngress
    <2>2. 1 .. i \subseteq 1 .. i' /\ i + 1 \in 1 .. i' /\ i' \in 0 .. li /\ (1 .. i) \X (1 .. j) \subseteq (1 .. i') \X (1 .. j)
      BY <1>1, <2>1
    <2>3. ASSUME NEW k \in DOMAIN ingress_q PROVE ingress_q'[k] \in Seq(1 .. i')
      <3>1. PICK q \in Seq(1 .. i') : q = ingress_q[k]
        BY <2>2, SeqWider DEF PairInv
      <3>2. ingress_q'[k] = q \/ ingress_q'[k] = Append(q, i + 1)
        BY <1>3, <3>1 DEF EnqueueIngress
      <3>. QED  BY <2>2, <3>2
    <2>4. DOMAIN ingress_q' = DOMAIN ingress_q
      BY <1>3 DEF EnqueueIngress
    <2>5. pairs \in Seq((1 .. i') \X (1 .. j))
      <3>1. PICK A, B : A = (1 .. i) \X (1 .. j) /\ B = (1 .. i') \X (1 .. j)
        OBVIOUS
      <3>2. A \subseteq B /\ pairs \in Seq(A)
        BY <2>2, <3>1 DEF PairInv
      <3>3. pairs \in Seq(B)
        BY <3>2, SeqWider
      <3>. QED  BY <3>1, <3>3
    <2>. QED  BY <1>0, <1>1, <1>2, <2>1, <2>2, <2>3, <2>4, <2>5 DEF PairInv
  <1>4. CASE PairEgress \/ LoneEgress
    <2>1. i' = i /\ j' = j + 1 /\ j < lj /\ DOMAIN ingress_q' = DOMAIN ingress_q
      BY <1>0, <1>4 DEF PairEgress, LoneEgress
    <2>2. 1 .. j \subseteq 1 .. j' /\ j + 1 \in 1 .. j' /\ j' \in 0 .. lj /\ (1 .. i) \X (1 .. j) \subseteq (1 .. i) \X (1 .. j')
      BY <1>1, <2>1
    <2>3. unmatched_egress \in Seq(1 .. j')
      BY <2>2, SeqWider DEF PairInv
    <2>4. pairs \in Seq((1 .. i) \X (1 .. j'))
      <3>1. PICK A, B : A = (1 .. i) \X (1 .. j) /\ B = (1 .. i) \X (1 .. j')
        OBVIOUS
      <3>2. A \subseteq B /\ pairs \in Seq(A)
        BY <2>2, <3>1 DEF PairInv
      <3>3. pairs \in Seq(B)
        BY <3>2, SeqWider
      <3>. QED  BY <3>1, <3>3
    <2>5. CASE LoneEgress
      <3>1. /\ unmatched_egress' = Append(unmatched_egress, j + 1)
            /\ pairs' = pairs /\ ingress_q' = ingress_q
        BY <2>5 DEF LoneEgress
      <3>2. unmatched_egress' \in Seq(1 .. j')
        BY <2>2, <2>3, <3>1
      <3>. QED  BY <1>0, <1>1, <1>2, <2>1, <2>2, <2>4, <3>1, <3>2 DEF PairInv
    <2>6. CASE PairEgress
      <3>1. PICK k \in DOMAIN ingress_q :
              /\ ingress_q[k] # <<>>
              /\ pairs' = Append(pairs, <<Head(ingress_q[k]), j + 1>>)
              /\ ingress_q' = [ingress_q EXCEPT ![k] = Tail(ingress_q[k])]
              /\ unmatched_egress' = unmatched_egress
        BY <2>6 DEF PairEgress, Waiting
      <3>2. PICK q \in Seq(1 .. i) : q = ingress_q[k] /\ q # <<>>
        BY <3>1 DEF PairInv
      <3>3. PICK h \in 1 .. i : h = Head(q) /\ Tail(q) \in Seq(1 .. i)
        BY <3>2, HeadAndTail
      <3>4. PICK p \in (1 .. i) \X (1 .. j') : p = <<h, j + 1>>
        BY <2>2
      <3>5. pairs' \in Seq((1 .. i) \X (1 .. j'))
        BY <2>4, <3>1, <3>2, <3>3, <3>4
      <3>6. \A x \in DOMAIN ingress_q : ingress_q'[x] \in Seq(1 .. i)
        BY <3>1, <3>2, <3>3 DEF PairInv
      <3>. QED  BY <1>0, <1>1, <1>2, <2>1, <2>2, <2>3, <3>1, <3>5, <3>6 DEF PairInv
    <2>. QED  BY <1>4, <2>5, <2>6
  <1>. QED  BY <1>3, <1>4 DEF PairingStep

---------------------------------------------------------------------------
\* The files that the live captures are copied into.
LEMMA LiveFilesType ==
  ASSUME SessionInv, NEW dir \in {"in", "out"}
  PROVE  LiveFiles(dir) \in Seq(PcapFile)
  <1>1. ASSUME NEW n \in 1 .. 2
        PROVE  [header |-> TRUE, records |-> pcap[[iface |-> <<"eth0", "eth1">>[n], dir |-> dir]]] \in PcapFile
    <2>1. <<"eth0", "eth1">>[n] \in Ifaces
      <3>1. n = 1 \/ n = 2
        OBVIOUS
      <3>. QED  BY <3>1 DEF Ifaces
    <2>2. PICK c \in Captures : c = [iface |-> <<"eth0", "eth1">>[n], dir |-> dir]
      BY <2>1 DEF Captures
    <2>3. PICK r \in Seq(Captured) : r = pcap[c]
      BY DEF SessionInv
    <2>. QED  BY <2>2, <2>3 DEF PcapFile
  <1>0. PICK m \in Nat : m = 2
    OBVIOUS
  <1>2. PICK f \in [1 .. m -> PcapFile] : f = LiveFiles(dir)
    BY <1>0, <1>1 DEF LiveFiles
  <1>3. f \in Seq(PcapFile)
    OBVIOUS
  <1>. QED  BY <1>2, <1>3

\* The directory of a campaign is a sequence of places.
LEMMA PlacesType ==
  ASSUME SessionInv, campaign \in DOMAIN Campaigns
  PROVE  /\ Places \in Seq(AnyPlace)
         /\ Plan.analyzer = "cert_size" => \A n \in DOMAIN Places : "s1" \in DOMAIN Places[n].pcaps
         /\ Plan.analyzer \in {"otsec", "motra", "maynard", "cert_size"}
  <1>1. PICK plan : plan = Plan
    OBVIOUS
  <1>2. /\ plan.analyzer \in {"otsec", "motra", "maynard", "cert_size"}
        /\ plan.places \in Seq(Range(plan.places))
        /\ \A p \in Range(plan.places) :
              \E switches \in SUBSET Switches :
                  p \in Place(switches) /\ (plan.analyzer = "cert_size" => "s1" \in switches)
        /\ plan.live \in 0 .. Len(plan.places)
    BY <1>1, CampaignsAssumption DEF Plan
  <1>s. PICK s : s = plan.places
    OBVIOUS
  <1>n. PICK n \in Nat : n = Len(s)
    BY <1>2, <1>s
  <1>3. s = plan.places /\ DOMAIN s = 1 .. n /\ n = Len(s) /\ n \in Nat /\ s = [m \in 1 .. n |-> s[m]]
        /\ \A m \in 1 .. n : s[m] \in Range(s)
    BY <1>2, <1>s, <1>n DEF Range
  <1>4. ASSUME NEW m \in 1 .. n
        PROVE  s[m] \in AnyPlace /\ (plan.analyzer = "cert_size" => "s1" \in DOMAIN s[m].pcaps)
    <2>1. PICK p : p = s[m] /\ p \in Range(plan.places)
      BY <1>3
    <2>2. PICK switches \in SUBSET Switches :
            p \in Place(switches) /\ (plan.analyzer = "cert_size" => "s1" \in switches)
      BY <1>2, <2>1
    <2>3. DOMAIN p.pcaps = switches
      BY <2>2 DEF Place
    <2>. QED  BY <2>1, <2>2, <2>3 DEF AnyPlace
  <1>5. CASE plan.live = 0
    <2>1. Places = s
      BY <1>1, <1>3, <1>5 DEF Places
    <2>2. s \in Seq(AnyPlace)
      <3>1. s \in [1 .. n -> AnyPlace]
        BY <1>3, <1>4
      <3>2. PICK V : V = AnyPlace
        OBVIOUS
      <3>3. s \in [1 .. n -> V]
        BY <3>1, <3>2
      <3>4. s \in Seq(V)
        BY <3>3
      <3>. QED  BY <3>2, <3>4
    <2>. QED  BY <1>1, <1>2, <1>3, <1>4, <2>1, <2>2
  <1>6. CASE plan.live # 0
    <2>. DEFINE live == [s1 |-> [d \in {"in", "out"} |-> LiveFiles(d)]]
    <2>1. plan.live \in 1 .. n
      BY <1>2, <1>3, <1>6
    <2>2. PICK p : p = [s[plan.live] EXCEPT !.pcaps = live]
      OBVIOUS
    <2>3. Places = [s EXCEPT ![plan.live] = p]
      BY <1>1, <1>3, <1>6, <2>2 DEF Places
    <2>4. p \in AnyPlace /\ "s1" \in DOMAIN p.pcaps
      <3>q. PICK q : q = s[plan.live]
        OBVIOUS
      <3>0. PICK switches \in SUBSET Switches : q \in Place(switches)
        BY <1>4, <2>1, <3>q DEF AnyPlace
      <3>1. q = s[plan.live] /\ q \in Place(switches)
        BY <3>q, <3>0
      <3>2. live \in [{"s1"} -> [{"in", "out"} -> Seq(PcapFile)]]
        <4>1. PICK f \in [{"in", "out"} -> Seq(PcapFile)] : f = [d \in {"in", "out"} |-> LiveFiles(d)]
          BY LiveFilesType
        <4>. QED  BY <4>1
      <3>3. p = [q EXCEPT !.pcaps = live]
        BY <2>2, <3>1
      <3>. HIDE DEF live
      <3>4. p \in Place({"s1"}) /\ p.pcaps = live
        BY <3>1, <3>2, <3>3 DEF Place
      <3>5. {"s1"} \in SUBSET Switches
        BY DEF Switches
      <3>. QED  BY <3>2, <3>4, <3>5 DEF AnyPlace
    <2>. HIDE DEF live
    <2>5. PICK f : f = [m \in 1 .. n |-> IF m = plan.live THEN p ELSE s[m]]
      OBVIOUS
    <2>p. f = Places
      BY <1>3, <2>3, <2>5
    <2>6. f \in Seq(AnyPlace) /\ DOMAIN f = 1 .. n
      <3>1. \A m \in 1 .. n : f[m] \in AnyPlace
        BY <1>4, <2>4, <2>5
      <3>2. f \in [1 .. n -> AnyPlace]
        BY <2>5, <3>1
      <3>3. PICK V : V = AnyPlace
        OBVIOUS
      <3>4. f \in [1 .. n -> V]
        BY <3>2, <3>3
      <3>5. f \in Seq(V)
        BY <3>4
      <3>. QED  BY <2>5, <3>3, <3>5
    <2>7. plan.analyzer = "cert_size" => \A m \in 1 .. n : "s1" \in DOMAIN f[m].pcaps
      BY <1>4, <2>4, <2>5
    <2>. QED  BY <1>1, <1>2, <2>p, <2>6, <2>7
  <1>. QED  BY <1>5, <1>6

---------------------------------------------------------------------------
\* The places are read.
LEMMA StartReportType == TypeInv /\ StartReport => ReportInv'
  <1>. SUFFICES ASSUME TypeInv, StartReport PROVE ReportInv'
    OBVIOUS
  <1>1. records' = Discover(Plan.analyzer, Places)
    BY DEF StartReport, DiscoverRecords
  <1>2. PICK s \in Seq(Discovered) : s = records'
    BY <1>1, PlacesType, DiscoverType DEF TypeInv, ReportInv
  <1>3. records = <<>> /\ analyzed = 0 /\ loaded = FALSE
    BY DEF StartReport, TypeInv, ReportInv
  <1>4. /\ UNCHANGED <<analyzed, loaded, values, fingerprints, per_run_rows, campaign>>
        /\ exit' \in {"no_captures", "none"}
    BY DEF StartReport, DiscoverRecords
  <1>5. 0 \in 0 .. Len(s)
    OBVIOUS
  <1>. QED  BY <1>2, <1>3, <1>4, <1>5 DEF TypeInv, ReportInv

\* A record is loaded: its packets become the events of the pairing.
LEMMA LoadRecordType == TypeInv /\ LoadRecord => PairInv' /\ (UNCHANGED campaign => ReportInv')
  <1>. SUFFICES ASSUME TypeInv, LoadRecord PROVE PairInv' /\ (UNCHANGED campaign => ReportInv')
    OBVIOUS
  <1>1. analyzed < Len(records) /\ analyzed + 1 \in DOMAIN records
    BY DEF LoadRecord, TypeInv, ReportInv
  <1>2. PICK rec \in Discovered : rec = records[analyzed + 1]
    BY <1>1 DEF TypeInv, ReportInv
  <1>3. rec.ingress_pcaps \in Seq(PcapFile) /\ rec.egress_pcaps \in Seq(PcapFile)
    BY DEF Discovered
  <1>4. PICK ingress, egress : /\ ingress = SortedByTs(IterPortPackets(rec.ingress_pcaps, Port))
                               /\ egress = SortedByTs(IterPortPackets(rec.egress_pcaps, Port))
                               /\ AnalyzePaths(ingress, egress)
    BY <1>2 DEF LoadRecord
  <1>5. ingress \in Seq(Packet) /\ egress \in Seq(Packet)
    BY <1>3, <1>4, IterPortPacketsType, SortedByTsType
  <1>6. PairInv'
    BY <1>4, <1>5, FreshType
  <1>7. ASSUME UNCHANGED campaign PROVE ReportInv'
    BY <1>1, <1>7 DEF LoadRecord, TypeInv, ReportInv
  <1>. QED  BY <1>6, <1>7

\* What a record gave is stored.
LEMMA StoreResultType == TypeInv /\ StoreResult /\ UNCHANGED campaign => ReportInv'
  <1>. SUFFICES ASSUME TypeInv, StoreResult, UNCHANGED campaign PROVE ReportInv'
    OBVIOUS
  <1>1. /\ analyzed \in Nat /\ analyzed + 1 \in 0 .. Len(records) /\ analyzed + 1 \in DOMAIN records
        /\ Len(per_run_rows) = analyzed /\ per_run_rows \in Seq(Key)
    BY DEF StoreResult, TypeInv, ReportInv
  <1>2. PICK rec \in Discovered : rec = records[analyzed + 1]
    BY <1>1 DEF TypeInv, ReportInv
  <1>3. PICK k : k = <<rec.run_index, rec.dims, rec.variant>>
    OBVIOUS
  <1>4. k \in Key
    BY <1>3 DEF Key, Discovered
  <1>5. /\ DOMAIN values' = DOMAIN values \union {k} /\ DOMAIN fingerprints' = DOMAIN values \union {k}
        /\ per_run_rows' = Append(per_run_rows, k)
    BY <1>2, <1>3 DEF StoreResult
  <1>6. /\ per_run_rows' \in Seq(Key) /\ Len(per_run_rows') = analyzed + 1
        /\ Range(per_run_rows') = Range(per_run_rows) \union {k}
    <2>1. PICK s, t : s = per_run_rows /\ t = per_run_rows' /\ t = Append(s, k) /\ s \in Seq(Key)
      BY <1>1, <1>5
    <2>2. /\ t \in Seq(Key) /\ Len(t) = Len(s) + 1 /\ Len(s) \in Nat
          /\ t[Len(s) + 1] = k
          /\ \A m \in 1 .. Len(s) : t[m] = s[m]
          /\ \A m \in 1 .. Len(t) : m \in 1 .. Len(s) \/ m = Len(s) + 1
      BY <1>4, <2>1
    <2>3. DOMAIN s = 1 .. Len(s) /\ DOMAIN t = 1 .. Len(t) /\ 1 .. Len(s) \subseteq 1 .. Len(t) /\ Len(s) + 1 \in 1 .. Len(t)
      BY <2>1, <2>2
    <2>4. Range(t) = Range(s) \union {k}
      BY <2>2, <2>3 DEF Range
    <2>. QED  BY <1>1, <2>1, <2>2, <2>4
  <1>7. analyzed' = analyzed + 1 /\ loaded' = FALSE /\ UNCHANGED <<records, exit>>
    BY DEF StoreResult
  <1>. QED  BY <1>1, <1>5, <1>6, <1>7 DEF TypeInv, ReportInv

\* The other steps leave the report as it is typed.
LEMMA WriteReportType == TypeInv /\ WriteReport /\ UNCHANGED campaign => ReportInv'
  BY DEF WriteReport, TypeInv, ReportInv

\* TypeInv is inductive.
LEMMA TypeInvStep == TypeInv /\ [Next]_vars => TypeInv'
  <1>. SUFFICES ASSUME TypeInv, [Next]_vars PROVE TypeInv'
    OBVIOUS
  <1>0. UNCHANGED pairing => PairInv'
    BY DEF TypeInv, PairInv, pairing
  <1>a. UNCHANGED <<report, campaign>> => ReportInv'
    BY DEF TypeInv, ReportInv, report
  <1>b. UNCHANGED session => SessionInv'
    BY DEF TypeInv, SessionInv, session
  <1>1. CASE Measure
    <2>1. SessionInv'
      BY <1>1, SessionType DEF Measure, TypeInv
    <2>. QED  BY <1>0, <1>1, <1>a, <2>1 DEF Measure, TypeInv
  <1>2. CASE StartReport
    <2>1. UNCHANGED pairing /\ UNCHANGED session
      BY <1>2 DEF StartReport, DiscoverRecords
    <2>. QED  BY <1>0, <1>2, <1>b, <2>1, StartReportType DEF TypeInv
  <1>3. CASE Report
    <2>1. SessionInv' /\ UNCHANGED campaign
      BY <1>3, <1>b DEF Report
    <2>2. CASE LoadRecord
      BY <2>1, <2>2, LoadRecordType DEF TypeInv
    <2>3. CASE PairRecord
      <3>1. PairInv'
        BY <2>3, PairingType DEF PairRecord, TypeInv
      <3>. QED  BY <1>a, <2>1, <2>3, <3>1 DEF PairRecord, TypeInv
    <2>4. CASE StoreResult
      BY <1>0, <2>1, <2>4, StoreResultType DEF StoreResult, TypeInv
    <2>5. CASE WriteReport
      BY <1>0, <2>1, <2>5, WriteReportType DEF WriteReport, TypeInv
    <2>. QED  BY <1>3, <2>2, <2>3, <2>4, <2>5 DEF Report, ReportStep
  <1>4. CASE UNCHANGED vars
    BY <1>0, <1>4, <1>a, <1>b DEF vars, TypeInv
  <1>. QED  BY <1>1, <1>2, <1>3, <1>4 DEF Next, Exited

\* It holds at first.
LEMMA TypeInvInit == Init => TypeInv
  <1>. SUFFICES ASSUME Init PROVE TypeInv
    OBVIOUS
  <1>1. SessionInv
    <2>1. IsFiniteSet({}) /\ Cardinality({}) = 0
      BY FS_EmptySet
    <2>. QED  BY <2>1 DEF Init, SessionInit, SessionInv
  <1>2. PairInv
    BY DEF Init, PairingInit, PairInv
  <1>3. ReportInv
    <2>1. /\ campaign \in DOMAIN Campaigns /\ records = <<>> /\ analyzed = 0 /\ loaded = FALSE
          /\ per_run_rows = <<>> /\ values = <<>> /\ fingerprints = <<>> /\ exit = "none"
      BY DEF Init, ReportInit
    <2>2. PICK e : e = <<>>
      OBVIOUS
    <2>3. e \in Seq(Discovered) /\ e \in Seq(Key) /\ Len(e) = 0 /\ DOMAIN e = {} /\ Range(e) = {}
      BY <2>2 DEF Range
    <2>4. 0 \in 0 .. Len(e)
      BY <2>3
    <2>. QED  BY <2>1, <2>2, <2>3, <2>4 DEF ReportInv
  <1>. QED  BY <1>1, <1>2, <1>3 DEF TypeInv

\* So it always holds.
LEMMA TypeInvAlwaysHolds == Spec => []TypeInv
  BY TypeInvInit, TypeInvStep, PTL DEF Spec

\* The loops stay within what they read, whatever the campaign.
THEOREM CampaignTypeCorrect == Spec => []TypeOK
  <1>1. TypeInv => TypeOK
    <2>. SUFFICES ASSUME TypeInv PROVE TypeOK
      OBVIOUS
    <2>1. \A k \in DOMAIN ingress_q : Range(ingress_q[k]) \subseteq 1 .. i
      BY RangeOfSeq DEF TypeInv, PairInv
    <2>2. Range(pairs) \subseteq (1 .. i) \X (1 .. j) /\ Range(unmatched_egress) \subseteq 1 .. j
      BY RangeOfSeq DEF TypeInv, PairInv
    <2>. QED  BY <2>1, <2>2 DEF TypeInv, SessionInv, PairInv, ReportInv, TypeOK
  <1>. QED  BY <1>1, TypeInvAlwaysHolds, PTL

---------------------------------------------------------------------------

\* Nothing gets lost: an ingress packet that is done is in a pair or in the queue of its key,
\* an egress packet that is done is in a pair or among the unmatched, and not in both.
CoverInv ==
  /\ DOMAIN ingress_q = {ingress_events[n].key : n \in DOMAIN ingress_events}
  /\ \A n \in 1 .. i : \/ \E x \in DOMAIN pairs : pairs[x][1] = n
                       \/ n \in Range(ingress_q[ingress_events[n].key])
  /\ \A n \in 1 .. j : \/ \E x \in DOMAIN pairs : pairs[x][2] = n
                       \/ n \in Range(unmatched_egress)
  /\ \A n \in Range(unmatched_egress) : \A x \in DOMAIN pairs : pairs[x][2] # n

---------------------------------------------------------------------------
\* What is in a sequence when one more is put at its end.
LEMMA RangeAppend ==
  ASSUME NEW S, NEW s \in Seq(S), NEW x \in S, NEW t, t = Append(s, x)
  PROVE  /\ Range(t) = Range(s) \union {x}
         /\ DOMAIN t = DOMAIN s \union {Len(s) + 1} /\ Len(s) + 1 \notin DOMAIN s
         /\ t[Len(s) + 1] = x
         /\ \A m \in DOMAIN s : t[m] = s[m]
  <1>1. /\ t \in Seq(S) /\ Len(t) = Len(s) + 1 /\ Len(s) \in Nat
        /\ t[Len(s) + 1] = x
        /\ \A m \in 1 .. Len(s) : t[m] = s[m]
    BY AppendFacts
  <1>2. DOMAIN s = 1 .. Len(s) /\ DOMAIN t = 1 .. Len(s) + 1
    BY <1>1
  <1>3. DOMAIN t = DOMAIN s \union {Len(s) + 1} /\ Len(s) + 1 \notin DOMAIN s
    BY <1>1, <1>2
  <1>4. Range(t) = Range(s) \union {x}
    BY <1>1, <1>2, <1>3 DEF Range
  <1>. QED  BY <1>1, <1>2, <1>3, <1>4

\* The same of naturals.
LEMMA RangeAppendNat ==
  ASSUME NEW s \in Seq(Nat), NEW x \in Nat, NEW t, t = Append(s, x)
  PROVE  Range(t) = Range(s) \union {x}
  <1>1. /\ t \in Seq(Nat) /\ Len(t) = Len(s) + 1 /\ Len(s) \in Nat
        /\ t[Len(s) + 1] = x
        /\ \A m \in 1 .. Len(s) : t[m] = s[m]
        /\ \A m \in 1 .. Len(t) : m \in 1 .. Len(s) \/ m = Len(s) + 1
    BY AppendFacts
  <1>2. DOMAIN s = 1 .. Len(s) /\ DOMAIN t = 1 .. Len(t)
    BY <1>1
  <1>. QED  BY <1>1, <1>2 DEF Range

\* What is in a sequence: its first element, and what follows.
LEMMA RangeTail ==
  ASSUME NEW s \in Seq(Nat), s # <<>>
  PROVE  Range(s) = {Head(s)} \union Range(Tail(s))
  <1>1. PICK t : t = Tail(s)
    OBVIOUS
  <1>2. /\ t \in Seq(Nat) /\ Len(t) = Len(s) - 1 /\ Len(s) \in Nat
        /\ \A m \in 1 .. Len(t) : t[m] = s[m + 1] /\ m + 1 \in 2 .. Len(s) /\ t[m] \in Nat
        /\ Head(s) = s[1] /\ 1 \in 1 .. Len(s) /\ s[1] \in Nat
    BY <1>1, TailFacts
  <1>3. DOMAIN s = 1 .. Len(s) /\ DOMAIN t = 1 .. Len(t)
    BY <1>2
  <1>4. ASSUME NEW m \in 1 .. Len(s) PROVE s[m] = s[1] \/ s[m] \in Range(t)
    <2>1. CASE m = 1
      BY <2>1
    <2>2. CASE m # 1
      <3>1. m - 1 \in 1 .. Len(t) /\ (m - 1) + 1 = m
        BY <1>2, <2>2
      <3>2. t[m - 1] = s[m]
        BY <1>2, <3>1
      <3>. QED  BY <1>3, <3>1, <3>2 DEF Range
    <2>. QED  BY <2>1, <2>2
  <1>5. ASSUME NEW m \in 1 .. Len(t) PROVE t[m] \in Range(s)
    <2>1. m + 1 \in 1 .. Len(s) /\ t[m] = s[m + 1]
      BY <1>2
    <2>. QED  BY <1>3, <2>1 DEF Range
  <1>6. s[1] \in Range(s)
    BY <1>2, <1>3 DEF Range
  <1>. QED  BY <1>1, <1>2, <1>3, <1>4, <1>5, <1>6 DEF Range

\* A packet that enters is queued.
LEMMA EnqueueCovers == TypeInv /\ CoverInv /\ EnqueueIngress => CoverInv'
  <1>. SUFFICES ASSUME TypeInv, CoverInv, EnqueueIngress PROVE CoverInv'
    OBVIOUS
  <1>1. PICK k : k = ingress_events[i + 1].key
    OBVIOUS
  <1>2. /\ i' = i + 1 /\ i < Len(ingress_events)
        /\ UNCHANGED <<ingress_events, egress_events, j, pairs, unmatched_egress>>
        /\ ingress_q' = [ingress_q EXCEPT ![k] = Append(ingress_q[k], i + 1)]
    BY <1>1 DEF EnqueueIngress
  <1>3. i \in Nat /\ Len(ingress_events) \in Nat /\ i + 1 \in DOMAIN ingress_events
    BY <1>2 DEF TypeInv, PairInv
  <1>4. k \in DOMAIN ingress_q
    BY <1>1, <1>3 DEF CoverInv
  <1>5. PICK q \in Seq(Nat) : q = ingress_q[k]
    <2>1. 1 .. i \subseteq Nat /\ ingress_q[k] \in Seq(1 .. i)
      BY <1>4 DEF TypeInv, PairInv
    <2>. QED  BY <2>1, SeqWider
  <1>6. Range(ingress_q'[k]) = Range(ingress_q[k]) \union {i + 1} /\ DOMAIN ingress_q' = DOMAIN ingress_q
    <2>0. PICK m \in Nat : m = i + 1
      BY <1>3
    <2>1. PICK t : t = Append(q, m)
      OBVIOUS
    <2>2. Range(t) = Range(q) \union {i + 1}
      BY <2>0, <2>1, RangeAppendNat
    <2>. QED  BY <1>2, <1>4, <1>5, <2>0, <2>1, <2>2
  <1>7. \A x \in DOMAIN ingress_q : Range(ingress_q[x]) \subseteq Range(ingress_q'[x])
    BY <1>2, <1>6
  <1>8. ASSUME NEW n \in 1 .. i + 1
        PROVE  \/ \E x \in DOMAIN pairs : pairs[x][1] = n
               \/ n \in Range(ingress_q'[ingress_events[n].key])
    <2>1. n \in 1 .. i \/ n = i + 1
      BY <1>3
    <2>2. CASE n \in 1 .. i
      <3>1. ingress_events[n].key \in DOMAIN ingress_q
        <4>1. n \in DOMAIN ingress_events
          BY <1>2, <1>3, <2>2
        <4>. QED  BY <4>1 DEF CoverInv
      <3>. QED  BY <1>7, <2>2, <3>1 DEF CoverInv
    <2>3. CASE n = i + 1
      BY <1>1, <1>6, <2>3
    <2>. QED  BY <2>1, <2>2, <2>3
  <1>. QED  BY <1>2, <1>6, <1>8 DEF CoverInv

\* A packet that leaves and finds its copy: both are in the new pair.
LEMMA PairCovers == TypeInv /\ CoverInv /\ PairEgress => CoverInv'
  <1>. SUFFICES ASSUME TypeInv, CoverInv, PairEgress PROVE CoverInv'
    OBVIOUS
  <1>1. PICK k : k = egress_events[j + 1].key
    OBVIOUS
  <1>2. /\ j' = j + 1 /\ j < Len(egress_events)
        /\ UNCHANGED <<ingress_events, egress_events, i, unmatched_egress>>
        /\ k \in DOMAIN ingress_q /\ ingress_q[k] # <<>>
        /\ pairs' = Append(pairs, <<Head(ingress_q[k]), j + 1>>)
        /\ ingress_q' = [ingress_q EXCEPT ![k] = Tail(ingress_q[k])]
    BY <1>1 DEF PairEgress, Waiting
  <1>3. i \in Nat /\ j \in Nat /\ j + 1 \in Nat
    BY DEF TypeInv, PairInv
  <1>4. PICK q \in Seq(Nat) : q = ingress_q[k] /\ q # <<>>
    <2>1. 1 .. i \subseteq Nat /\ ingress_q[k] \in Seq(1 .. i)
      BY <1>2 DEF TypeInv, PairInv
    <2>2. ingress_q[k] \in Seq(Nat)
      BY <2>1, SeqWider
    <2>. QED  BY <1>2, <2>2
  <1>5. PICK h \in Nat : h = Head(q)
    BY <1>4, TailFacts
  <1>6. Range(q) = {h} \union Range(Tail(q))
    BY <1>4, <1>5, RangeTail
  <1>7. PICK ps \in Seq(Nat \X Nat) : ps = pairs
    <2>1. PICK A : A = (1 .. i) \X (1 .. j)
      OBVIOUS
    <2>2. A \subseteq Nat \X Nat /\ pairs \in Seq(A)
      BY <1>3, <2>1 DEF TypeInv, PairInv
    <2>3. pairs \in Seq(Nat \X Nat)
      BY <2>2, SeqWider
    <2>. QED  BY <2>3
  <1>8. PICK p \in Nat \X Nat : p = <<h, j + 1>> /\ p[1] = h /\ p[2] = j + 1
    <2>1. PICK m \in Nat : m = j + 1
      BY <1>3
    <2>2. PICK p : p = <<h, m>>
      OBVIOUS
    <2>3. p \in Nat \X Nat /\ p[1] = h /\ p[2] = m
      BY <2>2
    <2>. QED  BY <2>1, <2>2, <2>3
  <1>9. /\ DOMAIN pairs' = DOMAIN pairs \union {Len(ps) + 1}
        /\ pairs'[Len(ps) + 1] = p
        /\ \A m \in DOMAIN pairs : pairs'[m] = pairs[m]
    <2>1. PICK t : t = Append(ps, p)
      OBVIOUS
    <2>2. /\ DOMAIN t = DOMAIN ps \union {Len(ps) + 1}
          /\ t[Len(ps) + 1] = p
          /\ \A m \in DOMAIN ps : t[m] = ps[m]
      BY <2>1, RangeAppend
    <2>3. t = pairs'
      BY <1>2, <1>4, <1>5, <1>7, <1>8, <2>1
    <2>. QED  BY <1>7, <2>2, <2>3
  <1>10. /\ DOMAIN ingress_q' = DOMAIN ingress_q
         /\ \A x \in DOMAIN ingress_q : \A n \in Range(ingress_q[x]) : n = h \/ n \in Range(ingress_q'[x])
    BY <1>2, <1>4, <1>6
  <1>11. ASSUME NEW n \in 1 .. i
         PROVE  \/ \E x \in DOMAIN pairs' : pairs'[x][1] = n
                \/ n \in Range(ingress_q'[ingress_events[n].key])
    <2>1. CASE \E x \in DOMAIN pairs : pairs[x][1] = n
      BY <1>9, <2>1
    <2>2. CASE n \in Range(ingress_q[ingress_events[n].key])
      <3>1. ingress_events[n].key \in DOMAIN ingress_q
        <4>1. n \in DOMAIN ingress_events
          BY <1>3 DEF TypeInv, PairInv
        <4>. QED  BY <4>1 DEF CoverInv
      <3>2. CASE n = h
        BY <1>8, <1>9, <3>2
      <3>. QED  BY <1>10, <2>2, <3>1, <3>2
    <2>. QED  BY <2>1, <2>2 DEF CoverInv
  <1>12. ASSUME NEW n \in 1 .. j + 1
         PROVE  \/ \E x \in DOMAIN pairs' : pairs'[x][2] = n
                \/ n \in Range(unmatched_egress)
    <2>1. n \in 1 .. j \/ n = j + 1
      BY <1>3
    <2>. QED  BY <1>8, <1>9, <2>1 DEF CoverInv
  <1>13. ASSUME NEW n \in Range(unmatched_egress), NEW x \in DOMAIN pairs' PROVE pairs'[x][2] # n
    <2>1. n \in 1 .. j
      BY RangeOfSeq DEF TypeInv, PairInv
    <2>2. n # j + 1
      BY <1>3, <2>1
    <2>. QED  BY <1>8, <1>9, <2>2 DEF CoverInv
  <1>. QED  BY <1>2, <1>10, <1>11, <1>12, <1>13 DEF CoverInv

\* A packet that leaves and finds no other is unmatched.
LEMMA LoneCovers == TypeInv /\ CoverInv /\ LoneEgress => CoverInv'
  <1>. SUFFICES ASSUME TypeInv, CoverInv, LoneEgress PROVE CoverInv'
    OBVIOUS
  <1>1. /\ j' = j + 1 /\ unmatched_egress' = Append(unmatched_egress, j + 1)
        /\ UNCHANGED <<ingress_events, egress_events, ingress_q, i, pairs>>
    BY DEF LoneEgress
  <1>2. j \in Nat /\ j + 1 \in Nat
    BY DEF TypeInv, PairInv
  <1>3. Range(unmatched_egress') = Range(unmatched_egress) \union {j + 1}
    <2>1. PICK u \in Seq(Nat) : u = unmatched_egress
      <3>1. 1 .. j \subseteq Nat /\ unmatched_egress \in Seq(1 .. j)
        BY DEF TypeInv, PairInv
      <3>2. unmatched_egress \in Seq(Nat)
        BY <3>1, SeqWider
      <3>. QED  BY <3>2
    <2>2. PICK m \in Nat : m = j + 1
      BY <1>2
    <2>3. PICK t : t = Append(u, m)
      OBVIOUS
    <2>4. Range(t) = Range(u) \union {m}
      BY <2>3, RangeAppendNat
    <2>. QED  BY <1>1, <2>1, <2>2, <2>3, <2>4
  <1>4. ASSUME NEW x \in DOMAIN pairs PROVE pairs[x][2] # j + 1
    <2>1. pairs[x] \in (1 .. i) \X (1 .. j)
      <3>1. PICK A : A = (1 .. i) \X (1 .. j)
        OBVIOUS
      <3>2. PICK ps \in Seq(A) : ps = pairs
        BY <3>1 DEF TypeInv, PairInv
      <3>. QED  BY <3>1, <3>2
    <2>. QED  BY <1>2, <2>1
  <1>5. \A n \in 1 .. j + 1 : n \in 1 .. j \/ n = j + 1
    BY <1>2
  <1>. QED  BY <1>1, <1>3, <1>4, <1>5 DEF CoverInv

\* It starts with nothing.
LEMMA FreshCovers ==
  ASSUME NEW ingress, NEW egress, AnalyzePaths(ingress, egress)
  PROVE  CoverInv'
  <1>1. /\ i' = 0 /\ j' = 0 /\ pairs' = <<>> /\ unmatched_egress' = <<>> /\ ingress_events' = ingress
        /\ DOMAIN ingress_q' = {ingress[n].key : n \in DOMAIN ingress}
    BY DEF AnalyzePaths
  <1>2. \A n : n \notin 1 .. 0
    OBVIOUS
  <1>3. Range(<<>>) = {}
    BY DEF Range
  <1>. QED  BY <1>1, <1>2, <1>3 DEF CoverInv

\* CoverInv is inductive under the types.
LEMMA CoverStep == TypeInv /\ CoverInv /\ [Next]_vars => CoverInv'
  <1>. SUFFICES ASSUME TypeInv, CoverInv, [Next]_vars PROVE CoverInv'
    OBVIOUS
  <1>0. UNCHANGED pairing => CoverInv'
    BY DEF CoverInv, pairing
  <1>1. CASE Measure \/ StartReport \/ Exited \/ UNCHANGED vars
    BY <1>0, <1>1 DEF Measure, StartReport, DiscoverRecords, Exited, vars
  <1>2. CASE StoreResult \/ WriteReport
    BY <1>0, <1>2 DEF StoreResult, WriteReport
  <1>3. CASE LoadRecord
    <2>1. PICK ingress, egress : AnalyzePaths(ingress, egress)
      BY <1>3 DEF LoadRecord
    <2>. QED  BY <2>1, FreshCovers
  <1>4. CASE PairRecord
    BY <1>4, EnqueueCovers, PairCovers, LoneCovers DEF PairRecord, PairingStep
  <1>. QED  BY <1>1, <1>2, <1>3, <1>4 DEF Next, Report, ReportStep

\* At the start there is nothing to lose.
LEMMA CoverInit == Init => CoverInv
  <1>. SUFFICES ASSUME PairingInit PROVE CoverInv
    BY DEF Init
  <1>1. /\ i = 0 /\ j = 0 /\ pairs = <<>> /\ unmatched_egress = <<>>
        /\ DOMAIN ingress_q = {} /\ DOMAIN ingress_events = {}
    BY DEF PairingInit
  <1>2. \A n : n \notin 1 .. 0
    OBVIOUS
  <1>3. Range(<<>>) = {}
    BY DEF Range
  <1>. QED  BY <1>1, <1>2, <1>3 DEF CoverInv

\* A finite set is split into the image of an injection and a rest.
LEMMA CountSplit ==
  ASSUME NEW P, IsFiniteSet(P), NEW M, NEW f \in [M -> P],
         \A m, n \in M : m # n => f[m] # f[n],
         NEW U \in SUBSET P,
         \A p \in P : p \in U \/ \E m \in M : f[m] = p,
         \A m \in M : f[m] \notin U
  PROVE  /\ IsFiniteSet(M) /\ IsFiniteSet(U)
         /\ Cardinality(P) \in Nat /\ Cardinality(M) \in Nat /\ Cardinality(U) \in Nat
         /\ Cardinality(P) = Cardinality(M) + Cardinality(U)
  <1>1. f \in Injection(M, P)
    BY DEF Injection, IsInjective
  <1>2. IsFiniteSet(M) /\ IsFiniteSet(U)
    BY <1>1, FS_Injection, FS_Subset
  <1>3. f \in Bijection(M, P \ U)
    BY DEF Bijection, Injection, Surjection, IsInjective
  <1>4. IsFiniteSet(P \ U) /\ Cardinality(P \ U) = Cardinality(P) - Cardinality(P \cap U)
    BY FS_Difference
  <1>5. P \cap U = U
    OBVIOUS
  <1>6. Cardinality(P \ U) = Cardinality(M)
    <2>1. ExistsBijection(M, P \ U)
      BY <1>3 DEF ExistsBijection
    <2>. QED  BY <1>2, <2>1, FS_Bijection
  <1>7. Cardinality(P) \in Nat /\ Cardinality(M) \in Nat /\ Cardinality(U) \in Nat
    BY <1>2, FS_CardinalityType
  <1>8. Cardinality(M) = Cardinality(P) - Cardinality(U)
    BY <1>4, <1>5, <1>6
  <1>9. Cardinality(P) = Cardinality(M) + Cardinality(U)
    BY <1>7, <1>8
  <1>. QED  BY <1>2, <1>7, <1>9

\* A finite set is split into a part and the rest of it.
LEMMA CountPart ==
  ASSUME NEW P, IsFiniteSet(P), NEW U \in SUBSET P
  PROVE  /\ Cardinality(P) \in Nat /\ Cardinality(U) \in Nat /\ Cardinality(P \ U) \in Nat
         /\ Cardinality(P) = Cardinality(U) + Cardinality(P \ U)
  <1>1. P \cap U = U
    OBVIOUS
  <1>2. IsFiniteSet(U) /\ IsFiniteSet(P \ U)
    BY FS_Subset
  <1>3. Cardinality(P \ U) = Cardinality(P) - Cardinality(P \cap U)
    BY FS_Difference
  <1>4. Cardinality(P) \in Nat /\ Cardinality(U) \in Nat /\ Cardinality(P \ U) \in Nat
    BY <1>2, FS_CardinalityType
  <1>. QED  BY <1>1, <1>3, <1>4

\* Packets of one key are of the same classes.
LEMMA KeysTellClasses ==
  ASSUME NEW p \in Packet, NEW q \in Packet, p.key = q.key
  PROVE  p.classes = q.classes
  <1>1. PICK f \in DOMAIN Fields : \E ts \in Int : p = ParseIpv4Tcp(ts, Fields[f])
    BY DEF Packet
  <1>2. PICK g \in DOMAIN Fields : \E ts \in Int : q = ParseIpv4Tcp(ts, Fields[g])
    BY DEF Packet
  <1>3. PICK a : a = Fields[f]
    OBVIOUS
  <1>4. PICK b : b = Fields[g]
    OBVIOUS
  <1>5. /\ p.key = PacketKey(a) /\ p.classes = PacketClasses(PayloadLen(a), a.msg)
        /\ q.key = PacketKey(b) /\ q.classes = PacketClasses(PayloadLen(b), b.msg)
    BY <1>1, <1>2, <1>3, <1>4 DEF ParseIpv4Tcp
  <1>6. PacketKey(a)[5] = PayloadLen(a) /\ PacketKey(a)[6] = a.msg
    BY DEF PacketKey
  <1>7. PacketKey(b)[5] = PayloadLen(b) /\ PacketKey(b)[6] = b.msg
    BY DEF PacketKey
  <1>. QED  BY <1>5, <1>6, <1>7

\* Every packet is of the class of all, and at most of one class of the payload.
LEMMA ClassesDisjoint ==
  ASSUME NEW p \in Packet
  PROVE  /\ class_all \in p.classes
         /\ \A a, b \in {CLASS_OPN_CERT, CLASS_OPN_NO_CERT, CLASS_OTHER} :
               a \in p.classes /\ b \in p.classes => a = b
         /\ p.ts \in Int
  <1>1. PICK f \in DOMAIN Fields, ts \in Int : p = ParseIpv4Tcp(ts, Fields[f])
    BY DEF Packet
  <1>2. PICK n, msg : p.classes = PacketClasses(n, msg)
    BY <1>1 DEF ParseIpv4Tcp
  <1>3. \/ p.classes = {class_all} \/ p.classes = {class_all, CLASS_OTHER}
        \/ p.classes = {class_all, CLASS_OPN_CERT} \/ p.classes = {class_all, CLASS_OPN_NO_CERT}
    BY <1>2 DEF PacketClasses
  <1>4. class_all \notin {CLASS_OPN_CERT, CLASS_OPN_NO_CERT, CLASS_OTHER}
    BY DEF class_all, CLASS_OPN_CERT, CLASS_OPN_NO_CERT, CLASS_OTHER
  <1>5. p.ts \in Int
    BY <1>1 DEF ParseIpv4Tcp
  <1>. QED  BY <1>3, <1>4, <1>5

\* What a class has of the packets that entered, when all are through.
Matched(c) == {n \in DOMAIN pairs : pairs[n][1] \in Entered(c)}
Late(c) == {n \in Matched(c) : Delay(pairs[n]) < 0}

\* The pairing has what each place of a pair is.
LEMMA PairsType ==
  ASSUME TypeInv, FifoInv
  PROVE  /\ pairs \in Seq((1 .. i) \X (1 .. j)) /\ DOMAIN pairs = 1 .. Len(pairs) /\ Len(pairs) \in Nat
         /\ \A n \in DOMAIN pairs :
              /\ pairs[n][1] \in 1 .. i /\ pairs[n][2] \in 1 .. j
              /\ pairs[n][1] \in DOMAIN ingress_events /\ pairs[n][2] \in DOMAIN egress_events
              /\ ingress_events[pairs[n][1]] \in Packet /\ egress_events[pairs[n][2]] \in Packet
              /\ ingress_events[pairs[n][1]].key = egress_events[pairs[n][2]].key
         /\ \A m, n \in DOMAIN pairs : m # n => pairs[m][1] # pairs[n][1] /\ pairs[m][2] # pairs[n][2]
  <1>1. PICK A : A = (1 .. i) \X (1 .. j)
    OBVIOUS
  <1>2. PICK ps \in Seq(A) : ps = pairs
    BY <1>1 DEF TypeInv, PairInv
  <1>3. DOMAIN ps = 1 .. Len(ps) /\ Len(ps) \in Nat /\ \A n \in DOMAIN ps : ps[n] \in A
    OBVIOUS
  <1>4. \A n \in DOMAIN pairs : pairs[n][1] \in 1 .. i /\ pairs[n][2] \in 1 .. j
    BY <1>1, <1>2, <1>3
  <1>5. /\ 1 .. i \subseteq DOMAIN ingress_events /\ 1 .. j \subseteq DOMAIN egress_events
        /\ \A n \in DOMAIN ingress_events : ingress_events[n] \in Packet
        /\ \A n \in DOMAIN egress_events : egress_events[n] \in Packet
    BY DEF TypeInv, PairInv
  <1>6. Ordered(ingress_events, egress_events, pairs, i, j)
    BY DEF FifoInv
  <1>7. \A n \in DOMAIN pairs : ingress_events[pairs[n][1]].key = egress_events[pairs[n][2]].key
    BY <1>2, <1>3, <1>6 DEF Ordered
  <1>8. ASSUME NEW m \in DOMAIN pairs, NEW n \in DOMAIN pairs, m < n
        PROVE  pairs[m][1] # pairs[n][1] /\ pairs[m][2] # pairs[n][2]
    <2>1. pairs[m][2] < pairs[n][2]
      BY <1>2, <1>3, <1>6, <1>8 DEF Ordered
    <2>2. ingress_events[pairs[m][1]].key = ingress_events[pairs[n][1]].key => pairs[m][1] < pairs[n][1]
      BY <1>2, <1>3, <1>6, <1>8 DEF Ordered
    <2>3. pairs[m][1] \in Int /\ pairs[m][2] \in Int
      BY <1>4
    <2>. QED  BY <2>1, <2>2, <2>3
  <1>9. \A m, n \in DOMAIN pairs : m # n => pairs[m][1] # pairs[n][1] /\ pairs[m][2] # pairs[n][2]
    <2>1. \A m, n \in DOMAIN pairs : m # n => m < n \/ n < m
      BY <1>2, <1>3
    <2>. QED  BY <1>8, <2>1
  <1>. QED  BY <1>1, <1>2, <1>3, <1>4, <1>5, <1>7, <1>9

\* What entered of a class is in a pair or still queued.
LEMMA IngressCounts ==
  ASSUME TypeInv, FifoInv, CoverInv, Paired, NEW c
  PROVE  /\ IsFiniteSet(Entered(c)) /\ IsFiniteSet(Matched(c))
         /\ Cardinality(Entered(c)) \in Nat /\ Cardinality(Matched(c)) \in Nat
         /\ Cardinality(UnmatchedIngress \cap Entered(c)) \in Nat
         /\ Cardinality(Entered(c)) = Cardinality(Matched(c)) + Cardinality(UnmatchedIngress \cap Entered(c))
  <1>. DEFINE P == Entered(c)
              M == Matched(c)
              U == UnmatchedIngress \cap Entered(c)
              f == [n \in M |-> pairs[n][1]]
  <1>1. IsFiniteSet(P)
    <2>1. DOMAIN ingress_events = 1 .. Len(ingress_events) /\ Len(ingress_events) \in Nat
      BY DEF TypeInv, PairInv
    <2>2. IsFiniteSet(1 .. Len(ingress_events))
      BY <2>1, FS_Interval
    <2>3. P \in SUBSET (1 .. Len(ingress_events))
      BY <2>1 DEF Entered
    <2>. QED  BY <2>2, <2>3, FS_Subset
  <1>2. f \in [M -> P] /\ \A m, n \in M : m # n => f[m] # f[n]
    BY PairsType DEF Matched
  <1>3. U \in SUBSET P
    OBVIOUS
  <1>4. ASSUME NEW p \in P PROVE p \in U \/ \E m \in M : f[m] = p
    <2>1. p \in 1 .. i
      BY DEF Entered, Paired, TypeInv, PairInv
    <2>2. CASE \E x \in DOMAIN pairs : pairs[x][1] = p
      BY <2>2 DEF Matched
    <2>3. CASE p \in Range(ingress_q[ingress_events[p].key])
      <3>1. ingress_events[p].key \in DOMAIN ingress_q
        BY DEF CoverInv, Entered
      <3>. QED  BY <2>3, <3>1 DEF UnmatchedIngress
    <2>. QED  BY <2>1, <2>2, <2>3 DEF CoverInv
  <1>5. ASSUME NEW m \in M PROVE f[m] \notin U
    <2>1. m \in DOMAIN pairs /\ f[m] = pairs[m][1]
      BY DEF Matched
    <2>2. ASSUME NEW k \in DOMAIN ingress_q, pairs[m][1] \in Range(ingress_q[k]) PROVE FALSE
      <3>1. InOrder(ingress_events, ingress_q[k], k, i) /\ Ahead(ingress_events, pairs, k, ingress_q[k])
        BY DEF FifoInv
      <3>2. PICK x \in DOMAIN ingress_q[k] : ingress_q[k][x] = pairs[m][1]
        BY <2>2 DEF Range
      <3>3. x \in 1 .. Len(ingress_q[k])
        BY <3>1 DEF InOrder
      <3>4. ingress_events[pairs[m][1]].key = k /\ m \in 1 .. Len(pairs)
        BY <2>1, <3>1, <3>2, <3>3, PairsType DEF InOrder
      <3>5. pairs[m][1] < pairs[m][1]
        BY <3>1, <3>2, <3>3, <3>4 DEF Ahead
      <3>6. pairs[m][1] \in Int
        BY <2>1, PairsType
      <3>. QED  BY <3>5, <3>6
    <2>. QED  BY <2>1, <2>2 DEF UnmatchedIngress
  <1>. HIDE DEF P, M, U, f
  <1>6. /\ Cardinality(P) \in Nat /\ Cardinality(U) \in Nat
        /\ Cardinality(P) = Cardinality(M) + Cardinality(U)
    BY <1>1, <1>2, <1>3, <1>4, <1>5, CountSplit
  <1>7. IsFiniteSet(M)
    BY <1>1, <1>2, <1>3, <1>4, <1>5, CountSplit
  <1>8. Cardinality(M) \in Nat
    BY <1>7, FS_CardinalityType
  <1>. QED  BY <1>1, <1>6, <1>7, <1>8 DEF P, M, U

\* What left of a class is in a pair or unmatched.
LEMMA EgressCounts ==
  ASSUME TypeInv, FifoInv, CoverInv, Paired, NEW c
  PROVE  /\ Cardinality(Left(c)) \in Nat
         /\ Cardinality(Range(unmatched_egress) \cap Left(c)) \in Nat
         /\ Cardinality(Left(c)) = Cardinality(Matched(c)) + Cardinality(Range(unmatched_egress) \cap Left(c))
  <1>. DEFINE P == Left(c)
              M == Matched(c)
              U == Range(unmatched_egress) \cap Left(c)
              f == [n \in M |-> pairs[n][2]]
  <1>1. IsFiniteSet(P)
    <2>1. DOMAIN egress_events = 1 .. Len(egress_events) /\ Len(egress_events) \in Nat
      BY DEF TypeInv, PairInv
    <2>2. IsFiniteSet(1 .. Len(egress_events))
      BY <2>1, FS_Interval
    <2>3. P \in SUBSET (1 .. Len(egress_events))
      BY <2>1 DEF Left
    <2>. QED  BY <2>2, <2>3, FS_Subset
  <1>0. \A n \in DOMAIN pairs : pairs[n][1] \in Entered(c) <=> pairs[n][2] \in Left(c)
    <2>1. ASSUME NEW n \in DOMAIN pairs
          PROVE  ingress_events[pairs[n][1]].classes = egress_events[pairs[n][2]].classes
      BY PairsType, KeysTellClasses
    <2>. QED  BY <2>1, PairsType DEF Entered, Left
  <1>2. f \in [M -> P] /\ \A m, n \in M : m # n => f[m] # f[n]
    BY <1>0, PairsType DEF Matched
  <1>3. U \in SUBSET P
    OBVIOUS
  <1>4. ASSUME NEW p \in P PROVE p \in U \/ \E m \in M : f[m] = p
    <2>1. p \in 1 .. j
      BY DEF Left, Paired, TypeInv, PairInv
    <2>2. CASE \E x \in DOMAIN pairs : pairs[x][2] = p
      BY <1>0, <2>2 DEF Matched
    <2>3. CASE p \in Range(unmatched_egress)
      BY <2>3
    <2>. QED  BY <2>1, <2>2, <2>3 DEF CoverInv
  <1>5. ASSUME NEW m \in M PROVE f[m] \notin U
    BY DEF Matched, CoverInv
  <1>. HIDE DEF P, M, U, f
  <1>6. /\ Cardinality(P) \in Nat /\ Cardinality(U) \in Nat
        /\ Cardinality(P) = Cardinality(M) + Cardinality(U)
    BY <1>1, <1>2, <1>3, <1>4, <1>5, CountSplit
  <1>. QED  BY <1>6 DEF P, M, U

\* The latencies of a class: one for each pair that is not late.
LEMMA LatencyCounts ==
  ASSUME TypeInv, FifoInv, NEW c, NEW v, v = Results(c)
  PROVE  /\ v.latencies \in Seq(Int)
         /\ Len(v.latencies) = Cardinality(Matched(c) \ Late(c))
  <1>1. PICK A : A = (1 .. i) \X (1 .. j)
    OBVIOUS
  <1>2. PICK ps \in Seq(A) : ps = pairs
    BY <1>1 DEF TypeInv, PairInv
  <1>3. PICK P \in SUBSET (DOMAIN ps) : P = Matched(c) \ Late(c)
    BY <1>2 DEF Matched
  <1>4. PICK timed \in Seq(A) : timed = At(ps, P) /\ Len(timed) = Cardinality(P)
    BY AtType
  <1>5. PICK n \in Nat : n = Len(timed) /\ DOMAIN timed = 1 .. n
    OBVIOUS
  <1>6. ASSUME NEW m \in 1 .. n PROVE Delay(timed[m]) \in Int
    <2>1. timed[m] \in A
      BY <1>5
    <2>2. /\ timed[m][1] \in DOMAIN ingress_events /\ timed[m][2] \in DOMAIN egress_events
      BY <1>1, <2>1 DEF TypeInv, PairInv
    <2>3. /\ ingress_events[timed[m][1]] \in Packet /\ egress_events[timed[m][2]] \in Packet
      BY <2>2 DEF TypeInv, PairInv
    <2>4. ingress_events[timed[m][1]].ts \in Int /\ egress_events[timed[m][2]].ts \in Int
      BY <2>3, ClassesDisjoint
    <2>. QED  BY <2>4 DEF Delay
  <1>7. PICK d \in [1 .. n -> Int] : d = [m \in DOMAIN timed |-> Delay(timed[m])]
    BY <1>5, <1>6
  <1>8. d \in Seq(Int) /\ Len(d) = n /\ DOMAIN d = 1 .. n
    OBVIOUS
  <1>9. SortedBy(d, d) \in Seq(Int) /\ Len(SortedBy(d, d)) = n
    <2>1. d \in [DOMAIN d -> Int]
      BY <1>8
    <2>2. PICK V, s : V = Int /\ s = d
      OBVIOUS
    <2>3. s \in Seq(V) /\ d \in [DOMAIN s -> Int]
      BY <1>8, <2>1, <2>2
    <2>4. SortedBy(s, d) \in Seq(V) /\ Len(SortedBy(s, d)) = Len(s)
      BY <2>3, SortedType
    <2>. QED  BY <1>8, <2>2, <2>4
  <1>10. v.latencies = SortedBy(d, d)
    BY <1>2, <1>3, <1>4, <1>7 DEF Results, Matched, Late
  <1>. QED  BY <1>3, <1>4, <1>5, <1>9, <1>10

\* The counters of a class.
LEMMA ResultsAre ==
  ASSUME NEW c, NEW v, v = Results(c)
  PROVE  /\ v.ingress_packets = Cardinality(Entered(c)) /\ v.egress_packets = Cardinality(Left(c))
         /\ v.matched_packets = Cardinality(Matched(c))
         /\ v.unmatched_ingress = Cardinality(UnmatchedIngress \cap Entered(c))
         /\ v.unmatched_egress = Cardinality(Range(unmatched_egress) \cap Left(c))
         /\ v.negative_delay_matches = Cardinality(Late(c))
  BY DEF Results, Matched, Late

\* The counters of one class add up.
LEMMA ClassCounts ==
  ASSUME TypeInv, FifoInv, CoverInv, Paired, NEW c, NEW v, v = Results(c)
  PROVE  /\ v.ingress_packets \in Nat /\ v.matched_packets \in Nat /\ v.unmatched_ingress \in Nat
         /\ v.egress_packets \in Nat /\ v.unmatched_egress \in Nat /\ v.negative_delay_matches \in Nat
         /\ v.ingress_packets = v.matched_packets + v.unmatched_ingress
         /\ v.egress_packets = v.matched_packets + v.unmatched_egress
         /\ v.matched_packets = v.negative_delay_matches + Len(v.latencies)
  <1>1. /\ v.ingress_packets = Cardinality(Entered(c)) /\ v.egress_packets = Cardinality(Left(c))
        /\ v.matched_packets = Cardinality(Matched(c))
        /\ v.unmatched_ingress = Cardinality(UnmatchedIngress \cap Entered(c))
        /\ v.unmatched_egress = Cardinality(Range(unmatched_egress) \cap Left(c))
        /\ v.negative_delay_matches = Cardinality(Late(c))
    BY ResultsAre
  <1>2. IsFiniteSet(Matched(c)) /\ Late(c) \in SUBSET Matched(c)
    BY IngressCounts DEF Late
  <1>3. /\ Cardinality(Late(c)) \in Nat /\ Cardinality(Matched(c) \ Late(c)) \in Nat
        /\ Cardinality(Matched(c)) = Cardinality(Late(c)) + Cardinality(Matched(c) \ Late(c))
    BY <1>2, CountPart
  <1>4. Len(v.latencies) = Cardinality(Matched(c) \ Late(c))
    BY LatencyCounts
  <1>5. /\ Cardinality(Entered(c)) \in Nat /\ Cardinality(Matched(c)) \in Nat
        /\ Cardinality(UnmatchedIngress \cap Entered(c)) \in Nat
        /\ Cardinality(Entered(c)) = Cardinality(Matched(c)) + Cardinality(UnmatchedIngress \cap Entered(c))
    BY IngressCounts
  <1>6. /\ Cardinality(Left(c)) \in Nat
        /\ Cardinality(Range(unmatched_egress) \cap Left(c)) \in Nat
        /\ Cardinality(Left(c)) = Cardinality(Matched(c)) + Cardinality(Range(unmatched_egress) \cap Left(c))
    BY EgressCounts
  <1>. QED  BY <1>1, <1>3, <1>4, <1>5, <1>6

\* The classes of the payload never count a packet twice.
LEMMA PayloadCounts ==
  ASSUME TypeInv, FifoInv, CoverInv, Paired
  PROVE  Cardinality(Entered(CLASS_OPN_CERT)) + Cardinality(Entered(CLASS_OPN_NO_CERT))
           + Cardinality(Entered(CLASS_OTHER)) <= Cardinality(Entered(class_all))
  <1>1. PICK P, A, B, C : /\ P = Entered(class_all) /\ A = Entered(CLASS_OPN_CERT)
                          /\ B = Entered(CLASS_OPN_NO_CERT) /\ C = Entered(CLASS_OTHER)
    OBVIOUS
  <1>2. \A n \in DOMAIN ingress_events : ingress_events[n] \in Packet
    BY DEF TypeInv, PairInv
  <1>3. CLASS_OPN_CERT # CLASS_OPN_NO_CERT /\ CLASS_OPN_CERT # CLASS_OTHER /\ CLASS_OPN_NO_CERT # CLASS_OTHER
    BY DEF CLASS_OPN_CERT, CLASS_OPN_NO_CERT, CLASS_OTHER
  <1>4. P = DOMAIN ingress_events
    BY <1>1, <1>2, ClassesDisjoint DEF Entered
  <1>5. /\ A \in SUBSET P /\ B \in SUBSET P /\ C \in SUBSET P
        /\ \A x \in A : x \notin B
        /\ \A x \in A \union B : x \notin C
    BY <1>1, <1>2, <1>3, <1>4, ClassesDisjoint DEF Entered
  <1>6. IsFiniteSet(P) /\ Cardinality(P) \in Nat
    BY <1>1, IngressCounts
  <1>7. PICK D : D = A \union B /\ D \in SUBSET P /\ A \in SUBSET D /\ D \ A = B
    BY <1>5
  <1>8. IsFiniteSet(D)
    BY <1>6, <1>7, FS_Subset
  <1>9. /\ Cardinality(D) \in Nat /\ Cardinality(A) \in Nat /\ Cardinality(D \ A) \in Nat
        /\ Cardinality(D) = Cardinality(A) + Cardinality(D \ A)
    BY <1>7, <1>8, CountPart
  <1>10. PICK E : E = D \union C /\ E \in SUBSET P /\ D \in SUBSET E /\ E \ D = C
    <2>1. \A x \in C : x \notin D
      BY <1>5, <1>7
    <2>2. (D \union C) \ D = C /\ D \union C \in SUBSET P
      BY <1>5, <1>7, <2>1
    <2>. QED  BY <2>2
  <1>11. IsFiniteSet(E) /\ Cardinality(E) <= Cardinality(P)
    BY <1>6, <1>10, FS_Subset
  <1>12. /\ Cardinality(E) \in Nat /\ Cardinality(E \ D) \in Nat
         /\ Cardinality(E) = Cardinality(D) + Cardinality(E \ D)
    BY <1>10, <1>11, CountPart
  <1>. QED  BY <1>1, <1>6, <1>7, <1>9, <1>10, <1>11, <1>12

\* What is stored adds up.
ValuesInv ==
  \A k \in DOMAIN values : CountersAddUp(values[k])

\* What is stored of a record adds up.
LEMMA StoredAddUp ==
  ASSUME TypeInv, FifoInv, CoverInv, Paired, NEW v, v = [c \in Classes |-> Results(c)]
  PROVE  CountersAddUp(v)
  <1>1. ASSUME NEW c \in Classes
        PROVE  /\ v[c].ingress_packets = v[c].matched_packets + v[c].unmatched_ingress
               /\ v[c].egress_packets = v[c].matched_packets + v[c].unmatched_egress
               /\ v[c].matched_packets = v[c].negative_delay_matches + Len(v[c].latencies)
    <2>1. PICK r : r = v[c] /\ r = Results(c)
      OBVIOUS
    <2>. QED  BY <2>1, ClassCounts
  <1>2. {CLASS_OPN_CERT, CLASS_OPN_NO_CERT, CLASS_OTHER, class_all} \subseteq Classes
    BY DEF Classes
  <1>3. \A c \in Classes : v[c].ingress_packets = Cardinality(Entered(c))
    BY ResultsAre
  <1>. QED  BY <1>1, <1>2, <1>3, PayloadCounts DEF CountersAddUp

\* A fold over a finite set: an element is chosen of each set and added to what the
\* others make.
ChoosesFrom(choice, S) == \A s \in SUBSET S : s # {} => choice[s] \in s
StepsIn(step, S, V) == \A x \in S : \A a \in V : step[x][a] \in V
IsFold(g, S, base, choice, step) ==
  \A s \in SUBSET S : g[s] = IF s = {} THEN base ELSE step[choice[s]][g[s \ {choice[s]}]]

\* It exists, as a function of the subsets.
LEMMA FoldExists ==
  ASSUME NEW S, IsFiniteSet(S), NEW V, NEW base, base \in V,
         NEW ch, ChoosesFrom(ch, S), NEW step, StepsIn(step, S, V)
  PROVE  \E g \in [SUBSET S -> V] : IsFold(g, S, base, ch, step)
  <1>. DEFINE D(n) == {s \in SUBSET S : Cardinality(s) <= n}
              F(g, s) == IF s = {} THEN base ELSE step[ch[s]][g[s \ {ch[s]}]]
              Is(n, g) == g \in [D(n) -> V] /\ \A s \in D(n) : g[s] = F(g, s)
              Ns == {n \in Nat : \E g : Is(n, g)}
  <1>1. \A s \in SUBSET S : IsFiniteSet(s) /\ Cardinality(s) \in Nat /\ (Cardinality(s) = 0 <=> s = {})
    BY FS_Subset, FS_CardinalityType, FS_EmptySet
  <1>2. \A s \in SUBSET S : s # {} => /\ s \ {ch[s]} \in SUBSET S
                                      /\ Cardinality(s \ {ch[s]}) = Cardinality(s) - 1
    BY <1>1, FS_RemoveElement DEF ChoosesFrom
  <1>3. 0 \in Ns
    <2>1. D(0) = {{}}
      BY <1>1
    <2>2. PICK g : g = [s \in D(0) |-> base]
      OBVIOUS
    <2>3. Is(0, g)
      BY <2>1, <2>2
    <2>. QED  BY <2>3
  <1>4. ASSUME NEW n \in Nat, n \in Ns PROVE n + 1 \in Ns
    <2>1. PICK g : Is(n, g)
      BY <1>4
    <2>2. \A s \in D(n + 1) : s # {} => s \ {ch[s]} \in D(n)
      BY <1>1, <1>2
    <2>3. D(n) \subseteq D(n + 1)
      BY <1>1
    <2>4. PICK h : h = [s \in D(n + 1) |-> F(g, s)]
      OBVIOUS
    <2>5. h \in [D(n + 1) -> V]
      <3>1. ASSUME NEW s \in D(n + 1) PROVE F(g, s) \in V
        <4>1. CASE s = {}
          BY <4>1
        <4>2. CASE s # {}
          <5>1. g[s \ {ch[s]}] \in V /\ ch[s] \in S
            BY <2>1, <2>2, <4>2 DEF ChoosesFrom
          <5>. QED  BY <4>2, <5>1 DEF StepsIn
        <4>. QED  BY <4>1, <4>2
      <3>. HIDE DEF F
      <3>. QED  BY <2>4, <3>1
    <2>6. \A s \in D(n) : h[s] = g[s]
      <3>. HIDE DEF F, D
      <3>. QED  BY <2>1, <2>3, <2>4 DEF Is
    <2>7. ASSUME NEW s \in D(n + 1) PROVE h[s] = F(h, s)
      <3>1. h[s] = F(g, s)
        <4>. HIDE DEF F, D
        <4>. QED  BY <2>4
      <3>2. s # {} => g[s \ {ch[s]}] = h[s \ {ch[s]}]
        <4>. HIDE DEF F, D
        <4>. QED  BY <2>2, <2>6
      <3>. HIDE DEF D
      <3>. QED  BY <3>1, <3>2
    <2>. HIDE DEF D, F
    <2>8. Is(n + 1, h)
      BY <2>5, <2>7
    <2>. HIDE DEF Is
    <2>. QED  BY <2>8
  <1>5. \A n \in Nat : n \in Ns
    <2>. HIDE DEF Ns
    <2>. QED  BY <1>3, <1>4, InductionOnNat
  <1>6. PICK n \in Nat : n = Cardinality(S)
    BY FS_CardinalityType
  <1>7. PICK g : Is(n, g)
    BY <1>5
  <1>8. D(n) = SUBSET S
    BY <1>6, FS_Subset
  <1>. HIDE DEF D
  <1>9. g \in [SUBSET S -> V] /\ \A s \in SUBSET S : g[s] = F(g, s)
    BY <1>7, <1>8
  <1>. QED  BY <1>9 DEF IsFold

\* X holds of nothing, and of a set when it holds of the set without any of its elements.
InductiveOver(S, X) ==
  /\ {} \in X
  /\ \A s \in SUBSET S : s # {} /\ (\A x \in s : s \ {x} \in X) => s \in X

\* Then it holds of every finite set.
LEMMA SubsetInduction ==
  ASSUME NEW S, IsFiniteSet(S), NEW X, InductiveOver(S, X)
  PROVE  S \in X
  <1>. DEFINE Ns == {n \in Nat : \A s \in SUBSET S : Cardinality(s) = n => s \in X}
  <1>1. \A s \in SUBSET S : IsFiniteSet(s) /\ Cardinality(s) \in Nat /\ (Cardinality(s) = 0 <=> s = {})
    BY FS_Subset, FS_CardinalityType, FS_EmptySet
  <1>2. 0 \in Ns
    BY <1>1 DEF InductiveOver
  <1>3. ASSUME NEW n \in Nat, n \in Ns PROVE n + 1 \in Ns
    <2>1. ASSUME NEW s \in SUBSET S, Cardinality(s) = n + 1 PROVE s \in X
      <3>1. s # {}
        BY <1>1, <2>1
      <3>2. ASSUME NEW x \in s PROVE s \ {x} \in X
        <4>1. Cardinality(s \ {x}) = Cardinality(s) - 1
          BY <1>1, FS_RemoveElement
        <4>2. Cardinality(s \ {x}) = n /\ s \ {x} \in SUBSET S
          BY <2>1, <4>1
        <4>. QED  BY <1>3, <4>2
      <3>. QED  BY <3>1, <3>2 DEF InductiveOver
    <2>. QED  BY <2>1
  <1>4. \A n \in Nat : n \in Ns
    <2>. HIDE DEF Ns
    <2>. QED  BY <1>2, <1>3, InductionOnNat
  <1>. QED  BY <1>1, <1>4

\* Fractions, and that the third is the sum of the other two.
Frac == Int \X Int
IsSum(p, q, r) == r[1] * (p[2] * q[2]) = (p[1] * q[2] + q[1] * p[2]) * r[2]

\* Sums and differences of fractions are fractions.
LEMMA FractionTypes ==
  ASSUME NEW p \in Frac, NEW q \in Frac
  PROVE  /\ Plus(p, q) \in Frac /\ Minus(p, q) \in Frac
         /\ Plus(p, q)[1] = p[1] * q[2] + q[1] * p[2] /\ Plus(p, q)[2] = p[2] * q[2]
         /\ Minus(p, q)[1] = p[1] * q[2] + (-q[1]) * p[2] /\ Minus(p, q)[2] = p[2] * q[2]
  <1>1. PICK a \in Int, b \in Int : p[1] = a /\ p[2] = b
    BY DEF Frac
  <1>2. PICK c \in Int, d \in Int : q[1] = c /\ q[2] = d
    BY DEF Frac
  <1>3. a * d + c * b \in Int /\ b * d \in Int /\ a * d + (-c) * b \in Int
    OBVIOUS
  <1>4. Plus(p, q) = <<a * d + c * b, b * d>>
    BY <1>1, <1>2 DEF Plus
  <1>5. Minus(p, q) = <<a * d + (-c) * b, b * d>>
    BY <1>1, <1>2 DEF Minus, Plus
  <1>. QED  BY <1>1, <1>2, <1>3, <1>4, <1>5 DEF Frac

\* Sums of sums.
LEMMA SumsAdd ==
  ASSUME NEW a \in Int, NEW b \in Int, NEW c \in Int, NEW d \in Int, NEW e \in Int, NEW f \in Int,
         NEW p \in Int, NEW q \in Int, NEW r \in Int, NEW s \in Int, NEW t \in Int, NEW u \in Int,
         e * (b * d) = (a * d + c * b) * f,
         t * (q * s) = (p * s + r * q) * u
  PROVE  (t * f + e * u) * ((q * b) * (s * d)) = ((p * b + a * q) * (s * d) + (r * d + c * s) * (q * b)) * (u * f)
  <1>1. (t * f + e * u) * ((q * b) * (s * d)) = (t * (q * s)) * (f * b * d) + (e * (b * d)) * (u * q * s)
    OBVIOUS
  <1>2. ((p * b + a * q) * (s * d) + (r * d + c * s) * (q * b)) * (u * f)
          = ((p * s + r * q) * u) * (f * b * d) + ((a * d + c * b) * f) * (u * q * s)
    OBVIOUS
  <1>. QED  BY <1>1, <1>2

\* Adding a sum to a sum gives a sum.
LEMMA PlusKeepsSums ==
  ASSUME NEW p \in Frac, NEW q \in Frac, NEW r \in Frac, IsSum(p, q, r),
         NEW x \in Frac, NEW y \in Frac, NEW z \in Frac, IsSum(x, y, z)
  PROVE  IsSum(Plus(x, p), Plus(y, q), Plus(z, r))
  <1>1. PICK a \in Int, b \in Int : p[1] = a /\ p[2] = b
    BY DEF Frac
  <1>2. PICK c \in Int, d \in Int : q[1] = c /\ q[2] = d
    BY DEF Frac
  <1>3. PICK e \in Int, f \in Int : r[1] = e /\ r[2] = f
    BY DEF Frac
  <1>4. PICK g \in Int, h \in Int : x[1] = g /\ x[2] = h
    BY DEF Frac
  <1>5. PICK k \in Int, l \in Int : y[1] = k /\ y[2] = l
    BY DEF Frac
  <1>6. PICK m \in Int, n \in Int : z[1] = m /\ z[2] = n
    BY DEF Frac
  <1>7. e * (b * d) = (a * d + c * b) * f /\ m * (h * l) = (g * l + k * h) * n
    BY <1>1, <1>2, <1>3, <1>4, <1>5, <1>6 DEF IsSum
  <1>8. (m * f + e * n) * ((h * b) * (l * d)) = ((g * b + a * h) * (l * d) + (k * d + c * l) * (h * b)) * (n * f)
    BY <1>7, SumsAdd
  <1>9. /\ Plus(x, p)[1] = g * b + a * h /\ Plus(x, p)[2] = h * b
        /\ Plus(y, q)[1] = k * d + c * l /\ Plus(y, q)[2] = l * d
        /\ Plus(z, r)[1] = m * f + e * n /\ Plus(z, r)[2] = n * f
    BY <1>1, <1>2, <1>3, <1>4, <1>5, <1>6, FractionTypes
  <1>. QED  BY <1>8, <1>9 DEF IsSum

\* The way from x to z is as long by y.
LEMMA WaysAdd ==
  ASSUME NEW x \in Int, NEW m \in Int, NEW y \in Int, NEW n \in Int, NEW z \in Int, NEW k \in Int
  PROVE  (z * m + (-x) * k) * ((n * m) * (k * n)) = ((y * m + (-x) * n) * (k * n) + (z * n + (-y) * k) * (n * m)) * (k * m)
  OBVIOUS

\* So do differences: from p to q and from q to r is from p to r.
LEMMA DifferencesSum ==
  ASSUME NEW p \in Frac, NEW q \in Frac, NEW r \in Frac
  PROVE  IsSum(Minus(q, p), Minus(r, q), Minus(r, p))
  <1>1. PICK x \in Int, m \in Int : p[1] = x /\ p[2] = m
    BY DEF Frac
  <1>2. PICK y \in Int, n \in Int : q[1] = y /\ q[2] = n
    BY DEF Frac
  <1>3. PICK z \in Int, k \in Int : r[1] = z /\ r[2] = k
    BY DEF Frac
  <1>4. /\ Minus(q, p)[1] = y * m + (-x) * n /\ Minus(q, p)[2] = n * m
        /\ Minus(r, q)[1] = z * n + (-y) * k /\ Minus(r, q)[2] = k * n
        /\ Minus(r, p)[1] = z * m + (-x) * k /\ Minus(r, p)[2] = k * m
    BY <1>1, <1>2, <1>3, FractionTypes
  <1>5. (z * m + (-x) * k) * ((n * m) * (k * n)) = ((y * m + (-x) * n) * (k * n) + (z * n + (-y) * k) * (n * m)) * (k * m)
    BY WaysAdd
  <1>. QED  BY <1>4, <1>5 DEF IsSum

\* Means over as many runs of what adds up.
LEMMA MeansAdd ==
  ASSUME NEW a \in Int, NEW b \in Int, NEW c \in Int, NEW d \in Int, NEW e \in Int, NEW f \in Int, NEW n \in Int,
         e * (b * d) = (a * d + c * b) * f
  PROVE  e * ((b * n) * (d * n)) + (-(a * (d * n) + c * (b * n))) * (f * n) = 0
  <1>1. e * ((b * n) * (d * n)) = (e * (b * d)) * (n * n)
    OBVIOUS
  <1>2. (-(a * (d * n) + c * (b * n))) * (f * n) = -(((a * d + c * b) * f) * (n * n))
    OBVIOUS
  <1>. QED  BY <1>1, <1>2

\* The mean of what adds up differs by nothing from the sum of the means.
LEMMA MeansDiffer ==
  ASSUME NEW p \in Frac, NEW q \in Frac, NEW r \in Frac, IsSum(p, q, r), NEW n \in Nat
  PROVE  Minus(<<r[1], r[2] * n>>, Plus(<<p[1], p[2] * n>>, <<q[1], q[2] * n>>))[1] = 0
  <1>1. PICK a \in Int, b \in Int : p[1] = a /\ p[2] = b
    BY DEF Frac
  <1>2. PICK c \in Int, d \in Int : q[1] = c /\ q[2] = d
    BY DEF Frac
  <1>3. PICK e \in Int, f \in Int : r[1] = e /\ r[2] = f
    BY DEF Frac
  <1>4. e * (b * d) = (a * d + c * b) * f
    BY <1>1, <1>2, <1>3 DEF IsSum
  <1>5. e * ((b * n) * (d * n)) + (-(a * (d * n) + c * (b * n))) * (f * n) = 0
    BY <1>4, MeansAdd
  <1>6. Plus(<<a, b * n>>, <<c, d * n>>) = <<a * (d * n) + c * (b * n), (b * n) * (d * n)>>
    BY DEF Plus
  <1>7. Minus(<<e, f * n>>, <<a * (d * n) + c * (b * n), (b * n) * (d * n)>>)[1]
          = e * ((b * n) * (d * n)) + (-(a * (d * n) + c * (b * n))) * (f * n)
    BY DEF Minus, Plus
  <1>. QED  BY <1>1, <1>2, <1>3, <1>5, <1>6, <1>7

\* The fold that a mean is taken by, as a function of the subsets of the runs.
Pick(s) == CHOOSE x \in s : TRUE
IsTotal(g, runs, value) ==
  g = [s \in SUBSET runs |-> IF s = {} THEN Whole(0) ELSE Plus(value[Pick(s)], g[s \ {Pick(s)}])]
Total(runs, value) == (CHOOSE g : IsTotal(g, runs, value))[runs]

\* A mean is the total over the number of runs.
LEMMA MeanIs ==
  ASSUME NEW runs, NEW value, runs # {}
  PROVE  MeanOver(runs, value) = <<Total(runs, value)[1], Total(runs, value)[2] * Cardinality(runs)>>
  BY DEF MeanOver, FoldSet, MapThenFoldSet, IsTotal, Pick, Total

\* There is such a function.
LEMMA TotalExists ==
  ASSUME NEW runs, IsFiniteSet(runs), NEW value, \A x \in runs : value[x] \in Frac
  PROVE  \E g : IsTotal(g, runs, value)
  <1>. DEFINE ch == [s \in SUBSET runs |-> Pick(s)]
              step == [x \in runs |-> [a \in Frac |-> Plus(value[x], a)]]
  <1>1. \A s \in SUBSET runs : s # {} => ch[s] \in s
    BY DEF Pick
  <1>2. \A x \in runs : \A a \in Frac : step[x][a] \in Frac
    BY FractionTypes
  <1>3. Whole(0) \in Frac
    BY DEF Whole, Frac
  <1>4. \A s \in SUBSET runs : ch[s] = Pick(s)
    OBVIOUS
  <1>5. \A x \in runs : \A a \in Frac : step[x][a] = Plus(value[x], a)
    OBVIOUS
  <1>. HIDE DEF ch, step
  <1>6. PICK g \in [SUBSET runs -> Frac] :
            \A s \in SUBSET runs : g[s] = IF s = {} THEN Whole(0) ELSE step[ch[s]][g[s \ {ch[s]}]]
    <2>1. PICK V, base, c, st : V = Frac /\ base = Whole(0) /\ c = ch /\ st = step
      OBVIOUS
    <2>4. base \in V
      BY <1>3, <2>1
    <2>2. StepsIn(st, runs, V)
      BY <1>2, <2>1 DEF StepsIn
    <2>5. ChoosesFrom(c, runs)
      BY <1>1, <2>1 DEF ChoosesFrom
    <2>3. \E g \in [SUBSET runs -> V] : IsFold(g, runs, base, c, st)
      BY <2>2, <2>4, <2>5, FoldExists
    <2>. QED  BY <2>1, <2>3 DEF IsFold
  <1>7. ASSUME NEW s \in SUBSET runs, s # {}
        PROVE  step[ch[s]][g[s \ {ch[s]}]] = Plus(value[Pick(s)], g[s \ {Pick(s)}])
    <2>1. Pick(s) \in runs /\ s \ {Pick(s)} \in SUBSET runs
      BY <1>1, <1>4, <1>7
    <2>2. g[s \ {Pick(s)}] \in Frac
      BY <2>1
    <2>. QED  BY <1>4, <1>5, <2>1, <2>2
  <1>8. ASSUME NEW s \in SUBSET runs
        PROVE  g[s] = IF s = {} THEN Whole(0) ELSE Plus(value[Pick(s)], g[s \ {Pick(s)}])
    <2>1. g[s] = IF s = {} THEN Whole(0) ELSE step[ch[s]][g[s \ {ch[s]}]]
      BY <1>6
    <2>. QED  BY <1>7, <2>1
  <1>9. IsTotal(g, runs, value)
    BY <1>8 DEF IsTotal
  <1>. QED  BY <1>9

\* What a function of the kind has for each subset.
LEMMA TotalTypes ==
  ASSUME NEW runs, IsFiniteSet(runs), NEW value, \A x \in runs : value[x] \in Frac,
         NEW g, IsTotal(g, runs, value)
  PROVE  /\ \A s \in SUBSET runs : g[s] = IF s = {} THEN Whole(0) ELSE Plus(value[Pick(s)], g[s \ {Pick(s)}])
         /\ \A s \in SUBSET runs : s # {} => Pick(s) \in s
  BY DEF IsTotal, Pick

\* Totals of what adds up add up.
LEMMA TotalsAdd ==
  ASSUME NEW runs, IsFiniteSet(runs), NEW u, NEW v, NEW w,
         \A x \in runs : u[x] \in Frac /\ v[x] \in Frac /\ w[x] \in Frac /\ IsSum(u[x], v[x], w[x])
  PROVE  /\ Total(runs, u) \in Frac /\ Total(runs, v) \in Frac /\ Total(runs, w) \in Frac
         /\ IsSum(Total(runs, u), Total(runs, v), Total(runs, w))
  <1>0. (\A x \in runs : u[x] \in Frac) /\ (\A x \in runs : v[x] \in Frac) /\ (\A x \in runs : w[x] \in Frac)
    OBVIOUS
  <1>1. PICK f : IsTotal(f, runs, u) /\ f[runs] = Total(runs, u)
    <2>1. \E g : IsTotal(g, runs, u)
      BY TotalExists
    <2>. QED  BY <2>1 DEF Total
  <1>2. PICK g : IsTotal(g, runs, v) /\ g[runs] = Total(runs, v)
    <2>1. \E h : IsTotal(h, runs, v)
      BY TotalExists
    <2>. QED  BY <2>1 DEF Total
  <1>3. PICK h : IsTotal(h, runs, w) /\ h[runs] = Total(runs, w)
    <2>1. \E k : IsTotal(k, runs, w)
      BY TotalExists
    <2>. QED  BY <2>1 DEF Total
  <1>. DEFINE Good(s) == f[s] \in Frac /\ g[s] \in Frac /\ h[s] \in Frac /\ IsSum(f[s], g[s], h[s])
              X == {s \in SUBSET runs : Good(s)}
  <1>4. {} \in X
    <2>1. f[{}] = Whole(0) /\ g[{}] = Whole(0) /\ h[{}] = Whole(0)
      BY <1>1, <1>2, <1>3, TotalTypes
    <2>2. Whole(0) \in Frac /\ Whole(0)[1] = 0 /\ Whole(0)[2] = 1
      BY DEF Whole, Frac
    <2>3. IsSum(Whole(0), Whole(0), Whole(0))
      BY <2>2 DEF IsSum
    <2>. QED  BY <2>1, <2>2, <2>3
  <1>5. ASSUME NEW s \in SUBSET runs, s # {}, \A x \in s : s \ {x} \in X
        PROVE  s \in X
    <2>1. PICK x \in s : x = Pick(s)
      BY <1>5 DEF Pick
    <2>2. PICK t : t = s \ {x} /\ t \in X
      BY <1>5
    <2>3. f[s] = Plus(u[x], f[t])
      BY <1>0, <1>1, <1>5, <2>1, <2>2, TotalTypes
    <2>8. g[s] = Plus(v[x], g[t])
      BY <1>0, <1>2, <1>5, <2>1, <2>2, TotalTypes
    <2>9. h[s] = Plus(w[x], h[t])
      BY <1>0, <1>3, <1>5, <2>1, <2>2, TotalTypes
    <2>4. u[x] \in Frac /\ v[x] \in Frac /\ w[x] \in Frac /\ IsSum(u[x], v[x], w[x])
      OBVIOUS
    <2>5. f[t] \in Frac /\ g[t] \in Frac /\ h[t] \in Frac /\ IsSum(f[t], g[t], h[t])
      BY <2>2
    <2>6. f[s] \in Frac /\ g[s] \in Frac /\ h[s] \in Frac
      BY <2>3, <2>8, <2>9, <2>4, <2>5, FractionTypes
    <2>7. IsSum(f[s], g[s], h[s])
      BY <2>3, <2>8, <2>9, <2>4, <2>5, PlusKeepsSums
    <2>. QED  BY <2>6, <2>7
  <1>6. runs \in X
    <2>. HIDE DEF X
    <2>1. InductiveOver(runs, X)
      BY <1>4, <1>5 DEF InductiveOver
    <2>. QED  BY <2>1, SubsetInduction
  <1>. QED  BY <1>1, <1>2, <1>3, <1>6

\* A set of numbers up to n has a greatest one.
LEMMA MaxIsIn ==
  ASSUME NEW n \in Nat, NEW X \in SUBSET (1 .. n), X # {}
  PROVE  Max(X) \in X
  <1>1. PICK Y : Y = {n - x : x \in X}
    OBVIOUS
  <1>2. Y \in SUBSET Nat /\ Y # {}
    <2>1. \A x \in X : n - x \in Nat
      OBVIOUS
    <2>. QED  BY <1>1, <2>1
  <1>3. PICK y \in Y : \A z \in Y : y <= z
    BY <1>2, LeastNatural
  <1>4. PICK x \in X : y = n - x
    BY <1>1
  <1>5. \A z \in X : x >= z
    <2>1. ASSUME NEW z \in X PROVE x >= z
      <3>1. n - z \in Y /\ y <= n - z
        BY <1>1, <1>3
      <3>. QED  BY <1>4, <3>1
    <2>. QED  BY <2>1
  <1>. QED  BY <1>5 DEF Max

\* The greater of two numbers.
LEMMA MaxOfTwo ==
  ASSUME NEW a \in Int, NEW b \in Int
  PROVE  Max({a, b}) = IF a >= b THEN a ELSE b
  <1>1. CASE a >= b
    <2>1. \A x \in {a, b} : (\A y \in {a, b} : x >= y) <=> x = a
      BY <1>1
    <2>. QED  BY <1>1, <2>1 DEF Max
  <1>2. CASE ~(a >= b)
    <2>1. \A x \in {a, b} : (\A y \in {a, b} : x >= y) <=> x = b
      BY <1>2
    <2>. QED  BY <1>2, <2>1 DEF Max
  <1>. QED  BY <1>1, <1>2

\* The less of two numbers.
LEMMA MinOfTwo ==
  ASSUME NEW a \in Int, NEW b \in Int
  PROVE  Min({a, b}) = IF a <= b THEN a ELSE b
  <1>1. CASE a <= b
    <2>1. \A x \in {a, b} : (\A y \in {a, b} : x <= y) <=> x = a
      BY <1>1
    <2>. QED  BY <1>1, <2>1 DEF Min
  <1>2. CASE ~(a <= b)
    <2>1. \A x \in {a, b} : (\A y \in {a, b} : x <= y) <=> x = b
      BY <1>2
    <2>. QED  BY <1>2, <2>1 DEF Min
  <1>. QED  BY <1>1, <1>2

\* The sum of integers is one.
LEMMA SumType ==
  ASSUME NEW s, NEW n \in Nat, DOMAIN s = 1 .. n, \A m \in 1 .. n : s[m] \in Int
  PROVE  SumOf(s) \in Int
  <1>. DEFINE Partial(g) == g = [S \in SUBSET (1 .. n) |-> IF S = {} THEN 0 ELSE g[S \ {Max(S)}] + s[Max(S)]]
  <1>1. SumOf(s) = (CHOOSE g : Partial(g))[1 .. n]
    BY DEF SumOf, FoldLeft, MapThenFoldSet
  <1>2. PICK ch : ch = [S \in SUBSET (1 .. n) |-> Max(S)]
    OBVIOUS
  <1>3. PICK step : step = [x \in 1 .. n |-> [a \in Int |-> a + s[x]]]
    OBVIOUS
  <1>4. ChoosesFrom(ch, 1 .. n)
    BY <1>2, MaxIsIn DEF ChoosesFrom
  <1>5. StepsIn(step, 1 .. n, Int)
    BY <1>3 DEF StepsIn
  <1>6. IsFiniteSet(1 .. n) /\ 0 \in Int
    BY FS_Interval
  <1>7. PICK g \in [SUBSET (1 .. n) -> Int] : IsFold(g, 1 .. n, 0, ch, step)
    <2>1. PICK S, V, base : S = 1 .. n /\ V = Int /\ base = 0
      OBVIOUS
    <2>2. IsFiniteSet(S) /\ base \in V /\ ChoosesFrom(ch, S) /\ StepsIn(step, S, V)
      BY <1>4, <1>5, <1>6, <2>1
    <2>3. \E f \in [SUBSET S -> V] : IsFold(f, S, base, ch, step)
      BY <2>2, FoldExists
    <2>. QED  BY <2>1, <2>3
  <1>8. ASSUME NEW S \in SUBSET (1 .. n)
        PROVE  g[S] = IF S = {} THEN 0 ELSE g[S \ {Max(S)}] + s[Max(S)]
    <2>1. CASE S = {}
      BY <1>7, <2>1 DEF IsFold
    <2>2. CASE S # {}
      <3>1. g[S] = step[ch[S]][g[S \ {ch[S]}]] /\ ch[S] = Max(S)
        BY <1>2, <1>7, <2>2 DEF IsFold
      <3>2. ch[S] \in S /\ S \ {ch[S]} \in SUBSET (1 .. n)
        BY <1>4, <2>2 DEF ChoosesFrom
      <3>3. g[S \ {ch[S]}] \in Int
        BY <3>2
      <3>4. step[ch[S]][g[S \ {ch[S]}]] = g[S \ {ch[S]}] + s[ch[S]]
        BY <1>3, <3>2, <3>3
      <3>. QED  BY <2>2, <3>1, <3>4
    <2>. QED  BY <2>1, <2>2
  <1>9. Partial(g)
    BY <1>8
  <1>10. PICK f : Partial(f) /\ f[1 .. n] = SumOf(s)
    <2>. HIDE DEF Partial
    <2>. QED  BY <1>1, <1>9
  <1>. DEFINE X == {S \in SUBSET (1 .. n) : f[S] \in Int}
  <1>11. {} \in X
    BY <1>10
  <1>12. ASSUME NEW S \in SUBSET (1 .. n), S # {}, \A x \in S : S \ {x} \in X
         PROVE  S \in X
    <2>1. PICK x \in S : x = Max(S)
      BY <1>12, MaxIsIn
    <2>2. f[S] = f[S \ {x}] + s[x]
      BY <1>10, <1>12, <2>1
    <2>3. f[S \ {x}] \in Int /\ s[x] \in Int
      BY <1>12, <2>1
    <2>. QED  BY <2>2, <2>3
  <1>13. 1 .. n \in X
    <2>. HIDE DEF X
    <2>1. InductiveOver(1 .. n, X)
      BY <1>11, <1>12 DEF InductiveOver
    <2>. QED  BY <1>6, <2>1, SubsetInduction
  <1>. QED  BY <1>10, <1>13

\* The counters of a class.
Counters == [ingress_packets : Nat, egress_packets : Nat, matched_packets : Nat,
             unmatched_ingress : Nat, unmatched_egress : Nat, rst_ingress : Nat, rst_egress : Nat,
             negative_delay_matches : Nat, latencies : Seq(Int)]

\* A set of numbers up to n is finite.
LEMMA IntervalPart ==
  ASSUME NEW n \in Nat, NEW X \in SUBSET (1 .. n)
  PROVE  IsFiniteSet(X)
  <1>1. PICK S : S = 1 .. n /\ IsFiniteSet(S)
    BY FS_Interval
  <1>2. X \in SUBSET S
    BY <1>1
  <1>. QED  BY <1>1, <1>2, FS_Subset

\* The counters of analyze_paths are numbers, its latencies a sequence of them.
LEMMA ResultsType ==
  ASSUME TypeInv, FifoInv, CoverInv, Paired, NEW c
  PROVE  Results(c) \in Counters
  <1>1. PICK v : v = Results(c)
    OBVIOUS
  <1>2. /\ v.ingress_packets \in Nat /\ v.matched_packets \in Nat /\ v.unmatched_ingress \in Nat
        /\ v.egress_packets \in Nat /\ v.unmatched_egress \in Nat /\ v.negative_delay_matches \in Nat
    BY <1>1, ClassCounts
  <1>3. v.latencies \in Seq(Int)
    BY <1>1, LatencyCounts
  <1>4. PICK A, B : A = {n \in Entered(c) : ingress_events[n].is_rst}
                    /\ B = {n \in Left(c) : egress_events[n].is_rst}
    OBVIOUS
  <1>5. Cardinality(A) \in Nat /\ Cardinality(B) \in Nat
    <2>1. PICK m, n : m = Len(ingress_events) /\ n = Len(egress_events)
      OBVIOUS
    <2>2. /\ m \in Nat /\ n \in Nat
          /\ DOMAIN ingress_events = 1 .. m /\ DOMAIN egress_events = 1 .. n
      BY <2>1 DEF TypeInv, PairInv
    <2>3. A \in SUBSET (1 .. m) /\ B \in SUBSET (1 .. n)
      BY <1>4, <2>2 DEF Entered, Left
    <2>4. IsFiniteSet(A)
      BY <2>2, <2>3, IntervalPart
    <2>5. IsFiniteSet(B)
      BY <2>2, <2>3, IntervalPart
    <2>. QED  BY <2>4, <2>5, FS_CardinalityType
  <1>6. v = [ingress_packets |-> v.ingress_packets, egress_packets |-> v.egress_packets,
             matched_packets |-> v.matched_packets, unmatched_ingress |-> v.unmatched_ingress,
             unmatched_egress |-> v.unmatched_egress, rst_ingress |-> Cardinality(A),
             rst_egress |-> Cardinality(B), negative_delay_matches |-> v.negative_delay_matches,
             latencies |-> v.latencies]
    BY <1>1, <1>4 DEF Results
  <1>. QED  BY <1>1, <1>2, <1>3, <1>5, <1>6 DEF Counters

\* A whole number is a fraction.
LEMMA WholeType ==
  ASSUME NEW n \in Int
  PROVE  Whole(n) \in Frac
  BY DEF Whole, Frac

\* A quantile is: its rank lies within the sequence.
LEMMA QuantileType ==
  ASSUME NEW s, s \in Seq(Int), NEW percent \in Nat
  PROVE  QuantileSorted(s, percent) \in Frac
  <1>1. CASE s = <<>>
    BY <1>1 DEF QuantileSorted, NaN, Frac
  <1>2. CASE s # <<>>
    <2>1. PICK n \in Nat : n = Len(s) /\ n >= 1
      BY <1>2
    <2>2. PICK k : k = (percent * n + 99) \div 100
      OBVIOUS
    <2>3. k \in Int
      BY <2>2
    <2>4. PICK l : l = Min({k, n})
      OBVIOUS
    <2>5. l \in Int /\ l <= n
      BY <2>3, <2>4, MinOfTwo
    <2>6. PICK m : m = Max({1, l})
      OBVIOUS
    <2>7. m \in 1 .. n
      BY <2>1, <2>5, <2>6, MaxOfTwo
    <2>8. QuantileSorted(s, percent) = Whole(s[m])
      BY <1>2, <2>1, <2>2, <2>4, <2>6 DEF QuantileSorted
    <2>9. s[m] \in Int
      BY <2>1, <2>7
    <2>. QED  BY <2>8, <2>9, WholeType
  <1>. QED  BY <1>1, <1>2

\* A median is: the two middle positions lie within the sequence.
LEMMA MedianType ==
  ASSUME NEW s, s \in Seq(Int)
  PROVE  Median(s) \in Frac
  <1>1. CASE s = <<>>
    BY <1>1 DEF Median, NaN, Frac
  <1>2. CASE s # <<>>
    <2>1. PICK n \in Nat : n = Len(s) /\ n >= 1
      BY <1>2
    <2>2. PICK k, l : k = (n + 1) \div 2 /\ l = (n + 2) \div 2
      OBVIOUS
    <2>3. k \in 1 .. n /\ l \in 1 .. n
      BY <2>1, <2>2
    <2>4. s[k] \in Int /\ s[l] \in Int
      BY <2>1, <2>3
    <2>5. Median(s) = <<s[k] + s[l], 2>>
      BY <1>2, <2>1, <2>2 DEF Median
    <2>. QED  BY <2>4, <2>5 DEF Frac
  <1>. QED  BY <1>1, <1>2

\* A mean is.
LEMMA MeanType ==
  ASSUME NEW s, s \in Seq(Int)
  PROVE  SafeMean(s) \in Frac
  <1>1. PICK n \in Nat : n = Len(s) /\ DOMAIN s = 1 .. n
    OBVIOUS
  <1>2. SumOf(s) \in Int
    BY <1>1, SumType
  <1>. QED  BY <1>1, <1>2 DEF SafeMean, NaN, Frac

\* A variance is.
LEMMA VarianceType ==
  ASSUME NEW s, s \in Seq(Int)
  PROVE  SafeVariance(s) \in Frac
  <1>1. PICK n \in Nat : n = Len(s) /\ DOMAIN s = 1 .. n
    OBVIOUS
  <1>2. PICK a : a = SumOf(s)
    OBVIOUS
  <1>3. PICK squares : squares = [m \in DOMAIN s |-> s[m] * s[m]]
    OBVIOUS
  <1>4. DOMAIN squares = 1 .. n /\ \A m \in 1 .. n : squares[m] \in Int
    BY <1>1, <1>3
  <1>5. PICK b : b = SumOf(squares)
    OBVIOUS
  <1>6. a \in Int /\ b \in Int
    BY <1>1, <1>2, <1>4, <1>5, SumType
  <1>7. n * b - a * a \in Int /\ n * (n - 1) \in Int
    BY <1>6
  <1>8. SafeVariance(s) = IF n < 2 THEN NaN ELSE <<n * b - a * a, n * (n - 1)>>
    BY <1>1, <1>2, <1>3, <1>5 DEF SafeVariance
  <1>. QED  BY <1>7, <1>8 DEF NaN, Frac

\* Whatever the metric, the value of the counters is a fraction.
LEMMA ValueType ==
  ASSUME NEW v \in Counters, NEW metric \in SUMMARY_METRICS
  PROVE  Value(v, metric) \in Frac
  <1>0. v.latencies \in Seq(Int) /\ v.unmatched_ingress \in Nat /\ v.ingress_packets \in Nat
    BY DEF Counters
  <1>1. CASE metric = "latency_mean"
    BY <1>0, <1>1, MeanType DEF Value
  <1>2. CASE metric = "latency_median"
    BY <1>0, <1>2, MedianType DEF Value
  <1>3. CASE metric = "latency_p95"
    BY <1>0, <1>3, QuantileType DEF Value
  <1>4. CASE metric = "latency_p99"
    BY <1>0, <1>4, QuantileType DEF Value
  <1>5. CASE metric = "latency_std"
    BY <1>0, <1>5, VarianceType DEF Value
  <1>6. CASE metric = "drop_rate"
    <2>1. Value(v, metric) = <<100 * v.unmatched_ingress, v.ingress_packets>>
      BY <1>6 DEF Value
    <2>. QED  BY <1>0, <2>1 DEF Frac
  <1>7. CASE metric \in COUNT_METRICS \ {"drop_rate"}
    <2>1. Value(v, metric) = Whole(v[metric])
      BY <1>7 DEF Value, COUNT_METRICS
    <2>2. v[metric] \in Nat
      BY <1>7 DEF Counters, COUNT_METRICS
    <2>. QED  BY <2>1, <2>2, WholeType
  <1>. QED  BY <1>1, <1>2, <1>3, <1>4, <1>5, <1>6, <1>7 DEF SUMMARY_METRICS, LATENCY_METRICS

\* The values stored are counters of every class, of finitely many records.
StoredInv ==
  /\ IsFiniteSet(DOMAIN values)
  /\ \A k \in DOMAIN values : values[k] \in [Classes -> Counters]

\* What a function makes of a finite set is finite.
LEMMA ImageFinite ==
  ASSUME NEW S, IsFiniteSet(S), NEW f, NEW T, T = {f[x] : x \in S}
  PROVE  IsFiniteSet(T)
  <1>1. PICK g : g = [x \in S |-> f[x]]
    OBVIOUS
  <1>2. g \in Surjection(S, T)
    BY <1>1 DEF Surjection
  <1>. QED  BY <1>2, FS_Surjection

\* Of a run that both variants have, the values are fractions.
LEMMA RunValues ==
  ASSUME StoredInv, NEW d, NEW c \in Classes, NEW m \in SUMMARY_METRICS, NEW p,
         NEW run \in PairedRuns(values, d, p, c, m)
  PROVE  /\ Value(values[<<run, d, p[1]>>][c], m) \in Frac
         /\ Value(values[<<run, d, p[2]>>][c], m) \in Frac
  <1>1. ASSUME NEW variant, variant \in {p[1], p[2]}
        PROVE  Value(values[<<run, d, variant>>][c], m) \in Frac
    <2>1. variant \in VariantsOf(values, <<run, d>>)
      BY <1>1 DEF PairedRuns
    <2>2. <<run, d, variant>> \in DOMAIN values
      BY <2>1 DEF VariantsOf
    <2>3. values[<<run, d, variant>>][c] \in Counters
      BY <2>2 DEF StoredInv
    <2>. QED  BY <2>3, ValueType
  <1>. QED  BY <1>1

\* There are finitely many runs.
LEMMA RunsFinite ==
  ASSUME StoredInv, NEW d, NEW c, NEW m, NEW p
  PROVE  IsFiniteSet(PairedRuns(values, d, p, c, m))
  <1>1. PICK K : K = DOMAIN values
    OBVIOUS
  <1>2. PICK U : U = Units(values)
    OBVIOUS
  <1>3. IsFiniteSet(U)
    <2>1. PICK f : f = [k \in K |-> Unit(k)]
      OBVIOUS
    <2>2. U = {f[k] : k \in K}
      BY <1>1, <1>2, <2>1 DEF Units
    <2>3. IsFiniteSet(K)
      BY <1>1 DEF StoredInv
    <2>. QED  BY <2>2, <2>3, ImageFinite
  <1>4. PICK V : V = {u \in U : u[2] = d}
    OBVIOUS
  <1>5. IsFiniteSet(V)
    BY <1>3, <1>4, FS_Subset
  <1>6. PICK R : R = {u[1] : u \in V}
    OBVIOUS
  <1>7. IsFiniteSet(R)
    <2>1. PICK f : f = [u \in V |-> u[1]]
      OBVIOUS
    <2>2. R = {f[u] : u \in V}
      BY <1>6, <2>1
    <2>. QED  BY <1>5, <2>2, ImageFinite
  <1>8. PairedRuns(values, d, p, c, m) \in SUBSET R
    BY <1>2, <1>4, <1>6 DEF PairedRuns
  <1>. QED  BY <1>7, <1>8, FS_Subset

\* What a row says.
LEMMA RowIs ==
  ASSUME NEW row \in SummaryRows(values)
  PROVE  /\ row.class \in Classes /\ row.metric \in SUMMARY_METRICS
         /\ row.runs = PairedRuns(values, row.dims, row.pair, row.class, row.metric)
         /\ row.delta_abs =
              MeanOver(row.runs, [run \in row.runs |->
                 Minus(Value(values[<<run, row.dims, row.pair[2]>>][row.class], row.metric),
                       Value(values[<<run, row.dims, row.pair[1]>>][row.class], row.metric))])
  <1>1. PICK d \in {u[2] : u \in Units(values)}, c \in Classes, m \in SUMMARY_METRICS, p \in DELTA_PAIRS :
          row = SummaryRow(values, d, c, m, p)
    BY DEF SummaryRows
  <1>2. row.dims = d /\ row.class = c /\ row.metric = m /\ row.pair = p
        /\ row.runs = PairedRuns(values, d, p, c, m)
    BY <1>1 DEF SummaryRow
  <1>3. PICK R : R = PairedRuns(values, d, p, c, m)
    OBVIOUS
  <1>4. PICK of1, of2 : /\ of1 = [run \in R |-> Value(values[<<run, d, p[1]>>][c], m)]
                        /\ of2 = [run \in R |-> Value(values[<<run, d, p[2]>>][c], m)]
    OBVIOUS
  <1>5. row.delta_abs = MeanOver(R, [run \in R |-> Minus(of2[run], of1[run])])
    BY <1>1, <1>3, <1>4 DEF SummaryRow
  <1>6. [run \in R |-> Minus(of2[run], of1[run])]
          = [run \in R |-> Minus(Value(values[<<run, d, p[2]>>][c], m), Value(values[<<run, d, p[1]>>][c], m))]
    BY <1>4
  <1>. QED  BY <1>1, <1>2, <1>3, <1>5, <1>6

\* Three rows about the same, over the same runs.
LEMMA RowsAddUp ==
  ASSUME StoredInv,
         NEW first \in SummaryRows(values), NEW second \in SummaryRows(values), NEW both \in SummaryRows(values),
         first.pair = <<"ip_forward", "opcua_forward">>, second.pair = <<"opcua_forward", "extraction">>,
         both.pair = <<"ip_forward", "extraction">>,
         first.runs # {}, SameMetric(second, first), SameMetric(both, first)
  PROVE  Minus(both.delta_abs, Plus(first.delta_abs, second.delta_abs))[1] = 0
  <1>1. PICK R, d, c, m : R = first.runs /\ d = first.dims /\ c = first.class /\ m = first.metric
    OBVIOUS
  <1>2. /\ second.runs = R /\ second.dims = d /\ second.class = c /\ second.metric = m
        /\ both.runs = R /\ both.dims = d /\ both.class = c /\ both.metric = m
    BY <1>1 DEF SameMetric
  <1>3. c \in Classes /\ m \in SUMMARY_METRICS
    BY <1>1, RowIs
  <1>4. PICK p, q, r : /\ p = [x \in R |-> Value(values[<<x, d, "ip_forward">>][c], m)]
                       /\ q = [x \in R |-> Value(values[<<x, d, "opcua_forward">>][c], m)]
                       /\ r = [x \in R |-> Value(values[<<x, d, "extraction">>][c], m)]
    OBVIOUS
  <1>5. PICK u, v, w : /\ u = [x \in R |-> Minus(q[x], p[x])]
                       /\ v = [x \in R |-> Minus(r[x], q[x])]
                       /\ w = [x \in R |-> Minus(r[x], p[x])]
    OBVIOUS
  <1>6. first.delta_abs = MeanOver(R, u)
    <2>1. first.delta_abs = MeanOver(R, [x \in R |->
             Minus(Value(values[<<x, d, "opcua_forward">>][c], m), Value(values[<<x, d, "ip_forward">>][c], m))])
      BY <1>1, RowIs
    <2>2. [x \in R |->
             Minus(Value(values[<<x, d, "opcua_forward">>][c], m), Value(values[<<x, d, "ip_forward">>][c], m))] = u
      BY <1>4, <1>5
    <2>. QED  BY <2>1, <2>2
  <1>7. second.delta_abs = MeanOver(R, v)
    <2>1. second.delta_abs = MeanOver(R, [x \in R |->
             Minus(Value(values[<<x, d, "extraction">>][c], m), Value(values[<<x, d, "opcua_forward">>][c], m))])
      BY <1>2, RowIs
    <2>2. [x \in R |->
             Minus(Value(values[<<x, d, "extraction">>][c], m), Value(values[<<x, d, "opcua_forward">>][c], m))] = v
      BY <1>4, <1>5
    <2>. QED  BY <2>1, <2>2
  <1>8. both.delta_abs = MeanOver(R, w)
    <2>1. both.delta_abs = MeanOver(R, [x \in R |->
             Minus(Value(values[<<x, d, "extraction">>][c], m), Value(values[<<x, d, "ip_forward">>][c], m))])
      BY <1>2, RowIs
    <2>2. [x \in R |->
             Minus(Value(values[<<x, d, "extraction">>][c], m), Value(values[<<x, d, "ip_forward">>][c], m))] = w
      BY <1>4, <1>5
    <2>. QED  BY <2>1, <2>2
  <1>9. ASSUME NEW x \in R PROVE p[x] \in Frac /\ q[x] \in Frac /\ r[x] \in Frac
    <2>1. PICK ab, be : ab = <<"ip_forward", "opcua_forward">> /\ be = <<"opcua_forward", "extraction">>
      OBVIOUS
    <2>2. x \in PairedRuns(values, d, ab, c, m)
      BY <1>1, <2>1, RowIs
    <2>3. x \in PairedRuns(values, d, be, c, m)
      BY <1>2, <2>1, RowIs
    <2>4. Value(values[<<x, d, ab[1]>>][c], m) \in Frac /\ Value(values[<<x, d, ab[2]>>][c], m) \in Frac
      BY <1>3, <2>2, RunValues
    <2>5. Value(values[<<x, d, be[2]>>][c], m) \in Frac
      BY <1>3, <2>3, RunValues
    <2>. QED  BY <1>4, <2>1, <2>4, <2>5
  <1>10. ASSUME NEW x \in R
         PROVE  u[x] \in Frac /\ v[x] \in Frac /\ w[x] \in Frac /\ IsSum(u[x], v[x], w[x])
    <2>1. PICK a, b, e : a = p[x] /\ b = q[x] /\ e = r[x] /\ a \in Frac /\ b \in Frac /\ e \in Frac
      BY <1>9
    <2>2. u[x] = Minus(b, a) /\ v[x] = Minus(e, b) /\ w[x] = Minus(e, a)
      BY <1>5, <2>1
    <2>3. Minus(b, a) \in Frac /\ Minus(e, b) \in Frac /\ Minus(e, a) \in Frac
      BY <2>1, FractionTypes
    <2>4. IsSum(Minus(b, a), Minus(e, b), Minus(e, a))
      BY <2>1, DifferencesSum
    <2>. QED  BY <2>2, <2>3, <2>4
  <1>11. IsFiniteSet(R)
    BY <1>1, RowIs, RunsFinite
  <1>12. PICK tu, tv, tw : tu = Total(R, u) /\ tv = Total(R, v) /\ tw = Total(R, w)
    OBVIOUS
  <1>13. tu \in Frac /\ tv \in Frac /\ tw \in Frac /\ IsSum(tu, tv, tw)
    BY <1>10, <1>11, <1>12, TotalsAdd
  <1>14. PICK n \in Nat : n = Cardinality(R)
    BY <1>11, FS_CardinalityType
  <1>15. MeanOver(R, u) = <<tu[1], tu[2] * n>>
    BY <1>1, <1>12, <1>14, MeanIs
  <1>16. MeanOver(R, v) = <<tv[1], tv[2] * n>>
    BY <1>1, <1>12, <1>14, MeanIs
  <1>17. MeanOver(R, w) = <<tw[1], tw[2] * n>>
    BY <1>1, <1>12, <1>14, MeanIs
  <1>18. Minus(<<tw[1], tw[2] * n>>, Plus(<<tu[1], tu[2] * n>>, <<tv[1], tv[2] * n>>))[1] = 0
    BY <1>13, MeansDiffer
  <1>. QED  BY <1>6, <1>7, <1>8, <1>15, <1>16, <1>17, <1>18

\* The counters of the stored results and the differences, inductive under the
\* invariants of the pairing.
CountsInv == StoredInv /\ CountsAddUp

\* The counters of the stored results and the differences, inductive under the
\* invariants of the pairing.
SumsInv == StoredInv /\ CountsAddUp

\* A result that is stored adds up, and so do those before it.
LEMMA StoreCounts ==
  TypeInv /\ FifoInv /\ CoverInv /\ StoredInv /\ ValuesInv /\ StoreResult => StoredInv' /\ ValuesInv'
  <1>. SUFFICES ASSUME TypeInv, FifoInv, CoverInv, StoredInv, ValuesInv, StoreResult
                PROVE  StoredInv' /\ ValuesInv'
    OBVIOUS
  <1>1. PICK k : /\ DOMAIN values' = DOMAIN values \union {k}
                 /\ \A x \in DOMAIN values' : values'[x] = IF x = k THEN [c \in Classes |-> Results(c)]
                                                           ELSE values[x]
    BY DEF StoreResult
  <1>2. Paired
    BY DEF StoreResult
  <1>3. PICK v : v = [c \in Classes |-> Results(c)]
    OBVIOUS
  <1>4. CountersAddUp(v)
    BY <1>2, <1>3, StoredAddUp
  <1>5. v \in [Classes -> Counters]
    <2>1. ASSUME NEW c \in Classes PROVE v[c] \in Counters
      BY <1>2, <1>3, ResultsType
    <2>. QED  BY <1>3, <2>1
  <1>6. IsFiniteSet(DOMAIN values')
    <2>1. PICK D : D = DOMAIN values /\ IsFiniteSet(D)
      BY DEF StoredInv
    <2>2. IsFiniteSet(D \union {k})
      BY <2>1, FS_AddElement
    <2>. QED  BY <1>1, <2>1, <2>2
  <1>7. ASSUME NEW x \in DOMAIN values'
        PROVE  values'[x] \in [Classes -> Counters] /\ CountersAddUp(values'[x])
    <2>1. CASE x = k
      BY <1>1, <1>3, <1>4, <1>5, <2>1
    <2>2. CASE x # k
      BY <1>1, <2>2 DEF ValuesInv, StoredInv
    <2>. QED  BY <2>1, <2>2
  <1>. QED  BY <1>6, <1>7 DEF StoredInv, ValuesInv

\* SumsInv is inductive under the invariants of the pairing.
LEMMA CountsStep == TypeInv /\ FifoInv /\ CoverInv /\ SumsInv /\ [Next]_vars => SumsInv'
  <1>. SUFFICES ASSUME TypeInv, FifoInv, CoverInv, SumsInv, [Next]_vars PROVE SumsInv'
    OBVIOUS
  <1>0. StoredInv /\ ValuesInv /\ DifferencesAddUp
    BY DEF SumsInv, CountsAddUp, ValuesInv
  <1>1. CASE StoreResult
    <2>1. StoredInv' /\ ValuesInv'
      BY <1>0, <1>1, StoreCounts
    <2>2. summary' = summary
      BY <1>1 DEF StoreResult
    <2>3. DifferencesAddUp'
      BY <1>0, <2>2 DEF DifferencesAddUp, RowsOf
    <2>. QED  BY <2>1, <2>3 DEF SumsInv, CountsAddUp, ValuesInv
  <1>2. CASE WriteReport
    <2>1. values' = values /\ summary' = SummaryRows(values)
      BY <1>2 DEF WriteReport
    <2>2. DifferencesAddUp'
      <3>1. ASSUME NEW first \in summary', NEW second \in summary', NEW both \in summary',
                   first.pair = <<"ip_forward", "opcua_forward">>,
                   second.pair = <<"opcua_forward", "extraction">>, both.pair = <<"ip_forward", "extraction">>,
                   first.runs # {}, SameMetric(second, first), SameMetric(both, first)
            PROVE  Minus(both.delta_abs, Plus(first.delta_abs, second.delta_abs))[1] = 0
        BY <1>0, <2>1, <3>1, RowsAddUp
      <3>. QED  BY <3>1 DEF DifferencesAddUp, RowsOf
    <2>3. StoredInv' /\ ValuesInv'
      BY <1>0, <2>1 DEF StoredInv, ValuesInv
    <2>. QED  BY <2>2, <2>3 DEF SumsInv, CountsAddUp, ValuesInv
  <1>3. CASE UNCHANGED <<values, summary>>
    <2>1. StoredInv' /\ ValuesInv'
      BY <1>0, <1>3 DEF StoredInv, ValuesInv
    <2>2. DifferencesAddUp'
      BY <1>0, <1>3 DEF DifferencesAddUp, RowsOf
    <2>. QED  BY <2>1, <2>2 DEF SumsInv, CountsAddUp, ValuesInv
  <1>. QED  BY <1>1, <1>2, <1>3 DEF Next, Measure, StartReport, DiscoverRecords, Report, ReportStep, LoadRecord,
                                    PairRecord, Exited, vars, report

\* Nothing is stored at the start.
LEMMA SumsInit == Init => SumsInv
  <1>. SUFFICES ASSUME Init PROVE SumsInv
    OBVIOUS
  <1>1. values = <<>> /\ summary = {}
    BY DEF Init, ReportInit
  <1>2. DOMAIN values = {}
    BY <1>1
  <1>. QED  BY <1>1, <1>2, FS_EmptySet DEF SumsInv, StoredInv, CountsAddUp, DifferencesAddUp, RowsOf

\* What the report counts adds up, and so do the differences it states: no packet is
\* counted twice or left out, whatever the captures held (results of analyze_paths,
\* run_report).
THEOREM CountsAlwaysAddUp == Spec => []CountsAddUp
  <1>1. SumsInv => CountsAddUp
    BY DEF SumsInv
  <1>. QED  BY <1>1, SumsInit, TypeInvInit, TypeInvStep, FifoInit, FifoStep, CoverInit, CoverStep, CountsStep, PTL DEF Spec

---------------------------------------------------------------------------

\* How many elements of a sequence are of a kind.
Count(s, kind) == Cardinality({n \in DOMAIN s : s[n] \in kind})

\* What a numbering sends into a part is as much as is in the part.
LEMMA NumberedCounts ==
  ASSUME NEW n \in Nat, NEW P, NEW g \in Bijection(1 .. n, P), NEW Q \in SUBSET P,
         NEW X \in SUBSET (1 .. n), \A m \in 1 .. n : m \in X <=> g[m] \in Q
  PROVE  Cardinality(X) = Cardinality(Q) /\ Cardinality(Q) \in Nat /\ IsFiniteSet(Q)
  <1>2. IsFiniteSet(X)
    BY IntervalPart
  <1>3. PICK h : h = [m \in X |-> g[m]]
    OBVIOUS
  <1>4. /\ \A m \in 1 .. n : g[m] \in P
        /\ \A l, m \in 1 .. n : g[l] = g[m] => l = m
        /\ \A p \in P : \E m \in 1 .. n : g[m] = p
    BY DEF Bijection, Injection, IsInjective, Surjection
  <1>5. h \in Bijection(X, Q)
    <2>1. h \in [X -> Q]
      BY <1>3, <1>4
    <2>2. \A l, m \in X : h[l] = h[m] => l = m
      BY <1>3, <1>4
    <2>3. \A p \in Q : \E m \in X : h[m] = p
      BY <1>3, <1>4
    <2>4. h \in Injection(X, Q) /\ h \in Surjection(X, Q)
      BY <2>1, <2>2, <2>3, Fun_IsInj, Fun_IsSurj
    <2>. QED  BY <2>4 DEF Bijection
  <1>6. ExistsBijection(X, Q)
    BY <1>5 DEF ExistsBijection
  <1>7. IsFiniteSet(Q) /\ Cardinality(Q) = Cardinality(X)
    BY <1>2, <1>6, FS_Bijection
  <1>. QED  BY <1>7, FS_CardinalityType

\* Sorting by time keeps how many there are of each kind, and puts them in order.
LEMMA SortedCounts ==
  ASSUME NEW s \in Seq(Packet), NEW t, t = SortedByTs(s)
  PROVE  /\ t \in Seq(Packet) /\ Len(t) = Len(s)
         /\ \A l, m \in 1 .. Len(t) : l < m => t[l].ts <= t[m].ts
         /\ \A kind : Count(t, kind) = Count(s, kind) /\ Count(s, kind) \in Nat
  <1>1. PICK n \in Nat : n = Len(s) /\ DOMAIN s = 1 .. n
    OBVIOUS
  <1>2. \A m \in 1 .. n : s[m] \in Packet /\ s[m].ts \in Int
    BY <1>1, ClassesDisjoint
  <1>3. PICK key : key = [m \in DOMAIN s |-> s[m].ts]
    OBVIOUS
  <1>4. key \in [1 .. n -> Int]
    BY <1>1, <1>2, <1>3
  <1>5. PICK g \in Bijection(1 .. n, 1 .. n) :
          /\ SortedBy(s, key) = [m \in 1 .. n |-> s[g[m]]]
          /\ \A l, m \in 1 .. n : l < m => key[g[l]] <= key[g[m]]
    <2>1. PICK r : r = s
      OBVIOUS
    <2>2. DOMAIN r = 1 .. n
      BY <1>1, <2>1
    <2>3. \E g \in Bijection(1 .. n, 1 .. n) :
            /\ SortedBy(r, key) = [m \in 1 .. n |-> r[g[m]]]
            /\ \A l, m \in 1 .. n : l < m => key[g[l]] <= key[g[m]]
      BY <1>4, <2>2, SortedNumbers
    <2>. QED  BY <2>1, <2>3
  <1>6. t = [m \in 1 .. n |-> s[g[m]]]
    BY <1>3, <1>5 DEF SortedByTs
  <1>7. \A m \in 1 .. n : g[m] \in 1 .. n
    BY DEF Bijection, Injection
  <1>8. PICK f \in [1 .. n -> Packet] : f = t
    BY <1>2, <1>6, <1>7
  <1>9. t \in Seq(Packet) /\ Len(t) = n /\ DOMAIN t = 1 .. n
    BY <1>8, FunctionIsSeq
  <1>10. ASSUME NEW l \in 1 .. n, NEW m \in 1 .. n, l < m PROVE t[l].ts <= t[m].ts
    <2>1. key[g[l]] <= key[g[m]]
      BY <1>5, <1>10
    <2>2. key[g[l]] = s[g[l]].ts /\ key[g[m]] = s[g[m]].ts
      BY <1>1, <1>3, <1>7
    <2>. QED  BY <1>6, <2>1, <2>2
  <1>11. ASSUME NEW kind PROVE Count(t, kind) = Count(s, kind) /\ Count(s, kind) \in Nat
    <2>1. PICK D : D = 1 .. n /\ g \in Bijection(1 .. n, D)
      OBVIOUS
    <2>2. PICK Q \in SUBSET D : Q = {p \in DOMAIN s : s[p] \in kind}
      BY <1>1, <2>1
    <2>3. PICK X \in SUBSET (1 .. n) : X = {m \in DOMAIN t : t[m] \in kind}
      BY <1>9
    <2>4. \A m \in 1 .. n : m \in X <=> g[m] \in Q
      BY <1>1, <1>6, <1>7, <1>9, <2>2, <2>3
    <2>5. Cardinality(X) = Cardinality(Q) /\ Cardinality(Q) \in Nat
      BY <2>1, <2>4, NumberedCounts
    <2>. QED  BY <2>2, <2>3, <2>5 DEF Count
  <1>. QED  BY <1>1, <1>9, <1>10, <1>11

\* The kind a packet is counted with: of a key, from a moment on.
Since(k, t) == {p \in Packet : p.key = k /\ p.ts >= t}

\* Without a packet left over and without a negative delay, at any time as many copies
\* are still to leave as are to enter.
LEMMA PairedInTime ==
  ASSUME TypeInv, FifoInv, CoverInv, Paired, NEW v, v = Results(class_all),
         v.unmatched_ingress = 0, v.negative_delay_matches = 0, NEW k, NEW t \in Int
  PROVE  Count(ingress_events, Since(k, t)) <= Count(egress_events, Since(k, t))
  <1>1. PICK m, n : m = Len(ingress_events) /\ n = Len(egress_events)
    OBVIOUS
  <1>2. /\ m \in Nat /\ DOMAIN ingress_events = 1 .. m /\ \A x \in 1 .. m : ingress_events[x] \in Packet
        /\ n \in Nat /\ DOMAIN egress_events = 1 .. n /\ \A x \in 1 .. n : egress_events[x] \in Packet
        /\ i = m /\ j = n
    BY <1>1 DEF TypeInv, PairInv, Paired
  <1>3. /\ Cardinality(UnmatchedIngress \cap Entered(class_all)) = 0 /\ IsFiniteSet(Entered(class_all))
        /\ Cardinality(Late(class_all)) = 0 /\ IsFiniteSet(Matched(class_all))
    BY ResultsAre, IngressCounts
  <1>4. IsFiniteSet(UnmatchedIngress \cap Entered(class_all)) /\ IsFiniteSet(Late(class_all))
    BY <1>3, FS_Subset DEF Late
  <1>5. UnmatchedIngress \cap Entered(class_all) = {} /\ Late(class_all) = {}
    BY <1>3, <1>4, FS_EmptySet
  <1>6. \A x \in 1 .. m : x \in Entered(class_all)
    BY <1>2, ClassesDisjoint DEF Entered
  <1>7. ASSUME NEW x \in 1 .. m
        PROVE  \E y \in DOMAIN pairs : pairs[y][1] = x
    <2>1. ingress_events[x].key \in DOMAIN ingress_q
      BY <1>2 DEF CoverInv
    <2>2. x \notin Range(ingress_q[ingress_events[x].key])
      BY <1>5, <1>6, <2>1 DEF UnmatchedIngress
    <2>. QED  BY <1>2, <2>2 DEF CoverInv
  <1>8. PICK of : of = [x \in 1 .. m |-> CHOOSE y \in DOMAIN pairs : pairs[y][1] = x]
    OBVIOUS
  <1>9. \A x \in 1 .. m : of[x] \in DOMAIN pairs /\ pairs[of[x]][1] = x
    BY <1>7, <1>8
  <1>10. PICK X, Y : /\ X = {x \in 1 .. m : ingress_events[x] \in Since(k, t)}
                     /\ Y = {y \in 1 .. n : egress_events[y] \in Since(k, t)}
    OBVIOUS
  <1>11. ASSUME NEW x \in X PROVE pairs[of[x]][2] \in Y
    <2>1. PICK y : y = pairs[of[x]][2]
      OBVIOUS
    <2>2. of[x] \in DOMAIN pairs /\ pairs[of[x]][1] = x
      BY <1>9, <1>10
    <2>3. /\ y \in 1 .. n /\ egress_events[y] \in Packet
          /\ ingress_events[x].key = egress_events[y].key
      BY <1>2, <2>1, <2>2, PairsType
    <2>4. of[x] \notin Late(class_all) /\ of[x] \in Matched(class_all)
      BY <1>5, <1>6, <1>10, <2>2 DEF Matched
    <2>5. ~(Delay(pairs[of[x]]) < 0)
      BY <2>4 DEF Late
    <2>6. Delay(pairs[of[x]]) = egress_events[y].ts - ingress_events[x].ts
      BY <2>1, <2>2 DEF Delay
    <2>7. egress_events[y].ts \in Int /\ ingress_events[x].ts \in Int
      BY <1>2, <1>10, <2>3, ClassesDisjoint
    <2>8. ingress_events[x].key = k /\ ingress_events[x].ts >= t
      BY <1>10 DEF Since
    <2>9. egress_events[y].ts >= t
      BY <2>5, <2>6, <2>7, <2>8
    <2>. QED  BY <1>10, <2>1, <2>3, <2>8, <2>9 DEF Since
  <1>12. PICK h : h = [x \in X |-> pairs[of[x]][2]]
    OBVIOUS
  <1>13. h \in Injection(X, Y)
    <2>1. h \in [X -> Y]
      BY <1>11, <1>12
    <2>2. \A a, b \in X : h[a] = h[b] => a = b
      BY <1>9, <1>10, <1>12, PairsType
    <2>. QED  BY <2>1, <2>2, Fun_IsInj
  <1>14. IsFiniteSet(Y)
    BY <1>2, <1>10, IntervalPart
  <1>15. Cardinality(X) <= Cardinality(Y)
    BY <1>13, <1>14, FS_Injection
  <1>. QED  BY <1>2, <1>10, <1>15 DEF Count

\* The copies of a packet from its moment on, as PassIsEarned counts them.
From(s, e) == Cardinality({n \in DOMAIN s : s[n].key = e.key /\ s[n].ts >= e.ts})

\* They are the packets of a kind.
LEMMA FromIsCount ==
  ASSUME NEW s \in Seq(Packet), NEW e
  PROVE  From(s, e) = Count(s, Since(e.key, e.ts))
  <1>1. \A n \in DOMAIN s : s[n] \in Packet
    OBVIOUS
  <1>2. {n \in DOMAIN s : s[n].key = e.key /\ s[n].ts >= e.ts} = {n \in DOMAIN s : s[n] \in Since(e.key, e.ts)}
    BY <1>1 DEF Since
  <1>. QED  BY <1>2 DEF From, Count

\* What the counters and the fingerprint of a record say of its files.
Graded(v, fingerprint, rec) ==
  LET ingress == IterPortPackets(rec.ingress_pcaps, Port)
      egress == IterPortPackets(rec.egress_pcaps, Port)
  IN  /\ v[class_all].ingress_packets > 0 => ingress # <<>>
      /\ v[class_all].unmatched_ingress = 0 /\ v[class_all].negative_delay_matches = 0 =>
           \A n \in DOMAIN ingress : From(ingress, ingress[n]) <= From(egress, ingress[n])
      /\ fingerprint = IngressFingerprint(rec.ingress_pcaps, Port)

\* A record is the last of its key.
LastRow(n, k) == per_run_rows[n] = k /\ \A m \in 1 .. analyzed : per_run_rows[m] = k => m <= n

\* What is paired are the files of the record under way; what is stored is what the
\* last record of the key says; and an analyzer that passed had no reason to fail.
GradeInv ==
  /\ loaded => /\ ingress_events = SortedByTs(IterPortPackets(records[analyzed + 1].ingress_pcaps, Port))
               /\ egress_events = SortedByTs(IterPortPackets(records[analyzed + 1].egress_pcaps, Port))
  /\ exit # "none" => ~loaded
  /\ \A k \in DOMAIN values : \E n \in 1 .. analyzed :
        LastRow(n, k) /\ Graded(values[k], fingerprints[k], records[n])
  /\ exit \in {"ok", "failed"} => analyzed = Len(records)
  /\ exit = "ok" /\ args.fail_on_quality =>
        \A u \in Units(values) : QualityReasons(values, fingerprints, u, args) = {}

\* A record that is paired is graded by its files.
LEMMA GradedResult ==
  ASSUME TypeInv, FifoInv, CoverInv, Paired, NEW rec \in Discovered,
         ingress_events = SortedByTs(IterPortPackets(rec.ingress_pcaps, Port)),
         egress_events = SortedByTs(IterPortPackets(rec.egress_pcaps, Port)),
         NEW v, v = [c \in Classes |-> Results(c)],
         NEW fingerprint, fingerprint = IngressFingerprint(rec.ingress_pcaps, Port)
  PROVE  Graded(v, fingerprint, rec)
  <1>1. PICK ingress, egress : /\ ingress = IterPortPackets(rec.ingress_pcaps, Port)
                               /\ egress = IterPortPackets(rec.egress_pcaps, Port)
    OBVIOUS
  <1>2. ingress \in Seq(Packet) /\ egress \in Seq(Packet)
    BY <1>1, IterPortPacketsType DEF Discovered
  <1>3. PICK all : all = Results(class_all) /\ all = v[class_all]
    BY DEF Classes
  <1>4. ASSUME all.ingress_packets > 0 PROVE ingress # <<>>
    <2>1. all.ingress_packets = Cardinality(Entered(class_all))
      BY <1>3, ResultsAre
    <2>2. Entered(class_all) # {}
      BY <1>4, <2>1, FS_EmptySet
    <2>3. Len(ingress_events) = Len(ingress)
      BY <1>1, <1>2, SortedCounts
    <2>4. DOMAIN ingress_events # {} /\ DOMAIN ingress_events = 1 .. Len(ingress_events)
      BY <2>2 DEF Entered, TypeInv, PairInv
    <2>. QED  BY <1>2, <2>3, <2>4
  <1>5. ASSUME all.unmatched_ingress = 0, all.negative_delay_matches = 0, NEW n \in DOMAIN ingress
        PROVE  From(ingress, ingress[n]) <= From(egress, ingress[n])
    <2>1. PICK e \in Packet : e = ingress[n]
      BY <1>2
    <2>2. PICK kind : kind = Since(e.key, e.ts)
      OBVIOUS
    <2>3. e.ts \in Int
      BY ClassesDisjoint
    <2>4. Count(ingress_events, kind) <= Count(egress_events, kind)
      BY <1>3, <1>5, <2>2, <2>3, PairedInTime
    <2>5. Count(ingress_events, kind) = Count(ingress, kind)
      BY <1>1, <1>2, SortedCounts
    <2>6. Count(egress_events, kind) = Count(egress, kind)
      BY <1>1, <1>2, SortedCounts
    <2>7. From(ingress, e) = Count(ingress, kind) /\ From(egress, e) = Count(egress, kind)
      BY <1>2, <2>2, FromIsCount
    <2>. QED  BY <2>1, <2>4, <2>5, <2>6, <2>7
  <1>. QED  BY <1>1, <1>3, <1>4, <1>5 DEF Graded

\* A record that is stored is the last of its key; it takes no other's place.
LEMMA StoreGrades ==
  TypeInv /\ FifoInv /\ CoverInv /\ GradeInv /\ StoreResult => GradeInv'
  <1>. SUFFICES ASSUME TypeInv, FifoInv, CoverInv, GradeInv, StoreResult PROVE GradeInv'
    OBVIOUS
  <1>1. /\ analyzed \in Nat /\ analyzed + 1 \in 0 .. Len(records) /\ analyzed + 1 \in DOMAIN records
        /\ Len(per_run_rows) = analyzed /\ per_run_rows \in Seq(Key) /\ Len(records) \in Nat
    BY DEF StoreResult, TypeInv, ReportInv
  <1>2. PICK rec \in Discovered : rec = records[analyzed + 1]
    BY <1>1 DEF TypeInv, ReportInv
  <1>3. PICK k : k = <<rec.run_index, rec.dims, rec.variant>>
    OBVIOUS
  <1>4. k \in Key
    BY <1>3 DEF Key, Discovered
  <1>5. PICK v, fp : v = [c \in Classes |-> Results(c)] /\ fp = IngressFingerprint(rec.ingress_pcaps, Port)
    OBVIOUS
  <1>6. /\ DOMAIN values' = DOMAIN values \union {k}
        /\ \A x \in DOMAIN values' : /\ values'[x] = IF x = k THEN v ELSE values[x]
                                     /\ fingerprints'[x] = IF x = k THEN fp ELSE fingerprints[x]
        /\ per_run_rows' = Append(per_run_rows, k)
        /\ analyzed' = analyzed + 1 /\ loaded' = FALSE /\ UNCHANGED <<args, records, summary, quality, exit>>
        /\ loaded /\ Paired
    BY <1>2, <1>3, <1>5 DEF StoreResult
  <1>7. /\ per_run_rows'[analyzed + 1] = k
        /\ \A m \in 1 .. analyzed : per_run_rows'[m] = per_run_rows[m]
    <2>1. PICK s, t : s = per_run_rows /\ t = per_run_rows' /\ t = Append(s, k) /\ s \in Seq(Key)
      BY <1>1, <1>6
    <2>2. t[Len(s) + 1] = k /\ \A m \in 1 .. Len(s) : t[m] = s[m]
      BY <1>4, <2>1
    <2>. QED  BY <1>1, <2>1, <2>2
  <1>8. exit = "none"
    <2>1. exit # "none" => ~loaded
      BY DEF GradeInv
    <2>. QED  BY <1>6, <2>1
  <1>9. Graded(v, fp, rec)
    BY <1>2, <1>5, <1>6, GradedResult DEF GradeInv
  <1>10. ASSUME NEW x \in DOMAIN values'
         PROVE  \E n \in 1 .. analyzed' : LastRow(n, x)' /\ Graded(values'[x], fingerprints'[x], records'[n])
    <2>1. CASE x = k
      <3>1. PICK n : n = analyzed + 1
        OBVIOUS
      <3>2. n \in 1 .. analyzed' /\ \A m \in 1 .. analyzed' : m <= n
        BY <1>1, <1>6, <3>1
      <3>3. LastRow(n, x)'
        BY <1>7, <2>1, <3>1, <3>2 DEF LastRow
      <3>4. Graded(values'[x], fingerprints'[x], records'[n])
        BY <1>2, <1>6, <1>9, <2>1, <3>1
      <3>. QED  BY <3>2, <3>3, <3>4
    <2>2. CASE x # k
      <3>1. x \in DOMAIN values
        BY <1>6, <2>2
      <3>2. PICK n \in 1 .. analyzed : LastRow(n, x) /\ Graded(values[x], fingerprints[x], records[n])
        BY <3>1 DEF GradeInv
      <3>3. n \in 1 .. analyzed'
        BY <1>1, <1>6
      <3>4. per_run_rows'[n] = x
        BY <1>7, <3>2 DEF LastRow
      <3>5. ASSUME NEW m \in 1 .. analyzed', per_run_rows'[m] = x PROVE m <= n
        <4>1. m # analyzed + 1
          BY <1>7, <2>2, <3>5
        <4>2. m \in 1 .. analyzed
          BY <1>1, <1>6, <4>1
        <4>. QED  BY <1>7, <3>2, <3>5, <4>2 DEF LastRow
      <3>6. LastRow(n, x)'
        BY <3>4, <3>5 DEF LastRow
      <3>7. Graded(values'[x], fingerprints'[x], records'[n])
        BY <1>6, <2>2, <3>2
      <3>. QED  BY <3>3, <3>6, <3>7
    <2>. QED  BY <2>1, <2>2
  <1>. QED  BY <1>6, <1>8, <1>10 DEF GradeInv

\* GradeInv is inductive under the invariants of the pairing.
LEMMA GradeStep == TypeInv /\ FifoInv /\ CoverInv /\ GradeInv /\ [Next]_vars => GradeInv'
  <1>. SUFFICES ASSUME TypeInv, FifoInv, CoverInv, GradeInv, [Next]_vars PROVE GradeInv'
    OBVIOUS
  <1>0. /\ analyzed \in 0 .. Len(records) /\ Len(records) \in Nat /\ loaded \in BOOLEAN
        /\ loaded => analyzed < Len(records)
    BY DEF TypeInv, ReportInv
  <1>1. CASE UNCHANGED report /\ UNCHANGED <<ingress_events, egress_events>>
    BY <1>1 DEF report, GradeInv, LastRow
  <1>2. CASE StartReport
    <2>1. records = <<>> /\ analyzed = 0 /\ ~loaded
      BY <1>0, <1>2 DEF StartReport
    <2>2. DOMAIN values = {}
      <3>1. per_run_rows \in Seq(Key) /\ Len(per_run_rows) = 0 /\ DOMAIN values = Range(per_run_rows)
        BY <2>1 DEF TypeInv, ReportInv
      <3>2. DOMAIN per_run_rows = {}
        BY <3>1
      <3>. QED  BY <3>1, <3>2 DEF Range
    <2>3. exit' \in {"none", "no_captures"} /\ UNCHANGED <<analyzed, loaded, values>>
      BY <1>2 DEF StartReport, DiscoverRecords
    <2>. QED  BY <2>1, <2>2, <2>3 DEF GradeInv
  <1>3. CASE LoadRecord
    <2>1. /\ ingress_events' = SortedByTs(IterPortPackets(records[analyzed + 1].ingress_pcaps, Port))
          /\ egress_events' = SortedByTs(IterPortPackets(records[analyzed + 1].egress_pcaps, Port))
          /\ exit = "none"
          /\ UNCHANGED <<args, records, analyzed, values, fingerprints, per_run_rows, exit>>
      BY <1>3 DEF LoadRecord, AnalyzePaths
    <2>. QED  BY <2>1 DEF GradeInv, LastRow
  <1>4. CASE StoreResult
    BY <1>4, StoreGrades
  <1>5. CASE WriteReport
    <2>1. /\ exit = "none" /\ ~loaded /\ analyzed = Len(records)
          /\ quality' = [u \in Units(values) |-> QualityReasons(values, fingerprints, u, args)]
          /\ exit' = IF args.fail_on_quality /\ \E u \in Units(values) : quality'[u] # {}
                     THEN "failed" ELSE "ok"
          /\ UNCHANGED <<args, records, analyzed, loaded, values, fingerprints, per_run_rows,
                         ingress_events, egress_events>>
      BY <1>5 DEF WriteReport, pairing
    <2>2. exit' = "ok" /\ args.fail_on_quality =>
            \A u \in Units(values) : QualityReasons(values, fingerprints, u, args) = {}
      BY <2>1
    <2>3. \A k \in DOMAIN values : \E n \in 1 .. analyzed :
             LastRow(n, k) /\ Graded(values[k], fingerprints[k], records[n])
      BY DEF GradeInv
    <2>. QED  BY <2>1, <2>2, <2>3 DEF GradeInv, LastRow
  <1>6. PairRecord => UNCHANGED report /\ UNCHANGED <<ingress_events, egress_events>>
    BY DEF PairRecord, PairingStep, EnqueueIngress, PairEgress, LoneEgress
  <1>7. Measure \/ Exited \/ UNCHANGED vars => UNCHANGED report /\ UNCHANGED <<ingress_events, egress_events>>
    BY DEF Measure, Exited, vars, pairing
  <1>. QED  BY <1>1, <1>2, <1>3, <1>4, <1>5, <1>6, <1>7 DEF Next, Report, ReportStep

\* A record that is the last of its key is the one PassIsEarned looks at.
LEMMA LastIs ==
  ASSUME TypeInv, analyzed = Len(records), NEW k, NEW n \in 1 .. analyzed, LastRow(n, k)
  PROVE  Max({m \in DOMAIN records : per_run_rows[m] = k}) = n
  <1>1. DOMAIN records = 1 .. analyzed /\ analyzed \in Nat
    BY DEF TypeInv, ReportInv
  <1>2. PICK X : X = {m \in DOMAIN records : per_run_rows[m] = k}
    OBVIOUS
  <1>3. n \in X /\ \A m \in X : n >= m
    BY <1>1, <1>2 DEF LastRow
  <1>4. \A x \in X : (\A y \in X : x >= y) => x = n
    BY <1>1, <1>2, <1>3
  <1>. QED  BY <1>2, <1>3, <1>4 DEF Max

\* A capture without a reason to fail it: it is not empty, no packet of it is left over
\* and none has a negative delay, and the fingerprints of its variants agree.
LEMMA NoReason ==
  ASSUME TypeInv, StoredInv, args.max_drop_pct = 0, NEW k \in DOMAIN values,
         QualityReasons(values, fingerprints, Unit(k), args) = {}
  PROVE  /\ values[k][class_all].ingress_packets > 0
         /\ values[k][class_all].unmatched_ingress = 0 /\ values[k][class_all].negative_delay_matches = 0
         /\ args.require_same_ingress =>
              \A k2 \in DOMAIN values : Unit(k2) = Unit(k) => fingerprints[k2] = fingerprints[k]
  <1>1. \A x \in DOMAIN values : /\ x \in Key /\ x = <<x[1], x[2], x[3]>> /\ x[3] \in VARIANTS
                                 /\ Unit(x)[1] = x[1] /\ Unit(x)[2] = x[2]
    <2>1. per_run_rows \in Seq(Key) /\ DOMAIN values = Range(per_run_rows)
      BY DEF TypeInv, ReportInv
    <2>2. \A x \in DOMAIN values : x \in Key
      BY <2>1 DEF Range
    <2>. QED  BY <2>2 DEF Key, Unit
  <1>2. PICK u : u = Unit(k)
    OBVIOUS
  <1>3. \A x \in DOMAIN values : Unit(x) = u => x = <<u[1], u[2], x[3]>> /\ x[3] \in VariantsOf(values, u)
    BY <1>1 DEF VariantsOf
  <1>4. PICK w : w = k[3] /\ w \in VariantsOf(values, u) /\ <<u[1], u[2], w>> = k
    BY <1>2, <1>3
  <1>5. PICK all : all = values[k][class_all]
    OBVIOUS
  <1>6. all.ingress_packets \in Nat /\ all.unmatched_ingress \in Nat /\ all.negative_delay_matches \in Nat
    <2>1. values[k] \in [Classes -> Counters] /\ class_all \in Classes
      BY DEF StoredInv, Classes
    <2>2. all \in Counters
      BY <1>5, <2>1
    <2>. QED  BY <2>2 DEF Counters
  <1>7. ASSUME NEW reason \in VariantReasons PROVE ~FailsOn(reason, all, args)
    <2>1. <<reason, w>> \notin {x \in VariantReasons \X VariantsOf(values, u) :
                                  FailsOn(x[1], values[<<u[1], u[2], x[2]>>][class_all], args)}
      BY <1>2 DEF QualityReasons
    <2>. QED  BY <1>4, <1>5, <2>1
  <1>8. all.ingress_packets # 0
    <2>1. "empty_capture" \in VariantReasons
      BY DEF VariantReasons
    <2>. QED  BY <1>7, <2>1 DEF FailsOn
  <1>9. all.negative_delay_matches = 0
    <2>1. "negative_delay" \in VariantReasons
      BY DEF VariantReasons
    <2>2. ~(all.negative_delay_matches > 0)
      BY <1>7, <2>1 DEF FailsOn
    <2>. QED  BY <1>6, <2>2
  <1>10. all.unmatched_ingress = 0
    <2>1. "drop" \in VariantReasons
      BY DEF VariantReasons
    <2>2. ~(all.ingress_packets > 0 /\ 100 * all.unmatched_ingress > 0 * all.ingress_packets)
      BY <1>7, <2>1 DEF FailsOn
    <2>. QED  BY <1>6, <1>8, <2>2
  <1>11. ASSUME args.require_same_ingress, NEW k2 \in DOMAIN values, Unit(k2) = u
         PROVE  fingerprints[k2] = fingerprints[k]
    <2>1. PICK x : x = k2[3] /\ x \in VariantsOf(values, u) /\ <<u[1], u[2], x>> = k2
      BY <1>3, <1>11
    <2>2. {<<"fingerprint_mismatch", v>> : v \in
              {y \in VariantsOf(values, u) : /\ args.require_same_ingress
                        /\ \E z \in VariantsOf(values, u) : fingerprints[<<u[1], u[2], z>>]
                                                             # fingerprints[<<u[1], u[2], y>>]}} = {}
      BY <1>2 DEF QualityReasons
    <2>3. ~(\E z \in VariantsOf(values, u) : fingerprints[<<u[1], u[2], z>>] # fingerprints[<<u[1], u[2], w>>])
      BY <1>4, <1>11, <2>2
    <2>. QED  BY <1>4, <2>1, <2>3
  <1>. QED  BY <1>2, <1>5, <1>6, <1>8, <1>9, <1>10, <1>11

\* Of the last records of two keys with one fingerprint, the files hold every frame
\* equally often.
LEMMA SameIngress ==
  ASSUME NEW rec, NEW rec2,
         IngressFingerprint(rec.ingress_pcaps, Port) = IngressFingerprint(rec2.ingress_pcaps, Port),
         NEW ingress, ingress = IterPortPackets(rec.ingress_pcaps, Port),
         NEW other, other = IterPortPackets(rec2.ingress_pcaps, Port),
         NEW n \in DOMAIN ingress
  PROVE  CountKey(ingress, ingress[n].key) = CountKey(other, ingress[n].key)
  <1>1. PICK f, g : /\ f = [k \in {ingress[m].key : m \in DOMAIN ingress} |-> CountKey(ingress, k)]
                    /\ g = [k \in {other[m].key : m \in DOMAIN other} |-> CountKey(other, k)]
    OBVIOUS
  <1>5. f = IngressFingerprint(rec.ingress_pcaps, Port)
    BY <1>1 DEF IngressFingerprint
  <1>6. g = IngressFingerprint(rec2.ingress_pcaps, Port)
    BY <1>1 DEF IngressFingerprint
  <1>2. f = g
    BY <1>5, <1>6
  <1>3. PICK k : k = ingress[n].key /\ k \in DOMAIN f
    BY <1>1
  <1>4. f[k] = CountKey(ingress, k) /\ g[k] = CountKey(other, k)
    BY <1>1, <1>2, <1>3
  <1>. QED  BY <1>2, <1>3, <1>4

\* What GradeInv says of the last records earns the pass.
LEMMA GradeIsEarned == TypeInv /\ StoredInv /\ GradeInv => PassIsEarned
  <1>. SUFFICES ASSUME TypeInv, StoredInv, GradeInv, exit = "ok", args.fail_on_quality, args.max_drop_pct = 0,
                       NEW k \in DOMAIN values
                PROVE  LET last == Max({n \in DOMAIN records : per_run_rows[n] = k})
                           ingress == IterPortPackets(records[last].ingress_pcaps, Port)
                           egress == IterPortPackets(records[last].egress_pcaps, Port)
                           from(s, e) == Cardinality({n \in DOMAIN s : s[n].key = e.key /\ s[n].ts >= e.ts})
                       IN  /\ ingress # <<>>
                           /\ \A n \in DOMAIN ingress : from(ingress, ingress[n]) <= from(egress, ingress[n])
                           /\ args.require_same_ingress =>
                                \A k2 \in DOMAIN values : Unit(k2) = Unit(k) =>
                                  LET last2 == Max({n \in DOMAIN records : per_run_rows[n] = k2})
                                      other == IterPortPackets(records[last2].ingress_pcaps, Port)
                                  IN  \A n \in DOMAIN ingress : CountKey(ingress, ingress[n].key)
                                                                  = CountKey(other, ingress[n].key)
    BY DEF PassIsEarned
  <1>0. PICK last, ingress, egress : /\ last = Max({n \in DOMAIN records : per_run_rows[n] = k})
                                     /\ ingress = IterPortPackets(records[last].ingress_pcaps, Port)
                                     /\ egress = IterPortPackets(records[last].egress_pcaps, Port)
    OBVIOUS
  <1>1. analyzed = Len(records)
    BY DEF GradeInv
  <1>2. ASSUME NEW x \in DOMAIN values
        PROVE  Graded(values[x], fingerprints[x], records[Max({n \in DOMAIN records : per_run_rows[n] = x})])
    <2>1. PICK n \in 1 .. analyzed : LastRow(n, x) /\ Graded(values[x], fingerprints[x], records[n])
      BY DEF GradeInv
    <2>2. Max({m \in DOMAIN records : per_run_rows[m] = x}) = n
      BY <1>1, <2>1, LastIs
    <2>. QED  BY <2>1, <2>2
  <1>3. QualityReasons(values, fingerprints, Unit(k), args) = {}
    <2>1. Unit(k) \in Units(values)
      BY DEF Units
    <2>. QED  BY <2>1 DEF GradeInv
  <1>4. /\ values[k][class_all].ingress_packets > 0
        /\ values[k][class_all].unmatched_ingress = 0 /\ values[k][class_all].negative_delay_matches = 0
    BY <1>3, NoReason
  <1>5. Graded(values[k], fingerprints[k], records[last])
    BY <1>0, <1>2
  <1>6. /\ ingress # <<>>
        /\ \A n \in DOMAIN ingress : From(ingress, ingress[n]) <= From(egress, ingress[n])
    BY <1>0, <1>4, <1>5 DEF Graded
  <1>7. ASSUME args.require_same_ingress, NEW k2 \in DOMAIN values, Unit(k2) = Unit(k)
        PROVE  LET last2 == Max({n \in DOMAIN records : per_run_rows[n] = k2})
                   other == IterPortPackets(records[last2].ingress_pcaps, Port)
               IN  \A n \in DOMAIN ingress : CountKey(ingress, ingress[n].key) = CountKey(other, ingress[n].key)
    <2>1. PICK last2, other : /\ last2 = Max({n \in DOMAIN records : per_run_rows[n] = k2})
                              /\ other = IterPortPackets(records[last2].ingress_pcaps, Port)
      OBVIOUS
    <2>2. fingerprints[k2] = fingerprints[k]
      BY <1>3, <1>7, NoReason
    <2>3. Graded(values[k2], fingerprints[k2], records[last2])
      BY <1>2, <1>7, <2>1
    <2>4. IngressFingerprint(records[last].ingress_pcaps, Port) = IngressFingerprint(records[last2].ingress_pcaps, Port)
      BY <1>5, <2>2, <2>3 DEF Graded
    <2>5. \A n \in DOMAIN ingress : CountKey(ingress, ingress[n].key) = CountKey(other, ingress[n].key)
      BY <1>0, <2>1, <2>4, SameIngress
    <2>. QED  BY <2>1, <2>5
  <1>8. \A n \in DOMAIN ingress :
          Cardinality({m \in DOMAIN ingress : ingress[m].key = ingress[n].key /\ ingress[m].ts >= ingress[n].ts})
            <= Cardinality({m \in DOMAIN egress : egress[m].key = ingress[n].key /\ egress[m].ts >= ingress[n].ts})
    BY <1>6 DEF From
  <1>. QED  BY <1>0, <1>6, <1>7, <1>8

\* Nothing is graded at the start.
LEMMA GradeInit == Init => GradeInv
  <1>. SUFFICES ASSUME Init PROVE GradeInv
    OBVIOUS
  <1>1. values = <<>> /\ exit = "none" /\ loaded = FALSE
    BY DEF Init, ReportInit
  <1>2. DOMAIN values = {}
    BY <1>1
  <1>. QED  BY <1>1, <1>2 DEF GradeInv

\* With --fail-on-quality and no drops tolerated the exit status 0 is earned, for any
\* campaign: by what is in the files, counted without pairing anything (run_report).
THEOREM PassAlwaysEarned == Spec => []PassIsEarned
  <1>1. TypeInv /\ SumsInv /\ GradeInv => PassIsEarned
    BY GradeIsEarned DEF SumsInv
  <1>. QED  BY <1>1, GradeInit, TypeInvInit, TypeInvStep, FifoInit, FifoStep, CoverInit, CoverStep, SumsInit, CountsStep,
               GradeStep, PTL DEF Spec

---------------------------------------------------------------------------

---------------------------------------------------------------------------
\* One element more counts once, if it is of the kind.
LEMMA AppendCounts ==
  ASSUME NEW V, NEW s \in Seq(V), NEW x \in V, NEW kind
  PROVE  /\ x \in kind => Count(Append(s, x), kind) = Count(s, kind) + 1
         /\ x \notin kind => Count(Append(s, x), kind) = Count(s, kind)
  <1>0. PICK t : t = Append(s, x)
    OBVIOUS
  <1>1. PICK n \in Nat : n = Len(s) /\ DOMAIN s = 1 .. n
    OBVIOUS
  <1>2. /\ DOMAIN t = DOMAIN s \union {n + 1} /\ n + 1 \notin DOMAIN s
        /\ t[n + 1] = x /\ \A m \in DOMAIN s : t[m] = s[m]
    BY <1>0, <1>1, RangeAppend
  <1>3. PICK A, B : A = {m \in DOMAIN s : s[m] \in kind} /\ B = {m \in DOMAIN t : t[m] \in kind}
    OBVIOUS
  <1>4. IsFiniteSet(A)
    BY <1>1, <1>3, IntervalPart
  <1>5. B = IF x \in kind THEN A \union {n + 1} ELSE A
    BY <1>2, <1>3
  <1>6. n + 1 \notin A
    BY <1>2, <1>3
  <1>7. Cardinality(A \union {n + 1}) = Cardinality(A) + 1
    BY <1>4, <1>6, FS_AddElement
  <1>8. Cardinality(A) \in Nat
    BY <1>4, FS_CardinalityType
  <1>9. Count(s, kind) = Cardinality(A) /\ Count(Append(s, x), kind) = Cardinality(B)
    BY <1>0, <1>3 DEF Count
  <1>10. CASE x \in kind
    BY <1>5, <1>7, <1>8, <1>9, <1>10
  <1>11. CASE x \notin kind
    BY <1>5, <1>8, <1>9, <1>11
  <1>. QED  BY <1>10, <1>11

\* An element that is replaced counts no more, and the new one does.
LEMMA ReplaceCounts ==
  ASSUME NEW V, NEW s \in Seq(V), NEW n \in DOMAIN s, NEW x \in V, NEW t,
         DOMAIN t = DOMAIN s, t[n] = x, \A m \in DOMAIN s : m # n => t[m] = s[m], NEW kind
  PROVE  /\ Count(s, kind) \in Nat
         /\ s[n] \in kind /\ x \in kind => Count(t, kind) = Count(s, kind)
         /\ s[n] \notin kind /\ x \notin kind => Count(t, kind) = Count(s, kind)
         /\ s[n] \notin kind /\ x \in kind => Count(t, kind) = Count(s, kind) + 1
  <1>1. PICK A, B : A = {m \in DOMAIN s : s[m] \in kind} /\ B = {m \in DOMAIN t : t[m] \in kind}
    OBVIOUS
  <1>2. IsFiniteSet(A)
    <2>1. PICK l \in Nat : DOMAIN s = 1 .. l
      OBVIOUS
    <2>. QED  BY <1>1, <2>1, IntervalPart
  <1>3. Cardinality(A) \in Nat
    BY <1>2, FS_CardinalityType
  <1>4. s[n] \in kind /\ x \in kind => B = A
    BY <1>1
  <1>5. s[n] \notin kind /\ x \notin kind => B = A
    BY <1>1
  <1>6. s[n] \notin kind /\ x \in kind => B = A \union {n} /\ n \notin A
    BY <1>1
  <1>7. n \notin A => Cardinality(A \union {n}) = Cardinality(A) + 1
    BY <1>2, FS_AddElement
  <1>. QED  BY <1>1, <1>3, <1>4, <1>5, <1>6, <1>7 DEF Count

\* A kind that holds no element that the other does not counts no more, and less when
\* it misses one.
LEMMA KindsCount ==
  ASSUME NEW V, NEW s \in Seq(V), NEW a, NEW b, \A n \in DOMAIN s : s[n] \in a => s[n] \in b
  PROVE  /\ Count(s, a) \in Nat /\ Count(s, b) \in Nat /\ Count(s, a) <= Count(s, b)
         /\ (\E n \in DOMAIN s : s[n] \in b /\ s[n] \notin a) => Count(s, a) < Count(s, b)
         /\ (\A n \in DOMAIN s : s[n] \in b => s[n] \in a) => Count(s, a) = Count(s, b)
  <1>1. PICK A, B : A = {m \in DOMAIN s : s[m] \in a} /\ B = {m \in DOMAIN s : s[m] \in b}
    OBVIOUS
  <1>2. IsFiniteSet(B)
    <2>1. PICK l \in Nat : DOMAIN s = 1 .. l
      OBVIOUS
    <2>. QED  BY <1>1, <2>1, IntervalPart
  <1>3. A \in SUBSET B
    BY <1>1
  <1>4. /\ Cardinality(B) \in Nat /\ Cardinality(A) \in Nat /\ Cardinality(B \ A) \in Nat
        /\ Cardinality(B) = Cardinality(A) + Cardinality(B \ A)
    BY <1>2, <1>3, CountPart
  <1>5. IsFiniteSet(B \ A)
    BY <1>2, FS_Subset
  <1>6. B \ A = {} <=> Cardinality(B \ A) = 0
    BY <1>5, FS_EmptySet
  <1>7. (\E n \in DOMAIN s : s[n] \in b /\ s[n] \notin a) => B \ A # {}
    BY <1>1
  <1>8. (\A n \in DOMAIN s : s[n] \in b => s[n] \in a) => B \ A = {}
    BY <1>1
  <1>. QED  BY <1>1, <1>4, <1>6, <1>7, <1>8 DEF Count

---------------------------------------------------------------------------
\* The records of a capture, and the passages, that are of some frames.
Of(frames) == {r \in Captured : r.frame \in frames}
Upto(frames, t) == {r \in Captured : r.frame \in frames /\ r.ts <= t}
PassedIn(frames) == {p \in Passage : p.frame \in frames /\ p.seen_in}
PassedOut(frames) == {p \in Passage : p.frame \in frames /\ p.seen_out}

Capture(iface, dir) == [iface |-> iface, dir |-> dir]

\* What the captures of a direction wrote of a kind.
Written(dir, kind) == Count(pcap[Capture("eth0", dir)], kind) + Count(pcap[Capture("eth1", dir)], kind)

\* No copy of the frames was seen on its way out alone.
NoneForeign(frames) ==
  \A n \in DOMAIN passage : passage[n].frame \in frames /\ passage[n].seen_out => passage[n].seen_in

\* How far the scripts are, what runs.
RunningInv ==
  /\ phase = "starting" => \E m \in 0 .. 3 : running = {StartOrder[x] : x \in 1 .. m}
  /\ phase = "capturing" => running = Captures
  /\ phase = "draining" => running = Captures \ Ingress

\* What was captured is whole and not from the future.
StampInv == \A c \in Captures : \A x \in DOMAIN pcap[c] : pcap[c][x].ts <= time /\ pcap[c][x].whole

\* What the history says: only what left was seen on its way out, and what came after
\* the start and was seen coming is seen leaving.
PassageInv ==
  \A n \in DOMAIN passage :
    /\ passage[n].seen_out => passage[n].fate = "left"
    /\ phase = "starting" => passage[n].while = "starting"
    /\ passage[n].while # "starting" /\ passage[n].seen_in /\ passage[n].fate = "left" => passage[n].seen_out
    /\ phase = "stopped" => ~(passage[n].fate = "inside" /\ passage[n].seen_in)

\* The captures hold what was seen; and at no time had more copies left than come, of
\* frames that were never seen on their way out alone.
WrittenInv ==
  \A frames \in SUBSET (DOMAIN Fields) :
    /\ Written("in", Of(frames)) = Count(passage, PassedIn(frames))
    /\ Written("out", Of(frames)) = Count(passage, PassedOut(frames))
    /\ NoneForeign(frames) =>
         \A t \in Int : Written("out", Upto(frames, t)) <= Written("in", Upto(frames, t))

HistoryInv == RunningInv /\ StampInv /\ PassageInv /\ WrittenInv

\* What a step writes is counted where it is written.
LEMMA SeenCounts ==
  ASSUME SessionInv, NEW iface \in Ifaces, NEW dir \in {"in", "out"}, NEW frame \in DOMAIN Fields,
         Seen(Capture(iface, dir), frame), NEW r, r = [ts |-> time, frame |-> frame, whole |-> TRUE]
  PROVE  /\ \A kind : Written("in", kind) \in Nat /\ Written("out", kind) \in Nat
         /\ \A d \in {"in", "out"} : \A kind :
              Written(d, kind)' = Written(d, kind)
                + (IF Capture(iface, dir) \in running /\ d = dir /\ r \in kind THEN 1 ELSE 0)
  <1>1. pcap \in [Captures -> Seq(Captured)] /\ time \in Int
    BY DEF SessionInv
  <1>2. r \in Captured
    <2>1. TRUE \in BOOLEAN
      OBVIOUS
    <2>. QED  BY <1>1, <2>1 DEF Captured
  <1>3. PICK c : c = Capture(iface, dir) /\ c \in Captures /\ c.iface = iface /\ c.dir = dir
    BY DEF Capture, Captures
  <1>4. \A a, b : Capture(a, b) = c <=> a = iface /\ b = dir
    BY <1>3 DEF Capture
  <1>5. \A d \in {"in", "out"} : \A a \in Ifaces : Capture(a, d) \in Captures
    BY DEF Capture, Captures
  <1>6. \A d \in {"in", "out"} : \A a \in Ifaces : \A kind : Count(pcap[Capture(a, d)], kind) \in Nat
    <2>1. ASSUME NEW d \in {"in", "out"}, NEW a \in Ifaces, NEW kind PROVE Count(pcap[Capture(a, d)], kind) \in Nat
      <3>1. PICK s \in Seq(Captured) : s = pcap[Capture(a, d)]
        BY <1>1, <1>5
      <3>. QED  BY <3>1, KindsCount
    <2>. QED  BY <2>1
  <1>7. ASSUME NEW d \in {"in", "out"}, NEW a \in Ifaces, NEW kind
        PROVE  Count(pcap'[Capture(a, d)], kind) = Count(pcap[Capture(a, d)], kind)
                 + (IF c \in running /\ a = iface /\ d = dir /\ r \in kind THEN 1 ELSE 0)
    <2>1. CASE c \in running /\ Capture(a, d) = c
      <3>1. PICK s \in Seq(Captured) : s = pcap[c]
        BY <1>1, <1>3
      <3>2. PICK t : t = pcap'[c] /\ t = Append(s, r)
        BY <1>1, <1>3, <2>1, <3>1 DEF Seen
      <3>3. PICK V, x : V = Captured /\ x \in V /\ x = r /\ s \in Seq(V) /\ t = Append(s, x)
        BY <1>2, <3>1, <3>2
      <3>4. /\ x \in kind => Count(t, kind) = Count(s, kind) + 1
            /\ x \notin kind => Count(t, kind) = Count(s, kind)
        BY <3>3, AppendCounts
      <3>5. Count(s, kind) \in Nat
        BY <3>1, KindsCount
      <3>. QED  BY <1>4, <2>1, <3>1, <3>2, <3>3, <3>4, <3>5
    <2>2. CASE ~(c \in running /\ Capture(a, d) = c)
      <3>1. pcap'[Capture(a, d)] = pcap[Capture(a, d)]
        BY <1>1, <1>3, <1>5, <2>2 DEF Seen
      <3>. QED  BY <1>4, <1>6, <2>2, <3>1
    <2>. QED  BY <2>1, <2>2
  <1>8. {"eth0", "eth1"} \subseteq Ifaces
    BY DEF Ifaces
  <1>9. \A kind : Written("in", kind) \in Nat /\ Written("out", kind) \in Nat
    BY <1>6, <1>8 DEF Written
  <1>10. ASSUME NEW d \in {"in", "out"}, NEW kind
         PROVE  Written(d, kind)' = Written(d, kind)
                  + (IF Capture(iface, dir) \in running /\ d = dir /\ r \in kind THEN 1 ELSE 0)
    <2>1. PICK x, y : x = Count(pcap[Capture("eth0", d)], kind) /\ y = Count(pcap[Capture("eth1", d)], kind)
                      /\ x \in Nat /\ y \in Nat
      BY <1>6, <1>8
    <2>2. /\ Count(pcap'[Capture("eth0", d)], kind) = x
                   + (IF c \in running /\ "eth0" = iface /\ d = dir /\ r \in kind THEN 1 ELSE 0)
          /\ Count(pcap'[Capture("eth1", d)], kind) = y
                   + (IF c \in running /\ "eth1" = iface /\ d = dir /\ r \in kind THEN 1 ELSE 0)
      BY <1>7, <1>8, <2>1
    <2>3. Written(d, kind) = x + y
      BY <2>1 DEF Written
    <2>4. Written(d, kind)' = Count(pcap'[Capture("eth0", d)], kind) + Count(pcap'[Capture("eth1", d)], kind)
      BY DEF Written, Count, Capture
    <2>5. iface = "eth0" \/ iface = "eth1"
      BY DEF Ifaces
    <2>. QED  BY <1>3, <2>1, <2>2, <2>3, <2>4, <2>5
  <1>. QED  BY <1>9, <1>10

\* What a step captures has the time of the step.
LEMMA SeenStamps ==
  ASSUME SessionInv, StampInv, UNCHANGED time, NEW c \in Captures, NEW frame \in DOMAIN Fields, Seen(c, frame)
  PROVE  StampInv'
  <1>1. pcap \in [Captures -> Seq(Captured)] /\ time \in Int
    BY DEF SessionInv
  <1>2. PICK r : r = [ts |-> time, frame |-> frame, whole |-> TRUE]
    OBVIOUS
  <1>5. r \in Captured
    BY <1>1, <1>2 DEF Captured
  <1>3. ASSUME NEW a \in Captures, NEW x \in DOMAIN pcap'[a]
        PROVE  pcap'[a][x].ts <= time /\ pcap'[a][x].whole
    <2>1. CASE c \in running /\ a = c
      <3>1. PICK s \in Seq(Captured) : s = pcap[c]
        BY <1>1
      <3>2. PICK t : t = pcap'[c] /\ t = Append(s, r)
        BY <1>1, <1>2, <2>1, <3>1 DEF Seen
      <3>3. /\ DOMAIN t = DOMAIN s \union {Len(s) + 1} /\ t[Len(s) + 1] = r
            /\ \A m \in DOMAIN s : t[m] = s[m]
        BY <1>5, <3>1, <3>2, RangeAppend
      <3>4. r.ts = time /\ r.whole
        BY <1>2
      <3>5. time <= time
        BY <1>1
      <3>. QED  BY <2>1, <3>1, <3>2, <3>3, <3>4, <3>5 DEF StampInv
    <2>2. CASE ~(c \in running /\ a = c)
      <3>1. pcap'[a] = pcap[a]
        BY <1>1, <2>2 DEF Seen
      <3>. QED  BY <3>1 DEF StampInv
    <2>. QED  BY <2>1, <2>2
  <1>. QED  BY <1>3 DEF StampInv

\* Everything captured so far is captured by now.
LEMMA UptoIsOf ==
  ASSUME SessionInv, StampInv, NEW d \in {"in", "out"}, NEW frames, NEW t \in Int, time <= t
  PROVE  Written(d, Upto(frames, t)) = Written(d, Of(frames))
  <1>1. ASSUME NEW a \in Ifaces
        PROVE  Count(pcap[Capture(a, d)], Upto(frames, t)) = Count(pcap[Capture(a, d)], Of(frames))
    <2>1. PICK c \in Captures : c = Capture(a, d)
      BY DEF Capture, Captures
    <2>2. PICK s \in Seq(Captured) : s = pcap[c]
      BY DEF SessionInv
    <2>3. \A x \in DOMAIN s : s[x] \in Captured /\ s[x].ts \in Int
      <3>1. \A x \in DOMAIN s : s[x] \in Captured
        OBVIOUS
      <3>2. \A r \in Captured : r.ts \in Int
        BY DEF Captured
      <3>. QED  BY <3>1, <3>2
    <2>4. \A x \in DOMAIN s : s[x] \in Upto(frames, t) <=> s[x] \in Of(frames)
      <3>1. time \in Int
        BY DEF SessionInv
      <3>2. \A x \in DOMAIN s : s[x].ts <= t
        BY <2>2, <2>3, <3>1 DEF StampInv
      <3>. QED  BY <2>3, <3>2 DEF Upto, Of
    <2>5. Count(s, Upto(frames, t)) = Count(s, Of(frames))
      BY <2>4, KindsCount
    <2>. QED  BY <2>1, <2>2, <2>5
  <1>2. "eth0" \in Ifaces /\ "eth1" \in Ifaces
    BY DEF Ifaces
  <1>. QED  BY <1>1, <1>2 DEF Written

\* A step that writes nothing and lets nothing pass.
LEMMA QuietWrites ==
  ASSUME WrittenInv, UNCHANGED <<pcap, passage>>
  PROVE  WrittenInv'
  BY DEF WrittenInv, Written, NoneForeign, Count, Capture

\* A copy that comes.
LEMMA ArriveWrites ==
  ASSUME SessionInv, WrittenInv, NEW f \in Traffic, Arrive(f)
  PROVE  WrittenInv'
  <1>1. f.frame \in DOMAIN Fields /\ f.iface \in Ifaces
    BY CampaignsAssumption
  <1>2. PICK c : c = Capture(f.iface, "in") /\ c = [iface |-> f.iface, dir |-> "in"]
    BY DEF Capture
  <1>3. PICK p : p = [frame |-> f.frame, iface |-> f.iface, fate |-> "inside", seen_in |-> c \in running,
                      seen_out |-> FALSE, while |-> phase]
    OBVIOUS
  <1>4. PICK r : r = [ts |-> time, frame |-> f.frame, whole |-> TRUE]
    OBVIOUS
  <1>5. Seen(Capture(f.iface, "in"), f.frame) /\ passage' = Append(passage, p)
    BY <1>2, <1>3 DEF Arrive
  <1>6. p \in Passage /\ passage \in Seq(Passage) /\ time \in Int
    BY <1>1, <1>3 DEF Passage, SessionInv
  <1>7. /\ r \in Captured /\ r.frame = f.frame /\ r.ts = time
        /\ p.frame = f.frame /\ p.seen_in = (c \in running) /\ p.seen_out = FALSE
    <2>1. TRUE \in BOOLEAN
      OBVIOUS
    <2>. QED  BY <1>1, <1>3, <1>4, <1>6, <2>1 DEF Captured
  <1>8. \A kind : Written("in", kind) \in Nat /\ Written("out", kind) \in Nat
    BY <1>1, <1>4, <1>5, SeenCounts
  <1>9. \A d \in {"in", "out"} : \A kind :
           Written(d, kind)' = Written(d, kind) + (IF c \in running /\ d = "in" /\ r \in kind THEN 1 ELSE 0)
    <2>1. "in" \in {"in", "out"}
      OBVIOUS
    <2>2. \A d \in {"in", "out"} : \A kind :
            Written(d, kind)' = Written(d, kind)
              + (IF Capture(f.iface, "in") \in running /\ d = "in" /\ r \in kind THEN 1 ELSE 0)
      BY <1>1, <1>4, <1>5, <2>1, SeenCounts
    <2>. QED  BY <1>2, <2>2
  <1>10. ASSUME NEW kind PROVE Written("out", kind)' = Written("out", kind)
    BY <1>8, <1>9
  <1>11. ASSUME NEW frames \in SUBSET (DOMAIN Fields)
         PROVE  /\ Written("in", Of(frames))' = Count(passage, PassedIn(frames))'
                /\ Written("out", Of(frames))' = Count(passage, PassedOut(frames))'
                /\ NoneForeign(frames)' =>
                     \A t \in Int : Written("out", Upto(frames, t))' <= Written("in", Upto(frames, t))'
    <2>1. /\ Written("in", Of(frames)) = Count(passage, PassedIn(frames))
          /\ Written("out", Of(frames)) = Count(passage, PassedOut(frames))
          /\ NoneForeign(frames) =>
               \A t \in Int : Written("out", Upto(frames, t)) <= Written("in", Upto(frames, t))
      BY DEF WrittenInv
    <2>2. PICK a, b : a = PassedIn(frames) /\ b = PassedOut(frames)
      OBVIOUS
    <2>3. p \notin b /\ (p \in a <=> f.frame \in frames /\ c \in running)
      BY <1>6, <1>7, <2>2 DEF PassedIn, PassedOut
    <2>4. r \in Of(frames) <=> f.frame \in frames
      BY <1>7 DEF Of
    <2>5. /\ p \in a => Count(Append(passage, p), a) = Count(passage, a) + 1
          /\ p \notin a => Count(Append(passage, p), a) = Count(passage, a)
      BY <1>6, AppendCounts
    <2>6. Count(Append(passage, p), b) = Count(passage, b)
      <3>1. p \notin b => Count(Append(passage, p), b) = Count(passage, b)
        BY <1>6, AppendCounts
      <3>. QED  BY <2>3, <3>1
    <2>7. /\ Count(passage, PassedIn(frames))' = Count(Append(passage, p), a)
          /\ Count(passage, PassedOut(frames))' = Count(Append(passage, p), b)
      BY <1>5, <2>2 DEF Count
    <2>8. Written("in", Of(frames))' = Written("in", Of(frames)) + (IF c \in running /\ r \in Of(frames) THEN 1 ELSE 0)
      BY <1>9
    <2>9. Written("in", Of(frames))' = Count(passage, PassedIn(frames))'
      BY <1>8, <2>1, <2>2, <2>3, <2>4, <2>5, <2>7, <2>8
    <2>10. Written("out", Of(frames))' = Count(passage, PassedOut(frames))'
      BY <1>10, <2>1, <2>2, <2>6, <2>7
    <2>11. NoneForeign(frames)' => NoneForeign(frames)
      <3>1. DOMAIN passage \subseteq DOMAIN passage' /\ \A m \in DOMAIN passage : passage'[m] = passage[m]
        <4>1. PICK s \in Seq(Passage) : s = passage
          BY <1>6
        <4>2. PICK q : q = passage' /\ q = Append(s, p)
          BY <1>5, <4>1
        <4>3. DOMAIN q = DOMAIN s \union {Len(s) + 1} /\ \A m \in DOMAIN s : q[m] = s[m]
          BY <1>6, <4>1, <4>2, RangeAppend
        <4>. QED  BY <4>1, <4>2, <4>3
      <3>. QED  BY <3>1 DEF NoneForeign
    <2>12. ASSUME NEW t \in Int, NoneForeign(frames)'
           PROVE  Written("out", Upto(frames, t))' <= Written("in", Upto(frames, t))'
      <3>1. PICK x, y : x = Written("out", Upto(frames, t)) /\ y = Written("in", Upto(frames, t))
        OBVIOUS
      <3>2. x \in Nat /\ y \in Nat /\ x <= y
        BY <1>8, <2>1, <2>11, <2>12, <3>1
      <3>3. Written("out", Upto(frames, t))' = x
        BY <1>10, <3>1
      <3>4. Written("in", Upto(frames, t))' = y + (IF c \in running /\ r \in Upto(frames, t) THEN 1 ELSE 0)
        BY <1>9, <3>1
      <3>. QED  BY <3>2, <3>3, <3>4
    <2>. QED  BY <2>9, <2>10, <2>12
  <1>. QED  BY <1>11 DEF WrittenInv

\* A copy that leaves: when it is the first of its frames that would be ahead, it was not.
LEMMA LeaveWrites ==
  ASSUME SessionInv, HistoryInv, NEW n \in Inside, Leave(n)
  PROVE  WrittenInv'
  <1>0. /\ n \in DOMAIN passage /\ passage[n].fate = "inside" /\ passage \in Seq(Passage) /\ time \in Int
        /\ passage[n] \in Passage
    BY DEF Inside, SessionInv
  <1>1. passage[n].frame \in DOMAIN Fields /\ passage[n].iface \in Ifaces /\ passage[n].seen_out = FALSE
    <2>1. passage[n].seen_out \in BOOLEAN /\ ~passage[n].seen_out
      BY <1>0 DEF HistoryInv, PassageInv, Passage
    <2>. QED  BY <1>0, <2>1 DEF Passage
  <1>2. PICK iface \in Ifaces : iface = Other(passage[n].iface)
    BY <1>1 DEF Other, Ifaces
  <1>3. PICK c : c = Capture(iface, "out") /\ c = [iface |-> Other(passage[n].iface), dir |-> "out"]
    BY <1>2 DEF Capture
  <1>4. PICK p : p = [passage[n] EXCEPT !.fate = "left", !.seen_out = c \in running]
    OBVIOUS
  <1>5. PICK r : r = [ts |-> time, frame |-> passage[n].frame, whole |-> TRUE]
    OBVIOUS
  <1>6. Seen(Capture(iface, "out"), passage[n].frame) /\ passage' = [passage EXCEPT ![n] = p]
    BY <1>3, <1>4 DEF Leave
  <1>7. /\ p \in Passage /\ p.frame = passage[n].frame /\ p.seen_in = passage[n].seen_in
        /\ p.seen_out = (c \in running)
    <2>1. PICK b \in BOOLEAN : b = (c \in running)
      <3>1. (c \in running) \in BOOLEAN
        OBVIOUS
      <3>. QED  BY <3>1, Zenon
    <2>2. p = [passage[n] EXCEPT !.fate = "left", !.seen_out = b]
      BY <1>4, <2>1
    <2>3. p \in Passage /\ p.frame = passage[n].frame /\ p.seen_in = passage[n].seen_in /\ p.seen_out = b
      BY <1>0, <2>2 DEF Passage
    <2>. QED  BY <2>1, <2>3
  <1>8. r \in Captured /\ r.frame = passage[n].frame /\ r.ts = time
    <2>1. TRUE \in BOOLEAN
      OBVIOUS
    <2>. QED  BY <1>0, <1>1, <1>5, <2>1 DEF Captured
  <1>9. PICK q : /\ q = passage' /\ DOMAIN q = DOMAIN passage /\ q[n] = p
                 /\ \A m \in DOMAIN passage : m # n => q[m] = passage[m]
    BY <1>0, <1>6
  <1>10. \A kind : Written("in", kind) \in Nat /\ Written("out", kind) \in Nat
    BY <1>1, <1>2, <1>5, <1>6, SeenCounts
  <1>11. \A d \in {"in", "out"} : \A kind :
            Written(d, kind)' = Written(d, kind) + (IF c \in running /\ d = "out" /\ r \in kind THEN 1 ELSE 0)
    <2>1. "out" \in {"in", "out"}
      OBVIOUS
    <2>2. \A d \in {"in", "out"} : \A kind :
            Written(d, kind)' = Written(d, kind)
              + (IF Capture(iface, "out") \in running /\ d = "out" /\ r \in kind THEN 1 ELSE 0)
      BY <1>1, <1>2, <1>5, <1>6, <2>1, SeenCounts
    <2>. QED  BY <1>3, <2>2
  <1>12. ASSUME NEW kind PROVE Written("in", kind)' = Written("in", kind)
    BY <1>10, <1>11
  <1>13. ASSUME NEW frames \in SUBSET (DOMAIN Fields)
         PROVE  /\ Written("in", Of(frames))' = Count(passage, PassedIn(frames))'
                /\ Written("out", Of(frames))' = Count(passage, PassedOut(frames))'
                /\ NoneForeign(frames)' =>
                     \A t \in Int : Written("out", Upto(frames, t))' <= Written("in", Upto(frames, t))'
    <2>1. /\ Written("in", Of(frames)) = Count(passage, PassedIn(frames))
          /\ Written("out", Of(frames)) = Count(passage, PassedOut(frames))
          /\ NoneForeign(frames) =>
               \A t \in Int : Written("out", Upto(frames, t)) <= Written("in", Upto(frames, t))
      BY DEF WrittenInv, HistoryInv
    <2>2. PICK a, b : a = PassedIn(frames) /\ b = PassedOut(frames)
      OBVIOUS
    <2>3. /\ passage[n] \notin b /\ (p \in b <=> p.frame \in frames /\ c \in running)
          /\ p \in a <=> passage[n] \in a
      BY <1>0, <1>1, <1>7, <2>2 DEF PassedIn, PassedOut
    <2>4. r \in Of(frames) <=> p.frame \in frames
      BY <1>7, <1>8 DEF Of
    <2>5. Count(q, a) = Count(passage, a)
      <3>1. CASE p \in a
        BY <1>0, <1>7, <1>9, <2>3, <3>1, ReplaceCounts
      <3>2. CASE p \notin a
        BY <1>0, <1>7, <1>9, <2>3, <3>2, ReplaceCounts
      <3>. QED  BY <3>1, <3>2
    <2>6. p \in b => Count(q, b) = Count(passage, b) + 1
      BY <1>0, <1>7, <1>9, <2>3, ReplaceCounts
    <2>7. p \notin b => Count(q, b) = Count(passage, b)
      BY <1>0, <1>7, <1>9, <2>3, ReplaceCounts
    <2>8. /\ Count(passage, PassedIn(frames))' = Count(q, a)
          /\ Count(passage, PassedOut(frames))' = Count(q, b)
      BY <1>9, <2>2 DEF Count
    <2>9. Written("in", Of(frames))' = Count(passage, PassedIn(frames))'
      BY <1>12, <2>1, <2>2, <2>5, <2>8
    <2>10. Written("out", Of(frames))' = Written("out", Of(frames)) + (IF c \in running /\ r \in Of(frames) THEN 1 ELSE 0)
      BY <1>11
    <2>11. Written("out", Of(frames))' = Count(passage, PassedOut(frames))'
      BY <1>10, <2>1, <2>2, <2>3, <2>4, <2>6, <2>7, <2>8, <2>10
    <2>12. NoneForeign(frames)' => NoneForeign(frames) /\ (p \in b => passage[n] \in a)
      <3>1. ASSUME NoneForeign(frames)', NEW m \in DOMAIN passage, passage[m].frame \in frames, passage[m].seen_out
            PROVE  passage[m].seen_in
        <4>1. m # n
          BY <1>1, <3>1
        <4>. QED  BY <1>9, <3>1, <4>1 DEF NoneForeign
      <3>2. ASSUME NoneForeign(frames)', p \in b PROVE passage[n] \in a
        <4>1. p.frame \in frames /\ p.seen_out
          BY <2>2, <3>2 DEF PassedOut
        <4>2. p.seen_in
          BY <1>0, <1>9, <3>2, <4>1 DEF NoneForeign
        <4>. QED  BY <1>0, <1>7, <2>2, <4>1, <4>2 DEF PassedIn
      <3>. QED  BY <3>1, <3>2 DEF NoneForeign
    <2>13. ASSUME NEW t \in Int, NoneForeign(frames)'
           PROVE  Written("out", Upto(frames, t))' <= Written("in", Upto(frames, t))'
      <3>1. PICK x, y : x = Written("out", Upto(frames, t)) /\ y = Written("in", Upto(frames, t))
        OBVIOUS
      <3>2. x \in Nat /\ y \in Nat /\ x <= y
        BY <1>10, <2>1, <2>12, <2>13, <3>1
      <3>3. Written("in", Upto(frames, t))' = y
        BY <1>12, <3>1
      <3>4. Written("out", Upto(frames, t))' = x + (IF c \in running /\ r \in Upto(frames, t) THEN 1 ELSE 0)
        BY <1>11, <3>1
      <3>5. ASSUME c \in running, r \in Upto(frames, t) PROVE x < y
        <4>1. time <= t /\ p \in b
          BY <1>7, <1>8, <2>3, <3>5 DEF Upto
        <4>2. Written("out", Upto(frames, t)) = Written("out", Of(frames))
          BY <4>1, UptoIsOf DEF HistoryInv
        <4>3. Written("in", Upto(frames, t)) = Written("in", Of(frames))
          BY <4>1, UptoIsOf DEF HistoryInv
        <4>4. passage[n] \in a /\ passage[n] \notin b
          BY <2>3, <2>12, <2>13, <4>1
        <4>5. \A m \in DOMAIN passage : passage[m] \in b => passage[m] \in a
          <5>1. NoneForeign(frames)
            BY <2>12, <2>13
          <5>. QED  BY <2>2, <5>1 DEF NoneForeign, PassedIn, PassedOut
        <4>6. Count(passage, b) < Count(passage, a)
          BY <1>0, <4>4, <4>5, KindsCount
        <4>. QED  BY <2>1, <2>2, <3>1, <4>2, <4>3, <4>6
      <3>. QED  BY <3>2, <3>3, <3>4, <3>5
    <2>. QED  BY <2>9, <2>11, <2>13
  <1>. QED  BY <1>13 DEF WrittenInv

\* A copy that is dropped counts as before.
LEMMA DropWrites ==
  ASSUME SessionInv, WrittenInv, NEW n \in Inside, Drop(n)
  PROVE  WrittenInv'
  <1>0. n \in DOMAIN passage /\ passage \in Seq(Passage) /\ passage[n] \in Passage /\ pcap' = pcap
    BY DEF Inside, SessionInv, Drop
  <1>1. PICK p : p = [passage[n] EXCEPT !.fate = "dropped"]
    OBVIOUS
  <1>2. /\ p \in Passage /\ p.frame = passage[n].frame /\ p.seen_in = passage[n].seen_in
        /\ p.seen_out = passage[n].seen_out
    BY <1>0, <1>1 DEF Passage
  <1>3. PICK q : /\ q = passage' /\ DOMAIN q = DOMAIN passage /\ q[n] = p
                 /\ \A m \in DOMAIN passage : m # n => q[m] = passage[m]
    BY <1>0, <1>1 DEF Drop
  <1>4. ASSUME NEW kind PROVE Written("in", kind)' = Written("in", kind) /\ Written("out", kind)' = Written("out", kind)
    BY <1>0 DEF Written, Count, Capture
  <1>5. ASSUME NEW kind, p \in kind <=> passage[n] \in kind PROVE Count(passage, kind)' = Count(passage, kind)
    <2>1. Count(q, kind) = Count(passage, kind)
      <3>1. CASE p \in kind
        BY <1>0, <1>2, <1>3, <1>5, <3>1, ReplaceCounts
      <3>2. CASE p \notin kind
        BY <1>0, <1>2, <1>3, <1>5, <3>2, ReplaceCounts
      <3>. QED  BY <3>1, <3>2
    <2>. QED  BY <1>3, <2>1 DEF Count
  <1>6. ASSUME NEW frames \in SUBSET (DOMAIN Fields)
        PROVE  /\ Written("in", Of(frames))' = Count(passage, PassedIn(frames))'
               /\ Written("out", Of(frames))' = Count(passage, PassedOut(frames))'
               /\ NoneForeign(frames)' =>
                    \A t \in Int : Written("out", Upto(frames, t))' <= Written("in", Upto(frames, t))'
    <2>1. PICK a, b : a = PassedIn(frames) /\ b = PassedOut(frames)
      OBVIOUS
    <2>2. (p \in a <=> passage[n] \in a) /\ (p \in b <=> passage[n] \in b)
      BY <1>0, <1>2, <2>1 DEF PassedIn, PassedOut
    <2>3. /\ Count(passage, PassedIn(frames))' = Count(passage, PassedIn(frames))
          /\ Count(passage, PassedOut(frames))' = Count(passage, PassedOut(frames))
      BY <1>5, <2>1, <2>2
    <2>4. NoneForeign(frames)' => NoneForeign(frames)
      BY <1>2, <1>3 DEF NoneForeign
    <2>5. Written("in", Of(frames))' = Count(passage, PassedIn(frames))'
      BY <1>4, <2>3 DEF WrittenInv
    <2>6. Written("out", Of(frames))' = Count(passage, PassedOut(frames))'
      BY <1>4, <2>3 DEF WrittenInv
    <2>7. ASSUME NEW t \in Int, NoneForeign(frames)'
          PROVE  Written("out", Upto(frames, t))' <= Written("in", Upto(frames, t))'
      <3>1. Written("out", Upto(frames, t)) <= Written("in", Upto(frames, t))
        BY <2>4, <2>7 DEF WrittenInv
      <3>. QED  BY <1>4, <3>1
    <2>. QED  BY <2>5, <2>6, <2>7
  <1>. QED  BY <1>6 DEF WrittenInv

\* The captures that were started first run, and their number says which is next.
LEMMA StartedNumber ==
  ASSUME NEW m \in 0 .. 3, NEW X, X = {StartOrder[x] : x \in 1 .. m}
  PROVE  /\ Cardinality(X) = m
         /\ m < 3 => X \union {StartOrder[m + 1]} = {StartOrder[x] : x \in 1 .. m + 1}
         /\ m = 3 => X \union {StartOrder[m + 1]} = Captures
  <1>1. PICK a, b, c, d : /\ a = StartOrder[1] /\ b = StartOrder[2] /\ c = StartOrder[3] /\ d = StartOrder[4]
    OBVIOUS
  <1>2. /\ a = [iface |-> "eth0", dir |-> "in"] /\ b = [iface |-> "eth0", dir |-> "out"]
        /\ c = [iface |-> "eth1", dir |-> "in"] /\ d = [iface |-> "eth1", dir |-> "out"]
    BY <1>1 DEF StartOrder
  <1>3. a # b /\ a # c /\ b # c
    BY <1>2
  <1>4. Captures = {a, b, c, d}
    <2>1. \A x \in Captures : x = [iface |-> x.iface, dir |-> x.dir] /\ x.iface \in {"eth0", "eth1"} /\ x.dir \in {"in", "out"}
      BY DEF Captures, Ifaces
    <2>2. \A x \in Captures : x \in {a, b, c, d}
      BY <1>2, <2>1
    <2>3. a \in Captures /\ b \in Captures /\ c \in Captures /\ d \in Captures
      BY <1>2 DEF Captures, Ifaces
    <2>. QED  BY <2>2, <2>3
  <1>5. {StartOrder[x] : x \in 1 .. m + 1} = X \union {StartOrder[m + 1]}
    <2>1. PICK n : n = m + 1
      OBVIOUS
    <2>2. 1 .. n = 1 .. m \union {n}
      BY <2>1
    <2>. QED  BY <2>1, <2>2
  <1>6. /\ m = 0 => X = {}
        /\ m = 1 => X = {a}
        /\ m = 2 => X = {a, b}
        /\ m = 3 => X = {a, b, c}
    <2>1. 1 .. 0 = {} /\ 1 .. 1 = {1} /\ 1 .. 2 = {1, 2} /\ 1 .. 3 = {1, 2, 3}
      OBVIOUS
    <2>. QED  BY <1>1, <2>1
  <1>7. Cardinality({}) = 0 /\ IsFiniteSet({})
    BY FS_EmptySet
  <1>8. PICK A, B, C : A = {a} /\ B = {a, b} /\ C = {a, b, c}
    OBVIOUS
  <1>9. Cardinality(A) = 1 /\ IsFiniteSet(A)
    BY <1>8, FS_Singleton
  <1>10. Cardinality(B) = 2 /\ IsFiniteSet(B)
    <2>1. Cardinality(A \union {b}) = Cardinality(A) + 1 /\ IsFiniteSet(A \union {b})
      BY <1>3, <1>8, <1>9, FS_AddElement
    <2>2. B = A \union {b}
      BY <1>8
    <2>. QED  BY <1>9, <2>1, <2>2
  <1>11. Cardinality(C) = 3
    <2>1. Cardinality(B \union {c}) = Cardinality(B) + 1
      BY <1>3, <1>8, <1>10, FS_AddElement
    <2>2. C = B \union {c}
      BY <1>8
    <2>. QED  BY <1>10, <2>1, <2>2
  <1>12. m = 0 \/ m = 1 \/ m = 2 \/ m = 3
    OBVIOUS
  <1>13. Cardinality(X) = m
    BY <1>6, <1>7, <1>8, <1>9, <1>10, <1>11, <1>12
  <1>14. m = 3 => X \union {StartOrder[m + 1]} = Captures
    BY <1>1, <1>4, <1>6
  <1>. QED  BY <1>5, <1>13, <1>14

\* The scripts.
LEMMA RunningStep == SessionInv /\ RunningInv /\ SessionStep => RunningInv'
  <1>. SUFFICES ASSUME SessionInv, RunningInv, SessionStep PROVE RunningInv'
    OBVIOUS
  <1>1. CASE StartCapture
    <2>1. PICK m \in 0 .. 3 : running = {StartOrder[x] : x \in 1 .. m}
      BY <1>1 DEF StartCapture, RunningInv
    <2>2. Cardinality(running) = m
      BY <2>1, StartedNumber
    <2>3. /\ running' = running \union {StartOrder[m + 1]}
          /\ phase' = IF m + 1 = 4 THEN "capturing" ELSE "starting"
      BY <1>1, <2>2 DEF StartCapture, StartOrder
    <2>4. CASE m < 3
      <3>1. running' = {StartOrder[x] : x \in 1 .. m + 1}
        BY <2>1, <2>3, <2>4, StartedNumber
      <3>2. PICK n \in 0 .. 3 : n = m + 1
        BY <2>4
      <3>. QED  BY <2>3, <2>4, <3>1, <3>2 DEF RunningInv
    <2>5. CASE m = 3
      <3>1. running' = Captures
        BY <2>1, <2>3, <2>5, StartedNumber
      <3>. QED  BY <2>3, <2>5, <3>1 DEF RunningInv
    <2>. QED  BY <2>4, <2>5
  <1>2. CASE StopIngress
    BY <1>2 DEF StopIngress, RunningInv
  <1>3. CASE StopEgress
    BY <1>3 DEF StopEgress, RunningInv
  <1>4. CASE UNCHANGED <<phase, running>>
    BY <1>4 DEF RunningInv
  <1>. QED  BY <1>1, <1>2, <1>3, <1>4 DEF SessionStep, Arrive, Leave, Drop, TimePasses

\* What happened in the switch.
LEMMA PassageStep == SessionInv /\ RunningInv /\ PassageInv /\ SessionStep => PassageInv'
  <1>. SUFFICES ASSUME SessionInv, RunningInv, PassageInv, SessionStep PROVE PassageInv'
    OBVIOUS
  <1>1. CASE StartCapture \/ StopIngress
    BY <1>1 DEF StartCapture, StopIngress, PassageInv
  <1>2. CASE StopEgress
    BY <1>2 DEF StopEgress, Inside, PassageInv
  <1>3. CASE TimePasses
    BY <1>3 DEF TimePasses, PassageInv
  <1>4. ASSUME NEW f \in Traffic, Arrive(f) PROVE PassageInv'
    <2>1. PICK p : /\ passage' = Append(passage, p) /\ p.fate = "inside" /\ p.seen_out = FALSE /\ p.while = phase
                   /\ p = [frame |-> f.frame, iface |-> f.iface, fate |-> "inside",
                           seen_in |-> [iface |-> f.iface, dir |-> "in"] \in running, seen_out |-> FALSE,
                           while |-> phase]
      BY <1>4 DEF Arrive
    <2>2. PICK s \in Seq(Passage) : s = passage
      BY DEF SessionInv
    <2>3. PICK q : q = passage' /\ q = Append(s, p)
      BY <2>1, <2>2
    <2>4. p \in Passage
      <3>1. PICK b \in BOOLEAN : b = ([iface |-> f.iface, dir |-> "in"] \in running)
        <4>1. ([iface |-> f.iface, dir |-> "in"] \in running) \in BOOLEAN
          OBVIOUS
        <4>. QED  BY <4>1, Zenon
      <3>2. p = [frame |-> f.frame, iface |-> f.iface, fate |-> "inside", seen_in |-> b, seen_out |-> FALSE,
                 while |-> phase]
        BY <2>1, <3>1
      <3>. QED  BY <3>2, CampaignsAssumption DEF Passage, SessionInv
    <2>5. /\ DOMAIN q = DOMAIN s \union {Len(s) + 1} /\ q[Len(s) + 1] = p
          /\ \A m \in DOMAIN s : q[m] = s[m]
      BY <2>2, <2>3, <2>4, RangeAppend
    <2>6. phase' = phase /\ phase # "stopped"
      BY <1>4 DEF Arrive
    <2>. QED  BY <2>1, <2>2, <2>3, <2>5, <2>6 DEF PassageInv
  <1>5. ASSUME NEW n \in Inside, Leave(n) PROVE PassageInv'
    <2>1. n \in DOMAIN passage /\ passage[n] \in Passage
      BY DEF Inside, SessionInv
    <2>2. PICK c : /\ c = [iface |-> Other(passage[n].iface), dir |-> "out"]
                   /\ passage' = [passage EXCEPT ![n].fate = "left", ![n].seen_out = c \in running]
                   /\ UNCHANGED phase /\ phase # "stopped"
      BY <1>5 DEF Leave
    <2>3. c \in Captures \ Ingress
      BY <2>1, <2>2 DEF Captures, Ingress, Other, Ifaces
    <2>4. PICK q : q = passage' /\ DOMAIN q = DOMAIN passage
                   /\ \A m \in DOMAIN passage : m # n => q[m] = passage[m]
      BY <2>2
    <2>5. /\ q[n].fate = "left" /\ q[n].while = passage[n].while /\ q[n].seen_out = (c \in running)
      BY <2>1, <2>2, <2>4 DEF Passage
    <2>6. phase # "starting" => c \in running
      BY <2>2, <2>3 DEF RunningInv, SessionInv
    <2>. QED  BY <2>1, <2>2, <2>4, <2>5, <2>6 DEF PassageInv
  <1>6. ASSUME NEW n \in Inside, Drop(n) PROVE PassageInv'
    <2>1. n \in DOMAIN passage /\ passage[n] \in Passage /\ passage[n].fate = "inside"
      BY DEF Inside, SessionInv
    <2>2. passage' = [passage EXCEPT ![n].fate = "dropped"] /\ UNCHANGED phase /\ phase # "stopped"
      BY <1>6 DEF Drop
    <2>3. PICK q : q = passage' /\ DOMAIN q = DOMAIN passage
                   /\ \A m \in DOMAIN passage : m # n => q[m] = passage[m]
      BY <2>2
    <2>4. /\ q[n].fate = "dropped" /\ q[n].while = passage[n].while /\ q[n].seen_out = passage[n].seen_out
      BY <2>1, <2>2, <2>3 DEF Passage
    <2>. QED  BY <2>1, <2>2, <2>3, <2>4 DEF PassageInv
  <1>. QED  BY <1>1, <1>2, <1>3, <1>4, <1>5, <1>6 DEF SessionStep

\* The session, whatever it does.
LEMMA HistoryStep ==
  SessionInv /\ HistoryInv /\ (SessionStep \/ UNCHANGED session) => HistoryInv'
  <1>. SUFFICES ASSUME SessionInv, HistoryInv, SessionStep \/ UNCHANGED session PROVE HistoryInv'
    OBVIOUS
  <1>0. RunningInv /\ StampInv /\ PassageInv /\ WrittenInv
    BY DEF HistoryInv
  <1>1. CASE UNCHANGED session
    <2>1. UNCHANGED <<phase, running, pcap, passage, time>>
      BY <1>1 DEF session
    <2>2. RunningInv' /\ StampInv' /\ PassageInv'
      BY <1>0, <2>1 DEF RunningInv, StampInv, PassageInv
    <2>3. WrittenInv'
      BY <1>0, <2>1, QuietWrites
    <2>. QED  BY <2>2, <2>3 DEF HistoryInv
  <1>2. CASE SessionStep
    <2>1. RunningInv' /\ PassageInv'
      BY <1>0, <1>2, RunningStep, PassageStep
    <2>2. StampInv' /\ WrittenInv'
      <3>1. CASE StartCapture \/ StopIngress \/ StopEgress
        <4>1. UNCHANGED <<pcap, passage, time>>
          BY <3>1 DEF StartCapture, StopIngress, StopEgress
        <4>2. WrittenInv'
          BY <1>0, <4>1, QuietWrites
        <4>. QED  BY <1>0, <4>1, <4>2 DEF StampInv
      <3>2. CASE TimePasses
        <4>1. UNCHANGED <<pcap, passage>> /\ time' = time + 1 /\ time \in Int
          BY <3>2 DEF TimePasses, SessionInv
        <4>2. WrittenInv'
          BY <1>0, <4>1, QuietWrites
        <4>3. ASSUME NEW c \in Captures, NEW x \in DOMAIN pcap[c] PROVE pcap[c][x].ts <= time'
          <5>1. PICK s \in Seq(Captured) : s = pcap[c]
            BY DEF SessionInv
          <5>2. s[x] \in Captured
            BY <4>3, <5>1
          <5>3. s[x].ts \in Int
            BY <5>2 DEF Captured
          <5>4. s[x].ts <= time
            BY <1>0, <4>3, <5>1 DEF StampInv
          <5>. QED  BY <4>1, <5>1, <5>3, <5>4
        <4>. QED  BY <1>0, <4>1, <4>2, <4>3 DEF StampInv
      <3>3. ASSUME NEW f \in Traffic, Arrive(f) PROVE StampInv' /\ WrittenInv'
        <4>1. f.frame \in DOMAIN Fields /\ [iface |-> f.iface, dir |-> "in"] \in Captures
          BY CampaignsAssumption DEF Captures
        <4>2. StampInv'
          <5>1. PICK c, frame : c = [iface |-> f.iface, dir |-> "in"] /\ frame = f.frame
            OBVIOUS
          <5>2. Seen(c, frame) /\ UNCHANGED time
            BY <3>3, <5>1 DEF Arrive
          <5>. QED  BY <1>0, <4>1, <5>1, <5>2, SeenStamps
        <4>. QED  BY <1>0, <3>3, <4>2, ArriveWrites
      <3>4. ASSUME NEW n \in Inside, Leave(n) PROVE StampInv' /\ WrittenInv'
        <4>1. passage[n].frame \in DOMAIN Fields /\ [iface |-> Other(passage[n].iface), dir |-> "out"] \in Captures
          <5>1. passage[n] \in Passage
            BY DEF Inside, SessionInv
          <5>. QED  BY <5>1 DEF Passage, Captures, Other, Ifaces
        <4>2. StampInv'
          <5>1. PICK c, frame : c = [iface |-> Other(passage[n].iface), dir |-> "out"] /\ frame = passage[n].frame
            OBVIOUS
          <5>2. Seen(c, frame) /\ UNCHANGED time
            BY <3>4, <5>1 DEF Leave
          <5>. QED  BY <1>0, <4>1, <5>1, <5>2, SeenStamps
        <4>. QED  BY <3>4, <4>2, LeaveWrites
      <3>5. ASSUME NEW n \in Inside, Drop(n) PROVE StampInv' /\ WrittenInv'
        <4>1. UNCHANGED <<pcap, time>>
          BY <3>5 DEF Drop
        <4>2. StampInv'
          BY <1>0, <4>1 DEF StampInv
        <4>. QED  BY <1>0, <3>5, <4>2, DropWrites
      <3>. QED  BY <1>2, <3>1, <3>2, <3>3, <3>4, <3>5 DEF SessionStep
    <2>. QED  BY <2>1, <2>2 DEF HistoryInv
  <1>. QED  BY <1>1, <1>2

\* A live run is over when its captures are analysed, and stays so. An egress packet
\* that found no ingress packet never finds one.
LiveInv == Plan.live # 0 /\ records # <<>> => phase = "stopped"
LoneInv ==
  \A m \in Range(unmatched_egress) :
    /\ i = Len(ingress_events)
    /\ egress_events[m].key \in DOMAIN ingress_q => ingress_q[egress_events[m].key] = <<>>

MeasuredInv == HistoryInv /\ LiveInv /\ LoneInv

\* A step of the pairing.
LEMMA LonePairing == TypeInv /\ LoneInv /\ PairingStep => LoneInv'
  <1>. SUFFICES ASSUME TypeInv, LoneInv, PairingStep PROVE LoneInv'
    OBVIOUS
  <1>0. i \in Nat /\ Len(ingress_events) \in Nat
    BY DEF TypeInv, PairInv
  <1>1. CASE EnqueueIngress
    <2>1. i < Len(ingress_events) /\ unmatched_egress' = unmatched_egress
      BY <1>1 DEF EnqueueIngress
    <2>2. Range(unmatched_egress) = {}
      BY <1>0, <2>1 DEF LoneInv
    <2>. QED  BY <2>1, <2>2 DEF LoneInv
  <1>2. CASE PairEgress
    <2>1. PICK k : k = egress_events[j + 1].key
      OBVIOUS
    <2>2. /\ Waiting(k) /\ ingress_q' = [ingress_q EXCEPT ![k] = Tail(@)]
          /\ UNCHANGED <<ingress_events, egress_events, i, unmatched_egress>>
      BY <1>2, <2>1 DEF PairEgress
    <2>3. \A m \in Range(unmatched_egress) : egress_events[m].key # k
      BY <2>2 DEF LoneInv, Waiting
    <2>4. DOMAIN ingress_q' = DOMAIN ingress_q /\ \A x \in DOMAIN ingress_q : x # k => ingress_q'[x] = ingress_q[x]
      BY <2>2
    <2>. QED  BY <2>2, <2>3, <2>4 DEF LoneInv
  <1>3. CASE LoneEgress
    <2>1. /\ i = Len(ingress_events) /\ ~Waiting(egress_events[j + 1].key)
          /\ unmatched_egress' = Append(unmatched_egress, j + 1)
          /\ UNCHANGED <<ingress_events, egress_events, ingress_q, i>>
      BY <1>3 DEF LoneEgress
    <2>2. Range(unmatched_egress') = Range(unmatched_egress) \union {j + 1}
      <3>1. PICK s \in Seq(Nat) : s = unmatched_egress
        <4>1. j \in Nat /\ unmatched_egress \in Seq(1 .. j)
          BY DEF TypeInv, PairInv
        <4>. QED  BY <4>1
      <3>2. j + 1 \in Nat
        BY DEF TypeInv, PairInv
      <3>. QED  BY <2>1, <3>1, <3>2, RangeAppendNat
    <2>. QED  BY <2>1, <2>2 DEF LoneInv, Waiting
  <1>. QED  BY <1>1, <1>2, <1>3 DEF PairingStep

\* MeasuredInv is inductive.
LEMMA MeasuredStep == TypeInv /\ MeasuredInv /\ [Next]_vars => MeasuredInv'
  <1>. SUFFICES ASSUME TypeInv, MeasuredInv, [Next]_vars PROVE MeasuredInv'
    OBVIOUS
  <1>0. SessionInv /\ HistoryInv /\ LiveInv /\ LoneInv
    BY DEF TypeInv, MeasuredInv
  <1>1. HistoryInv'
    BY <1>0, HistoryStep DEF Next, Measure, StartReport, Report, Exited, vars
  <1>2. LiveInv'
    <2>1. CASE Measure
      <3>1. SessionStep /\ UNCHANGED <<campaign, records>>
        BY <2>1 DEF Measure, report
      <3>2. phase # "stopped"
        BY <3>1 DEF SessionStep, StartCapture, StopIngress, StopEgress, Arrive, Leave, Drop, TimePasses
      <3>. QED  BY <1>0, <3>1, <3>2 DEF LiveInv, Plan
    <2>2. CASE StartReport
      BY <2>2 DEF StartReport, session, LiveInv, Plan
    <2>3. CASE Report
      <3>1. UNCHANGED <<campaign, phase, records>>
        BY <2>3 DEF Report, session, ReportStep, LoadRecord, PairRecord, StoreResult, WriteReport, report
      <3>. QED  BY <1>0, <3>1 DEF LiveInv, Plan
    <2>4. CASE Exited \/ UNCHANGED vars
      BY <1>0, <2>4 DEF Exited, vars, session, report, LiveInv, Plan
    <2>. QED  BY <2>1, <2>2, <2>3, <2>4 DEF Next
  <1>3. LoneInv'
    <2>1. CASE PairRecord
      BY <1>0, <2>1, LonePairing DEF PairRecord
    <2>2. CASE LoadRecord
      <3>1. unmatched_egress' = <<>>
        BY <2>2 DEF LoadRecord, AnalyzePaths
      <3>2. Range(unmatched_egress') = {}
        BY <3>1 DEF Range
      <3>. QED  BY <3>2 DEF LoneInv
    <2>3. CASE UNCHANGED pairing
      BY <1>0, <2>3 DEF pairing, LoneInv
    <2>4. Measure \/ StartReport \/ StoreResult \/ WriteReport \/ Exited \/ UNCHANGED vars => UNCHANGED pairing
      BY DEF Measure, StartReport, DiscoverRecords, StoreResult, WriteReport, Exited, vars
    <2>. QED  BY <2>1, <2>2, <2>3, <2>4 DEF Next, Report, ReportStep
  <1>. QED  BY <1>1, <1>2, <1>3 DEF MeasuredInv

\* Nothing has passed, runs or was captured at the start.
LEMMA MeasuredInit == Init => MeasuredInv
  <1>. SUFFICES ASSUME Init PROVE MeasuredInv
    OBVIOUS
  <1>1. /\ phase = "starting" /\ running = {} /\ pcap = [c \in Captures |-> <<>>] /\ passage = <<>>
        /\ records = <<>> /\ unmatched_egress = <<>>
    BY DEF Init, SessionInit, ReportInit, PairingInit
  <1>2. LiveInv
    BY <1>1 DEF LiveInv
  <1>3. LoneInv
    <2>1. Range(unmatched_egress) = {}
      BY <1>1 DEF Range
    <2>. QED  BY <2>1 DEF LoneInv
  <1>4. RunningInv
    <2>1. PICK m \in 0 .. 3 : m = 0
      OBVIOUS
    <2>2. running = {StartOrder[x] : x \in 1 .. m}
      BY <1>1, <2>1
    <2>. QED  BY <1>1, <2>2 DEF RunningInv
  <1>5. StampInv /\ PassageInv
    BY <1>1 DEF StampInv, PassageInv
  <1>6. WrittenInv
    <2>1. \A d \in {"in", "out"} : pcap[Capture("eth0", d)] = <<>> /\ pcap[Capture("eth1", d)] = <<>>
      BY <1>1 DEF Capture, Captures, Ifaces
    <2>2. \A kind : Count(<<>>, kind) = 0
      BY FS_EmptySet DEF Count
    <2>3. \A kind : Written("in", kind) = 0 /\ Written("out", kind) = 0
      BY <2>1, <2>2 DEF Written
    <2>. QED  BY <1>1, <2>2, <2>3 DEF WrittenInv
  <1>. QED  BY <1>2, <1>3, <1>4, <1>5, <1>6 DEF MeasuredInv, HistoryInv

\* Of two sequences one behind the other, the counts add up.
LEMMA ConcatCounts ==
  ASSUME NEW V, NEW a \in Seq(V), NEW b \in Seq(V), NEW kind
  PROVE  Count(a \o b, kind) = Count(a, kind) + Count(b, kind)
  <1>0. PICK t : t = a \o b
    OBVIOUS
  <1>1. PICK m, n \in Nat : m = Len(a) /\ n = Len(b) /\ DOMAIN a = 1 .. m /\ DOMAIN b = 1 .. n
    OBVIOUS
  <1>2. /\ t \in Seq(V) /\ DOMAIN t = 1 .. m + n
        /\ \A x \in 1 .. m : t[x] = a[x]
        /\ \A y \in 1 .. n : t[m + y] = b[y]
    BY <1>0, <1>1
  <1>3. PICK A, B, T : /\ A = {x \in DOMAIN a : a[x] \in kind}
                       /\ B = {y \in DOMAIN b : b[y] \in kind}
                       /\ T = {x \in DOMAIN t : t[x] \in kind}
    OBVIOUS
  <1>4. PICK C : C = {x \in 1 .. m + n : x > m /\ t[x] \in kind}
    OBVIOUS
  <1>5. IsFiniteSet(A) /\ IsFiniteSet(B)
    <2>1. A \in SUBSET (1 .. m) /\ B \in SUBSET (1 .. n)
      BY <1>1, <1>3
    <2>. QED  BY <2>1, IntervalPart
  <1>6. PICK h : h = [y \in B |-> m + y]
    OBVIOUS
  <1>7. h \in Bijection(B, C)
    <2>1. \A y \in B : y \in 1 .. n /\ h[y] = m + y
      BY <1>1, <1>3, <1>6
    <2>2. h \in [B -> C]
      <3>1. ASSUME NEW y \in B PROVE m + y \in C
        <4>1. y \in 1 .. n /\ b[y] \in kind
          BY <1>1, <1>3
        <4>2. m + y \in 1 .. m + n /\ m + y > m
          BY <4>1
        <4>3. t[m + y] = b[y]
          BY <1>2, <4>1
        <4>. QED  BY <1>4, <4>1, <4>2, <4>3
      <3>. QED  BY <1>6, <3>1
    <2>3. \A x, y \in B : h[x] = h[y] => x = y
      BY <2>1
    <2>4. ASSUME NEW z \in C PROVE \E y \in B : h[y] = z
      <3>1. z - m \in 1 .. n /\ m + (z - m) = z
        BY <1>4
      <3>2. z - m \in B
        BY <1>1, <1>2, <1>3, <1>4, <3>1
      <3>. QED  BY <2>1, <3>1, <3>2
    <2>5. h \in Injection(B, C) /\ h \in Surjection(B, C)
      BY <2>2, <2>3, <2>4, Fun_IsInj, Fun_IsSurj
    <2>. QED  BY <2>5 DEF Bijection
  <1>8. IsFiniteSet(C) /\ Cardinality(C) = Cardinality(B)
    <2>1. ExistsBijection(B, C)
      BY <1>7 DEF ExistsBijection
    <2>. QED  BY <1>5, <2>1, FS_Bijection
  <1>9. T = A \union C /\ A \cap C = {}
    <2>1. A \subseteq 1 .. m /\ \A x \in A : x \in T /\ x \notin C
      BY <1>1, <1>2, <1>3, <1>4
    <2>2. \A x \in C : x \in T
      BY <1>2, <1>3, <1>4
    <2>3. \A x \in T : x \in A \/ x \in C
      BY <1>1, <1>2, <1>3, <1>4
    <2>. QED  BY <2>1, <2>2, <2>3
  <1>10. Cardinality(T) = Cardinality(A) + Cardinality(C)
    <2>1. Cardinality(A \union C) = Cardinality(A) + Cardinality(C) - Cardinality(A \cap C)
      BY <1>5, <1>8, FS_Union
    <2>2. Cardinality(A \cap C) = 0 /\ Cardinality(A) \in Nat /\ Cardinality(C) \in Nat
      BY <1>5, <1>8, <1>9, FS_EmptySet, FS_CardinalityType
    <2>. QED  BY <1>9, <2>1, <2>2
  <1>. QED  BY <1>0, <1>3, <1>8, <1>10 DEF Count

\* Two sequences, flattened.
LEMMA FlattenTwo ==
  ASSUME NEW V, NEW a \in Seq(V), NEW b \in Seq(V), NEW ss, Len(ss) = 2, ss \in Seq(Seq(V)), ss[1] = a, ss[2] = b
  PROVE  FlattenSeq(ss) = a \o b
  <1>1. PICK f \in [1 .. Len(ss) -> Seq(V)] : IsFlat(f, ss)
    BY FlatExists
  <1>2. FlattenSeq(ss) = (CHOOSE g : IsFlat(g, ss))[2]
    <2>1. Len(ss) # 0
      OBVIOUS
    <2>2. FlattenSeq(ss) = (CHOOSE g : IsFlat(g, ss))[Len(ss)]
      BY <2>1 DEF FlattenSeq, IsFlat
    <2>. QED  BY <2>2
  <1>3. PICK g : g = CHOOSE x : IsFlat(x, ss)
    OBVIOUS
  <1>4. IsFlat(g, ss)
    BY <1>1, <1>3
  <1>5. g[1] = ss[1] /\ g[2] = g[1] \o ss[2]
    <2>1. \A m \in 1 .. Len(ss) : g[m] = IF m = 1 THEN ss[1] ELSE g[m - 1] \o ss[m]
      BY <1>4 DEF IsFlat
    <2>2. 1 \in 1 .. Len(ss) /\ 2 \in 1 .. Len(ss) /\ 2 - 1 = 1
      OBVIOUS
    <2>. QED  BY <2>1, <2>2
  <1>. QED  BY <1>2, <1>3, <1>5

\* A file that was closed properly is read to its end.
LEMMA WholeFile ==
  ASSUME NEW r, NEW file, file = [header |-> TRUE, records |-> r], \A n \in DOMAIN r : r[n].whole
  PROVE  IterPcap(file) = r
  <1>1. {n \in DOMAIN r : ~r[n].whole} = {}
    OBVIOUS
  <1>. QED  BY <1>1 DEF IterPcap

\* What is kept of a sequence counts as the positions kept do.
LEMMA AtCounts ==
  ASSUME NEW V, NEW s \in Seq(V), NEW P \in SUBSET (DOMAIN s), NEW t, t = At(s, P),
         NEW kind, NEW Q \in SUBSET P, \A p \in P : p \in Q <=> s[p] \in kind
  PROVE  Count(t, kind) = Cardinality(Q)
  <1>1. PICK n \in Nat : n = Len(s) /\ DOMAIN s = 1 .. n
    OBVIOUS
  <1>2. P \in SUBSET (1 .. n)
    BY <1>1
  <1>3. PICK c \in Nat : c = Cardinality(P)
    BY <1>2, AtNumbers
  <1>4. PICK g \in Bijection(1 .. c, P) : t = [m \in 1 .. c |-> s[g[m]]]
    <2>1. \E g \in Bijection(1 .. Cardinality(P), P) :
              /\ At(s, P) = [m \in 1 .. Cardinality(P) |-> s[g[m]]]
              /\ \A l, m \in 1 .. Cardinality(P) : l < m => g[l] < g[m]
      BY <1>2, AtNumbers
    <2>. QED  BY <1>3, <2>1
  <1>5. \A m \in 1 .. c : g[m] \in P
    BY DEF Bijection, Injection
  <1>6. PICK X \in SUBSET (1 .. c) : X = {m \in DOMAIN t : t[m] \in kind}
    BY <1>4
  <1>7. \A m \in 1 .. c : m \in X <=> g[m] \in Q
    BY <1>4, <1>5, <1>6
  <1>8. Cardinality(X) = Cardinality(Q)
    BY <1>7, NumberedCounts
  <1>. QED  BY <1>6, <1>8 DEF Count

\* The packets of a key, up to a moment, and those of a key at any time.
Keyed(k) == {p \in Packet : p.key = k}
Until(k, t) == {p \in Packet : p.key = k /\ p.ts <= t}

\* The frames that are read as packets of a key.
FramesOf(k) == {f \in DOMAIN Fields : OnPort(Fields[f], Port) /\ PacketKey(Fields[f]) = k}

\* What is read of captured records counts as the records of its frames.
LEMMA ReadCounts ==
  ASSUME NEW read \in Seq(Captured), NEW wanted \in SUBSET (DOMAIN read),
         \A n \in DOMAIN read : n \in wanted <=> OnPort(Fields[read[n].frame], Port),
         NEW kept, kept = At(read, wanted),
         NEW s, s = [n \in DOMAIN kept |-> ParseIpv4Tcp(kept[n].ts, Fields[kept[n].frame])],
         NEW k
  PROVE  /\ Count(s, Keyed(k)) = Count(read, Of(FramesOf(k)))
         /\ \A t \in Int : Count(s, Until(k, t)) = Count(read, Upto(FramesOf(k), t))
  <1>1. \A n \in DOMAIN read : read[n] \in Captured
    OBVIOUS
  <1>2. \A r \in Captured : r.ts \in Int /\ r.frame \in DOMAIN Fields
    BY DEF Captured
  <1>3. kept \in Seq(Captured)
    BY AtType
  <1>4. \A n \in DOMAIN kept : kept[n] \in Captured
    BY <1>3
  <1>5. DOMAIN s = DOMAIN kept
    OBVIOUS
  <1>6. ASSUME NEW n \in DOMAIN kept
        PROVE  s[n] \in Packet /\ s[n].ts = kept[n].ts /\ s[n].key = PacketKey(Fields[kept[n].frame])
    <2>1. PICK ts, f : ts = kept[n].ts /\ f = kept[n].frame /\ ts \in Int /\ f \in DOMAIN Fields
      BY <1>2, <1>4
    <2>2. s[n] = ParseIpv4Tcp(ts, Fields[f])
      BY <2>1
    <2>3. s[n] \in Packet
      BY <2>1, <2>2 DEF Packet
    <2>4. s[n].ts = ts /\ s[n].key = PacketKey(Fields[f])
      BY <2>2 DEF ParseIpv4Tcp
    <2>. QED  BY <2>1, <2>3, <2>4
  <1>7. PICK of : of = {r \in Captured : PacketKey(Fields[r.frame]) = k}
    OBVIOUS
  <1>8. Count(s, Keyed(k)) = Count(read, Of(FramesOf(k)))
    <2>1. {n \in DOMAIN s : s[n] \in Keyed(k)} = {n \in DOMAIN kept : kept[n] \in of}
      BY <1>4, <1>5, <1>6, <1>7 DEF Keyed
    <2>2. PICK Q : Q = {n \in DOMAIN read : read[n] \in Of(FramesOf(k))}
      OBVIOUS
    <2>3. Q \in SUBSET wanted /\ \A n \in wanted : n \in Q <=> read[n] \in of
      BY <1>1, <1>2, <1>7, <2>2 DEF Of, FramesOf
    <2>4. Count(kept, of) = Cardinality(Q)
      BY <2>3, AtCounts
    <2>. QED  BY <2>1, <2>2, <2>4 DEF Count
  <1>9. ASSUME NEW t \in Int PROVE Count(s, Until(k, t)) = Count(read, Upto(FramesOf(k), t))
    <2>0. PICK now : now = {r \in of : r.ts <= t}
      OBVIOUS
    <2>1. {n \in DOMAIN s : s[n] \in Until(k, t)} = {n \in DOMAIN kept : kept[n] \in now}
      BY <1>4, <1>5, <1>6, <1>7, <2>0 DEF Until
    <2>2. PICK Q : Q = {n \in DOMAIN read : read[n] \in Upto(FramesOf(k), t)}
      OBVIOUS
    <2>3. Q \in SUBSET wanted /\ \A n \in wanted : n \in Q <=> read[n] \in now
      BY <1>1, <1>2, <1>7, <2>0, <2>2 DEF Upto, FramesOf
    <2>4. Count(kept, now) = Cardinality(Q)
      BY <2>3, AtCounts
    <2>. QED  BY <2>1, <2>2, <2>4 DEF Count
  <1>. QED  BY <1>8, <1>9

\* So the files of the live run count as what its captures wrote.
LEMMA LiveCounts ==
  ASSUME SessionInv, StampInv, NEW d \in {"in", "out"}, NEW s, s = IterPortPackets(LiveFiles(d), Port), NEW k
  PROVE  /\ Count(s, Keyed(k)) = Written(d, Of(FramesOf(k)))
         /\ \A t \in Int : Count(s, Until(k, t)) = Written(d, Upto(FramesOf(k), t))
  <1>1. PICK a, b : a = pcap[Capture("eth0", d)] /\ b = pcap[Capture("eth1", d)]
    OBVIOUS
  <1>2. Capture("eth0", d) \in Captures /\ Capture("eth1", d) \in Captures
    BY DEF Capture, Captures, Ifaces
  <1>3. a \in Seq(Captured) /\ b \in Seq(Captured)
    BY <1>1, <1>2 DEF SessionInv
  <1>4. (\A n \in DOMAIN a : a[n].whole) /\ \A n \in DOMAIN b : b[n].whole
    BY <1>1, <1>2 DEF StampInv
  <1>5. PICK files : files = LiveFiles(d)
    OBVIOUS
  <1>6. /\ DOMAIN files = 1 .. 2
        /\ files[1] = [header |-> TRUE, records |-> a] /\ files[2] = [header |-> TRUE, records |-> b]
    <2>0. PICK names : names = <<"eth0", "eth1">>
      OBVIOUS
    <2>1. names = <<"eth0", "eth1">> /\ names[1] = "eth0" /\ names[2] = "eth1"
      BY <2>0
    <2>2. files = [n \in 1 .. 2 |-> [header |-> TRUE, records |-> pcap[[iface |-> names[n], dir |-> d]]]]
      BY <1>5, <2>1 DEF LiveFiles
    <2>3. /\ DOMAIN files = 1 .. 2
          /\ files[1] = [header |-> TRUE, records |-> pcap[[iface |-> names[1], dir |-> d]]]
          /\ files[2] = [header |-> TRUE, records |-> pcap[[iface |-> names[2], dir |-> d]]]
      BY <2>2
    <2>. QED  BY <1>1, <2>1, <2>3 DEF Capture
  <1>7. PICK ss : ss = [n \in DOMAIN files |-> IterPcap(files[n])]
    OBVIOUS
  <1>8. ss[1] = a /\ ss[2] = b /\ DOMAIN ss = 1 .. 2
    <2>1. IterPcap(files[1]) = a
      BY <1>4, <1>6, WholeFile
    <2>2. IterPcap(files[2]) = b
      BY <1>4, <1>6, WholeFile
    <2>3. 1 \in DOMAIN files /\ 2 \in DOMAIN files
      BY <1>6
    <2>. QED  BY <1>6, <1>7, <2>1, <2>2, <2>3
  <1>9. ss \in Seq(Seq(Captured)) /\ Len(ss) = 2
    <2>0. PICK m \in Nat : m = 2
      OBVIOUS
    <2>1. PICK f \in [1 .. m -> Seq(Captured)] : f = ss
      <3>1. \A n \in 1 .. 2 : n = 1 \/ n = 2
        OBVIOUS
      <3>. QED  BY <1>3, <1>7, <1>8, <2>0, <3>1
    <2>. QED  BY <2>0, <2>1, FunctionIsSeq
  <1>10. PICK read : read = FlattenSeq(ss) /\ read = a \o b
    BY <1>3, <1>8, <1>9, FlattenTwo
  <1>11. read \in Seq(Captured)
    BY <1>3, <1>10
  <1>12. PICK wanted : wanted = {n \in DOMAIN read : OnPort(Fields[read[n].frame], Port)}
    OBVIOUS
  <1>13. PICK kept : kept = At(read, wanted)
    OBVIOUS
  <1>14. s = [n \in DOMAIN kept |-> ParseIpv4Tcp(kept[n].ts, Fields[kept[n].frame])]
    BY <1>5, <1>7, <1>10, <1>12, <1>13 DEF IterPortPackets
  <1>15. wanted \in SUBSET (DOMAIN read) /\ \A n \in DOMAIN read : n \in wanted <=> OnPort(Fields[read[n].frame], Port)
    BY <1>12
  <1>16. /\ Count(s, Keyed(k)) = Count(read, Of(FramesOf(k)))
         /\ \A t \in Int : Count(s, Until(k, t)) = Count(read, Upto(FramesOf(k), t))
    BY <1>11, <1>13, <1>14, <1>15, ReadCounts
  <1>17. ASSUME NEW kind PROVE Count(read, kind) = Written(d, kind)
    <2>1. Count(read, kind) = Count(a, kind) + Count(b, kind)
      BY <1>3, <1>10, ConcatCounts
    <2>. QED  BY <1>1, <2>1 DEF Written
  <1>. QED  BY <1>16, <1>17

\* The pairs of a key, and what left of it and found no ingress packet.
KeyedPairs(k) == {n \in DOMAIN pairs : ingress_events[pairs[n][1]].key = k}
KeyedLone(k) == {y \in Range(unmatched_egress) : egress_events[y].key = k}

\* The packets that entered and left are where the events and the queues say.
LEMMA EventsAre ==
  ASSUME TypeInv, Paired
  PROVE  \E m, n \in Nat : /\ m = i /\ n = j
                           /\ DOMAIN ingress_events = 1 .. m /\ \A x \in 1 .. m : ingress_events[x] \in Packet
                           /\ DOMAIN egress_events = 1 .. n /\ \A x \in 1 .. n : egress_events[x] \in Packet
  <1>1. ingress_events \in Seq(Packet) /\ egress_events \in Seq(Packet)
    BY DEF TypeInv, PairInv
  <1>2. PICK m, n \in Nat : m = Len(ingress_events) /\ n = Len(egress_events)
    BY <1>1
  <1>3. /\ DOMAIN ingress_events = 1 .. m /\ \A x \in 1 .. m : ingress_events[x] \in Packet
        /\ DOMAIN egress_events = 1 .. n /\ \A x \in 1 .. n : egress_events[x] \in Packet
    BY <1>1, <1>2
  <1>. QED  BY <1>2, <1>3 DEF Paired

\* What entered of a key is in a pair or in its queue.
LEMMA KeyIngressCounts ==
  ASSUME TypeInv, FifoInv, CoverInv, Paired, NEW k \in DOMAIN ingress_q
  PROVE  /\ IsFiniteSet(KeyedPairs(k)) /\ Cardinality(KeyedPairs(k)) \in Nat /\ Len(ingress_q[k]) \in Nat
         /\ Count(ingress_events, Keyed(k)) = Cardinality(KeyedPairs(k)) + Len(ingress_q[k])
  <1>1. PICK n \in Nat : n = i /\ DOMAIN ingress_events = 1 .. n /\ \A x \in 1 .. n : ingress_events[x] \in Packet
    BY EventsAre
  <1>2. PICK P, M, U : /\ P = {x \in DOMAIN ingress_events : ingress_events[x] \in Keyed(k)}
                       /\ M = KeyedPairs(k) /\ U = Range(ingress_q[k])
    OBVIOUS
  <1>3. PICK f : f = [x \in M |-> pairs[x][1]]
    OBVIOUS
  <1>4. \A x \in P : x \in 1 .. n /\ ingress_events[x].key = k
    BY <1>1, <1>2 DEF Keyed
  <1>5. \A x \in 1 .. n : ingress_events[x].key = k => x \in P
    BY <1>1, <1>2 DEF Keyed
  <1>6. IsFiniteSet(P)
    <2>1. P \in SUBSET (1 .. n)
      BY <1>4
    <2>. QED  BY <2>1, IntervalPart
  <1>7. f \in [M -> P] /\ \A x, y \in M : x # y => f[x] # f[y]
    BY <1>1, <1>2, <1>3, <1>5, PairsType DEF KeyedPairs
  <1>8. PICK q \in Seq(Nat) : /\ q = ingress_q[k] /\ \A x \in 1 .. Len(q) : q[x] <= n /\ ingress_events[q[x]].key = k
                              /\ \A l, m \in 1 .. Len(q) : l < m => q[l] < q[m]
    BY <1>1 DEF FifoInv, InOrder
  <1>9. PICK l \in Nat : l = Len(q) /\ DOMAIN q = 1 .. l
    OBVIOUS
  <1>10. \A x \in 1 .. l : q[x] \in 1 .. n
    <2>1. q \in Seq(1 .. i)
      BY <1>8 DEF TypeInv, PairInv
    <2>. QED  BY <1>1, <1>9, <2>1
  <1>11. U \in SUBSET P
    BY <1>2, <1>5, <1>8, <1>9, <1>10 DEF Range
  <1>12. ASSUME NEW p \in P PROVE p \in U \/ \E x \in M : f[x] = p
    <2>1. CASE \E x \in DOMAIN pairs : pairs[x][1] = p
      BY <1>2, <1>3, <1>4, <2>1 DEF KeyedPairs
    <2>2. CASE p \in Range(ingress_q[ingress_events[p].key])
      BY <1>2, <1>4, <2>2
    <2>. QED  BY <1>1, <1>4, <2>1, <2>2 DEF CoverInv
  <1>13. ASSUME NEW x \in M PROVE f[x] \notin U
    <2>. SUFFICES ASSUME f[x] \in U PROVE FALSE
      OBVIOUS
    <2>1. PICK y \in 1 .. l : q[y] = pairs[x][1]
      BY <1>2, <1>3, <1>8, <1>9 DEF Range
    <2>2. x \in DOMAIN pairs /\ ingress_events[pairs[x][1]].key = k /\ x \in 1 .. Len(pairs)
      BY <1>2, PairsType DEF KeyedPairs
    <2>3. pairs[x][1] < q[y]
      BY <1>8, <1>9, <2>2 DEF FifoInv, Ahead
    <2>4. q[y] \in Int
      BY <1>9
    <2>. QED  BY <2>1, <2>3, <2>4
  <1>14. /\ IsFiniteSet(M) /\ Cardinality(M) \in Nat /\ Cardinality(U) \in Nat
         /\ Cardinality(P) = Cardinality(M) + Cardinality(U)
    BY <1>6, <1>7, <1>11, <1>12, <1>13, CountSplit
  <1>15. Cardinality(U) = l
    <2>1. PICK h : h = [x \in 1 .. l |-> q[x]]
      OBVIOUS
    <2>2. U = {q[x] : x \in 1 .. l}
      BY <1>2, <1>8, <1>9 DEF Range
    <2>3. h \in [1 .. l -> U] /\ \A y \in U : \E x \in 1 .. l : h[x] = y
      BY <2>1, <2>2
    <2>4. \A x, y \in 1 .. l : h[x] = h[y] => x = y
      <3>1. \A x, y \in 1 .. l : x # y => x < y \/ y < x
        OBVIOUS
      <3>2. \A x, y \in 1 .. l : x < y => q[x] < q[y] /\ q[x] \in Nat /\ q[y] \in Nat
        BY <1>8, <1>9
      <3>. QED  BY <2>1, <3>1, <3>2
    <2>5. h \in Injection(1 .. l, U) /\ h \in Surjection(1 .. l, U)
      BY <2>3, <2>4, Fun_IsInj, Fun_IsSurj
    <2>6. PICK A : A = 1 .. l /\ IsFiniteSet(A) /\ Cardinality(A) = l
      BY FS_Interval
    <2>7. ExistsBijection(A, U)
      BY <2>5, <2>6 DEF ExistsBijection, Bijection
    <2>8. Cardinality(U) = Cardinality(A)
      BY <2>6, <2>7, FS_Bijection
    <2>. QED  BY <2>6, <2>8
  <1>. QED  BY <1>2, <1>8, <1>9, <1>14, <1>15 DEF Count

\* What left of a key is in a pair or alone.
LEMMA KeyEgressCounts ==
  ASSUME TypeInv, FifoInv, CoverInv, Paired, NEW k \in DOMAIN ingress_q
  PROVE  /\ IsFiniteSet(KeyedLone(k)) /\ Cardinality(KeyedLone(k)) \in Nat
         /\ Count(egress_events, Keyed(k)) = Cardinality(KeyedPairs(k)) + Cardinality(KeyedLone(k))
  <1>1. PICK n \in Nat : n = j /\ DOMAIN egress_events = 1 .. n /\ \A x \in 1 .. n : egress_events[x] \in Packet
    BY EventsAre
  <1>2. PICK P, M, U : /\ P = {x \in DOMAIN egress_events : egress_events[x] \in Keyed(k)}
                       /\ M = KeyedPairs(k) /\ U = KeyedLone(k)
    OBVIOUS
  <1>3. PICK f : f = [x \in M |-> pairs[x][2]]
    OBVIOUS
  <1>4. \A x \in P : x \in 1 .. n /\ egress_events[x].key = k
    BY <1>1, <1>2 DEF Keyed
  <1>5. \A x \in 1 .. n : egress_events[x].key = k => x \in P
    BY <1>1, <1>2 DEF Keyed
  <1>6. IsFiniteSet(P)
    <2>1. P \in SUBSET (1 .. n)
      BY <1>4
    <2>. QED  BY <2>1, IntervalPart
  <1>7. f \in [M -> P] /\ \A x, y \in M : x # y => f[x] # f[y]
    BY <1>1, <1>2, <1>3, <1>5, PairsType DEF KeyedPairs
  <1>8. U \in SUBSET P
    <2>1. \A x \in Range(unmatched_egress) : x \in 1 .. n
      <3>1. PICK s : s = unmatched_egress /\ s \in Seq(1 .. n)
        BY <1>1 DEF TypeInv, PairInv
      <3>. QED  BY <3>1 DEF Range
    <2>. QED  BY <1>2, <1>5, <2>1 DEF KeyedLone
  <1>9. ASSUME NEW p \in P PROVE p \in U \/ \E x \in M : f[x] = p
    <2>1. CASE \E x \in DOMAIN pairs : pairs[x][2] = p
      BY <1>2, <1>3, <1>4, <2>1, PairsType DEF KeyedPairs
    <2>2. CASE p \in Range(unmatched_egress)
      BY <1>2, <1>4, <2>2 DEF KeyedLone
    <2>. QED  BY <1>1, <1>4, <2>1, <2>2 DEF CoverInv
  <1>10. ASSUME NEW x \in M PROVE f[x] \notin U
    BY <1>2, <1>3 DEF CoverInv, KeyedPairs, KeyedLone
  <1>11. /\ IsFiniteSet(U) /\ Cardinality(U) \in Nat
         /\ Cardinality(P) = Cardinality(M) + Cardinality(U)
    BY <1>6, <1>7, <1>8, <1>9, <1>10, CountSplit
  <1>. QED  BY <1>2, <1>11 DEF Count

\* A pair with a negative delay: up to the moment its copy left, less had come of its
\* key than left.
LEMMA LatePair ==
  ASSUME TypeInv, FifoInv, CoverInv, Paired, NEW p \in DOMAIN pairs, Delay(pairs[p]) < 0,
         \A l, m \in 1 .. Len(ingress_events) : l < m => ingress_events[l].ts <= ingress_events[m].ts,
         \A l, m \in 1 .. Len(egress_events) : l < m => egress_events[l].ts <= egress_events[m].ts,
         NEW k, k = ingress_events[pairs[p][1]].key, NEW t, t = egress_events[pairs[p][2]].ts
  PROVE  t \in Int /\ Count(ingress_events, Until(k, t)) < Count(egress_events, Until(k, t))
  <1>1. PICK m, n \in Nat : /\ m = i /\ n = j
                            /\ DOMAIN ingress_events = 1 .. m /\ \A x \in 1 .. m : ingress_events[x] \in Packet
                            /\ DOMAIN egress_events = 1 .. n /\ \A x \in 1 .. n : egress_events[x] \in Packet
    BY EventsAre
  <1>2. m = Len(ingress_events) /\ n = Len(egress_events)
    BY <1>1 DEF Paired
  <1>3. PICK a \in 1 .. m, b \in 1 .. n : a = pairs[p][1] /\ b = pairs[p][2] /\ egress_events[b].key = k
    BY <1>1, PairsType
  <1>4. ingress_events[a].ts \in Int /\ t \in Int /\ t < ingress_events[a].ts
    <2>1. ingress_events[a].ts \in Int /\ egress_events[b].ts \in Int
      BY <1>1, ClassesDisjoint
    <2>2. egress_events[b].ts - ingress_events[a].ts < 0
      BY <1>3 DEF Delay
    <2>. QED  BY <1>3, <2>1, <2>2
  <1>5. PICK X, Y : /\ X = {x \in DOMAIN ingress_events : ingress_events[x] \in Until(k, t)}
                    /\ Y = {y \in DOMAIN egress_events : egress_events[y] \in Until(k, t)}
    OBVIOUS
  <1>6. ASSUME NEW x \in X PROVE x \in 1 .. m /\ ingress_events[x].key = k /\ x < a
    <2>1. x \in 1 .. m /\ ingress_events[x].key = k /\ ingress_events[x].ts <= t
      BY <1>1, <1>5 DEF Until
    <2>2. ingress_events[x].ts \in Int
      BY <1>1, <2>1, ClassesDisjoint
    <2>3. ~(ingress_events[a].ts <= ingress_events[x].ts)
      BY <1>4, <2>1, <2>2
    <2>4. ~(a < x) /\ a # x
      BY <1>2, <1>3, <1>4, <2>1, <2>2, <2>3
    <2>. QED  BY <2>1, <2>4
  <1>7. ASSUME NEW x \in X PROVE \E y \in DOMAIN pairs : pairs[y][1] = x /\ y < p
    <2>1. x \in 1 .. m /\ ingress_events[x].key = k /\ x < a /\ k \in DOMAIN ingress_q
      BY <1>1, <1>6 DEF CoverInv
    <2>2. x \notin Range(ingress_q[k])
      <3>. SUFFICES ASSUME x \in Range(ingress_q[k]) PROVE FALSE
        OBVIOUS
      <3>1. PICK q \in Seq(Nat) : q = ingress_q[k]
        BY <2>1 DEF FifoInv, InOrder
      <3>2. PICK z \in 1 .. Len(q) : q[z] = x
        BY <3>1 DEF Range
      <3>3. p \in 1 .. Len(pairs)
        BY PairsType
      <3>4. a < q[z]
        BY <1>3, <2>1, <3>1, <3>2, <3>3 DEF FifoInv, Ahead
      <3>. QED  BY <2>1, <3>2, <3>4
    <2>3. PICK y \in DOMAIN pairs : pairs[y][1] = x
      BY <1>1, <2>1, <2>2 DEF CoverInv
    <2>4. y \in 1 .. Len(pairs) /\ p \in 1 .. Len(pairs) /\ Len(pairs) \in Nat
      BY PairsType
    <2>5. ~(p < y)
      <3>1. p < y => a < x
        BY <1>3, <2>1, <2>3, <2>4 DEF FifoInv, Ordered
      <3>. QED  BY <2>1, <3>1
    <2>6. y # p
      BY <1>3, <2>1, <2>3
    <2>. QED  BY <2>3, <2>4, <2>5, <2>6
  <1>8. PICK of : of = [x \in X |-> CHOOSE y \in DOMAIN pairs : pairs[y][1] = x /\ y < p]
    OBVIOUS
  <1>9. \A x \in X : of[x] \in DOMAIN pairs /\ pairs[of[x]][1] = x /\ of[x] < p
    BY <1>7, <1>8
  <1>10. ASSUME NEW x \in X PROVE pairs[of[x]][2] \in Y \ {b}
    <2>1. PICK y : y = of[x] /\ y \in DOMAIN pairs /\ pairs[y][1] = x /\ y < p
      BY <1>9
    <2>2. PICK z \in 1 .. n : z = pairs[y][2] /\ egress_events[z].key = ingress_events[x].key
      BY <1>1, <2>1, PairsType
    <2>3. egress_events[z].key = k
      BY <1>6, <2>2
    <2>4. y \in 1 .. Len(pairs) /\ p \in 1 .. Len(pairs)
      BY <2>1, PairsType
    <2>5. z < b
      BY <1>3, <2>1, <2>2, <2>4 DEF FifoInv, Ordered
    <2>6. egress_events[z].ts <= t
      BY <1>2, <1>3, <2>5
    <2>7. z \in Y
      BY <1>1, <1>5, <2>3, <2>6 DEF Until
    <2>. QED  BY <2>1, <2>2, <2>5, <2>7
  <1>11. b \in Y
    <2>1. t <= t
      BY <1>4
    <2>. QED  BY <1>1, <1>3, <1>5, <2>1 DEF Until
  <1>12. PICK h : h = [x \in X |-> pairs[of[x]][2]]
    OBVIOUS
  <1>13. h \in Injection(X, Y \ {b})
    <2>1. h \in [X -> Y \ {b}]
      BY <1>10, <1>12
    <2>2. \A x, y \in X : h[x] = h[y] => x = y
      BY <1>9, <1>12, PairsType
    <2>. QED  BY <2>1, <2>2, Fun_IsInj
  <1>14. IsFiniteSet(Y)
    BY <1>1, <1>5, IntervalPart
  <1>15. IsFiniteSet(Y \ {b}) /\ Cardinality(Y \ {b}) = Cardinality(Y) - 1 /\ Cardinality(Y) \in Nat
    BY <1>11, <1>14, FS_RemoveElement, FS_CardinalityType
  <1>16. Cardinality(X) <= Cardinality(Y \ {b}) /\ IsFiniteSet(X)
    BY <1>13, <1>15, FS_Injection
  <1>17. Cardinality(X) \in Nat
    BY <1>16, FS_CardinalityType
  <1>18. Cardinality(X) < Cardinality(Y)
    BY <1>15, <1>16, <1>17
  <1>. QED  BY <1>4, <1>5, <1>18 DEF Count

\* The copies of a key are the passages of its frames.
LEMMA CopiesAre ==
  ASSUME TypeInv, NEW k
  PROVE  /\ Copies(k) = {n \in DOMAIN passage : passage[n].frame \in FramesOf(k)}
         /\ \A n \in DOMAIN passage : passage[n] \in Passage /\ passage[n].seen_in \in BOOLEAN
                                      /\ passage[n].seen_out \in BOOLEAN
         /\ ~Foreign(k) => NoneForeign(FramesOf(k))
  <1>1. \A n \in DOMAIN passage : passage[n] \in Passage
    BY DEF TypeInv, SessionInv
  <1>2. \A p \in Passage : p.frame \in DOMAIN Fields /\ p.seen_in \in BOOLEAN /\ p.seen_out \in BOOLEAN
    BY DEF Passage
  <1>3. ASSUME NEW n \in DOMAIN passage PROVE n \in Copies(k) <=> passage[n].frame \in FramesOf(k)
    <2>1. PICK f : f = Fields[passage[n].frame]
      OBVIOUS
    <2>2. ParseIpv4Tcp(0, f).key = PacketKey(f)
      BY DEF ParseIpv4Tcp
    <2>. QED  BY <1>1, <1>2, <2>1, <2>2 DEF Copies, FramesOf
  <1>4. \A n \in Copies(k) : n \in DOMAIN passage
    BY DEF Copies
  <1>5. Copies(k) = {n \in DOMAIN passage : passage[n].frame \in FramesOf(k)}
    BY <1>3, <1>4
  <1>. QED  BY <1>1, <1>2, <1>5 DEF Foreign, NoneForeign

\* The events of the live run count as what its captures wrote.
LEMMA EventsWritten ==
  ASSUME TypeInv, HistoryInv, GradeInv, LivePaired, NEW k
  PROVE  /\ Count(ingress_events, Keyed(k)) = Written("in", Of(FramesOf(k)))
         /\ Count(egress_events, Keyed(k)) = Written("out", Of(FramesOf(k)))
         /\ \A t \in Int : /\ Count(ingress_events, Until(k, t)) = Written("in", Upto(FramesOf(k), t))
                           /\ Count(egress_events, Until(k, t)) = Written("out", Upto(FramesOf(k), t))
         /\ \A l, m \in 1 .. Len(ingress_events) : l < m => ingress_events[l].ts <= ingress_events[m].ts
         /\ \A l, m \in 1 .. Len(egress_events) : l < m => egress_events[l].ts <= egress_events[m].ts
  <1>1. PICK a, b : a = IterPortPackets(LiveFiles("in"), Port) /\ b = IterPortPackets(LiveFiles("out"), Port)
    OBVIOUS
  <1>2. ingress_events = SortedByTs(a) /\ egress_events = SortedByTs(b)
    BY <1>1 DEF LivePaired, GradeInv
  <1>3. SessionInv /\ StampInv
    BY DEF TypeInv, HistoryInv
  <1>4. a \in Seq(Packet) /\ b \in Seq(Packet)
    BY <1>1, <1>3, LiveFilesType, IterPortPacketsType
  <1>5. /\ Count(a, Keyed(k)) = Written("in", Of(FramesOf(k)))
        /\ \A t \in Int : Count(a, Until(k, t)) = Written("in", Upto(FramesOf(k), t))
    <2>1. PICK d \in {"in", "out"} : d = "in"
      OBVIOUS
    <2>2. a = IterPortPackets(LiveFiles(d), Port)
      BY <1>1, <2>1
    <2>. QED  BY <1>3, <2>1, <2>2, LiveCounts
  <1>6. /\ Count(b, Keyed(k)) = Written("out", Of(FramesOf(k)))
        /\ \A t \in Int : Count(b, Until(k, t)) = Written("out", Upto(FramesOf(k), t))
    <2>1. PICK d \in {"in", "out"} : d = "out"
      OBVIOUS
    <2>2. b = IterPortPackets(LiveFiles(d), Port)
      BY <1>1, <2>1
    <2>. QED  BY <1>3, <2>1, <2>2, LiveCounts
  <1>7. /\ \A kind : Count(ingress_events, kind) = Count(a, kind)
        /\ \A l, m \in 1 .. Len(ingress_events) : l < m => ingress_events[l].ts <= ingress_events[m].ts
    BY <1>2, <1>4, SortedCounts
  <1>8. /\ \A kind : Count(egress_events, kind) = Count(b, kind)
        /\ \A l, m \in 1 .. Len(egress_events) : l < m => egress_events[l].ts <= egress_events[m].ts
    BY <1>2, <1>4, SortedCounts
  <1>. QED  BY <1>5, <1>6, <1>7, <1>8

\* Had no copy left unseen on its way in, as many had come by the time the late one left.
LEMMA NegativeDelayIsForeign ==
  TypeInv /\ FifoInv /\ CoverInv /\ GradeInv /\ MeasuredInv => NegativeDelayMeansMissedIngress
  <1>. SUFFICES ASSUME TypeInv, FifoInv, CoverInv, GradeInv, MeasuredInv, LivePaired,
                       NEW n \in DOMAIN pairs, Delay(pairs[n]) < 0,
                       ~Foreign(ingress_events[pairs[n][1]].key)
                PROVE  FALSE
    BY DEF NegativeDelayMeansMissedIngress
  <1>1. PICK k, t : k = ingress_events[pairs[n][1]].key /\ t = egress_events[pairs[n][2]].ts
    OBVIOUS
  <1>2. HistoryInv /\ Paired
    BY DEF MeasuredInv, LivePaired
  <1>3. /\ \A l, m \in 1 .. Len(ingress_events) : l < m => ingress_events[l].ts <= ingress_events[m].ts
        /\ \A l, m \in 1 .. Len(egress_events) : l < m => egress_events[l].ts <= egress_events[m].ts
    BY <1>2, EventsWritten
  <1>4. t \in Int /\ Count(ingress_events, Until(k, t)) < Count(egress_events, Until(k, t))
    BY <1>1, <1>2, <1>3, LatePair
  <1>5. Written("in", Upto(FramesOf(k), t)) < Written("out", Upto(FramesOf(k), t))
    BY <1>2, <1>4, EventsWritten
  <1>6. NoneForeign(FramesOf(k))
    BY <1>1, CopiesAre
  <1>7. Written("out", Upto(FramesOf(k), t)) <= Written("in", Upto(FramesOf(k), t))
    <2>1. FramesOf(k) \in SUBSET (DOMAIN Fields)
      BY DEF FramesOf
    <2>. QED  BY <1>2, <1>4, <1>6, <2>1 DEF HistoryInv, WrittenInv
  <1>8. Count(ingress_events, Until(k, t)) \in Nat /\ Count(egress_events, Until(k, t)) \in Nat
    <2>1. ingress_events \in Seq(Packet) /\ egress_events \in Seq(Packet)
      BY DEF TypeInv, PairInv
    <2>. QED  BY <2>1, KindsCount
  <1>. QED  BY <1>2, <1>4, <1>5, <1>7, <1>8, EventsWritten

\* What is left in a queue is what was seen coming and not leaving, and that was dropped.
LEMMA DropIsReal ==
  TypeInv /\ FifoInv /\ CoverInv /\ GradeInv /\ MeasuredInv => DropsAreReal
  <1>. SUFFICES ASSUME TypeInv, FifoInv, CoverInv, GradeInv, MeasuredInv, LivePaired,
                       NEW k \in DOMAIN ingress_q, ~Foreign(k),
                       \A n \in Copies(k) : passage[n].while # "starting"
                PROVE  Len(ingress_q[k]) = Cardinality({n \in Copies(k) : /\ passage[n].seen_in
                                                                          /\ passage[n].fate = "dropped"})
    BY DEF DropsAreReal
  <1>1. PICK F : F = FramesOf(k) /\ F \in SUBSET (DOMAIN Fields)
    BY DEF FramesOf
  <1>2. HistoryInv /\ LoneInv /\ Paired
    BY DEF MeasuredInv, LivePaired
  <1>3. phase = "stopped"
    <2>1. Plan.live # 0 /\ loaded
      BY DEF LivePaired
    <2>2. records # <<>>
      <3>1. PICK s \in Seq(Discovered) : s = records
        BY DEF TypeInv, ReportInv
      <3>2. analyzed < Len(s) /\ analyzed \in 0 .. Len(s)
        BY <2>1, <3>1 DEF TypeInv, ReportInv
      <3>. QED  BY <3>1, <3>2
    <2>. QED  BY <2>1, <2>2 DEF MeasuredInv, LiveInv
  <1>4. /\ Copies(k) = {n \in DOMAIN passage : passage[n].frame \in F}
        /\ \A n \in DOMAIN passage : passage[n] \in Passage /\ passage[n].seen_in \in BOOLEAN
                                     /\ passage[n].seen_out \in BOOLEAN
        /\ NoneForeign(F)
    BY <1>1, CopiesAre
  <1>5. PICK A, B : /\ A = {n \in DOMAIN passage : passage[n] \in PassedIn(F)}
                    /\ B = {n \in DOMAIN passage : passage[n] \in PassedOut(F)}
    OBVIOUS
  <1>6. /\ \A n \in DOMAIN passage : n \in A <=> passage[n].frame \in F /\ passage[n].seen_in
        /\ \A n \in DOMAIN passage : n \in B <=> passage[n].frame \in F /\ passage[n].seen_out
    BY <1>4, <1>5 DEF PassedIn, PassedOut
  <1>7. /\ Count(ingress_events, Keyed(k)) = Cardinality(A)
        /\ Count(egress_events, Keyed(k)) = Cardinality(B)
    <2>1. /\ Count(ingress_events, Keyed(k)) = Written("in", Of(F))
          /\ Count(egress_events, Keyed(k)) = Written("out", Of(F))
      BY <1>1, <1>2, EventsWritten
    <2>2. /\ Written("in", Of(F)) = Count(passage, PassedIn(F))
          /\ Written("out", Of(F)) = Count(passage, PassedOut(F))
      BY <1>1, <1>2 DEF HistoryInv, WrittenInv
    <2>. QED  BY <1>5, <2>1, <2>2 DEF Count
  <1>8. IsFiniteSet(A) /\ B \in SUBSET A
    <2>1. PICK s \in Seq(Passage) : s = passage
      BY DEF TypeInv, SessionInv
    <2>2. PICK l \in Nat : DOMAIN passage = 1 .. l
      BY <2>1
    <2>3. A \in SUBSET (1 .. l)
      BY <1>5, <2>2
    <2>4. IsFiniteSet(A)
      BY <2>3, IntervalPart
    <2>5. \A n \in B : n \in A
      BY <1>4, <1>5, <1>6 DEF NoneForeign
    <2>. QED  BY <2>4, <2>5
  <1>9. /\ Cardinality(A) \in Nat /\ Cardinality(B) \in Nat /\ Cardinality(A \ B) \in Nat
        /\ Cardinality(A) = Cardinality(B) + Cardinality(A \ B)
    BY <1>8, CountPart
  <1>10. PICK p, q, u : p = Cardinality(KeyedPairs(k)) /\ q = Len(ingress_q[k]) /\ u = Cardinality(KeyedLone(k))
    OBVIOUS
  <1>11. p \in Nat /\ q \in Nat /\ Cardinality(A) = p + q
    BY <1>2, <1>7, <1>10, KeyIngressCounts
  <1>12. u \in Nat /\ Cardinality(B) = p + u
    BY <1>2, <1>7, <1>10, KeyEgressCounts
  <1>13. u # 0 => q = 0
    <2>. SUFFICES ASSUME u # 0 PROVE q = 0
      OBVIOUS
    <2>1. KeyedLone(k) # {}
      BY <1>10, FS_EmptySet
    <2>2. PICK m \in Range(unmatched_egress) : egress_events[m].key = k
      BY <2>1 DEF KeyedLone
    <2>3. ingress_q[k] = <<>>
      BY <1>2, <2>2 DEF LoneInv
    <2>. QED  BY <1>10, <2>3
  <1>14. q = Cardinality(A \ B)
    BY <1>9, <1>11, <1>12, <1>13
  <1>15. {n \in Copies(k) : passage[n].seen_in /\ passage[n].fate = "dropped"} = A \ B
    <2>1. \A n \in A \ B : n \in DOMAIN passage /\ n \in Copies(k)
      BY <1>4, <1>5, <1>6
    <2>2. ASSUME NEW n \in Copies(k)
          PROVE  n \in A \ B <=> passage[n].seen_in /\ passage[n].fate = "dropped"
      <3>1. n \in DOMAIN passage /\ passage[n].frame \in F
        BY <1>4
      <3>2. passage[n].while # "starting"
        OBVIOUS
      <3>3. passage[n].fate \in {"inside", "left", "dropped"}
        BY <1>4, <3>1 DEF Passage
      <3>4. /\ passage[n].seen_out => passage[n].fate = "left"
            /\ passage[n].seen_in /\ passage[n].fate = "left" => passage[n].seen_out
            /\ ~(passage[n].fate = "inside" /\ passage[n].seen_in)
        BY <1>2, <1>3, <3>1, <3>2 DEF HistoryInv, PassageInv
      <3>. QED  BY <1>6, <3>1, <3>3, <3>4
    <2>. QED  BY <2>1, <2>2
  <1>. QED  BY <1>10, <1>14, <1>15

\* Whatever the switch drops, copies and reorders, and whenever the captures are started
\* and stopped: what is reported as dropped was dropped (stop_captures.sh, analyze_paths).
THEOREM DropsAlwaysReal == Spec => []DropsAreReal
  <1>. QED  BY GradeInit, DropIsReal, TypeInvInit, TypeInvStep, FifoInit, FifoStep, CoverInit, CoverStep,
               GradeStep, MeasuredInit, MeasuredStep, PTL DEF Spec

\* And a negative delay says that an ingress was missed.
THEOREM NegativeDelayAlwaysMissedIngress == Spec => []NegativeDelayMeansMissedIngress
  <1>. QED  BY GradeInit, NegativeDelayIsForeign, TypeInvInit, TypeInvStep, FifoInit, FifoStep, CoverInit, CoverStep,
               GradeStep, MeasuredInit, MeasuredStep, PTL DEF Spec

---------------------------------------------------------------------------
\* How many of a sequence are no more than v.
UpTo(s, v) == Cardinality({n \in DOMAIN s : s[n] <= v})

\* The first positions of a numbering number as many places.
LEMMA FirstPlaces ==
  ASSUME NEW n \in Nat, NEW g \in Bijection(1 .. n, 1 .. n), NEW k \in 0 .. n
  PROVE  /\ IsFiniteSet({g[l] : l \in 1 .. k})
         /\ Cardinality({g[l] : l \in 1 .. k}) = k
  <1>. DEFINE T == {g[l] : l \in 1 .. k}
              f == [l \in 1 .. k |-> g[l]]
  <1>1. 1 .. k \subseteq 1 .. n
    OBVIOUS
  <1>2. f \in Bijection(1 .. k, T)
    <2>1. \A l, m \in 1 .. k : g[l] = g[m] => l = m
      BY <1>1 DEF Bijection, Injection, IsInjective
    <2>2. f \in [1 .. k -> T]
      OBVIOUS
    <2>3. \A t \in T : \E l \in 1 .. k : f[l] = t
      OBVIOUS
    <2>4. f \in Injection(1 .. k, T)
      BY <2>1, <2>2 DEF Injection, IsInjective
    <2>5. f \in Surjection(1 .. k, T)
      BY <2>2, <2>3 DEF Surjection
    <2>. QED  BY <2>4, <2>5 DEF Bijection
  <1>. HIDE DEF T, f
  <1>3. ExistsBijection(1 .. k, T)
    BY <1>2 DEF ExistsBijection
  <1>4. k \in Nat /\ IsFiniteSet(1 .. k) /\ Cardinality(1 .. k) = k
    BY FS_Interval
  <1>5. PICK S : S = 1 .. k
    OBVIOUS
  <1>6. IsFiniteSet(T) /\ Cardinality(T) = Cardinality(S)
    BY <1>3, <1>4, <1>5, FS_Bijection
  <1>. QED  BY <1>4, <1>5, <1>6 DEF T

\* A quantile of the sorted latencies is their nearest rank: one of them, and the
\* least that so many percent of them do not exceed (quantile_sorted).
THEOREM QuantileIsNearestRank ==
  ASSUME NEW s, s \in Seq(Int), s # <<>>, NEW percent \in 1 .. 100
  PROVE  \E q \in Range(s) :
           /\ QuantileSorted(SortedBy(s, s), percent) = Whole(q)
           /\ percent * Len(s) <= 100 * UpTo(s, q)
           /\ \A v \in Int : v < q => 100 * UpTo(s, v) < percent * Len(s)
  <1>1. PICK n \in Nat : n = Len(s) /\ DOMAIN s = 1 .. n /\ n >= 1
    OBVIOUS
  <1>2. PICK key \in [1 .. n -> Int] : key = s
    BY <1>1
  <1>3. PICK g \in Bijection(1 .. n, 1 .. n) :
          /\ SortedBy(key, key) = [m \in 1 .. n |-> key[g[m]]]
          /\ \A l, m \in 1 .. n : l < m => key[g[l]] <= key[g[m]]
    BY SortedNumbers
  <1>4. /\ \A m \in 1 .. n : g[m] \in 1 .. n
        /\ \A p \in 1 .. n : \E m \in 1 .. n : g[m] = p
    BY DEF Bijection, Injection, Surjection
  <1>5. PICK sorted \in [1 .. n -> Int] : sorted = SortedBy(key, key)
    BY <1>3, <1>4
  <1>6. Len(sorted) = n /\ sorted # <<>> /\ DOMAIN sorted = 1 .. n
    BY <1>1
  <1>7. PICK x \in Nat : x = percent * n /\ x >= n /\ x <= 100 * n
    OBVIOUS
  <1>8. PICK k \in Int : k = (x + 99) \div 100
    OBVIOUS
  <1>9. 1 <= k /\ k <= n /\ x <= 100 * k /\ 100 * (k - 1) < x
    BY <1>1, <1>7, <1>8
  <1>a. k \in 1 .. n /\ k \in 0 .. n /\ k \in Nat
    BY <1>9
  <1>10. Max({1, Min({k, n})}) = k
    <2>1. PICK l : l = Min({k, n})
      OBVIOUS
    <2>2. l = k
      BY <1>9, <2>1, MinOfTwo
    <2>3. Max({1, l}) = k
      BY <1>9, <2>2, MaxOfTwo
    <2>. QED  BY <2>1, <2>3
  <1>11. QuantileSorted(sorted, percent) = Whole(sorted[k])
    BY <1>6, <1>7, <1>8, <1>10 DEF QuantileSorted
  <1>12. PICK q \in Int : q = sorted[k] /\ q = key[g[k]]
    <2>1. sorted[k] \in Int /\ sorted[k] = key[g[k]]
      BY <1>3, <1>5, <1>a
    <2>. QED  BY <2>1
  <1>13. q \in Range(s)
    <2>1. g[k] \in 1 .. n
      BY <1>4, <1>a
    <2>. QED  BY <1>1, <1>2, <1>12, <2>1 DEF Range
  <1>14. ASSUME NEW v \in Int
         PROVE  /\ UpTo(s, v) \in Nat
                /\ v = q => k <= UpTo(s, v)
                /\ v < q => UpTo(s, v) <= k - 1
    <2>1. PICK P : P = {m \in 1 .. n : key[m] <= v}
      OBVIOUS
    <2>2. UpTo(s, v) = Cardinality(P)
      BY <1>1, <1>2, <2>1 DEF UpTo
    <2>3. IsFiniteSet(P) /\ Cardinality(P) \in Nat
      BY <2>1, IntervalPart, FS_CardinalityType
    <2>4. CASE v = q
      <3>1. PICK T : T = {g[l] : l \in 1 .. k}
        OBVIOUS
      <3>2. IsFiniteSet(T) /\ Cardinality(T) = k
        BY <1>a, <3>1, FirstPlaces
      <3>3. T \subseteq P
        <4>1. ASSUME NEW l \in 1 .. k PROVE g[l] \in P
          <5>1. l = k \/ l < k
            BY <1>9
          <5>a. l \in 1 .. n
            BY <1>9
          <5>2. l \in 1 .. n /\ g[l] \in 1 .. n /\ g[k] \in 1 .. n
            BY <1>4, <1>a, <5>a
          <5>3. key[g[l]] <= key[g[k]]
            <6>1. key[g[k]] \in Int
              BY <5>2
            <6>. QED  BY <1>3, <1>a, <5>1, <5>2, <6>1
          <5>. QED  BY <1>4, <1>12, <2>1, <2>4, <5>2, <5>3
        <4>. QED  BY <3>1, <4>1
      <3>4. Cardinality(T) <= Cardinality(P)
        BY <2>3, <3>3, FS_Subset
      <3>. QED  BY <2>2, <2>3, <2>4, <3>2, <3>4
    <2>5. CASE v < q
      <3>1. PICK T : T = {g[l] : l \in 1 .. k - 1}
        OBVIOUS
      <3>2. IsFiniteSet(T) /\ Cardinality(T) = k - 1
        <4>1. k - 1 \in 0 .. n
          BY <1>9
        <4>. QED  BY <3>1, <4>1, FirstPlaces
      <3>3. P \subseteq T
        <4>1. ASSUME NEW p \in P PROVE p \in T
          <5>1. p \in 1 .. n /\ key[p] < key[g[k]]
            BY <1>12, <2>1, <2>5
          <5>2. PICK l \in 1 .. n : g[l] = p
            BY <1>4, <5>1
          <5>3. l \in 1 .. k - 1
            <6>1. k \in 1 .. n /\ key[g[l]] < key[g[k]] /\ key[g[l]] \in Int /\ key[g[k]] \in Int
              <7>1. g[l] \in 1 .. n /\ g[k] \in 1 .. n
                BY <1>4, <1>a
              <7>. QED  BY <1>a, <5>1, <5>2, <7>1
            <6>2. k < l => key[g[k]] <= key[g[l]]
              BY <1>3, <6>1
            <6>3. k # l /\ ~(k < l)
              BY <6>1, <6>2
            <6>. QED  BY <6>1, <6>3
          <5>. QED  BY <3>1, <5>2, <5>3
        <4>. QED  BY <4>1
      <3>4. Cardinality(P) <= Cardinality(T)
        BY <3>2, <3>3, FS_Subset
      <3>. QED  BY <2>2, <2>3, <2>5, <3>2, <3>4
    <2>. QED  BY <2>2, <2>3, <2>4, <2>5
  <1>15. UpTo(s, q) \in Nat /\ k <= UpTo(s, q)
    BY <1>14
  <1>16. percent * Len(s) <= 100 * UpTo(s, q)
    BY <1>1, <1>7, <1>9, <1>15
  <1>17. ASSUME NEW v \in Int, v < q PROVE 100 * UpTo(s, v) < percent * Len(s)
    <2>1. UpTo(s, v) \in Nat /\ UpTo(s, v) <= k - 1
      BY <1>14, <1>17
    <2>. QED  BY <1>1, <1>7, <1>9, <2>1
  <1>18. QuantileSorted(SortedBy(s, s), percent) = Whole(q)
    BY <1>2, <1>5, <1>11, <1>12
  <1>. QED  BY <1>13, <1>16, <1>17, <1>18
=============================================================================
