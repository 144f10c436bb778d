---------------------------- MODULE NetworkProofs ----------------------------
(***************************************************************************)
(* Packets stay in order and in one place, for any number of processes,    *)
(* ports, hosts and packets.                                               *)
(***************************************************************************)
EXTENDS Network, CollectionFacts, TLAPS

Places == Proc \cup NetQueues

(***************************************************************************)
(* Queues of packets as a family.                                          *)
(***************************************************************************)

\* The packets of a family have no id above n, and none only when the network
\* process made them itself; each is in one place, and in none when it is out.
Good(queue, out, n) ==
    /\ DOMAIN queue = Places
    /\ \A q \in Places : queue[q] \in Seq(PacketType)
    /\ \A q \in Places : \A x \in Range(queue[q]) :
          x.id <= n /\ (x.id = 0 => x.kind = "arpRequest")
    /\ Apart(queue, out)

\* A packet that is in none of the queues.
Free(x, queue, out, n) ==
    /\ x \in PacketType /\ x.id <= n
    /\ x.id = 0 => x.kind = "arpRequest"
    /\ x.id # 0 => x.id \notin out /\ \A q \in Places : \A y \in Range(queue[q]) : y.id # x.id

\* One packet leaves the head of queue a, or joins its tail.
Taken(f, g, a) ==
    /\ f[a] # <<>> /\ g[a] = Tail(f[a])
    /\ DOMAIN g = Places /\ \A q \in Places \ {a} : g[q] = f[q]
Put(f, g, a, x) ==
    /\ g[a] = Append(f[a], x)
    /\ DOMAIN g = Places /\ \A q \in Places \ {a} : g[q] = f[q]
Moved(f, g, a, b, x) ==
    /\ a # b /\ f[a] # <<>> /\ g[a] = Tail(f[a]) /\ g[b] = Append(f[b], x)
    /\ DOMAIN g = Places /\ \A q \in Places \ {a, b} : g[q] = f[q]
    /\ x \in PacketType /\ x.id = Head(f[a]).id /\ (x.id = 0 => x.kind = "arpRequest")

(***************************************************************************)
(* The inductive invariant.                                                *)
(***************************************************************************)

Hand == IF np = "dispatch" THEN {cur} ELSE {}
Behind(S, T) == \A x \in S, y \in T : After(x, y)

\* Each queue on the way of the data is sorted, and what is nearer to the
\* inboxes came before what is farther away.
WaySorted ==
    /\ Sorted(receiving) /\ Sorted(ring)
    /\ \A p \in Proc : Sorted(inbox[p])
    /\ \A p \in Proc : Behind(Range(inbox[p]), Hand \cup Range(receiving) \cup Range(ring))
    /\ Behind(Hand, Range(receiving) \cup Range(ring))
    /\ Behind(Range(receiving), Range(ring))

\* An interrupt has its frame; what the card received came from other hosts;
\* only data is received and dispatched, and it has a port.
QueuesHold ==
    /\ rxOk => ring # <<>>
    /\ np \in {"sending", "dispatch"} => cur \in PacketType
    /\ np = "dispatch" => cur.kind = "P439" /\ cur.port \in Port
    /\ \A f \in Range(receiving) : f.kind = "P439" /\ f.port \in Port
    /\ \A f \in Range(ring) : /\ f.host \in Host /\ f.id # 0
                              /\ f.kind = "P439" => f.port \in Port

IInv == TypeOK /\ QueuesHold /\ Good(Queue, sent, ids) /\ WaySorted

(***************************************************************************)
(* Taking a packet from a family of queues and putting it into one.        *)
(***************************************************************************)

\* Names are no processes.
LEMMA PlaceFacts ==
    /\ Proc \subseteq Places /\ NetQueues \subseteq Places /\ Proc \cap NetQueues = {}
    /\ Nobody \notin Proc /\ Loop \notin Host
    /\ RetryAfter \in Nat \ {0} /\ MsRange \in Nat /\ MsRange > RetryAfter /\ MaxIds \in Nat
BY NetworkAssumption DEF Places

\* The head leaves its queue: it is free.
LEMMA TakeGood ==
    ASSUME NEW f, NEW g, NEW out, NEW n, Good(f, out, n), NEW a \in Places, Taken(f, g, a)
    PROVE  Good(g, out, n) /\ Free(Head(f[a]), g, out, n)
<1> DEFINE x == Head(f[a])
           s == f[a]
           t == g[a]
<1>1. s \in Seq(PacketType) /\ s # <<>> /\ t = Tail(s) BY DEF Good, Taken
<1>2. /\ t \in Seq(PacketType) /\ x \in PacketType
      /\ Range(s) = Range(t) \cup {x}
  <2> HIDE DEF s, t
  <2>1. Tail(s) \in Seq(PacketType) /\ Head(s) \in PacketType
        /\ Range(s) = Range(Tail(s)) \cup {Head(s)}
    BY <1>1, TailFacts
  <2>2. x = Head(s) BY DEF x, s
  <2> QED BY <1>1, <2>1, <2>2
<1>3. /\ DOMAIN s = 1 .. Len(s) /\ Len(s) \in Nat \ {0} /\ x = s[1]
      /\ DOMAIN t = 1 .. (Len(s) - 1) /\ \A i \in DOMAIN t : t[i] = s[i + 1] /\ i + 1 \in DOMAIN s
  <2> HIDE DEF t
  <2>1. /\ Len(Tail(s)) = Len(s) - 1
        /\ \A i \in 1 .. Len(Tail(s)) : Tail(s)[i] = s[i + 1]
    BY <1>1, HeadTailProperties
  <2>2. /\ DOMAIN s = 1 .. Len(s) /\ Len(s) \in Nat /\ Len(s) # 0 /\ x = s[1]
        /\ DOMAIN t = 1 .. Len(t)
    BY <1>1, <1>2, LenProperties, EmptySeq
  <2> QED BY <1>1, <2>1, <2>2
<1>4. ASSUME NEW q \in Places, NEW j \in DOMAIN g[q]
      PROVE  \E i \in DOMAIN f[q] : /\ g[q][j] = f[q][i] /\ i = (IF q = a THEN j + 1 ELSE j)
                                    /\ ~(q = a /\ i = 1)
  <2>1. CASE q = a
    <3>1. j \in DOMAIN t BY <2>1
    <3>2. t[j] = s[j + 1] /\ j + 1 \in DOMAIN s /\ j + 1 # 1 BY <1>3, <3>1
    <3> QED BY <2>1, <3>2
  <2>2. CASE q # a BY <2>2 DEF Taken
  <2> QED BY <2>1, <2>2
<1>5. Apart(g, out)
  <2>1. SUFFICES ASSUME NEW q \in Places, NEW r \in Places, NEW j \in DOMAIN g[q],
                        NEW k \in DOMAIN g[r], g[q][j].id # 0
                 PROVE  /\ g[q][j].id \notin out
                        /\ g[q][j].id = g[r][k].id => q = r /\ j = k
    BY DEF Apart, Taken
  <2>2. PICK i \in DOMAIN f[q] : g[q][j] = f[q][i] /\ i = (IF q = a THEN j + 1 ELSE j)
    BY <1>4
  <2>3. PICK l \in DOMAIN f[r] : g[r][k] = f[r][l] /\ l = (IF r = a THEN k + 1 ELSE k)
    BY <1>4
  <2>4. /\ f[q][i].id \notin out
        /\ f[q][i].id = f[r][l].id => q = r /\ i = l
    BY <2>1, <2>2 DEF Good, Apart
  <2>5. j \in Int /\ k \in Int
    <3>1. g[q] \in Seq(PacketType) /\ g[r] \in Seq(PacketType) BY <1>2 DEF Good, Taken
    <3> QED BY <3>1
  <2> QED BY <2>2, <2>3, <2>4, <2>5
<1>6. ASSUME NEW q \in Places PROVE g[q] \in Seq(PacketType) /\ Range(g[q]) \subseteq Range(f[q])
  BY <1>2 DEF Good, Taken
<1>7. Good(g, out, n)
  <2>1. DOMAIN g = Places BY DEF Taken
  <2>2. \A q \in Places : \A y \in Range(g[q]) : y.id <= n /\ (y.id = 0 => y.kind = "arpRequest")
    BY <1>6 DEF Good
  <2> QED BY <1>5, <1>6, <2>1, <2>2 DEF Good
<1>8. x \in Range(f[a]) BY <1>2
<1>9. ASSUME x.id # 0 PROVE x.id \notin out /\ \A q \in Places : \A y \in Range(g[q]) : y.id # x.id
  <2>1. 1 \in DOMAIN f[a] /\ f[a][1] = x BY <1>3
  <2>2. x.id \notin out BY <1>9, <2>1 DEF Good, Apart
  <2>3. ASSUME NEW q \in Places, NEW j \in DOMAIN g[q] PROVE g[q][j].id # x.id
    <3>1. PICK i \in DOMAIN f[q] : g[q][j] = f[q][i] /\ ~(q = a /\ i = 1) BY <1>4
    <3> QED BY <1>9, <2>1, <3>1 DEF Good, Apart
  <2> QED BY <2>2, <2>3 DEF Range
<1>10. x.id <= n /\ (x.id = 0 => x.kind = "arpRequest") BY <1>8 DEF Good
<1>11. Free(x, g, out, n) BY <1>2, <1>9, <1>10 DEF Free
<1> QED BY <1>7, <1>11

\* A free packet joins a queue.
LEMMA PutGood ==
    ASSUME NEW f, NEW g, NEW out, NEW n, Good(f, out, n), NEW a \in Places, NEW x,
           Free(x, f, out, n), Put(f, g, a, x)
    PROVE  Good(g, out, n)
<1> DEFINE s == f[a]
           t == g[a]
<1>1. s \in Seq(PacketType) /\ x \in PacketType /\ t = Append(s, x) BY DEF Good, Put, Free
<1>2. /\ t \in Seq(PacketType) /\ Range(t) = Range(s) \cup {x}
      /\ DOMAIN s = 1 .. Len(s) /\ Len(s) \in Nat
      /\ DOMAIN t = 1 .. (Len(s) + 1) /\ t[Len(s) + 1] = x
      /\ \A i \in DOMAIN s : t[i] = s[i]
  <2> HIDE DEF s, t
  <2>1. /\ Append(s, x) \in Seq(PacketType) /\ Range(Append(s, x)) = Range(s) \cup {x}
    BY <1>1, AppendFacts
  <2>2. /\ Len(Append(s, x)) = Len(s) + 1 /\ Append(s, x)[Len(s) + 1] = x
        /\ \A i \in 1 .. Len(s) : Append(s, x)[i] = s[i]
    BY <1>1, AppendProperties
  <2>3. DOMAIN s = 1 .. Len(s) /\ Len(s) \in Nat /\ DOMAIN Append(s, x) = 1 .. Len(Append(s, x))
    BY <1>1, <2>1, LenProperties
  <2> QED BY <1>1, <2>1, <2>2, <2>3
<1>3. ASSUME NEW q \in Places, NEW j \in DOMAIN g[q]
      PROVE  \/ j \in DOMAIN f[q] /\ g[q][j] = f[q][j]
             \/ q = a /\ j = Len(s) + 1 /\ g[q][j] = x
  <2>1. CASE q = a
    <3>1. j \in DOMAIN t BY <2>1
    <3>2. (j \in DOMAIN s /\ t[j] = s[j]) \/ (j = Len(s) + 1 /\ t[j] = x)
      <4> HIDE DEF s, t
      <4>1. j \in 1 .. Len(s) \/ j = Len(s) + 1 BY <1>2, <3>1
      <4> QED BY <1>2, <4>1
    <3> QED BY <2>1, <3>2
  <2>2. CASE q # a BY <2>2 DEF Put
  <2> QED BY <2>1, <2>2
<1>4. \A q \in Places : \A i \in DOMAIN f[q] : f[q][i] \in Range(f[q]) BY DEF Range
<1>5. Apart(g, out)
  <2>1. SUFFICES ASSUME NEW q \in Places, NEW r \in Places, NEW j \in DOMAIN g[q],
                        NEW k \in DOMAIN g[r], g[q][j].id # 0
                 PROVE  /\ g[q][j].id \notin out
                        /\ g[q][j].id = g[r][k].id => q = r /\ j = k
    BY DEF Apart, Put
  <2>2. CASE q = a /\ j = Len(s) + 1 /\ g[q][j] = x
    <3>1. x.id \notin out /\ \A p \in Places : \A y \in Range(f[p]) : y.id # x.id
      BY <2>1, <2>2 DEF Free
    <3>2. CASE k \in DOMAIN f[r] /\ g[r][k] = f[r][k]
      BY <1>4, <2>2, <3>1, <3>2
    <3>3. CASE r = a /\ k = Len(s) + 1 BY <2>2, <3>1, <3>3
    <3> QED BY <1>3, <3>2, <3>3
  <2>3. CASE j \in DOMAIN f[q] /\ g[q][j] = f[q][j]
    <3>1. f[q][j].id \notin out BY <2>1, <2>3 DEF Good, Apart
    <3>2. CASE k \in DOMAIN f[r] /\ g[r][k] = f[r][k]
      BY <2>1, <2>3, <3>1, <3>2 DEF Good, Apart
    <3>3. CASE r = a /\ k = Len(s) + 1 /\ g[r][k] = x
      <4>1. x.id # 0 => f[q][j].id # x.id BY <1>4, <2>3 DEF Free
      <4> QED BY <2>1, <2>3, <3>1, <3>3, <4>1
    <3> QED BY <1>3, <3>2, <3>3
  <2> QED BY <1>3, <2>2, <2>3
<1>6. ASSUME NEW q \in Places PROVE g[q] \in Seq(PacketType) /\ Range(g[q]) \subseteq Range(f[q]) \cup {x}
  BY <1>2 DEF Good, Put
<1>7. \A q \in Places : \A y \in Range(g[q]) : y.id <= n /\ (y.id = 0 => y.kind = "arpRequest")
  BY <1>6 DEF Good, Free
<1>8. DOMAIN g = Places BY DEF Put
<1> QED BY <1>5, <1>6, <1>7, <1>8 DEF Good

\* A free packet is given to the card.
LEMMA SentGood ==
    ASSUME NEW f, NEW out, NEW n, Good(f, out, n), NEW x, Free(x, f, out, n), x.id # 0
    PROVE  Good(f, out \cup {x.id}, n)
<1>1. \A q \in Places : \A i \in DOMAIN f[q] : f[q][i] \in Range(f[q]) BY DEF Range
<1>2. Apart(f, out \cup {x.id}) BY <1>1 DEF Good, Free, Apart
<1> QED BY <1>2 DEF Good

\* A packet with the next id is free.
LEMMA NewGood ==
    ASSUME NEW f, NEW out, NEW n \in Nat, Good(f, out, n), out \subseteq 1 .. n,
           NEW x \in PacketType, x.id = n + 1
    PROVE  Good(f, out, n + 1) /\ Free(x, f, out, n + 1)
<1>1. \A q \in Places : \A y \in Range(f[q]) : y.id \in Nat /\ y.id <= n
  <2>1. \A y \in PacketType : y.id \in 0 .. MaxIds BY DEF PacketType
  <2>2. \A q \in Places : Range(f[q]) \subseteq PacketType BY RangeOfSeq DEF Good
  <2> QED BY <2>1, <2>2, PlaceFacts DEF Good
<1>2. Good(f, out, n + 1) BY <1>1 DEF Good
<1>3. Free(x, f, out, n + 1) BY <1>1 DEF Free
<1> QED BY <1>2, <1>3

\* A packet moves from the head of a queue to the tail of another, and may get
\* a new kind or a time on the way.
LEMMA MoveGood ==
    ASSUME NEW f, NEW g, NEW out, NEW n, Good(f, out, n), NEW a \in Places, NEW b \in Places,
           NEW y, Moved(f, g, a, b, y)
    PROVE  Good(g, out, n)
<1> DEFINE m == [q \in Places |-> IF q = a THEN Tail(f[a]) ELSE f[q]]
<1> USE DEF Moved
<1>1. Taken(f, m, a) BY DEF Taken
<1>2. Good(m, out, n) /\ Free(Head(f[a]), m, out, n) BY <1>1, TakeGood
<1>3. Free(y, m, out, n) BY <1>2 DEF Free
<1>4. Put(m, g, b, y) BY DEF Put
<1> HIDE DEF m
<1> QED BY <1>2, <1>3, <1>4, PutGood

(***************************************************************************)
(* Sorted queues.                                                          *)
(***************************************************************************)

\* A packet behind all others joins the tail.
LEMMA SortedAppend ==
    ASSUME NEW s \in Seq(PacketType), NEW x \in PacketType, Sorted(s), Behind(Range(s), {x})
    PROVE  Sorted(Append(s, x))
<1>1. /\ Len(Append(s, x)) = Len(s) + 1 /\ Append(s, x)[Len(s) + 1] = x
      /\ \A i \in 1 .. Len(s) : Append(s, x)[i] = s[i]
      /\ Append(s, x) \in Seq(PacketType)
  BY AppendProperties
<1>2. /\ DOMAIN s = 1 .. Len(s) /\ Len(s) \in Nat
      /\ DOMAIN Append(s, x) = 1 .. (Len(s) + 1)
  BY <1>1, LenProperties
<1>3. SUFFICES ASSUME NEW j \in 1 .. Len(s) + 1, NEW k \in 1 .. Len(s) + 1, j < k
               PROVE  After(Append(s, x)[j], Append(s, x)[k])
  BY <1>2 DEF Sorted
<1>4. j \in 1 .. Len(s) /\ Append(s, x)[j] = s[j] BY <1>1, <1>2, <1>3
<1>5. CASE k \in 1 .. Len(s)
  <2>1. Append(s, x)[k] = s[k] BY <1>1, <1>5
  <2>2. After(s[j], s[k]) BY <1>2, <1>3, <1>4, <1>5 DEF Sorted
  <2> QED BY <1>4, <2>1, <2>2
<1>6. CASE k = Len(s) + 1
  <2>1. s[j] \in Range(s) BY <1>2, <1>4 DEF Range
  <2>2. After(s[j], x) BY <2>1 DEF Behind
  <2> QED BY <1>1, <1>4, <1>6, <2>2
<1> QED BY <1>2, <1>5, <1>6

\* The head leaves: the others are behind it.
LEMMA SortedTail ==
    ASSUME NEW s \in Seq(PacketType), s # <<>>, Sorted(s)
    PROVE  Sorted(Tail(s)) /\ Behind({Head(s)}, Range(Tail(s)))
<1>1. /\ Tail(s) \in Seq(PacketType) /\ Len(Tail(s)) = Len(s) - 1
      /\ \A i \in 1 .. Len(Tail(s)) : Tail(s)[i] = s[i + 1]
  BY HeadTailProperties
<1>2. /\ DOMAIN s = 1 .. Len(s) /\ Len(s) \in Nat /\ Len(s) # 0 /\ Head(s) = s[1]
      /\ DOMAIN Tail(s) = 1 .. Len(Tail(s))
  BY <1>1, LenProperties, EmptySeq
<1>3. ASSUME NEW j \in DOMAIN Tail(s)
      PROVE  Tail(s)[j] = s[j + 1] /\ j + 1 \in DOMAIN s /\ 1 \in DOMAIN s /\ 1 < j + 1 /\ j \in Int
  BY <1>1, <1>2
<1>4. Sorted(Tail(s))
  <2>1. SUFFICES ASSUME NEW j \in DOMAIN Tail(s), NEW k \in DOMAIN Tail(s), j < k
                 PROVE  After(Tail(s)[j], Tail(s)[k])
    BY DEF Sorted
  <2>2. j + 1 < k + 1 BY <1>3, <2>1
  <2>3. After(s[j + 1], s[k + 1]) BY <1>3, <2>2 DEF Sorted
  <2> QED BY <1>3, <2>3
<1>5. ASSUME NEW j \in DOMAIN Tail(s) PROVE After(Head(s), Tail(s)[j])
  <2>1. After(s[1], s[j + 1]) BY <1>3 DEF Sorted
  <2> QED BY <1>2, <1>3, <2>1
<1>6. Behind({Head(s)}, Range(Tail(s))) BY <1>5 DEF Behind, Range
<1> QED BY <1>4, <1>6

\* One queue and then another that is behind it.
LEMMA SortedConcat ==
    ASSUME NEW s \in Seq(PacketType), NEW t \in Seq(PacketType), Sorted(s), Sorted(t),
           Behind(Range(s), Range(t))
    PROVE  Sorted(s \o t)
<1>1. /\ s \o t \in Seq(PacketType)
      /\ Len(s \o t) = Len(s) + Len(t)
      /\ \A i \in 1 .. Len(s) + Len(t) :
            (s \o t)[i] = IF i <= Len(s) THEN s[i] ELSE t[i - Len(s)]
  BY ConcatProperties
<1>2. /\ DOMAIN s = 1 .. Len(s) /\ Len(s) \in Nat
      /\ DOMAIN t = 1 .. Len(t) /\ Len(t) \in Nat
      /\ DOMAIN (s \o t) = 1 .. (Len(s) + Len(t))
  BY <1>1, LenProperties
<1>3. SUFFICES ASSUME NEW j \in 1 .. Len(s) + Len(t), NEW k \in 1 .. Len(s) + Len(t), j < k
               PROVE  After((s \o t)[j], (s \o t)[k])
  BY <1>2 DEF Sorted
<1>4. CASE k <= Len(s)
  <2>1. j \in DOMAIN s /\ k \in DOMAIN s /\ (s \o t)[j] = s[j] /\ (s \o t)[k] = s[k]
    BY <1>1, <1>2, <1>3, <1>4
  <2> QED BY <1>3, <2>1 DEF Sorted
<1>5. CASE j > Len(s)
  <2>1. /\ j - Len(s) \in DOMAIN t /\ k - Len(s) \in DOMAIN t /\ j - Len(s) < k - Len(s)
        /\ (s \o t)[j] = t[j - Len(s)] /\ (s \o t)[k] = t[k - Len(s)]
    BY <1>1, <1>2, <1>3, <1>5
  <2>2. After(t[j - Len(s)], t[k - Len(s)]) BY <2>1 DEF Sorted
  <2> QED BY <2>1, <2>2
<1>6. CASE j <= Len(s) /\ k > Len(s)
  <2>1. /\ j \in DOMAIN s /\ k - Len(s) \in DOMAIN t
        /\ (s \o t)[j] = s[j] /\ (s \o t)[k] = t[k - Len(s)]
    BY <1>1, <1>2, <1>3, <1>6
  <2>2. s[j] \in Range(s) /\ t[k - Len(s)] \in Range(t) BY <2>1 DEF Range
  <2> QED BY <2>1, <2>2 DEF Behind
<1> QED BY <1>2, <1>3, <1>4, <1>5, <1>6

\* The empty queue and a queue of one are sorted.
LEMMA SortedShort == Sorted(<<>>) /\ \A x \in PacketType : Sorted(<<x>>)
BY DEF Sorted

(***************************************************************************)
(* The family that the state makes.                                        *)
(***************************************************************************)

QueueNow ==
    /\ DOMAIN Queue = Places
    /\ Queue["ring"] = ring /\ Queue["receiving"] = receiving
    /\ Queue["sending"] = sending /\ Queue["tryAgain"] = tryAgain
    /\ Queue["hand"] = IF np \in {"dispatch", "sending"} THEN <<cur>> ELSE <<>>
    /\ \A p \in Proc : Queue[p] = inbox[p]

LEMMA QueueIs == QueueNow
BY PlaceFacts DEF QueueNow, Queue, InHand, Places, NetQueues

\* What the invariant says of the queues' types is the family's.
LEMMA QueueTypes ==
    ASSUME QueueNow, Good(Queue, sent, ids)
    PROVE  /\ ring \in Seq(PacketType) /\ receiving \in Seq(PacketType)
           /\ sending \in Seq(PacketType) /\ tryAgain \in Seq(PacketType)
           /\ \A p \in Proc : inbox[p] \in Seq(PacketType)
BY PlaceFacts DEF Good, QueueNow, Places, NetQueues

\* The packets on the way of the data have ids that were given out.
LEMMA WayIds ==
    ASSUME IInv
    PROVE  /\ \A y \in Hand \cup Range(receiving) \cup Range(ring) : y \in PacketType /\ y.id <= ids
           /\ \A p \in Proc : \A y \in Range(inbox[p]) : y \in PacketType /\ y.id <= ids
<1>1. QueueNow /\ Good(Queue, sent, ids) BY QueueIs DEF IInv
<1>2. \A q \in Places : \A y \in Range(Queue[q]) : y \in PacketType /\ y.id <= ids
  <2>1. \A q \in Places : Queue[q] \in Seq(PacketType) BY <1>1 DEF Good
  <2>2. \A q \in Places : Range(Queue[q]) \subseteq PacketType BY <2>1, RangeOfSeq
  <2> QED BY <1>1, <2>2 DEF Good
<1>3. {"ring", "receiving", "hand"} \subseteq Places BY PlaceFacts DEF NetQueues
<1>4. Hand \subseteq Range(Queue["hand"])
  <2>1. CASE np = "dispatch"
    <3>1. Queue["hand"] = <<cur>> BY <1>1, <2>1 DEF QueueNow
    <3>2. Range(<<cur>>) = {cur} BY DEF Range
    <3> QED BY <2>1, <3>1, <3>2 DEF Hand
  <2>2. CASE np # "dispatch" BY <2>2 DEF Hand
  <2> QED BY <2>1, <2>2
<1>5. \A y \in Hand \cup Range(receiving) \cup Range(ring) : y \in PacketType /\ y.id <= ids
  BY <1>1, <1>2, <1>3, <1>4 DEF QueueNow
<1>6. \A p \in Proc : p \in Places /\ Queue[p] = inbox[p] BY <1>1, PlaceFacts DEF QueueNow
<1> QED BY <1>2, <1>5, <1>6

\* A new packet came after all others.
LEMMA NewAfter ==
    ASSUME NEW x \in PacketType, NEW y \in PacketType, NEW n \in Nat, y.id <= n, x.id = n + 1
    PROVE  After(y, x)
<1>1. x.id \in Int /\ y.id \in Int BY DEF PacketType
<1>2. y.id < x.id BY <1>1
<1> QED BY <1>2 DEF After

(***************************************************************************)
(* The card.                                                               *)
(***************************************************************************)

\* The record of a new packet.
LEMMA PacketFacts ==
    ASSUME NEW kind \in Kinds \cup {"arp", "echoRequest", "other"}, NEW host \in Host \cup {Loop},
           NEW port \in Port \cup {Nobody}, NEW id \in 0 .. MaxIds
    PROVE  /\ Packet(kind, host, port, id) \in PacketType
           /\ Packet(kind, host, port, id).kind = kind /\ Packet(kind, host, port, id).host = host
           /\ Packet(kind, host, port, id).port = port /\ Packet(kind, host, port, id).id = id
<1>1. 0 \in 0 .. MsRange + RetryAfter - 1 BY PlaceFacts
<1> QED BY <1>1 DEF Packet, PacketType

\* A frame arrives.
LEMMA ArriveStep ==
    ASSUME IInv, NEW kind \in {"arp", "echoRequest", "other", "P439"}, NEW host \in Host,
           NEW port \in Port \cup {Nobody}, kind = "P439" => port \in Port,
           Arrive(kind, host, port)
    PROVE  IInv'
<1>1. PICK x : x = Packet(kind, host, port, ids + 1) OBVIOUS
<1>2. /\ ids \in Nat /\ ids + 1 \in 0 .. MaxIds /\ ids' = ids + 1 /\ sent \subseteq 1 .. ids
      /\ ring \in Seq(PacketType)
  BY PlaceFacts DEF IInv, TypeOK, Arrive, NewId
<1>3. x \in PacketType /\ x.kind = kind /\ x.host = host /\ x.port = port /\ x.id = ids + 1
  BY <1>1, <1>2, PacketFacts DEF Kinds
<1>4. /\ ring' = Append(ring, x) /\ rxOk' = TRUE /\ arp' = arp /\ sending' = sending
      /\ receiving' = receiving /\ tryAgain' = tryAgain /\ np' = np /\ cur' = cur /\ ms' = ms
      /\ portTable' = portTable /\ sockets' = sockets /\ inbox' = inbox /\ sent' = sent
  BY <1>1, <1>2 DEF Arrive, queues, users
<1>5. /\ ring' \in Seq(PacketType) /\ ring' # <<>> /\ Range(ring') = Range(ring) \cup {x}
  BY <1>2, <1>3, <1>4, AppendFacts
<1>6. TypeOK'
  <2>1. sent' \subseteq 1 .. ids' /\ ids' \in 0 .. MaxIds BY <1>2, <1>4
  <2> QED BY <1>4, <1>5, <2>1 DEF IInv, TypeOK
<1>7. QueuesHold'
  BY <1>2, <1>3, <1>4, <1>5 DEF IInv, QueuesHold
<1>8. Good(Queue, sent, ids)'
  <2>1. PICK f : f = Queue OBVIOUS
  <2>2. PICK g : g = Queue' OBVIOUS
  <2>3. QueueNow /\ QueueNow' BY QueueIs, PTL
  <2>4. "ring" \in Places BY PlaceFacts DEF NetQueues
  <2>5. Put(f, g, "ring", x)
    BY <1>4, <2>1, <2>2, <2>3, PlaceFacts DEF Put, QueueNow, Places, NetQueues
  <2>6. PICK n : n = ids OBVIOUS
  <2>7. PICK out : out = sent OBVIOUS
  <2>8. Good(f, out, n) BY <2>1, <2>6, <2>7 DEF IInv
  <2>9. Good(f, out, n + 1) /\ Free(x, f, out, n + 1)
    BY <1>2, <1>3, <2>6, <2>7, <2>8, NewGood
  <2>10. Good(g, out, n + 1) BY <2>4, <2>5, <2>9, PutGood
  <2> QED BY <1>2, <1>4, <2>2, <2>6, <2>7, <2>10
<1>9. WaySorted'
  <2>1. \A y \in PacketType : y.id <= ids => After(y, x) BY <1>2, <1>3, NewAfter
  <2>2. /\ \A y \in Hand \cup Range(receiving) \cup Range(ring) : After(y, x)
        /\ \A p \in Proc : \A y \in Range(inbox[p]) : After(y, x)
    BY <2>1, WayIds
  <2>3. Sorted(ring')
    <3>1. Behind(Range(ring), {x}) BY <2>2 DEF Behind
    <3>2. Sorted(ring) BY DEF IInv, WaySorted
    <3>3. Sorted(Append(ring, x)) BY <1>2, <1>3, <3>1, <3>2, SortedAppend
    <3> QED BY <1>4, <3>3
  <2>4. Hand' = Hand BY <1>4 DEF Hand
  <2> QED BY <1>4, <1>5, <2>2, <2>3, <2>4 DEF IInv, WaySorted, Behind
<1> QED BY <1>6, <1>7, <1>8, <1>9 DEF IInv

\* What a step that does not touch the way of the data leaves sorted.
LEMMA WaySame ==
    ASSUME WaySorted, ring' = ring, receiving' = receiving, inbox' = inbox, Hand' = Hand
    PROVE  WaySorted'
BY DEF WaySorted

\* The interrupt handler takes a frame: it drops it, answers it, or passes it on.
LEMMA InterruptStep ==
    ASSUME IInv, HandleNetworkInterrupt
    PROVE  IInv'
<1>1. PICK x : x = Head(ring) OBVIOUS
<1>2. /\ ring \in Seq(PacketType) /\ ring # <<>>
      /\ receiving \in Seq(PacketType) /\ sending \in Seq(PacketType)
  BY DEF IInv, TypeOK, QueuesHold, HandleNetworkInterrupt
<1>3. /\ x \in PacketType /\ ring' = Tail(ring) /\ ring' \in Seq(PacketType)
      /\ Range(ring) = Range(ring') \cup {x}
  <2>1. ring' = Tail(ring)
    BY DEF HandleNetworkInterrupt, handlePacketReceiveInterrupt
  <2>2. /\ Tail(ring) \in Seq(PacketType) /\ Head(ring) \in PacketType
        /\ Range(ring) = Range(Tail(ring)) \cup {Head(ring)}
    BY <1>2, TailFacts
  <2> QED BY <1>1, <2>1, <2>2
<1>4. x.host \in Host /\ x.id # 0 /\ (x.kind = "P439" => x.port \in Port)
  BY <1>3 DEF IInv, QueuesHold
<1>5. /\ rxOk' = FALSE /\ tryAgain' = tryAgain /\ np' = np /\ cur' = cur /\ ms' = ms
      /\ portTable' = portTable /\ sockets' = sockets /\ inbox' = inbox /\ sent' = sent
      /\ ids' = ids
  BY DEF HandleNetworkInterrupt, users
<1>6. PICK y : y \in {[x EXCEPT !.kind = "arpReply"], [x EXCEPT !.kind = "echoReply"]} /\
               \/ sending' = Append(sending, y) /\ receiving' = receiving
               \/ sending' = sending /\ receiving' = receiving
               \/ sending' = sending /\ receiving' = Append(receiving, x) /\ x.kind = "P439"
  <2>1. CASE x.kind = "arp"
    <3>1. sending' = Append(sending, [x EXCEPT !.kind = "arpReply"]) /\ receiving' = receiving
      BY <1>1, <2>1 DEF HandleNetworkInterrupt, handlePacketReceiveInterrupt, isCurrentPacketForUs
    <3> QED BY <3>1
  <2>2. CASE x.kind = "echoRequest"
    <3>1. sending' = Append(sending, [x EXCEPT !.kind = "echoReply"]) /\ receiving' = receiving
      BY <1>1, <2>2 DEF HandleNetworkInterrupt, handlePacketReceiveInterrupt,
                        isCurrentPacketForUs, resplondToEchoRequest
    <3> QED BY <3>1
  <2>3. CASE x.kind \notin {"arp", "echoRequest"}
    <3>1. /\ sending' = sending
          /\ receiving' = IF x.kind = "P439" THEN Append(receiving, x) ELSE receiving
      BY <1>1, <2>3 DEF HandleNetworkInterrupt, handlePacketReceiveInterrupt, isCurrentPacketForUs
    <3> QED BY <3>1
  <2> QED BY <2>1, <2>2, <2>3
<1>7. y \in PacketType /\ y.id = x.id
  BY <1>3, <1>6 DEF PacketType, Kinds
<1>8. /\ receiving' \in Seq(PacketType) /\ sending' \in Seq(PacketType)
      /\ \/ receiving' = receiving
         \/ /\ receiving' = Append(receiving, x) /\ x.kind = "P439"
            /\ Range(receiving') = Range(receiving) \cup {x}
  <2>1. Append(sending, y) \in Seq(PacketType) BY <1>2, <1>7, AppendFacts
  <2>2. /\ Append(receiving, x) \in Seq(PacketType)
        /\ Range(Append(receiving, x)) = Range(receiving) \cup {x}
    BY <1>2, <1>3, AppendFacts
  <2> QED BY <1>2, <1>6, <2>1, <2>2
<1>9. TypeOK'
  <2>1. arp' \subseteq Host
    BY <1>1, <1>4 DEF HandleNetworkInterrupt, handlePacketReceiveInterrupt, AddEntry, IInv, TypeOK
  <2> QED BY <1>3, <1>5, <1>8, <2>1 DEF IInv, TypeOK
<1>10. QueuesHold'
  BY <1>3, <1>4, <1>5, <1>8 DEF IInv, QueuesHold
<1>11. Good(Queue, sent, ids)'
  <2>1. PICK f : f = Queue OBVIOUS
  <2>2. PICK g : g = Queue' OBVIOUS
  <2>3. QueueNow /\ QueueNow' BY QueueIs, PTL
  <2>4. {"ring", "sending", "receiving"} \subseteq Places BY PlaceFacts DEF NetQueues
  <2>5. PICK n : n = ids OBVIOUS
  <2>6. PICK out : out = sent OBVIOUS
  <2>7. Good(f, out, n) BY <2>1, <2>5, <2>6 DEF IInv
  <2>8. f["ring"] # <<>> /\ g["ring"] = Tail(f["ring"]) /\ x = Head(f["ring"]) /\ DOMAIN g = Places
    BY <1>1, <1>2, <1>3, <2>1, <2>2, <2>3 DEF QueueNow
  <2>9. CASE sending' = sending /\ receiving' = receiving
    <3>1. Taken(f, g, "ring")
      BY <1>5, <2>1, <2>2, <2>3, <2>8, <2>9, PlaceFacts DEF Taken, QueueNow, Places, NetQueues
    <3>2. Good(g, out, n) BY <2>4, <2>7, <3>1, TakeGood
    <3> QED BY <1>5, <2>2, <2>5, <2>6, <3>2
  <2>10. CASE sending' = Append(sending, y) /\ receiving' = receiving
    <3>1. g["sending"] = Append(f["sending"], y) BY <2>1, <2>2, <2>3, <2>10 DEF QueueNow
    <3>2. \A q \in Places \ {"ring", "sending"} : g[q] = f[q]
      BY <1>5, <2>1, <2>2, <2>3, <2>10, PlaceFacts DEF QueueNow, Places, NetQueues
    <3>3. y.id = Head(f["ring"]).id /\ y.id # 0 /\ "ring" # "sending" BY <1>4, <1>7, <2>8
    <3>4. Moved(f, g, "ring", "sending", y) BY <1>7, <2>8, <3>1, <3>2, <3>3 DEF Moved
    <3>5. Good(g, out, n) BY <2>4, <2>7, <3>4, MoveGood
    <3> QED BY <1>5, <2>2, <2>5, <2>6, <3>5
  <2>11. CASE sending' = sending /\ receiving' = Append(receiving, x)
    <3>1. g["receiving"] = Append(f["receiving"], x) BY <2>1, <2>2, <2>3, <2>11 DEF QueueNow
    <3>2. \A q \in Places \ {"ring", "receiving"} : g[q] = f[q]
      BY <1>5, <2>1, <2>2, <2>3, <2>11, PlaceFacts DEF QueueNow, Places, NetQueues
    <3>3. x.id = Head(f["ring"]).id /\ x.id # 0 /\ "ring" # "receiving" BY <1>4, <2>8
    <3>4. Moved(f, g, "ring", "receiving", x) BY <1>3, <2>8, <3>1, <3>2, <3>3 DEF Moved
    <3>5. Good(g, out, n) BY <2>4, <2>7, <3>4, MoveGood
    <3> QED BY <1>5, <2>2, <2>5, <2>6, <3>5
  <2> QED BY <1>6, <2>9, <2>10, <2>11
<1>12. WaySorted'
  <2>1. WaySorted BY DEF IInv
  <2>2. Hand' = Hand BY <1>5 DEF Hand
  <2>3. Sorted(ring') /\ Behind({x}, Range(ring'))
    <3>1. Sorted(ring) BY <2>1 DEF WaySorted
    <3>2. Sorted(Tail(ring)) /\ Behind({Head(ring)}, Range(Tail(ring)))
      BY <1>2, <3>1, SortedTail
    <3> QED BY <1>1, <1>3, <3>2
  <2>4. CASE receiving' = receiving
    BY <1>3, <1>5, <2>1, <2>2, <2>3, <2>4 DEF WaySorted, Behind
  <2>5. CASE /\ receiving' = Append(receiving, x)
             /\ Range(receiving') = Range(receiving) \cup {x}
    <3>1. Sorted(receiving) /\ Behind(Range(receiving), {x})
      BY <1>3, <2>1 DEF WaySorted, Behind
    <3>2. Sorted(Append(receiving, x)) BY <1>2, <1>3, <3>1, SortedAppend
    <3> QED BY <1>3, <1>5, <2>1, <2>2, <2>3, <2>5, <3>2 DEF WaySorted, Behind
  <2> QED BY <1>8, <2>4, <2>5
<1> QED BY <1>9, <1>10, <1>11, <1>12 DEF IInv

(***************************************************************************)
(* The network process.                                                    *)
(***************************************************************************)

\* A step that moves no packet and gives no id.
LEMMA QuietStep ==
    ASSUME IInv, TypeOK', ring' = ring, receiving' = receiving, sending' = sending,
           tryAgain' = tryAgain, inbox' = inbox, cur' = cur, rxOk' = rxOk, sent' = sent,
           ids' = ids,
           np' = np \/ (np \notin {"sending", "dispatch"} /\ np' \notin {"sending", "dispatch"})
    PROVE  IInv'
<1>1. QueuesHold' BY DEF IInv, QueuesHold
<1>2. Queue' = Queue BY DEF Queue, InHand
<1>3. Good(Queue, sent, ids)' BY <1>2 DEF IInv
<1>4. Hand' = Hand BY DEF Hand
<1>5. WaySorted' BY <1>4, WaySame DEF IInv
<1> QED BY <1>1, <1>3, <1>5 DEF IInv

\* The next packet to send.
LEMMA TakeToSendStep == ASSUME IInv, TakeToSend PROVE IInv'
<1>1. /\ np = "send" /\ ring' = ring /\ rxOk' = rxOk /\ arp' = arp /\ receiving' = receiving
      /\ tryAgain' = tryAgain /\ ms' = ms /\ portTable' = portTable /\ sockets' = sockets
      /\ inbox' = inbox /\ sent' = sent /\ ids' = ids
  BY DEF TakeToSend, users
<1>2. CASE sending = <<>>
  <2>1. np' = "retry" /\ sending' = sending /\ cur' = cur BY <1>2 DEF TakeToSend
  <2>2. TypeOK' BY <1>1, <2>1 DEF IInv, TypeOK
  <2> QED BY <1>1, <2>1, <2>2, QuietStep
<1>3. CASE sending # <<>>
  <2>1. np' = "sending" /\ cur' = Head(sending) /\ sending' = Tail(sending)
    BY <1>3 DEF TakeToSend
  <2>2. cur' \in PacketType /\ sending' \in Seq(PacketType)
    <3>1. sending \in Seq(PacketType) BY DEF IInv, TypeOK
    <3>2. Head(sending) \in PacketType /\ Tail(sending) \in Seq(PacketType)
      BY <1>3, <3>1, TailFacts
    <3> QED BY <2>1, <3>2
  <2>3. TypeOK' BY <1>1, <2>1, <2>2 DEF IInv, TypeOK
  <2>4. QueuesHold' BY <1>1, <2>1, <2>2 DEF IInv, QueuesHold
  <2>5. Good(Queue, sent, ids)'
    <3>1. PICK f : f = Queue OBVIOUS
    <3>2. PICK g : g = Queue' OBVIOUS
    <3>3. QueueNow /\ QueueNow' BY QueueIs, PTL
    <3>4. {"sending", "hand"} \subseteq Places BY PlaceFacts DEF NetQueues
    <3>5. PICK n : n = ids OBVIOUS
    <3>6. PICK out : out = sent OBVIOUS
    <3>7. PICK x : x = cur' OBVIOUS
    <3>8. Good(f, out, n) BY <3>1, <3>5, <3>6 DEF IInv
    <3>9. /\ f["sending"] # <<>> /\ g["sending"] = Tail(f["sending"]) /\ DOMAIN g = Places
          /\ x = Head(f["sending"]) /\ f["hand"] = <<>> /\ g["hand"] = <<x>>
      BY <1>1, <1>3, <2>1, <3>1, <3>2, <3>3, <3>7 DEF QueueNow
    <3>10. g["hand"] = Append(f["hand"], x) BY <3>9
    <3>11. \A q \in Places \ {"sending", "hand"} : g[q] = f[q]
      BY <1>1, <3>1, <3>2, <3>3, PlaceFacts DEF QueueNow, Places, NetQueues
    <3>12. x \in PacketType /\ (x.id = 0 => x.kind = "arpRequest") /\ "sending" # "hand"
      <4>1. x \in PacketType BY <2>2, <3>7
      <4>2. f["sending"] \in Seq(PacketType) BY <3>4, <3>8 DEF Good
      <4>3. x \in Range(f["sending"]) BY <3>9, <4>2, TailFacts
      <4> QED BY <3>4, <3>8, <4>1, <4>3 DEF Good
    <3>13. Moved(f, g, "sending", "hand", x) BY <3>9, <3>10, <3>11, <3>12 DEF Moved
    <3>14. Good(g, out, n) BY <3>4, <3>8, <3>13, MoveGood
    <3> QED BY <1>1, <3>2, <3>5, <3>6, <3>14
  <2>6. WaySorted'
    <3>1. Hand' = Hand BY <1>1, <2>1 DEF Hand
    <3> QED BY <1>1, <3>1, WaySame DEF IInv
  <2> QED BY <2>3, <2>4, <2>5, <2>6 DEF IInv
<1> QED BY <1>2, <1>3

\* The packet in the hand is sent, or waits for its host's address.
LEMMA SendPacketStep == ASSUME IInv, SendPacket PROVE IInv'
<1>1. /\ np = "sending" /\ np' = "send" /\ cur' = None /\ ring' = ring /\ rxOk' = rxOk
      /\ arp' = arp /\ receiving' = receiving /\ ms' = ms /\ portTable' = portTable
      /\ sockets' = sockets /\ inbox' = inbox /\ ids' = ids
  BY DEF SendPacket, users
<1>2. /\ cur \in PacketType /\ ms \in 0 .. MsRange - 1 /\ sent \subseteq 1 .. ids
      /\ sending \in Seq(PacketType) /\ tryAgain \in Seq(PacketType)
  BY <1>1 DEF IInv, TypeOK, QueuesHold
<1>3. QueuesHold' BY <1>1 DEF IInv, QueuesHold
<1>4. WaySorted'
  <2>1. Hand' = Hand BY <1>1 DEF Hand
  <2> QED BY <1>1, <2>1, WaySame DEF IInv
<1>5. PICK f : f = Queue OBVIOUS
<1>6. PICK g : g = Queue' OBVIOUS
<1>7. PICK n : n = ids OBVIOUS
<1>8. PICK out : out = sent OBVIOUS
<1>9. PICK x : x = cur OBVIOUS
<1>10. QueueNow /\ QueueNow' BY QueueIs, PTL
<1>11. {"hand", "sending", "tryAgain"} \subseteq Places BY PlaceFacts DEF NetQueues
<1>12. Good(f, out, n) BY <1>5, <1>7, <1>8 DEF IInv
<1>13. /\ f["hand"] = <<x>> /\ <<x>> # <<>> /\ Head(<<x>>) = x /\ Tail(<<x>>) = <<>>
       /\ g["hand"] = <<>> /\ DOMAIN g = Places
  <2>1. f["hand"] = <<x>> /\ g["hand"] = <<>> /\ DOMAIN g = Places
    BY <1>1, <1>5, <1>6, <1>9, <1>10 DEF QueueNow
  <2>2. <<x>> \in Seq(PacketType) /\ <<x>> # <<>> BY <1>2, <1>9
  <2> QED BY <2>1, <2>2
<1>14. x \in PacketType /\ x.id <= n /\ (x.id = 0 => x.kind = "arpRequest")
  <2>1. x \in Range(f["hand"]) BY <1>13, <1>2, <1>9, SingleFacts
  <2> QED BY <1>2, <1>9, <1>11, <1>12, <2>1 DEF Good
<1>15. CASE NeedsMac(cur) /\ ~GetEntry(cur.host)
  <2>1. PICK a : a = Packet("arpRequest", cur.host, Nobody, 0) OBVIOUS
  <2>2. PICK y : y = [cur EXCEPT !.sendTime = ms + RetryAfter] OBVIOUS
  <2>3. sending' = Append(sending, a) /\ tryAgain' = Append(tryAgain, y) /\ sent' = sent
    BY <1>15, <2>1, <2>2 DEF SendPacket
  <2>4. a \in PacketType /\ a.id = 0 /\ a.kind = "arpRequest"
    <3>1. cur.host \in Host \cup {Loop} /\ 0 \in 0 .. MaxIds
      BY <1>2, PlaceFacts DEF PacketType
    <3> QED BY <2>1, <3>1, PacketFacts DEF Kinds
  <2>5. y \in PacketType /\ y.id = x.id /\ y.kind = x.kind
    <3>1. ms + RetryAfter \in 0 .. MsRange + RetryAfter - 1 BY <1>2, PlaceFacts
    <3> QED BY <1>2, <1>9, <2>2, <3>1 DEF PacketType
  <2>6. TypeOK'
    <3>1. Append(sending, a) \in Seq(PacketType) /\ Append(tryAgain, y) \in Seq(PacketType)
      BY <1>2, <2>4, <2>5, AppendFacts
    <3> QED BY <1>1, <2>3, <3>1 DEF IInv, TypeOK
  <2>7. Good(Queue, sent, ids)'
    <3> DEFINE m == [q \in Places |-> IF q = "hand" THEN <<>>
                                      ELSE IF q = "tryAgain" THEN Append(f[q], y) ELSE f[q]]
    <3>1. Moved(f, m, "hand", "tryAgain", y) BY <1>11, <1>13, <1>14, <2>5 DEF Moved
    <3>2. DOMAIN m = Places /\ m["sending"] = f["sending"] /\ m["hand"] = <<>>
          /\ m["tryAgain"] = Append(f["tryAgain"], y)
          /\ \A q \in Places \ {"hand", "tryAgain"} : m[q] = f[q]
      BY <1>11
    <3> HIDE DEF m
    <3>3. Good(m, out, n) BY <1>11, <1>12, <3>1, MoveGood
    <3>4. Free(a, m, out, n)
      <4>1. 0 <= n BY <1>7 DEF IInv, TypeOK
      <4> QED BY <2>4, <4>1 DEF Free
    <3>5. /\ g["sending"] = Append(f["sending"], a) /\ g["tryAgain"] = Append(f["tryAgain"], y)
          /\ \A q \in Places \ {"hand", "sending", "tryAgain"} : g[q] = f[q]
      BY <1>1, <1>5, <1>6, <1>10, <2>3, PlaceFacts DEF QueueNow, Places, NetQueues
    <3>6. Put(m, g, "sending", a)
      <4>1. \A q \in Places \ {"sending"} : g[q] = m[q] BY <1>13, <3>2, <3>5
      <4> QED BY <1>13, <3>2, <3>5, <4>1 DEF Put
    <3>7. Good(g, out, n) BY <1>11, <3>3, <3>4, <3>6, PutGood
    <3> QED BY <1>1, <1>6, <1>7, <1>8, <2>3, <3>7
  <2> QED BY <1>3, <1>4, <2>6, <2>7 DEF IInv
<1>16. CASE ~(NeedsMac(cur) /\ ~GetEntry(cur.host))
  <2>1. /\ sending' = sending /\ tryAgain' = tryAgain
        /\ \/ sent' = sent /\ x.kind = "arpRequest"
           \/ sent' = sent \cup {x.id} /\ x.kind # "arpRequest"
    BY <1>16, <1>9 DEF SendPacket, Transmit, sendReply, ping, sendP439Packet, sendPacket,
                       sendARPRequest
  <2>2. TypeOK'
    <3>1. sent' \subseteq 1 .. ids
      <4>1. x.id # 0 => x.id \in 1 .. ids
        BY <1>7, <1>14 DEF PacketType, IInv, TypeOK
      <4> QED BY <1>2, <1>14, <2>1, <4>1
    <3> QED BY <1>1, <2>1, <3>1 DEF IInv, TypeOK
  <2>3. Good(Queue, sent, ids)'
    <3>1. Taken(f, g, "hand")
      <4>1. \A q \in Places \ {"hand"} : g[q] = f[q]
        BY <1>1, <1>5, <1>6, <1>10, <2>1, PlaceFacts DEF QueueNow, Places, NetQueues
      <4> QED BY <1>13, <4>1 DEF Taken
    <3>2. Good(g, out, n) /\ Free(Head(f["hand"]), g, out, n)
      BY <1>11, <1>12, <3>1, TakeGood
    <3>3. Free(x, g, out, n) BY <1>13, <3>2
    <3>4. x.id # 0 => Good(g, out \cup {x.id}, n) BY <3>2, <3>3, SentGood
    <3> QED BY <1>1, <1>6, <1>7, <1>8, <1>14, <2>1, <3>2, <3>4
  <2> QED BY <1>3, <1>4, <2>2, <2>3 DEF IInv
<1> QED BY <1>15, <1>16

\* The packet that has waited goes back to those to send.
LEMMA RetryStep == ASSUME IInv, Retry PROVE IInv'
<1>1. /\ tryAgain # <<>> /\ sending' = Append(sending, Head(tryAgain))
      /\ tryAgain' = Tail(tryAgain) /\ ring' = ring /\ rxOk' = rxOk /\ arp' = arp
      /\ receiving' = receiving /\ np' = np /\ cur' = cur /\ ms' = ms
      /\ portTable' = portTable /\ sockets' = sockets /\ inbox' = inbox /\ sent' = sent
      /\ ids' = ids
  BY DEF Retry, Due, users
<1>2. PICK x : x = Head(tryAgain) OBVIOUS
<1>3. /\ sending \in Seq(PacketType) /\ tryAgain \in Seq(PacketType) BY DEF IInv, TypeOK
<1>4. x \in PacketType /\ x \in Range(tryAgain) /\ tryAgain' \in Seq(PacketType)
  <2>1. Head(tryAgain) \in PacketType /\ Tail(tryAgain) \in Seq(PacketType)
        /\ Range(tryAgain) = Range(Tail(tryAgain)) \cup {Head(tryAgain)}
    BY <1>1, <1>3, TailFacts
  <2> QED BY <1>1, <1>2, <2>1
<1>5. TypeOK'
  <2>1. Append(sending, x) \in Seq(PacketType) BY <1>3, <1>4, AppendFacts
  <2> QED BY <1>1, <1>2, <1>4, <2>1 DEF IInv, TypeOK
<1>6. QueuesHold' BY <1>1 DEF IInv, QueuesHold
<1>7. WaySorted'
  <2>1. Hand' = Hand BY <1>1 DEF Hand
  <2> QED BY <1>1, <2>1, WaySame DEF IInv
<1>8. Good(Queue, sent, ids)'
  <2>1. PICK f : f = Queue OBVIOUS
  <2>2. PICK g : g = Queue' OBVIOUS
  <2>3. PICK n : n = ids OBVIOUS
  <2>4. PICK out : out = sent OBVIOUS
  <2>5. QueueNow /\ QueueNow' BY QueueIs, PTL
  <2>6. {"sending", "tryAgain"} \subseteq Places BY PlaceFacts DEF NetQueues
  <2>7. Good(f, out, n) BY <2>1, <2>3, <2>4 DEF IInv
  <2>8. /\ f["tryAgain"] # <<>> /\ g["tryAgain"] = Tail(f["tryAgain"]) /\ x = Head(f["tryAgain"])
        /\ g["sending"] = Append(f["sending"], x) /\ DOMAIN g = Places
        /\ x \in Range(f["tryAgain"])
    BY <1>1, <1>2, <1>4, <2>1, <2>2, <2>5 DEF QueueNow
  <2>9. \A q \in Places \ {"tryAgain", "sending"} : g[q] = f[q]
    BY <1>1, <2>1, <2>2, <2>5, PlaceFacts DEF QueueNow, Places, NetQueues
  <2>10. x.id = 0 => x.kind = "arpRequest" BY <2>6, <2>7, <2>8 DEF Good
  <2>11. Moved(f, g, "tryAgain", "sending", x) BY <1>4, <2>8, <2>9, <2>10 DEF Moved
  <2>12. Good(g, out, n) BY <2>6, <2>7, <2>11, MoveGood
  <2> QED BY <1>1, <2>2, <2>3, <2>4, <2>12
<1> QED BY <1>5, <1>6, <1>7, <1>8 DEF IInv

\* The next packet to dispatch: on the way of the data it is where it was.
LEMMA TakeReceivedStep == ASSUME IInv, TakeReceived PROVE IInv'
<1>1. /\ np = "receive" /\ ring' = ring /\ rxOk' = rxOk /\ arp' = arp /\ sending' = sending
      /\ tryAgain' = tryAgain /\ ms' = ms /\ portTable' = portTable /\ sockets' = sockets
      /\ inbox' = inbox /\ sent' = sent /\ ids' = ids
  BY DEF TakeReceived, users
<1>2. CASE receiving = <<>>
  <2>1. np' = "send" /\ receiving' = receiving /\ cur' = cur BY <1>2 DEF TakeReceived
  <2>2. TypeOK' BY <1>1, <2>1 DEF IInv, TypeOK
  <2> QED BY <1>1, <2>1, <2>2, QuietStep
<1>3. CASE receiving # <<>>
  <2>1. np' = "dispatch" /\ cur' = Head(receiving) /\ receiving' = Tail(receiving)
    BY <1>3 DEF TakeReceived
  <2>2. PICK x : x = Head(receiving) OBVIOUS
  <2>3. receiving \in Seq(PacketType) BY DEF IInv, TypeOK
  <2>4. /\ x \in PacketType /\ receiving' \in Seq(PacketType)
        /\ Range(receiving) = Range(receiving') \cup {x}
    <3>1. Head(receiving) \in PacketType /\ Tail(receiving) \in Seq(PacketType)
          /\ Range(receiving) = Range(Tail(receiving)) \cup {Head(receiving)}
      BY <1>3, <2>3, TailFacts
    <3> QED BY <2>1, <2>2, <3>1
  <2>5. TypeOK' BY <1>1, <2>1, <2>2, <2>4 DEF IInv, TypeOK
  <2>6. QueuesHold' BY <1>1, <2>1, <2>2, <2>4 DEF IInv, QueuesHold
  <2>7. Good(Queue, sent, ids)'
    <3>1. PICK f : f = Queue OBVIOUS
    <3>2. PICK g : g = Queue' OBVIOUS
    <3>3. PICK n : n = ids OBVIOUS
    <3>4. PICK out : out = sent OBVIOUS
    <3>5. QueueNow /\ QueueNow' BY QueueIs, PTL
    <3>6. {"receiving", "hand"} \subseteq Places BY PlaceFacts DEF NetQueues
    <3>7. Good(f, out, n) BY <3>1, <3>3, <3>4 DEF IInv
    <3>8. /\ f["receiving"] # <<>> /\ g["receiving"] = Tail(f["receiving"])
          /\ x = Head(f["receiving"]) /\ f["hand"] = <<>> /\ g["hand"] = <<x>>
          /\ DOMAIN g = Places /\ x \in Range(f["receiving"])
      BY <1>1, <1>3, <2>1, <2>2, <2>4, <3>1, <3>2, <3>5 DEF QueueNow
    <3>9. g["hand"] = Append(f["hand"], x) BY <3>8
    <3>10. \A q \in Places \ {"receiving", "hand"} : g[q] = f[q]
      BY <1>1, <3>1, <3>2, <3>5, PlaceFacts DEF QueueNow, Places, NetQueues
    <3>11. x.id = 0 => x.kind = "arpRequest" BY <3>6, <3>7, <3>8 DEF Good
    <3>12. Moved(f, g, "receiving", "hand", x) BY <2>4, <3>8, <3>9, <3>10, <3>11 DEF Moved
    <3>13. Good(g, out, n) BY <3>6, <3>7, <3>12, MoveGood
    <3> QED BY <1>1, <3>2, <3>3, <3>4, <3>13
  <2>8. WaySorted'
    <3>1. WaySorted BY DEF IInv
    <3>2. Hand = {} /\ Hand' = {x} BY <1>1, <2>1, <2>2 DEF Hand
    <3>3. Sorted(receiving') /\ Behind({x}, Range(receiving'))
      <4>1. Sorted(receiving) BY <3>1 DEF WaySorted
      <4>2. Sorted(Tail(receiving)) /\ Behind({Head(receiving)}, Range(Tail(receiving)))
        BY <1>3, <2>3, <4>1, SortedTail
      <4> QED BY <2>1, <2>2, <4>2
    <3> QED BY <1>1, <2>4, <3>1, <3>2, <3>3 DEF WaySorted, Behind
  <2> QED BY <2>5, <2>6, <2>7, <2>8 DEF IInv
<1> QED BY <1>2, <1>3

\* The owner of the port's socket gets the packet, or the process dies of it.
LEMMA DispatchStep == ASSUME IInv, Dispatch PROVE IInv'
<1>1. /\ np = "dispatch" /\ ring' = ring /\ rxOk' = rxOk /\ arp' = arp /\ sending' = sending
      /\ receiving' = receiving /\ tryAgain' = tryAgain /\ ms' = ms
      /\ portTable' = portTable /\ sockets' = sockets /\ sent' = sent /\ ids' = ids
  BY DEF Dispatch, queues
<1>2. /\ cur \in PacketType /\ cur.port \in Port /\ portTable[cur.port] \in Proc \cup {Nobody}
      /\ inbox \in [Proc -> Seq(PacketType)]
  BY <1>1 DEF IInv, TypeOK, QueuesHold
<1>3. PICK x : x = cur OBVIOUS
<1>4. PICK o : o = portTable[cur.port] OBVIOUS
<1>5. PICK f : f = Queue OBVIOUS
<1>6. PICK g : g = Queue' OBVIOUS
<1>7. PICK n : n = ids OBVIOUS
<1>8. PICK out : out = sent OBVIOUS
<1>9. QueueNow /\ QueueNow' BY QueueIs, PTL
<1>10. "hand" \in Places /\ Proc \subseteq Places /\ "hand" \notin Proc BY PlaceFacts DEF NetQueues
<1>11. Good(f, out, n) BY <1>5, <1>7, <1>8 DEF IInv
<1>12. np' \in {"receive", "killed", "corrupt"}
  BY DEF Dispatch
<1>13. /\ f["hand"] = <<x>> /\ <<x>> # <<>> /\ Head(<<x>>) = x /\ Tail(<<x>>) = <<>>
       /\ g["hand"] = <<>> /\ DOMAIN g = Places
  <2>1. f["hand"] = <<x>> /\ g["hand"] = <<>> /\ DOMAIN g = Places
    BY <1>1, <1>3, <1>5, <1>6, <1>9, <1>12 DEF QueueNow
  <2>2. <<x>> \in Seq(PacketType) /\ <<x>> # <<>> BY <1>2, <1>3
  <2> QED BY <2>1, <2>2
<1>14. Hand = {x} /\ Hand' = {} BY <1>1, <1>3, <1>12 DEF Hand
<1>15. QueuesHold' BY <1>1, <1>12 DEF IInv, QueuesHold
<1>16. WaySorted BY DEF IInv
<1>17. CASE inbox' = inbox /\ cur' = cur
  <2>1. TypeOK' BY <1>1, <1>12, <1>17 DEF IInv, TypeOK
  <2>2. \A q \in Places \ {"hand"} : g[q] = f[q]
    BY <1>1, <1>5, <1>6, <1>9, <1>17, PlaceFacts DEF QueueNow, Places, NetQueues
  <2>3. Taken(f, g, "hand") BY <1>13, <2>2 DEF Taken
  <2>4. Good(g, out, n) BY <1>10, <1>11, <2>3, TakeGood
  <2>5. Good(Queue, sent, ids)' BY <1>1, <1>6, <1>7, <1>8, <2>4
  <2>6. WaySorted' BY <1>1, <1>14, <1>16, <1>17 DEF WaySorted, Behind
  <2> QED BY <1>15, <2>1, <2>5, <2>6 DEF IInv
<1>18. CASE o \in Proc /\ cur' = None /\ inbox' = [inbox EXCEPT ![o] = Append(@, x)]
  <2>1. /\ inbox[o] \in Seq(PacketType) /\ inbox'[o] = Append(inbox[o], x)
        /\ \A p \in Proc \ {o} : inbox'[p] = inbox[p]
    BY <1>2, <1>18
  <2>2. /\ Append(inbox[o], x) \in Seq(PacketType)
        /\ Range(Append(inbox[o], x)) = Range(inbox[o]) \cup {x}
    <3>1. PICK s : s = inbox[o] OBVIOUS
    <3>2. Append(s, x) \in Seq(PacketType) /\ Range(Append(s, x)) = Range(s) \cup {x}
      BY <1>2, <1>3, <2>1, <3>1, AppendFacts
    <3> QED BY <3>1, <3>2
  <2>3. TypeOK'
    <3>1. inbox' \in [Proc -> Seq(PacketType)] BY <1>2, <1>18, <2>2
    <3> QED BY <1>1, <1>12, <1>18, <3>1 DEF IInv, TypeOK
  <2>4. /\ g[o] = Append(f[o], x)
        /\ \A q \in Places \ {"hand", o} : g[q] = f[q]
    BY <1>1, <1>5, <1>6, <1>9, <1>18, <2>1, PlaceFacts DEF QueueNow, Places, NetQueues
  <2>5. x.id = 0 => x.kind = "arpRequest"
    <3>1. x \in Range(f["hand"]) BY <1>2, <1>3, <1>13, SingleFacts
    <3> QED BY <1>10, <1>11, <3>1 DEF Good
  <2>6. Moved(f, g, "hand", o, x) BY <1>2, <1>3, <1>10, <1>13, <1>18, <2>4, <2>5 DEF Moved
  <2>7. Good(g, out, n) BY <1>10, <1>11, <1>18, <2>6, MoveGood
  <2>8. Good(Queue, sent, ids)' BY <1>1, <1>6, <1>7, <1>8, <2>7
  <2>9. WaySorted'
    <3>1. Sorted(inbox[o]) /\ Behind(Range(inbox[o]), {x})
      BY <1>14, <1>16, <1>18 DEF WaySorted, Behind
    <3>2. Sorted(inbox'[o])
      <4>1. PICK s : s = inbox[o] OBVIOUS
      <4>2. Sorted(Append(s, x)) BY <1>2, <1>3, <2>1, <3>1, <4>1, SortedAppend
      <4> QED BY <2>1, <4>1, <4>2
    <3>3. \A p \in Proc : Sorted(inbox'[p])
      BY <1>16, <2>1, <3>2 DEF WaySorted
    <3>4. Behind({x}, Range(receiving) \cup Range(ring))
      BY <1>14, <1>16 DEF WaySorted
    <3>5. \A p \in Proc : Behind(Range(inbox'[p]), Hand' \cup Range(receiving) \cup Range(ring))
      BY <1>14, <1>16, <2>1, <2>2, <3>4 DEF WaySorted, Behind
    <3> QED BY <1>1, <1>14, <1>16, <3>3, <3>5 DEF WaySorted, Behind
  <2> QED BY <1>15, <2>3, <2>8, <2>9 DEF IInv
<1> QED
  <2>1. (inbox' = inbox /\ cur' = cur) \/
        (o # Nobody /\ cur' = None /\ inbox' = [inbox EXCEPT ![o] = Append(@, x)])
    BY <1>3, <1>4 DEF Dispatch
  <2> QED BY <1>2, <1>4, <1>17, <1>18, <2>1

(***************************************************************************)
(* System calls.                                                           *)
(***************************************************************************)

\* A packet for another host, or a ping, is queued for sending.
LEMMA QueuedStep ==
    ASSUME IInv, NEW x \in PacketType, ids' = ids + 1, x.id = ids + 1, ids < MaxIds,
           sending' = Append(sending, x), ring' = ring, rxOk' = rxOk, arp' = arp,
           receiving' = receiving, tryAgain' = tryAgain, np' = np, cur' = cur, ms' = ms,
           portTable' = portTable, sockets' = sockets, inbox' = inbox, sent' = sent
    PROVE  IInv'
<1>1. /\ ids \in Nat /\ ids + 1 \in 0 .. MaxIds /\ sent \subseteq 1 .. ids
      /\ sending \in Seq(PacketType)
  BY PlaceFacts DEF IInv, TypeOK
<1>2. TypeOK'
  <2>1. Append(sending, x) \in Seq(PacketType) BY <1>1, AppendFacts
  <2>2. sent' \subseteq 1 .. ids' /\ ids' \in 0 .. MaxIds BY <1>1
  <2> QED BY <2>1, <2>2 DEF IInv, TypeOK
<1>3. QueuesHold' BY DEF IInv, QueuesHold
<1>4. WaySorted'
  <2>1. Hand' = Hand BY DEF Hand
  <2> QED BY <2>1, WaySame DEF IInv
<1>5. Good(Queue, sent, ids)'
  <2>1. PICK f : f = Queue OBVIOUS
  <2>2. PICK g : g = Queue' OBVIOUS
  <2>3. PICK n : n = ids OBVIOUS
  <2>4. PICK out : out = sent OBVIOUS
  <2>5. QueueNow /\ QueueNow' BY QueueIs, PTL
  <2>6. "sending" \in Places BY PlaceFacts DEF NetQueues
  <2>7. Put(f, g, "sending", x)
    BY <2>1, <2>2, <2>5, PlaceFacts DEF Put, QueueNow, Places, NetQueues
  <2>8. Good(f, out, n) BY <2>1, <2>3, <2>4 DEF IInv
  <2>9. Good(f, out, n + 1) /\ Free(x, f, out, n + 1)
    BY <1>1, <2>3, <2>4, <2>8, NewGood
  <2>10. Good(g, out, n + 1) BY <2>6, <2>7, <2>9, PutGood
  <2> QED BY <2>2, <2>3, <2>4, <2>10
<1> QED BY <1>2, <1>3, <1>4, <1>5 DEF IInv

\* A packet for this host is received at once.  What the card still holds came
\* from other hosts, so it is not behind them.
LEMMA LoopStep ==
    ASSUME IInv, NEW x \in PacketType, ids' = ids + 1, x.id = ids + 1, ids < MaxIds,
           x.kind = "P439", x.host = Loop, x.port \in Port,
           receiving' = Append(receiving, x), ring' = ring, rxOk' = rxOk, arp' = arp,
           sending' = sending, tryAgain' = tryAgain, np' = np, cur' = cur, ms' = ms,
           portTable' = portTable, sockets' = sockets, inbox' = inbox, sent' = sent
    PROVE  IInv'
<1>1. /\ ids \in Nat /\ ids + 1 \in 0 .. MaxIds /\ sent \subseteq 1 .. ids
      /\ receiving \in Seq(PacketType)
  BY PlaceFacts DEF IInv, TypeOK
<1>2. receiving' \in Seq(PacketType) /\ Range(receiving') = Range(receiving) \cup {x}
  BY <1>1, AppendFacts
<1>3. TypeOK'
  <2>1. sent' \subseteq 1 .. ids' /\ ids' \in 0 .. MaxIds BY <1>1
  <2> QED BY <1>2, <2>1 DEF IInv, TypeOK
<1>4. QueuesHold' BY <1>2 DEF IInv, QueuesHold
<1>5. Good(Queue, sent, ids)'
  <2>1. PICK f : f = Queue OBVIOUS
  <2>2. PICK g : g = Queue' OBVIOUS
  <2>3. PICK n : n = ids OBVIOUS
  <2>4. PICK out : out = sent OBVIOUS
  <2>5. QueueNow /\ QueueNow' BY QueueIs, PTL
  <2>6. "receiving" \in Places BY PlaceFacts DEF NetQueues
  <2>7. Put(f, g, "receiving", x)
    BY <2>1, <2>2, <2>5, PlaceFacts DEF Put, QueueNow, Places, NetQueues
  <2>8. Good(f, out, n) BY <2>1, <2>3, <2>4 DEF IInv
  <2>9. Good(f, out, n + 1) /\ Free(x, f, out, n + 1)
    BY <1>1, <2>3, <2>4, <2>8, NewGood
  <2>10. Good(g, out, n + 1) BY <2>6, <2>7, <2>9, PutGood
  <2> QED BY <2>2, <2>3, <2>4, <2>10
<1>6. WaySorted'
  <2>1. \A y \in PacketType : y.id <= ids => After(y, x) BY <1>1, NewAfter
  <2>2. /\ \A y \in Hand \cup Range(receiving) : After(y, x)
        /\ \A p \in Proc : \A y \in Range(inbox[p]) : After(y, x)
    BY <2>1, WayIds
  <2>3. \A y \in Range(ring) : After(x, y)
    BY PlaceFacts DEF IInv, QueuesHold, After
  <2>4. Sorted(receiving')
    <3>1. Behind(Range(receiving), {x}) BY <2>2 DEF Behind
    <3>2. Sorted(receiving) BY DEF IInv, WaySorted
    <3>3. Sorted(Append(receiving, x)) BY <1>1, <3>1, <3>2, SortedAppend
    <3> QED BY <3>3
  <2>5. Hand' = Hand BY DEF Hand
  <2> QED BY <1>2, <2>2, <2>3, <2>4, <2>5 DEF IInv, WaySorted, Behind
<1> QED BY <1>3, <1>4, <1>5, <1>6 DEF IInv

\* WriteSocket is one or the other.
LEMMA WriteStep ==
    ASSUME IInv, NEW p \in Proc, NEW host \in Host \cup {Loop, Self}, NEW port \in Port,
           WriteSocket(p, host, port)
    PROVE  IInv'
<1>1. PICK x : x = Packet("P439", host, port, ids + 1) OBVIOUS
<1>2. /\ ids' = ids + 1 /\ ids < MaxIds /\ ring' = ring /\ rxOk' = rxOk /\ arp' = arp
      /\ tryAgain' = tryAgain /\ np' = np /\ cur' = cur /\ ms' = ms
      /\ portTable' = portTable /\ sockets' = sockets /\ inbox' = inbox /\ sent' = sent
      /\ \/ sending' = Append(sending, x) /\ receiving' = receiving
         \/ sending' = sending /\ receiving' = Append(receiving, x) /\ host = Loop
      /\ host \in Host \cup {Loop}
  BY <1>1 DEF WriteSocket, CheckIP, NewId, users
<1>3. ids + 1 \in 0 .. MaxIds BY <1>2, PlaceFacts DEF IInv, TypeOK
<1>4. /\ x \in PacketType /\ x.kind = "P439" /\ x.host = host /\ x.port = port
      /\ x.id = ids + 1
  <2>1. host \in Host \cup {Loop} BY <1>2
  <2>2. "P439" \in Kinds \cup {"arp", "echoRequest", "other"} BY DEF Kinds
  <2>3. Packet("P439", host, port, ids + 1) = x BY <1>1
  <2> QED BY <1>3, <2>1, <2>2, <2>3, PacketFacts
<1>5. CASE sending' = Append(sending, x) /\ receiving' = receiving
  BY <1>2, <1>4, <1>5, QueuedStep
<1>6. CASE sending' = sending /\ receiving' = Append(receiving, x) /\ host = Loop
  BY <1>2, <1>4, <1>6, LoopStep
<1> QED BY <1>2, <1>5, <1>6

\* A ping is queued.
LEMMA PingStep == ASSUME IInv, NEW host \in Host, Ping(host) PROVE IInv'
<1>1. PICK x : x = Packet("ping", host, Nobody, ids + 1) OBVIOUS
<1>2. /\ ids' = ids + 1 /\ ids < MaxIds /\ ring' = ring /\ rxOk' = rxOk /\ arp' = arp
      /\ tryAgain' = tryAgain /\ np' = np /\ cur' = cur /\ ms' = ms
      /\ portTable' = portTable /\ sockets' = sockets /\ inbox' = inbox /\ sent' = sent
      /\ sending' = Append(sending, x) /\ receiving' = receiving
  BY <1>1 DEF Ping, NewId, users
<1>3. ids + 1 \in 0 .. MaxIds BY <1>2, PlaceFacts DEF IInv, TypeOK
<1>4. x \in PacketType /\ x.id = ids + 1 BY <1>1, <1>3, PacketFacts DEF Kinds
<1> QED BY <1>2, <1>4, QueuedStep

\* A process takes its first packet.
LEMMA ReadStep == ASSUME IInv, NEW p \in Proc, ReadSocket(p) PROVE IInv'
<1>1. /\ ring' = ring /\ rxOk' = rxOk /\ arp' = arp /\ sending' = sending
      /\ receiving' = receiving /\ tryAgain' = tryAgain /\ np' = np /\ cur' = cur /\ ms' = ms
      /\ portTable' = portTable /\ sockets' = sockets /\ sent' = sent /\ ids' = ids
      /\ inbox[p] # <<>> /\ inbox' = [inbox EXCEPT ![p] = Tail(@)]
  BY DEF ReadSocket, queues
<1>2. inbox \in [Proc -> Seq(PacketType)] BY DEF IInv, TypeOK
<1>3. inbox'[p] = Tail(inbox[p]) /\ \A q \in Proc \ {p} : inbox'[q] = inbox[q] BY <1>1, <1>2
<1>4. PICK s : s = inbox[p] OBVIOUS
<1>5. /\ s \in Seq(PacketType) /\ s # <<>>
      /\ Tail(s) \in Seq(PacketType) /\ Range(s) = Range(Tail(s)) \cup {Head(s)}
  <2>1. s \in Seq(PacketType) /\ s # <<>> BY <1>1, <1>2, <1>4
  <2> QED BY <2>1, TailFacts
<1>6. TypeOK'
  <2>1. inbox' \in [Proc -> Seq(PacketType)] BY <1>1, <1>2, <1>4, <1>5
  <2> QED BY <1>1, <2>1 DEF IInv, TypeOK
<1>7. QueuesHold' BY <1>1 DEF IInv, QueuesHold
<1>8. Good(Queue, sent, ids)'
  <2>1. PICK f : f = Queue OBVIOUS
  <2>2. PICK g : g = Queue' OBVIOUS
  <2>3. PICK n : n = ids OBVIOUS
  <2>4. PICK out : out = sent OBVIOUS
  <2>5. QueueNow /\ QueueNow' BY QueueIs, PTL
  <2>6. p \in Places BY PlaceFacts
  <2>7. Taken(f, g, p)
    BY <1>1, <1>3, <2>1, <2>2, <2>5, PlaceFacts DEF Taken, QueueNow, Places, NetQueues
  <2>8. Good(f, out, n) BY <2>1, <2>3, <2>4 DEF IInv
  <2>9. Good(g, out, n) BY <2>6, <2>7, <2>8, TakeGood
  <2> QED BY <1>1, <2>2, <2>3, <2>4, <2>9
<1>9. WaySorted'
  <2>1. WaySorted BY DEF IInv
  <2>2. Sorted(s) BY <1>4, <2>1 DEF WaySorted
  <2>3. Sorted(Tail(s)) BY <1>5, <2>2, SortedTail
  <2>4. \A q \in Proc : Sorted(inbox'[q]) /\ Range(inbox'[q]) \subseteq Range(inbox[q])
    BY <1>3, <1>4, <1>5, <2>1, <2>3 DEF WaySorted
  <2>5. Hand' = Hand BY <1>1 DEF Hand
  <2> QED BY <1>1, <2>1, <2>4, <2>5 DEF WaySorted, Behind
<1> QED BY <1>6, <1>7, <1>8, <1>9 DEF IInv

(***************************************************************************)
(* The theorems.                                                           *)
(***************************************************************************)

LEMMA InitIInv == Init => IInv
<1> SUFFICES ASSUME Init PROVE IInv OBVIOUS
<1>1. /\ ring = <<>> /\ rxOk = FALSE /\ arp = {} /\ sending = <<>> /\ receiving = <<>>
      /\ tryAgain = <<>> /\ np = "send" /\ cur = None /\ ms = 0
      /\ portTable = [q \in Port |-> Nobody] /\ sockets = [p \in Proc |-> {}]
      /\ inbox = [p \in Proc |-> <<>>] /\ sent = {} /\ ids = 0
  BY DEF Init
<1>2. TypeOK
  <2>1. <<>> \in Seq(PacketType) BY EmptySeq
  <2>2. 0 \in 0 .. MsRange - 1 /\ 0 \in 0 .. MaxIds BY PlaceFacts
  <2> QED BY <1>1, <2>1, <2>2 DEF TypeOK
<1>3. QueuesHold BY <1>1, EmptyFacts DEF QueuesHold
<1>4. \A q \in Places : Queue[q] = <<>>
  BY <1>1, QueueIs DEF QueueNow, Places, NetQueues
<1>5. Good(Queue, sent, ids)
  <2>1. DOMAIN Queue = Places BY QueueIs DEF QueueNow
  <2>2. <<>> \in Seq(PacketType) /\ DOMAIN <<>> = {} BY EmptySeq
  <2>3. Apart(Queue, sent) BY <1>4, <2>1, <2>2 DEF Apart
  <2> QED BY <1>4, <2>1, <2>2, <2>3, EmptyFacts DEF Good
<1>6. WaySorted BY <1>1, EmptyFacts, SortedShort DEF WaySorted, Behind, Hand
<1> QED BY <1>2, <1>3, <1>5, <1>6 DEF IInv

LEMMA NextIInv == IInv /\ [Next]_vars => IInv'
<1> SUFFICES ASSUME IInv, [Next]_vars PROVE IInv' OBVIOUS
<1>1. CASE UNCHANGED vars
  <2>1. TypeOK' BY <1>1 DEF vars, queues, users, IInv, TypeOK
  <2> QED BY <1>1, <2>1, QuietStep DEF vars, queues, users
<1>2. CASE Frames
  <2>1. ASSUME NEW host \in Host, NEW kind \in {"arp", "echoRequest", "other"},
               Arrive(kind, host, Nobody)
        PROVE  IInv'
    BY <2>1, ArriveStep
  <2>2. ASSUME NEW host \in Host, NEW port \in Port, Arrive("P439", host, port) PROVE IInv'
    BY <2>2, ArriveStep
  <2> QED BY <1>2, <2>1, <2>2 DEF Frames
<1>3. CASE HandleNetworkInterrupt BY <1>3, InterruptStep
<1>4. CASE Run
  <2>1. CASE EndRetries
    <3>1. TypeOK' BY <2>1 DEF EndRetries, queues, users, IInv, TypeOK
    <3> QED BY <2>1, <3>1, QuietStep DEF EndRetries, queues, users
  <2> QED BY <1>4, <2>1, TakeToSendStep, SendPacketStep, RetryStep, TakeReceivedStep,
             DispatchStep DEF Run
<1>5. CASE Tick
  <2>1. ms' \in 0 .. MsRange - 1
    <3>1. MsRange \in Nat \ {0} /\ ms \in 0 .. MsRange - 1
      BY PlaceFacts DEF IInv, TypeOK
    <3>2. (ms + 1) % MsRange \in 0 .. MsRange - 1 BY <3>1
    <3> QED BY <1>5, <3>2 DEF Tick
  <2>2. TypeOK' BY <1>5, <2>1 DEF Tick, queues, users, IInv, TypeOK
  <2> QED BY <1>5, <2>2, QuietStep DEF Tick, queues, users
<1>6. ASSUME NEW p \in Proc, ReadSocket(p) PROVE IInv' BY <1>6, ReadStep
<1>7. ASSUME NEW p \in Proc, NEW port \in Port, OpenSocket(p, port) \/ CloseSocket(p, port)
      PROVE  IInv'
  <2>1. /\ ring' = ring /\ rxOk' = rxOk /\ arp' = arp /\ sending' = sending
        /\ receiving' = receiving /\ tryAgain' = tryAgain /\ np' = np /\ cur' = cur
        /\ ms' = ms /\ inbox' = inbox /\ sent' = sent /\ ids' = ids
        /\ portTable' \in {portTable, [portTable EXCEPT ![port] = p]}
        /\ \E S \in SUBSET Port : sockets' = [sockets EXCEPT ![p] = S]
    <3>1. sockets[p] \in SUBSET Port BY DEF IInv, TypeOK
    <3>2. CASE OpenSocket(p, port)
      <4>1. sockets[p] \cup {port} \in SUBSET Port BY <3>1
      <4> QED BY <3>2, <4>1 DEF OpenSocket, queues
    <3>3. CASE CloseSocket(p, port)
      <4>1. sockets[p] \ {port} \in SUBSET Port BY <3>1
      <4> QED BY <3>3, <4>1 DEF CloseSocket, queues
    <3> QED BY <1>7, <3>2, <3>3
  <2>2. portTable' \in [Port -> Proc \cup {Nobody}] /\ sockets' \in [Proc -> SUBSET Port]
    BY <2>1 DEF IInv, TypeOK
  <2>3. TypeOK' BY <2>1, <2>2 DEF IInv, TypeOK
  <2> QED BY <2>1, <2>3, QuietStep
<1>8. ASSUME NEW p \in Proc, NEW port \in Port, NEW host \in Host \cup {Loop, Self},
             WriteSocket(p, host, port)
      PROVE  IInv'
  BY <1>8, WriteStep
<1>9. ASSUME NEW host \in Host, Ping(host) PROVE IInv' BY <1>9, PingStep
<1> QED BY <1>1, <1>2, <1>3, <1>4, <1>5, <1>6, <1>7, <1>8, <1>9 DEF Next

\* The types, what each queue can hold, the places of the packets and the order
\* of the data hold together after every step.
THEOREM NetworkInvariance == Spec => []IInv
BY InitIInv, NextIInv, PTL DEF Spec

\* No packet is ever in two queues, in two inboxes, or sent and still queued:
\* it is deleted once.
THEOREM PacketsInOnePlace == Spec => []OnePlace
<1>1. IInv => OnePlace BY DEF IInv, Good, OnePlace
<1> QED BY <1>1, NetworkInvariance, PTL

\* Data of one host for one port comes to the port's owner in the order in which
\* it came to the card.
THEOREM DataInOrder == Spec => []InOrder
<1>1. IInv => InOrder
  <2> SUFFICES ASSUME IInv, NEW p \in Proc PROVE Sorted(inbox[p] \o Path) BY DEF InOrder
  <2>1. PICK h : h = InHand({"dispatch"}) OBVIOUS
  <2>2. PICK r : r = receiving OBVIOUS
  <2>3. PICK c : c = ring OBVIOUS
  <2>4. PICK i : i = inbox[p] OBVIOUS
  <2>5. r \in Seq(PacketType) /\ c \in Seq(PacketType) /\ i \in Seq(PacketType)
    BY <2>2, <2>3, <2>4 DEF IInv, TypeOK
  <2>6. h \in Seq(PacketType) /\ Sorted(h) /\ Range(h) = Hand
    <3>1. CASE np = "dispatch"
      <4>1. cur \in PacketType /\ h = <<cur>> /\ Hand = {cur}
        BY <2>1, <3>1 DEF IInv, QueuesHold, InHand, Hand
      <4>2. PICK x : x = cur OBVIOUS
      <4>3. <<x>> \in Seq(PacketType) /\ Sorted(<<x>>) /\ Range(<<x>>) = {x}
        BY <4>1, <4>2, SingleFacts, SortedShort
      <4> QED BY <4>1, <4>2, <4>3
    <3>2. CASE np # "dispatch"
      BY <2>1, <3>2, EmptySeq, EmptyFacts, SortedShort DEF InHand, Hand
    <3> QED BY <3>1, <3>2
  <2>7. /\ Sorted(r) /\ Sorted(c) /\ Sorted(i)
        /\ Behind(Range(i), Range(h) \cup Range(r) \cup Range(c))
        /\ Behind(Range(h), Range(r) \cup Range(c)) /\ Behind(Range(r), Range(c))
    BY <2>2, <2>3, <2>4, <2>6 DEF IInv, WaySorted
  <2>8. PICK u : u = h \o r OBVIOUS
  <2>9. u \in Seq(PacketType) /\ Range(u) = Range(h) \cup Range(r)
    BY <2>5, <2>6, <2>8, ConcatFacts
  <2>10. Behind(Range(h), Range(r)) BY <2>7 DEF Behind
  <2>11. Sorted(u) BY <2>5, <2>6, <2>7, <2>8, <2>10, SortedConcat
  <2>12. PICK w : w = u \o c OBVIOUS
  <2>13. w \in Seq(PacketType) /\ Range(w) = Range(u) \cup Range(c)
    BY <2>5, <2>9, <2>12, ConcatFacts
  <2>14. Behind(Range(u), Range(c)) BY <2>7, <2>9 DEF Behind
  <2>15. Sorted(w) BY <2>5, <2>7, <2>9, <2>11, <2>12, <2>14, SortedConcat
  <2>16. Behind(Range(i), Range(w)) BY <2>7, <2>9, <2>13 DEF Behind
  <2>17. Sorted(i \o w) BY <2>5, <2>7, <2>13, <2>15, <2>16, SortedConcat
  <2>18. Path = w BY <2>1, <2>2, <2>3, <2>8, <2>12 DEF Path
  <2> QED BY <2>4, <2>17, <2>18
<1> QED BY <1>1, NetworkInvariance, PTL
=============================================================================
