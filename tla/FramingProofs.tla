---------------------------- MODULE FramingProofs ----------------------------
(***************************************************************************)
(* Proofs about Framing, for any callers of SendPacket and any lengths of  *)
(* packets and of the writer's buffer: TypeOK, and the refinement of       *)
(* PacketPipe, if no read fails for a while in the middle of a packet.     *)
(***************************************************************************)
EXTENDS Framing, SequenceTheorems, TLAPS

\* The cells of a packet behind the first a, up to cell b: what buffers, parts and reads
\* are made of.
Cut(k, a, b) == [i \in 1..(b - a) |-> <<k, a + i>>]

(***************************************************************************)
(* The inductive invariant: the side of the writer.                        *)
(***************************************************************************)
OutCells == Senders \X Nat
SendTypes ==
    /\ conn \in 0..MaxConns
    /\ broken \in BOOLEAN /\ disconnected \in BOOLEAN /\ sticky \in BOOLEAN
    /\ mu \in Senders \cup {Nobody}
    /\ pc \in [Senders -> {"idle", "lock", "write", "sent", "failed"}]
    /\ todo \in [Senders -> Seq(Seq(OutCells))]
    /\ buf \in Seq(OutCells) /\ Len(buf) <= BufferSize
    /\ wire \in [Conns -> Seq(OutCells)]

\* The mutex is held by the one that writes, and nobody sends before Connect.
Holding ==
    /\ \A k \in Senders : pc[k] = "write" <=> mu = k
    /\ disconnected \/ conn > 0
    /\ \A k \in Senders : pc[k] \in {"lock", "write"} => conn > 0

\* What each connection has taken is in step, and nothing is on one yet to come.
Has(cells, k, i) == \E x \in DOMAIN cells : cells[x] = <<k, i>>
Wires ==
    /\ \A c \in Conns : InStep(wire[c])
    /\ \A c \in Conns : c > conn => wire[c] = <<>>

\* No connection has taken cell i of k's packet or a later one.
Absent(k, i) == \A c \in Conns, j \in Nat : Has(wire[c], k, j) => j < i

\* A caller that waits, or that writes to a writer with an error, has sent nothing; the
\* result of SendPacket tells whether the last cell went out.
Outcomes ==
    /\ \A k \in Senders : pc[k] \in {"idle", "lock"} => Absent(k, 1)
    /\ \A k \in Senders : pc[k] = "write" /\ sticky => Absent(k, 1)
    /\ \A k \in Senders : pc[k] = "failed" => Absent(k, Cells(k))
    /\ \A k \in Senders : pc[k] = "sent" => \E c \in Conns : Has(wire[c], k, Cells(k))

\* What is left of k's packet behind its first n cells, and where cell m ends.
Ahead(parts, k, n) ==
    \/ parts = <<>> /\ n = Cells(k)
    \/ parts = <<Cut(k, n, Cells(k))>>
    \/ n = 0 /\ parts = <<Header(k), Payload(k)>>
AtEnd(cells) == cells = <<>> \/ EndsPacket(cells[Len(cells)])
Tip(cells, k, m) == IF m = 0 THEN AtEnd(cells) ELSE cells # <<>> /\ cells[Len(cells)] = <<k, m>>

\* The packet of the holder: m cells are on the wire, those up to n in the buffer.
Underway(k, m, n) ==
    /\ m <= n /\ n <= Cells(k)
    /\ buf = Cut(k, m, n)
    /\ Ahead(todo[k], k, n)
    /\ Tip(wire[conn], k, m)
    /\ Absent(k, m + 1)

\* As long as the writer has no error nothing waits in it between two packets.
Writer ==
    /\ mu = Nobody /\ ~sticky => buf = <<>> /\ (conn > 0 => AtEnd(wire[conn]))
    /\ \A k \in Senders :
           mu = k /\ ~sticky => \E m, n \in Nat : Underway(k, m, n)

SendInv == SendTypes /\ Holding /\ Wires /\ Outcomes /\ Writer

(***************************************************************************)
(* The inductive invariant: the side of the listener.                      *)
(***************************************************************************)
Positions ==
    {p \in (1..(MaxPackets + 1)) \X Nat :
        IF p[1] = MaxPackets + 1 THEN p[2] = 0 ELSE p[2] < 3 + SizeIn[p[1]]}
InCells == Nat \X Nat
ReadTypes ==
    /\ lpc \in {"off", "length", "header", "payload"}
    /\ sentIn \in Positions /\ pos \in Positions /\ NotBeyond(pos, sentIn)
    /\ got \in Seq(InCells) /\ header \in Seq(InCells) /\ routed \in Seq(Seq(InCells))

\* Where the listener is when it has read i cells of packet n.
After(n, i) == IF n <= MaxPackets /\ i = 3 + SizeIn[n] THEN <<n + 1, 0>> ELSE <<n, i>>

\* The listener reads the packet that comes after the routed ones, i cells of it so far,
\* or there is nothing left to read.
Reading(n, i) ==
    \/ /\ lpc = "length" /\ i <= 2
       /\ got = Cut(n, 0, i) /\ pos = <<n, i>>
    \/ /\ lpc = "header" /\ 2 <= i /\ i <= 3
       /\ n <= MaxPackets /\ size = SizeIn[n]
       /\ got = Cut(n, 2, i) /\ pos = After(n, i)
    \/ /\ lpc = "payload" /\ n <= MaxPackets /\ size = SizeIn[n] /\ header = HeaderIn(n)
       /\ 3 <= i /\ i <= 3 + SizeIn[n]
       /\ got = Cut(n, 3, i) /\ pos = After(n, i)
Drained == lpc = "length" /\ got = <<>> /\ broken /\ pos = sentIn
Listening == lpc = "off" \/ Drained \/ \E i \in Nat : Reading(Len(routed) + 1, i)

ReadInv == ReadTypes /\ RoutedAsSent /\ Listening

(***************************************************************************)
(* Lemmas about cells.                                                     *)
(***************************************************************************)
\* A cut has the cells it is named for.
LEMMA CutCells ==
    ASSUME NEW k, NEW a \in Nat, NEW b \in Nat, a <= b
    PROVE  /\ Cut(k, a, b) \in Seq({k} \X Nat)
           /\ Len(Cut(k, a, b)) = b - a
           /\ \A i \in 1..(b - a) : Cut(k, a, b)[i] = <<k, a + i>>
  BY DEF Cut

\* A sequence that begins with one and goes on with another is the two joined.
LEMMA Joined ==
    ASSUME NEW S, NEW s \in Seq(S), NEW t \in Seq(S), NEW u \in Seq(S),
           Len(u) = Len(s) + Len(t),
           \A i \in 1..Len(s) : s[i] = u[i],
           \A i \in 1..Len(t) : t[i] = u[Len(s) + i]
    PROVE  s \o t = u
  <1>1. /\ s \o t \in Seq(S) /\ Len(s \o t) = Len(u)
        /\ Len(s) \in Nat /\ Len(t) \in Nat
    BY ConcatProperties
  <1>2. ASSUME NEW i \in 1..Len(u) PROVE (s \o t)[i] = u[i]
    <2>1. (s \o t)[i] = IF i <= Len(s) THEN s[i] ELSE t[i - Len(s)]
      BY ConcatProperties
    <2>2. CASE i <= Len(s)
      BY <1>1, <2>1, <2>2
    <2>3. CASE ~(i <= Len(s))
      <3>1. i - Len(s) \in 1..Len(t) /\ Len(s) + (i - Len(s)) = i
        BY <1>1, <2>3
      <3> QED BY <2>1, <2>3, <3>1
    <2> QED BY <2>2, <2>3
  <1> QED BY <1>1, <1>2, SeqEqual

\* Two cuts that meet make one.
LEMMA CutsMeet ==
    ASSUME NEW k, NEW a \in Nat, NEW b \in Nat, NEW c \in Nat, a <= b, b <= c
    PROVE  Cut(k, a, b) \o Cut(k, b, c) = Cut(k, a, c)
  <1>1. /\ Cut(k, a, b) \in Seq({k} \X Nat) /\ Len(Cut(k, a, b)) = b - a
        /\ \A i \in 1..(b - a) : Cut(k, a, b)[i] = <<k, a + i>>
    BY CutCells
  <1>2. /\ Cut(k, b, c) \in Seq({k} \X Nat) /\ Len(Cut(k, b, c)) = c - b
        /\ \A i \in 1..(c - b) : Cut(k, b, c)[i] = <<k, b + i>>
    BY CutCells
  <1>3. a <= c /\ b - a + (c - b) = c - a
    OBVIOUS
  <1>4. /\ Cut(k, a, c) \in Seq({k} \X Nat) /\ Len(Cut(k, a, c)) = c - a
        /\ \A i \in 1..(c - a) : Cut(k, a, c)[i] = <<k, a + i>>
    BY <1>3, CutCells
  <1>5. Len(Cut(k, a, c)) = Len(Cut(k, a, b)) + Len(Cut(k, b, c))
    BY <1>1, <1>2, <1>3, <1>4, Zenon
  <1>6. ASSUME NEW i \in 1..Len(Cut(k, a, b)) PROVE Cut(k, a, b)[i] = Cut(k, a, c)[i]
    <2>1. i \in 1..(b - a) /\ i \in 1..(c - a)
      BY <1>1
    <2> QED BY <1>1, <1>4, <2>1
  <1>7. ASSUME NEW i \in 1..Len(Cut(k, b, c))
        PROVE  Cut(k, b, c)[i] = Cut(k, a, c)[Len(Cut(k, a, b)) + i]
    <2>1. i \in 1..(c - b) /\ b - a + i \in 1..(c - a) /\ a + (b - a + i) = b + i
      BY <1>2
    <2> QED BY <1>1, <1>2, <1>4, <2>1
  <1> QED BY <1>1, <1>2, <1>4, <1>5, <1>6, <1>7, Joined

\* Parts of a cut are cuts.
LEMMA PartsOfCut ==
    ASSUME NEW k, NEW a \in Nat, NEW b \in Nat, NEW p \in Nat, a <= p, p <= b
    PROVE  /\ First(Cut(k, a, b), p - a) = Cut(k, a, p)
           /\ Behind(Cut(k, a, b), p - a) = Cut(k, p, b)
  <1>1. First(Cut(k, a, b), p - a) = Cut(k, a, p)
    BY DEF First, Cut
  <1>2. Len(Cut(k, a, b)) = b - a
    BY DEF Cut
  <1>3. Behind(Cut(k, a, b), p - a) = SubSeq(Cut(k, a, b), p - a + 1, b - a)
    BY <1>2, Zenon DEF Behind
  <1>4. SubSeq(Cut(k, a, b), p - a + 1, b - a) = Cut(k, p, b)
    BY DEF Cut
  <1> QED BY <1>1, <1>3, <1>4

\* Header and payload are cuts.
LEMMA PartsAreCuts ==
    ASSUME NEW k \in Senders
    PROVE  /\ Cells(k) \in Nat \ {0}
           /\ Header(k) = Cut(k, 0, 1)
           /\ Payload(k) = Cut(k, 1, Cells(k))
  BY SendersAssumption DEF Cells, Header, Payload, Cut

\* v is w with the cells m + 1 to b of k's packet behind it; w has none of those.
Follows(w, v, k, m, b) ==
    /\ Len(v) = Len(w) + (b - m)
    /\ \A x \in 1..Len(w) : v[x] = w[x]
    /\ \A x \in (Len(w) + 1)..Len(v) : v[x] = <<k, m + (x - Len(w))>>
Fresh(w, k, m) == \A j \in Nat : Has(w, k, j) => j < m + 1

\* Where a cut is put behind other cells.
LEMMA PutBehind ==
    ASSUME NEW w \in Seq(OutCells), NEW k \in Senders, NEW m \in Nat, NEW b \in Nat, m <= b
    PROVE  /\ w \o Cut(k, m, b) \in Seq(OutCells)
           /\ Follows(w, w \o Cut(k, m, b), k, m, b)
  <1>1. /\ Cut(k, m, b) \in Seq(OutCells) /\ Len(Cut(k, m, b)) = b - m
        /\ \A i \in 1..(b - m) : Cut(k, m, b)[i] = <<k, m + i>>
    BY DEF Cut, OutCells
  <1> DEFINE t == Cut(k, m, b)
  <1> HIDE DEF t
  <1>2. /\ t \in Seq(OutCells) /\ Len(t) = b - m
        /\ \A i \in 1..(b - m) : t[i] = <<k, m + i>>
    BY <1>1 DEF t
  <1>3. /\ w \o t \in Seq(OutCells) /\ Len(w \o t) = Len(w) + (b - m)
        /\ \A x \in 1..(Len(w) + (b - m)) :
               (w \o t)[x] = IF x <= Len(w) THEN w[x] ELSE t[x - Len(w)]
    BY <1>2, ConcatProperties, ZenonT(60)
  <1>4. Len(w) \in Nat
    OBVIOUS
  <1>5. ASSUME NEW x \in (Len(w) + 1)..(Len(w) + (b - m))
        PROVE  (w \o t)[x] = <<k, m + (x - Len(w))>>
    <2>1. x - Len(w) \in 1..(b - m) /\ x \in 1..(Len(w) + (b - m)) /\ ~(x <= Len(w))
      BY <1>4
    <2> QED BY <1>2, <1>3, <2>1, Zenon
  <1>6. ASSUME NEW x \in 1..Len(w) PROVE (w \o t)[x] = w[x]
    <2>1. x \in 1..(Len(w) + (b - m)) /\ x <= Len(w)
      BY <1>4
    <2> QED BY <1>3, <2>1, Zenon
  <1> QED BY <1>3, <1>5, <1>6, Zenon DEF t, Follows

\* Cells that follow on the last ones keep a connection in step.
LEMMA StaysInStep ==
    ASSUME NEW w \in Seq(OutCells), NEW v \in Seq(OutCells),
           NEW k \in Senders, NEW m \in Nat, NEW b \in Nat, m <= b,
           Follows(w, v, k, m, b), InStep(w), Tip(w, k, m), Fresh(w, k, m)
    PROVE  /\ InStep(v)
           /\ Tip(v, k, b)
           /\ \A q \in Senders, j \in Nat :
                  Has(v, q, j) <=> Has(w, q, j) \/ (q = k /\ m + 1 <= j /\ j <= b)
  <1> DEFINE L == Len(w)  N == Len(v)
  <1>1. L \in Nat /\ N \in Nat /\ N = L + (b - m) /\ DOMAIN w = 1..L /\ DOMAIN v = 1..N
    BY DEF Follows
  <1>2. \A x \in 1..L : v[x] = w[x]
    BY DEF Follows
  <1>3. \A x \in (L + 1)..N : v[x] = <<k, m + (x - L)>>
    BY DEF Follows
  <1>4. L = 0 <=> w = <<>>
    OBVIOUS
  <1>5. /\ m = 0 => w = <<>> \/ EndsPacket(w[L])
        /\ m > 0 => w # <<>> /\ w[L] = <<k, m>>
    BY DEF Tip, AtEnd
  <1>6. Tip(v, k, b)
    <2>1. CASE b = m
      BY <1>1, <1>2, <1>4, <1>5, <2>1 DEF Tip, AtEnd
    <2>2. CASE b > m
      <3>1. N \in (L + 1)..N /\ m + (N - L) = b
        BY <1>1, <2>2
      <3>2. v[N] = <<k, b>>
        BY <1>3, <3>1, Zenon
      <3>3. v # <<>>
        BY <1>1, <3>1
      <3> QED BY <2>2, <3>2, <3>3 DEF Tip
    <2> QED BY <2>1, <2>2
  <1> HIDE DEF L, N
  <1>7. ASSUME NEW q \in Senders, NEW j \in Nat
        PROVE  Has(v, q, j) <=> Has(w, q, j) \/ (q = k /\ m + 1 <= j /\ j <= b)
    <2>1. ASSUME Has(v, q, j) PROVE Has(w, q, j) \/ (q = k /\ m + 1 <= j /\ j <= b)
      <3>1. PICK x \in 1..N : v[x] = <<q, j>>
        BY <1>1, <2>1 DEF Has
      <3>2. CASE x <= L
        <4>1. x \in 1..L
          BY <1>1, <3>2
        <4> QED BY <1>1, <1>2, <3>1, <4>1 DEF Has
      <3>3. CASE ~(x <= L)
        <4>1. x \in (L + 1)..N /\ m + 1 <= m + (x - L) /\ m + (x - L) <= b
          BY <1>1, <3>3
        <4> QED BY <1>3, <3>1, <4>1
      <3> QED BY <3>2, <3>3
    <2>2. ASSUME Has(w, q, j) PROVE Has(v, q, j)
      <3>1. PICK x \in 1..L : w[x] = <<q, j>>
        BY <1>1, <2>2 DEF Has
      <3>2. x \in 1..N
        BY <1>1, <3>1
      <3> QED BY <1>1, <1>2, <3>1, <3>2 DEF Has
    <2>3. ASSUME q = k, m + 1 <= j, j <= b PROVE Has(v, q, j)
      <3>1. PICK y \in 1..N : y = L + (j - m)
        BY <1>1, <2>3
      <3>2. y \in (L + 1)..N /\ m + (y - L) = j
        BY <1>1, <2>3, <3>1
      <3>3. v[y] = <<k, j>>
        BY <1>3, <3>2
      <3> QED BY <1>1, <2>3, <3>1, <3>3 DEF Has
    <2> QED BY <2>1, <2>2, <2>3
  <1>8. ASSUME NEW x \in 1..N
        PROVE  IF v[x][2] = 1 THEN x = 1 \/ EndsPacket(v[x - 1])
               ELSE x > 1 /\ v[x - 1] = <<v[x][1], v[x][2] - 1>>
    <2>1. CASE x <= L
      <3>1. x \in 1..L /\ (x > 1 => x - 1 \in 1..L)
        BY <1>1, <2>1
      <3>2. IF w[x][2] = 1 THEN x = 1 \/ EndsPacket(w[x - 1])
            ELSE x > 1 /\ w[x - 1] = <<w[x][1], w[x][2] - 1>>
        BY <1>1, <3>1, Zenon DEF InStep
      <3>3. v[x] = w[x] /\ (x > 1 => v[x - 1] = w[x - 1])
        BY <1>2, <3>1
      <3> QED BY <3>1, <3>2, <3>3
    <2>2. CASE x = L + 1
      <3>1. x \in (L + 1)..N /\ v[x] = <<k, m + 1>>
        <4>1. x \in (L + 1)..N /\ m + (x - L) = m + 1
          BY <1>1, <2>2
        <4> QED BY <1>3, <4>1
      <3>2. CASE m = 0
        <4>1. x = 1 \/ (x - 1 = L /\ L \in 1..L /\ EndsPacket(w[L]))
          BY <1>1, <1>4, <1>5, <2>2, <3>2 DEF L
        <4> QED BY <1>2, <3>1, <3>2, <4>1
      <3>3. CASE m > 0
        <4>1. w[L] = <<k, m>> /\ L > 0
          BY <1>1, <1>4, <1>5, <3>3 DEF L
        <4>2. x - 1 = L /\ L \in 1..L
          BY <1>1, <2>2, <4>1
        <4>3. v[x - 1] = <<k, m>> /\ x > 1
          BY <1>1, <1>2, <2>2, <4>1, <4>2
        <4>4. v[x][1] = k /\ v[x][2] = m + 1 /\ m + 1 # 1 /\ m + 1 - 1 = m
          BY <3>1, <3>3
        <4> QED BY <4>3, <4>4
      <3> QED BY <3>2, <3>3
    <2>3. CASE x > L + 1
      <3>1. /\ x \in (L + 1)..N /\ x - 1 \in (L + 1)..N
            /\ m + (x - L) # 1 /\ m + (x - 1 - L) = m + (x - L) - 1 /\ x > 1
        BY <1>1, <2>3
      <3>2. v[x] = <<k, m + (x - L)>> /\ v[x - 1] = <<k, m + (x - 1 - L)>>
        BY <1>3, <3>1
      <3>3. v[x][1] = k /\ v[x][2] = m + (x - L)
        BY <3>2
      <3>4. v[x - 1] = <<v[x][1], v[x][2] - 1>>
        <4>1. m + (x - 1 - L) = v[x][2] - 1
          BY <1>1, <2>3, <3>3
        <4>2. v[x - 1] = <<k, v[x][2] - 1>>
          BY <3>2, <4>1, Zenon
        <4> QED BY <3>3, <4>2, Zenon
      <3> QED BY <3>1, <3>3, <3>4
    <2> QED BY <1>1, <2>1, <2>2, <2>3
  <1>9. ASSUME NEW x \in 1..N, NEW y \in 1..N, v[x] = v[y]
        PROVE  x = y
    <2>1. CASE x <= L /\ y <= L
      <3>1. x \in 1..L /\ y \in 1..L /\ w[x] = w[y]
        BY <1>1, <1>2, <1>9, <2>1
      <3> QED BY <1>1, <3>1, Zenon DEF InStep
    <2>2. CASE x > L /\ y > L
      <3>1. x \in (L + 1)..N /\ y \in (L + 1)..N
        BY <1>1, <2>2
      <3>2. v[x] = <<k, m + (x - L)>> /\ v[y] = <<k, m + (y - L)>>
        BY <1>3, <3>1
      <3>3. v[x][2] = m + (x - L) /\ v[y][2] = m + (y - L)
        BY <3>2
      <3>4. m + (x - L) = m + (y - L)
        BY <1>9, <3>3, Zenon
      <3> QED BY <1>1, <3>4
    <2>3. ASSUME NEW p \in 1..N, NEW r \in 1..N, p <= L, r > L, v[p] = v[r]
          PROVE  FALSE
      <3>1. p \in 1..L /\ r \in (L + 1)..N /\ m + (r - L) \in Nat /\ ~(m + (r - L) < m + 1)
        BY <1>1, <2>3
      <3>2. w[p] = <<k, m + (r - L)>>
        BY <1>2, <1>3, <2>3, <3>1
      <3>3. Has(w, k, m + (r - L))
        BY <1>1, <3>1, <3>2 DEF Has
      <3> QED BY <3>1, <3>3 DEF Fresh
    <2> QED BY <1>1, <1>9, <2>1, <2>2, <2>3
  <1> QED BY <1>1, <1>6, <1>7, <1>8, <1>9, Zenon DEF InStep

(***************************************************************************)
(* What a step does to the wires.                                          *)
(***************************************************************************)
\* The current connection takes the cells m + 1 to b of k's packet.
Takes(k, m, b) == wire' = [wire EXCEPT ![conn] = @ \o Cut(k, m, b)]

LEMMA WiresTake ==
    ASSUME SendTypes, Wires, conn > 0,
           NEW k \in Senders, NEW m \in Nat, NEW b \in Nat, m <= b,
           Tip(wire[conn], k, m), Absent(k, m + 1), Takes(k, m, b)
    PROVE  /\ wire' \in [Conns -> Seq(OutCells)]
           /\ \A c \in Conns : InStep(wire'[c])
           /\ \A c \in Conns : c > conn => wire'[c] = <<>>
           /\ Tip(wire'[conn], k, b)
           /\ \A c \in Conns, q \in Senders, j \in Nat :
                  Has(wire'[c], q, j) <=>
                      Has(wire[c], q, j) \/ (c = conn /\ q = k /\ m + 1 <= j /\ j <= b)
  <1>1. conn \in Conns /\ conn \in Nat
    BY BoundsAssumption DEF SendTypes, Conns
  <1>2. PICK w \in Seq(OutCells) : w = wire[conn]
    BY <1>1 DEF SendTypes
  <1>3. InStep(w) /\ Fresh(w, k, m) /\ Tip(w, k, m)
    BY <1>1, <1>2 DEF Wires, Absent, Fresh
  <1>4. PICK v \in Seq(OutCells) : v = w \o Cut(k, m, b) /\ Follows(w, v, k, m, b)
    BY PutBehind
  <1>5. /\ InStep(v) /\ Tip(v, k, b)
        /\ \A q \in Senders, j \in Nat :
               Has(v, q, j) <=> Has(w, q, j) \/ (q = k /\ m + 1 <= j /\ j <= b)
    <2>1. m <= b
      OBVIOUS
    <2>2. Follows(w, v, k, m, b)
      BY <1>4
    <2>3. Fresh(w, k, m) /\ InStep(w) /\ Tip(w, k, m)
      BY <1>3
    <2>4. InStep(v)
      BY <2>1, <2>2, <2>3, StaysInStep, Zenon
    <2>5. Tip(v, k, b)
      BY <2>1, <2>2, <2>3, StaysInStep, Zenon
    <2> QED BY <2>1, <2>2, <2>3, <2>4, <2>5, StaysInStep, Zenon
  <1>6. /\ wire' \in [Conns -> Seq(OutCells)]
        /\ wire'[conn] = v
        /\ \A c \in Conns : c # conn => wire'[c] = wire[c]
    BY <1>1, <1>2, <1>4 DEF Takes, SendTypes
  <1>7. \A c \in Conns : InStep(wire'[c])
    BY <1>5, <1>6 DEF Wires
  <1>8. \A c \in Conns : c > conn => wire'[c] = <<>>
    <2> SUFFICES ASSUME NEW c \in Conns, c > conn PROVE wire'[c] = <<>>
      OBVIOUS
    <2>1. c # conn
      BY <1>1 DEF Conns
    <2> QED BY <1>6, <2>1 DEF Wires
  <1>9. ASSUME NEW c \in Conns, NEW q \in Senders, NEW j \in Nat
        PROVE  Has(wire'[c], q, j) <=>
                   Has(wire[c], q, j) \/ (c = conn /\ q = k /\ m + 1 <= j /\ j <= b)
    <2>1. CASE c = conn
      BY <1>2, <1>5, <1>6, <2>1
    <2>2. CASE c # conn
      BY <1>6, <2>2
    <2> QED BY <2>1, <2>2
  <1> QED BY <1>5, <1>6, <1>7, <1>8, <1>9

\* The holder of the mutex hands a part to a writer without an error.
LEMMA NextPart ==
    ASSUME NEW k \in Senders, NEW m \in Nat, NEW n \in Nat, Underway(k, m, n),
           todo[k] # <<>>
    PROVE  \E e \in Nat :
               /\ n <= e /\ e <= Cells(k)
               /\ Head(todo[k]) = Cut(k, n, e)
               /\ Len(Head(todo[k])) = e - n
               /\ Ahead(Tail(todo[k]), k, e)
               /\ \/ e = Cells(k) /\ Tail(todo[k]) = <<>>
                  \/ n = 0 /\ m = 0 /\ e = 1
  <1>0. m <= n /\ n <= Cells(k) /\ Cells(k) \in Nat /\ Cells(k) >= 1
    BY PartsAreCuts DEF Underway
  <1>1. CASE todo[k] = <<Cut(k, n, Cells(k))>>
    <2>1. Head(todo[k]) = Cut(k, n, Cells(k)) /\ Tail(todo[k]) = <<>>
      BY <1>1
    <2>2. Len(Cut(k, n, Cells(k))) = Cells(k) - n
      BY <1>0, CutCells
    <2>3. Ahead(<<>>, k, Cells(k))
      BY DEF Ahead
    <2>4. Cells(k) <= Cells(k)
      BY <1>0
    <2> QED BY <1>0, <2>1, <2>2, <2>3, <2>4, Zenon
  <1>2. CASE n = 0 /\ todo[k] = <<Header(k), Payload(k)>>
    <2>1. Head(todo[k]) = Header(k) /\ Tail(todo[k]) = <<Payload(k)>> /\ Len(Header(k)) = 1
      BY <1>2 DEF Header
    <2>2. Ahead(Tail(todo[k]), k, 1)
      BY <2>1, PartsAreCuts DEF Ahead
    <2> QED BY <1>0, <1>2, <2>1, <2>2, PartsAreCuts
  <1> QED BY <1>1, <1>2 DEF Underway, Ahead

\* The part does not fit: so many cells go out, and that is what is left.
LEMMA Overflow ==
    ASSUME NEW k \in Senders, NEW m \in Nat, NEW n \in Nat, Underway(k, m, n),
           Len(buf) <= BufferSize, todo[k] # <<>>, Len(Head(todo[k])) > Room
    PROVE  \E o \in Nat :
               /\ m < o /\ o <= Cells(k)
               /\ Out(Head(todo[k])) = Cut(k, m, o)
               /\ Ahead(Rest(Head(todo[k])) \o Tail(todo[k]), k, o)
  <1> DEFINE C == Cells(k)  B == Len(buf)
  <1>1. m <= n /\ n <= C /\ buf = Cut(k, m, n) /\ C \in Nat
    BY PartsAreCuts DEF Underway
  <1>2. B = n - m
    BY <1>1, CutCells
  <1>3. Room = BufferSize - B /\ BufferSize \in Nat /\ BufferSize >= 1
    BY BufferAssumption DEF Room
  <1>4. PICK e \in Nat : /\ Head(todo[k]) = Cut(k, n, e)
                         /\ Len(Head(todo[k])) = e - n
                         /\ \/ e = C /\ Tail(todo[k]) = <<>>
                            \/ n = 0 /\ m = 0 /\ e = 1
    BY NextPart
  <1>5. B <= BufferSize /\ e - n > Room
    BY <1>4
  <1> HIDE DEF B
  <1>6. e = C /\ Tail(todo[k]) = <<>>
    BY <1>2, <1>3, <1>4, <1>5
  <1>7. PICK r \in Nat : r = Room
    BY <1>1, <1>2, <1>3, <1>5
  <1>8. PICK p \in Nat : p = n + r
    OBVIOUS
  <1>11. PICK l \in Nat : l = C - n /\ n + l = C
    BY <1>1
  <1>12. p < C /\ m <= p /\ n <= p /\ r <= l
    BY <1>1, <1>5, <1>6, <1>7, <1>8, <1>11
  <1>9. CASE buf = <<>>
    <2>1. B = 0
      BY <1>9 DEF B
    <2>2. m = n
      BY <1>1, <1>2, <2>1
    <2>3. /\ Out(Head(todo[k])) = Cut(k, m, C)
          /\ Rest(Head(todo[k])) \o Tail(todo[k]) = <<>>
      BY <1>4, <1>6, <1>9, <2>2 DEF Out, Rest
    <2>4. Ahead(<<>>, k, C)
      BY DEF Ahead
    <2>5. m < C /\ C <= C
      BY <1>1, <1>12, <2>2
    <2> QED BY <1>1, <2>3, <2>4, <2>5, Zenon
  <1>10. CASE buf # <<>>
    <2>1. m # n
      BY <1>1, <1>10 DEF Cut
    <2>2. /\ First(Head(todo[k]), Room) = Cut(k, n, p)
          /\ Behind(Head(todo[k]), Room) = Cut(k, p, C)
      <3>1. Room = p - n /\ n <= p /\ p <= C
        BY <1>1, <1>7, <1>8, <1>12
      <3>2. /\ First(Cut(k, n, C), p - n) = Cut(k, n, p)
            /\ Behind(Cut(k, n, C), p - n) = Cut(k, p, C)
        BY <1>1, <3>1, PartsOfCut
      <3> QED BY <1>4, <1>6, <3>1, <3>2, Zenon
    <2>4. Out(Head(todo[k])) = Cut(k, m, p)
      <3>1. Cut(k, m, n) \o Cut(k, n, p) = Cut(k, m, p)
        BY <1>1, <1>12, CutsMeet, ZenonT(60)
      <3> QED BY <1>1, <1>7, <1>10, <2>2, <3>1, Zenon DEF Out
    <2>5. Rest(Head(todo[k])) \o Tail(todo[k]) = <<Cut(k, p, C)>>
      <3>1. Rest(Head(todo[k])) = <<Cut(k, p, C)>>
        BY <1>10, <2>2, Zenon DEF Rest
      <3>2. <<Cut(k, p, C)>> \o <<>> = <<Cut(k, p, C)>>
        OBVIOUS
      <3> QED BY <1>6, <3>1, <3>2, Zenon
    <2>6. Ahead(<<Cut(k, p, C)>>, k, p)
      BY DEF Ahead
    <2>7. m < p /\ p <= C
      BY <1>1, <1>8, <1>12, <2>1
    <2> QED BY <1>8, <2>4, <2>5, <2>6, <2>7, Zenon
  <1> QED BY <1>9, <1>10

\* Before the writer breaks it hands over less than that.
LEMMA Broken ==
    ASSUME NEW k \in Senders, NEW m \in Nat, NEW o \in Nat, m < o,
           TakeSome(k, Cut(k, m, o))
    PROVE  \E b \in Nat : m <= b /\ b < o /\ Takes(k, m, b)
  <1>0. m <= o
    OBVIOUS
  <1>1. Len(Cut(k, m, o)) = o - m
    BY <1>0, CutCells
  <1>2. PICK x \in 0..(o - m - 1) :
            wire' = [wire EXCEPT ![conn] = @ \o First(Cut(k, m, o), x)]
    BY <1>1 DEF TakeSome
  <1>3. PICK b \in Nat : b = m + x /\ x = b - m /\ m <= b /\ b < o /\ b <= o
    BY <1>2
  <1>4. First(Cut(k, m, o), b - m) = Cut(k, m, b)
    BY <1>3, PartsOfCut
  <1> QED BY <1>2, <1>3, <1>4, Zenon DEF Takes

\* What a step of the holder that puts cells on the wire leaves true.
LEMMA AfterTake ==
    ASSUME SendInv, conn > 0, UNCHANGED conn,
           NEW k \in Senders, NEW m \in Nat, NEW n \in Nat, Underway(k, m, n),
           NEW b \in Nat, m <= b, b <= Cells(k), Takes(k, m, b)
    PROVE  /\ wire' \in [Conns -> Seq(OutCells)]
           /\ Wires'
           /\ Tip(wire'[conn], k, b)
           /\ Absent(k, b + 1)'
           /\ b < Cells(k) => Absent(k, Cells(k))'
           /\ \A q \in Senders, x \in Nat : q # k /\ Absent(q, x) => Absent(q, x)'
           /\ \A q \in Senders : (\E c \in Conns : Has(wire[c], q, Cells(q)))
                                 => \E c \in Conns : Has(wire'[c], q, Cells(q))
  <1>1. /\ SendTypes /\ Wires /\ Tip(wire[conn], k, m) /\ Absent(k, m + 1)
    BY DEF SendInv, Underway
  <1>2. /\ wire' \in [Conns -> Seq(OutCells)]
        /\ \A c \in Conns : InStep(wire'[c])
        /\ \A c \in Conns : c > conn => wire'[c] = <<>>
        /\ Tip(wire'[conn], k, b)
    BY <1>1, WiresTake
  <1>3. \A c \in Conns, q \in Senders, j \in Nat :
            Has(wire'[c], q, j) <=>
                Has(wire[c], q, j) \/ (c = conn /\ q = k /\ m + 1 <= j /\ j <= b)
    BY <1>1, WiresTake
  <1>4. Wires'
    BY <1>2 DEF Wires
  <1>5. Absent(k, b + 1)'
    BY <1>1, <1>3 DEF Absent
  <1>6. b < Cells(k) => Absent(k, Cells(k))'
    BY <1>5, PartsAreCuts DEF Absent, Cells
  <1>7. \A q \in Senders, x \in Nat : q # k /\ Absent(q, x) => Absent(q, x)'
    BY <1>3 DEF Absent
  <1>8. \A q \in Senders : (\E c \in Conns : Has(wire[c], q, Cells(q)))
                               => \E c \in Conns : Has(wire'[c], q, Cells(q))
    BY <1>3, PartsAreCuts
  <1> QED BY <1>2, <1>4, <1>5, <1>6, <1>7, <1>8

\* The parts that are left are parts.
LEMMA AheadTyped ==
    ASSUME NEW k \in Senders, NEW n \in Nat, n <= Cells(k), NEW parts, Ahead(parts, k, n)
    PROVE  parts \in Seq(Seq(OutCells))
  <1>1. \A a, b \in Nat : Cut(k, a, b) \in Seq(OutCells)
    BY DEF Cut, OutCells
  <1>2. /\ Cut(k, n, Cells(k)) \in Seq(OutCells)
        /\ Header(k) \in Seq(OutCells) /\ Payload(k) \in Seq(OutCells)
    BY <1>1, PartsAreCuts
  <1>3. CASE parts = <<>>
    BY <1>3
  <1>4. CASE parts = <<Cut(k, n, Cells(k))>>
    BY <1>2, <1>4
  <1>5. CASE parts = <<Header(k), Payload(k)>>
    BY <1>2, <1>5
  <1> QED BY <1>3, <1>4, <1>5 DEF Ahead

(***************************************************************************)
(* The steps of the senders.                                               *)
(***************************************************************************)
LEMMA SendInit == Init => SendInv
  <1> SUFFICES ASSUME Init PROVE SendInv
    OBVIOUS
  <1>1. SendTypes
    <2>1. <<>> \in Seq(OutCells) /\ <<>> \in Seq(Seq(OutCells)) /\ Len(<<>>) = 0
      OBVIOUS
    <2>2. 0 \in 0..MaxConns /\ 0 <= BufferSize
      BY BoundsAssumption, BufferAssumption
    <2>3. todo \in [Senders -> Seq(Seq(OutCells))] /\ wire \in [Conns -> Seq(OutCells)]
      BY <2>1 DEF Init
    <2> QED BY <2>1, <2>2, <2>3 DEF Init, SendTypes
  <1>2. Holding
    BY SendersAssumption DEF Init, Holding
  <1>3. Wires
    BY DEF Init, Wires, InStep
  <1>4. \A k \in Senders, i \in Nat : Absent(k, i)
    BY DEF Init, Absent, Has
  <1>5. Outcomes
    BY <1>4 DEF Init, Outcomes
  <1>6. Writer
    BY SendersAssumption DEF Init, Writer
  <1> QED BY <1>1, <1>2, <1>3, <1>5, <1>6 DEF SendInv

\* Steps of others change nothing but the state of the connection.
LEMMA SendFrame ==
    ASSUME SendInv, UNCHANGED <<conn, mu, pc, todo, buf, sticky, wire>>,
           broken' \in BOOLEAN, disconnected' \in {disconnected, TRUE}
    PROVE  SendInv'
  <1>1. SendTypes'
    BY DEF SendInv, SendTypes
  <1>2. Holding'
    BY DEF SendInv, Holding
  <1>3. Wires'
    BY DEF SendInv, Wires
  <1>4. Outcomes'
    BY DEF SendInv, Outcomes, Absent
  <1>5. Writer'
    BY DEF SendInv, Writer, Underway, Ahead, Absent
  <1> QED BY <1>1, <1>2, <1>3, <1>4, <1>5 DEF SendInv

LEMMA SendConnect == ASSUME SendInv, Connect PROVE SendInv'
  <1>1. /\ mu = Nobody /\ conn < MaxConns /\ conn' = conn + 1
        /\ broken' = FALSE /\ disconnected' = FALSE
        /\ buf' = <<>> /\ sticky' = FALSE
        /\ UNCHANGED <<mu, pc, todo, wire>>
    BY DEF Connect
  <1>2. conn \in Nat /\ conn + 1 \in Conns
    BY <1>1, BoundsAssumption DEF SendInv, SendTypes, Conns
  <1>3. SendTypes'
    <2>1. <<>> \in Seq(OutCells) /\ Len(<<>>) <= BufferSize
      BY BufferAssumption
    <2>2. conn' \in 0..MaxConns
      BY <1>1, <1>2, BoundsAssumption DEF Conns
    <2> QED BY <1>1, <2>1, <2>2 DEF SendInv, SendTypes
  <1>4. Holding'
    BY <1>1, <1>2 DEF SendInv, Holding
  <1>5. Wires'
    <2>1. \A c \in Conns : c > conn + 1 => c > conn
      BY <1>2 DEF Conns
    <2> QED BY <1>1, <2>1 DEF SendInv, Wires
  <1>6. Outcomes'
    BY <1>1 DEF SendInv, Outcomes, Absent
  <1>7. wire'[conn'] = <<>>
    BY <1>1, <1>2 DEF SendInv, Wires
  <1>8. Writer'
    BY <1>1, <1>7, SendersAssumption DEF Writer, AtEnd
  <1> QED BY <1>3, <1>4, <1>5, <1>6, <1>8 DEF SendInv

LEMMA SendCheck == ASSUME SendInv, NEW k \in Senders, Check(k) PROVE SendInv'
  <1>1. /\ pc[k] = "idle"
        /\ pc' = [pc EXCEPT ![k] = IF disconnected THEN "failed" ELSE "lock"]
        /\ UNCHANGED <<conn, broken, disconnected, mu, todo, buf, sticky, wire>>
    BY DEF Check, Goto
  <1>2. SendTypes'
    BY <1>1 DEF SendInv, SendTypes
  <1>3. \A q \in Senders : q # k => pc'[q] = pc[q]
    BY <1>1 DEF SendInv, SendTypes
  <1>4. pc'[k] \in {"failed", "lock"} /\ (pc'[k] = "lock" => ~disconnected)
    BY <1>1 DEF SendInv, SendTypes
  <1>5. Holding'
    BY <1>1, <1>3, <1>4 DEF SendInv, Holding
  <1>6. Wires'
    BY <1>1 DEF SendInv, Wires
  <1>7. Absent(k, 1) /\ Absent(k, Cells(k))
    BY <1>1, PartsAreCuts DEF SendInv, Outcomes, Absent
  <1>8. Outcomes'
    BY <1>1, <1>3, <1>4, <1>7 DEF SendInv, Outcomes, Absent
  <1>9. Writer'
    BY <1>1 DEF SendInv, Writer, Underway, Ahead, Absent
  <1> QED BY <1>2, <1>5, <1>6, <1>8, <1>9 DEF SendInv

LEMMA SendLock == ASSUME SendInv, NEW k \in Senders, Lock(k) PROVE SendInv'
  <1> DEFINE parts == IF PayloadSize[k] = 0 THEN <<Header(k)>> ELSE <<Header(k), Payload(k)>>
  <1>1. /\ pc[k] = "lock" /\ mu = Nobody /\ mu' = k
        /\ todo' = [todo EXCEPT ![k] = parts]
        /\ pc' = [pc EXCEPT ![k] = "write"]
        /\ UNCHANGED <<conn, broken, disconnected, buf, sticky, wire>>
    BY DEF Lock, Goto
  <1>2. Ahead(parts, k, 0)
    BY PartsAreCuts DEF Ahead, Cells
  <1>3. parts \in Seq(Seq(OutCells))
    <2>1. 0 \in Nat /\ 0 <= Cells(k)
      BY PartsAreCuts
    <2> HIDE DEF parts
    <2> QED BY <1>2, <2>1, AheadTyped, Zenon
  <1> HIDE DEF parts
  <1>4. SendTypes'
    BY <1>1, <1>3 DEF SendInv, SendTypes
  <1>5. pc'[k] = "write" /\ todo'[k] = parts /\ \A q \in Senders : q # k => pc'[q] = pc[q]
    BY <1>1 DEF SendInv, SendTypes
  <1>6. Holding'
    BY <1>1, <1>5, SendersAssumption DEF SendInv, Holding
  <1>7. Wires'
    BY <1>1 DEF SendInv, Wires
  <1>8. Absent(k, 1)
    BY <1>1 DEF SendInv, Outcomes
  <1>9. Outcomes'
    BY <1>1, <1>5, <1>8 DEF SendInv, Outcomes, Absent
  <1>10. ASSUME ~sticky PROVE Underway(k, 0, 0)'
    <2>1. buf = Cut(k, 0, 0) /\ AtEnd(wire[conn])
      BY <1>1, <1>10 DEF SendInv, Writer, Holding, Cut
    <2> QED BY <1>1, <1>2, <1>5, <1>8, <2>1, PartsAreCuts DEF Underway, Tip, Absent
  <1>11. Writer'
    BY <1>1, <1>10, SendersAssumption DEF Writer
  <1> QED BY <1>4, <1>6, <1>7, <1>9, <1>11 DEF SendInv

\* A write to a writer with an error.
LEMMA SendGivesUp ==
    ASSUME SendInv, NEW k \in Senders, pc[k] = "write", sticky, Fail(k),
           UNCHANGED <<conn, broken, disconnected, todo, buf, sticky, wire>>
    PROVE  SendInv'
  <1>1. pc' = [pc EXCEPT ![k] = "failed"] /\ mu' = Nobody /\ mu = k
    BY DEF Fail, Goto, SendInv, Holding
  <1>2. SendTypes'
    BY <1>1 DEF SendInv, SendTypes
  <1>3. pc'[k] = "failed" /\ \A q \in Senders : q # k => pc'[q] = pc[q]
    BY <1>1 DEF SendInv, SendTypes
  <1>4. Holding'
    BY <1>1, <1>3, SendersAssumption DEF SendInv, Holding
  <1>5. Wires'
    BY DEF SendInv, Wires
  <1>6. Absent(k, Cells(k))
    BY PartsAreCuts DEF SendInv, Outcomes, Absent
  <1>7. Outcomes'
    BY <1>3, <1>6 DEF SendInv, Outcomes, Absent
  <1>8. Writer'
    BY <1>1, SendersAssumption DEF Writer
  <1> QED BY <1>2, <1>4, <1>5, <1>7, <1>8 DEF SendInv

\* The connection breaks in the middle of a write.
LEMMA SendBreaks ==
    ASSUME SendInv, conn > 0, NEW k \in Senders, pc[k] = "write", ~sticky,
           NEW m \in Nat, NEW n \in Nat, Underway(k, m, n),
           NEW o \in Nat, m < o, o <= Cells(k), TakeSome(k, Cut(k, m, o)),
           UNCHANGED <<conn, broken, disconnected, todo, buf>>
    PROVE  SendInv' /\ Absent(k, Cells(k))'
  <1>1. pc' = [pc EXCEPT ![k] = "failed"] /\ mu' = Nobody /\ mu = k /\ sticky' = TRUE
    BY DEF TakeSome, Stick, Fail, Goto, SendInv, Holding
  <1>2. PICK b \in Nat : m <= b /\ b < o /\ Takes(k, m, b)
    BY Broken
  <1>3. b <= Cells(k) /\ b < Cells(k)
    BY <1>2, PartsAreCuts
  <1>4. /\ wire' \in [Conns -> Seq(OutCells)] /\ Wires'
        /\ Absent(k, Cells(k))'
        /\ \A q \in Senders, x \in Nat : q # k /\ Absent(q, x) => Absent(q, x)'
        /\ \A q \in Senders : (\E c \in Conns : Has(wire[c], q, Cells(q)))
                              => \E c \in Conns : Has(wire'[c], q, Cells(q))
    BY <1>2, <1>3, AfterTake
  <1>5. SendTypes'
    BY <1>1, <1>4 DEF SendInv, SendTypes
  <1>6. pc'[k] = "failed" /\ \A q \in Senders : q # k => pc'[q] = pc[q]
    BY <1>1 DEF SendInv, SendTypes
  <1>7. Holding'
    BY <1>1, <1>6, SendersAssumption DEF SendInv, Holding
  <1>8. Outcomes'
    <2>1. ASSUME NEW q \in Senders, pc'[q] \in {"idle", "lock"} PROVE Absent(q, 1)'
      BY <1>4, <1>6, <2>1 DEF SendInv, Outcomes
    <2>2. \A q \in Senders : pc'[q] # "write"
      BY <1>1, <1>6, SendersAssumption DEF SendInv, Holding
    <2>3. ASSUME NEW q \in Senders, pc'[q] = "failed" PROVE Absent(q, Cells(q))'
      BY <1>4, <1>6, <2>3, PartsAreCuts DEF SendInv, Outcomes
    <2>4. ASSUME NEW q \in Senders, pc'[q] = "sent"
          PROVE  \E c \in Conns : Has(wire'[c], q, Cells(q))
      BY <1>4, <1>6, <2>4 DEF SendInv, Outcomes
    <2> QED BY <2>1, <2>2, <2>3, <2>4 DEF Outcomes, Cells
  <1>9. Writer'
    BY <1>1, SendersAssumption DEF Writer
  <1> QED BY <1>4, <1>5, <1>7, <1>8, <1>9 DEF SendInv

\* A part fits the buffer.
LEMMA SendBuffers ==
    ASSUME SendInv, NEW k \in Senders, pc[k] = "write", ~sticky, todo[k] # <<>>,
           Len(Head(todo[k])) <= Room,
           buf' = buf \o Head(todo[k]),
           todo' = [todo EXCEPT ![k] = Tail(@)],
           UNCHANGED <<conn, broken, disconnected, mu, pc, sticky, wire>>
    PROVE  SendInv'
  <1>1. mu = k
    BY DEF SendInv, Holding
  <1>2. PICK m \in Nat, n \in Nat : Underway(k, m, n)
    BY <1>1 DEF SendInv, Writer
  <1>3. PICK e \in Nat : /\ n <= e /\ e <= Cells(k)
                         /\ Head(todo[k]) = Cut(k, n, e)
                         /\ Len(Head(todo[k])) = e - n
                         /\ Ahead(Tail(todo[k]), k, e)
    BY <1>2, NextPart
  <1>4. m <= n /\ m <= e /\ n <= Cells(k) /\ buf = Cut(k, m, n)
    BY <1>2, <1>3, PartsAreCuts DEF Underway
  <1>5. Len(buf) = n - m
    BY <1>4, CutCells
  <1>6. buf' = Cut(k, m, e)
    <2>1. Cut(k, m, n) \o Cut(k, n, e) = Cut(k, m, e)
      BY <1>3, <1>4, CutsMeet
    <2> QED BY <1>3, <1>4, <2>1
  <1>7. Len(Cut(k, m, e)) = e - m /\ Cut(k, m, e) \in Seq(OutCells)
    BY <1>4 DEF Cut, OutCells
  <1>8. e - m <= BufferSize
    BY <1>3, <1>5, BufferAssumption DEF Room
  <1>9. Tail(todo[k]) \in Seq(Seq(OutCells))
    BY <1>3, AheadTyped
  <1>10. SendTypes'
    BY <1>6, <1>7, <1>8, <1>9 DEF SendInv, SendTypes
  <1>11. Holding' /\ Wires' /\ Outcomes'
    BY DEF SendInv, Holding, Wires, Outcomes, Absent
  <1>12. todo'[k] = Tail(todo[k])
    BY DEF SendInv, SendTypes
  <1>13. Underway(k, m, e)'
    BY <1>2, <1>3, <1>4, <1>6, <1>12 DEF Underway, Absent
  <1>14. Writer'
    BY <1>1, <1>13, SendersAssumption DEF Writer
  <1> QED BY <1>10, <1>11, <1>14 DEF SendInv

\* A part does not fit: the buffer and as much as fits go out.
LEMMA SendGoesOut ==
    ASSUME SendInv, conn > 0, NEW k \in Senders, pc[k] = "write", ~sticky,
           NEW m \in Nat, NEW n \in Nat, Underway(k, m, n),
           NEW o \in Nat, m <= o, o <= Cells(k), Takes(k, m, o),
           NEW rest, Ahead(rest, k, o),
           buf' = <<>>, todo' = [todo EXCEPT ![k] = rest],
           UNCHANGED <<conn, broken, disconnected, mu, pc, sticky>>
    PROVE  SendInv'
  <1>1. mu = k
    BY DEF SendInv, Holding
  <1>2. /\ wire' \in [Conns -> Seq(OutCells)] /\ Wires' /\ Tip(wire'[conn], k, o)
        /\ Absent(k, o + 1)'
        /\ \A q \in Senders, x \in Nat : q # k /\ Absent(q, x) => Absent(q, x)'
        /\ \A q \in Senders : (\E c \in Conns : Has(wire[c], q, Cells(q)))
                              => \E c \in Conns : Has(wire'[c], q, Cells(q))
    BY AfterTake
  <1>3. rest \in Seq(Seq(OutCells))
    BY AheadTyped
  <1>4. SendTypes'
    BY <1>2, <1>3, BufferAssumption DEF SendInv, SendTypes
  <1>5. Holding'
    BY DEF SendInv, Holding
  <1>6. Outcomes'
    <2>1. ASSUME NEW q \in Senders, pc'[q] \in {"idle", "lock"} PROVE Absent(q, 1)'
      BY <1>2, <2>1 DEF SendInv, Outcomes
    <2>2. ASSUME NEW q \in Senders, pc'[q] = "failed" PROVE Absent(q, Cells(q))'
      BY <1>2, <2>2, PartsAreCuts DEF SendInv, Outcomes
    <2>3. ASSUME NEW q \in Senders, pc'[q] = "sent"
          PROVE  \E c \in Conns : Has(wire'[c], q, Cells(q))
      BY <1>2, <2>3 DEF SendInv, Outcomes
    <2> QED BY <2>1, <2>2, <2>3 DEF Outcomes, Cells
  <1>7. todo'[k] = rest
    BY DEF SendInv, SendTypes
  <1>8. Underway(k, o, o)'
    BY <1>2, <1>7 DEF Underway, Cells, Cut
  <1>9. Writer'
    BY <1>1, <1>8, SendersAssumption DEF Writer
  <1> QED BY <1>2, <1>4, <1>5, <1>6, <1>9 DEF SendInv

\* The rest goes out, and the mutex is free.
LEMMA SendEnds ==
    ASSUME SendInv, conn > 0, NEW k \in Senders, pc[k] = "write", ~sticky,
           NEW m \in Nat, NEW n \in Nat, Underway(k, m, n), n = Cells(k), Takes(k, m, n),
           buf' = <<>>, Goto(k, "sent"), mu' = Nobody,
           UNCHANGED <<conn, broken, disconnected, todo, sticky>>
    PROVE  SendInv'
  <1>1. mu = k /\ pc' = [pc EXCEPT ![k] = "sent"] /\ m <= n /\ n <= Cells(k)
    BY DEF Goto, SendInv, Holding, Underway
  <1>2. /\ wire' \in [Conns -> Seq(OutCells)] /\ Wires' /\ Tip(wire'[conn], k, n)
        /\ \A q \in Senders, x \in Nat : q # k /\ Absent(q, x) => Absent(q, x)'
        /\ \A q \in Senders : (\E c \in Conns : Has(wire[c], q, Cells(q)))
                              => \E c \in Conns : Has(wire'[c], q, Cells(q))
    BY <1>1, AfterTake
  <1>3. SendTypes'
    BY <1>1, <1>2, BufferAssumption DEF SendInv, SendTypes
  <1>4. pc'[k] = "sent" /\ \A q \in Senders : q # k => pc'[q] = pc[q]
    BY <1>1 DEF SendInv, SendTypes
  <1>5. Holding'
    BY <1>1, <1>4, SendersAssumption DEF SendInv, Holding
  <1>6. AtEnd(wire'[conn]) /\ \E c \in Conns : Has(wire'[c], k, Cells(k))
    <2>1. conn \in Conns
      BY <1>3, BoundsAssumption DEF SendTypes, Conns
    <2>2. Cells(k) \in Nat \ {0}
      BY PartsAreCuts
    <2>3. PICK v \in Seq(OutCells) : v = wire'[conn]
      BY <1>2, <2>1
    <2>4. v # <<>> /\ v[Len(v)] = <<k, Cells(k)>>
      BY <1>2, <2>2, <2>3 DEF Tip
    <2>5. AtEnd(v)
      BY <2>4 DEF AtEnd, EndsPacket
    <2>6. Len(v) \in DOMAIN v
      BY <2>3, <2>4
    <2> QED BY <2>1, <2>3, <2>4, <2>5, <2>6 DEF Has
  <1>7. Outcomes'
    <2>1. ASSUME NEW q \in Senders, pc'[q] \in {"idle", "lock"} PROVE Absent(q, 1)'
      BY <1>2, <1>4, <2>1 DEF SendInv, Outcomes
    <2>2. ASSUME NEW q \in Senders, pc'[q] = "failed" PROVE Absent(q, Cells(q))'
      BY <1>2, <1>4, <2>2, PartsAreCuts DEF SendInv, Outcomes
    <2>3. ASSUME NEW q \in Senders, pc'[q] = "sent"
          PROVE  \E c \in Conns : Has(wire'[c], q, Cells(q))
      BY <1>2, <1>4, <1>6, <2>3 DEF SendInv, Outcomes
    <2> QED BY <2>1, <2>2, <2>3 DEF Outcomes, Cells
  <1>8. Writer'
    BY <1>1, <1>6, SendersAssumption DEF Writer
  <1> QED BY <1>2, <1>3, <1>5, <1>7, <1>8 DEF SendInv

\* The connection there is while somebody writes.
LEMMA Connected ==
    ASSUME SendInv, NEW k \in Senders, pc[k] = "write"
    PROVE  conn > 0 /\ conn \in Conns /\ mu = k
  BY BoundsAssumption DEF SendInv, Holding, SendTypes, Conns

LEMMA SendWrite == ASSUME SendInv, NEW k \in Senders, Write(k) PROVE SendInv'
  <1>1. /\ pc[k] = "write" /\ todo[k] # <<>>
        /\ UNCHANGED <<conn, broken, disconnected>>
    BY DEF Write
  <1>2. conn > 0 /\ mu = k /\ Len(buf) <= BufferSize
    BY <1>1, Connected DEF SendInv, SendTypes
  <1>3. CASE sticky /\ Fail(k) /\ UNCHANGED <<todo, buf, sticky, wire>>
    BY <1>1, <1>3, SendGivesUp
  <1>4. CASE /\ ~sticky /\ Len(Head(todo[k])) <= Room
             /\ buf' = buf \o Head(todo[k])
             /\ todo' = [todo EXCEPT ![k] = Tail(@)]
             /\ UNCHANGED <<mu, pc, sticky, wire>>
    BY <1>1, <1>4, SendBuffers
  <1>5. ASSUME ~sticky, Len(Head(todo[k])) > Room
        PROVE  \E m, n, o \in Nat :
                   /\ Underway(k, m, n) /\ m < o /\ m <= o /\ o <= Cells(k)
                   /\ Out(Head(todo[k])) = Cut(k, m, o)
                   /\ Ahead(Rest(Head(todo[k])) \o Tail(todo[k]), k, o)
    <2>1. PICK m \in Nat, n \in Nat : Underway(k, m, n)
      BY <1>2, <1>5 DEF SendInv, Writer
    <2>2. PICK o \in Nat : /\ m < o /\ o <= Cells(k)
                           /\ Out(Head(todo[k])) = Cut(k, m, o)
                           /\ Ahead(Rest(Head(todo[k])) \o Tail(todo[k]), k, o)
      BY <1>1, <1>2, <1>5, <2>1, Overflow
    <2>3. m <= o
      BY <2>2
    <2> QED BY <2>1, <2>2, <2>3
  <1>6. CASE /\ ~sticky /\ Len(Head(todo[k])) > Room
             /\ TakeAll(Out(Head(todo[k])))
             /\ buf' = <<>>
             /\ todo' = [todo EXCEPT ![k] = Rest(Head(todo[k])) \o Tail(@)]
             /\ UNCHANGED <<mu, pc>>
    <2>1. PICK m \in Nat, n \in Nat, o \in Nat :
              /\ Underway(k, m, n) /\ m <= o /\ o <= Cells(k)
              /\ Out(Head(todo[k])) = Cut(k, m, o)
              /\ Ahead(Rest(Head(todo[k])) \o Tail(todo[k]), k, o)
      BY <1>5, <1>6
    <2>2. Takes(k, m, o) /\ UNCHANGED sticky
      BY <1>6, <2>1 DEF TakeAll, Takes
    <2> QED BY <1>1, <1>2, <1>6, <2>1, <2>2, SendGoesOut
  <1>7. CASE /\ ~sticky /\ Len(Head(todo[k])) > Room
             /\ TakeSome(k, Out(Head(todo[k])))
             /\ UNCHANGED <<todo, buf>>
    <2>1. PICK m \in Nat, n \in Nat, o \in Nat :
              /\ Underway(k, m, n) /\ m < o /\ o <= Cells(k)
              /\ Out(Head(todo[k])) = Cut(k, m, o)
      BY <1>5, <1>7
    <2>2. TakeSome(k, Cut(k, m, o))
      BY <1>7, <2>1
    <2> QED BY <1>1, <1>2, <1>7, <2>1, <2>2, SendBreaks
  <1> QED BY <1>3, <1>4, <1>6, <1>7 DEF Write

LEMMA SendFlush == ASSUME SendInv, NEW k \in Senders, Flush(k) PROVE SendInv'
  <1>1. /\ pc[k] = "write" /\ todo[k] = <<>>
        /\ UNCHANGED <<conn, broken, disconnected, todo>>
    BY DEF Flush
  <1>2. conn > 0 /\ mu = k
    BY <1>1, Connected
  <1>3. CASE sticky /\ Fail(k) /\ UNCHANGED <<buf, sticky, wire>>
    BY <1>1, <1>3, SendGivesUp
  <1>4. ASSUME ~sticky
        PROVE  \E m, n \in Nat : /\ Underway(k, m, n) /\ n = Cells(k) /\ buf = Cut(k, m, n)
                                 /\ n <= Cells(k) /\ (buf # <<>> => m < n)
    <2>1. PICK m \in Nat, n \in Nat : Underway(k, m, n)
      BY <1>2, <1>4 DEF SendInv, Writer
    <2>2. n = Cells(k) /\ m <= n /\ buf = Cut(k, m, n)
      BY <1>1, <2>1 DEF Underway, Ahead
    <2>3. buf # <<>> => m < n
      BY <2>2 DEF Cut
    <2> QED BY <2>1, <2>2, <2>3, PartsAreCuts
  <1>5. CASE ~sticky /\ TakeAll(buf) /\ buf' = <<>> /\ Goto(k, "sent") /\ mu' = Nobody
    <2>1. PICK m \in Nat, n \in Nat : Underway(k, m, n) /\ n = Cells(k) /\ buf = Cut(k, m, n)
      BY <1>4, <1>5
    <2>2. Takes(k, m, n) /\ UNCHANGED sticky
      BY <1>5, <2>1 DEF TakeAll, Takes
    <2> QED BY <1>1, <1>2, <1>5, <2>1, <2>2, SendEnds
  <1>6. CASE ~sticky /\ buf # <<>> /\ TakeSome(k, buf) /\ UNCHANGED buf
    <2>1. PICK m \in Nat, n \in Nat : /\ Underway(k, m, n) /\ buf = Cut(k, m, n)
                                      /\ n <= Cells(k) /\ m < n
      BY <1>4, <1>6
    <2>2. TakeSome(k, Cut(k, m, n))
      BY <1>6, <2>1
    <2> QED BY <1>1, <1>2, <1>6, <2>1, <2>2, SendBreaks
  <1> QED BY <1>3, <1>5, <1>6 DEF Flush

\* Every step preserves the invariant of the senders.
LEMMA SendStep == ASSUME SendInv, [Next]_vars PROVE SendInv'
  <1>0. broken \in BOOLEAN /\ disconnected \in BOOLEAN
    BY DEF SendInv, SendTypes
  <1>1. CASE Connect
    BY <1>1, SendConnect
  <1>2. CASE Break \/ Arrive \/ Listener \/ UNCHANGED vars
    <2>1. UNCHANGED <<conn, mu, pc, todo, buf, sticky, wire>>
      BY <1>2 DEF Break, Arrive, Listener, ReadCell, EndPart, ReadFails, ReadEnds, sendVars, vars
    <2>2. broken' \in BOOLEAN /\ disconnected' \in {disconnected, TRUE}
      BY <1>0, <1>2
      DEF Break, Arrive, Listener, ReadCell, EndPart, ReadFails, ReadEnds, vars
    <2> QED BY <2>1, <2>2, SendFrame
  <1>3. ASSUME NEW k \in Senders, Sender(k) PROVE SendInv'
    BY <1>3, SendCheck, SendLock, SendWrite, SendFlush DEF Sender
  <1> QED BY <1>1, <1>2, <1>3 DEF Next

(***************************************************************************)
(* The steps of the listener.                                              *)
(***************************************************************************)
\* Positions: what a cell more makes of one.
LEMMA Positioned ==
    ASSUME NEW p \in Positions
    PROVE  /\ p[1] \in 1..(MaxPackets + 1) /\ p[2] \in Nat /\ p = <<p[1], p[2]>>
           /\ p[1] <= MaxPackets => SizeIn[p[1]] \in Nat /\ p[2] < 3 + SizeIn[p[1]]
           /\ p[1] > MaxPackets => p[2] = 0
  BY BoundsAssumption, SizesAssumption DEF Positions

LEMMA Advances ==
    ASSUME NEW p \in Positions, p[1] <= MaxPackets
    PROVE  Advance(p) \in Positions
  <1>1. /\ p[1] \in 1..MaxPackets /\ p[2] \in Nat /\ SizeIn[p[1]] \in Nat
        /\ p[1] + 1 \in 1..(MaxPackets + 1) /\ MaxPackets \in Nat
    BY Positioned, BoundsAssumption
  <1>2. CASE p[2] + 1 < 3 + SizeIn[p[1]]
    <2>1. Advance(p) = <<p[1], p[2] + 1>>
      BY <1>2 DEF Advance
    <2> QED BY <1>1, <1>2, <2>1 DEF Positions
  <1>3. CASE ~(p[2] + 1 < 3 + SizeIn[p[1]])
    <2>1. Advance(p) = <<p[1] + 1, 0>>
      BY <1>3 DEF Advance
    <2>2. p[1] + 1 <= MaxPackets => SizeIn[p[1] + 1] \in Nat
      BY <1>1, SizesAssumption
    <2> QED BY <1>1, <2>1, <2>2 DEF Positions
  <1> QED BY <1>2, <1>3

\* libvirtd sends more: the listener is still not beyond it.
LEMMA SendsOn ==
    ASSUME NEW p \in Positions, NEW q \in Positions, q[1] <= MaxPackets, NotBeyond(p, q)
    PROVE  NotBeyond(p, Advance(q))
  <1>1. p[1] \in Nat /\ p[2] \in Nat /\ q[1] \in Nat /\ q[2] \in Nat
    BY Positioned
  <1>2. Advance(q) \in {<<q[1], q[2] + 1>>, <<q[1] + 1, 0>>}
    BY DEF Advance
  <1> QED BY <1>1, <1>2 DEF NotBeyond

\* Nor is it when it reads on.
LEMMA ReadsOn ==
    ASSUME NEW p \in Positions, NEW q \in Positions, NotBeyond(p, q), p # q
    PROVE  p[1] <= MaxPackets /\ NotBeyond(Advance(p), q)
  <1>1. /\ p[1] \in Nat /\ p[2] \in Nat /\ q[1] \in Nat /\ q[2] \in Nat /\ MaxPackets \in Nat
        /\ p[1] <= MaxPackets + 1 /\ q[1] <= MaxPackets + 1
        /\ (q[1] > MaxPackets => q[2] = 0)
    BY Positioned, BoundsAssumption
  <1>2. p[1] # q[1] \/ p[2] # q[2]
    BY Positioned
  <1>3. p[1] < q[1] \/ (p[1] = q[1] /\ p[2] < q[2])
    BY <1>1, <1>2 DEF NotBeyond
  <1>4. p[1] <= MaxPackets
    BY <1>1, <1>3
  <1>5. CASE p[1] < q[1]
    <2>1. Advance(p) \in {<<p[1], p[2] + 1>>, <<p[1] + 1, 0>>}
      BY DEF Advance
    <2> QED BY <1>1, <1>4, <1>5, <2>1 DEF NotBeyond
  <1>6. CASE p[1] = q[1] /\ p[2] < q[2]
    <2>1. SizeIn[p[1]] \in Nat /\ q[2] < 3 + SizeIn[p[1]]
      BY <1>4, <1>6, Positioned
    <2>2. Advance(p) = <<p[1], p[2] + 1>>
      BY <1>1, <1>6, <2>1 DEF Advance
    <2> QED BY <1>1, <1>4, <1>6, <2>2 DEF NotBeyond
  <1> QED BY <1>3, <1>5, <1>6

LEMMA StartPosition == Start \in Positions /\ NotBeyond(Start, Start)
  BY BoundsAssumption, SizesAssumption DEF Start, Positions, NotBeyond

LEMMA ReadTypesInit == Init => ReadTypes
  BY StartPosition DEF Init, ReadTypes

LEMMA ReadTypesStep ==
    ASSUME ReadTypes, [Next]_vars
    PROVE  ReadTypes'
  <1> USE DEF ReadTypes
  <1>1. CASE Connect
    BY <1>1, StartPosition DEF Connect, NewReader
  <1>2. CASE Arrive
    BY <1>2, Advances, SendsOn DEF Arrive, readVars
  <1>3. CASE ReadCell
    <2>1. /\ pos' = Advance(pos) /\ got' = Append(got, NextCell(pos)) /\ pos # sentIn
          /\ UNCHANGED <<sentIn, lpc, header, routed>>
      BY <1>3 DEF ReadCell
    <2>2. NextCell(pos) \in InCells
      BY Positioned DEF NextCell, InCells
    <2>3. Advance(pos) \in Positions /\ NotBeyond(Advance(pos), sentIn)
      BY <2>1, ReadsOn, Advances
    <2> QED BY <2>1, <2>2, <2>3
  <1>4. CASE EndPart
    <2>1. header \o got \in Seq(InCells)
      BY ConcatProperties
    <2>2. Append(routed, header \o got) \in Seq(Seq(InCells))
      BY <2>1, AppendProperties
    <2>3. header' \in {header, got} /\ routed' \in {routed, Append(routed, header \o got)}
      BY <1>4 DEF EndPart
    <2>4. got' = <<>> /\ lpc' \in {"length", "header", "payload"} /\ UNCHANGED <<sentIn, pos>>
      BY <1>4 DEF EndPart
    <2>5. header' \in Seq(InCells) /\ routed' \in Seq(Seq(InCells))
      BY <2>2, <2>3
    <2>6. got' \in Seq(InCells)
      BY <2>4
    <2> QED BY <2>4, <2>5, <2>6
  <1>5. CASE ReadFails
    BY <1>5 DEF ReadFails
  <1>6. CASE ReadEnds
    <2>1. NotBeyond(sentIn, sentIn)
      BY Positioned DEF NotBeyond
    <2>2. /\ pos' = sentIn /\ got' = <<>> /\ lpc' \in {"off", "length"}
          /\ UNCHANGED <<sentIn, header, routed>>
      BY <1>6 DEF ReadEnds
    <2> QED BY <2>1, <2>2
  <1>7. CASE Break \/ (\E k \in Senders : Sender(k)) \/ UNCHANGED vars
    BY <1>7 DEF Break, Sender, Check, Lock, Write, Flush, readVars, vars
  <1> QED BY <1>1, <1>2, <1>3, <1>4, <1>5, <1>6, <1>7 DEF Next, Listener

\* The connection, the writer and the listener have their types, the buffer of the writer
\* is never over-full, and the listener never reads beyond what has arrived (Connect,
\* SendPacket, listen).
THEOREM TypeCorrect == Spec => []TypeOK
  <1>1. SendInv /\ ReadTypes => TypeOK
    BY DEF SendInv, SendTypes, ReadTypes, TypeOK
  <1>2. Init => SendInv /\ ReadTypes
    BY SendInit, ReadTypesInit
  <1>3. SendInv /\ ReadTypes /\ [Next]_vars => (SendInv /\ ReadTypes)'
    BY SendStep, ReadTypesStep
  <1> QED BY <1>1, <1>2, <1>3, PTL DEF Spec

\* However reads fail, libvirtd is given whole packets one after the other (only the last
\* one of a connection may be cut off), none of them twice; SendPacket returns nil only if
\* its packet is among them, and an error only if it is not (SendPacket, bufio.Writer).
SentExactly ==
    /\ \A c \in Conns : InStep(wire[c])
    /\ \A k \in Senders :
           pc[k] = "sent" => \E c \in Conns : Has(wire[c], k, Cells(k))
    /\ \A k \in Senders :
           pc[k] = "failed" => \A c \in Conns : ~Has(wire[c], k, Cells(k))

THEOREM SentExactlyIfTaken == Spec => []SentExactly
  <1>1. SendInv => SentExactly
    BY PartsAreCuts DEF SendInv, Wires, Outcomes, Absent, SentExactly
  <1> QED BY <1>1, SendInit, SendStep, PTL DEF Spec

(***************************************************************************)
(* The listener reads packet after packet.                                 *)
(***************************************************************************)
\* One cell more of a cut.
LEMMA CutGrows ==
    ASSUME NEW n, NEW a \in Nat, NEW i \in Nat, a <= i
    PROVE  Append(Cut(n, a, i), <<n, i + 1>>) = Cut(n, a, i + 1)
  BY DEF Cut

\* The parts of a packet.
LEMMA PartsIn ==
    ASSUME NEW n \in 1..MaxPackets
    PROVE  /\ Cut(n, 0, 2) = LengthIn(n) /\ Cut(n, 2, 3) = HeaderIn(n)
           /\ Cut(n, 3, 3 + SizeIn[n]) = PayloadIn(n)
           /\ Promised(LengthIn(n)) = SizeIn[n]
           /\ SizeIn[n] \in Nat
  <1>1. SizeIn[n] \in Nat
    BY SizesAssumption
  <1>2. Cut(n, 0, 2) = LengthIn(n)
    BY DEF Cut, LengthIn
  <1>3. Cut(n, 2, 3) = HeaderIn(n)
    BY DEF Cut, HeaderIn
  <1>4. Cut(n, 3, 3 + SizeIn[n]) = PayloadIn(n)
    BY <1>1 DEF Cut, PayloadIn
  <1>5. Promised(LengthIn(n)) = SizeIn[n]
    BY DEF Promised, LengthIn
  <1> QED BY <1>1, <1>2, <1>3, <1>4, <1>5

LEMMA ListeningInit == Init => RoutedAsSent /\ Listening
  BY DEF Init, RoutedAsSent, Listening

\* Steps of others leave the listener where it is.
LEMMA ListeningFrame ==
    ASSUME Listening, UNCHANGED <<lpc, pos, got, size, header, routed>>,
           UNCHANGED <<broken, sentIn>> \/ ~broken
    PROVE  Listening'
  BY DEF Listening, Drained, Reading

LEMMA ListeningCell ==
    ASSUME ReadInv, ReadCell
    PROVE  Listening'
  <1>1. /\ lpc # "off" /\ Len(got) < Wanted /\ pos # sentIn
        /\ got' = Append(got, NextCell(pos)) /\ pos' = Advance(pos)
        /\ UNCHANGED <<lpc, size, header, routed>>
    BY DEF ReadCell
  <1> DEFINE n == Len(routed) + 1
  <1>2. n \in Nat /\ n >= 1
    BY DEF ReadInv, ReadTypes
  <1>3. PICK i \in Nat : Reading(n, i)
    BY <1>1 DEF ReadInv, Listening, Drained
  <1>4. pos \in Positions /\ pos[1] <= MaxPackets
    BY <1>1, ReadsOn DEF ReadInv, ReadTypes
  <1> HIDE DEF n
  <1>5. PICK N \in Nat : N = n /\ N >= 1
    BY <1>2
  <1>6. CASE lpc = "length"
    <2>1. i <= 2 /\ got = Cut(N, 0, i) /\ pos = <<N, i>>
      BY <1>3, <1>5, <1>6 DEF Reading
    <2>2. i < 2
      BY <1>1, <1>6, <2>1 DEF Wanted, Cut
    <2>3. N \in 1..MaxPackets /\ SizeIn[N] \in Nat
      BY <1>4, <1>5, <2>1, Positioned, BoundsAssumption
    <2>4. got' = Cut(N, 0, i + 1)
      <3>1. Append(Cut(N, 0, i), <<N, i + 1>>) = Cut(N, 0, i + 1)
        <4>1. 0 <= i
          OBVIOUS
        <4> QED BY <4>1, CutGrows
      <3> QED BY <1>1, <2>1, <3>1 DEF NextCell
    <2>5. pos' = <<N, i + 1>>
      BY <1>1, <2>1, <2>2, <2>3 DEF Advance
    <2>6. Reading(N, i + 1)'
      BY <1>1, <1>6, <2>2, <2>4, <2>5 DEF Reading
    <2> QED BY <1>1, <1>5, <2>6 DEF Listening, n
  <1>7. CASE lpc = "header"
    <2>1. /\ 2 <= i /\ i <= 3 /\ N \in 1..MaxPackets /\ size = SizeIn[N]
          /\ got = Cut(N, 2, i) /\ pos = After(N, i)
      BY <1>3, <1>5, <1>7, BoundsAssumption DEF Reading
    <2>2. i = 2
      BY <1>1, <1>7, <2>1 DEF Wanted, Cut
    <2>3. SizeIn[N] \in Nat /\ pos = <<N, 2>>
      BY <2>1, <2>2, SizesAssumption DEF After
    <2>4. got' = Cut(N, 2, 3)
      <3>1. Append(Cut(N, 2, i), <<N, i + 1>>) = Cut(N, 2, i + 1)
        BY <2>1, CutGrows
      <3> QED BY <1>1, <2>1, <2>2, <2>3, <3>1 DEF NextCell
    <2>5. pos' = After(N, 3)
      <3>1. pos' = IF 2 + 1 < 3 + SizeIn[N] THEN <<N, 2 + 1>> ELSE <<N + 1, 0>>
        BY <1>1, <2>3, Zenon DEF Advance
      <3>2. After(N, 3) = IF 3 = 3 + SizeIn[N] THEN <<N + 1, 0>> ELSE <<N, 3>>
        BY <2>1, BoundsAssumption DEF After
      <3>3. 2 + 1 = 3 /\ (3 < 3 + SizeIn[N] <=> 3 # 3 + SizeIn[N])
        BY <2>3
      <3> QED BY <3>1, <3>2, <3>3, Zenon
    <2>6. Reading(N, 3)'
      BY <1>1, <1>7, <2>1, <2>4, <2>5 DEF Reading
    <2> QED BY <1>1, <1>5, <2>6 DEF Listening, n
  <1>8. CASE lpc = "payload"
    <2>1. /\ 3 <= i /\ i <= 3 + SizeIn[N] /\ N \in 1..MaxPackets /\ size = SizeIn[N]
          /\ header = HeaderIn(N)
          /\ got = Cut(N, 3, i) /\ pos = After(N, i)
      BY <1>3, <1>5, <1>8, BoundsAssumption DEF Reading
    <2>2. SizeIn[N] \in Nat
      BY <2>1, SizesAssumption
    <2>3. Len(got) = i - 3
      BY <2>1, CutCells
    <2>4. i < 3 + SizeIn[N]
      BY <1>1, <1>8, <2>1, <2>2, <2>3 DEF Wanted
    <2>5. pos = <<N, i>>
      BY <2>1, <2>2, <2>4 DEF After
    <2>6. got' = Cut(N, 3, i + 1)
      <3>1. Append(Cut(N, 3, i), <<N, i + 1>>) = Cut(N, 3, i + 1)
        BY <2>1, CutGrows
      <3> QED BY <1>1, <2>1, <2>5, <3>1 DEF NextCell
    <2>7. pos' = After(N, i + 1)
      <3>1. pos' = IF i + 1 < 3 + SizeIn[N] THEN <<N, i + 1>> ELSE <<N + 1, 0>>
        BY <1>1, <2>5, Zenon DEF Advance
      <3>2. After(N, i + 1) = IF i + 1 = 3 + SizeIn[N] THEN <<N + 1, 0>> ELSE <<N, i + 1>>
        BY <2>1, BoundsAssumption DEF After
      <3>3. i + 1 < 3 + SizeIn[N] <=> i + 1 # 3 + SizeIn[N]
        BY <2>2, <2>4
      <3> QED BY <3>1, <3>2, <3>3, Zenon
    <2>8. Reading(N, i + 1)'
      BY <1>1, <1>8, <2>1, <2>2, <2>4, <2>6, <2>7 DEF Reading
    <2> QED BY <1>1, <1>5, <2>8 DEF Listening, n
  <1> QED BY <1>1, <1>6, <1>7, <1>8 DEF ReadInv, ReadTypes

\* No cells make an empty cut.
LEMMA EmptyCut == ASSUME NEW n, NEW a \in Nat PROVE Cut(n, a, a) = <<>>
  BY DEF Cut

LEMMA ListeningPart ==
    ASSUME ReadInv, EndPart
    PROVE  RoutedAsSent' /\ Listening'
  <1>1. lpc # "off" /\ Len(got) = Wanted /\ got' = <<>> /\ UNCHANGED pos
    BY DEF EndPart
  <1>2. PICK N \in Nat : N = Len(routed) + 1 /\ N >= 1
    BY DEF ReadInv, ReadTypes
  <1>3. PICK i \in Nat : Reading(N, i)
    <2>1. ~Drained
      BY <1>1 DEF Drained, Wanted
    <2> QED BY <1>1, <1>2, <2>1 DEF ReadInv, Listening
  <1>4. CASE lpc = "length" /\ size' = Promised(got) /\ lpc' = "header"
             /\ UNCHANGED <<header, routed>>
    <2>1. i <= 2 /\ got = Cut(N, 0, i) /\ pos = <<N, i>> /\ Len(got) = 2
      BY <1>1, <1>3, <1>4 DEF Reading, Wanted
    <2>2. i = 2
      BY <2>1 DEF Cut
    <2>3. N \in 1..MaxPackets
      <3>1. pos \in Positions /\ pos[1] = N /\ pos[2] = 2
        BY <2>1, <2>2 DEF ReadInv, ReadTypes
      <3> QED BY <1>2, <3>1, Positioned, BoundsAssumption
    <2>4. size' = SizeIn[N] /\ SizeIn[N] \in Nat
      BY <1>4, <2>1, <2>2, <2>3, PartsIn
    <2>5. got' = Cut(N, 2, 2)
      BY <1>1, EmptyCut
    <2>6. After(N, 2) = <<N, 2>>
      BY <2>4 DEF After
    <2>7. Reading(N, 2)'
      BY <1>1, <1>4, <2>1, <2>2, <2>3, <2>4, <2>5, <2>6 DEF Reading, After
    <2> QED BY <1>2, <1>4, <2>7 DEF ReadInv, RoutedAsSent, Listening
  <1>5. CASE lpc = "header" /\ header' = got /\ lpc' = "payload"
             /\ UNCHANGED <<size, routed>>
    <2>1. /\ 2 <= i /\ i <= 3 /\ N \in 1..MaxPackets /\ size = SizeIn[N]
          /\ got = Cut(N, 2, i) /\ pos = After(N, i) /\ Len(got) = 1
      BY <1>1, <1>2, <1>3, <1>5, BoundsAssumption DEF Reading, Wanted
    <2>2. i = 3
      BY <2>1 DEF Cut
    <2>3. header' = HeaderIn(N) /\ SizeIn[N] \in Nat
      BY <1>5, <2>1, <2>2, PartsIn
    <2>4. got' = Cut(N, 3, 3)
      BY <1>1, EmptyCut
    <2>5. Reading(N, 3)'
      BY <1>1, <1>5, <2>1, <2>2, <2>3, <2>4 DEF Reading, After
    <2> QED BY <1>2, <1>5, <2>5 DEF ReadInv, RoutedAsSent, Listening
  <1>6. CASE lpc = "payload" /\ routed' = Append(routed, header \o got) /\ lpc' = "length"
             /\ UNCHANGED <<size, header>>
    <2>1. /\ 3 <= i /\ N \in 1..MaxPackets /\ size = SizeIn[N] /\ header = HeaderIn(N)
          /\ got = Cut(N, 3, i) /\ pos = After(N, i) /\ Len(got) = size
      BY <1>1, <1>2, <1>3, <1>6, BoundsAssumption DEF Reading, Wanted
    <2>2. i = 3 + SizeIn[N] /\ SizeIn[N] \in Nat
      <3>1. SizeIn[N] \in Nat
        BY <2>1, SizesAssumption
      <3>2. Len(got) = i - 3
        BY <2>1, CutCells
      <3> QED BY <2>1, <3>1, <3>2
    <2>3. header \o got = HeaderIn(N) \o PayloadIn(N)
      BY <2>1, <2>2, PartsIn
    <2>4. pos = <<N + 1, 0>>
      BY <2>1, <2>2 DEF After
    <2>5. /\ routed \in Seq(Seq(InCells)) /\ header \o got \in Seq(InCells)
      BY ConcatProperties DEF ReadInv, ReadTypes
    <2>6. /\ Len(routed') = N /\ routed'[N] = HeaderIn(N) \o PayloadIn(N)
          /\ DOMAIN routed' = 1..N
          /\ \A x \in 1..(N - 1) : routed'[x] = routed[x]
      BY <1>2, <1>6, <2>3, <2>5, AppendProperties
    <2>7. RoutedAsSent'
      <3>1. ASSUME NEW x \in 1..N PROVE routed'[x] = HeaderIn(x) \o PayloadIn(x)
        <4>1. CASE x = N
          BY <2>6, <4>1
        <4>2. CASE x # N
          <5>1. x \in 1..(N - 1) /\ x \in DOMAIN routed
            BY <1>2, <2>5, <4>2
          <5> QED BY <2>6, <5>1 DEF ReadInv, RoutedAsSent
        <4> QED BY <4>1, <4>2
      <3> QED BY <2>6, <3>1 DEF RoutedAsSent
    <2>8. got' = Cut(N + 1, 0, 0)
      BY <1>1, EmptyCut
    <2>9. Reading(N + 1, 0)'
      BY <1>1, <1>6, <2>4, <2>8 DEF Reading
    <2> QED BY <2>6, <2>7, <2>9 DEF Listening
  <1> QED BY <1>4, <1>5, <1>6 DEF EndPart

\* Every step preserves the invariant of the listener, if reads fail in the middle of
\* a packet only on a connection that has ended.
LEMMA ReadStep ==
    ASSUME ~TimeoutsInPackets, ReadInv, [Next]_vars
    PROVE  ReadInv'
  <1>1. ReadTypes'
    BY ReadTypesStep DEF ReadInv
  <1> SUFFICES RoutedAsSent' /\ Listening'
    BY <1>1 DEF ReadInv
  <1>2. ASSUME UNCHANGED <<lpc, pos, got, size, header, routed>>,
               UNCHANGED <<broken, sentIn>> \/ ~broken
        PROVE  RoutedAsSent' /\ Listening'
    BY <1>2, ListeningFrame DEF ReadInv, RoutedAsSent
  <1>3. CASE Connect
    <2>1. lpc' = "length" /\ got' = <<>> /\ pos' = <<1, 0>> /\ routed' = <<>>
      BY <1>3 DEF Connect, NewReader, Start
    <2>2. got' = Cut(1, 0, 0)
      BY <2>1, EmptyCut
    <2>3. Reading(1, 0)'
      BY <2>1, <2>2 DEF Reading
    <2>4. Len(routed') + 1 = 1 /\ RoutedAsSent'
      BY <2>1 DEF RoutedAsSent
    <2> QED BY <2>3, <2>4 DEF Listening
  <1>4. CASE Break
    BY <1>2, <1>4 DEF Break, readVars
  <1>5. CASE Arrive
    BY <1>2, <1>5 DEF Arrive, readVars
  <1>6. CASE ReadCell
    BY <1>6, ListeningCell DEF ReadCell, ReadInv, RoutedAsSent
  <1>7. CASE EndPart
    BY <1>7, ListeningPart
  <1>8. CASE ReadFails
    <2>1. CASE lpc = "length" /\ got = <<>>
      BY <1>2, <1>8, <2>1 DEF ReadFails
    <2>2. CASE broken
      BY <1>8, <2>2 DEF ReadFails, ReadInv, RoutedAsSent, Listening, Drained
    <2> QED BY <1>8, <2>1, <2>2 DEF ReadFails
  <1>9. CASE ReadEnds
    BY <1>9 DEF ReadEnds, ReadInv, RoutedAsSent, Listening, Drained
  <1>10. CASE (\E k \in Senders : Sender(k)) \/ UNCHANGED vars
    BY <1>2, <1>10 DEF Sender, Check, Lock, Write, Flush, readVars, vars
  <1> QED
    BY <1>3, <1>4, <1>5, <1>6, <1>7, <1>8, <1>9, <1>10 DEF Next, Listener

(***************************************************************************)
(* The refinement of PacketPipe.                                           *)
(***************************************************************************)
\* What the variables of PacketPipe stand for.
Taken == [c \in Conns |-> Whole(wire[c])]
Told == [k \in Senders |-> IF pc[k] \in {"lock", "write"} THEN "sending" ELSE pc[k]]
Passed == IF RoutedAsSent THEN Len(routed) ELSE -1

\* Each step of PacketPipe, said of these.
LEMMA PipeDelivers ==
    ASSUME NEW k \in Senders, conn > 0, Told[k] = "sending",
           \A c \in Conns : k \notin Taken[c],
           Taken' = [Taken EXCEPT ![conn] = @ \cup {k}],
           Told' \in {Told, [Told EXCEPT ![k] = "sent"]},
           UNCHANGED <<conn, Passed>>
    PROVE  Pipe!Next
  BY DEF Pipe!Next, Pipe!Deliver, Pipe!Delivered, Taken, Told, Passed, Conns

LEMMA PipeFinishes ==
    ASSUME NEW k \in Senders, Told[k] = "sending",
           \/ /\ \E c \in Conns : k \in Taken[c]
              /\ Told' = [Told EXCEPT ![k] = "sent"]
           \/ /\ \A c \in Conns : k \notin Taken[c]
              /\ Told' = [Told EXCEPT ![k] = "failed"],
           UNCHANGED <<conn, Taken, Passed>>
    PROVE  Pipe!Next
  BY DEF Pipe!Next, Pipe!Finish, Pipe!Delivered, Taken, Told, Passed, Conns

LEMMA PipeBegins ==
    ASSUME NEW k \in Senders, Told[k] = "idle",
           Told' \in {[Told EXCEPT ![k] = "sending"], [Told EXCEPT ![k] = "failed"]},
           UNCHANGED <<conn, Taken, Passed>>
    PROVE  Pipe!Next
  BY DEF Pipe!Next, Pipe!Begin, Taken, Told, Passed

LEMMA PipeConnects ==
    ASSUME conn < MaxConns, conn' = conn + 1, Passed' = 0, UNCHANGED <<Taken, Told>>
    PROVE  Pipe!Next
  BY DEF Pipe!Next, Pipe!Connect, Taken, Told, Passed

LEMMA PipeRoutes ==
    ASSUME Passed' = Passed + 1, UNCHANGED <<conn, Taken, Told>>
    PROVE  Pipe!Next
  BY DEF Pipe!Next, Pipe!Route, Taken, Told, Passed

LEMMA PipeStutters ==
    ASSUME UNCHANGED <<conn, Taken, Told, Passed>>
    PROVE  UNCHANGED Pipe!vars
  BY DEF Pipe!vars, Taken, Told, Passed

\* A packet whose last cell is on a connection has been taken by it.
LEMMA TakenOnes ==
    ASSUME Wires
    PROVE  \A c \in Conns, k \in Senders : k \in Taken[c] <=> Has(wire[c], k, Cells(k))
  BY DEF Wires, Taken, Whole, Has

LEMMA NotTaken ==
    ASSUME Wires, NEW k \in Senders, NEW i \in Nat, Absent(k, i), i <= Cells(k)
    PROVE  \A c \in Conns : k \notin Taken[c]
  <1>1. \A c \in Conns : ~Has(wire[c], k, Cells(k))
    BY PartsAreCuts DEF Absent
  <1> QED BY <1>1, TakenOnes

\* Two connections' worth of packets are the same if they have the same members.
LEMMA TakenExtends ==
    ASSUME NEW F, NEW G, NEW S,
           F = [c \in Conns |-> F[c]], G = [c \in Conns |-> G[c]],
           \A c \in Conns : F[c] \subseteq S /\ G[c] \subseteq S,
           \A c \in Conns, k \in S : k \in F[c] <=> k \in G[c]
    PROVE  F = G
  <1>1. \A c \in Conns : F[c] = G[c]
    OBVIOUS
  <1> QED BY <1>1

\* What a step of the holder makes of them.
LEMMA TakenAfter ==
    ASSUME SendInv, conn > 0, UNCHANGED conn,
           NEW k \in Senders, NEW m \in Nat, NEW n \in Nat, Underway(k, m, n),
           NEW b \in Nat, m <= b, b <= Cells(k), Takes(k, m, b)
    PROVE  /\ m < Cells(k) => \A c \in Conns : k \notin Taken[c]
           /\ m = Cells(k) => \E c \in Conns : k \in Taken[c]
           /\ b < Cells(k) \/ m = Cells(k) => Taken' = Taken
           /\ b = Cells(k) /\ m < Cells(k) =>
                  Taken' = [Taken EXCEPT ![conn] = @ \cup {k}]
  <1>1. /\ SendTypes /\ Wires /\ Tip(wire[conn], k, m) /\ Absent(k, m + 1)
        /\ Cells(k) \in Nat \ {0}
    BY PartsAreCuts DEF SendInv, Underway
  <1>2. Wires'
    BY AfterTake
  <1>3. \A c \in Conns, q \in Senders, j \in Nat :
            Has(wire'[c], q, j) <=>
                Has(wire[c], q, j) \/ (c = conn /\ q = k /\ m + 1 <= j /\ j <= b)
    BY <1>1, WiresTake
  <1>4. \A c \in Conns, q \in Senders : q \in Taken[c] <=> Has(wire[c], q, Cells(q))
    BY <1>1, TakenOnes
  <1>5. \A c \in Conns, q \in Senders : q \in Taken'[c] <=> Has(wire'[c], q, Cells(q))
    BY <1>2 DEF Wires, Taken, Whole, Has
  <1>6. \A q \in Senders : Cells(q) \in Nat
    BY PartsAreCuts
  <1>7. \A c \in Conns, q \in Senders :
            q \in Taken'[c] <=> q \in Taken[c] \/ (c = conn /\ q = k /\ m < Cells(k) /\ Cells(k) <= b)
    BY <1>3, <1>4, <1>5, <1>6
  <1>8. conn \in Conns
    BY BoundsAssumption DEF SendInv, SendTypes, Conns
  <1>9. m < Cells(k) => \A c \in Conns : k \notin Taken[c]
    BY <1>1, NotTaken
  <1>10. m = Cells(k) => \E c \in Conns : k \in Taken[c]
    <2> SUFFICES ASSUME m = Cells(k) PROVE k \in Taken[conn]
      BY <1>8
    <2>1. PICK w \in Seq(OutCells) : w = wire[conn]
      BY <1>1, <1>8 DEF SendTypes
    <2>2. w # <<>> /\ w[Len(w)] = <<k, Cells(k)>>
      BY <1>1, <2>1 DEF Tip
    <2>3. Len(w) \in DOMAIN w
      BY <2>2
    <2> QED BY <1>4, <1>8, <2>1, <2>2, <2>3 DEF Has
  <1>11. \A c \in Conns : Taken[c] \subseteq Senders /\ Taken'[c] \subseteq Senders
    BY <1>1, <1>2 DEF Wires, Taken, Whole
  <1>12. Taken = [c \in Conns |-> Taken[c]] /\ Taken' = [c \in Conns |-> Taken'[c]]
    BY DEF Taken
  <1>13. b < Cells(k) \/ m = Cells(k) => Taken' = Taken
    <2> SUFFICES ASSUME b < Cells(k) \/ m = Cells(k) PROVE Taken' = Taken
      OBVIOUS
    <2>1. \A c \in Conns, q \in Senders : q \in Taken'[c] <=> q \in Taken[c]
      BY <1>1, <1>7
    <2> QED BY <1>11, <1>12, <2>1, TakenExtends
  <1>14. b = Cells(k) /\ m < Cells(k) => Taken' = [Taken EXCEPT ![conn] = @ \cup {k}]
    <2> SUFFICES ASSUME b = Cells(k), m < Cells(k)
                 PROVE  Taken' = [Taken EXCEPT ![conn] = @ \cup {k}]
      OBVIOUS
    <2> DEFINE G == [Taken EXCEPT ![conn] = @ \cup {k}]
    <2>1. G = [c \in Conns |-> G[c]]
      BY <1>12
    <2>2. \A c \in Conns : G[c] = IF c = conn THEN Taken[c] \cup {k} ELSE Taken[c]
      BY <1>8, <1>12
    <2> HIDE DEF G
    <2>3. \A c \in Conns, q \in Senders : q \in Taken'[c] <=> q \in G[c]
      BY <1>1, <1>7, <2>2
    <2>4. \A c \in Conns : G[c] \subseteq Senders
      BY <1>11, <2>2
    <2>5. Taken' = G
      BY <1>11, <1>12, <2>1, <2>3, <2>4, TakenExtends
    <2> QED BY <2>5 DEF G
  <1> QED BY <1>9, <1>10, <1>13, <1>14

\* Steps that leave the wires and the callers as they are deliver nothing.
LEMMA PipeWaits ==
    ASSUME UNCHANGED <<conn, pc, wire>>
    PROVE  UNCHANGED <<conn, Taken, Told>>
  BY DEF Taken, Told

\* Where a caller goes.
LEMMA ToldGoes ==
    ASSUME SendTypes, NEW k \in Senders, NEW l, pc' = [pc EXCEPT ![k] = l]
    PROVE  Told' = [Told EXCEPT ![k] = IF l \in {"lock", "write"} THEN "sending" ELSE l]
  BY DEF SendTypes, Told

\* A caller whose packet is on no connection is told so.
LEMMA PipeFails ==
    ASSUME SendTypes, NEW k \in Senders, pc[k] = "write", Fail(k),
           \A c \in Conns : k \notin Taken[c], UNCHANGED <<conn, Taken, Passed>>
    PROVE  Pipe!Next
  <1>1. Told' = [Told EXCEPT ![k] = "failed"]
    BY ToldGoes DEF Fail, Goto
  <1>2. Told[k] = "sending"
    BY DEF Told
  <1> QED BY <1>1, <1>2, PipeFinishes

\* The connection breaks in the middle of a write.
LEMMA PipeBreaks ==
    ASSUME SendInv, conn > 0, NEW k \in Senders, pc[k] = "write",
           NEW m \in Nat, NEW n \in Nat, Underway(k, m, n),
           NEW o \in Nat, m < o, o <= Cells(k), TakeSome(k, Cut(k, m, o)),
           UNCHANGED <<conn, Passed>>
    PROVE  Pipe!Next
  <1>1. PICK b \in Nat : m <= b /\ b < o /\ Takes(k, m, b)
    BY Broken
  <1>2. b <= Cells(k) /\ b < Cells(k) /\ m < Cells(k)
    BY <1>1, PartsAreCuts
  <1>3. (\A c \in Conns : k \notin Taken[c]) /\ Taken' = Taken
    BY <1>1, <1>2, TakenAfter
  <1>4. SendTypes /\ Fail(k)
    BY DEF SendInv, TakeSome
  <1> QED BY <1>3, <1>4, PipeFails

\* The writer has an error.
LEMMA PipeGivesUp ==
    ASSUME SendInv, NEW k \in Senders, pc[k] = "write", sticky, Fail(k),
           UNCHANGED <<conn, wire, Passed>>
    PROVE  Pipe!Next
  <1>1. SendTypes /\ Wires /\ Absent(k, 1) /\ 1 <= Cells(k)
    BY PartsAreCuts DEF SendInv, Outcomes
  <1>2. \A c \in Conns : k \notin Taken[c]
    BY <1>1, NotTaken
  <1>3. UNCHANGED Taken
    BY DEF Taken
  <1> QED BY <1>1, <1>2, <1>3, PipeFails

LEMMA PipeWrite ==
    ASSUME SendInv, NEW k \in Senders, Write(k), UNCHANGED Passed
    PROVE  Pipe!Next \/ UNCHANGED Pipe!vars
  <1>1. /\ pc[k] = "write" /\ todo[k] # <<>> /\ UNCHANGED conn
    BY DEF Write
  <1>2. conn > 0 /\ conn \in Conns /\ mu = k /\ Len(buf) <= BufferSize
    BY <1>1, Connected DEF SendInv, SendTypes
  <1>3. CASE sticky /\ Fail(k) /\ UNCHANGED wire
    BY <1>1, <1>3, PipeGivesUp
  <1>4. CASE UNCHANGED <<pc, wire>>
    BY <1>1, <1>4, PipeWaits, PipeStutters
  <1>5. ASSUME ~sticky, Len(Head(todo[k])) > Room
        PROVE  \E m, n, o \in Nat : /\ Underway(k, m, n) /\ m < o /\ m <= o /\ o <= Cells(k)
                                    /\ Out(Head(todo[k])) = Cut(k, m, o)
    <2>1. PICK m \in Nat, n \in Nat : Underway(k, m, n)
      BY <1>2, <1>5 DEF SendInv, Writer
    <2>2. PICK o \in Nat : /\ m < o /\ o <= Cells(k)
                           /\ Out(Head(todo[k])) = Cut(k, m, o)
      BY <1>1, <1>2, <1>5, <2>1, Overflow
    <2>3. m <= o
      BY <2>2
    <2> QED BY <2>1, <2>2, <2>3
  <1>6. CASE /\ ~sticky /\ Len(Head(todo[k])) > Room
             /\ TakeAll(Out(Head(todo[k]))) /\ UNCHANGED pc
    <2>1. PICK m \in Nat, n \in Nat, o \in Nat :
              /\ Underway(k, m, n) /\ m < o /\ m <= o /\ o <= Cells(k)
              /\ Out(Head(todo[k])) = Cut(k, m, o)
      BY <1>5, <1>6
    <2>2. Takes(k, m, o)
      BY <1>6, <2>1 DEF TakeAll, Takes
    <2>3. Told[k] = "sending" /\ UNCHANGED Told
      BY <1>1, <1>6 DEF Told
    <2>4. /\ m < Cells(k) => \A c \in Conns : k \notin Taken[c]
          /\ o < Cells(k) \/ m = Cells(k) => Taken' = Taken
          /\ o = Cells(k) /\ m < Cells(k) => Taken' = [Taken EXCEPT ![conn] = @ \cup {k}]
      BY <1>1, <1>2, <2>1, <2>2, TakenAfter
    <2>5. CASE o < Cells(k)
      BY <1>1, <2>3, <2>4, <2>5, PipeStutters
    <2>6. CASE o = Cells(k)
      <3>1. m < Cells(k)
        BY <2>1, <2>6
      <3> QED BY <1>1, <1>2, <2>3, <2>4, <2>6, <3>1, PipeDelivers
    <2> QED BY <2>1, <2>5, <2>6, PartsAreCuts
  <1>7. CASE /\ ~sticky /\ Len(Head(todo[k])) > Room
             /\ TakeSome(k, Out(Head(todo[k])))
    <2>1. PICK m \in Nat, n \in Nat, o \in Nat :
              /\ Underway(k, m, n) /\ m < o /\ o <= Cells(k)
              /\ Out(Head(todo[k])) = Cut(k, m, o)
      BY <1>5, <1>7
    <2>2. TakeSome(k, Cut(k, m, o))
      BY <1>7, <2>1
    <2> QED BY <1>1, <1>2, <2>1, <2>2, PipeBreaks
  <1> QED BY <1>3, <1>4, <1>6, <1>7 DEF Write

LEMMA PipeFlush ==
    ASSUME SendInv, NEW k \in Senders, Flush(k), UNCHANGED Passed
    PROVE  Pipe!Next
  <1>1. /\ pc[k] = "write" /\ todo[k] = <<>> /\ UNCHANGED conn
    BY DEF Flush
  <1>2. conn > 0 /\ mu = k
    BY <1>1, Connected
  <1>3. CASE sticky /\ Fail(k) /\ UNCHANGED wire
    BY <1>1, <1>3, PipeGivesUp
  <1>4. ASSUME ~sticky
        PROVE  \E m, n \in Nat : /\ Underway(k, m, n) /\ n = Cells(k) /\ buf = Cut(k, m, n)
                                 /\ m <= n /\ n <= Cells(k) /\ (buf # <<>> => m < n)
    <2>1. PICK m \in Nat, n \in Nat : Underway(k, m, n)
      BY <1>2, <1>4 DEF SendInv, Writer
    <2>2. n = Cells(k) /\ m <= n /\ buf = Cut(k, m, n)
      BY <1>1, <2>1 DEF Underway, Ahead
    <2>3. buf # <<>> => m < n
      BY <2>2 DEF Cut
    <2> QED BY <2>1, <2>2, <2>3, PartsAreCuts
  <1>5. CASE ~sticky /\ TakeAll(buf) /\ Goto(k, "sent")
    <2>1. PICK m \in Nat, n \in Nat : /\ Underway(k, m, n) /\ n = Cells(k) /\ m <= n
                                      /\ n <= Cells(k) /\ buf = Cut(k, m, n)
      BY <1>4, <1>5
    <2>2. Takes(k, m, n)
      BY <1>5, <2>1 DEF TakeAll, Takes
    <2>3. Told[k] = "sending"
      BY <1>1 DEF Told
    <2>4. Told' = [Told EXCEPT ![k] = "sent"]
      BY <1>5, ToldGoes DEF Goto, SendInv
    <2>5. /\ m < Cells(k) => \A c \in Conns : k \notin Taken[c]
          /\ m = Cells(k) => \E c \in Conns : k \in Taken[c]
          /\ n < Cells(k) \/ m = Cells(k) => Taken' = Taken
          /\ n = Cells(k) /\ m < Cells(k) => Taken' = [Taken EXCEPT ![conn] = @ \cup {k}]
      BY <1>1, <1>2, <2>1, <2>2, TakenAfter
    <2>6. CASE m = Cells(k)
      BY <1>1, <2>3, <2>4, <2>5, <2>6, PipeFinishes
    <2>7. CASE m < Cells(k)
      BY <1>1, <1>2, <2>1, <2>3, <2>4, <2>5, <2>7, PipeDelivers
    <2> QED BY <2>1, <2>6, <2>7, PartsAreCuts
  <1>6. CASE ~sticky /\ buf # <<>> /\ TakeSome(k, buf)
    <2>1. PICK m \in Nat, n \in Nat : /\ Underway(k, m, n) /\ buf = Cut(k, m, n)
                                      /\ n <= Cells(k) /\ m < n
      BY <1>4, <1>6
    <2>2. TakeSome(k, Cut(k, m, n))
      BY <1>6, <2>1
    <2> QED BY <1>1, <1>2, <2>1, <2>2, PipeBreaks
  <1> QED BY <1>3, <1>5, <1>6 DEF Flush

\* Every step is one of PacketPipe or leaves its variables as they are.
LEMMA PipeStep ==
    ASSUME SendInv, ReadInv, ReadInv', [Next]_vars
    PROVE  [Pipe!Next]_Pipe!vars
  <1>1. Passed = Len(routed) /\ Passed' = Len(routed')
    BY DEF ReadInv, Passed
  <1>2. CASE Connect
    <2>1. conn < MaxConns /\ conn' = conn + 1 /\ UNCHANGED <<pc, wire>>
      BY <1>2 DEF Connect
    <2>2. UNCHANGED <<Taken, Told>>
      BY <2>1 DEF Taken, Told
    <2>3. Passed' = 0
      BY <1>1, <1>2 DEF Connect
    <2> QED BY <2>1, <2>2, <2>3, PipeConnects
  <1>3. CASE Break \/ Arrive \/ ReadCell \/ ReadFails \/ ReadEnds \/ UNCHANGED vars
    <2>1. UNCHANGED <<conn, pc, wire, routed>>
      BY <1>3 DEF Break, Arrive, ReadCell, ReadFails, ReadEnds, sendVars, readVars, vars
    <2> QED BY <1>1, <2>1, PipeWaits, PipeStutters
  <1>4. CASE EndPart
    <2>1. UNCHANGED <<conn, pc, wire>>
      BY <1>4 DEF EndPart, sendVars
    <2>2. CASE UNCHANGED routed
      BY <1>1, <2>1, <2>2, PipeWaits, PipeStutters
    <2>3. CASE routed' = Append(routed, header \o got)
      <3>1. Passed' = Passed + 1
        BY <1>1, <2>3 DEF ReadInv, ReadTypes
      <3> QED BY <2>1, <3>1, PipeWaits, PipeRoutes
    <2> QED BY <1>4, <2>2, <2>3 DEF EndPart
  <1>5. ASSUME NEW k \in Senders, Sender(k) PROVE [Pipe!Next]_Pipe!vars
    <2>1. UNCHANGED Passed
      BY <1>1, <1>5 DEF Sender, Check, Lock, Write, Flush, readVars
    <2>2. CASE Check(k)
      <3>1. /\ Told[k] = "idle" /\ UNCHANGED <<conn, Taken>>
        BY <2>2 DEF Check, Told, Taken
      <3>2. Told' \in {[Told EXCEPT ![k] = "sending"], [Told EXCEPT ![k] = "failed"]}
        <4>1. \E l \in {"lock", "failed"} : pc' = [pc EXCEPT ![k] = l]
          BY <2>2 DEF Check, Goto
        <4> QED BY <4>1, ToldGoes DEF SendInv
      <3> QED BY <2>1, <3>1, <3>2, PipeBegins
    <2>3. CASE Lock(k)
      <3>1. pc[k] = "lock" /\ pc' = [pc EXCEPT ![k] = "write"] /\ UNCHANGED <<conn, wire>>
        BY <2>3 DEF Lock, Goto
      <3>2. UNCHANGED Taken
        BY <3>1 DEF Taken
      <3>3. UNCHANGED Told
        BY <3>1 DEF SendInv, SendTypes, Told
      <3> QED BY <2>1, <3>1, <3>2, <3>3, PipeStutters
    <2>4. CASE Write(k)
      BY <2>1, <2>4, PipeWrite
    <2>5. CASE Flush(k)
      BY <2>1, <2>5, PipeFlush
    <2> QED BY <1>5, <2>2, <2>3, <2>4, <2>5 DEF Sender
  <1> QED BY <1>2, <1>3, <1>4, <1>5 DEF Next, Listener

LEMMA PipeInit == ASSUME Init PROVE Pipe!Init
  <1>1. \A c \in Conns : Whole(wire[c]) = {}
    BY DEF Init, Whole, InStep
  <1>2. Passed = 0
    BY DEF Init, Passed, RoutedAsSent
  <1>3. Told = [k \in Senders |-> "idle"]
    BY DEF Init, Told
  <1> QED BY <1>1, <1>2, <1>3 DEF Init, Pipe!Init, Conns, Passed, Told

\* Where reads go on after a failure only between packets, the socket is a pipe of whole
\* packets: whoever shares the writer and whatever breaks, SendPacket returns nil exactly
\* if its packet reached libvirtd whole, and Route is given what libvirtd sent, in order
\* (SendPacket, bufio.Writer, listen, Connect).
THEOREM SocketIsPacketPipe ==
    ASSUME ~TimeoutsInPackets
    PROVE  Spec => Implements
  <1>1. Init => SendInv /\ ReadInv
    BY SendInit, ReadTypesInit, ListeningInit DEF ReadInv
  <1>2. SendInv /\ ReadInv /\ [Next]_vars => SendInv' /\ ReadInv'
    BY SendStep, ReadStep
  <1>3. Init => Pipe!Init
    BY PipeInit
  <1>4. SendInv /\ ReadInv /\ ReadInv' /\ [Next]_vars => [Pipe!Next]_Pipe!vars
    BY PipeStep
  <1> QED BY <1>1, <1>2, <1>3, <1>4, PTL DEF Spec, Implements, Pipe!Spec
=============================================================================
