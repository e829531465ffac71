---------------------------- MODULE ChannelProofs ---------------------------
(***************************************************************************)
(* Flow control of a channel, proved for every window, packet size, pair   *)
(* of features and traffic.  The argument: the credit of a sender, written *)
(* in positions of its stream, never exceeds what its peer has granted     *)
(* plus one window (WindowBooks), what is on a link is an increasing run of*)
(* segments of the stream (Ascending), and so every segment fits into the  *)
(* window that is open when it arrives.                                    *)
(***************************************************************************)
EXTENDS Channel, SequenceTheorems, TLAPS

\* The messages of one type on a link carry increasing, disjoint segments of
\* the interval from lo to hi.
Ascending(q, type, lo, hi) ==
  /\ \A i \in 1 .. Len(q) :
       q[i].type = type => lo <= q[i].from /\ q[i].from < q[i].upto /\ q[i].upto <= hi
  /\ \A i, j \in 1 .. Len(q) :
       i < j /\ q[i].type = type /\ q[j].type = type => q[i].upto <= q[j].from

\* The segments of a queue hold the bytes from lo to hi of what has arrived:
\* at[i] is the count of bytes before segment i.
Fills(q, lo, hi) ==
  \E at \in [1 .. Len(q) + 1 -> 0 .. hi] :
    /\ at[1] = lo /\ at[Len(q) + 1] = hi
    /\ \A i \in 1 .. Len(q) : Bytes(q[i]) = at[i + 1] - at[i]
    /\ \A i, j \in 1 .. Len(q) + 1 : i < j => at[i] < at[j]

\* The types, without the bounds that the windows turn out to have.
TypeInv ==
  /\ state \in [Ends -> States]
  /\ registered \in [Ends -> BOOLEAN]
  /\ allowWrite \in [Ends -> BOOLEAN]
  /\ remoteWindow \in [Ends -> Nat]
  /\ localWindow \in [Ends -> Nat]
  /\ localConsumed \in [Ends -> Nat]
  /\ recvQueue \in [Ends -> Seq(Segment)]
  /\ closeTimer \in [Ends -> BOOLEAN]
  /\ link \in [Ends -> Seq(Message)]
  /\ aborted \in BOOLEAN
  /\ sent \in [Ends -> Nat]
  /\ arrived \in [Ends -> Nat]
  /\ read \in [Ends -> Nat]
  /\ granted \in [Ends -> Nat]
  /\ credited \in [Ends -> Nat]
  /\ eof \in [Ends -> BOOLEAN]

\* The three windows of an end as functions of the positions.
WindowBooks ==
  \A e \in Ends :
    /\ localWindow[e] = WindowSize - arrived[e] + granted[e]
    /\ localConsumed[e] = read[e] - granted[e]
    /\ remoteWindow[e] + sent[e] - credited[e] <= WindowSize

\* An end that has not been answered yet.
Early(e) == state[e] \in {"Init", "Connecting"}

\* Before the answer to its request an end only uses its head start.
HeadStart ==
  \A e \in Ends :
    /\ Early(e) => remoteWindow[e] = MaxPacket - sent[e] /\ credited[e] = 0
    /\ state[e] = "Init" => ~allowWrite[e] /\ sent[e] = 0 /\ arrived[e] = 0

\* What both ends may rely on about the messages and segments between them.
Traffic ==
  \A e \in Ends :
    /\ Ascending(link[e], "ChannelData", arrived[e], sent[Peer(e)])
    /\ Ascending(link[e], "ChannelWindowAdjust", credited[e], granted[Peer(e)])
    /\ Fills(recvQueue[e], read[e], arrived[e])
    /\ arrived[e] <= sent[Peer(e)]
    /\ credited[e] <= granted[Peer(e)]
    /\ read[e] <= arrived[e]

\* The windows announced by the set-up messages of a link.
Sound(q, early) ==
  \A i \in 1 .. Len(q) :
    /\ q[i].type = "SetupChannel" => q[i].window = WindowSize
    /\ q[i].type = "SetupChannelResponse" /\ q[i].accept =>
         /\ q[i].window <= WindowSize
         /\ early => MaxPacket <= q[i].window

Announced == \A e \in Ends : Sound(link[e], Early(e))

\* The inductive invariant.
FlowInv == TypeInv /\ WindowBooks /\ HeadStart /\ Traffic /\ Announced /\ ~aborted
-----------------------------------------------------------------------------
(* Facts about the ends and about sequences of messages and segments. *)

\* There are two ends, each the peer of the other.
LEMMA PeerFacts ==
  ASSUME NEW e \in Ends
  PROVE  /\ Peer(e) \in Ends
         /\ Peer(e) # e
         /\ Peer(Peer(e)) = e
         /\ \A x \in Ends : x = e \/ x = Peer(e)
  BY DEF Ends, Peer

\* The fields of a message that its type stands for.
LEMMA MessageFields ==
  ASSUME NEW m \in Message
  PROVE  /\ m.type \in {"ChannelData", "ChannelWindowAdjust"} =>
              m.from \in Nat /\ m.upto \in Nat
         /\ m.type \in {"SetupChannel", "SetupChannelResponse"} => m.window \in Nat
         /\ m.type = "SetupChannelResponse" => m.accept \in BOOLEAN
  BY DEF Message, CloseMsg

\* What is built by the message constructors is a message.
LEMMA MessageTypes ==
  /\ \A w \in Nat : SetupMsg(w) \in Message
  /\ \A a \in BOOLEAN, w \in Nat : ResponseMsg(a, w) \in Message
  /\ \A f, u \in Nat : DataMsg(f, u) \in Message /\ AdjustMsg(f, u) \in Message
  /\ CloseMsg \in Message
  BY DEF Message, SetupMsg, ResponseMsg, DataMsg, AdjustMsg, CloseMsg

\* Messages of another type do not matter to Ascending.
LEMMA AscendingNone ==
  ASSUME NEW q, NEW type, NEW lo, NEW hi,
         \A i \in 1 .. Len(q) : q[i].type # type
  PROVE  Ascending(q, type, lo, hi)
  BY DEF Ascending

\* Ascending survives a wider interval.
LEMMA AscendingWiden ==
  ASSUME NEW q \in Seq(Message), NEW type \in {"ChannelData", "ChannelWindowAdjust"},
         NEW lo \in Nat, NEW hi \in Nat, NEW hj \in Nat,
         Ascending(q, type, lo, hi), hi <= hj
  PROVE  Ascending(q, type, lo, hj)
  <1>1. ASSUME NEW i \in 1 .. Len(q), q[i].type = type
        PROVE  lo <= q[i].from /\ q[i].from < q[i].upto /\ q[i].upto <= hj
    <2>1. q[i] \in Message
      BY ElementOfSeq
    <2>2. q[i].from \in Nat /\ q[i].upto \in Nat
      BY <1>1, <2>1, MessageFields
    <2>3. lo <= q[i].from /\ q[i].from < q[i].upto /\ q[i].upto <= hi
      BY <1>1 DEF Ascending
    <2> QED
      BY <2>2, <2>3
  <1> QED
    BY <1>1 DEF Ascending

\* Ascending survives an interval that starts lower.
LEMMA AscendingLower ==
  ASSUME NEW q \in Seq(Message), NEW type \in {"ChannelData", "ChannelWindowAdjust"},
         NEW lo \in Nat, NEW hi \in Nat, NEW lj \in Nat,
         Ascending(q, type, lo, hi), lj <= lo
  PROVE  Ascending(q, type, lj, hi)
  <1>1. ASSUME NEW i \in 1 .. Len(q), q[i].type = type
        PROVE  lj <= q[i].from /\ q[i].from < q[i].upto /\ q[i].upto <= hi
    <2>1. q[i] \in Message
      BY ElementOfSeq
    <2>2. q[i].from \in Nat /\ q[i].upto \in Nat
      BY <1>1, <2>1, MessageFields
    <2>3. lo <= q[i].from /\ q[i].from < q[i].upto /\ q[i].upto <= hi
      BY <1>1 DEF Ascending
    <2> QED
      BY <2>2, <2>3
  <1> QED
    BY <1>1 DEF Ascending

\* Taking the first message off: the rest starts no lower, and above the
\* segment that was taken.
LEMMA AscendingTail ==
  ASSUME NEW q \in Seq(Message), q # <<>>,
         NEW type, NEW lo, NEW hi, Ascending(q, type, lo, hi)
  PROVE  /\ Ascending(Tail(q), type, lo, hi)
         /\ Head(q).type = type =>
              /\ Ascending(Tail(q), type, Head(q).upto, hi)
              /\ lo <= Head(q).from
              /\ Head(q).from < Head(q).upto
              /\ Head(q).upto <= hi
  <1>1. /\ Len(q) \in Nat \ {0}
        /\ Len(Tail(q)) = Len(q) - 1
        /\ \A i \in 1 .. Len(Tail(q)) : Tail(q)[i] = q[i + 1]
        /\ Head(q) = q[1]
    BY HeadTailProperties, EmptySeq
  <1>2. \A i \in 1 .. Len(Tail(q)) : i + 1 \in 1 .. Len(q) /\ 1 < i + 1 /\ 1 \in 1 .. Len(q)
    BY <1>1
  <1>3. 1 \in 1 .. Len(q)
    BY <1>1
  <1>4. \A i, j \in 1 .. Len(Tail(q)) : i < j => i + 1 < j + 1
    BY <1>1
  <1> QED
    BY <1>1, <1>2, <1>3, <1>4 DEF Ascending

\* Appending messages whose segments follow on.
LEMMA AscendingConcat ==
  ASSUME NEW q \in Seq(Message), NEW p \in Seq(Message),
         NEW type \in {"ChannelData", "ChannelWindowAdjust"},
         NEW lo \in Nat, NEW hi \in Nat, NEW hj \in Nat,
         Ascending(q, type, lo, hi), Ascending(p, type, hi, hj), lo <= hi, hi <= hj
  PROVE  Ascending(q \o p, type, lo, hj)
  <1> DEFINE r == q \o p
  <1>1. /\ r \in Seq(Message)
        /\ Len(r) = Len(q) + Len(p)
        /\ Len(q) \in Nat /\ Len(p) \in Nat
        /\ \A i \in 1 .. Len(q) + Len(p) :
             r[i] = IF i <= Len(q) THEN q[i] ELSE p[i - Len(q)]
    BY ConcatProperties, LenProperties
  <1>2. \A i \in 1 .. Len(r) : r[i] \in Message
    BY <1>1, ElementOfSeq
  <1>3. ASSUME NEW i \in 1 .. Len(r), r[i].type = type
        PROVE  /\ r[i].from \in Nat /\ r[i].upto \in Nat
               /\ r[i].from < r[i].upto
               /\ i <= Len(q) => /\ i \in 1 .. Len(q) /\ r[i] = q[i]
                                 /\ lo <= r[i].from /\ r[i].upto <= hi
               /\ ~(i <= Len(q)) => /\ i - Len(q) \in 1 .. Len(p) /\ r[i] = p[i - Len(q)]
                                    /\ hi <= r[i].from /\ r[i].upto <= hj
    <2>1. r[i].from \in Nat /\ r[i].upto \in Nat
      BY <1>2, <1>3, MessageFields
    <2>2. CASE i <= Len(q)
      <3>1. i \in 1 .. Len(q) /\ r[i] = q[i]
        BY <1>1, <2>2
      <3> QED
        BY <1>3, <2>1, <2>2, <3>1 DEF Ascending
    <2>3. CASE ~(i <= Len(q))
      <3>1. i - Len(q) \in 1 .. Len(p) /\ r[i] = p[i - Len(q)]
        BY <1>1, <2>3
      <3> QED
        BY <1>3, <2>1, <2>3, <3>1 DEF Ascending
    <2> QED
      BY <2>2, <2>3
  <1>4. \A i \in 1 .. Len(r) :
          r[i].type = type => lo <= r[i].from /\ r[i].from < r[i].upto /\ r[i].upto <= hj
    BY <1>3
  <1>5. ASSUME NEW i \in 1 .. Len(r), NEW j \in 1 .. Len(r), i < j,
               r[i].type = type, r[j].type = type
        PROVE  r[i].upto <= r[j].from
    <2>1. CASE j <= Len(q)
      <3>1. i <= Len(q)
        BY <1>1, <1>5, <2>1
      <3> QED
        BY <1>3, <1>5, <2>1, <3>1 DEF Ascending
    <2>2. CASE i <= Len(q) /\ ~(j <= Len(q))
      <3>1. r[i].upto \in Nat /\ r[i].upto <= hi
        BY <1>3, <1>5, <2>2
      <3>2. r[j].from \in Nat /\ hi <= r[j].from
        BY <1>3, <1>5, <2>2
      <3> QED
        BY SMTT(30), <3>1, <3>2
    <2>3. CASE ~(i <= Len(q)) /\ ~(j <= Len(q))
      <3>1. /\ i - Len(q) \in 1 .. Len(p) /\ r[i] = p[i - Len(q)]
            /\ j - Len(q) \in 1 .. Len(p) /\ r[j] = p[j - Len(q)]
        BY <1>3, <1>5, <2>3
      <3>2. i - Len(q) < j - Len(q)
        BY <1>1, <1>5
      <3> QED
        BY <1>5, <3>1, <3>2 DEF Ascending
    <2> QED
      BY <2>1, <2>2, <2>3
  <1> QED
    BY <1>4, <1>5 DEF Ascending

\* Appending messages of other types changes nothing.
LEMMA AscendingOther ==
  ASSUME NEW q \in Seq(Message), NEW p \in Seq(Message),
         NEW type \in {"ChannelData", "ChannelWindowAdjust"},
         NEW lo \in Nat, NEW hi \in Nat, lo <= hi,
         Ascending(q, type, lo, hi),
         \A i \in 1 .. Len(p) : p[i].type # type
  PROVE  Ascending(q \o p, type, lo, hi)
  <1>1. Ascending(p, type, hi, hi)
    BY AscendingNone
  <1> QED
    BY <1>1, AscendingConcat

\* A sequence of one message.
LEMMA OneMessage ==
  ASSUME NEW m \in Message
  PROVE  /\ <<m>> \in Seq(Message)
         /\ Len(<<m>>) = 1
         /\ \A i \in 1 .. Len(<<m>>) : <<m>>[i] = m
  OBVIOUS

\* Send cuts n bytes into consecutive, non-empty data messages.
LEMMA PiecesAscend ==
  ASSUME NEW from \in Nat, NEW n \in Nat \ {0}
  PROVE  /\ Pieces(from, n) \in Seq(Message)
         /\ Ascending(Pieces(from, n), "ChannelData", from, from + n)
         /\ \A i \in 1 .. Len(Pieces(from, n)) : Pieces(from, n)[i].type = "ChannelData"
  <1> DEFINE count == (n + MaxPacket - 1) \div MaxPacket
             first(i) == from + (i - 1) * MaxPacket
             last(i) == IF i = count THEN from + n ELSE from + i * MaxPacket
             pieces == [i \in 1 .. count |-> DataMsg(first(i), last(i))]
  <1> USE ChannelAssumption
  <1>1. count \in Nat \ {0} /\ (count - 1) * MaxPacket < n /\ n <= count * MaxPacket
    <2>1. count \in Int
      BY Z3
    <2>2. /\ n + MaxPacket - 1 = MaxPacket * count + ((n + MaxPacket - 1) % MaxPacket)
          /\ (n + MaxPacket - 1) % MaxPacket \in 0 .. (MaxPacket - 1)
      BY SMT
    <2>3. (count - 1) * MaxPacket < n /\ n <= count * MaxPacket
      BY <2>1, <2>2, SMT
    <2>4. count > 0
      BY <2>1, <2>3, SMT
    <2> QED
      BY <2>1, <2>3, <2>4
  <1> HIDE DEF count
  <1>2. ASSUME NEW i \in 1 .. count
        PROVE  /\ first(i) \in Nat /\ last(i) \in Nat
               /\ from <= first(i) /\ first(i) < last(i) /\ last(i) <= from + n
    <2>1. (i - 1) * MaxPacket \in Nat /\ i * MaxPacket \in Nat
      BY <1>1
    <2>2. i * MaxPacket = (i - 1) * MaxPacket + MaxPacket
      BY <1>1
    <2>3. (i - 1) * MaxPacket <= (count - 1) * MaxPacket
      BY <1>1
    <2>4. i # count => i * MaxPacket <= (count - 1) * MaxPacket
      BY <1>1
    <2> QED
      BY <1>1, <2>1, <2>2, <2>3, <2>4
  <1>3. ASSUME NEW i \in 1 .. count, NEW j \in 1 .. count, i < j
        PROVE  last(i) <= first(j)
    <2>1. i * MaxPacket <= (j - 1) * MaxPacket
      BY <1>1, <1>3
    <2>2. i # count
      BY <1>1, <1>3
    <2>3. i * MaxPacket \in Nat /\ (j - 1) * MaxPacket \in Nat
      BY <1>1
    <2> QED
      BY <2>1, <2>2, <2>3
  <1> HIDE DEF first, last
  <1>4. /\ pieces \in Seq(Message)
        /\ Len(pieces) = count
        /\ \A i \in 1 .. count : /\ pieces[i].type = "ChannelData"
                                 /\ pieces[i].from = first(i)
                                 /\ pieces[i].upto = last(i)
    <2>1. \A i \in 1 .. count : DataMsg(first(i), last(i)) \in Message
      BY <1>2, MessageTypes
    <2>2. pieces \in [1 .. count -> Message]
      BY <2>1
    <2>3. pieces \in Seq(Message)
      BY <1>1, <2>2, SeqDef
    <2>4. Len(pieces) = count
      BY <1>1, <2>3
    <2> QED
      BY <2>3, <2>4 DEF DataMsg
  <1>5. Ascending(pieces, "ChannelData", from, from + n)
    <2> HIDE DEF pieces
    <2>1. ASSUME NEW i \in 1 .. Len(pieces)
          PROVE  /\ from <= pieces[i].from /\ pieces[i].from < pieces[i].upto
                 /\ pieces[i].upto <= from + n
      BY <1>2, <1>4
    <2>2. ASSUME NEW i \in 1 .. Len(pieces), NEW j \in 1 .. Len(pieces), i < j
          PROVE  pieces[i].upto <= pieces[j].from
      <3>1. i \in 1 .. count /\ j \in 1 .. count
        BY <1>4
      <3>2. last(i) <= first(j)
        BY <1>3, <2>2, <3>1
      <3> QED
        BY <1>4, <3>1, <3>2
    <2> QED
      BY <2>1, <2>2, Zenon DEF Ascending
  <1>6. Pieces(from, n) = pieces
    BY DEF Pieces, count, first, last
  <1> QED
    BY <1>4, <1>5, <1>6

\* A full Recv takes the first segment off a queue.
LEMMA FillsTail ==
  ASSUME NEW q \in Seq(Segment), q # <<>>, NEW lo \in Nat, NEW hi \in Nat,
         Fills(q, lo, hi)
  PROVE  /\ Head(q) \in Segment /\ Tail(q) \in Seq(Segment)
         /\ Bytes(Head(q)) \in Nat \ {0}
         /\ lo + Bytes(Head(q)) <= hi
         /\ Fills(Tail(q), lo + Bytes(Head(q)), hi)
  <1>1. /\ Len(q) \in Nat \ {0}
        /\ Len(Tail(q)) = Len(q) - 1
        /\ \A i \in 1 .. Len(Tail(q)) : Tail(q)[i] = q[i + 1]
        /\ Head(q) = q[1]
        /\ Head(q) \in Segment
        /\ Tail(q) \in Seq(Segment)
    BY HeadTailProperties, EmptySeq
  <1>2. PICK at \in [1 .. Len(q) + 1 -> 0 .. hi] :
          /\ at[1] = lo /\ at[Len(q) + 1] = hi
          /\ \A i \in 1 .. Len(q) : Bytes(q[i]) = at[i + 1] - at[i]
          /\ \A i, j \in 1 .. Len(q) + 1 : i < j => at[i] < at[j]
    BY DEF Fills
  <1>3. 1 \in 1 .. Len(q) /\ 1 \in 1 .. Len(q) + 1 /\ 2 \in 1 .. Len(q) + 1
    BY <1>1
  <1>4. /\ at[2] \in 0 .. hi /\ lo < at[2] /\ at[2] <= hi
        /\ Bytes(Head(q)) = at[2] - lo
    BY <1>1, <1>2, <1>3
  <1> DEFINE next == [i \in 1 .. Len(q) |-> at[i + 1]]
  <1>5. next \in [1 .. Len(Tail(q)) + 1 -> 0 .. hi]
    <2>1. \A i \in 1 .. Len(q) : i + 1 \in 1 .. Len(q) + 1
      BY <1>1
    <2>2. Len(Tail(q)) + 1 = Len(q)
      BY <1>1
    <2> QED
      BY <1>2, <2>1, <2>2
  <1>6. next[1] = at[2] /\ next[Len(Tail(q)) + 1] = hi
    BY <1>1, <1>2, <1>3
  <1>7. ASSUME NEW i \in 1 .. Len(Tail(q))
        PROVE  Bytes(Tail(q)[i]) = next[i + 1] - next[i]
    <2>1. i \in 1 .. Len(q) /\ i + 1 \in 1 .. Len(q)
      BY <1>1
    <2> QED
      BY <1>1, <1>2, <2>1
  <1>8. ASSUME NEW i \in 1 .. Len(Tail(q)) + 1, NEW j \in 1 .. Len(Tail(q)) + 1, i < j
        PROVE  next[i] < next[j]
    <2>1. /\ i \in 1 .. Len(q) /\ j \in 1 .. Len(q) /\ i + 1 < j + 1
          /\ i + 1 \in 1 .. Len(q) + 1 /\ j + 1 \in 1 .. Len(q) + 1
      BY <1>1, <1>8
    <2> QED
      BY <1>2, <2>1
  <1> HIDE DEF next
  <1>9. Fills(Tail(q), at[2], hi)
    BY <1>5, <1>6, <1>7, <1>8 DEF Fills
  <1>10. lo + Bytes(Head(q)) = at[2] /\ Bytes(Head(q)) \in Nat \ {0}
    BY <1>4
  <1> QED
    BY <1>1, <1>4, <1>9, <1>10

\* A data message that is taken adds a segment to the queue.
LEMMA FillsAppend ==
  ASSUME NEW q \in Seq(Segment), NEW lo \in Nat, NEW hi \in Nat, Fills(q, lo, hi),
         NEW s \in Segment, s.from < s.upto
  PROVE  Fills(Append(q, s), lo, hi + Bytes(s))
  <1> DEFINE n == Len(q)
             r == Append(q, s)
             top == hi + Bytes(s)
  <1>1. /\ n \in Nat
        /\ Len(r) = n + 1
        /\ \A i \in 1 .. n : r[i] = q[i]
        /\ r[n + 1] = s
    BY AppendProperties
  <1>2. Bytes(s) \in Nat \ {0} /\ top \in Nat /\ hi < top
    BY DEF Segment, Bytes
  <1> HIDE DEF n, r, top
  <1>3. PICK at \in [1 .. n + 1 -> 0 .. hi] :
          /\ at[1] = lo /\ at[n + 1] = hi
          /\ \A i \in 1 .. n : Bytes(q[i]) = at[i + 1] - at[i]
          /\ \A i, j \in 1 .. n + 1 : i < j => at[i] < at[j]
    BY DEF Fills, n
  <1> DEFINE more == [i \in 1 .. n + 2 |-> IF i = n + 2 THEN top ELSE at[i]]
  <1>4. \A i \in 1 .. n + 1 : i \in 1 .. n + 2 /\ i # n + 2 /\ at[i] \in 0 .. hi
    BY <1>1, <1>3
  <1>5. \A i \in 1 .. n + 2 : i = n + 2 \/ i \in 1 .. n + 1
    BY <1>1
  <1>6. /\ \A i \in 1 .. n + 1 : more[i] = at[i]
        /\ more[n + 2] = top
    <2>1. n + 2 \in 1 .. n + 2
      BY <1>1
    <2> QED
      BY <1>4, <2>1
  <1>7. more \in [1 .. Len(r) + 1 -> 0 .. top]
    <2>1. \A i \in 1 .. n + 2 : (IF i = n + 2 THEN top ELSE at[i]) \in 0 .. top
      BY <1>2, <1>4, <1>5
    <2>2. Len(r) + 1 = n + 2
      BY <1>1
    <2> QED
      BY <2>1, <2>2
  <1> HIDE DEF more
  <1>8. more[1] = lo /\ more[Len(r) + 1] = top
    <2>1. 1 \in 1 .. n + 1 /\ Len(r) + 1 = n + 2
      BY <1>1
    <2> QED
      BY <1>3, <1>6, <2>1
  <1>9. ASSUME NEW i \in 1 .. Len(r)
        PROVE  Bytes(r[i]) = more[i + 1] - more[i]
    <2>1. CASE i = n + 1
      <3>1. i \in 1 .. n + 1 /\ i + 1 = n + 2
        BY <1>1, <2>1
      <3>2. r[i] = s /\ more[i + 1] = top /\ more[i] = hi
        BY <1>1, <1>3, <1>6, <2>1, <3>1
      <3>3. top - hi = Bytes(s)
        BY <1>2 DEF top
      <3> QED
        BY <3>2, <3>3
    <2>2. CASE i # n + 1
      <3>1. i \in 1 .. n /\ i \in 1 .. n + 1 /\ i + 1 \in 1 .. n + 1
        BY <1>1, <2>2
      <3> QED
        BY <1>1, <1>3, <1>6, <3>1
    <2> QED
      BY <2>1, <2>2
  <1>10. ASSUME NEW i \in 1 .. Len(r) + 1, NEW j \in 1 .. Len(r) + 1, i < j
         PROVE  more[i] < more[j]
    <2>1. i \in 1 .. n + 1
      BY <1>1, <1>10
    <2>2. CASE j = n + 2
      BY <1>2, <1>4, <1>6, <2>1, <2>2
    <2>3. CASE j # n + 2
      <3>1. j \in 1 .. n + 1
        BY <1>1, <2>3
      <3> QED
        BY <1>3, <1>6, <1>10, <2>1, <3>1
    <2> QED
      BY <2>2, <2>3
  <1>11. Fills(r, lo, top)
    BY <1>7, <1>8, <1>9, <1>10 DEF Fills
  <1> QED
    BY <1>11 DEF r, top

\* A partial Recv moves the start of the first segment up.
Trimmed(q, n) == <<[Head(q) EXCEPT !.from = @ + n]>> \o Tail(q)

\* What a partial Recv leaves holds the bytes above the n it takes.
LEMMA FillsTrim ==
  ASSUME NEW q \in Seq(Segment), q # <<>>, NEW lo \in Nat, NEW hi \in Nat,
         Fills(q, lo, hi),
         NEW n \in Nat \ {0}, n < Bytes(Head(q))
  PROVE  Fills(Trimmed(q, n), lo + n, hi) /\ Trimmed(q, n) \in Seq(Segment)
  <1> DEFINE h == [Head(q) EXCEPT !.from = @ + n]
             r == Trimmed(q, n)
  <1>1. /\ Len(q) \in Nat \ {0}
        /\ Tail(q) \in Seq(Segment)
        /\ Len(Tail(q)) = Len(q) - 1
        /\ \A i \in 1 .. Len(Tail(q)) : Tail(q)[i] = q[i + 1]
        /\ Head(q) = q[1]
        /\ Head(q) \in Segment
    BY HeadTailProperties, EmptySeq
  <1>2. h \in Segment /\ h.from = Head(q).from + n /\ h.upto = Head(q).upto
    BY <1>1 DEF Segment
  <1>3. <<h>> \in Seq(Segment) /\ Len(<<h>>) = 1 /\ <<h>>[1] = h
    BY <1>2
  <1>4. r = <<h>> \o Tail(q)
    BY DEF Trimmed
  <1> HIDE DEF h, r
  <1>5. /\ r \in Seq(Segment)
        /\ Len(r) = Len(q)
        /\ \A i \in 1 .. Len(q) : r[i] = IF i = 1 THEN h ELSE q[i]
    <2>1. /\ r \in Seq(Segment)
          /\ Len(r) = 1 + Len(Tail(q))
          /\ \A i \in 1 .. 1 + Len(Tail(q)) : r[i] = IF i <= 1 THEN <<h>>[i] ELSE Tail(q)[i - 1]
      BY <1>1, <1>3, <1>4, ConcatProperties
    <2> QED
      BY <1>1, <1>3, <2>1
  <1>6. PICK at \in [1 .. Len(q) + 1 -> 0 .. hi] :
          /\ at[1] = lo /\ at[Len(q) + 1] = hi
          /\ \A i \in 1 .. Len(q) : Bytes(q[i]) = at[i + 1] - at[i]
          /\ \A i, j \in 1 .. Len(q) + 1 : i < j => at[i] < at[j]
    BY DEF Fills
  <1>7. /\ 1 \in 1 .. Len(q) /\ 1 \in 1 .. Len(q) + 1 /\ 2 \in 1 .. Len(q) + 1
        /\ Len(q) + 1 # 1 /\ Len(q) + 1 \in 1 .. Len(q) + 1
    BY <1>1
  <1>8. /\ at[2] \in 0 .. hi /\ Bytes(Head(q)) = at[2] - lo
        /\ lo + n < at[2] /\ Bytes(h) = at[2] - (lo + n)
    <2>1. at[2] \in 0 .. hi /\ Bytes(Head(q)) = at[2] - lo
      BY <1>1, <1>6, <1>7
    <2>2. /\ Bytes(Head(q)) = Head(q).upto - Head(q).from
          /\ Bytes(h) = Head(q).upto - (Head(q).from + n)
          /\ Head(q).from \in Nat /\ Head(q).upto \in Nat
      BY <1>1, <1>2 DEF Bytes, Segment
    <2> QED
      BY SMTT(30), <2>1, <2>2
  <1> DEFINE moved == [i \in 1 .. Len(q) + 1 |-> IF i = 1 THEN lo + n ELSE at[i]]
  <1>9. moved \in [1 .. Len(r) + 1 -> 0 .. hi]
    <2>1. lo + n \in 0 .. hi
      BY <1>8
    <2> QED
      BY <1>5, <2>1
  <1>10. /\ moved[1] = lo + n
         /\ \A i \in 1 .. Len(q) + 1 : i # 1 => moved[i] = at[i]
    BY <1>7
  <1> HIDE DEF moved
  <1>11. moved[Len(r) + 1] = hi
    BY <1>5, <1>6, <1>7, <1>10
  <1>12. ASSUME NEW i \in 1 .. Len(r)
         PROVE  Bytes(r[i]) = moved[i + 1] - moved[i]
    <2>1. i \in 1 .. Len(q) /\ i + 1 \in 1 .. Len(q) + 1 /\ i \in 1 .. Len(q) + 1 /\ i + 1 # 1
      BY <1>1, <1>5
    <2>2. CASE i = 1
      <3>1. r[i] = h /\ moved[i + 1] = at[2] /\ moved[i] = lo + n
        BY <1>5, <1>7, <1>10, <2>2
      <3> QED
        BY <1>8, <3>1
    <2>3. CASE i # 1
      BY <1>5, <1>6, <1>10, <2>1, <2>3
    <2> QED
      BY <2>2, <2>3
  <1>13. ASSUME NEW i \in 1 .. Len(r) + 1, NEW j \in 1 .. Len(r) + 1, i < j
         PROVE  moved[i] < moved[j]
    <2>1. /\ i \in 1 .. Len(q) + 1 /\ j \in 1 .. Len(q) + 1 /\ j # 1
          /\ at[j] \in 0 .. hi /\ moved[j] = at[j]
      BY <1>1, <1>5, <1>10, <1>13
    <2>2. CASE i = 1
      <3>1. j = 2 \/ at[2] < at[j]
        BY <1>6, <1>7, <1>13, <2>1, <2>2
      <3> QED
        BY <1>8, <1>10, <2>1, <2>2, <3>1
    <2>3. CASE i # 1
      BY <1>6, <1>10, <1>13, <2>1, <2>3
    <2> QED
      BY <2>2, <2>3
  <1>14. Fills(r, lo + n, hi)
    <2>1. moved[1] = lo + n
      BY <1>10
    <2> QED
      BY <1>9, <1>11, <1>12, <1>13, <2>1 DEF Fills
  <1> QED
    BY <1>5, <1>14 DEF r
-----------------------------------------------------------------------------
(* How the actions change the links. *)

\* Taking the first message off a link leaves a sound link.
LEMMA SoundTail ==
  ASSUME NEW q \in Seq(Message), q # <<>>, NEW b \in BOOLEAN, NEW c \in BOOLEAN,
         Sound(q, b), c => b
  PROVE  Sound(Tail(q), c)
  <1>1. /\ Len(q) \in Nat \ {0}
        /\ Len(Tail(q)) = Len(q) - 1
        /\ \A i \in 1 .. Len(Tail(q)) : Tail(q)[i] = q[i + 1]
    BY HeadTailProperties, EmptySeq
  <1>2. \A i \in 1 .. Len(Tail(q)) : i + 1 \in 1 .. Len(q)
    BY <1>1
  <1> QED
    BY <1>1, <1>2 DEF Sound

\* Appending sound messages to a sound link leaves it sound.
LEMMA SoundConcat ==
  ASSUME NEW q \in Seq(Message), NEW p \in Seq(Message),
         NEW b \in BOOLEAN, NEW c \in BOOLEAN, Sound(q, b), Sound(p, c), c => b
  PROVE  Sound(q \o p, c)
  <1>1. /\ Len(q \o p) = Len(q) + Len(p)
        /\ Len(q) \in Nat /\ Len(p) \in Nat
        /\ \A i \in 1 .. Len(q) + Len(p) :
             (q \o p)[i] = IF i <= Len(q) THEN q[i] ELSE p[i - Len(q)]
    BY ConcatProperties, LenProperties
  <1>2. \A i \in 1 .. Len(q \o p) :
          \/ i \in 1 .. Len(q) /\ (q \o p)[i] = q[i]
          \/ i - Len(q) \in 1 .. Len(p) /\ (q \o p)[i] = p[i - Len(q)]
    BY <1>1
  <1> QED
    BY <1>2 DEF Sound

\* Data, adjusts and closes announce nothing.
LEMMA SoundNone ==
  ASSUME NEW p, NEW b,
         \A i \in 1 .. Len(p) : p[i].type \notin {"SetupChannel", "SetupChannelResponse"}
  PROVE  Sound(p, b)
  BY DEF Sound

\* Emit appends to the link of the peer and to no other.
LEMMA EmitLink ==
  ASSUME link \in [Ends -> Seq(Message)], NEW e \in Ends, NEW p \in Seq(Message),
         Emit(e, p)
  PROVE  /\ link' \in [Ends -> Seq(Message)]
         /\ link'[e] = link[e]
         /\ link'[Peer(e)] = link[Peer(e)] \o p
  BY PeerFacts, ConcatProperties DEF Emit

\* Consume takes the first message off the own link and no other.
LEMMA ConsumeLink ==
  ASSUME link \in [Ends -> Seq(Message)], NEW e \in Ends, link[e] # <<>>, Consume(e)
  PROVE  /\ link' \in [Ends -> Seq(Message)]
         /\ link'[e] = Tail(link[e])
         /\ link'[Peer(e)] = link[Peer(e)]
  BY PeerFacts, HeadTailProperties DEF Consume

\* Sending messages whose announced windows are right keeps Announced.
LEMMA EmitSound ==
  ASSUME TypeInv, Announced, NEW e \in Ends, NEW p \in Seq(Message),
         Emit(e, p), Sound(p, Early(Peer(e))'),
         \A x \in Ends : Early(x)' => Early(x)
  PROVE  Announced'
  <1> DEFINE f == Peer(e)
  <1>1. f \in Ends /\ \A x \in Ends : x = e \/ x = f
    BY PeerFacts
  <1>2. link[e] \in Seq(Message) /\ link[f] \in Seq(Message)
    BY <1>1 DEF TypeInv
  <1>3. link'[e] = link[e] /\ link'[f] = link[f] \o p
    BY EmitLink DEF TypeInv
  <1>4. Sound(link[e], Early(e)) /\ Sound(link[f], Early(f))
    BY <1>1 DEF Announced
  <1>5. Sound(link[e], Early(e)')
    BY <1>4 DEF Sound
  <1>6. Sound(link[f] \o p, Early(f)')
    <2>1. Early(f) \in BOOLEAN /\ Early(f)' \in BOOLEAN
      BY DEF Early
    <2> QED
      BY <1>1, <1>2, <1>4, <2>1, SoundConcat
  <1> QED
    BY <1>1, <1>3, <1>5, <1>6 DEF Announced

\* Taking a message keeps Announced.
LEMMA ConsumeSound ==
  ASSUME TypeInv, Announced, NEW e \in Ends, link[e] # <<>>, Consume(e),
         \A x \in Ends : Early(x)' => Early(x)
  PROVE  Announced'
  <1> DEFINE f == Peer(e)
  <1>1. f \in Ends /\ \A x \in Ends : x = e \/ x = f
    BY PeerFacts
  <1>2. link[e] \in Seq(Message) /\ link[f] \in Seq(Message)
    BY <1>1 DEF TypeInv
  <1>3. link'[e] = Tail(link[e]) /\ link'[f] = link[f]
    BY ConsumeLink DEF TypeInv
  <1>4. Sound(link[e], Early(e)) /\ Sound(link[f], Early(f))
    BY <1>1 DEF Announced
  <1>5. Sound(link[f], Early(f)')
    BY <1>1, <1>4 DEF Sound
  <1>6. Sound(Tail(link[e]), Early(e)')
    <2>1. Early(e) \in BOOLEAN /\ Early(e)' \in BOOLEAN
      BY DEF Early
    <2> QED
      BY <1>2, <1>4, <2>1, SoundTail
  <1> QED
    BY <1>1, <1>3, <1>5, <1>6 DEF Announced

\* A message that is neither data nor a window adjust.
LEMMA EmitControl ==
  ASSUME TypeInv, Traffic, NEW e \in Ends, NEW m \in Message,
         m.type \notin {"ChannelData", "ChannelWindowAdjust"},
         Emit(e, <<m>>), UNCHANGED <<windows, streams>>
  PROVE  link' \in [Ends -> Seq(Message)] /\ Traffic'
  <1> DEFINE f == Peer(e)
  <1>1. f \in Ends /\ Peer(f) = e /\ \A x \in Ends : x = e \/ x = f
    BY PeerFacts
  <1>2. <<m>> \in Seq(Message) /\ \A i \in 1 .. Len(<<m>>) : <<m>>[i] = m
    BY OneMessage
  <1>3. /\ link' \in [Ends -> Seq(Message)]
        /\ link'[e] = link[e] /\ link'[f] = link[f] \o <<m>>
    BY <1>2, EmitLink DEF TypeInv
  <1>4. /\ Ascending(link[f] \o <<m>>, "ChannelData", arrived[f], sent[e])
        /\ Ascending(link[f] \o <<m>>, "ChannelWindowAdjust", credited[f], granted[e])
    BY <1>1, <1>2, AscendingOther DEF TypeInv, Traffic
  <1> QED
    BY <1>1, <1>3, <1>4 DEF Traffic, windows, streams

\* Taking a message off a link without acting on the streams.
LEMMA ConsumeTraffic ==
  ASSUME TypeInv, Traffic, NEW e \in Ends, link[e] # <<>>, Consume(e),
         UNCHANGED <<granted, credited, streams>>
  PROVE  link' \in [Ends -> Seq(Message)] /\ Traffic'
  <1> DEFINE f == Peer(e)
  <1>1. f \in Ends /\ Peer(f) = e /\ \A x \in Ends : x = e \/ x = f
    BY PeerFacts
  <1>2. /\ link' \in [Ends -> Seq(Message)]
        /\ link'[e] = Tail(link[e]) /\ link'[f] = link[f]
    BY ConsumeLink DEF TypeInv
  <1>3. /\ Ascending(Tail(link[e]), "ChannelData", arrived[e], sent[f])
        /\ Ascending(Tail(link[e]), "ChannelWindowAdjust", credited[e], granted[f])
    BY <1>1, AscendingTail DEF TypeInv, Traffic
  <1> QED
    BY <1>1, <1>2, <1>3 DEF Traffic, streams
-----------------------------------------------------------------------------
(* Every action preserves the invariant. *)

\* Connect announces the whole window and grants the head start.
LEMMA ConnectStep ==
  ASSUME FlowInv, NEW e \in Ends, Connect(e)
  PROVE  FlowInv'
  <1> USE DEF FlowInv
  <1> DEFINE m == SetupMsg(localWindow[e])
  <1>1. Peer(e) \in Ends /\ Peer(e) # e /\ \A x \in Ends : x = e \/ x = Peer(e)
    BY PeerFacts
  <1>2. m \in Message /\ m.type = "SetupChannel" /\ m.window = WindowSize
    <2>1. localWindow[e] \in Nat
      BY DEF TypeInv
    <2>2. localWindow[e] = WindowSize
      BY SMTT(30), ChannelAssumption DEF Connect, TypeInv, WindowBooks, HeadStart, Traffic
    <2> QED
      BY <2>1, <2>2, MessageTypes DEF SetupMsg
  <1>3. Emit(e, <<m>>) /\ UNCHANGED <<aborted, windows, streams>>
    BY DEF Connect
  <1>4. link' \in [Ends -> Seq(Message)] /\ Traffic'
    BY <1>2, <1>3, EmitControl
  <1>5. TypeInv'
    BY <1>4, ChannelAssumption
    DEF TypeInv, Connect, Goto, SetAllowWrite, SetRegistered, windows, streams, States
  <1>6. WindowBooks'
    BY DEF WindowBooks, Connect, windows, streams
  <1>7. HeadStart'
    BY DEF HeadStart, Early, TypeInv, Connect, Goto, SetAllowWrite, windows, streams
  <1>8. Announced'
    <2>1. <<m>> \in Seq(Message) /\ Sound(<<m>>, Early(Peer(e))')
      BY <1>2, OneMessage DEF Sound
    <2>2. \A x \in Ends : Early(x)' => Early(x)
      BY DEF Early, TypeInv, Connect, Goto
    <2> QED
      BY <1>3, <2>1, <2>2, EmitSound
  <1> QED
    BY <1>3, <1>4, <1>5, <1>6, <1>7, <1>8

\* Accept announces the window that is left after the head start.
LEMMA AcceptStep ==
  ASSUME FlowInv, NEW e \in Ends, Accept(e)
  PROVE  FlowInv'
  <1> USE DEF FlowInv
  <1> DEFINE m == ResponseMsg(TRUE, localWindow[e])
             f == Peer(e)
  <1>1. f \in Ends /\ f # e /\ Peer(f) = e /\ \A x \in Ends : x = e \/ x = f
    BY PeerFacts
  <1>2. m \in Message /\ m.type = "SetupChannelResponse" /\ m.window = localWindow[e]
    BY MessageTypes DEF ResponseMsg, TypeInv
  <1>3. Emit(e, <<m>>) /\ UNCHANGED <<aborted, windows, streams>>
    BY DEF Accept
  <1>4. link' \in [Ends -> Seq(Message)] /\ Traffic'
    BY <1>2, <1>3, EmitControl
  <1>5. TypeInv'
    BY <1>4 DEF TypeInv, Accept, Goto, SetAllowWrite, SetRegistered, windows, streams, States
  <1>6. WindowBooks'
    BY DEF WindowBooks, Accept, windows, streams
  <1>7. HeadStart'
    BY DEF HeadStart, Early, TypeInv, Accept, Goto, SetAllowWrite, windows, streams
  <1>8. Early(f) = Early(f)' /\ \A x \in Ends : Early(x)' => Early(x)
    BY <1>1 DEF Early, TypeInv, Accept, Goto
  \* The window announced is at most the whole one, and lacks at most the
  \* head start.
  <1>9. localWindow[e] <= WindowSize /\ (Early(f) => MaxPacket <= localWindow[e])
    <2>1. /\ localWindow[e] = WindowSize - arrived[e] + granted[e]
          /\ localConsumed[e] = read[e] - granted[e]
          /\ read[e] <= arrived[e]
          /\ arrived[e] <= sent[f]
      BY <1>1 DEF WindowBooks, Traffic
    <2>2. Early(f) => remoteWindow[f] = MaxPacket - sent[f]
      BY <1>1 DEF HeadStart
    <2>3. /\ localWindow[e] \in Nat /\ localConsumed[e] \in Nat /\ arrived[e] \in Nat
          /\ granted[e] \in Nat /\ read[e] \in Nat /\ sent[f] \in Nat
          /\ remoteWindow[f] \in Nat
      BY <1>1 DEF TypeInv
    <2> QED
      BY <2>1, <2>2, <2>3, ChannelAssumption
  <1>10. Announced'
    <2>1. <<m>> \in Seq(Message) /\ Sound(<<m>>, Early(f)')
      BY <1>2, <1>8, <1>9, OneMessage DEF Sound
    <2> QED
      BY <1>3, <1>8, <2>1, EmitSound
  <1> QED
    BY <1>3, <1>4, <1>5, <1>6, <1>7, <1>10

\* Reject moves no byte.
LEMMA RejectStep ==
  ASSUME FlowInv, NEW e \in Ends, Reject(e)
  PROVE  FlowInv'
  <1> USE DEF FlowInv
  <1> DEFINE m == ResponseMsg(FALSE, 0)
  <1>1. m \in Message /\ m.type = "SetupChannelResponse" /\ m.accept = FALSE
    BY MessageTypes DEF ResponseMsg
  <1>2. Emit(e, <<m>>) /\ UNCHANGED <<aborted, windows, streams>>
    BY DEF Reject
  <1>3. link' \in [Ends -> Seq(Message)] /\ Traffic'
    BY <1>1, <1>2, EmitControl
  <1>4. TypeInv'
    BY <1>3 DEF TypeInv, Reject, Goto, SetAllowWrite, SetRegistered, windows, streams, States
  <1>5. WindowBooks'
    BY DEF WindowBooks, Reject, windows, streams
  <1>6. HeadStart'
    BY DEF HeadStart, Early, TypeInv, Reject, Goto, SetAllowWrite, windows, streams
  <1>7. Announced'
    <2>1. <<m>> \in Seq(Message) /\ Sound(<<m>>, Early(Peer(e))')
      BY <1>1, OneMessage DEF Sound
    <2>2. \A x \in Ends : Early(x)' => Early(x)
      BY DEF Early, TypeInv, Reject, Goto
    <2> QED
      BY <1>2, <2>1, <2>2, EmitSound
  <1> QED
    BY <1>2, <1>3, <1>4, <1>5, <1>6, <1>7

\* Close only takes back the permission to write.
LEMMA CloseStep ==
  ASSUME FlowInv, NEW e \in Ends, Close(e)
  PROVE  FlowInv'
  <1> USE DEF FlowInv
  <1>1. CASE Reject(e)
    BY <1>1, RejectStep
  <1>2. CASE ~Reject(e)
    <2>1. /\ state[e] \in {"Connected", "CloseResponding", "Connecting"}
          /\ Emit(e, <<CloseMsg>>)
          /\ SetAllowWrite(e, FALSE)
          /\ \/ Goto(e, "Closed") /\ SetRegistered(e, FALSE) /\ UNCHANGED closeTimer
             \/ /\ Goto(e, "Closing")
                /\ closeTimer' = [closeTimer EXCEPT ![e] = CloseTimeout]
                /\ UNCHANGED registered
          /\ UNCHANGED <<aborted, windows, streams>>
      BY <1>2 DEF Close
    <2>2. CloseMsg \in Message /\ CloseMsg.type = "ChannelClose"
      BY MessageTypes DEF CloseMsg
    <2>3. link' \in [Ends -> Seq(Message)] /\ Traffic'
      BY <2>1, <2>2, EmitControl
    <2>4. TypeInv'
      BY <2>1, <2>3, ChannelAssumption
      DEF TypeInv, Goto, SetAllowWrite, SetRegistered, windows, streams, States
    <2>5. WindowBooks'
      BY <2>1 DEF WindowBooks, windows, streams
    <2>6. HeadStart'
      BY <2>1 DEF HeadStart, Early, TypeInv, Goto, SetAllowWrite, windows, streams
    <2>7. Announced'
      <3>1. <<CloseMsg>> \in Seq(Message) /\ Sound(<<CloseMsg>>, Early(Peer(e))')
        BY <2>2, OneMessage DEF Sound
      <3>2. \A x \in Ends : Early(x)' => Early(x)
        BY <2>1 DEF Early, TypeInv, Goto
      <3> QED
        BY <2>1, <3>1, <3>2, EmitSound
    <2> QED
      BY <2>1, <2>3, <2>4, <2>5, <2>6, <2>7
  <1> QED
    BY <1>1, <1>2

\* Send turns credit into data on the link.
LEMMA SendStep ==
  ASSUME FlowInv, NEW e \in Ends, NEW n \in Nat \ {0}, Send(e, n)
  PROVE  FlowInv'
  <1> USE DEF FlowInv
  <1> DEFINE f == Peer(e)
             p == Pieces(sent[e], n)
  <1>1. f \in Ends /\ f # e /\ Peer(f) = e /\ \A x \in Ends : x = e \/ x = f
    BY PeerFacts
  <1>2. /\ p \in Seq(Message)
        /\ Ascending(p, "ChannelData", sent[e], sent[e] + n)
        /\ \A i \in 1 .. Len(p) : p[i].type = "ChannelData"
    BY PiecesAscend DEF TypeInv
  <1>3. /\ Emit(e, p)
        /\ remoteWindow' = [remoteWindow EXCEPT ![e] = @ - n]
        /\ sent' = [sent EXCEPT ![e] = @ + n]
        /\ n <= remoteWindow[e] /\ allowWrite[e]
        /\ UNCHANGED <<state, allowWrite, aborted, session, localWindow, localConsumed,
                       granted, credited, recvQueue, arrived, read, eof>>
    BY DEF Send
  <1> HIDE DEF p
  <1>4. /\ link' \in [Ends -> Seq(Message)]
        /\ link'[e] = link[e] /\ link'[f] = link[f] \o p
    BY <1>2, <1>3, EmitLink DEF TypeInv
  <1>5. TypeInv'
    <2>1. remoteWindow[e] \in Nat /\ remoteWindow[e] - n \in Nat /\ sent[e] + n \in Nat
      BY <1>3 DEF TypeInv
    <2>2. remoteWindow' \in [Ends -> Nat] /\ sent' \in [Ends -> Nat]
      BY <1>3, <2>1 DEF TypeInv
    <2> QED
      BY <1>3, <1>4, <2>2 DEF TypeInv, session
  <1>6. WindowBooks'
    BY <1>3 DEF WindowBooks, TypeInv
  <1>7. HeadStart'
    <2>1. state[e] # "Init"
      BY <1>3 DEF HeadStart
    <2>2. /\ remoteWindow'[e] = remoteWindow[e] - n /\ sent'[e] = sent[e] + n
          /\ remoteWindow'[f] = remoteWindow[f] /\ sent'[f] = sent[f]
          /\ sent[e] \in Nat /\ remoteWindow[e] \in Nat
      BY <1>1, <1>3 DEF TypeInv
    <2>3. /\ Early(e) => remoteWindow[e] = MaxPacket - sent[e] /\ credited[e] = 0
          /\ Early(f) => remoteWindow[f] = MaxPacket - sent[f] /\ credited[f] = 0
          /\ state[f] = "Init" => ~allowWrite[f] /\ sent[f] = 0 /\ arrived[f] = 0
      BY <1>1 DEF HeadStart
    <2>4. Early(e) => remoteWindow[e] - n = MaxPacket - (sent[e] + n)
      BY <2>2, <2>3, ChannelAssumption
    <2>5. \A x \in Ends : Early(x)' = Early(x)
      BY <1>3 DEF Early
    <2> QED
      BY <1>1, <1>3, <2>1, <2>2, <2>3, <2>4, <2>5 DEF HeadStart
  <1>8. Traffic'
    <2>1. /\ sent'[e] = sent[e] + n /\ sent'[f] = sent[f]
          /\ sent[e] \in Nat /\ n \in Nat
          /\ arrived[f] \in Nat /\ credited[f] \in Nat /\ granted[e] \in Nat
      BY <1>1, <1>3 DEF TypeInv
    <2>2. /\ Ascending(link[f], "ChannelData", arrived[f], sent[e])
          /\ arrived[f] <= sent[e]
          /\ Ascending(link[f], "ChannelWindowAdjust", credited[f], granted[e])
          /\ credited[f] <= granted[e]
          /\ link[f] \in Seq(Message)
      BY <1>1 DEF Traffic, TypeInv
    <2>3. Ascending(link[f] \o p, "ChannelData", arrived[f], sent[e] + n)
      BY <1>2, <2>1, <2>2, AscendingConcat
    <2>4. Ascending(link[f] \o p, "ChannelWindowAdjust", credited[f], granted[e])
      BY <1>2, <2>1, <2>2, AscendingOther
    <2>5. arrived[f] <= sent[e] + n
      BY <2>1, <2>2
    <2> QED
      BY <1>1, <1>3, <1>4, <2>1, <2>3, <2>4, <2>5 DEF Traffic
  <1>9. Announced'
    <2>1. Sound(p, Early(f)')
      BY <1>2 DEF Sound
    <2>2. \A x \in Ends : Early(x)' => Early(x)
      BY <1>3 DEF Early
    <2> QED
      BY <1>2, <1>3, <2>1, <2>2, EmitSound
  <1> QED
    BY <1>3, <1>5, <1>6, <1>7, <1>8, <1>9

\* Recv turns queued bytes into consumed ones or into a window adjust.
LEMMA RecvStep ==
  ASSUME FlowInv, NEW e \in Ends, NEW n \in Nat \ {0}, Recv(e, n)
  PROVE  FlowInv'
  <1> USE DEF FlowInv
  <1> DEFINE f == Peer(e)
             q == recvQueue[e]
             partial == Bytes(Head(q)) > n
             taken == IF partial THEN n ELSE Bytes(Head(q))
             rest == IF partial THEN <<[Head(q) EXCEPT !.from = @ + n]>> \o Tail(q)
                                ELSE Tail(q)
  <1>1. f \in Ends /\ f # e /\ Peer(f) = e /\ \A x \in Ends : x = e \/ x = f
    BY PeerFacts
  <1>2. /\ q \in Seq(Segment) /\ q # <<>>
        /\ read[e] \in Nat /\ arrived[e] \in Nat
        /\ Fills(q, read[e], arrived[e])
    BY DEF TypeInv, Traffic, Recv
  <1>3. /\ recvQueue' = [recvQueue EXCEPT ![e] = rest]
        /\ read' = [read EXCEPT ![e] = @ + taken]
        /\ AdjustWindow(e, taken)
        /\ UNCHANGED <<state, allowWrite, aborted, session, remoteWindow, credited,
                       sent, arrived, eof>>
    BY DEF Recv
  <1>4. /\ Head(q) \in Segment /\ Tail(q) \in Seq(Segment)
        /\ Bytes(Head(q)) \in Nat \ {0}
        /\ read[e] + Bytes(Head(q)) <= arrived[e]
        /\ Fills(Tail(q), read[e] + Bytes(Head(q)), arrived[e])
    BY <1>2, FillsTail
  \* What is taken leaves a queue that starts at the new read position.
  <1>5. /\ taken \in Nat \ {0}
        /\ rest \in Seq(Segment)
        /\ Fills(rest, read[e] + taken, arrived[e])
        /\ read[e] + taken <= arrived[e]
    <2>1. CASE partial
      <3>1. n < Bytes(Head(q)) /\ taken = n /\ rest = Trimmed(q, n)
        BY <1>4, <2>1 DEF Trimmed
      <3> HIDE DEF rest, taken
      <3>2. Fills(rest, read[e] + n, arrived[e]) /\ rest \in Seq(Segment)
        BY <1>2, <3>1, FillsTrim
      <3>3. read[e] + n <= arrived[e]
        BY <1>2, <1>4, <3>1
      <3> QED
        BY <3>1, <3>2, <3>3
    <2>2. CASE ~partial
      <3>1. taken = Bytes(Head(q)) /\ rest = Tail(q)
        BY <2>2
      <3> QED
        BY <1>4, <3>1
    <2> QED
      BY <2>1, <2>2
  <1> HIDE DEF taken, rest, partial
  <1> DEFINE consumed == localConsumed[e] + taken
             adjust == AdjustMsg(granted[e], granted[e] + consumed)
  <1>6. /\ recvQueue' \in [Ends -> Seq(Segment)]
        /\ recvQueue'[e] = rest /\ recvQueue'[f] = recvQueue[f]
        /\ read' \in [Ends -> Nat]
        /\ read'[e] = read[e] + taken /\ read'[f] = read[f]
    <2>1. /\ recvQueue \in [Ends -> Seq(Segment)] /\ read \in [Ends -> Nat]
          /\ rest \in Seq(Segment) /\ read[e] + taken \in Nat
      BY <1>2, <1>5 DEF TypeInv
    <2> QED
      BY <1>1, <1>3, <2>1
  <1>7. consumed \in Nat \ {0} /\ granted[e] \in Nat /\ localWindow[e] \in Nat
    BY <1>5 DEF TypeInv
  <1>8. HeadStart'
    BY <1>3 DEF HeadStart, Early
  <1>9. \A x \in Ends : Early(x)' => Early(x)
    BY <1>3 DEF Early
  <1>10. CASE WindowIsLow(e)
    <2>1. /\ localConsumed' = [localConsumed EXCEPT ![e] = 0]
          /\ localWindow' = [localWindow EXCEPT ![e] = @ + consumed]
          /\ granted' = [granted EXCEPT ![e] = @ + consumed]
          /\ Emit(e, <<adjust>>)
      BY <1>3, <1>10 DEF AdjustWindow
    <2>2. /\ adjust \in Message /\ adjust.type = "ChannelWindowAdjust"
          /\ adjust.from = granted[e] /\ adjust.upto = granted[e] + consumed
      BY <1>7, MessageTypes DEF AdjustMsg
    <2> HIDE DEF consumed, adjust
    <2>3. <<adjust>> \in Seq(Message) /\ Len(<<adjust>>) = 1 /\ <<adjust>>[1] = adjust
      BY <2>2
    <2>4. /\ link' \in [Ends -> Seq(Message)]
          /\ link'[e] = link[e] /\ link'[f] = link[f] \o <<adjust>>
      BY <2>1, <2>3, EmitLink DEF TypeInv
    <2>5. /\ localConsumed' \in [Ends -> Nat] /\ localWindow' \in [Ends -> Nat]
          /\ granted' \in [Ends -> Nat]
          /\ localConsumed'[e] = 0 /\ localConsumed'[f] = localConsumed[f]
          /\ localWindow'[e] = localWindow[e] + consumed /\ localWindow'[f] = localWindow[f]
          /\ granted'[e] = granted[e] + consumed /\ granted'[f] = granted[f]
      <3>1. localWindow[e] + consumed \in Nat /\ granted[e] + consumed \in Nat
        BY <1>7
      <3> QED
        BY <1>1, <2>1, <3>1 DEF TypeInv
    <2>6. TypeInv'
      BY <1>3, <1>6, <2>4, <2>5 DEF TypeInv, session
    <2>7. WindowBooks'
      <3>1. /\ localWindow'[e] = WindowSize - arrived[e] + granted'[e]
            /\ localConsumed'[e] = read'[e] - granted'[e]
        <4>1. /\ localWindow[e] = WindowSize - arrived[e] + granted[e]
              /\ localConsumed[e] = read[e] - granted[e]
          BY DEF WindowBooks
        <4>2. /\ arrived[e] \in Nat /\ read[e] \in Nat /\ localConsumed[e] \in Nat
              /\ taken \in Nat
          BY <1>5 DEF TypeInv
        <4>3. consumed = localConsumed[e] + taken
          BY DEF consumed
        <4>4. /\ localWindow'[e] = localWindow[e] + consumed /\ localConsumed'[e] = 0
              /\ granted'[e] = granted[e] + consumed /\ read'[e] = read[e] + taken
          BY <1>6, <2>5
        <4> QED
          BY <1>7, <4>1, <4>2, <4>3, <4>4, ChannelAssumption
      <3> QED
        BY <1>1, <1>3, <1>6, <2>5, <3>1 DEF WindowBooks
    <2>8. Traffic'
      <3>1. granted'[e] = granted[e] + consumed /\ granted'[f] = granted[f]
        BY <1>1, <2>1 DEF TypeInv
      <3>2. /\ Ascending(link[f], "ChannelData", arrived[f], sent[e])
            /\ Ascending(link[f], "ChannelWindowAdjust", credited[f], granted[e])
            /\ arrived[f] <= sent[e] /\ credited[f] <= granted[e]
            /\ link[f] \in Seq(Message)
            /\ arrived[f] \in Nat /\ sent[e] \in Nat /\ credited[f] \in Nat
        BY <1>1 DEF Traffic, TypeInv
      <3>3. Ascending(link[f] \o <<adjust>>, "ChannelData", arrived[f], sent[e])
        <4>1. \A i \in 1 .. Len(<<adjust>>) : <<adjust>>[i].type # "ChannelData"
          BY <2>2, <2>3
        <4> QED
          BY <2>3, <3>2, <4>1, AscendingOther
      <3>4. Ascending(<<adjust>>, "ChannelWindowAdjust", granted[e], granted[e] + consumed)
        BY <1>7, <2>2, <2>3 DEF Ascending
      <3>5. granted[e] + consumed \in Nat /\ granted[e] <= granted[e] + consumed
        BY <1>7
      <3>6. Ascending(link[f] \o <<adjust>>, "ChannelWindowAdjust", credited[f],
                      granted[e] + consumed)
        BY <1>7, <2>3, <3>2, <3>4, <3>5, AscendingConcat
      <3>7. credited[f] <= granted[e] + consumed
        BY <1>7, <3>2
      <3> QED
        BY <1>1, <1>3, <1>5, <1>6, <2>4, <3>1, <3>3, <3>6, <3>7 DEF Traffic
    <2>9. Announced'
      <3>1. Sound(<<adjust>>, Early(f)')
        BY <2>2, <2>3 DEF Sound
      <3> QED
        BY <1>9, <2>1, <2>3, <3>1, EmitSound
    <2> QED
      BY <1>3, <1>8, <2>6, <2>7, <2>8, <2>9
  <1>11. CASE ~WindowIsLow(e)
    <2>1. /\ localConsumed' = [localConsumed EXCEPT ![e] = consumed]
          /\ UNCHANGED <<localWindow, granted, link>>
      BY <1>3, <1>11 DEF AdjustWindow
    <2>2. TypeInv'
      BY <1>3, <1>6, <1>7, <2>1 DEF TypeInv, session
    <2>3. WindowBooks'
      <3>1. localConsumed'[e] = read'[e] - granted[e]
        <4>1. localConsumed[e] = read[e] - granted[e] /\ localConsumed'[e] = consumed
          BY <2>1 DEF WindowBooks, TypeInv
        <4>2. read[e] \in Nat /\ localConsumed[e] \in Nat /\ taken \in Nat
          BY <1>5 DEF TypeInv
        <4> QED
          BY <1>6, <1>7, <4>1, <4>2
      <3>2. localConsumed'[f] = localConsumed[f]
        BY <1>1, <2>1 DEF TypeInv
      <3> QED
        BY <1>1, <1>3, <1>6, <2>1, <3>1, <3>2 DEF WindowBooks
    <2>4. Traffic'
      BY <1>1, <1>3, <1>5, <1>6, <2>1 DEF Traffic
    <2>5. Announced'
      BY <1>3, <2>1 DEF Announced, Early
    <2> QED
      BY <1>3, <1>8, <2>2, <2>3, <2>4, <2>5
  <1> QED
    BY <1>10, <1>11

\* The end of file moves no byte.
LEMMA RecvEofStep ==
  ASSUME FlowInv, NEW e \in Ends, RecvEof(e)
  PROVE  FlowInv'
  <1>1. /\ eof' = [eof EXCEPT ![e] = TRUE]
        /\ UNCHANGED <<state, allowWrite, link, aborted, session, windows,
                       recvQueue, sent, arrived, read>>
    BY DEF RecvEof
  <1> QED
    BY <1>1 DEF FlowInv, TypeInv, WindowBooks, HeadStart, Traffic, Announced, Early,
                session, windows

\* The acceptor takes the announced window as its credit.
LEMMA HandleNewChannelStep ==
  ASSUME FlowInv, NEW e \in Ends, HandleNewChannel(e)
  PROVE  FlowInv'
  <1> USE DEF FlowInv
  <1> DEFINE msg == Head(link[e])
  <1>1. /\ link[e] # <<>> /\ msg.type = "SetupChannel" /\ state[e] = "Init"
        /\ remoteWindow' = [remoteWindow EXCEPT ![e] = msg.window]
        /\ aborted' = (msg.window < MaxPacket)
        /\ Goto(e, "ConnectResponding") /\ SetRegistered(e, FastConnect) /\ Consume(e)
        /\ UNCHANGED <<allowWrite, closeTimer, localWindow, localConsumed, granted,
                       credited, streams>>
    BY DEF HandleNewChannel, Incoming
  <1>2. msg.window = WindowSize
    <2>1. Sound(link[e], Early(e)) /\ link[e] \in Seq(Message)
      BY DEF Announced, TypeInv
    <2>2. 1 \in 1 .. Len(link[e]) /\ msg = link[e][1]
      BY <1>1, <2>1, EmptySeq
    <2> QED
      BY <1>1, <2>1, <2>2 DEF Sound
  <1>3. link' \in [Ends -> Seq(Message)] /\ Traffic'
    BY <1>1, ConsumeTraffic
  <1>4. \A x \in Ends : /\ Early(x)' => Early(x) /\ x # e
                        /\ state'[x] = "Init" => state[x] = "Init"
    BY <1>1 DEF Early, TypeInv, Goto
  <1>5. ~aborted' /\ aborted' \in BOOLEAN
    <2>1. (msg.window < MaxPacket) = FALSE
      BY <1>2, ChannelAssumption
    <2>2. aborted' = FALSE
      BY <1>1, <2>1
    <2> QED
      BY <2>2
  <1>6. TypeInv'
    <2>1. remoteWindow' \in [Ends -> Nat]
      BY <1>1, <1>2, ChannelAssumption DEF TypeInv
    <2> QED
      BY <1>1, <1>3, <1>5, <2>1, ChannelAssumption
      DEF TypeInv, Goto, SetRegistered, streams, States
  <1>7. WindowBooks'
    <2>1. sent[e] = 0 /\ credited[e] \in Nat /\ remoteWindow'[e] = WindowSize
      BY <1>1, <1>2 DEF HeadStart, TypeInv
    <2>2. remoteWindow'[e] + sent[e] - credited[e] <= WindowSize
      BY <2>1, ChannelAssumption
    <2>3. \A x \in Ends : x # e => remoteWindow'[x] = remoteWindow[x]
      BY <1>1 DEF TypeInv
    <2> QED
      BY <1>1, <2>2, <2>3 DEF WindowBooks, streams
  <1>8. HeadStart'
    <2>1. \A x \in Ends : x # e => remoteWindow'[x] = remoteWindow[x]
      BY <1>1 DEF TypeInv
    <2> QED
      BY <1>1, <1>4, <2>1 DEF HeadStart, streams
  <1>9. Announced'
    BY <1>1, <1>4, ConsumeSound
  <1> QED
    BY <1>3, <1>5, <1>6, <1>7, <1>8, <1>9

\* A message that only leaves the link, with no effect on windows or streams.
LEMMA QuietConsume ==
  ASSUME FlowInv, NEW e \in Ends, link[e] # <<>>, Consume(e),
         UNCHANGED <<allowWrite, aborted, closeTimer, windows, streams>>,
         state' \in [Ends -> States], registered' \in [Ends -> BOOLEAN],
         \A x \in Ends : /\ Early(x)' => Early(x)
                         /\ state'[x] = "Init" => state[x] = "Init"
  PROVE  FlowInv'
  <1> USE DEF FlowInv
  <1>1. link' \in [Ends -> Seq(Message)] /\ Traffic'
    BY ConsumeTraffic DEF windows
  <1>2. TypeInv'
    BY <1>1 DEF TypeInv, windows, streams
  <1>3. WindowBooks' /\ HeadStart'
    BY DEF WindowBooks, HeadStart, windows, streams
  <1>4. Announced'
    BY ConsumeSound
  <1> QED
    BY <1>1, <1>2, <1>3, <1>4

\* A message for a channel that is not registered changes no window.
LEMMA DropUnregisteredStep ==
  ASSUME FlowInv, NEW e \in Ends, DropUnregistered(e)
  PROVE  FlowInv'
  <1>1. /\ link[e] # <<>> /\ Consume(e)
        /\ UNCHANGED <<state, allowWrite, aborted, registered, closeTimer, windows, streams>>
    BY DEF DropUnregistered, session
  <1>2. \A x \in Ends : Early(x)' = Early(x)
    BY <1>1 DEF Early
  <1>3. state' \in [Ends -> States] /\ registered' \in [Ends -> BOOLEAN]
    BY <1>1 DEF FlowInv, TypeInv
  <1> QED
    BY <1>1, <1>2, <1>3, QuietConsume

\* The answer replaces the head start by the announced window, less what the
\* head start has used of it.
LEMMA HandleAcceptedStep ==
  ASSUME FlowInv, NEW e \in Ends, NEW msg, link[e] # <<>>, msg = Head(link[e]),
         msg.type = "SetupChannelResponse", msg.accept, state[e] = "Connecting",
         HandleAccepted(e, msg)
  PROVE  FlowInv'
  <1> USE DEF FlowInv
  <1> DEFINE used == MaxPacket - remoteWindow[e]
             left == IF used <= msg.window THEN msg.window - used ELSE 0
  <1>1. /\ remoteWindow' = [remoteWindow EXCEPT ![e] = left]
        /\ aborted' = (msg.window < MaxPacket)
        /\ Goto(e, "Connected") /\ SetAllowWrite(e, TRUE) /\ Consume(e)
        /\ UNCHANGED <<session, localWindow, localConsumed, granted, credited, streams>>
    BY DEF HandleAccepted
  <1>2. msg.window \in Nat /\ msg.window <= WindowSize /\ MaxPacket <= msg.window
    <2>1. Sound(link[e], Early(e)) /\ link[e] \in Seq(Message) /\ Early(e)
      BY DEF Announced, TypeInv, Early
    <2>2. 1 \in 1 .. Len(link[e]) /\ msg = link[e][1]
      BY <2>1, EmptySeq
    <2>3. msg \in Message
      BY <2>1, <2>2, ElementOfSeq
    <2> QED
      BY <2>1, <2>2, <2>3, MessageFields DEF Sound
  <1>3. used = sent[e] /\ sent[e] \in Nat /\ credited[e] = 0 /\ remoteWindow[e] \in Nat
    BY ChannelAssumption DEF HeadStart, Early, TypeInv
  <1>4. left \in Nat /\ left + sent[e] - credited[e] <= WindowSize
    <2>1. sent[e] <= MaxPacket /\ MaxPacket \in Nat /\ WindowSize \in Nat
      BY <1>3, ChannelAssumption
    <2>2. used <= msg.window
      BY <1>2, <1>3, <2>1
    <2>3. left = msg.window - sent[e]
      BY <1>3, <2>2
    <2> HIDE DEF used, left, FlowInv
    <2>4. left \in Nat
      BY <1>2, <1>3, <2>2, <2>3
    <2>5. left + sent[e] - credited[e] = msg.window
      BY <1>2, <1>3, <2>3
    <2> QED
      BY <1>2, <2>4, <2>5
  <1> HIDE DEF used, left
  <1>5. link' \in [Ends -> Seq(Message)] /\ Traffic'
    BY <1>1, ConsumeTraffic
  <1>6. \A x \in Ends : /\ Early(x)' => Early(x) /\ x # e
                        /\ state'[x] = "Init" => state[x] = "Init" /\ x # e
    BY <1>1 DEF Early, TypeInv, Goto
  <1>7. ~aborted' /\ aborted' \in BOOLEAN
    <2>1. (msg.window < MaxPacket) = FALSE
      BY <1>2, ChannelAssumption
    <2>2. aborted' = FALSE
      BY <1>1, <2>1
    <2> QED
      BY <2>2
  <1>8. /\ remoteWindow' \in [Ends -> Nat]
        /\ remoteWindow'[e] = left
        /\ \A x \in Ends : x # e => remoteWindow'[x] = remoteWindow[x]
    BY <1>1, <1>4 DEF TypeInv
  <1>9. TypeInv'
    BY <1>1, <1>5, <1>7, <1>8
    DEF TypeInv, Goto, SetAllowWrite, session, streams, States
  <1>10. WindowBooks'
    BY <1>1, <1>4, <1>8 DEF WindowBooks, streams
  <1>11. HeadStart'
    <2>1. \A x \in Ends : x # e => allowWrite'[x] = allowWrite[x]
      BY <1>1 DEF SetAllowWrite, TypeInv
    <2> QED
      BY <1>1, <1>6, <1>8, <2>1 DEF HeadStart, streams
  <1>12. Announced'
    BY <1>1, <1>6, ConsumeSound
  <1> QED
    BY <1>5, <1>7, <1>9, <1>10, <1>11, <1>12

\* A refused channel sends at most a Close.
LEMMA HandleRejectedStep ==
  ASSUME FlowInv, NEW e \in Ends, link[e] # <<>>, HandleRejected(e)
  PROVE  FlowInv'
  <1> USE DEF FlowInv
  <1> DEFINE f == Peer(e)
             p == IF FastConnect THEN <<CloseMsg>> ELSE <<>>
  <1>1. f \in Ends /\ f # e /\ Peer(f) = e /\ \A x \in Ends : x = e \/ x = f
    BY PeerFacts
  <1>2. /\ Goto(e, "Rejected") /\ SetRegistered(e, FALSE)
        /\ link' = [link EXCEPT ![e] = Tail(@), ![f] = @ \o p]
        /\ UNCHANGED <<allowWrite, aborted, closeTimer, windows, streams>>
    BY DEF HandleRejected
  <1>3. p \in Seq(Message) /\ \A i \in 1 .. Len(p) : p[i].type = "ChannelClose"
    <2>1. CASE FastConnect
      BY <2>1, MessageTypes, OneMessage DEF CloseMsg
    <2>2. CASE ~FastConnect
      BY <2>2
    <2> QED
      BY <2>1, <2>2
  <1> HIDE DEF p
  <1>4. link[e] \in Seq(Message) /\ link[f] \in Seq(Message)
    BY <1>1 DEF TypeInv
  <1>5. /\ link' \in [Ends -> Seq(Message)]
        /\ link'[e] = Tail(link[e]) /\ link'[f] = link[f] \o p
    <2>1. Tail(link[e]) \in Seq(Message) /\ link[f] \o p \in Seq(Message)
      BY <1>3, <1>4, HeadTailProperties, ConcatProperties
    <2> QED
      BY <1>1, <1>2, <2>1 DEF TypeInv
  <1>6. Traffic'
    <2>1. /\ Ascending(Tail(link[e]), "ChannelData", arrived[e], sent[f])
          /\ Ascending(Tail(link[e]), "ChannelWindowAdjust", credited[e], granted[f])
      BY <1>1, <1>4, AscendingTail DEF Traffic
    <2>2. /\ Ascending(link[f] \o p, "ChannelData", arrived[f], sent[e])
          /\ Ascending(link[f] \o p, "ChannelWindowAdjust", credited[f], granted[e])
      BY <1>1, <1>3, <1>4, AscendingOther DEF Traffic, TypeInv
    <2> QED
      BY <1>1, <1>2, <1>5, <2>1, <2>2 DEF Traffic, windows, streams
  <1>7. \A x \in Ends : /\ Early(x)' => Early(x)
                        /\ state'[x] = "Init" => state[x] = "Init"
    BY <1>2 DEF Early, TypeInv, Goto
  <1>8. TypeInv'
    BY <1>2, <1>5 DEF TypeInv, Goto, SetRegistered, windows, streams, States
  <1>9. WindowBooks' /\ HeadStart'
    BY <1>2, <1>7 DEF WindowBooks, HeadStart, windows, streams
  <1>10. Announced'
    <2>1. /\ Early(e) \in BOOLEAN /\ Early(e)' \in BOOLEAN
          /\ Early(f) \in BOOLEAN /\ Early(f)' \in BOOLEAN
      BY DEF Early
    <2>2. Sound(link[e], Early(e)) /\ Sound(link[f], Early(f))
      BY <1>1 DEF Announced
    <2>3. Sound(Tail(link[e]), Early(e)')
      BY <1>4, <1>7, <2>1, <2>2, SoundTail
    <2>4. Sound(p, Early(f)')
      BY <1>3, SoundNone
    <2>5. Sound(link[f] \o p, Early(f)')
      BY <1>1, <1>3, <1>4, <1>7, <2>1, <2>2, <2>4, SoundConcat
    <2> QED
      BY <1>1, <1>5, <2>3, <2>5 DEF Announced
  <1> QED
    BY <1>2, <1>6, <1>8, <1>9, <1>10

\* Every answer to the set-up preserves the invariant.
LEMMA HandleNewChannelResponseStep ==
  ASSUME FlowInv, NEW e \in Ends, HandleNewChannelResponse(e)
  PROVE  FlowInv'
  <1> DEFINE msg == Head(link[e])
  <1>1. link[e] # <<>> /\ msg.type = "SetupChannelResponse"
    BY DEF HandleNewChannelResponse, Incoming
  <1>2. CASE state[e] = "Connecting" /\ msg.accept /\ HandleAccepted(e, msg)
    BY <1>1, <1>2, HandleAcceptedStep
  <1>3. CASE state[e] = "Connecting" /\ ~msg.accept /\ HandleRejected(e)
    BY <1>1, <1>3, HandleRejectedStep
  <1>4. CASE /\ state[e] # "Connecting" /\ Consume(e)
             /\ UNCHANGED <<state, allowWrite, aborted, session, windows, streams>>
    <2>1. \A x \in Ends : Early(x)' = Early(x)
      BY <1>4 DEF Early
    <2>2. state' \in [Ends -> States] /\ registered' \in [Ends -> BOOLEAN]
      BY <1>4 DEF FlowInv, TypeInv, session
    <2>3. UNCHANGED <<allowWrite, aborted, closeTimer, windows, streams>> /\ state' = state
      BY <1>4 DEF session
    <2> QED
      BY <1>1, <1>4, <2>1, <2>2, <2>3, QuietConsume
  <1> QED
    BY <1>2, <1>3, <1>4 DEF HandleNewChannelResponse

\* Data never exceed the window that is open when they arrive: what has been
\* sent and not yet arrived is at most localWindow.
LEMMA HandleChannelDataStep ==
  ASSUME FlowInv, NEW e \in Ends, HandleChannelData(e)
  PROVE  FlowInv'
  <1> USE DEF FlowInv
  <1> DEFINE f == Peer(e)
             msg == Head(link[e])
             seg == [from |-> msg.from, upto |-> msg.upto]
  <1>1. f \in Ends /\ f # e /\ Peer(f) = e /\ \A x \in Ends : x = e \/ x = f
    BY PeerFacts
  <1>2. /\ link[e] # <<>> /\ msg.type = "ChannelData" /\ Consume(e)
        /\ UNCHANGED <<state, allowWrite, session, remoteWindow,
                       localConsumed, granted, credited, sent, read, eof>>
    BY DEF HandleChannelData, Incoming
  <1>3. \A x \in Ends : /\ Early(x)' = Early(x)
                        /\ state'[x] = "Init" => state[x] = "Init"
    BY <1>2 DEF Early
  <1>4. link[e] \in Seq(Message)
    BY DEF TypeInv
  <1>5. msg.from \in Nat /\ msg.upto \in Nat
    <2>1. msg \in Message
      BY <1>2, <1>4, HeadTailProperties, EmptySeq
    <2> QED
      BY <1>2, <2>1, MessageFields
  <1>6. /\ Ascending(Tail(link[e]), "ChannelData", msg.upto, sent[f])
        /\ arrived[e] <= msg.from /\ msg.from < msg.upto /\ msg.upto <= sent[f]
    BY <1>1, <1>2, <1>4, AscendingTail DEF Traffic
  <1>7. seg \in Segment /\ Bytes(seg) = Bytes(msg)
    BY <1>5 DEF Segment, Bytes
  <1>8. /\ arrived[e] \in Nat /\ sent[f] \in Nat /\ localWindow[e] \in Nat
        /\ Bytes(msg) \in Nat \ {0} /\ arrived[e] + Bytes(msg) <= msg.upto
    <2>1. arrived[e] \in Nat /\ sent[f] \in Nat /\ localWindow[e] \in Nat
      BY <1>1 DEF TypeInv
    <2>2. Bytes(msg) = msg.upto - msg.from
      BY DEF Bytes
    <2> HIDE DEF msg, f
    <2> QED
      BY <1>5, <1>6, <2>1, <2>2
  \* A fresh channel takes no data.
  <1>9. state[e] # "Init" \/ ~TakesData(e)
    BY DEF TakesData
  \* The credit of the sender bounds what it has sent.
  <1>10. Bytes(msg) <= localWindow[e]
    <2>1. /\ localWindow[e] = WindowSize - arrived[e] + granted[e]
          /\ remoteWindow[f] + sent[f] - credited[f] <= WindowSize
          /\ credited[f] <= granted[e]
      BY <1>1 DEF WindowBooks, Traffic
    <2>2. /\ remoteWindow[f] \in Nat /\ credited[f] \in Nat /\ granted[e] \in Nat
          /\ WindowSize \in Nat
      BY <1>1, ChannelAssumption DEF TypeInv
    <2> QED
      BY <1>5, <1>6, <1>8, <2>1, <2>2
  <1>11. Announced'
    BY <1>2, <1>3, ConsumeSound
  <1>12. CASE ~TakesData(e)
    <2>1. UNCHANGED <<recvQueue, localWindow, arrived, aborted>>
      BY <1>12 DEF HandleChannelData
    <2>2. /\ state' \in [Ends -> States] /\ registered' \in [Ends -> BOOLEAN]
      BY <1>2 DEF TypeInv, session
    <2>3. UNCHANGED <<allowWrite, aborted, closeTimer, windows, streams>>
      BY <1>2, <2>1 DEF windows, streams, session
    <2> QED
      BY <1>2, <1>3, <2>2, <2>3, QuietConsume
  <1>13. CASE TakesData(e)
    <2>1. /\ recvQueue' = [recvQueue EXCEPT ![e] = Append(@, seg)]
          /\ localWindow' = [localWindow EXCEPT ![e] = @ - Bytes(msg)]
          /\ arrived' = [arrived EXCEPT ![e] = @ + Bytes(msg)]
          /\ UNCHANGED aborted
      <3>1. ~(Bytes(msg) > localWindow[e])
        BY <1>8, <1>10
      <3> QED
        BY <1>13, <3>1 DEF HandleChannelData
    <2> HIDE DEF seg
    <2>2. /\ localWindow[e] - Bytes(msg) \in Nat /\ arrived[e] + Bytes(msg) \in Nat
          /\ Append(recvQueue[e], seg) \in Seq(Segment)
      <3>1. recvQueue[e] \in Seq(Segment)
        BY DEF TypeInv
      <3> QED
        BY <1>7, <1>8, <1>10, <3>1, AppendProperties
    <2>3. /\ recvQueue' \in [Ends -> Seq(Segment)]
          /\ recvQueue'[e] = Append(recvQueue[e], seg) /\ recvQueue'[f] = recvQueue[f]
      BY <1>1, <2>1, <2>2 DEF TypeInv
    <2>4. /\ localWindow' \in [Ends -> Nat]
          /\ localWindow'[e] = localWindow[e] - Bytes(msg)
          /\ localWindow'[f] = localWindow[f]
      BY <1>1, <2>1, <2>2 DEF TypeInv
    <2>5. /\ arrived' \in [Ends -> Nat]
          /\ arrived'[e] = arrived[e] + Bytes(msg) /\ arrived'[f] = arrived[f]
      BY <1>1, <2>1, <2>2 DEF TypeInv
    <2>6. /\ link' \in [Ends -> Seq(Message)]
          /\ link'[e] = Tail(link[e]) /\ link'[f] = link[f]
      BY <1>1, <1>2, ConsumeLink DEF TypeInv
    <2>7. TypeInv'
      BY <1>2, <2>1, <2>3, <2>4, <2>5, <2>6 DEF TypeInv, session
    <2>8. WindowBooks'
      <3>1. localWindow'[e] = WindowSize - arrived'[e] + granted[e]
        <4>1. /\ localWindow[e] = WindowSize - arrived[e] + granted[e]
              /\ granted[e] \in Nat /\ WindowSize \in Nat
          BY ChannelAssumption DEF WindowBooks, TypeInv
        <4> QED
          BY <1>8, <2>4, <2>5, <4>1
      <3> QED
        BY <1>1, <1>2, <2>4, <2>5, <3>1 DEF WindowBooks
    <2>9. HeadStart'
      BY <1>1, <1>2, <1>3, <1>9, <1>13, <2>5 DEF HeadStart
    <2>10. Traffic'
      <3>1. Ascending(Tail(link[e]), "ChannelData", arrived'[e], sent[f])
        <4>1. Tail(link[e]) \in Seq(Message)
          BY <1>2, <1>4, HeadTailProperties, EmptySeq
        <4> QED
          BY <1>5, <1>6, <1>8, <2>2, <2>5, <4>1, AscendingLower
      <3>2. Ascending(Tail(link[e]), "ChannelWindowAdjust", credited[e], granted[f])
        BY <1>1, <1>2, <1>4, AscendingTail DEF Traffic
      <3>3. Fills(recvQueue'[e], read[e], arrived'[e])
        <4>1. /\ recvQueue[e] \in Seq(Segment) /\ read[e] \in Nat
              /\ Fills(recvQueue[e], read[e], arrived[e])
          BY DEF TypeInv, Traffic
        <4>2. seg.from < seg.upto
          BY <1>6 DEF seg
        <4> QED
          BY <1>7, <1>8, <2>3, <2>5, <4>1, <4>2, FillsAppend
      <3>4. arrived'[e] <= sent[f]
        BY <1>5, <1>6, <1>8, <2>5
      <3>5. read[e] <= arrived'[e]
        <4>1. read[e] \in Nat /\ read[e] <= arrived[e]
          BY DEF TypeInv, Traffic
        <4> QED
          BY <1>8, <2>5, <4>1
      <3> QED
        BY <1>1, <1>2, <2>3, <2>5, <2>6, <3>1, <3>2, <3>3, <3>4, <3>5 DEF Traffic
    <2> QED
      BY <1>11, <2>1, <2>7, <2>8, <2>9, <2>10
  <1> QED
    BY <1>12, <1>13

\* A window adjust moves its bytes from those granted to those credited.
LEMMA HandleWindowAdjustStep ==
  ASSUME FlowInv, NEW e \in Ends, HandleWindowAdjust(e)
  PROVE  FlowInv'
  <1> USE DEF FlowInv
  <1> DEFINE f == Peer(e)
             msg == Head(link[e])
  <1>1. f \in Ends /\ f # e /\ Peer(f) = e /\ \A x \in Ends : x = e \/ x = f
    BY PeerFacts
  <1>2. /\ link[e] # <<>> /\ msg.type = "ChannelWindowAdjust" /\ Consume(e)
        /\ UNCHANGED <<state, allowWrite, aborted, session, localWindow, localConsumed,
                       granted, streams>>
    BY DEF HandleWindowAdjust, Incoming
  <1>3. \A x \in Ends : /\ Early(x)' = Early(x)
                        /\ state'[x] = "Init" => state[x] = "Init"
    BY <1>2 DEF Early
  <1>4. link[e] \in Seq(Message)
    BY DEF TypeInv
  <1>5. msg.from \in Nat /\ msg.upto \in Nat
    <2>1. msg \in Message
      BY <1>2, <1>4, HeadTailProperties, EmptySeq
    <2> QED
      BY <1>2, <2>1, MessageFields
  <1>6. /\ Ascending(Tail(link[e]), "ChannelWindowAdjust", msg.upto, granted[f])
        /\ credited[e] <= msg.from /\ msg.from < msg.upto /\ msg.upto <= granted[f]
    BY <1>1, <1>2, <1>4, AscendingTail DEF Traffic
  <1>7. /\ credited[e] \in Nat /\ granted[f] \in Nat /\ remoteWindow[e] \in Nat
        /\ Bytes(msg) \in Nat \ {0} /\ credited[e] + Bytes(msg) <= msg.upto
    <2>1. credited[e] \in Nat /\ granted[f] \in Nat /\ remoteWindow[e] \in Nat
      BY <1>1 DEF TypeInv
    <2>2. Bytes(msg) = msg.upto - msg.from
      BY DEF Bytes
    <2> HIDE DEF msg, f
    <2> QED
      BY <1>5, <1>6, <2>1, <2>2
  <1>8. CASE ~Readable(e)
    <2>1. UNCHANGED <<remoteWindow, credited>>
      BY <1>8 DEF HandleWindowAdjust
    <2>2. /\ state' \in [Ends -> States] /\ registered' \in [Ends -> BOOLEAN]
      BY <1>2 DEF TypeInv, session
    <2>3. UNCHANGED <<allowWrite, aborted, closeTimer, windows, streams>>
      BY <1>2, <2>1 DEF windows, session
    <2> QED
      BY <1>2, <1>3, <2>2, <2>3, QuietConsume
  <1>9. CASE Readable(e)
    <2>1. /\ remoteWindow' = [remoteWindow EXCEPT ![e] = @ + Bytes(msg)]
          /\ credited' = [credited EXCEPT ![e] = @ + Bytes(msg)]
      BY <1>9 DEF HandleWindowAdjust
    <2>2. /\ remoteWindow' \in [Ends -> Nat]
          /\ remoteWindow'[e] = remoteWindow[e] + Bytes(msg)
          /\ remoteWindow'[f] = remoteWindow[f]
      <3>1. remoteWindow \in [Ends -> Nat]
        BY DEF TypeInv
      <3>2. remoteWindow[e] + Bytes(msg) \in Nat
        BY <1>7
      <3> QED
        BY <1>1, <2>1, <3>1, <3>2
    <2>3. /\ credited' \in [Ends -> Nat]
          /\ credited'[e] = credited[e] + Bytes(msg) /\ credited'[f] = credited[f]
      <3>1. credited \in [Ends -> Nat]
        BY DEF TypeInv
      <3>2. credited[e] + Bytes(msg) \in Nat
        BY <1>7
      <3> QED
        BY <1>1, <2>1, <3>1, <3>2
    <2>4. /\ link' \in [Ends -> Seq(Message)]
          /\ link'[e] = Tail(link[e]) /\ link'[f] = link[f]
      BY <1>1, <1>2, ConsumeLink DEF TypeInv
    <2>5. TypeInv'
      BY <1>2, <2>2, <2>3, <2>4 DEF TypeInv, session, streams
    <2>6. WindowBooks'
      <3>1. remoteWindow'[e] + sent[e] - credited'[e] <= WindowSize
        <4>1. remoteWindow[e] + sent[e] - credited[e] <= WindowSize
          BY DEF WindowBooks
        <4>2. sent[e] \in Nat /\ WindowSize \in Nat
          BY ChannelAssumption DEF TypeInv
        <4> QED
          BY <1>7, <2>2, <2>3, <4>1, <4>2
      <3> QED
        BY <1>1, <1>2, <2>2, <2>3, <3>1 DEF WindowBooks, streams
    <2>7. HeadStart'
      <3>1. ~Early(e)
        BY <1>9 DEF Readable, Early
      <3> QED
        BY <1>1, <1>2, <1>3, <2>2, <2>3, <3>1 DEF HeadStart, streams
    <2>8. Traffic'
      <3>1. Ascending(Tail(link[e]), "ChannelWindowAdjust", credited'[e], granted[f])
        <4>1. Tail(link[e]) \in Seq(Message) /\ credited'[e] \in Nat
          BY <1>1, <1>2, <1>4, <2>3, HeadTailProperties, EmptySeq
        <4> QED
          BY <1>5, <1>6, <1>7, <2>3, <4>1, AscendingLower
      <3>2. Ascending(Tail(link[e]), "ChannelData", arrived[e], sent[f])
        BY <1>1, <1>2, <1>4, AscendingTail DEF Traffic
      <3>3. credited'[e] <= granted[f]
        BY <1>5, <1>6, <1>7, <2>3
      <3> QED
        BY <1>1, <1>2, <2>3, <2>4, <3>1, <3>2, <3>3 DEF Traffic, streams
    <2>9. Announced'
      BY <1>2, <1>3, ConsumeSound
    <2> QED
      BY <1>2, <2>5, <2>6, <2>7, <2>8, <2>9
  <1> QED
    BY <1>8, <1>9

\* A Close message moves no byte.
LEMMA HandleChannelCloseStep ==
  ASSUME FlowInv, NEW e \in Ends, HandleChannelClose(e)
  PROVE  FlowInv'
  <1>1. /\ link[e] # <<>> /\ Consume(e)
        /\ UNCHANGED <<allowWrite, aborted, closeTimer, windows, streams>>
    BY DEF HandleChannelClose, Incoming
  <1>2. \A x \in Ends : /\ Early(x)' => Early(x)
                        /\ state'[x] = "Init" => state[x] = "Init"
    BY DEF HandleChannelClose, Early, Goto, FlowInv, TypeInv
  <1>3. state' \in [Ends -> States] /\ registered' \in [Ends -> BOOLEAN]
    BY DEF HandleChannelClose, Goto, SetRegistered, FlowInv, TypeInv, States
  <1> QED
    BY <1>1, <1>2, <1>3, QuietConsume

\* Neither does the close timeout.
LEMMA CloseTimeoutTriggeredStep ==
  ASSUME FlowInv, NEW e \in Ends, CloseTimeoutTriggered(e)
  PROVE  FlowInv'
  <1>1. UNCHANGED <<allowWrite, link, aborted, windows, streams>>
    BY DEF CloseTimeoutTriggered
  <1>2. \A x \in Ends : /\ Early(x)' = Early(x)
                        /\ state'[x] = "Init" <=> state[x] = "Init"
    <2>1. state' = state \/ (state[e] = "Closing" /\ Goto(e, "Closed"))
      BY DEF CloseTimeoutTriggered
    <2>2. CASE state' = state
      BY <2>2 DEF Early
    <2>3. CASE state[e] = "Closing" /\ Goto(e, "Closed")
      <3>1. state \in [Ends -> States]
        BY DEF FlowInv, TypeInv
      <3>2. state' = [state EXCEPT ![e] = "Closed"]
        BY <2>3 DEF Goto
      <3> SUFFICES ASSUME NEW x \in Ends
                   PROVE  /\ Early(x)' = Early(x)
                          /\ state'[x] = "Init" <=> state[x] = "Init"
        OBVIOUS
      <3>3. CASE x = e
        <4>1. state'[x] = "Closed" /\ state[x] = "Closing"
          BY <2>3, <3>1, <3>2, <3>3
        <4> QED
          BY <4>1 DEF Early
      <3>4. CASE x # e
        <4>1. state'[x] = state[x]
          BY <3>1, <3>2, <3>4
        <4> QED
          BY <4>1 DEF Early
      <3> QED
        BY <3>3, <3>4
    <2> QED
      BY <2>1, <2>2, <2>3
  <1>3. /\ state' \in [Ends -> States] /\ registered' \in [Ends -> BOOLEAN]
        /\ closeTimer' \in [Ends -> BOOLEAN]
    BY DEF CloseTimeoutTriggered, Goto, SetRegistered, FlowInv, TypeInv, States
  <1>4. Announced'
    <2>1. \A x \in Ends : link'[x] = link[x] /\ Early(x)' = Early(x)
      BY <1>1, <1>2
    <2> QED
      BY <2>1 DEF FlowInv, Announced
  <1>5. HeadStart'
    BY <1>1, <1>2 DEF FlowInv, HeadStart, windows, streams
  <1> QED
    BY <1>1, <1>3, <1>4, <1>5 DEF FlowInv, TypeInv, WindowBooks, Traffic, windows, streams
-----------------------------------------------------------------------------
(* The theorems. *)

\* The invariant holds before anything has happened.
LEMMA FlowInit == Init => FlowInv
  <1> SUFFICES ASSUME Init PROVE FlowInv
    OBVIOUS
  <1> USE ChannelAssumption DEF Init
  <1>1. TypeInv
    <2>1. \A e \in Ends : <<>> \in Seq(Segment) /\ <<>> \in Seq(Message)
      OBVIOUS
    <2>2. /\ recvQueue \in [Ends -> Seq(Segment)]
          /\ link \in [Ends -> Seq(Message)]
      BY <2>1
    <2>3. /\ registered \in [Ends -> BOOLEAN] /\ allowWrite \in [Ends -> BOOLEAN]
          /\ closeTimer \in [Ends -> BOOLEAN] /\ eof \in [Ends -> BOOLEAN]
          /\ aborted \in BOOLEAN
      OBVIOUS
    <2>4. /\ state \in [Ends -> States]
          /\ remoteWindow \in [Ends -> Nat] /\ localWindow \in [Ends -> Nat]
          /\ localConsumed \in [Ends -> Nat] /\ sent \in [Ends -> Nat]
          /\ arrived \in [Ends -> Nat] /\ read \in [Ends -> Nat]
          /\ granted \in [Ends -> Nat] /\ credited \in [Ends -> Nat]
      BY DEF States
    <2> QED
      BY <2>2, <2>3, <2>4 DEF TypeInv
  <1>2. WindowBooks /\ HeadStart
    BY DEF WindowBooks, HeadStart, Early
  <1>3. \A e \in Ends : Peer(e) \in Ends
    BY PeerFacts
  <1>4. \A e \in Ends : /\ Ascending(link[e], "ChannelData", 0, 0)
                        /\ Ascending(link[e], "ChannelWindowAdjust", 0, 0)
    BY DEF Ascending
  <1>5. \A e \in Ends : Fills(recvQueue[e], 0, 0)
    <2>1. Fills(<<>>, 0, 0)
      <3> DEFINE at == [i \in 1 .. 1 |-> 0]
      <3>1. Len(<<>>) = 0
        OBVIOUS
      <3>2. /\ at \in [1 .. Len(<<>>) + 1 -> 0 .. 0]
            /\ at[1] = 0 /\ at[Len(<<>>) + 1] = 0
        BY <3>1
      <3>3. /\ \A i \in 1 .. Len(<<>>) : Bytes(<<>>[i]) = at[i + 1] - at[i]
            /\ \A i, j \in 1 .. Len(<<>>) + 1 : i < j => at[i] < at[j]
        BY <3>1
      <3> HIDE DEF at
      <3> QED
        BY <3>2, <3>3 DEF Fills
    <2> QED
      BY <2>1
  <1>6. Traffic
    BY <1>3, <1>4, <1>5 DEF Traffic
  <1>7. Announced
    BY DEF Announced, Sound
  <1> QED
    BY <1>1, <1>2, <1>6, <1>7 DEF FlowInv

\* Every step of every call, handler and timer preserves the invariant.
LEMMA FlowNext == FlowInv /\ [Next]_vars => FlowInv'
  <1> SUFFICES ASSUME FlowInv, [Next]_vars PROVE FlowInv'
    OBVIOUS
  <1>1. CASE Next
    <2>1. PICK e \in Ends : Call(e) \/ Receive(e) \/ CloseTimeoutTriggered(e)
      BY <1>1 DEF Next
    <2>2. CASE Call(e)
      <3>1. CASE \E n \in ChunkSizes : Send(e, n)
        BY <3>1, SendStep, ChannelAssumption
      <3>2. CASE \E n \in ReadSizes : Recv(e, n)
        BY <3>2, RecvStep, ChannelAssumption
      <3> QED
        BY <2>2, <3>1, <3>2, ConnectStep, AcceptStep, CloseStep, RecvEofStep DEF Call
    <2>3. CASE Receive(e)
      BY <2>3, HandleNewChannelStep, DropUnregisteredStep, HandleNewChannelResponseStep,
         HandleChannelDataStep, HandleWindowAdjustStep, HandleChannelCloseStep DEF Receive
    <2> QED
      BY <2>1, <2>2, <2>3, CloseTimeoutTriggeredStep
  <1>2. CASE UNCHANGED vars
    BY <1>2 DEF FlowInv, TypeInv, WindowBooks, HeadStart, Traffic, Announced, Early,
                vars, session, windows, streams
  <1> QED
    BY <1>1, <1>2

\* The inductive invariant of flow control.
THEOREM FlowInvariant == Spec => []FlowInv
  BY FlowInit, FlowNext, PTL DEF Spec

\* The windows, in the words of the invariant: what a sender may still send,
\* what is under way and what is on its way back fit into the open window.
LEMMA FlowBooks ==
  ASSUME FlowInv, NEW s \in Ends
  PROVE  /\ localWindow[s] + localConsumed[s] + (arrived[s] - read[s]) = WindowSize
         /\ localWindow[s] \in 0 .. WindowSize
         /\ localConsumed[s] \in 0 .. WindowSize
         /\ remoteWindow[s] \in 0 .. WindowSize
         /\ remoteWindow[s] + InFlight(s) + GrantsInFlight(s) <= localWindow[Peer(s)]
  <1> DEFINE r == Peer(s)
  <1>1. r \in Ends /\ Peer(r) = s
    BY PeerFacts
  <1>2. /\ localWindow[s] = WindowSize - arrived[s] + granted[s]
        /\ localConsumed[s] = read[s] - granted[s]
        /\ localConsumed[r] = read[r] - granted[r]
        /\ localWindow[r] = WindowSize - arrived[r] + granted[r]
        /\ remoteWindow[s] + sent[s] - credited[s] <= WindowSize
    BY <1>1 DEF FlowInv, WindowBooks
  <1>3. /\ read[s] <= arrived[s] /\ read[r] <= arrived[r]
        /\ arrived[r] <= sent[s] /\ credited[s] <= granted[r]
    BY <1>1 DEF FlowInv, Traffic
  <1>4. /\ localWindow[s] \in Nat /\ localConsumed[s] \in Nat /\ remoteWindow[s] \in Nat
        /\ localWindow[r] \in Nat /\ localConsumed[r] \in Nat
        /\ arrived[s] \in Nat /\ read[s] \in Nat /\ granted[s] \in Nat
        /\ arrived[r] \in Nat /\ read[r] \in Nat /\ granted[r] \in Nat
        /\ sent[s] \in Nat /\ credited[s] \in Nat /\ WindowSize \in Nat
    BY <1>1, ChannelAssumption DEF FlowInv, TypeInv
  <1>5. InFlight(s) = sent[s] - arrived[r] /\ GrantsInFlight(s) = granted[r] - credited[s]
    BY DEF InFlight, GrantsInFlight
  <1> HIDE DEF r
  <1>6. /\ localWindow[s] + localConsumed[s] + (arrived[s] - read[s]) = WindowSize
        /\ localWindow[s] \in 0 .. WindowSize
        /\ localConsumed[s] \in 0 .. WindowSize
    <2>1. localWindow[s] + localConsumed[s] + (arrived[s] - read[s]) = WindowSize
      BY <1>2, <1>4
    <2>2. localWindow[s] <= WindowSize /\ localConsumed[s] <= WindowSize
      BY <1>3, <1>4, <2>1
    <2> QED
      BY <1>4, <2>1, <2>2
  <1>7. remoteWindow[s] \in 0 .. WindowSize
    BY <1>2, <1>3, <1>4
  <1>8. remoteWindow[s] + InFlight(s) + GrantsInFlight(s) <= localWindow[r]
    BY <1>2, <1>4, <1>5
  <1> QED
    BY <1>6, <1>7, <1>8 DEF r

\* Type correctness, with every window between 0 and WindowSize.
THEOREM TypeCorrect == Spec => []TypeOK
  <1>1. FlowInv => TypeOK
    BY FlowBooks DEF FlowInv, TypeInv, TypeOK
  <1> QED
    BY <1>1, FlowInvariant, PTL

\* The flow control of the code never aborts: no sender overruns the window
\* of its peer, whatever the window, the packet size and the features.
THEOREM NoAbort == Spec => []NeverAborts
  <1>1. FlowInv => NeverAborts
    BY DEF FlowInv, NeverAborts
  <1> QED
    BY <1>1, FlowInvariant, PTL

\* A receiver always accounts for its whole window.
THEOREM LedgerHolds == Spec => []LocalLedger
  <1>1. FlowInv => LocalLedger
    BY FlowBooks DEF LocalLedger
  <1> QED
    BY <1>1, FlowInvariant, PTL

\* The credit of a sender is covered by the window its peer keeps open.
THEOREM CreditIsCovered == Spec => []CreditCovered
  <1>1. FlowInv => CreditCovered
    BY FlowBooks DEF CreditCovered
  <1> QED
    BY <1>1, FlowInvariant, PTL
-----------------------------------------------------------------------------
(* The registry of the session. *)

\* The states in which the session of end e holds its channel.
Held(e) ==
  \/ state[e] \in {"Connecting", "Connected", "CloseResponding", "Closing"}
  \/ FastConnect /\ state[e] = "ConnectResponding"

RegistryInv ==
  /\ state \in [Ends -> States]
  /\ registered \in [Ends -> BOOLEAN]
  /\ \A e \in Ends : registered[e] = Held(e)

\* Every action that changes the state of a channel changes the registry of
\* its session in the same step, and only for itself.
LEMMA RegistryNext ==
  ASSUME RegistryInv, [Next]_vars
  PROVE  RegistryInv'
  <1> USE ChannelAssumption DEF RegistryInv, Held
  <1>1. CASE UNCHANGED vars
    BY <1>1 DEF vars, session
  <1>2. ASSUME NEW e \in Ends, Connect(e) PROVE RegistryInv'
    BY <1>2 DEF Connect, Goto, SetRegistered, States
  <1>3. ASSUME NEW e \in Ends, Accept(e) PROVE RegistryInv'
    BY <1>3 DEF Accept, Goto, SetRegistered, States
  <1>4. ASSUME NEW e \in Ends, Reject(e) PROVE RegistryInv'
    BY <1>4 DEF Reject, Goto, SetRegistered, States
  <1>5. ASSUME NEW e \in Ends, Close(e) PROVE RegistryInv'
    <2>1. CASE state[e] = "CloseResponding" /\ Goto(e, "Closed") /\ SetRegistered(e, FALSE)
      BY <2>1 DEF Goto, SetRegistered, States
    <2>2. CASE /\ state[e] \in {"Connected", "Connecting"}
               /\ Goto(e, "Closing") /\ UNCHANGED registered
      BY <2>2 DEF Goto, States
    <2> QED
      BY <1>4, <1>5, <2>1, <2>2 DEF Close, PeerHasClosed
  <1>6. ASSUME NEW e \in Ends, NEW n, Send(e, n) \/ Recv(e, n) \/ RecvEof(e)
        PROVE  RegistryInv'
    BY <1>6 DEF Send, Recv, RecvEof, session
  <1>7. ASSUME NEW e \in Ends, HandleNewChannel(e) PROVE RegistryInv'
    BY <1>7 DEF HandleNewChannel, Goto, SetRegistered, States
  <1>8. ASSUME NEW e \in Ends, HandleNewChannelResponse(e) PROVE RegistryInv'
    <2>1. CASE state[e] = "Connecting" /\ HandleAccepted(e, Head(link[e]))
      BY <2>1 DEF HandleAccepted, Goto, States, session
    <2>2. CASE HandleRejected(e)
      BY <2>2 DEF HandleRejected, Goto, SetRegistered, States
    <2>3. CASE UNCHANGED <<state, registered>>
      BY <2>3
    <2> QED
      BY <1>8, <2>1, <2>2, <2>3 DEF HandleNewChannelResponse, session
  <1>9. ASSUME NEW e \in Ends,
               DropUnregistered(e) \/ HandleChannelData(e) \/ HandleWindowAdjust(e)
        PROVE  RegistryInv'
    BY <1>9 DEF DropUnregistered, HandleChannelData, HandleWindowAdjust, session
  <1>10. ASSUME NEW e \in Ends, HandleChannelClose(e) PROVE RegistryInv'
    BY <1>10 DEF HandleChannelClose, Goto, SetRegistered, States
  <1>11. ASSUME NEW e \in Ends, CloseTimeoutTriggered(e) PROVE RegistryInv'
    BY <1>11 DEF CloseTimeoutTriggered, Goto, SetRegistered, States
  <1> QED
    BY <1>1, <1>2, <1>3, <1>5, <1>6, <1>7, <1>8, <1>9, <1>10, <1>11
    DEF Next, Call, Receive

\* The session holds a channel exactly in the states the diagram of
\* Channel.cc marks as registered.
THEOREM RegistryHolds == Spec => []RegistryMatchesState
  <1>1. Init => RegistryInv
    BY DEF Init, RegistryInv, Held, States
  <1>2. RegistryInv /\ [Next]_vars => RegistryInv'
    BY RegistryNext
  <1>3. RegistryInv => RegistryMatchesState
    BY DEF RegistryInv, Held, RegistryMatchesState
  <1> QED
    BY <1>1, <1>2, <1>3, PTL DEF Spec

-----------------------------------------------------------------------------
(***************************************************************************)
(* How a channel comes to its end: without the timeout no end is closed on *)
(* its own.  The argument follows the Close messages: whoever has one under*)
(* way is Closing or Closed, or has been rejected by a peer that knows it. *)
(***************************************************************************)

\* The messages on the link to an end.
Msgs(e) == {link[e][i] : i \in 1 .. Len(link[e])}
Leaving == {"Closing", "Closed"}

\* The set-up of the channel, in which each end has its part.
SetupInv ==
  /\ state["initiator"] # "ConnectResponding"
  /\ state["acceptor"] # "Connecting"
  /\ \A m \in Msgs("initiator") : m.type # "SetupChannel"
  /\ \A m \in Msgs("initiator") :
       m.type = "SetupChannelResponse" /\ ~m.accept => state["acceptor"] = "Rejected"
  /\ state["initiator"] = "Rejected" => state["acceptor"] = "Rejected"

\* The Close messages and what they have led to.
CloseInv ==
  /\ \A m \in Msgs("initiator") : m.type = "ChannelClose" => state["acceptor"] \in Leaving
  /\ \A m \in Msgs("acceptor") :
       m.type = "ChannelClose" => state["initiator"] \in Leaving \cup {"Rejected"}
  /\ \A e \in Ends : state[e] = "CloseResponding" => state[Peer(e)] \in Leaving
  /\ ~CloseTimeout =>
       \A e \in Ends : ~closeTimer[e] /\ (state[e] = "Closed" => state[Peer(e)] \in Leaving)

\* What end e may send when it goes to a state.
MaySend(e, to, m) ==
  \/ m.type \in {"ChannelData", "ChannelWindowAdjust"}
  \/ m.type = "SetupChannel" /\ e = "initiator"
  \/ m.type = "SetupChannelResponse" /\ (m.accept \/ (e = "acceptor" /\ to = "Rejected"))
  \/ m.type = "ChannelClose" /\ (to \in Leaving \/ (e = "initiator" /\ to = "Rejected"))

\* A step of one end keeps both invariants if it goes and sends by these rules.
LEMMA EndStep ==
  ASSUME state \in [Ends -> States], SetupInv, CloseInv,
         NEW e \in Ends, NEW to, state' = [state EXCEPT ![e] = to],
         state[e] \in Leaving => to \in Leaving,
         state[e] = "Rejected" => to = "Rejected",
         to = "ConnectResponding" => e = "acceptor",
         to = "Connecting" => e = "initiator",
         to = "Rejected" => e = "acceptor" \/ state["acceptor"] = "Rejected",
         to = "CloseResponding" => state[Peer(e)] \in Leaving,
         ~CloseTimeout => /\ \A x \in Ends : ~closeTimer'[x]
                          /\ to = "Closed" => state[Peer(e)] \in Leaving,
         \A x \in Ends : \A m \in Msgs(x)' : m \in Msgs(x) \/ (x = Peer(e) /\ MaySend(e, to, m))
  PROVE  SetupInv' /\ CloseInv'
  <1>1. /\ "initiator" \in Ends /\ "acceptor" \in Ends
        /\ Peer("initiator") = "acceptor" /\ Peer("acceptor") = "initiator"
        /\ e = "initiator" \/ e = "acceptor"
    BY DEF Ends, Peer
  <1>2. state'[e] = to /\ state'[Peer(e)] = state[Peer(e)]
    BY <1>1
  <1>3. \A x \in Ends : /\ state[x] \in Leaving => state'[x] \in Leaving
                        /\ state[x] = "Rejected" => state'[x] = "Rejected"
    BY <1>1, <1>2
  <1>4. /\ state'["initiator"] # "ConnectResponding"
        /\ state'["acceptor"] # "Connecting"
        /\ state'["initiator"] = "Rejected" => state'["acceptor"] = "Rejected"
    BY <1>1, <1>2 DEF SetupInv
  <1>5. ASSUME NEW m \in Msgs("initiator")'
        PROVE  /\ m.type # "SetupChannel"
               /\ m.type = "SetupChannelResponse" /\ ~m.accept => state'["acceptor"] = "Rejected"
               /\ m.type = "ChannelClose" => state'["acceptor"] \in Leaving
    <2>1. CASE m \in Msgs("initiator")
      BY <1>1, <1>3, <2>1 DEF SetupInv, CloseInv
    <2>2. CASE e = "acceptor" /\ MaySend(e, to, m)
      BY <1>2, <2>2 DEF MaySend
    <2> QED
      BY <1>1, <2>1, <2>2
  <1>6. ASSUME NEW m \in Msgs("acceptor")', m.type = "ChannelClose"
        PROVE  state'["initiator"] \in Leaving \cup {"Rejected"}
    <2>1. CASE m \in Msgs("acceptor")
      BY <1>1, <1>3, <1>6, <2>1 DEF CloseInv
    <2>2. CASE e = "initiator" /\ MaySend(e, to, m)
      BY <1>2, <1>6, <2>2 DEF MaySend
    <2> QED
      BY <1>1, <2>1, <2>2
  <1>7. ASSUME NEW x \in Ends, state'[x] = "CloseResponding"
        PROVE  state'[Peer(x)] \in Leaving
    <2>1. CASE x = e
      BY <1>2, <1>7, <2>1
    <2>2. CASE x # e
      BY <1>1, <1>2, <1>3, <1>7, <2>2 DEF CloseInv
    <2> QED
      BY <2>1, <2>2
  <1>8. ASSUME ~CloseTimeout, NEW x \in Ends
        PROVE  ~closeTimer'[x] /\ (state'[x] = "Closed" => state'[Peer(x)] \in Leaving)
    <2>1. CASE x = e
      BY <1>2, <1>8, <2>1
    <2>2. CASE x # e
      BY <1>1, <1>2, <1>3, <1>8, <2>2 DEF CloseInv
    <2> QED
      BY <2>1, <2>2
  <1>9. SetupInv'
    BY <1>4, <1>5 DEF SetupInv
  <1>10. CloseInv'
    BY <1>5, <1>6, <1>7, <1>8 DEF CloseInv
  <1> QED
    BY <1>9, <1>10

LEMMA ConcatElements ==
  ASSUME NEW q \in Seq(Message), NEW p \in Seq(Message), NEW i \in 1 .. Len(q \o p)
  PROVE  (\E j \in 1 .. Len(q) : (q \o p)[i] = q[j]) \/ (\E j \in 1 .. Len(p) : (q \o p)[i] = p[j])
  <1>1. Len(q) \in Nat /\ Len(p) \in Nat /\ Len(q \o p) = Len(q) + Len(p)
    BY ConcatProperties
  <1>2. CASE i <= Len(q)
    <2>1. i \in 1 .. Len(q) /\ (q \o p)[i] = q[i]
      BY <1>1, <1>2, ConcatProperties
    <2> QED
      BY <2>1
  <1>3. CASE ~(i <= Len(q))
    <2>1. i - Len(q) \in 1 .. Len(p)
      BY <1>1, <1>3
    <2>2. (q \o p)[i] = p[i - Len(q)]
      BY <1>1, <1>3, ConcatProperties
    <2> QED
      BY <2>1, <2>2
  <1> QED
    BY <1>2, <1>3

\* What emitting and consuming do to the messages of a link.
LEMMA EmitMsgs ==
  ASSUME link \in [Ends -> Seq(Message)], NEW e \in Ends, NEW p \in Seq(Message), Emit(e, p)
  PROVE  \A x \in Ends : \A m \in Msgs(x)' :
           m \in Msgs(x) \/ (x = Peer(e) /\ \E i \in 1 .. Len(p) : m = p[i])
  <1> SUFFICES ASSUME NEW x \in Ends, NEW m \in Msgs(x)'
               PROVE  m \in Msgs(x) \/ (x = Peer(e) /\ \E i \in 1 .. Len(p) : m = p[i])
    OBVIOUS
  <1>1. /\ link'[e] = link[e]
        /\ link'[Peer(e)] = link[Peer(e)] \o p
    BY EmitLink
  <1>2. PICK i \in 1 .. Len(link'[x]) : m = link'[x][i]
    BY DEF Msgs
  <1>3. CASE x = e
    BY <1>1, <1>2, <1>3 DEF Msgs
  <1>4. CASE x = Peer(e)
    <2> DEFINE q == link[Peer(e)]
    <2>1. q \in Seq(Message)
      BY PeerFacts
    <2>2. m = (q \o p)[i] /\ i \in 1 .. Len(q \o p)
      BY <1>1, <1>2, <1>4
    <2> HIDE DEF q
    <2>3. (\E j \in 1 .. Len(q) : m = q[j]) \/ (\E j \in 1 .. Len(p) : m = p[j])
      BY <2>1, <2>2, ConcatElements
    <2> QED
      BY <1>4, <2>3 DEF Msgs, q
  <1> QED
    BY <1>3, <1>4, PeerFacts

LEMMA TailMsgs ==
  ASSUME NEW q \in Seq(Message), q # <<>>, NEW i \in 1 .. Len(Tail(q))
  PROVE  \E j \in 1 .. Len(q) : Tail(q)[i] = q[j]
  <1>1. Len(q) \in Nat /\ Len(Tail(q)) = Len(q) - 1 /\ Tail(q)[i] = q[i + 1]
    BY HeadTailProperties
  <1> QED
    BY <1>1

LEMMA ConsumeMsgs ==
  ASSUME link \in [Ends -> Seq(Message)], NEW e \in Ends, link[e] # <<>>, Consume(e)
  PROVE  \A x \in Ends : Msgs(x)' \subseteq Msgs(x)
  <1>1. link'[e] = Tail(link[e]) /\ link'[Peer(e)] = link[Peer(e)]
    BY ConsumeLink
  <1>2. Msgs(e)' \subseteq Msgs(e)
    BY <1>1, TailMsgs DEF Msgs
  <1>3. Msgs(Peer(e))' \subseteq Msgs(Peer(e))
    BY <1>1 DEF Msgs
  <1> QED
    BY <1>2, <1>3, PeerFacts
-----------------------------------------------------------------------------
(* The steps.                                                              *)

CloseOK == FlowInv /\ SetupInv /\ CloseInv

\* What FlowInv says that is needed here.
LEMMA Typed ==
  ASSUME FlowInv
  PROVE  /\ state \in [Ends -> States]
         /\ link \in [Ends -> Seq(Message)]
         /\ closeTimer \in [Ends -> BOOLEAN]
  BY DEF FlowInv, TypeInv

\* Steps that change no state and send nothing but data and window adjusts ...
LEMMA QuietStep ==
  ASSUME CloseOK, NEW e \in Ends, UNCHANGED <<state, closeTimer>>,
         \A x \in Ends : \A m \in Msgs(x)' :
           \/ m \in Msgs(x)
           \/ x = Peer(e) /\ m.type \in {"ChannelData", "ChannelWindowAdjust"}
  PROVE  SetupInv' /\ CloseInv'
  <1> USE DEF CloseOK
  <1>1. state' = [state EXCEPT ![e] = state[e]]
    BY Typed
  <1>2. /\ state["initiator"] # "ConnectResponding" /\ state["acceptor"] # "Connecting"
        /\ state["initiator"] = "Rejected" => state["acceptor"] = "Rejected"
    BY DEF SetupInv
  <1>3. /\ state[e] = "ConnectResponding" => e = "acceptor"
        /\ state[e] = "Connecting" => e = "initiator"
        /\ state[e] = "Rejected" => e = "acceptor" \/ state["acceptor"] = "Rejected"
    BY <1>2 DEF Ends
  <1>4. state[e] = "CloseResponding" => state[Peer(e)] \in Leaving
    BY DEF CloseInv
  <1>5. ~CloseTimeout => /\ \A x \in Ends : ~closeTimer'[x]
                         /\ state[e] = "Closed" => state[Peer(e)] \in Leaving
    BY DEF CloseInv
  <1>6. \A x \in Ends : \A m \in Msgs(x)' :
          m \in Msgs(x) \/ (x = Peer(e) /\ MaySend(e, state[e], m))
    BY DEF MaySend
  <1> QED
    BY <1>1, <1>3, <1>4, <1>5, <1>6, Typed, EndStep

\* ... among them those that only take a message off a link.
LEMMA QuietConsumeStep ==
  ASSUME CloseOK, NEW e \in Ends, link[e] # <<>>, Consume(e), UNCHANGED <<state, closeTimer>>
  PROVE  SetupInv' /\ CloseInv'
  <1>1. \A x \in Ends : Msgs(x)' \subseteq Msgs(x)
    BY Typed, ConsumeMsgs DEF CloseOK
  <1> QED
    BY <1>1, QuietStep

LEMMA CloseSend ==
  ASSUME CloseOK, NEW e \in Ends, NEW n \in Nat \ {0}, Send(e, n)
  PROVE  SetupInv' /\ CloseInv'
  <1> DEFINE p == Pieces(sent[e], n)
  <1>1. p \in Seq(Message) /\ \A i \in 1 .. Len(p) : p[i].type = "ChannelData"
    BY PiecesAscend DEF CloseOK, FlowInv, TypeInv
  <1>2. Emit(e, p) /\ UNCHANGED <<state, closeTimer>>
    BY DEF Send, session
  <1> HIDE DEF p
  <1>3. \A x \in Ends : \A m \in Msgs(x)' :
          m \in Msgs(x) \/ (x = Peer(e) /\ \E i \in 1 .. Len(p) : m = p[i])
    BY <1>1, <1>2, Typed, EmitMsgs DEF CloseOK
  <1> QED
    BY <1>1, <1>2, <1>3, QuietStep

LEMMA CloseRecv ==
  ASSUME CloseOK, NEW e \in Ends, NEW n \in Nat \ {0}, Recv(e, n)
  PROVE  SetupInv' /\ CloseInv'
  <1> DEFINE q == recvQueue[e]
             taken == IF Bytes(Head(q)) > n THEN n ELSE Bytes(Head(q))
             msg == AdjustMsg(granted[e], granted[e] + (localConsumed[e] + taken))
  <1>1. AdjustWindow(e, taken) /\ UNCHANGED <<state, closeTimer>>
    BY DEF Recv, session
  <1>2. taken \in Nat
    <2>1. /\ q \in Seq(Segment) /\ q # <<>>
          /\ read[e] \in Nat /\ arrived[e] \in Nat
          /\ Fills(q, read[e], arrived[e])
      BY DEF Recv, CloseOK, FlowInv, TypeInv, Traffic
    <2>2. Bytes(Head(q)) \in Nat
      BY <2>1, FillsTail
    <2> QED
      BY <2>2
  <1> HIDE DEF taken
  <1>3. msg \in Message /\ msg.type = "ChannelWindowAdjust"
    <2>1. granted[e] \in Nat /\ granted[e] + (localConsumed[e] + taken) \in Nat
      BY <1>2 DEF CloseOK, FlowInv, TypeInv
    <2> QED
      BY <2>1, MessageTypes DEF AdjustMsg
  <1>4. Emit(e, <<msg>>) \/ UNCHANGED link
    BY <1>1 DEF AdjustWindow
  <1> HIDE DEF msg
  <1>5. CASE Emit(e, <<msg>>)
    <2> DEFINE p == <<msg>>
    <2>1. p \in Seq(Message) /\ \A i \in 1 .. Len(p) : p[i] = msg
      BY <1>3, OneMessage
    <2>2. Emit(e, p)
      BY <1>5
    <2> HIDE DEF p
    <2>3. \A x \in Ends : \A m \in Msgs(x)' :
            m \in Msgs(x) \/ (x = Peer(e) /\ \E i \in 1 .. Len(p) : m = p[i])
      BY <2>1, <2>2, Typed, EmitMsgs DEF CloseOK
    <2>4. \A x \in Ends : \A m \in Msgs(x)' : m \in Msgs(x) \/ (x = Peer(e) /\ m = msg)
      BY <2>1, <2>3
    <2> QED
      BY <1>1, <1>3, <2>4, QuietStep
  <1>6. CASE UNCHANGED link
    BY <1>1, <1>6, QuietStep DEF Msgs
  <1> QED
    BY <1>4, <1>5, <1>6

\* A step of end e that sends one message as it goes.
LEMMA SendingStep ==
  ASSUME CloseOK, NEW e \in Ends, NEW to, Goto(e, to), NEW msg \in Message, Emit(e, <<msg>>),
         MaySend(e, to, msg),
         state[e] \in Leaving => to \in Leaving,
         state[e] = "Rejected" => to = "Rejected",
         to \notin {"ConnectResponding", "CloseResponding"},
         to = "Connecting" => e = "initiator",
         to = "Rejected" => e = "acceptor" \/ state["acceptor"] = "Rejected",
         ~CloseTimeout => /\ \A x \in Ends : ~closeTimer'[x]
                          /\ to = "Closed" => state[Peer(e)] \in Leaving
  PROVE  SetupInv' /\ CloseInv'
  <1> DEFINE p == <<msg>>
  <1>1. p \in Seq(Message) /\ \A i \in 1 .. Len(p) : p[i] = msg
    BY OneMessage
  <1>2. Emit(e, p)
    OBVIOUS
  <1> HIDE DEF p
  <1>3. \A x \in Ends : \A m \in Msgs(x)' :
          m \in Msgs(x) \/ (x = Peer(e) /\ \E i \in 1 .. Len(p) : m = p[i])
    BY <1>1, <1>2, Typed, EmitMsgs DEF CloseOK
  <1>4. \A x \in Ends : \A m \in Msgs(x)' : m \in Msgs(x) \/ (x = Peer(e) /\ MaySend(e, to, m))
    BY <1>1, <1>3
  <1>5. /\ state' = [state EXCEPT ![e] = to]
        /\ to = "ConnectResponding" => e = "acceptor"
        /\ to = "CloseResponding" => state[Peer(e)] \in Leaving
    BY DEF Goto
  <1>6. SetupInv /\ CloseInv /\ state \in [Ends -> States]
    BY Typed DEF CloseOK
  <1> QED
    BY <1>4, <1>5, <1>6, EndStep

\* A step of end e that takes a message off its link as it goes.
LEMMA ReceivingStep ==
  ASSUME CloseOK, NEW e \in Ends, NEW to, Goto(e, to), link[e] # <<>>, Consume(e),
         UNCHANGED closeTimer,
         state[e] \in Leaving => to \in Leaving,
         state[e] # "Rejected", to \notin {"Connecting", "Rejected"},
         to = "ConnectResponding" => e = "acceptor",
         to = "CloseResponding" => state[Peer(e)] \in Leaving,
         to = "Closed" => state[Peer(e)] \in Leaving
  PROVE  SetupInv' /\ CloseInv'
  <1>1. \A x \in Ends : Msgs(x)' \subseteq Msgs(x)
    BY Typed, ConsumeMsgs DEF CloseOK
  <1>2. \A x \in Ends : \A m \in Msgs(x)' : m \in Msgs(x) \/ (x = Peer(e) /\ MaySend(e, to, m))
    BY <1>1
  <1>3. state' = [state EXCEPT ![e] = to]
    BY DEF Goto
  <1>4. SetupInv /\ CloseInv /\ state \in [Ends -> States]
    BY Typed DEF CloseOK
  <1>5. ~CloseTimeout => /\ \A x \in Ends : ~closeTimer'[x]
                         /\ to = "Closed" => state[Peer(e)] \in Leaving
    BY DEF CloseOK, CloseInv
  <1> QED
    BY <1>2, <1>3, <1>4, <1>5, EndStep

LEMMA CloseConnect ==
  ASSUME CloseOK, NEW e \in Ends, Connect(e)
  PROVE  SetupInv' /\ CloseInv'
  <1> DEFINE msg == SetupMsg(localWindow[e])
  <1>1. /\ e = "initiator" /\ state[e] = "Init" /\ Goto(e, "Connecting") /\ Emit(e, <<msg>>)
        /\ closeTimer' = closeTimer
    BY DEF Connect
  <1>2. msg \in Message /\ MaySend(e, "Connecting", msg)
    BY <1>1, MessageTypes DEF CloseOK, FlowInv, TypeInv, MaySend, SetupMsg
  <1>3. ~CloseTimeout => \A x \in Ends : ~closeTimer'[x]
    BY <1>1 DEF CloseOK, CloseInv
  <1> HIDE DEF msg
  <1> QED
    BY <1>1, <1>2, <1>3, SendingStep DEF Leaving

LEMMA CloseAccept ==
  ASSUME CloseOK, NEW e \in Ends, Accept(e)
  PROVE  SetupInv' /\ CloseInv'
  <1> DEFINE msg == ResponseMsg(TRUE, localWindow[e])
  <1>1. /\ state[e] = "ConnectResponding" /\ Goto(e, "Connected") /\ Emit(e, <<msg>>)
        /\ closeTimer' = closeTimer
    BY DEF Accept
  <1>2. msg \in Message /\ MaySend(e, "Connected", msg)
    BY MessageTypes DEF CloseOK, FlowInv, TypeInv, MaySend, ResponseMsg
  <1>3. ~CloseTimeout => \A x \in Ends : ~closeTimer'[x]
    BY <1>1 DEF CloseOK, CloseInv
  <1> HIDE DEF msg
  <1> QED
    BY <1>1, <1>2, <1>3, SendingStep DEF Leaving

LEMMA CloseReject ==
  ASSUME CloseOK, NEW e \in Ends, Reject(e)
  PROVE  SetupInv' /\ CloseInv'
  <1> DEFINE msg == ResponseMsg(FALSE, 0)
  <1>1. /\ state[e] = "ConnectResponding" /\ Goto(e, "Rejected") /\ Emit(e, <<msg>>)
        /\ closeTimer' = closeTimer
    BY DEF Reject
  <1>2. e = "acceptor"
    BY <1>1 DEF CloseOK, SetupInv, Ends
  <1>3. msg \in Message /\ MaySend(e, "Rejected", msg)
    BY <1>2, MessageTypes DEF MaySend, ResponseMsg
  <1>4. ~CloseTimeout => \A x \in Ends : ~closeTimer'[x]
    BY <1>1 DEF CloseOK, CloseInv
  <1> HIDE DEF msg
  <1> QED
    BY <1>1, <1>2, <1>3, <1>4, SendingStep DEF Leaving

LEMMA CloseClose ==
  ASSUME CloseOK, NEW e \in Ends, Close(e)
  PROVE  SetupInv' /\ CloseInv'
  <1>1. CASE Reject(e)
    BY <1>1, CloseReject
  <1>2. CASE ~Reject(e)
    <2> DEFINE to == IF PeerHasClosed(e) THEN "Closed" ELSE "Closing"
    <2>1. /\ state[e] \in {"Connected", "CloseResponding", "Connecting"}
          /\ Emit(e, <<CloseMsg>>) /\ Goto(e, to)
          /\ closeTimer' = closeTimer \/ closeTimer' = [closeTimer EXCEPT ![e] = CloseTimeout]
      BY <1>2 DEF Close
    <2>2. CloseMsg \in Message /\ MaySend(e, to, CloseMsg)
      BY MessageTypes DEF MaySend, CloseMsg, Leaving
    <2>3. to = "Closed" => state[Peer(e)] \in Leaving
      BY DEF PeerHasClosed, CloseOK, CloseInv
    <2>4. ~CloseTimeout => \A x \in Ends : ~closeTimer'[x]
      BY <2>1, Typed DEF CloseOK, CloseInv
    <2>5. to \in Leaving /\ to \notin {"ConnectResponding", "CloseResponding", "Connecting", "Rejected"}
      BY DEF Leaving
    <2>6. state[e] # "Rejected"
      BY <2>1
    <2> HIDE DEF to
    <2> QED
      BY <2>1, <2>2, <2>3, <2>4, <2>5, <2>6, SendingStep
  <1> QED
    BY <1>1, <1>2

LEMMA IncomingMsg ==
  ASSUME FlowInv, NEW e \in Ends, NEW type, Incoming(e, type)
  PROVE  link[e] # <<>> /\ Head(link[e]) \in Msgs(e) /\ Head(link[e]).type = type
  <1>1. link[e] # <<>> /\ Head(link[e]).type = type
    BY DEF Incoming
  <1>2. link[e] \in Seq(Message)
    BY Typed
  <1>3. Len(link[e]) \in Nat /\ Len(link[e]) # 0 /\ Head(link[e]) = link[e][1]
    BY <1>1, <1>2, EmptySeq, HeadTailProperties
  <1>4. 1 \in 1 .. Len(link[e])
    BY <1>3
  <1> QED
    BY <1>1, <1>3, <1>4 DEF Msgs

LEMMA CloseNewChannel ==
  ASSUME CloseOK, NEW e \in Ends, HandleNewChannel(e)
  PROVE  SetupInv' /\ CloseInv'
  <1>1. /\ Incoming(e, "SetupChannel") /\ state[e] = "Init"
        /\ Goto(e, "ConnectResponding") /\ Consume(e) /\ UNCHANGED closeTimer
    BY DEF HandleNewChannel
  <1>2. link[e] # <<>> /\ Head(link[e]) \in Msgs(e) /\ Head(link[e]).type = "SetupChannel"
    BY <1>1, IncomingMsg DEF CloseOK
  <1>3. e = "acceptor"
    BY <1>2 DEF CloseOK, SetupInv, Ends
  <1> QED
    BY <1>1, <1>2, <1>3, ReceivingStep DEF Leaving

\* A rejected initiator answers a head start with a Close.
LEMMA CloseRejected ==
  ASSUME CloseOK, NEW e \in Ends, Incoming(e, "SetupChannelResponse"),
         ~Head(link[e]).accept, state[e] = "Connecting", HandleRejected(e)
  PROVE  SetupInv' /\ CloseInv'
  <1> DEFINE p == IF FastConnect THEN <<CloseMsg>> ELSE <<>>
  <1>1. /\ link[e] # <<>> /\ Head(link[e]) \in Msgs(e)
        /\ Head(link[e]).type = "SetupChannelResponse"
    BY IncomingMsg DEF CloseOK
  <1>2. e = "initiator" /\ state["acceptor"] = "Rejected"
    <2>1. e = "initiator"
      BY DEF CloseOK, SetupInv, Ends
    <2> QED
      BY <1>1, <2>1 DEF CloseOK, SetupInv
  <1>3. p \in Seq(Message) /\ \A i \in 1 .. Len(p) : p[i] = CloseMsg
    <2>1. CASE FastConnect
      <3>1. CloseMsg \in Message
        BY MessageTypes DEF CloseMsg
      <3> QED
        BY <2>1, <3>1, OneMessage
    <2>2. CASE ~FastConnect
      BY <2>2
    <2> QED
      BY <2>1, <2>2
  <1>4. /\ link' = [link EXCEPT ![e] = Tail(@), ![Peer(e)] = @ \o p]
        /\ Goto(e, "Rejected") /\ UNCHANGED closeTimer
    BY DEF HandleRejected
  <1> HIDE DEF p
  <1>5. ASSUME NEW x \in Ends, NEW m \in Msgs(x)'
        PROVE  m \in Msgs(x) \/ (x = Peer(e) /\ m = CloseMsg)
    <2>1. PICK i \in 1 .. Len(link'[x]) : m = link'[x][i]
      BY DEF Msgs
    <2>2. /\ link'[e] = Tail(link[e]) /\ link'[Peer(e)] = link[Peer(e)] \o p
          /\ x = e \/ x = Peer(e)
          /\ link[e] \in Seq(Message) /\ link[Peer(e)] \in Seq(Message)
      BY <1>4, Typed, PeerFacts DEF CloseOK
    <2>3. CASE x = e
      <3>1. i \in 1 .. Len(Tail(link[e])) /\ m = Tail(link[e])[i]
        BY <2>1, <2>2, <2>3
      <3>2. \E j \in 1 .. Len(link[e]) : m = link[e][j]
        BY <1>1, <2>2, <3>1, TailMsgs
      <3> QED
        BY <2>3, <3>2 DEF Msgs
    <2>4. CASE x = Peer(e)
      <3> DEFINE q == link[Peer(e)]
      <3>1. q \in Seq(Message) /\ i \in 1 .. Len(q \o p) /\ m = (q \o p)[i]
        BY <2>1, <2>2, <2>4
      <3> HIDE DEF q
      <3>2. (\E j \in 1 .. Len(q) : m = q[j]) \/ (\E j \in 1 .. Len(p) : m = p[j])
        BY <1>3, <3>1, ConcatElements
      <3> QED
        BY <1>3, <2>4, <3>2 DEF Msgs, q
    <2> QED
      BY <2>2, <2>3, <2>4
  <1>6. MaySend(e, "Rejected", CloseMsg)
    BY <1>2 DEF MaySend, CloseMsg
  <1>7. \A x \in Ends : \A m \in Msgs(x)' :
          m \in Msgs(x) \/ (x = Peer(e) /\ MaySend(e, "Rejected", m))
    BY <1>5, <1>6
  <1>8. ~CloseTimeout => \A x \in Ends : ~closeTimer'[x]
    BY <1>4 DEF CloseOK, CloseInv
  <1>9. SetupInv /\ CloseInv /\ state \in [Ends -> States]
    BY Typed DEF CloseOK
  <1>10. state' = [state EXCEPT ![e] = "Rejected"]
    BY <1>4 DEF Goto
  <1>11. state[e] \notin Leaving
    BY DEF Leaving
  <1> QED
    BY <1>2, <1>7, <1>8, <1>9, <1>10, <1>11, EndStep

LEMMA CloseResponse ==
  ASSUME CloseOK, NEW e \in Ends, HandleNewChannelResponse(e)
  PROVE  SetupInv' /\ CloseInv'
  <1>1. Incoming(e, "SetupChannelResponse")
    BY DEF HandleNewChannelResponse
  <1>2. link[e] # <<>>
    BY <1>1 DEF Incoming
  <1>3. CASE state[e] = "Connecting" /\ HandleAccepted(e, Head(link[e]))
    <2>1. Goto(e, "Connected") /\ Consume(e) /\ UNCHANGED closeTimer
      BY <1>3 DEF HandleAccepted, session
    <2> QED
      BY <1>2, <1>3, <2>1, ReceivingStep DEF Leaving
  <1>4. CASE state[e] = "Connecting" /\ ~Head(link[e]).accept /\ HandleRejected(e)
    BY <1>1, <1>4, CloseRejected
  <1>5. CASE Consume(e) /\ UNCHANGED <<state, session>>
    BY <1>2, <1>5, QuietConsumeStep DEF session
  <1> QED
    BY <1>3, <1>4, <1>5 DEF HandleNewChannelResponse

LEMMA CloseChannelClose ==
  ASSUME CloseOK, NEW e \in Ends, HandleChannelClose(e)
  PROVE  SetupInv' /\ CloseInv'
  <1>1. Incoming(e, "ChannelClose") /\ Consume(e) /\ UNCHANGED closeTimer
    BY DEF HandleChannelClose
  <1>2. /\ link[e] # <<>> /\ Head(link[e]) \in Msgs(e)
        /\ Head(link[e]).type = "ChannelClose"
    BY <1>1, IncomingMsg DEF CloseOK
  <1>3. state[e] # "Rejected" => state[Peer(e)] \in Leaving
    <2>1. CASE e = "initiator"
      BY <1>2, <2>1 DEF CloseOK, CloseInv, Peer
    <2>2. CASE e = "acceptor"
      <3>1. Peer(e) = "initiator" /\ state["initiator"] \in Leaving \cup {"Rejected"}
        BY <1>2, <2>2 DEF CloseOK, CloseInv, Peer
      <3> QED
        BY <2>2, <3>1 DEF CloseOK, SetupInv
    <2> QED
      BY <2>1, <2>2 DEF Ends
  <1>4. CASE state[e] = "Connected" /\ Goto(e, "CloseResponding")
    BY <1>1, <1>2, <1>3, <1>4, ReceivingStep DEF Leaving
  <1>5. CASE state[e] = "Closing" /\ Goto(e, "Closed")
    BY <1>1, <1>2, <1>3, <1>5, ReceivingStep DEF Leaving
  <1>6. CASE UNCHANGED state
    BY <1>1, <1>2, <1>6, QuietConsumeStep
  <1> QED
    BY <1>4, <1>5, <1>6 DEF HandleChannelClose

LEMMA CloseQuietReceive ==
  ASSUME CloseOK, NEW e \in Ends,
         DropUnregistered(e) \/ HandleChannelData(e) \/ HandleWindowAdjust(e)
  PROVE  SetupInv' /\ CloseInv'
  <1>1. link[e] # <<>> /\ Consume(e) /\ UNCHANGED <<state, closeTimer>>
    BY DEF DropUnregistered, HandleChannelData, HandleWindowAdjust, Incoming, session
  <1> QED
    BY <1>1, QuietConsumeStep

LEMMA CloseTimer ==
  ASSUME CloseOK, NEW e \in Ends, CloseTimeoutTriggered(e)
  PROVE  SetupInv' /\ CloseInv'
  <1>1. CloseTimeout
    BY DEF CloseTimeoutTriggered, CloseOK, CloseInv
  <1>2. UNCHANGED link
    BY DEF CloseTimeoutTriggered
  <1>3. \A x \in Ends : Msgs(x)' = Msgs(x)
    BY <1>2 DEF Msgs
  <1> DEFINE to == IF state[e] = "Closing" THEN "Closed" ELSE state[e]
  <1>4. state' = [state EXCEPT ![e] = to]
    BY Typed DEF CloseTimeoutTriggered, Goto, CloseOK
  <1>5. /\ state[e] \in Leaving => to \in Leaving
        /\ state[e] = "Rejected" => to = "Rejected"
        /\ to = "CloseResponding" => state[Peer(e)] \in Leaving
    BY DEF Leaving, CloseOK, CloseInv
  <1>6. /\ to = "ConnectResponding" => e = "acceptor"
        /\ to = "Connecting" => e = "initiator"
        /\ to = "Rejected" => e = "acceptor" \/ state["acceptor"] = "Rejected"
    BY DEF CloseOK, SetupInv, Ends
  <1>7. SetupInv /\ CloseInv /\ state \in [Ends -> States]
    BY Typed DEF CloseOK
  <1> HIDE DEF to
  <1> QED
    BY <1>1, <1>3, <1>4, <1>5, <1>6, <1>7, EndStep

LEMMA CloseUnchanged ==
  ASSUME CloseOK, NEW e \in Ends, UNCHANGED <<state, closeTimer, link>>
  PROVE  SetupInv' /\ CloseInv'
  <1>1. \A x \in Ends : Msgs(x)' = Msgs(x)
    BY DEF Msgs
  <1> QED
    BY <1>1, QuietStep
-----------------------------------------------------------------------------
LEMMA CloseInit ==
  ASSUME Init
  PROVE  SetupInv /\ CloseInv
  <1>1. /\ state = [e \in Ends |-> "Init"] /\ closeTimer = [e \in Ends |-> FALSE]
        /\ link = [e \in Ends |-> <<>>]
    BY DEF Init
  <1>2. "initiator" \in Ends /\ "acceptor" \in Ends
    BY DEF Ends
  <1>3. \A e \in Ends : Msgs(e) = {}
    BY <1>1 DEF Msgs
  <1>4. SetupInv
    BY <1>1, <1>2, <1>3 DEF SetupInv
  <1>5. CloseInv
    BY <1>1, <1>2, <1>3 DEF CloseInv
  <1> QED
    BY <1>4, <1>5

LEMMA CloseNext ==
  ASSUME CloseOK, [Next]_vars
  PROVE  SetupInv' /\ CloseInv'
  <1>1. CASE UNCHANGED vars
    <2>1. "acceptor" \in Ends
      BY DEF Ends
    <2> QED
      BY <1>1, <2>1, CloseUnchanged DEF vars, session
  <1>2. CASE Next
    <2>1. PICK e \in Ends : Call(e) \/ Receive(e) \/ CloseTimeoutTriggered(e)
      BY <1>2 DEF Next
    <2>2. CASE Call(e)
      <3>1. ASSUME NEW n \in ChunkSizes, Send(e, n) PROVE SetupInv' /\ CloseInv'
        BY <3>1, CloseSend, ChannelAssumption
      <3>2. ASSUME NEW n \in ReadSizes, Recv(e, n) PROVE SetupInv' /\ CloseInv'
        BY <3>2, CloseRecv, ChannelAssumption
      <3>3. CASE RecvEof(e)
        BY <3>3, CloseUnchanged DEF RecvEof, session
      <3> QED
        BY <2>2, <3>1, <3>2, <3>3, CloseConnect, CloseAccept, CloseClose DEF Call
    <2>3. CASE Receive(e)
      BY <2>3, CloseNewChannel, CloseResponse, CloseChannelClose, CloseQuietReceive DEF Receive
    <2>4. CASE CloseTimeoutTriggered(e)
      BY <2>4, CloseTimer
    <2> QED
      BY <2>1, <2>2, <2>3, <2>4
  <1> QED
    BY <1>1, <1>2

\* Without the timeout of Channel::Close (Channel.cc:244), an end is Closed
\* only when its peer has sent a Close of its own, for every window, packet
\* size and choice of features.
THEOREM NoHalfOpenChannel == Spec => []NoHalfOpen
  <1>1. Init => SetupInv /\ CloseInv
    BY CloseInit
  <1>2. FlowInv /\ SetupInv /\ CloseInv /\ [Next]_vars => SetupInv' /\ CloseInv'
    BY CloseNext DEF CloseOK
  <1>3. CloseInv => NoHalfOpen
    BY DEF CloseInv, NoHalfOpen, Leaving
  <1>4. Spec => []FlowInv
    BY FlowInvariant
  <1> QED
    BY <1>1, <1>2, <1>3, <1>4, PTL DEF Spec
=============================================================================
