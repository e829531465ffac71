-------------------------- MODULE SessionStreamProofs --------------------------
(***************************************************************************)
(* Proofs about module Session, for every capacity of the sockets, version *)
(* of the server, number of calls, and serializer that reads back what it  *)
(* writes (SerializerAssumption).  What is between two ends is always a    *)
(* whole number of pieces (the signature, lengths, and bodies of frames),  *)
(* the first of which the reader may have in part and the last of which    *)
(* the writer may still hold in part.                                      *)
(***************************************************************************)
EXTENDS Session, SequenceTheorems, WellFoundedInduction, TLAPS

-----------------------------------------------------------------------------
(* Units, paths and the records of an end.                                 *)

AllDefinitions == UNION {Definitions(e) : e \in Ends}
Paths == UNION {{defs[i] : i \in DOMAIN defs} : defs \in AllDefinitions}
Bodies == UNION {{Serialize(defs, Tree(m)).stream : defs \in Definitions(e), m \in Sendable(e)} :
                 e \in Ends}
Units == {Unit("signature", 1), Unit("signature", 2), MsgType_Type, MsgType_Value}
         \cup {Unit("digit", i) : i \in Nat} \cup {Unit("path", d) : d \in Paths}
         \cup UNION {{s[i] : i \in DOMAIN s} : s \in Bodies}
Base == LengthBase * LengthBase

\* What a receiver knows of the first k definitions.
Table(defs, k) == [id \in ROOT_PATH_ID + 1 .. ROOT_PATH_ID + k |-> defs[id - ROOT_PATH_ID]]

Numbered(defs) == defs \in Seq(Paths) /\ \A i \in 1 .. Len(defs) : defs[i].id = ROOT_PATH_ID + i

\* A length is read as it was written.
LEMMA LengthReads ==
  ASSUME NEW n \in Nat, n < Base
  PROVE  LengthUnits(n) \in Seq(Units) /\ Len(LengthUnits(n)) = 2 /\ LengthOf(LengthUnits(n)) = n
         /\ \A i \in DOMAIN LengthUnits(n) : LengthUnits(n)[i].unit = "digit"
  <1> DEFINE b == LengthBase
             q == n \div b
             r == n % b
  <1>1. b \in Nat \ {0, 1}
    BY TransportAssumption
  <1>2. q \in Nat /\ r \in Nat /\ n = b * q + r /\ r < b
    BY <1>1
  <1>3. q < b
    <2>1. b * q < b * b
      BY <1>1, <1>2 DEF Base
    <2> HIDE DEF q, r
    <2> QED
      BY <1>1, <1>2, <2>1
  <1>4. q % b = q
    <2> HIDE DEF q, r
    <2> QED
      BY <1>1, <1>2, <1>3
  <1>5. LengthUnits(n) = <<Unit("digit", r), Unit("digit", q)>>
    BY <1>4 DEF LengthUnits
  <1> HIDE DEF q, r
  <1>6. Unit("digit", r) \in Units /\ Unit("digit", q) \in Units
    BY <1>2 DEF Units
  <1>7. LengthOf(LengthUnits(n)) = r + b * q
    BY <1>5 DEF LengthOf, Unit
  <1>8. \A i \in DOMAIN LengthUnits(n) : LengthUnits(n)[i].unit = "digit"
    BY <1>5 DEF Unit
  <1> DEFINE x == Unit("digit", r)
             y == Unit("digit", q)
             u == LengthUnits(n)
  <1>9. u = <<x, y>> /\ x \in Units /\ y \in Units
    BY <1>5, <1>6
  <1> HIDE DEF x, y, u
  <1>10. u \in Seq(Units) /\ Len(u) = 2
    BY <1>9
  <1>11. LengthOf(LengthUnits(n)) = n
    BY <1>1, <1>2, <1>7
  <1> QED
    BY <1>8, <1>10, <1>11 DEF u

\* What the serializer makes of a message that an end may send (SerializerAssumption).
LEMMA SerializeFacts ==
  ASSUME NEW e \in Ends, NEW defs \in Definitions(e), NEW m \in Sendable(e),
         defs # <<>> \/ m \in HellosOf(e)
  PROVE  LET body == Serialize(defs, Tree(m))
         IN  /\ body.defs \in Definitions(e) /\ body.defs # <<>>
             /\ Len(defs) <= Len(body.defs) /\ SubSeq(body.defs, 1, Len(defs)) = defs
             /\ body.stream \in Seq(Units) /\ Len(body.stream) + 1 < Base
             /\ Deserialize(body.stream,
                            UpdatePathRegistryFromStream(NothingKnown, body.defs)) = Tree(m)
  <1> DEFINE body == Serialize(defs, Tree(m))
  <1>1. Registrable(e, Definitions(e), defs)
    BY SerializerAssumption
  <1>2. m \in IF defs = <<>> THEN HellosOf(e) ELSE Sendable(e)
    OBVIOUS
  <1>3. ReadsBack(Definitions(e), defs, Tree(m))
    BY <1>1, <1>2 DEF Registrable
  <1>4. /\ body.defs # <<>> /\ body.defs \in Definitions(e) /\ IsPrefix(defs, body.defs)
        /\ IsSequence(body.stream) /\ Len(body.stream) + 1 < Base
        /\ Deserialize(body.stream, UpdatePathRegistryFromStream(NothingKnown, body.defs)) = Tree(m)
    BY <1>3 DEF ReadsBack, Base
  <1>5. Registrable(e, Definitions(e), body.defs) /\ IsSequence(defs)
    BY <1>1, <1>4, SerializerAssumption DEF Registrable
  <1>6. SubSeq(defs, 1, Len(defs)) = defs
    <2>1. defs \in Seq({defs[i] : i \in 1 .. Len(defs)})
      BY <1>5 DEF IsSequence
    <2> QED
      BY <2>1, SubSeqFull
  <1>7. body.stream \in Seq(Units)
    <2> DEFINE s == body.stream
    <2>1. s \in Bodies
      BY DEF Bodies
    <2> HIDE DEF s
    <2>2. s = [i \in 1 .. Len(s) |-> s[i]] /\ Len(s) \in Nat
      BY <1>4 DEF IsSequence, s
    <2>3. \A i \in 1 .. Len(s) : s[i] \in Units
      BY <2>1, <2>2 DEF Units
    <2>4. s \in Seq(Units)
      BY <2>2, <2>3
    <2> QED
      BY <2>4 DEF s
  <1> QED
    BY <1>4, <1>6, <1>7 DEF IsPrefix

\* Paths that an end has registered have consecutive ids.
LEMMA DefinitionsNumbered ==
  ASSUME NEW e \in Ends, NEW defs \in Definitions(e)
  PROVE  Numbered(defs) /\ Len(defs) \in Nat /\ Len(defs) + 1 < Base
  <1>1. Registrable(e, Definitions(e), defs)
    BY SerializerAssumption
  <1>2. /\ defs = [i \in 1 .. Len(defs) |-> defs[i]] /\ Len(defs) \in Nat /\ Len(defs) + 1 < Base
        /\ \A i \in DOMAIN defs : defs[i].id = ROOT_PATH_ID + i
    BY <1>1 DEF Registrable, IsSequence, Base
  <1>3. \A i \in 1 .. Len(defs) : defs[i] \in Paths
    BY <1>2 DEF Paths, AllDefinitions
  <1>4. DOMAIN defs = 1 .. Len(defs)
    BY <1>2
  <1>5. defs \in Seq(Paths)
    BY <1>2, <1>3
  <1> QED
    BY <1>2, <1>4, <1>5 DEF Numbered


-----------------------------------------------------------------------------
(* Positions in a stream.  A reader and a writer are at a position: what   *)
(* comes next, the length of the body if that is next, the definitions     *)
(* that have gone by, and the messages that have gone by.                  *)

Data == Seq(Units)
Messages == UNION {Sendable(e) : e \in Ends}
Positions == [stage : {"signature", "header", "body"}, length : Nat,
              known : Seq(Paths), messages : Seq(Messages)]
Position(stage, length, known, messages) ==
  [stage |-> stage, length |-> length, known |-> known, messages |-> messages]

\* What a receiver knows after these definitions.
Learned(defs) == UpdatePathRegistryFromStream(NothingKnown, defs)

PathPiece(from, d, to) ==
  \E new \in Seq(Paths) :
    /\ d = <<MsgType_Type>> \o PathUnits(new)
    /\ Numbered(from.known \o new)
    /\ to = Position("header", 0, from.known \o new, from.messages)

ValuePiece(from, d, to) ==
  \E m \in Messages, s \in Data :
    /\ d = <<MsgType_Value>> \o s
    /\ Deserialize(s, Learned(from.known)) = Tree(m)
    /\ to = Position("header", 0, from.known, Append(from.messages, m))

\* The data that leads from one position to the next one.
Piece(from, d, to) ==
  \/ /\ from.stage = "signature"
     /\ d = Signature
     /\ to = Position("header", 0, from.known, from.messages)
  \/ /\ from.stage = "header"
     /\ \E n \in 1 .. Base - 1 :
          d = LengthUnits(n) /\ to = Position("body", n, from.known, from.messages)
  \/ /\ from.stage = "body" /\ Len(d) = from.length
     /\ PathPiece(from, d, to) \/ ValuePiece(from, d, to)

\* Data that is whole pieces, from a position to a position: the least relation that
\* holds of no data and of one more piece.
Triples == Data \X Positions \X Positions
Closed(C) ==
  /\ \A p \in Positions : << <<>>, p, p >> \in C
  /\ \A s, d \in Data, p, q, r \in Positions :
       <<s, p, q>> \in C /\ Piece(q, d, r) => <<s \o d, p, r>> \in C
Whole == {x \in Triples : \A C \in SUBSET Triples : Closed(C) => x \in C}
Leads(from, s, to) == <<s, from, to>> \in Whole

\* Leads is about data and positions.
LEMMA LeadsTypes ==
  ASSUME NEW p, NEW s, NEW q, Leads(p, s, q)
  PROVE  p \in Positions /\ s \in Data /\ q \in Positions
  BY DEF Leads, Whole, Triples

\* The empty sequence.
LEMMA NothingIsData == <<>> \in Data
  BY EmptySeq DEF Data

\* Data one after the other are data.
LEMMA ConcatData ==
  ASSUME NEW s \in Data, NEW d \in Data
  PROVE  s \o d \in Data /\ Len(s \o d) = Len(s) + Len(d)
  BY ConcatProperties DEF Data

\* Messages one after the other are messages.
LEMMA ConcatMessages ==
  ASSUME NEW a \in Seq(Messages), NEW b \in Seq(Messages)
  PROVE  /\ a \o b \in Seq(Messages) /\ Len(a \o b) = Len(a) + Len(b)
         /\ a \o <<>> = a /\ <<>> \o a = a
         /\ \A m \in Messages : (a \o b) \o <<m>> = a \o (b \o <<m>>)
                              /\ Append(a, m) = a \o <<m>>
  <1>1. a \o b \in Seq(Messages) /\ Len(a \o b) = Len(a) + Len(b)
    BY ConcatProperties
  <1>2. a \o <<>> = a /\ <<>> \o a = a
    BY ConcatEmptySeq
  <1>3. ASSUME NEW m \in Messages
        PROVE  (a \o b) \o <<m>> = a \o (b \o <<m>>) /\ Append(a, m) = a \o <<m>>
    <2> DEFINE l == <<m>>
    <2>1. l \in Seq(Messages)
      OBVIOUS
    <2>2. Append(a, m) = a \o l
      BY AppendIsConcat
    <2> HIDE DEF l
    <2>3. (a \o b) \o l = a \o (b \o l)
      BY <2>1, ConcatAssociative
    <2> QED
      BY <2>2, <2>3 DEF l
  <1> QED
    BY <1>1, <1>2, <1>3

\* No units lead nowhere.
LEMMA LeadsNowhere ==
  ASSUME NEW p \in Positions
  PROVE  Leads(p, <<>>, p)
  <1>1. << <<>>, p, p >> \in Triples
    BY NothingIsData DEF Triples
  <1> QED
    BY <1>1 DEF Leads, Whole, Closed

\* One more piece at the end.
LEMMA LeadsOn ==
  ASSUME NEW p, NEW s, NEW q, NEW d \in Data, NEW r \in Positions, Leads(p, s, q), Piece(q, d, r)
  PROVE  Leads(p, s \o d, r)
  <1>1. p \in Positions /\ s \in Data /\ q \in Positions
    BY LeadsTypes
  <1> DEFINE t == s \o d
  <1>2. t \in Data
    BY <1>1, ConcatData
  <1>3. ASSUME NEW C \in SUBSET Triples, Closed(C)
        PROVE  <<t, p, r>> \in C
    <2>1. <<s, p, q>> \in C
      BY <1>3 DEF Leads, Whole
    <2> QED
      BY <1>1, <1>3, <2>1 DEF Closed
  <1> HIDE DEF t
  <1>4. <<t, p, r>> \in Triples
    BY <1>1, <1>2 DEF Triples
  <1>5. Leads(p, t, r)
    BY <1>3, <1>4 DEF Leads, Whole
  <1> QED
    BY <1>5 DEF t

\* Induction over pieces: what holds of no units and is kept by one more piece.
LEMMA WholeIsLeast ==
  ASSUME NEW C \in SUBSET Triples, Closed(C), NEW p, NEW s, NEW q, Leads(p, s, q)
  PROVE  <<s, p, q>> \in C
  BY DEF Leads, Whole

\* The first piece.
LEMMA LeadsFirst ==
  ASSUME NEW p, NEW s, NEW r, Leads(p, s, r)
  PROVE  \/ s = <<>> /\ p = r
         \/ \E d, t \in Data, q \in Positions : s = d \o t /\ Piece(p, d, q) /\ Leads(q, t, r)
  <1> DEFINE First(u, a, b) ==
               \/ u = <<>> /\ a = b
               \/ \E d, t \in Data, c \in Positions :
                    u = d \o t /\ Piece(a, d, c) /\ Leads(c, t, b)
             C == {x \in Triples : First(x[1], x[2], x[3])}
  <1>1. ASSUME NEW a \in Positions PROVE << <<>>, a, a >> \in C
    BY NothingIsData DEF Triples
  <1>2. ASSUME NEW u \in Data, NEW e \in Data, NEW a \in Positions, NEW b \in Positions,
               NEW c \in Positions, <<u, a, b>> \in C, Piece(b, e, c)
        PROVE  <<u \o e, a, c>> \in C
    <2>1. u \o e \in Data
      BY ConcatData
    <2>2. First(u, a, b)
      BY <1>2
    <2>3. CASE u = <<>> /\ a = b
      <3>1. u \o e = e /\ e \o <<>> = e
        BY <2>3, ConcatEmptySeq DEF Data
      <3>2. Leads(c, <<>>, c) /\ <<>> \in Data
        BY LeadsNowhere, NothingIsData
      <3>3. First(u \o e, a, c)
        BY <1>2, <2>3, <3>1, <3>2
      <3> QED
        BY <2>1, <3>3 DEF Triples
    <2>4. CASE \E d, t \in Data, f \in Positions : u = d \o t /\ Piece(a, d, f) /\ Leads(f, t, b)
      <3>1. PICK d, t \in Data, f \in Positions : u = d \o t /\ Piece(a, d, f) /\ Leads(f, t, b)
        BY <2>4
      <3>2. u \o e = d \o (t \o e)
        <4>1. (d \o t) \o e = d \o (t \o e)
          BY ConcatAssociative DEF Data
        <4> QED
          BY <3>1, <4>1
      <3>3. Leads(f, t \o e, c) /\ t \o e \in Data
        BY <1>2, <3>1, LeadsOn, ConcatData
      <3>4. First(u \o e, a, c)
        BY <3>1, <3>2, <3>3
      <3> QED
        BY <2>1, <3>4 DEF Triples
    <2> QED
      BY <2>2, <2>3, <2>4
  <1>3. Closed(C) /\ C \in SUBSET Triples
    <2> HIDE DEF C
    <2>1. Closed(C)
      BY <1>1, <1>2 DEF Closed
    <2> QED
      BY <2>1 DEF C
  <1>4. <<s, p, r>> \in C
    <2> HIDE DEF C
    <2> QED
      BY <1>3, WholeIsLeast
  <1> QED
    BY <1>4

\* Messages that have gone by are not taken back.
LEMMA LeadsForward ==
  ASSUME NEW p, NEW s, NEW r, Leads(p, s, r)
  PROVE  \E more \in Seq(Messages) : r.messages = p.messages \o more
  <1> DEFINE Grows(a, b) == \E more \in Seq(Messages) : b.messages = a.messages \o more
             C == {x \in Triples : Grows(x[2], x[3])}
  <1>1. ASSUME NEW a \in Positions PROVE << <<>>, a, a >> \in C
    <2>1. a.messages \in Seq(Messages)
      BY DEF Positions
    <2>2. a.messages = a.messages \o <<>> /\ <<>> \in Seq(Messages)
      BY <2>1, ConcatEmptySeq, EmptySeq
    <2>3. Grows(a, a)
      BY <2>2
    <2> QED
      BY <2>3, NothingIsData DEF Triples
  <1>2. ASSUME NEW u \in Data, NEW e \in Data, NEW a \in Positions, NEW b \in Positions,
               NEW c \in Positions, <<u, a, b>> \in C, Piece(b, e, c)
        PROVE  <<u \o e, a, c>> \in C
    <2>1. PICK more \in Seq(Messages) : b.messages = a.messages \o more
      BY <1>2
    <2>2. a.messages \in Seq(Messages)
      BY DEF Positions
    <2>3. c.messages = b.messages \/ \E m \in Messages : c.messages = Append(b.messages, m)
      <3>1. CASE \E stage, length, known :
                   c = Position(stage, length, known, b.messages)
        BY <3>1 DEF Position
      <3>2. CASE \E known : \E m \in Messages :
                   c = Position("header", 0, known, Append(b.messages, m))
        BY <3>2 DEF Position
      <3> QED
        BY <1>2, <3>1, <3>2 DEF Piece, PathPiece, ValuePiece
    <2>4. Grows(a, c)
      <3>1. CASE c.messages = b.messages
        BY <2>1, <3>1
      <3>2. CASE \E m \in Messages : c.messages = Append(b.messages, m)
        <4>1. PICK m \in Messages : c.messages = Append(b.messages, m)
          BY <3>2
        <4>2. b.messages \in Seq(Messages) /\ <<m>> \in Seq(Messages)
          BY DEF Positions
        <4>3. Append(b.messages, m) = b.messages \o <<m>>
          BY <4>2, ConcatMessages
        <4>4. (a.messages \o more) \o <<m>> = a.messages \o (more \o <<m>>)
          BY <2>2, ConcatMessages
        <4>5. more \o <<m>> \in Seq(Messages)
          BY <4>2, ConcatMessages
        <4>6. c.messages = a.messages \o (more \o <<m>>)
          BY <2>1, <4>1, <4>3, <4>4
        <4> QED
          BY <4>5, <4>6
      <3> QED
        BY <2>3, <3>1, <3>2
    <2>5. u \o e \in Data
      BY ConcatData
    <2> QED
      BY <2>4, <2>5 DEF Triples
  <1>3. Closed(C) /\ C \in SUBSET Triples
    <2> HIDE DEF C
    <2>1. Closed(C)
      BY <1>1, <1>2 DEF Closed
    <2> QED
      BY <2>1 DEF C
  <1>4. <<s, p, r>> \in C
    <2> HIDE DEF C
    <2> QED
      BY <1>3, WholeIsLeast
  <1> QED
    BY <1>4

-----------------------------------------------------------------------------
(* What a receiver learns from definitions.                                *)

\* A receiver that knows the first k paths and reads the next ones knows them all.
LEMMA LearnMore ==
  ASSUME NEW defs \in Seq(Paths), NEW k \in Nat, NEW known,
         \A i \in 1 .. Len(defs) : defs[i].id = ROOT_PATH_ID + k + i,
         DOMAIN known = ROOT_PATH_ID + 1 .. ROOT_PATH_ID + k
  PROVE  UpdatePathRegistryFromStream(known, defs)
           = [id \in ROOT_PATH_ID + 1 .. ROOT_PATH_ID + k + Len(defs) |->
                IF id <= ROOT_PATH_ID + k THEN known[id] ELSE defs[id - (ROOT_PATH_ID + k)]]
  <1> DEFINE b == ROOT_PATH_ID + k
             n == Len(defs)
             last(id) == CHOOSE i \in DOMAIN defs :
                           defs[i].id = id /\ \A j \in DOMAIN defs : defs[j].id = id => j <= i
             ids == {defs[i].id : i \in DOMAIN defs}
             f == [id \in ids |-> defs[last(id)]]
  <1>1. n \in Nat /\ DOMAIN defs = 1 .. n /\ b \in Nat
    BY LenProperties DEF ROOT_PATH_ID
  <1>2. \A i \in 1 .. n : defs[i].id = b + i
    OBVIOUS
  <1> DEFINE both == [id \in ids \cup DOMAIN known |->
                        IF id \in ids THEN f[id] ELSE known[id]]
  <1>3. UpdatePathRegistryFromStream(known, defs) = both
    BY DEF UpdatePathRegistryFromStream
  <1> HIDE DEF b, n
  <1>4. \A i \in 1 .. n : last(b + i) = i
    BY <1>1, <1>2
  <1>5. ids = b + 1 .. b + n
    <2>1. ASSUME NEW id \in b + 1 .. b + n PROVE id \in ids
      <3>1. id - b \in 1 .. n /\ b + (id - b) = id
        BY <1>1
      <3> QED
        BY <1>1, <1>2, <3>1
    <2>2. ASSUME NEW id \in ids PROVE id \in b + 1 .. b + n
      <3>1. PICK i \in 1 .. n : id = defs[i].id
        BY <1>1
      <3> QED
        BY <1>1, <1>2, <3>1
    <2> HIDE DEF ids
    <2> QED
      BY <2>1, <2>2
  <1>6. \A id \in b + 1 .. b + n : f[id] = defs[id - b]
    <2>1. ASSUME NEW id \in b + 1 .. b + n PROVE f[id] = defs[id - b]
      <3>1. id - b \in 1 .. n /\ b + (id - b) = id
        BY <1>1
      <3> HIDE DEF last
      <3>2. last(id) = id - b
        <4> DEFINE i == id - b
        <4>1. i \in 1 .. n /\ b + i = id
          BY <3>1
        <4> HIDE DEF i
        <4>2. last(b + i) = i
          BY <1>4, <4>1
        <4> QED
          BY <4>1, <4>2 DEF i
      <3> QED
        BY <1>5, <3>2
    <2> QED
      BY <2>1
  <1> HIDE DEF f, ids
  <1>8. DOMAIN known = ROOT_PATH_ID + 1 .. b
    BY DEF b
  <1>9. ROOT_PATH_ID \in Nat /\ b >= ROOT_PATH_ID
    BY DEF ROOT_PATH_ID, b
  <1> DEFINE g == [id \in ROOT_PATH_ID + 1 .. b + n |->
                     IF id <= b THEN known[id] ELSE defs[id - b]]
  <1>10. ids \cup DOMAIN known = ROOT_PATH_ID + 1 .. b + n
    BY <1>1, <1>5, <1>8, <1>9
  <1>11. ASSUME NEW id \in ROOT_PATH_ID + 1 .. b + n
         PROVE  (IF id \in ids THEN f[id] ELSE known[id]) = g[id]
    <2>1. CASE id <= b
      BY <1>1, <1>5, <2>1
    <2>2. CASE ~(id <= b)
      <3>1. id \in b + 1 .. b + n
        BY <1>1, <1>9, <2>2
      <3> QED
        BY <1>5, <1>6, <2>2, <3>1
    <2> QED
      BY <2>1, <2>2
  <1>12. both = g
    BY <1>10, <1>11
  <1> QED
    BY <1>3, <1>12 DEF b, n

\* A receiver that has read all definitions has the table of the sender.
LEMMA LearnedIsTable ==
  ASSUME NEW defs, Numbered(defs)
  PROVE  Learned(defs) = Table(defs, Len(defs))
  <1>1. defs \in Seq(Paths) /\ \A i \in 1 .. Len(defs) : defs[i].id = ROOT_PATH_ID + 0 + i
    BY DEF Numbered, ROOT_PATH_ID
  <1> DEFINE none == NothingKnown
             n == Len(defs)
             k == 0
  <1>2. DOMAIN none = ROOT_PATH_ID + 1 .. ROOT_PATH_ID + k /\ k \in Nat
    BY DEF NothingKnown, ROOT_PATH_ID
  <1>3. n \in Nat
    BY <1>1, LenProperties
  <1>6. \A i \in 1 .. Len(defs) : defs[i].id = ROOT_PATH_ID + k + i
    BY <1>1
  <1> HIDE DEF none, k
  <1>4. UpdatePathRegistryFromStream(none, defs)
           = [id \in ROOT_PATH_ID + 1 .. ROOT_PATH_ID + k + Len(defs) |->
                IF id <= ROOT_PATH_ID + k THEN none[id] ELSE defs[id - (ROOT_PATH_ID + k)]]
    BY <1>1, <1>2, <1>6, LearnMore
  <1> HIDE DEF n
  <1>5. [id \in ROOT_PATH_ID + 1 .. ROOT_PATH_ID + k + n |->
                IF id <= ROOT_PATH_ID + k THEN none[id] ELSE defs[id - (ROOT_PATH_ID + k)]]
        = Table(defs, n)
    BY <1>3 DEF Table, ROOT_PATH_ID, k
  <1> QED
    BY <1>4, <1>5 DEF Learned, none, n

\* Definitions that follow others are learned on top of them.
LEMMA LearnedGrows ==
  ASSUME NEW a \in Seq(Paths), NEW b \in Seq(Paths), Numbered(a \o b)
  PROVE  /\ Numbered(a)
         /\ UpdatePathRegistryFromStream(Learned(a), b) = Learned(a \o b)
  <1> DEFINE c == a \o b
             k == Len(a)
             n == Len(b)
             t == Table(a, k)
  <1>1. /\ k \in Nat /\ n \in Nat /\ Len(c) = k + n
        /\ \A i \in 1 .. k : c[i] = a[i]
        /\ \A i \in 1 .. n : c[k + i] = b[i]
    <2>1. /\ Len(c) = Len(a) + Len(b)
          /\ \A i \in 1 .. Len(a) + Len(b) : c[i] = IF i <= Len(a) THEN a[i] ELSE b[i - Len(a)]
      BY ConcatProperties
    <2>2. Len(a) \in Nat /\ Len(b) \in Nat
      BY LenProperties
    <2> HIDE DEF c
    <2> QED
      BY <2>1, <2>2
  <1>2. \A i \in 1 .. k + n : c[i].id = ROOT_PATH_ID + i
    BY <1>1 DEF Numbered
  <1> HIDE DEF c
  <1>3. \A i \in 1 .. Len(a) : a[i].id = ROOT_PATH_ID + i
    BY <1>1, <1>2
  <1>4. Numbered(a)
    BY <1>3 DEF Numbered
  <1>5. \A i \in 1 .. Len(b) : b[i].id = ROOT_PATH_ID + k + i
    <2>1. ASSUME NEW i \in 1 .. n PROVE b[i].id = ROOT_PATH_ID + k + i
      <3>1. k + i \in 1 .. k + n /\ ROOT_PATH_ID + (k + i) = ROOT_PATH_ID + k + i
        BY <1>1 DEF ROOT_PATH_ID
      <3> QED
        BY <1>1, <1>2, <3>1
    <2> QED
      BY <2>1
  <1>6. DOMAIN t = ROOT_PATH_ID + 1 .. ROOT_PATH_ID + k
    BY DEF Table
  <1>7. \A id \in ROOT_PATH_ID + 1 .. ROOT_PATH_ID + k : t[id] = a[id - ROOT_PATH_ID]
    BY DEF Table
  <1>8. Learned(a) = t
    BY <1>4, LearnedIsTable
  <1>9. Learned(c) = Table(c, k + n)
    BY <1>1, LearnedIsTable DEF c
  <1> HIDE DEF t
  <1>10. UpdatePathRegistryFromStream(t, b)
           = [id \in ROOT_PATH_ID + 1 .. ROOT_PATH_ID + k + Len(b) |->
                IF id <= ROOT_PATH_ID + k THEN t[id] ELSE b[id - (ROOT_PATH_ID + k)]]
    BY <1>1, <1>5, <1>6, LearnMore
  <1> HIDE DEF k, n
  <1>11. ASSUME NEW id \in ROOT_PATH_ID + 1 .. ROOT_PATH_ID + k + n
         PROVE  (IF id <= ROOT_PATH_ID + k THEN t[id] ELSE b[id - (ROOT_PATH_ID + k)])
                  = c[id - ROOT_PATH_ID]
    <2>1. CASE id <= ROOT_PATH_ID + k
      <3>1. id - ROOT_PATH_ID \in 1 .. k /\ id \in ROOT_PATH_ID + 1 .. ROOT_PATH_ID + k
        BY <1>1, <2>1 DEF ROOT_PATH_ID
      <3> QED
        BY <1>1, <1>7, <2>1, <3>1
    <2>2. CASE ~(id <= ROOT_PATH_ID + k)
      <3>1. id - (ROOT_PATH_ID + k) \in 1 .. n /\ k + (id - (ROOT_PATH_ID + k)) = id - ROOT_PATH_ID
        BY <1>1, <2>2 DEF ROOT_PATH_ID
      <3>2. c[k + (id - (ROOT_PATH_ID + k))] = b[id - (ROOT_PATH_ID + k)]
        BY <1>1, <3>1
      <3>3. c[id - ROOT_PATH_ID] = b[id - (ROOT_PATH_ID + k)]
        BY <3>1, <3>2, Zenon
      <3> QED
        BY <2>2, <3>3, Zenon
    <2> QED
      BY <2>1, <2>2
  <1>12. UpdatePathRegistryFromStream(t, b) = Table(c, k + n)
    <2>1. ROOT_PATH_ID + k + n = ROOT_PATH_ID + (k + n)
      BY <1>1 DEF ROOT_PATH_ID
    <2> QED
      BY <1>10, <1>11, <2>1 DEF Table, n
  <1> QED
    BY <1>4, <1>8, <1>9, <1>12 DEF c

-----------------------------------------------------------------------------
(* Data that is cut, and data that waits in a queue.                       *)

\* Data can be cut anywhere.
LEMMA CutData ==
  ASSUME NEW s \in Data, NEW n \in 0 .. Len(s)
  PROVE  /\ SubSeq(s, 1, n) \in Data /\ Len(SubSeq(s, 1, n)) = n
         /\ SubSeq(s, n + 1, Len(s)) \in Data /\ Len(SubSeq(s, n + 1, Len(s))) = Len(s) - n
         /\ SubSeq(s, 1, n) \o SubSeq(s, n + 1, Len(s)) = s
  <1> DEFINE l == Len(s)
             m == n + 1
             one == 1
  <1>1. l \in Nat /\ m \in Int /\ one \in Int /\ n \in Int /\ l \in Int /\ m = n + 1 /\ one = 1
    BY LenProperties DEF Data
  <1>2. \A i \in 1 .. l : s[i] \in Units
    BY ElementOfSeq DEF Data
  <1> HIDE DEF l, m, one
  <1>3. (\A i \in one .. n : s[i] \in Units) /\ (\A i \in m .. l : s[i] \in Units)
    BY <1>1, <1>2 DEF l
  <1>4. SubSeq(s, one, n) \in Data /\ Len(SubSeq(s, one, n)) = IF one <= n THEN n - one + 1 ELSE 0
    BY <1>1, <1>3, SubSeqProperties DEF Data
  <1>5. SubSeq(s, m, l) \in Data /\ Len(SubSeq(s, m, l)) = IF m <= l THEN l - m + 1 ELSE 0
    BY <1>1, <1>3, SubSeqProperties DEF Data
  <1>6. SubSeq(s, one, n) \o SubSeq(s, n + 1, l) = SubSeq(s, one, l)
    <2>1. s \in Seq(Units) /\ one \in 1 .. Len(s) + 1 /\ n \in one - 1 .. Len(s) /\ l \in n .. Len(s)
      BY <1>1 DEF Data, l
    <2> QED
      BY <2>1, ConcatAdjacentSubSeq
  <1>7. SubSeq(s, one, l) = s
    BY SubSeqFull DEF Data, one, l
  <1>8. Len(SubSeq(s, one, n)) = n /\ Len(SubSeq(s, m, l)) = l - n
    <2>1. n >= 0 /\ n <= l
      BY DEF l
    <2> QED
      BY <1>1, <1>4, <1>5, <2>1
  <1>9. SubSeq(s, one, n) \o SubSeq(s, m, l) = s
    BY <1>6, <1>7 DEF m
  <1>10. /\ SubSeq(s, one, n) \in Data /\ Len(SubSeq(s, one, n)) = n
         /\ SubSeq(s, m, l) \in Data /\ Len(SubSeq(s, m, l)) = l - n
         /\ SubSeq(s, one, n) \o SubSeq(s, m, l) = s
    BY <1>4, <1>5, <1>8, <1>9
  <1> QED
    BY <1>10 DEF one, m, l

\* Two ways to cut the same data at the same place.
LEMMA SameCut ==
  ASSUME NEW a \in Data, NEW b \in Data, NEW c \in Data, NEW d \in Data,
         a \o b = c \o d, Len(a) = Len(c)
  PROVE  a = c /\ b = d
  <1> DEFINE s == a \o b
  <1>1. Len(a) \in Nat /\ Len(b) \in Nat /\ Len(c) \in Nat
    BY LenProperties DEF Data
  <1>2. \A i \in 1 .. Len(a) + Len(b) : s[i] = IF i <= Len(a) THEN a[i] ELSE b[i - Len(a)]
    BY ConcatProperties DEF Data
  <1>3. \A i \in 1 .. Len(c) + Len(d) : s[i] = IF i <= Len(c) THEN c[i] ELSE d[i - Len(c)]
    BY ConcatProperties DEF Data
  <1>4. Len(s) = Len(a) + Len(b) /\ Len(s) = Len(c) + Len(d)
    BY ConcatProperties DEF Data
  <1> HIDE DEF s
  <1>5. \A i \in 1 .. Len(a) : a[i] = c[i]
    BY <1>1, <1>2, <1>3, <1>4
  <1>6. a = c
    BY <1>5, SeqEqual DEF Data
  <1>7. a \o b = a \o d
    BY <1>6
  <1> QED
    BY <1>6, <1>7, ConcatSimplifications DEF Data

\* Concatenation is associative,
LEMMA DataAssociative ==
  ASSUME NEW a \in Data, NEW b \in Data, NEW c \in Data
  PROVE  (a \o b) \o c = a \o (b \o c)
  BY ConcatAssociative DEF Data

\* and the empty sequence changes nothing.
LEMMA DataAndNothing ==
  ASSUME NEW a \in Data
  PROVE  a \o <<>> = a /\ <<>> \o a = a
  BY ConcatEmptySeq DEF Data

\* What a queue of data amounts to: the least relation that holds of the empty queue
\* and of one more entry at its end.
Pairs == Data \X Seq(Data)
Joining(C) ==
  /\ << <<>>, <<>> >> \in C
  /\ \A s, d \in Data, q \in Seq(Data) : <<s, q>> \in C => <<s \o d, Append(q, d)>> \in C
Joins == {x \in Pairs : \A C \in SUBSET Pairs : Joining(C) => x \in C}
Made(s, q) == <<s, q>> \in Joins

\* Made is about data and queues of data.
LEMMA MadeTypes ==
  ASSUME NEW s, NEW q, Made(s, q)
  PROVE  s \in Data /\ q \in Seq(Data)
  BY DEF Made, Joins, Pairs

\* Induction over a queue from its front.
LEMMA JoinsIsLeast ==
  ASSUME NEW C \in SUBSET Pairs, Joining(C), NEW s, NEW q, Made(s, q)
  PROVE  <<s, q>> \in C
  BY DEF Made, Joins

\* The empty queue is nothing,
LEMMA MadeOfNothing == Made(<<>>, <<>>)
  <1>1. << <<>>, <<>> >> \in Pairs
    BY NothingIsData, EmptySeq DEF Pairs
  <1> QED
    BY <1>1 DEF Made, Joins, Joining

\* an entry more at the end is more units at the end,
LEMMA MadeAppend ==
  ASSUME NEW s, NEW q, Made(s, q), NEW d \in Data
  PROVE  Made(s \o d, Append(q, d))
  <1> DEFINE t == s \o d
             r == Append(q, d)
  <1>1. s \in Data /\ q \in Seq(Data)
    BY MadeTypes
  <1>2. t \in Data /\ r \in Seq(Data)
    BY <1>1, ConcatData, AppendProperties
  <1>3. ASSUME NEW C \in SUBSET Pairs, Joining(C)
        PROVE  <<t, r>> \in C
    <2>1. <<s, q>> \in C
      BY <1>3, JoinsIsLeast
    <2> QED
      BY <1>1, <1>3, <2>1 DEF Joining
  <1> HIDE DEF t, r
  <1>4. Made(t, r)
    BY <1>2, <1>3 DEF Made, Joins, Pairs
  <1> QED
    BY <1>4 DEF t, r

\* and nothing else comes out of an empty queue.
LEMMA MadeEmpty ==
  ASSUME NEW s, Made(s, <<>>)
  PROVE  s = <<>>
  <1> DEFINE C == {x \in Pairs : x[2] = <<>> => x[1] = <<>>}
             none == <<>>
  <1>1. << <<>>, <<>> >> \in C
    BY NothingIsData, EmptySeq DEF Pairs
  <1>2. ASSUME NEW u \in Data, NEW d \in Data, NEW q \in Seq(Data)
        PROVE  <<u \o d, Append(q, d)>> \in C
    <2>1. u \o d \in Data
      BY ConcatData
    <2>2. Append(q, d) \in Seq(Data) /\ Append(q, d) # <<>>
      BY AppendProperties
    <2> QED
      BY <2>1, <2>2 DEF Pairs
  <1>3. C \in SUBSET Pairs /\ Joining(C)
    <2> HIDE DEF C
    <2>1. Joining(C)
      BY <1>1, <1>2 DEF Joining
    <2> QED
      BY <2>1 DEF C
  <1>4. <<s, none>> \in C
    <2> HIDE DEF C
    <2> QED
      BY <1>3, JoinsIsLeast
  <1> QED
    BY <1>4

\* The front of a queue is what its units begin with.
LEMMA MadeFirst ==
  ASSUME NEW s, NEW q, Made(s, q), q # <<>>
  PROVE  \E t \in Data : s = q[1] \o t /\ Made(t, Tail(q))
  <1> DEFINE First(u, p) == p # <<>> => \E t \in Data : u = p[1] \o t /\ Made(t, Tail(p))
             C == {x \in Pairs : First(x[1], x[2]) /\ Made(x[1], x[2])}
  <1>1. << <<>>, <<>> >> \in C
    BY NothingIsData, EmptySeq, MadeOfNothing DEF Pairs
  <1>2. ASSUME NEW u \in Data, NEW d \in Data, NEW p \in Seq(Data), <<u, p>> \in C
        PROVE  <<u \o d, Append(p, d)>> \in C
    <2>1. u \o d \in Data /\ Append(p, d) \in Seq(Data)
      BY ConcatData, AppendProperties
    <2>2. Made(u \o d, Append(p, d))
      BY <1>2, MadeAppend
    <2>3. Head(Append(p, d)) = (IF p = <<>> THEN d ELSE Head(p))
          /\ Tail(Append(p, d)) = (IF p = <<>> THEN <<>> ELSE Append(Tail(p), d))
      BY HeadTailAppend
    <2>4. Append(p, d)[1] = (IF p = <<>> THEN d ELSE p[1])
      <3>1. CASE p = <<>>
        BY <3>1
      <3>2. CASE p # <<>>
        <4>1. Len(p) \in Nat \ {0}
          BY <3>2, EmptySeq
        <4> QED
          BY <3>2, <4>1, AppendProperties
      <3> QED
        BY <3>1, <3>2
    <2>5. First(u \o d, Append(p, d))
      <3>1. CASE p = <<>>
        <4>1. u = <<>>
          BY <1>2, <3>1, MadeEmpty
        <4>2. u \o d = d /\ d \o <<>> = d
          BY <4>1, DataAndNothing
        <4> QED
          BY <2>3, <2>4, <3>1, <4>2, MadeOfNothing, NothingIsData
      <3>2. CASE p # <<>>
        <4>1. PICK t \in Data : u = p[1] \o t /\ Made(t, Tail(p))
          BY <1>2, <3>2
        <4>2. p[1] \in Data
          <5>1. Len(p) \in Nat \ {0}
            BY <3>2, EmptySeq
          <5> QED
            BY <5>1, ElementOfSeq
        <4>3. u \o d = p[1] \o (t \o d)
          BY <4>1, <4>2, DataAssociative
        <4>4. t \o d \in Data /\ Made(t \o d, Append(Tail(p), d))
          BY <4>1, MadeAppend, ConcatData
        <4> QED
          BY <2>3, <2>4, <3>2, <4>3, <4>4
      <3> QED
        BY <3>1, <3>2
    <2> QED
      BY <2>1, <2>2, <2>5 DEF Pairs
  <1>3. C \in SUBSET Pairs /\ Joining(C)
    <2> HIDE DEF C
    <2>1. Joining(C)
      BY <1>1, <1>2 DEF Joining
    <2> QED
      BY <2>1 DEF C
  <1>4. <<s, q>> \in C
    <2> HIDE DEF C
    <2> QED
      BY <1>3, JoinsIsLeast
  <1> QED
    BY <1>4

\* An entry more at the front.
LEMMA MadeCons ==
  ASSUME NEW s, NEW q, Made(s, q), NEW d \in Data
  PROVE  Made(d \o s, <<d>> \o q)
  <1> DEFINE C == {x \in Pairs : Made(d \o x[1], <<d>> \o x[2])}
             l == <<d>>
             none == <<>>
  <1>1. l \in Seq(Data) /\ l \o <<>> = l /\ d \o <<>> = d /\ Append(none, d) = l /\ <<>> \o d = d
    BY ConcatEmptySeq, DataAndNothing
  <1>2. << <<>>, <<>> >> \in C
    <2>1. Made(<<>> \o d, Append(none, d))
      BY MadeOfNothing, MadeAppend
    <2>2. Made(d \o <<>>, l \o <<>>)
      BY <1>1, <2>1
    <2> QED
      BY <2>2, NothingIsData, EmptySeq DEF Pairs
  <1>3. ASSUME NEW u \in Data, NEW e \in Data, NEW p \in Seq(Data), <<u, p>> \in C
        PROVE  <<u \o e, Append(p, e)>> \in C
    <2>1. u \o e \in Data /\ Append(p, e) \in Seq(Data)
      BY ConcatData, AppendProperties
    <2>2. Made((d \o u) \o e, Append(l \o p, e))
      BY <1>3, MadeAppend
    <2>3. (d \o u) \o e = d \o (u \o e)
      BY DataAssociative
    <2>4. Append(l \o p, e) = l \o Append(p, e)
      <3> DEFINE m == <<e>>
      <3>1. m \in Seq(Data) /\ l \o p \in Seq(Data)
        BY <1>1, ConcatProperties
      <3>2. Append(l \o p, e) = (l \o p) \o m /\ Append(p, e) = p \o m
        BY <3>1, AppendIsConcat
      <3> HIDE DEF m, l
      <3>3. (l \o p) \o m = l \o (p \o m)
        BY <1>1, <3>1, ConcatAssociative
      <3> QED
        BY <3>2, <3>3
    <2>5. Made(d \o (u \o e), l \o Append(p, e))
      BY <2>2, <2>3, <2>4
    <2> QED
      BY <2>1, <2>5 DEF Pairs
  <1>4. C \in SUBSET Pairs /\ Joining(C)
    <2> HIDE DEF C
    <2>1. Joining(C)
      BY <1>2, <1>3 DEF Joining
    <2> QED
      BY <2>1 DEF C
  <1>5. <<s, q>> \in C
    <2> HIDE DEF C
    <2> QED
      BY <1>4, JoinsIsLeast
  <1> QED
    BY <1>5

-----------------------------------------------------------------------------
(* The transport of an end, and what writing does to it.                   *)

Transports ==
  [registry : [defs : Seq(Paths), announced : Nat], known : {Learned(k) : k \in Seq(Paths)},
   senderQueue : Seq(Data), writePoll : BOOLEAN,
   signatureSent : BOOLEAN, signatureRcvd : BOOLEAN,
   recvRaw : Data, expectedLen : Nat, readingHeader : BOOLEAN,
   endTransport : BOOLEAN, open : BOOLEAN]

\* What writing leaves alone.
SameReader(t, u) ==
  /\ t.known = u.known /\ t.signatureRcvd = u.signatureRcvd /\ t.recvRaw = u.recvRaw
  /\ t.expectedLen = u.expectedLen /\ t.readingHeader = u.readingHeader
SameEnd(t, u) == t.endTransport = u.endTransport /\ t.open = u.open
SameProgress(t, u) == t.registry = u.registry /\ t.signatureSent = u.signatureSent

NoneEmpty(q) == \A i \in 1 .. Len(q) : q[i] # <<>>
SenderOK(s) ==
  /\ s \in [t : Transports, wire : Data]
  /\ Len(s.wire) <= Capacity /\ NoneEmpty(s.t.senderQueue)

\* All that is between a reader, which has pre already, and a writer.
Linked(pre, from, s, to) ==
  \E u \in Data : Made(u, s.t.senderQueue) /\ Leads(from, pre \o (s.wire \o u), to)

\* The lesser of two numbers.
LEMMA MinOfTwo ==
  ASSUME NEW a \in Int, NEW b \in Int
  PROVE  Min({a, b}) = IF a <= b THEN a ELSE b
  <1> DEFINE x == IF a <= b THEN a ELSE b
  <1>1. x \in {a, b} /\ \A y \in {a, b} : x <= y
    OBVIOUS
  <1>2. \A z \in {a, b} : (\A y \in {a, b} : z <= y) => z = x
    OBVIOUS
  <1> HIDE DEF x
  <1>3. Min({a, b}) = x
    BY <1>1, <1>2 DEF Min
  <1> QED
    BY <1>3 DEF x

\* What the socket takes and what remains are the two parts of what is written.
LEMMA AcceptedFacts ==
  ASSUME NEW w \in Data, Len(w) <= Capacity, NEW d \in Data
  PROVE  /\ Accepted(w, d) \in Data /\ Remainder(w, d) \in Data
         /\ Accepted(w, d) \o Remainder(w, d) = d
         /\ w \o Accepted(w, d) \in Data /\ Len(w \o Accepted(w, d)) <= Capacity
  <1> DEFINE n == Min({Len(d), Capacity - Len(w)})
             a == Accepted(w, d)
  <1>1. Len(d) \in Nat /\ Len(w) \in Nat /\ Capacity \in Nat
    BY LenProperties, TransportAssumption DEF Data
  <1>2. n \in 0 .. Len(d) /\ n <= Capacity - Len(w)
    <2>1. n = IF Len(d) <= Capacity - Len(w) THEN Len(d) ELSE Capacity - Len(w)
      <3> DEFINE p == Len(d)
                 q == Capacity - Len(w)
      <3>1. p \in Int /\ q \in Int
        BY <1>1
      <3> HIDE DEF p, q
      <3>2. Min({p, q}) = IF p <= q THEN p ELSE q
        BY <3>1, MinOfTwo
      <3> QED
        BY <3>2 DEF p, q
    <2> HIDE DEF n
    <2> QED
      BY <1>1, <2>1
  <1>3. a = SubSeq(d, 1, n)
    BY DEF Accepted
  <1> HIDE DEF n, a
  <1>4. a \in Data /\ Len(a) = n
    BY <1>2, <1>3, CutData
  <1>5. Remainder(w, d) = SubSeq(d, n + 1, Len(d))
    BY <1>4 DEF Remainder, a
  <1>6. Remainder(w, d) \in Data /\ a \o Remainder(w, d) = d
    BY <1>2, <1>3, <1>5, CutData
  <1>7. w \o a \in Data /\ Len(w \o a) = Len(w) + Len(a)
    BY <1>4, ConcatData
  <1>8. Len(w \o a) <= Capacity
    BY <1>1, <1>2, <1>4, <1>7
  <1> QED
    BY <1>4, <1>6, <1>7, <1>8 DEF a

\* Data that is queued or written comes after all that is on its way.
LEMMA LinkGrows ==
  ASSUME NEW pre \in Data, NEW w \in Data, NEW u \in Data, NEW d \in Data,
         NEW from, NEW to, NEW next \in Positions,
         Leads(from, pre \o (w \o u), to), Piece(to, d, next)
  PROVE  Leads(from, pre \o (w \o (u \o d)), next)
  <1>1. w \o u \in Data /\ u \o d \in Data
    BY ConcatData
  <1>2. (pre \o (w \o u)) \o d = pre \o ((w \o u) \o d)
    BY <1>1, DataAssociative, ZenonT(60)
  <1>3. (w \o u) \o d = w \o (u \o d)
    BY DataAssociative, ZenonT(60)
  <1>4. Leads(from, (pre \o (w \o u)) \o d, next)
    BY LeadsOn
  <1> QED
    BY <1>2, <1>3, <1>4

\* SendOrQueueData: what is on the wire and queued grows by the data, in order.
LEMMA SendOrQueueKeeps ==
  ASSUME NEW s, SenderOK(s), NEW d \in Data, d # <<>>
  PROVE  LET r == SendOrQueueData(s, d)
         IN  /\ SenderOK(r)
             /\ SameReader(s.t, r.t) /\ SameEnd(s.t, r.t) /\ SameProgress(s.t, r.t)
             /\ s.t.senderQueue # <<>> => r.t.senderQueue # <<>> /\ r.wire = s.wire
             /\ \A pre \in Data, from, to, next \in Positions :
                  Linked(pre, from, s, to) /\ Piece(to, d, next) => Linked(pre, from, r, next)
  <1> DEFINE r == SendOrQueueData(s, d)
             q == s.t.senderQueue
             a == Accepted(s.wire, d)
             rest == Remainder(s.wire, d)
  <1>1. s.t \in Transports /\ s.wire \in Data /\ q \in Seq(Data) /\ Len(s.wire) <= Capacity
        /\ \A i \in 1 .. Len(q) : q[i] # <<>>
    BY DEF SenderOK, Transports, NoneEmpty
  <1>2. CASE q # <<>>
    <2> DEFINE p == Append(q, d)
    <2>1. r = [s EXCEPT !.t.senderQueue = p]
      BY <1>2 DEF SendOrQueueData
    <2>2. p \in Seq(Data) /\ p # <<>>
      BY <1>1, AppendProperties
    <2>3. \A i \in 1 .. Len(p) : p[i] # <<>>
      <3>1. Len(q) \in Nat /\ Len(p) = Len(q) + 1 /\ p[Len(q) + 1] = d
            /\ \A i \in 1 .. Len(q) : p[i] = q[i]
        BY <1>1, AppendProperties, LenProperties
      <3> HIDE DEF p, q
      <3> QED
        BY <1>1, <3>1
    <2>4. \A u \in Data : Made(u, q) => Made(u \o d, p)
      BY MadeAppend
    <2> HIDE DEF p
    <2>5. r = [t |-> [s.t EXCEPT !.senderQueue = p], wire |-> s.wire]
      BY <2>1 DEF SenderOK
    <2>6. r.wire = s.wire /\ r.t = [s.t EXCEPT !.senderQueue = p]
      BY <2>5
    <2> HIDE DEF r
    <2>7. r.t \in Transports /\ r.t.senderQueue = p
          /\ SameReader(s.t, r.t) /\ SameEnd(s.t, r.t) /\ SameProgress(s.t, r.t)
      BY <1>1, <2>2, <2>6 DEF Transports, SameReader, SameEnd, SameProgress
    <2>8. SenderOK(r)
      BY <1>1, <2>3, <2>5, <2>6, <2>7 DEF SenderOK, NoneEmpty
    <2>9. ASSUME NEW pre \in Data, NEW from \in Positions, NEW to \in Positions,
                 NEW next \in Positions, Linked(pre, from, s, to), Piece(to, d, next)
          PROVE  Linked(pre, from, r, next)
      <3>1. PICK u \in Data : Made(u, q) /\ Leads(from, pre \o (s.wire \o u), to)
        BY <2>9 DEF Linked
      <3>2. Leads(from, pre \o (s.wire \o (u \o d)), next)
        BY <1>1, <2>9, <3>1, LinkGrows
      <3>3. u \o d \in Data
        BY ConcatData
      <3> QED
        BY <2>4, <2>6, <2>7, <3>1, <3>2, <3>3 DEF Linked
    <2> QED
      BY <2>2, <2>6, <2>7, <2>8, <2>9 DEF r
  <1>3. CASE q = <<>>
    <2>1. /\ a \in Data /\ rest \in Data /\ a \o rest = d
          /\ s.wire \o a \in Data /\ Len(s.wire \o a) <= Capacity
      BY <1>1, AcceptedFacts
    <2> DEFINE t == IF rest = <<>> THEN s.t
                     ELSE [s.t EXCEPT !.senderQueue = <<rest>>, !.writePoll = TRUE]
    <2>2. r = [wire |-> s.wire \o a, t |-> t]
      BY <1>3 DEF SendOrQueueData
    <2> DEFINE p == IF rest = <<>> THEN <<>> ELSE <<rest>>
               none == <<>>
    <2>3. p \in Seq(Data) /\ \A i \in 1 .. Len(p) : p[i] # <<>>
      <3>1. CASE rest = <<>>
        BY <3>1
      <3>2. CASE rest # <<>>
        BY <2>1, <3>2
      <3> QED
        BY <3>1, <3>2
    <2>4. Made(rest, p)
      <3>1. CASE rest = <<>>
        BY <3>1, MadeOfNothing
      <3>2. CASE rest # <<>>
        <4>1. Made(none \o rest, Append(none, rest))
          BY <2>1, MadeOfNothing, MadeAppend
        <4>2. none \o rest = rest
          BY <2>1, DataAndNothing
        <4> QED
          BY <3>2, <4>1, <4>2
      <3> QED
        BY <3>1, <3>2
    <2>5. r.wire = s.wire \o a /\ r.t = t /\ r = [wire |-> r.wire, t |-> r.t]
      <3> HIDE DEF r, a, t
      <3> QED
        BY <2>2
    <2>6. r.t.senderQueue = p /\ r.t \in Transports
          /\ SameReader(s.t, r.t) /\ SameEnd(s.t, r.t) /\ SameProgress(s.t, r.t)
      <3>1. CASE rest = <<>>
        <4>1. r.t = s.t /\ p = <<>>
          BY <2>5, <3>1
        <4> QED
          BY <1>1, <1>3, <4>1 DEF SameReader, SameEnd, SameProgress
      <3>2. CASE rest # <<>>
        <4>1. r.t = [s.t EXCEPT !.senderQueue = p, !.writePoll = TRUE]
          BY <2>5, <3>2
        <4> HIDE DEF p, r
        <4> QED
          BY <1>1, <2>3, <4>1 DEF Transports, SameReader, SameEnd, SameProgress
      <3> QED
        BY <3>1, <3>2
    <2> HIDE DEF p, r, a, rest
    <2>7. SenderOK(r)
      BY <2>1, <2>3, <2>5, <2>6 DEF SenderOK, NoneEmpty
    <2>8. ASSUME NEW pre \in Data, NEW from \in Positions, NEW to \in Positions,
                 NEW next \in Positions, Linked(pre, from, s, to), Piece(to, d, next)
          PROVE  Linked(pre, from, r, next)
      <3>1. PICK u \in Data : Made(u, q) /\ Leads(from, pre \o (s.wire \o u), to)
        BY <2>8 DEF Linked
      <3>2. u = <<>>
        BY <1>3, <3>1, MadeEmpty
      <3>3. Leads(from, pre \o (s.wire \o (u \o d)), next)
        BY <1>1, <2>8, <3>1, LinkGrows
      <3>4. u \o d = d
        BY <3>2, DataAndNothing
      <3>5. s.wire \o (a \o rest) = (s.wire \o a) \o rest
        <4> DEFINE w == s.wire
        <4>1. w \in Data
          BY <1>1
        <4> HIDE DEF w
        <4>2. (w \o a) \o rest = w \o (a \o rest)
          BY <2>1, <4>1, DataAssociative
        <4> QED
          BY <4>2 DEF w
      <3>6. Leads(from, pre \o (r.wire \o rest), next)
        BY <2>1, <2>5, <3>3, <3>4, <3>5
      <3> QED
        BY <2>1, <2>4, <2>6, <3>6 DEF Linked
    <2> QED
      BY <1>3, <2>6, <2>7, <2>8 DEF r
  <1> QED
    BY <1>2, <1>3

-----------------------------------------------------------------------------
(* Sending one message: the signature, the definitions of new paths, and   *)
(* the body, each queued or written.                                       *)

RegistryOK(e, t) ==
  t.registry.defs \in Definitions(e) /\ t.registry.announced \in 0 .. Len(t.registry.defs)

\* Where a writer is that has sent these messages.
WritePosition(t, messages) ==
  Position(IF t.signatureSent THEN "header" ELSE "signature", 0,
           SubSeq(t.registry.defs, 1, t.registry.announced), messages)

\* The paths announced so far are paths.
LEMMA PrefixOfDefinitions ==
  ASSUME NEW defs \in Seq(Paths), NEW n \in 0 .. Len(defs)
  PROVE  /\ SubSeq(defs, 1, n) \in Seq(Paths)
         /\ SubSeq(defs, n + 1, Len(defs)) \in Seq(Paths)
         /\ Len(SubSeq(defs, n + 1, Len(defs))) = Len(defs) - n
         /\ SubSeq(defs, 1, n) \o SubSeq(defs, n + 1, Len(defs)) = defs
  <1> DEFINE l == Len(defs)
             m == n + 1
             one == 1
  <1>1. l \in Nat /\ m \in Int /\ one \in Int /\ n \in Int /\ l \in Int /\ m = n + 1 /\ one = 1
        /\ n <= l
    BY LenProperties
  <1>2. \A i \in 1 .. l : defs[i] \in Paths
    BY ElementOfSeq
  <1>3. one \in 1 .. Len(defs) + 1 /\ n \in one - 1 .. Len(defs) /\ l \in n .. Len(defs)
    BY <1>1
  <1> HIDE DEF l, m, one
  <1>4. (\A i \in one .. n : defs[i] \in Paths) /\ (\A i \in m .. l : defs[i] \in Paths)
    BY <1>1, <1>2
  <1>5. SubSeq(defs, one, n) \in Seq(Paths)
    BY <1>1, <1>4, SubSeqProperties
  <1>6. SubSeq(defs, m, l) \in Seq(Paths) /\ Len(SubSeq(defs, m, l)) = IF m <= l THEN l - m + 1 ELSE 0
    BY <1>1, <1>4, SubSeqProperties
  <1>7. SubSeq(defs, one, n) \o SubSeq(defs, n + 1, l) = SubSeq(defs, one, l)
    BY <1>3, ConcatAdjacentSubSeq
  <1>8. SubSeq(defs, one, l) = defs
    BY SubSeqFull DEF one, l
  <1>9. Len(SubSeq(defs, m, l)) = l - n
    BY <1>1, <1>6
  <1>10. SubSeq(defs, one, n) \o SubSeq(defs, m, l) = defs
    BY <1>7, <1>8 DEF m
  <1> QED
    BY <1>5, <1>6, <1>9, <1>10 DEF one, m, l

\* Where a writer is, is a position.
LEMMA WritePositionTypes ==
  ASSUME NEW e \in Ends, NEW t \in Transports, RegistryOK(e, t), NEW M \in Seq(Messages)
  PROVE  WritePosition(t, M) \in Positions
  <1>1. SubSeq(t.registry.defs, 1, t.registry.announced) \in Seq(Paths)
    BY PrefixOfDefinitions DEF RegistryOK, Transports
  <1> QED
    BY <1>1 DEF WritePosition, Position, Positions

\* The signature has two units.
LEMMA SignatureFacts == Signature \in Data /\ Len(Signature) = 2 /\ Signature # <<>>
  BY DEF Signature, Data, Units

\* The signature is the first piece.
LEMMA SendSignatureKeeps ==
  ASSUME NEW e \in Ends, NEW s, SenderOK(s), RegistryOK(e, s.t)
  PROVE  LET r == SendSignature(s)
         IN  /\ SenderOK(r) /\ SameReader(s.t, r.t) /\ SameEnd(s.t, r.t)
             /\ r.t.registry = s.t.registry /\ r.t.signatureSent
             /\ s.t.senderQueue # <<>> => r.t.senderQueue # <<>> /\ r.wire = s.wire
             /\ \A pre \in Data, from \in Positions, M \in Seq(Messages) :
                  Linked(pre, from, s, WritePosition(s.t, M))
                    => Linked(pre, from, r, WritePosition(r.t, M))
  <1> DEFINE r == SendSignature(s)
             x == SendOrQueueData(s, Signature)
  <1>1. CASE s.t.signatureSent
    <2>1. r = s
      BY <1>1 DEF SendSignature
    <2> HIDE DEF r
    <2> QED
      BY <1>1, <2>1 DEF SameReader, SameEnd, r
  <1>2. CASE ~s.t.signatureSent
    <2>1. r = [x EXCEPT !.t.signatureSent = TRUE]
      BY <1>2 DEF SendSignature
    <2>2. /\ SenderOK(x)
          /\ SameReader(s.t, x.t) /\ SameEnd(s.t, x.t) /\ SameProgress(s.t, x.t)
          /\ s.t.senderQueue # <<>> => x.t.senderQueue # <<>> /\ x.wire = s.wire
          /\ \A pre \in Data, from, to, next \in Positions :
               Linked(pre, from, s, to) /\ Piece(to, Signature, next) => Linked(pre, from, x, next)
      BY SignatureFacts, SendOrQueueKeeps
    <2> HIDE DEF x
    <2>3. r.t = [x.t EXCEPT !.signatureSent = TRUE] /\ r.wire = x.wire
          /\ r = [t |-> r.t, wire |-> r.wire]
      <3>1. x = [t |-> x.t, wire |-> x.wire]
        BY <2>2 DEF SenderOK
      <3> QED
        BY <2>1, <3>1
    <2> HIDE DEF r
    <2>4. x.t \in Transports /\ s.t \in Transports
      BY <2>2 DEF SenderOK
    <2>5. /\ r.t \in Transports /\ r.t.signatureSent = TRUE /\ r.t.senderQueue = x.t.senderQueue
          /\ SameReader(x.t, r.t) /\ SameEnd(x.t, r.t) /\ r.t.registry = x.t.registry
      BY <2>3, <2>4 DEF Transports, SameReader, SameEnd
    <2>6. SenderOK(r)
      BY <2>2, <2>3, <2>5 DEF SenderOK
    <2>7. ASSUME NEW pre \in Data, NEW from \in Positions, NEW M \in Seq(Messages),
                 Linked(pre, from, s, WritePosition(s.t, M))
          PROVE  Linked(pre, from, r, WritePosition(r.t, M))
      <3> DEFINE to == WritePosition(s.t, M)
                 next == WritePosition(r.t, M)
      <3>1. RegistryOK(e, r.t)
        BY <2>2, <2>5 DEF RegistryOK, SameProgress
      <3>2. to \in Positions /\ next \in Positions
        BY <2>4, <2>5, <3>1, WritePositionTypes
      <3>3. Piece(to, Signature, next)
        BY <1>2, <2>2, <2>5 DEF WritePosition, Position, Piece, SameProgress
      <3> HIDE DEF to, next
      <3>4. Linked(pre, from, x, next)
        BY <2>2, <2>7, <3>2, <3>3 DEF to
      <3> QED
        BY <2>3, <2>5, <3>4 DEF Linked, next
    <2> QED
      BY <2>2, <2>3, <2>5, <2>6, <2>7 DEF SameReader, SameEnd, SameProgress, r
  <1> QED
    BY <1>1, <1>2

\* A frame is the piece of its length and that of its body.
LEMMA FrameKeeps ==
  ASSUME NEW s, SenderOK(s), NEW units \in Data, units # <<>>, Len(units) < Base
  PROVE  LET r == Frame(s, units)
         IN  /\ SenderOK(r)
             /\ SameReader(s.t, r.t) /\ SameEnd(s.t, r.t) /\ SameProgress(s.t, r.t)
             /\ \A pre \in Data, from, to, next \in Positions :
                  /\ Linked(pre, from, s, to) /\ to.stage = "header"
                  /\ Piece(Position("body", Len(units), to.known, to.messages), units, next)
                  => Linked(pre, from, r, next)
  <1> DEFINE n == Len(units)
             d == LengthUnits(n)
             x == SendOrQueueData(s, d)
             r == SendOrQueueData(x, units)
  <1>1. n \in Nat \ {0} /\ n \in 1 .. Base - 1
    <2>1. n \in Nat \ {0}
      BY EmptySeq DEF Data
    <2>2. Base \in Nat
      BY TransportAssumption DEF Base
    <2> HIDE DEF n
    <2> QED
      BY <2>1, <2>2 DEF n
  <1>2. d \in Data /\ d # <<>>
    <2> HIDE DEF n
    <2>1. n \in Nat /\ n < Base
      <3>1. Base \in Nat
        BY TransportAssumption DEF Base
      <3> QED
        BY <1>1, <3>1
    <2>2. d \in Seq(Units) /\ Len(d) = 2
      BY <2>1, LengthReads
    <2> HIDE DEF d
    <2>3. d # <<>>
      <3>1. d = <<>> <=> Len(d) = 0
        BY <2>2, EmptySeq
      <3> QED
        BY <2>2, <3>1
    <2>4. d \in Data
      BY <2>2 DEF Data
    <2> QED
      BY <2>3, <2>4
  <1>3. Frame(s, units) = r
    BY DEF Frame
  <1> HIDE DEF n
  <1>4. /\ SenderOK(x)
        /\ SameReader(s.t, x.t) /\ SameEnd(s.t, x.t) /\ SameProgress(s.t, x.t)
        /\ \A pre \in Data, from, to, next \in Positions :
             Linked(pre, from, s, to) /\ Piece(to, d, next) => Linked(pre, from, x, next)
    <2> HIDE DEF d
    <2> QED
      BY <1>2, SendOrQueueKeeps
  <1> HIDE DEF x
  <1>5. /\ SenderOK(r)
        /\ SameReader(x.t, r.t) /\ SameEnd(x.t, r.t) /\ SameProgress(x.t, r.t)
        /\ \A pre \in Data, from, to, next \in Positions :
             Linked(pre, from, x, to) /\ Piece(to, units, next) => Linked(pre, from, r, next)
    BY <1>4, SendOrQueueKeeps
  <1> HIDE DEF r
  <1>6. ASSUME NEW pre \in Data, NEW from \in Positions, NEW to \in Positions,
               NEW next \in Positions, Linked(pre, from, s, to), to.stage = "header",
               Piece(Position("body", n, to.known, to.messages), units, next)
        PROVE  Linked(pre, from, r, next)
    <2> DEFINE mid == Position("body", n, to.known, to.messages)
    <2>1. mid \in Positions
      BY <1>1 DEF Position, Positions
    <2>2. Piece(to, d, mid)
      BY <1>1, <1>6 DEF Piece
    <2> HIDE DEF mid, d
    <2>3. Linked(pre, from, x, mid)
      BY <1>4, <1>6, <2>1, <2>2
    <2> QED
      BY <1>5, <1>6, <2>1, <2>3 DEF mid
  <1>7. SameReader(s.t, r.t) /\ SameEnd(s.t, r.t) /\ SameProgress(s.t, r.t)
    BY <1>4, <1>5 DEF SameReader, SameEnd, SameProgress
  <1> QED
    BY <1>3, <1>5, <1>6, <1>7 DEF n

\* What follows the mark of a frame.
LEMMA MarkedData ==
  ASSUME NEW mark \in {MsgType_Type, MsgType_Value}, NEW s \in Data
  PROVE  /\ <<mark>> \o s \in Data /\ <<mark>> \o s # <<>> /\ Len(<<mark>> \o s) = Len(s) + 1
         /\ (<<mark>> \o s)[1] = mark /\ Tail(<<mark>> \o s) = s
  <1> DEFINE l == <<mark>>
             d == l \o s
  <1>1. l \in Data /\ Len(l) = 1 /\ l[1] = mark
    BY DEF Data, Units
  <1>2. Len(s) \in Nat
    BY LenProperties DEF Data
  <1> HIDE DEF l
  <1>3. d \in Seq(Units) /\ Len(d) = 1 + Len(s)
        /\ \A i \in 1 .. 1 + Len(s) : d[i] = IF i <= 1 THEN l[i] ELSE s[i - 1]
    <2>1. d \in Seq(Units) /\ Len(d) = Len(l) + Len(s)
          /\ \A i \in 1 .. Len(l) + Len(s) : d[i] = IF i <= Len(l) THEN l[i] ELSE s[i - Len(l)]
      BY <1>1, ConcatProperties DEF Data
    <2> HIDE DEF d
    <2> QED
      BY <1>1, <2>1
  <1> HIDE DEF d
  <1>4. d # <<>> /\ d[1] = mark
    BY <1>1, <1>2, <1>3
  <1>5. Tail(d) = s
    <2> DEFINE t == Tail(d)
    <2>1. t \in Seq(Units) /\ Len(t) = Len(d) - 1 /\ \A i \in 1 .. Len(t) : t[i] = d[i + 1]
      BY <1>3, <1>4, HeadTailProperties
    <2> HIDE DEF t
    <2>2. Len(t) = Len(s) /\ \A i \in 1 .. Len(t) : t[i] = s[i]
      BY <1>2, <1>3, <2>1
    <2>3. t = s
      BY <2>1, <2>2, SeqEqual DEF Data
    <2> QED
      BY <2>3 DEF t
  <1>6. d \in Data
    BY <1>3 DEF Data
  <1> QED
    BY <1>2, <1>3, <1>4, <1>5, <1>6 DEF d, l

\* The units of path definitions.
LEMMA PathUnitsFacts ==
  ASSUME NEW new \in Seq(Paths)
  PROVE  /\ PathUnits(new) \in Data /\ Len(PathUnits(new)) = Len(new)
         /\ \A i \in 1 .. Len(new) : PathUnits(new)[i] = Unit("path", new[i])
  <1> DEFINE n == Len(new)
             f == [i \in 1 .. n |-> Unit("path", new[i])]
  <1>1. n \in Nat /\ DOMAIN new = 1 .. n /\ \A i \in 1 .. n : new[i] \in Paths
    BY LenProperties, ElementOfSeq
  <1>2. PathUnits(new) = f
    BY <1>1 DEF PathUnits
  <1> HIDE DEF n
  <1>3. \A i \in 1 .. n : Unit("path", new[i]) \in Units
    BY <1>1 DEF Units
  <1>4. f \in Seq(Units) /\ Len(f) = n
    BY <1>1, <1>3
  <1> QED
    BY <1>2, <1>4 DEF Data, n

\* A definition frame leads past the paths that it announces.
LEMMA AnnouncePathsKeeps ==
  ASSUME NEW e \in Ends, NEW s, SenderOK(s), RegistryOK(e, s.t), s.t.signatureSent
  PROVE  LET r == AnnouncePaths(s)
         IN  /\ SenderOK(r) /\ SameReader(s.t, r.t) /\ SameEnd(s.t, r.t)
             /\ r.t.signatureSent /\ r.t.registry.defs = s.t.registry.defs
             /\ r.t.registry.announced = Len(s.t.registry.defs)
             /\ \A pre \in Data, from \in Positions, M \in Seq(Messages) :
                  Linked(pre, from, s, WritePosition(s.t, M))
                    => Linked(pre, from, r, Position("header", 0, s.t.registry.defs, M))
  <1> DEFINE r == AnnouncePaths(s)
             defs == s.t.registry.defs
             k == s.t.registry.announced
             old == SubSeq(defs, 1, k)
             new == SubSeq(defs, k + 1, Len(defs))
             p == PathUnits(new)
             units == <<MsgType_Type>> \o p
             x == Frame(s, units)
  <1>1. /\ s.t \in Transports /\ s = [t |-> s.t, wire |-> s.wire] /\ defs \in Definitions(e)
        /\ defs \in Seq(Paths) /\ k \in 0 .. Len(defs) /\ Len(defs) \in Nat
        /\ Len(defs) + 1 < Base /\ Numbered(defs)
    BY DefinitionsNumbered DEF SenderOK, RegistryOK, Transports
  <1>2. old \in Seq(Paths) /\ new \in Seq(Paths) /\ Len(new) = Len(defs) - k /\ old \o new = defs
    BY <1>1, PrefixOfDefinitions
  <1>3. NewlyAddedPath(s.t.registry) = new
    BY DEF NewlyAddedPath
  <1>4. \A M : WritePosition(s.t, M) = Position("header", 0, old, M)
    BY DEF WritePosition
  <1>5. CASE new = <<>>
    <2>1. r = s
      BY <1>3, <1>5 DEF AnnouncePaths
    <2>2. k = Len(defs)
      <3> HIDE DEF new, k
      <3>1. Len(new) = 0
        BY <1>5
      <3> QED
        BY <1>1, <1>2, <3>1
    <2>3. old = defs
      BY <1>2, <1>5, ConcatEmptySeq
    <2> HIDE DEF r, old
    <2> QED
      BY <1>4, <2>1, <2>2, <2>3 DEF SameReader, SameEnd, r
  <1>6. CASE new # <<>>
    <2>1. r = [x EXCEPT !.t.registry = ClearNewlyAddedPath(@)]
      BY <1>3, <1>6 DEF AnnouncePaths
    <2>2. p \in Data /\ Len(p) = Len(new)
      <3> HIDE DEF new
      <3> QED
        BY <1>2, PathUnitsFacts
    <2>3. units \in Data /\ units # <<>> /\ Len(units) = Len(p) + 1
      <3> HIDE DEF p
      <3> QED
        BY <2>2, MarkedData
    <2>4. Len(units) < Base
      <3>1. Base \in Nat
        BY TransportAssumption DEF Base
      <3> HIDE DEF units, p, new
      <3> QED
        <4>1. /\ Len(units) = Len(new) + 1 /\ Len(new) = Len(defs) - k
              /\ Len(defs) \in Nat /\ k \in 0 .. Len(defs) /\ Len(defs) + 1 < Base
          BY <1>1, <1>2, <2>2, <2>3
        <4> HIDE DEF k, defs
        <4> QED
          BY <3>1, <4>1
    <2> HIDE DEF units, p
    <2>5. /\ SenderOK(x)
          /\ SameReader(s.t, x.t) /\ SameEnd(s.t, x.t) /\ SameProgress(s.t, x.t)
          /\ \A pre \in Data, from, to, next \in Positions :
               /\ Linked(pre, from, s, to) /\ to.stage = "header"
               /\ Piece(Position("body", Len(units), to.known, to.messages), units, next)
               => Linked(pre, from, x, next)
      BY <2>3, <2>4, FrameKeeps
    <2> HIDE DEF x
    <2>6. x = [t |-> x.t, wire |-> x.wire] /\ x.t \in Transports /\ x.t.registry = s.t.registry
      BY <2>5 DEF SenderOK, SameProgress
    <2>7. r.t = [x.t EXCEPT !.registry = ClearNewlyAddedPath(@)] /\ r.wire = x.wire
          /\ r = [t |-> r.t, wire |-> r.wire]
      BY <2>1, <2>6
    <2> HIDE DEF r
    <2>8. ClearNewlyAddedPath(x.t.registry) = [defs |-> defs, announced |-> Len(defs)]
      <3>1. x.t.registry = [defs |-> defs, announced |-> k]
        BY <1>1, <2>6 DEF Transports
      <3> QED
        BY <3>1 DEF ClearNewlyAddedPath
    <2>9. r.t.registry = [defs |-> defs, announced |-> Len(defs)]
          /\ r.t = [x.t EXCEPT !.registry = [defs |-> defs, announced |-> Len(defs)]]
      BY <2>6, <2>7, <2>8 DEF Transports
    <2> HIDE DEF defs, k
    <2> DEFINE reg == [defs |-> defs, announced |-> Len(defs)]
    <2>15. reg \in [defs : Seq(Paths), announced : Nat] /\ r.t = [x.t EXCEPT !.registry = reg]
      BY <1>1, <2>9
    <2> HIDE DEF reg
    <2>10. /\ r.t \in Transports /\ r.t.signatureSent = x.t.signatureSent
           /\ r.t.senderQueue = x.t.senderQueue /\ SameReader(x.t, r.t) /\ SameEnd(x.t, r.t)
      BY <2>6, <2>15 DEF Transports, SameReader, SameEnd
    <2>11. SenderOK(r)
      BY <2>5, <2>7, <2>10 DEF SenderOK
    <2>12. ASSUME NEW pre \in Data, NEW from \in Positions, NEW M \in Seq(Messages),
                  Linked(pre, from, s, WritePosition(s.t, M))
           PROVE  Linked(pre, from, r, Position("header", 0, defs, M))
      <3> DEFINE to == Position("header", 0, old, M)
                 next == Position("header", 0, defs, M)
                 mid == Position("body", Len(units), to.known, to.messages)
      <3>1. to \in Positions /\ next \in Positions /\ to.stage = "header"
            /\ to.known = old /\ to.messages = M
        BY <1>1, <1>2 DEF Position, Positions
      <3>2. Piece(mid, units, next)
        <4>1. PathPiece(mid, units, next)
          <5>1. mid.known = old /\ mid.messages = M
            BY <3>1 DEF Position
          <5> HIDE DEF mid, old, new
          <5>2. next = Position("header", 0, mid.known \o new, mid.messages)
            BY <1>2, <5>1
          <5>3. Numbered(mid.known \o new)
            BY <1>1, <1>2, <5>1
          <5> HIDE DEF next
          <5> QED
            BY <1>2, <5>2, <5>3 DEF PathPiece, units, p
        <4>2. mid.stage = "body" /\ mid.length = Len(units)
          BY DEF Position
        <4> HIDE DEF mid, next
        <4> QED
          BY <4>1, <4>2 DEF Piece
      <3>3. Linked(pre, from, s, to)
        BY <1>4, <2>12
      <3> HIDE DEF to, next
      <3>4. Linked(pre, from, x, next)
        BY <2>5, <3>1, <3>2, <3>3
      <3> QED
        BY <2>7, <2>10, <3>4 DEF Linked, next
    <2>13. SameReader(s.t, r.t) /\ SameEnd(s.t, r.t) /\ r.t.signatureSent
      BY <2>5, <2>10 DEF SameReader, SameEnd, SameProgress
    <2>14. r.t.registry.defs = defs /\ r.t.registry.announced = Len(defs)
      BY <2>9
    <2> QED
      BY <2>11, <2>12, <2>13, <2>14 DEF defs, r
  <1> QED
    BY <1>5, <1>6

\* The body of a message leads past the message: its paths were announced before.
LEMMA SendBodyKeeps ==
  ASSUME NEW e \in Ends, NEW s, SenderOK(s), RegistryOK(e, s.t), s.t.signatureSent,
         NEW m \in Sendable(e), s.t.registry.defs # <<>> \/ m \in HellosOf(e)
  PROVE  LET r == SendBody(s, Serialize(s.t.registry.defs, Tree(m)))
         IN  /\ SenderOK(r.s) /\ SameReader(s.t, r.s.t) /\ SameEnd(s.t, r.s.t)
             /\ RegistryOK(e, r.s.t) /\ r.s.t.registry.defs # <<>> /\ r.s.t.signatureSent
             /\ r.sent = (s.t.senderQueue = <<>>)
             /\ s.t.senderQueue # <<>> => r.s.t.senderQueue # <<>> /\ r.s.wire = s.wire
             /\ \A pre \in Data, from \in Positions, M \in Seq(Messages) :
                  Linked(pre, from, s, WritePosition(s.t, M))
                    => Linked(pre, from, r.s,
                              WritePosition(r.s.t, IF r.sent THEN Append(M, m) ELSE M))
  <1> DEFINE old == s.t.registry.defs
             k == s.t.registry.announced
             body == Serialize(old, Tree(m))
             defs == body.defs
             stream == body.stream
             r == SendBody(s, body)
             x == [s EXCEPT !.t.registry.defs = defs]
             y == AnnouncePaths(x)
             units == <<MsgType_Value>> \o stream
             z == Frame(y, units)
  <1>1. /\ defs \in Definitions(e) /\ defs # <<>>
        /\ Len(old) <= Len(defs) /\ SubSeq(defs, 1, Len(old)) = old
        /\ stream \in Data /\ Len(stream) + 1 < Base
        /\ Deserialize(stream, Learned(defs)) = Tree(m)
    <2>1. old \in Definitions(e)
      BY DEF RegistryOK
    <2> QED
      BY <2>1, SerializeFacts DEF Learned, Data
  <1>2. r = IF s.t.senderQueue # <<>> THEN [s |-> x, sent |-> FALSE] ELSE [s |-> z, sent |-> TRUE]
    BY DEF SendBody
  <1> HIDE DEF defs, stream, body, z, r
  <1>3. /\ s.t \in Transports /\ s = [t |-> s.t, wire |-> s.wire] /\ k \in 0 .. Len(old)
        /\ old \in Seq(Paths) /\ Len(old) \in Nat
    <2>1. s.t \in Transports /\ s = [t |-> s.t, wire |-> s.wire]
      BY DEF SenderOK
    <2>2. old \in Seq(Paths)
      BY <2>1 DEF Transports
    <2> QED
      BY <2>1, <2>2, LenProperties DEF RegistryOK
  <1>4. defs \in Seq(Paths) /\ Len(defs) \in Nat /\ Numbered(defs)
    BY <1>1, DefinitionsNumbered DEF Numbered
  <1>5. SubSeq(defs, 1, k) = SubSeq(old, 1, k)
    <2> DEFINE one == 1
    <2>1. k \in Int /\ one \in Int /\ one = 1 /\ k <= Len(old)
      BY <1>3
    <2>2. \A i \in 1 .. Len(old) : defs[i] = old[i]
      <3> DEFINE l == Len(old)
                 f == SubSeq(defs, one, l)
      <3>1. l \in Int /\ \A i \in one .. l : defs[i] \in Paths
        BY <1>1, <1>3, <1>4, ElementOfSeq
      <3> HIDE DEF l, one
      <3>2. \A i \in 1 .. l - one + 1 : f[i] = defs[one + i - 1]
        BY <2>1, <3>1, SubSeqProperties
      <3>3. f = old
        BY <1>1, <2>1 DEF l
      <3> HIDE DEF f
      <3> QED
        BY <1>3, <2>1, <3>2, <3>3 DEF l
    <2>3. \A i \in one .. k : defs[i] \in Paths /\ old[i] \in Paths
      BY <1>1, <1>3, <1>4, <2>1, ElementOfSeq
    <2> HIDE DEF one, k
    <2>4. /\ SubSeq(defs, one, k) \in Seq(Paths)
          /\ Len(SubSeq(defs, one, k)) = IF one <= k THEN k - one + 1 ELSE 0
          /\ \A i \in 1 .. k - one + 1 : SubSeq(defs, one, k)[i] = defs[one + i - 1]
      BY <2>1, <2>3, SubSeqProperties
    <2>5. /\ SubSeq(old, one, k) \in Seq(Paths)
          /\ Len(SubSeq(old, one, k)) = IF one <= k THEN k - one + 1 ELSE 0
          /\ \A i \in 1 .. k - one + 1 : SubSeq(old, one, k)[i] = old[one + i - 1]
      BY <2>1, <2>3, SubSeqProperties
    <2> DEFINE f == SubSeq(defs, one, k)
               g == SubSeq(old, one, k)
    <2> HIDE DEF f, g
    <2>6. Len(f) = k /\ Len(g) = k
      BY <1>3, <2>1, <2>4, <2>5 DEF f, g, k
    <2>7. \A i \in 1 .. Len(f) : f[i] = g[i]
      <3>1. ASSUME NEW i \in 1 .. k PROVE f[i] = g[i]
        <4>1. one + i - 1 = i /\ i \in 1 .. k - one + 1 /\ i \in 1 .. Len(old)
          BY <1>3, <2>1
        <4>2. f[i] = defs[i] /\ g[i] = old[i]
          BY <2>4, <2>5, <4>1 DEF f, g
        <4> QED
          BY <2>2, <4>1, <4>2
      <3> QED
        BY <2>6, <3>1
    <2>8. f = g
      BY <2>4, <2>5, <2>6, <2>7, SeqEqual DEF f, g
    <2> QED
      BY <2>8 DEF f, g, one
  <1> DEFINE reg == [defs |-> defs, announced |-> k]
  <1>6. reg \in [defs : Seq(Paths), announced : Nat] /\ reg.defs = defs /\ reg.announced = k
    BY <1>3, <1>4
  <1>7. x = [t |-> [s.t EXCEPT !.registry = reg], wire |-> s.wire]
    <2>1. s.t.registry = [defs |-> old, announced |-> k]
      BY <1>3 DEF Transports
    <2>2. x = [s EXCEPT !.t = [s.t EXCEPT !.registry = [s.t.registry EXCEPT !.defs = defs]]]
      BY <1>3
    <2>3. [s.t.registry EXCEPT !.defs = defs] = reg
      BY <2>1
    <2>4. [s EXCEPT !.t = [s.t EXCEPT !.registry = reg]]
            = [t |-> [s.t EXCEPT !.registry = reg], wire |-> s.wire]
      BY <1>3
    <2> QED
      BY <2>2, <2>3, <2>4
  <1> HIDE DEF x, reg
  <1>8. x.wire = s.wire /\ x.t = [s.t EXCEPT !.registry = reg]
    BY <1>7
  <1>9. /\ x.t \in Transports /\ x.t.registry = reg /\ x.t.signatureSent
        /\ x.t.senderQueue = s.t.senderQueue /\ SameReader(s.t, x.t) /\ SameEnd(s.t, x.t)
    BY <1>3, <1>6, <1>8 DEF Transports, SameReader, SameEnd
  <1>10. SenderOK(x) /\ RegistryOK(e, x.t)
    <2>1. SenderOK(x)
      BY <1>7, <1>8, <1>9 DEF SenderOK
    <2>2. k \in 0 .. Len(defs)
      BY <1>1, <1>3, <1>4
    <2> QED
      BY <1>1, <1>6, <1>9, <2>1, <2>2 DEF RegistryOK
  <1>11. ASSUME NEW pre, NEW from, NEW M, Linked(pre, from, s, WritePosition(s.t, M))
         PROVE  Linked(pre, from, x, WritePosition(x.t, M))
    <2>1. WritePosition(x.t, M) = WritePosition(s.t, M)
      BY <1>5, <1>6, <1>9 DEF WritePosition
    <2> QED
      BY <1>8, <1>9, <1>11, <2>1 DEF Linked
  <1>12. CASE s.t.senderQueue # <<>>
    <2>1. r.s = x /\ r.sent = FALSE
      BY <1>2, <1>12
    <2> QED
      BY <1>1, <1>6, <1>8, <1>9, <1>10, <1>11, <1>12, <2>1 DEF r, body
  <1>13. CASE s.t.senderQueue = <<>>
    <2>1. r.s = z /\ r.sent = TRUE
      BY <1>2, <1>13
    <2>2. /\ SenderOK(y) /\ SameReader(x.t, y.t) /\ SameEnd(x.t, y.t)
          /\ y.t.signatureSent /\ y.t.registry.defs = defs
          /\ y.t.registry.announced = Len(defs)
          /\ \A pre \in Data, from \in Positions, M \in Seq(Messages) :
               Linked(pre, from, x, WritePosition(x.t, M))
                 => Linked(pre, from, y, Position("header", 0, defs, M))
      BY <1>6, <1>9, <1>10, AnnouncePathsKeeps
    <2> HIDE DEF y
    <2>3. units \in Data /\ units # <<>> /\ Len(units) = Len(stream) + 1
      BY <1>1, MarkedData
    <2> HIDE DEF units
    <2>4. /\ SenderOK(z)
          /\ SameReader(y.t, z.t) /\ SameEnd(y.t, z.t) /\ SameProgress(y.t, z.t)
          /\ \A pre \in Data, from, to, next \in Positions :
               /\ Linked(pre, from, y, to) /\ to.stage = "header"
               /\ Piece(Position("body", Len(units), to.known, to.messages), units, next)
               => Linked(pre, from, z, next)
      BY <1>1, <2>2, <2>3, FrameKeeps DEF z
    <2>5. SubSeq(defs, 1, Len(defs)) = defs
      BY <1>4, SubSeqFull
    <2>6. ASSUME NEW pre \in Data, NEW from \in Positions, NEW M \in Seq(Messages),
                 Linked(pre, from, s, WritePosition(s.t, M))
          PROVE  Linked(pre, from, z, WritePosition(z.t, Append(M, m)))
      <3> DEFINE to == Position("header", 0, defs, M)
                 next == Position("header", 0, defs, Append(M, m))
                 mid == Position("body", Len(units), to.known, to.messages)
      <3>1. m \in Messages
        BY DEF Messages
      <3>2. to \in Positions /\ next \in Positions /\ to.stage = "header" /\ to.known = defs
            /\ to.messages = M
        <4>1. Append(M, m) \in Seq(Messages)
          BY <3>1, AppendProperties
        <4> QED
          BY <1>4, <4>1 DEF Position, Positions
      <3>3. Piece(mid, units, next)
        <4>1. mid.known = defs /\ mid.messages = M /\ mid.stage = "body" /\ mid.length = Len(units)
          BY <3>2 DEF Position
        <4> HIDE DEF mid
        <4>2. ValuePiece(mid, units, next)
          BY <1>1, <3>1, <4>1 DEF ValuePiece, units
        <4> HIDE DEF next
        <4> QED
          BY <4>1, <4>2 DEF Piece
      <3>4. WritePosition(z.t, Append(M, m)) = next
        BY <2>2, <2>4, <2>5 DEF WritePosition, SameProgress
      <3>5. Linked(pre, from, y, to)
        BY <1>11, <2>2, <2>6
      <3> HIDE DEF to, next
      <3>6. Linked(pre, from, z, next)
        BY <2>4, <3>2, <3>3, <3>5
      <3> QED
        BY <3>4, <3>6
    <2>7. RegistryOK(e, z.t) /\ z.t.registry.defs # <<>> /\ z.t.signatureSent
      BY <1>1, <1>4, <2>2, <2>4 DEF RegistryOK, SameProgress
    <2>8. SameReader(s.t, z.t) /\ SameEnd(s.t, z.t)
      BY <1>9, <2>2, <2>4 DEF SameReader, SameEnd
    <2> QED
      BY <1>13, <2>1, <2>4, <2>6, <2>7, <2>8 DEF r, body
  <1> QED
    BY <1>12, <1>13

-----------------------------------------------------------------------------
(* One end: its session, its transport, the units on their way to the peer *)
(* and the messages that it has accepted.                                  *)

Features ==
  [version : Nat,
   on : SUBSET {"primaryForwardingMode", "fastConnect", "closeTimeOutChannel",
                "implicitUsagesAndGreeting"}]
SessionRecords(e) ==
  [state : States, features : Features, sendQueue : Seq(Sendable(e)), endSent : BOOLEAN,
   tm : BOOLEAN, lastReqId : Nat, requests : SUBSET Nat, tick : Nat, calls : Nat,
   released : BOOLEAN]
EndRecords(e) ==
  [n : SessionRecords(e), t : Transports, wire : Data, accepted : Seq(Sendable(e)),
   crashed : BOOLEAN]

Sender(x) == [t |-> x.t, wire |-> x.wire]
HasDisconnect(q) == \E i \in 1 .. Len(q) : q[i].type = "Disconnect"
OnlyLast(q) == \A i \in 1 .. Len(q) : q[i].type = "Disconnect" => i = Len(q)

EndBase(e, x) == x \in EndRecords(e) /\ SenderOK(Sender(x)) /\ RegistryOK(e, x.t)

EndOK(e, x) ==
  /\ EndBase(e, x)
  /\ HasDisconnect(x.accepted) \/ HasDisconnect(x.n.sendQueue) => x.n.endSent
  /\ OnlyLast(x.n.sendQueue)
  /\ x.t.endTransport => x.n.sendQueue = <<>> /\ x.n.endSent
  /\ x.t.endTransport /\ ~x.t.open /\ ~x.n.released => x.t.senderQueue = <<>>

\* What has been accepted is on its way behind what the peer has read, or in the queue.
OutOK(x, pre, from) ==
  \E M \in Seq(Messages) : /\ x.accepted = M \o x.n.sendQueue
                           /\ Linked(pre, from, Sender(x), WritePosition(x.t, M))

\* An end may send this message: its hello, or any once paths are registered.
MaySend(e, x, m) == m \in Sendable(e) /\ (x.t.registry.defs # <<>> \/ m \in HellosOf(e))

\* SendTree: all the pieces of one message, or none when the queue is not empty.
LEMMA SendTreeKeeps ==
  ASSUME NEW e \in Ends, NEW s, SenderOK(s), RegistryOK(e, s.t),
         NEW m \in Sendable(e), s.t.registry.defs # <<>> \/ m \in HellosOf(e)
  PROVE  LET r == SendTree(s, Tree(m))
         IN  /\ SenderOK(r.s) /\ SameReader(s.t, r.s.t) /\ SameEnd(s.t, r.s.t)
             /\ RegistryOK(e, r.s.t) /\ r.s.t.registry.defs # <<>>
             /\ r.sent \in BOOLEAN
             /\ s.t.senderQueue # <<>> => ~r.sent /\ r.s.t.senderQueue # <<>> /\ r.s.wire = s.wire
             /\ \A pre \in Data, from \in Positions, M \in Seq(Messages) :
                  Linked(pre, from, s, WritePosition(s.t, M))
                    => Linked(pre, from, r.s,
                              WritePosition(r.s.t, IF r.sent THEN Append(M, m) ELSE M))
  <1> DEFINE x == SendSignature(s)
             r == SendTree(s, Tree(m))
  <1>1. /\ SenderOK(x) /\ SameReader(s.t, x.t) /\ SameEnd(s.t, x.t)
        /\ x.t.registry = s.t.registry /\ x.t.signatureSent
        /\ s.t.senderQueue # <<>> => x.t.senderQueue # <<>> /\ x.wire = s.wire
        /\ \A pre \in Data, from \in Positions, M \in Seq(Messages) :
             Linked(pre, from, s, WritePosition(s.t, M))
               => Linked(pre, from, x, WritePosition(x.t, M))
    BY SendSignatureKeeps
  <1>2. r = SendBody(x, Serialize(x.t.registry.defs, Tree(m)))
    BY DEF SendTree, Serialized
  <1> HIDE DEF x, r
  <1>3. RegistryOK(e, x.t) /\ (x.t.registry.defs # <<>> \/ m \in HellosOf(e))
    BY <1>1 DEF RegistryOK
  <1>4. /\ SenderOK(r.s) /\ SameReader(x.t, r.s.t) /\ SameEnd(x.t, r.s.t)
        /\ RegistryOK(e, r.s.t) /\ r.s.t.registry.defs # <<>> /\ r.s.t.signatureSent
        /\ r.sent = (x.t.senderQueue = <<>>)
        /\ x.t.senderQueue # <<>> => r.s.t.senderQueue # <<>> /\ r.s.wire = x.wire
        /\ \A pre \in Data, from \in Positions, M \in Seq(Messages) :
             Linked(pre, from, x, WritePosition(x.t, M))
               => Linked(pre, from, r.s,
                         WritePosition(r.s.t, IF r.sent THEN Append(M, m) ELSE M))
    <2>1. /\ SenderOK(x) /\ RegistryOK(e, x.t) /\ x.t.signatureSent
          /\ x.t.registry.defs # <<>> \/ m \in HellosOf(e)
      BY <1>1, <1>3
    <2> QED
      BY <1>2, <2>1, SendBodyKeeps
  <1>5. SameReader(s.t, r.s.t) /\ SameEnd(s.t, r.s.t)
    BY <1>1, <1>4 DEF SameReader, SameEnd
  <1>6. r.sent \in BOOLEAN
    BY <1>4
  <1>7. s.t.senderQueue # <<>> => ~r.sent /\ r.s.t.senderQueue # <<>> /\ r.s.wire = s.wire
    BY <1>1, <1>4
  <1>8. ASSUME NEW pre \in Data, NEW from \in Positions, NEW M \in Seq(Messages),
               Linked(pre, from, s, WritePosition(s.t, M))
        PROVE  Linked(pre, from, r.s, WritePosition(r.s.t, IF r.sent THEN Append(M, m) ELSE M))
    <2>1. Linked(pre, from, x, WritePosition(x.t, M))
      BY <1>1, <1>8
    <2> QED
      BY <1>4, <2>1
  <1> QED
    BY <1>4, <1>5, <1>6, <1>7, <1>8 DEF r

\* Handing a message to the transport when the connection works, or others are queued there.
LEMMA TransmittedKeeps ==
  ASSUME NEW e \in Ends, NEW x, EndBase(e, x), NEW m, MaySend(e, x, m), x.t.open,
         x.n.tm, ~(lost /\ x.t.senderQueue = <<>>)
  PROVE  LET r == Transmit(x, m)
         IN  /\ EndBase(e, r.x) /\ SameReader(x.t, r.x.t) /\ r.x.t.registry.defs # <<>>
             /\ r.x.n = x.n /\ r.x.accepted = x.accepted /\ r.x.crashed = x.crashed
             /\ r.sent \in BOOLEAN
             /\ r.x.t.endTransport = (x.t.endTransport \/ (r.sent /\ m.type = "Disconnect"))
             /\ ~r.x.t.open => m.type = "Disconnect" /\ r.sent /\ r.x.t.senderQueue = <<>>
             /\ x.t.senderQueue # <<>> => ~r.sent /\ r.x.wire = x.wire
             /\ \A pre \in Data, from \in Positions, M \in Seq(Messages) :
                  Linked(pre, from, Sender(x), WritePosition(x.t, M))
                    => Linked(pre, from, Sender(r.x),
                              WritePosition(r.x.t, IF r.sent THEN Append(M, m) ELSE M))
  <1> DEFINE s == Sender(x)
             r == Transmit(x, m)
             y == SendTree(s, Tree(m))
             t == IF y.sent /\ m.type = "Disconnect" THEN EndTransport(y.s.t) ELSE y.s.t
  <1>1. SenderOK(s) /\ s.t = x.t /\ s.wire = x.wire /\ RegistryOK(e, s.t)
        /\ m \in Sendable(e) /\ (s.t.registry.defs # <<>> \/ m \in HellosOf(e))
    BY DEF EndBase, MaySend, Sender
  <1>2. x \in EndRecords(e)
    BY DEF EndBase
  <1>3. r = Transmitted(x, m, y)
    BY DEF Transmit, Broken, Sender
  <1>4. r = [x |-> [x EXCEPT !.t = t, !.wire = y.s.wire], sent |-> y.sent]
    BY <1>3 DEF Transmitted
  <1> HIDE DEF s, r
  <1>5. /\ SenderOK(y.s) /\ SameReader(s.t, y.s.t) /\ SameEnd(s.t, y.s.t)
        /\ RegistryOK(e, y.s.t) /\ y.s.t.registry.defs # <<>>
        /\ y.sent \in BOOLEAN
        /\ s.t.senderQueue # <<>> => ~y.sent /\ y.s.t.senderQueue # <<>> /\ y.s.wire = s.wire
        /\ \A pre \in Data, from \in Positions, M \in Seq(Messages) :
             Linked(pre, from, s, WritePosition(s.t, M))
               => Linked(pre, from, y.s,
                         WritePosition(y.s.t, IF y.sent THEN Append(M, m) ELSE M))
    BY <1>1, SendTreeKeeps
  <1> HIDE DEF y
  <1>6. y.s.t \in Transports /\ y.s.wire \in Data /\ y.s = [t |-> y.s.t, wire |-> y.s.wire]
    BY <1>5 DEF SenderOK
  <1>7. /\ t \in Transports /\ SameReader(y.s.t, t) /\ SameProgress(y.s.t, t)
        /\ t.senderQueue = y.s.t.senderQueue
        /\ t.endTransport = (x.t.endTransport \/ (y.sent /\ m.type = "Disconnect"))
        /\ ~t.open => m.type = "Disconnect" /\ y.sent /\ t.senderQueue = <<>>
    <2>1. y.s.t.endTransport = x.t.endTransport /\ y.s.t.open
      BY <1>1, <1>5 DEF SameEnd
    <2>2. x.t.endTransport \in BOOLEAN
      BY <1>2 DEF EndRecords, Transports
    <2> DEFINE u == y.s.t
    <2>3. CASE y.sent /\ m.type = "Disconnect"
      <3>1. t = EndTransport(u)
        BY <2>3
      <3>2. u \in Transports /\ u.open /\ u.endTransport = x.t.endTransport
        BY <1>6, <2>1
      <3> HIDE DEF u, t
      <3> DEFINE ended == [u EXCEPT !.endTransport = TRUE]
      <3>3. ended \in Transports /\ ended.endTransport = TRUE /\ ended.open = TRUE
            /\ SameReader(u, ended) /\ SameProgress(u, ended) /\ ended.senderQueue = u.senderQueue
        BY <3>2 DEF Transports, SameReader, SameProgress
      <3>4. CASE u.endTransport \/ u.senderQueue # <<>>
        <4>1. t = ended
          BY <3>1, <3>4 DEF EndTransport
        <4> QED
          BY <2>2, <2>3, <3>3, <4>1 DEF u
      <3>5. CASE ~(u.endTransport \/ u.senderQueue # <<>>)
        <4>1. t = CloseConnections(ended)
          BY <3>1, <3>5 DEF EndTransport
        <4> HIDE DEF ended
        <4>2. t \in Transports /\ t.endTransport = TRUE /\ t.open = FALSE
              /\ SameReader(ended, t) /\ SameProgress(ended, t) /\ t.senderQueue = ended.senderQueue
          BY <3>3, <4>1 DEF CloseConnections, Transports, SameReader, SameProgress
        <4> QED
          BY <2>2, <2>3, <3>3, <3>5, <4>2 DEF u, SameReader, SameProgress
      <3> QED
        BY <3>4, <3>5
    <2>4. CASE ~(y.sent /\ m.type = "Disconnect")
      <3>1. t = y.s.t
        BY <2>4
      <3> HIDE DEF t
      <3> QED
        BY <1>6, <2>1, <2>2, <2>4, <3>1 DEF SameReader, SameProgress
    <2> QED
      BY <2>3, <2>4
  <1> HIDE DEF t
  <1>8. /\ r.sent = y.sent
        /\ r.x = [n |-> x.n, t |-> t, wire |-> y.s.wire, accepted |-> x.accepted, crashed |-> x.crashed]
    BY <1>2, <1>4 DEF EndRecords
  <1> HIDE DEF r
  <1>9. /\ r.x.n = x.n /\ r.x.t = t /\ r.x.wire = y.s.wire
        /\ r.x.accepted = x.accepted /\ r.x.crashed = x.crashed
    BY <1>8
  <1>10. r.x \in EndRecords(e)
    BY <1>2, <1>6, <1>7, <1>8 DEF EndRecords
  <1>11. SenderOK(Sender(r.x))
    BY <1>5, <1>6, <1>7, <1>9 DEF SenderOK, Sender
  <1>12. RegistryOK(e, r.x.t) /\ r.x.t.registry.defs # <<>>
    BY <1>5, <1>7, <1>9 DEF RegistryOK, SameProgress
  <1>13. SameReader(x.t, r.x.t)
    BY <1>1, <1>5, <1>7, <1>9 DEF SameReader
  <1>14. ASSUME NEW pre \in Data, NEW from \in Positions, NEW M \in Seq(Messages),
                Linked(pre, from, s, WritePosition(x.t, M))
         PROVE  Linked(pre, from, Sender(r.x),
                       WritePosition(r.x.t, IF r.sent THEN Append(M, m) ELSE M))
    <2> DEFINE more == IF r.sent THEN Append(M, m) ELSE M
    <2>1. Linked(pre, from, y.s, WritePosition(y.s.t, more))
      BY <1>1, <1>5, <1>8, <1>14
    <2> HIDE DEF more
    <2>2. WritePosition(r.x.t, more) = WritePosition(y.s.t, more)
      BY <1>7, <1>9 DEF WritePosition, SameProgress
    <2>3. Linked(pre, from, Sender(r.x), WritePosition(y.s.t, more))
      BY <1>7, <1>9, <2>1 DEF Linked, Sender
    <2> QED
      BY <2>2, <2>3 DEF more
  <1> QED
    BY <1>1, <1>5, <1>7, <1>8, <1>9, <1>10, <1>11, <1>12, <1>13, <1>14 DEF EndBase, r, s

SameWriter(x, y) ==
  /\ y.wire = x.wire /\ SameProgress(x.t, y.t) /\ y.t.senderQueue = x.t.senderQueue
  /\ y.accepted = x.accepted /\ y.n.sendQueue = x.n.sendQueue

\* What the sending of messages leaves alone.
SameApplication(n, k) ==
  /\ n.state = k.state /\ n.features = k.features /\ n.lastReqId = k.lastReqId
  /\ n.requests = k.requests /\ n.tick = k.tick /\ n.calls = k.calls

\* An end whose sender is the same keeps what its sender has to satisfy.
LEMMA SameWriterKeeps ==
  ASSUME NEW e \in Ends, NEW x, EndBase(e, x), NEW y \in EndRecords(e), SameWriter(x, y)
  PROVE  /\ EndBase(e, y)
         /\ \A pre \in Data, from \in Positions : OutOK(x, pre, from) => OutOK(y, pre, from)
  <1>1. y.t \in Transports /\ y.wire \in Data
    BY DEF EndRecords
  <1>2. EndBase(e, y)
    BY <1>1 DEF EndBase, SenderOK, Sender, SameWriter, SameProgress, RegistryOK
  <1>3. \A M : WritePosition(y.t, M) = WritePosition(x.t, M)
    BY DEF SameWriter, SameProgress, WritePosition
  <1>4. ASSUME NEW pre \in Data, NEW from \in Positions, OutOK(x, pre, from)
        PROVE  OutOK(y, pre, from)
    <2>1. PICK M \in Seq(Messages) : /\ x.accepted = M \o x.n.sendQueue
                                     /\ Linked(pre, from, Sender(x), WritePosition(x.t, M))
      BY <1>4 DEF OutOK
    <2>2. Linked(pre, from, Sender(y), WritePosition(y.t, M))
      BY <1>3, <2>1 DEF Linked, Sender, SameWriter
    <2> QED
      BY <2>1, <2>2 DEF OutOK, SameWriter
  <1> QED
    BY <1>2, <1>4

\* An application that closes the connection,
LEMMA ReleaseKeeps ==
  ASSUME NEW e \in Ends, NEW x, EndOK(e, x)
  PROVE  LET y == Release(x)
         IN  /\ EndOK(e, y) /\ SameReader(x.t, y.t) /\ SameApplication(x.n, y.n)
             /\ SameWriter(x, y) /\ y.crashed = x.crashed
             /\ y.n.tm = x.n.tm /\ y.n.endSent = x.n.endSent /\ y.n.released = TRUE
             /\ y.t.open = FALSE
             /\ \A pre \in Data, from \in Positions : OutOK(x, pre, from) => OutOK(y, pre, from)
  <1> DEFINE y == Release(x)
  <1>1. x \in EndRecords(e)
    BY DEF EndOK, EndBase
  <1>2. y = [x EXCEPT !.t = CloseConnections(x.t), !.n = [x.n EXCEPT !.released = TRUE]]
    BY <1>1 DEF Release, EndRecords
  <1> HIDE DEF y
  <1> DEFINE t == CloseConnections(x.t)
             n == [x.n EXCEPT !.released = TRUE]
  <1>3. /\ t \in Transports /\ SameReader(x.t, t) /\ SameProgress(x.t, t)
        /\ t.senderQueue = x.t.senderQueue /\ t.open = FALSE /\ t.endTransport = x.t.endTransport
    BY <1>1 DEF EndRecords, Transports, CloseConnections, SameReader, SameProgress
  <1>4. /\ n \in SessionRecords(e) /\ SameApplication(x.n, n) /\ n.sendQueue = x.n.sendQueue
        /\ n.tm = x.n.tm /\ n.endSent = x.n.endSent /\ n.released = TRUE
    BY <1>1 DEF EndRecords, SessionRecords, SameApplication
  <1> HIDE DEF t, n
  <1>5. /\ y.t = t /\ y.n = n /\ y.wire = x.wire /\ y.accepted = x.accepted
        /\ y.crashed = x.crashed /\ y \in EndRecords(e)
    BY <1>1, <1>2, <1>3, <1>4 DEF EndRecords, t, n
  <1>6. SameWriter(x, y)
    BY <1>3, <1>4, <1>5 DEF SameWriter
  <1>7. /\ EndBase(e, y)
        /\ \A pre \in Data, from \in Positions : OutOK(x, pre, from) => OutOK(y, pre, from)
    BY <1>5, <1>6, SameWriterKeeps DEF EndOK
  <1>8. EndOK(e, y)
    BY <1>3, <1>4, <1>5, <1>7 DEF EndOK
  <1> QED
    BY <1>3, <1>4, <1>5, <1>6, <1>7, <1>8 DEF y

\* a reset,
LEMMA ResetKeeps ==
  ASSUME NEW e \in Ends, NEW x, EndOK(e, x)
  PROVE  LET y == HandleConnectionReset(x)
         IN  /\ EndOK(e, y) /\ SameReader(x.t, y.t) /\ SameApplication(x.n, y.n)
             /\ SameWriter(x, y) /\ y.crashed = x.crashed
             /\ y.n.tm = FALSE /\ y.n.endSent = x.n.endSent /\ y.n.released = TRUE
             /\ y.t.open = FALSE
             /\ \A pre \in Data, from \in Positions : OutOK(x, pre, from) => OutOK(y, pre, from)
  <1> DEFINE z == Release(x)
             y == HandleConnectionReset(x)
             n == [z.n EXCEPT !.tm = FALSE]
  <1>1. /\ EndOK(e, z) /\ SameReader(x.t, z.t) /\ SameApplication(x.n, z.n)
        /\ SameWriter(x, z) /\ z.crashed = x.crashed
        /\ z.n.tm = x.n.tm /\ z.n.endSent = x.n.endSent /\ z.n.released = TRUE
        /\ z.t.open = FALSE
        /\ \A pre \in Data, from \in Positions : OutOK(x, pre, from) => OutOK(z, pre, from)
    BY ReleaseKeeps
  <1>2. z \in EndRecords(e)
    BY <1>1 DEF EndOK, EndBase
  <1>3. y = [z EXCEPT !.n = n]
    BY <1>2 DEF HandleConnectionReset, EndRecords
  <1> HIDE DEF y, z
  <1>4. /\ n \in SessionRecords(e) /\ SameApplication(z.n, n) /\ n.sendQueue = z.n.sendQueue
        /\ n.tm = FALSE /\ n.endSent = z.n.endSent /\ n.released = z.n.released
    BY <1>2 DEF EndRecords, SessionRecords, SameApplication
  <1> HIDE DEF n
  <1>5. /\ y.t = z.t /\ y.n = n /\ y.wire = z.wire /\ y.accepted = z.accepted
        /\ y.crashed = z.crashed /\ y \in EndRecords(e)
    BY <1>2, <1>3, <1>4 DEF EndRecords
  <1>6. SameWriter(z, y)
    BY <1>4, <1>5 DEF SameWriter, SameProgress
  <1>7. /\ EndBase(e, y)
        /\ \A pre \in Data, from \in Positions : OutOK(z, pre, from) => OutOK(y, pre, from)
    BY <1>1, <1>5, <1>6, SameWriterKeeps DEF EndOK
  <1>8. EndOK(e, y)
    BY <1>1, <1>4, <1>5, <1>7 DEF EndOK
  <1>9. SameReader(x.t, y.t) /\ SameApplication(x.n, y.n) /\ SameWriter(x, y)
    BY <1>1, <1>4, <1>5, <1>6 DEF SameApplication, SameWriter, SameProgress
  <1> QED
    BY <1>1, <1>4, <1>5, <1>7, <1>8, <1>9 DEF y

\* and a call of the null transportManager leave the end consistent.
LEMMA CrashKeeps ==
  ASSUME NEW e \in Ends, NEW x, EndOK(e, x)
  PROVE  LET y == Crash(x)
         IN  /\ EndOK(e, y) /\ y.t = x.t /\ y.n = x.n /\ SameWriter(x, y) /\ y.crashed = TRUE
             /\ \A pre \in Data, from \in Positions : OutOK(x, pre, from) => OutOK(y, pre, from)
  <1> DEFINE y == Crash(x)
  <1>1. x \in EndRecords(e)
    BY DEF EndOK, EndBase
  <1>2. y = [x EXCEPT !.crashed = TRUE]
    BY DEF Crash
  <1> HIDE DEF y
  <1>3. /\ y.t = x.t /\ y.n = x.n /\ y.wire = x.wire /\ y.accepted = x.accepted
        /\ y.crashed = TRUE /\ y \in EndRecords(e)
    BY <1>1, <1>2 DEF EndRecords
  <1>4. SameWriter(x, y)
    BY <1>3 DEF SameWriter, SameProgress
  <1>5. /\ EndBase(e, y)
        /\ \A pre \in Data, from \in Positions : OutOK(x, pre, from) => OutOK(y, pre, from)
    BY <1>3, <1>4, SameWriterKeeps DEF EndOK
  <1>6. EndOK(e, y)
    BY <1>3, <1>5 DEF EndOK
  <1> QED
    BY <1>3, <1>4, <1>5, <1>6 DEF y

\* One more message: Disconnect can only be the last.
LEMMA AppendDisconnect ==
  ASSUME NEW S, NEW q \in Seq(S), NEW m \in S
  PROVE  /\ HasDisconnect(Append(q, m)) <=> (HasDisconnect(q) \/ m.type = "Disconnect")
         /\ ~HasDisconnect(q) => OnlyLast(Append(q, m))
  <1> DEFINE p == Append(q, m)
             l == Len(q)
  <1>1. l \in Nat /\ Len(p) = l + 1 /\ p[l + 1] = m /\ \A i \in 1 .. l : p[i] = q[i]
    BY AppendProperties, LenProperties
  <1> HIDE DEF p
  <1>2. HasDisconnect(p) <=> (HasDisconnect(q) \/ m.type = "Disconnect")
    <2>1. ASSUME HasDisconnect(p) PROVE HasDisconnect(q) \/ m.type = "Disconnect"
      BY <1>1, <2>1 DEF HasDisconnect
    <2>2. ASSUME HasDisconnect(q) PROVE HasDisconnect(p)
      BY <1>1, <2>2 DEF HasDisconnect
    <2>3. ASSUME m.type = "Disconnect" PROVE HasDisconnect(p)
      BY <1>1, <2>3 DEF HasDisconnect
    <2> QED
      BY <2>1, <2>2, <2>3
  <1>3. ~HasDisconnect(q) => OnlyLast(p)
    BY <1>1 DEF HasDisconnect, OnlyLast
  <1> QED
    BY <1>2, <1>3 DEF p

\* What an end may send are messages.
LEMMA SendableMessages ==
  ASSUME NEW e \in Ends, NEW q \in Seq(Sendable(e))
  PROVE  q \in Seq(Messages)
  BY DEF Messages

\* A message that is put into the queue of the session.
LEMMA EnqueueKeeps ==
  ASSUME NEW e \in Ends, NEW x, EndBase(e, x), NEW m \in Sendable(e)
  PROVE  LET y == Enqueue(x, m)
         IN  /\ EndBase(e, y) /\ y.t = x.t /\ y.wire = x.wire /\ y.crashed = x.crashed
             /\ SameApplication(x.n, y.n) /\ y.n.tm = x.n.tm /\ y.n.endSent = x.n.endSent
             /\ y.n.released = x.n.released
             /\ y.n.sendQueue = Append(x.n.sendQueue, m)
             /\ y.accepted = Append(x.accepted, m)
             /\ \A pre \in Data, from \in Positions : OutOK(x, pre, from) => OutOK(y, pre, from)
  <1> DEFINE y == Enqueue(x, m)
             q == x.n.sendQueue
             p == Append(q, m)
             n == [x.n EXCEPT !.sendQueue = p]
             a == Append(x.accepted, m)
  <1>1. x \in EndRecords(e)
    BY DEF EndBase
  <1>2. y = [x EXCEPT !.n = n, !.accepted = a]
    BY <1>1 DEF Enqueue, EndRecords
  <1> HIDE DEF y
  <1>3. q \in Seq(Sendable(e)) /\ x.accepted \in Seq(Sendable(e))
    BY <1>1 DEF EndRecords, SessionRecords
  <1>4. p \in Seq(Sendable(e)) /\ a \in Seq(Sendable(e))
    BY <1>3, AppendProperties
  <1> HIDE DEF a
  <1>5. /\ n \in SessionRecords(e) /\ SameApplication(x.n, n) /\ n.sendQueue = p
        /\ n.tm = x.n.tm /\ n.endSent = x.n.endSent /\ n.released = x.n.released
    <2> HIDE DEF p
    <2> QED
      BY <1>1, <1>4 DEF EndRecords, SessionRecords, SameApplication
  <1> HIDE DEF n
  <1>6. /\ y.t = x.t /\ y.n = n /\ y.wire = x.wire /\ y.accepted = a
        /\ y.crashed = x.crashed /\ y \in EndRecords(e)
    BY <1>1, <1>2, <1>4, <1>5 DEF EndRecords
  <1>7. EndBase(e, y)
    BY <1>6 DEF EndBase, Sender
  <1>8. ASSUME NEW pre \in Data, NEW from \in Positions, OutOK(x, pre, from)
        PROVE  OutOK(y, pre, from)
    <2>1. PICK M \in Seq(Messages) : /\ x.accepted = M \o q
                                     /\ Linked(pre, from, Sender(x), WritePosition(x.t, M))
      BY <1>8 DEF OutOK
    <2>2. q \in Seq(Messages) /\ m \in Messages /\ x.accepted \in Seq(Messages)
      BY <1>3, SendableMessages DEF Messages
    <2>3. (M \o q) \o <<m>> = M \o (q \o <<m>>)
      <3>1. M \in Seq(Messages) /\ q \in Seq(Messages) /\ m \in Messages
        BY <2>1, <2>2
      <3> QED
        BY <3>1, ConcatMessages, ZenonT(60)
    <2>4. Append(q, m) = q \o <<m>> /\ Append(x.accepted, m) = x.accepted \o <<m>>
      BY <1>3, AppendIsConcat
    <2>5. a = M \o p
      BY <2>1, <2>3, <2>4 DEF a
    <2>6. Sender(y) = Sender(x)
      BY <1>6 DEF Sender
    <2> HIDE DEF p
    <2> QED
      BY <1>5, <1>6, <2>1, <2>5, <2>6 DEF OutOK
  <1> QED
    BY <1>5, <1>6, <1>7, <1>8 DEF y, a

\* A message that the session is given: taken unless the session has ended, and lost
\* only with the connection.
LEMMA SendMsgKeeps ==
  ASSUME NEW e \in Ends, NEW x, EndOK(e, x), NEW m, x.n.tm => x.t.open /\ MaySend(e, x, m)
  PROVE  LET y == SendMsg(x, m)
         IN  /\ EndOK(e, y) /\ SameReader(x.t, y.t) /\ SameApplication(x.n, y.n)
             /\ \/ y.accepted = x.accepted
                \/ x.n.tm /\ ~x.n.endSent /\ y.accepted = Append(x.accepted, m)
             /\ ~lost => /\ y.crashed = x.crashed /\ y.n.tm = x.n.tm
                         /\ y.n.released = x.n.released
                         /\ x.n.tm /\ ~x.n.endSent => y.accepted = Append(x.accepted, m)
                         /\ y.t.open \/ ~x.t.open \/ m.type = "Disconnect"
             /\ y.crashed # x.crashed => lost /\ y.n.endSent
             /\ lost => y.wire = x.wire
             /\ y.n.tm /\ (x.t.registry.defs # <<>> \/ (x.n.sendQueue = <<>> /\ ~x.n.endSent))
                  => y.t.registry.defs # <<>>
             /\ y.n.tm => x.n.tm
             /\ \A pre \in Data, from \in Positions :
                  ~lost /\ OutOK(x, pre, from) => OutOK(y, pre, from)
  <1> DEFINE y == SendMsg(x, m)
             n == [x.n EXCEPT !.endSent = (m.type = "Disconnect")]
             z == [x EXCEPT !.n = n]
             r == Transmit(z, m)
  <1>1. x \in EndRecords(e) /\ EndBase(e, x)
    BY DEF EndOK, EndBase
  <1>2. CASE x.n.endSent \/ ~x.n.tm
    <2>1. y = x
      BY <1>2 DEF SendMsg
    <2>2. x.n.sendQueue = <<>> /\ ~x.n.endSent => ~x.n.tm
      BY <1>2
    <2> HIDE DEF y
    <2>3. SameReader(x.t, y.t) /\ SameApplication(x.n, y.n)
      BY <2>1 DEF SameReader, SameApplication
    <2> QED
      BY <1>2, <2>1, <2>2, <2>3 DEF y
  <1>3. CASE ~x.n.endSent /\ x.n.tm
    <2>1. y = Sent(z, m, r)
      <3>1. z = [x EXCEPT !.n.endSent = (m.type = "Disconnect")]
        BY <1>1 DEF EndRecords
      <3> QED
        BY <1>3, <3>1 DEF SendMsg, TryOrQueue
    <2> HIDE DEF y, r
    <2>2. /\ n \in SessionRecords(e) /\ SameApplication(x.n, n) /\ n.sendQueue = x.n.sendQueue
          /\ n.tm = TRUE /\ n.endSent = (m.type = "Disconnect") /\ n.released = x.n.released
      BY <1>1, <1>3 DEF EndRecords, SessionRecords, SameApplication
    <2> HIDE DEF n
    <2>3. /\ z.t = x.t /\ z.n = n /\ z.wire = x.wire /\ z.accepted = x.accepted
          /\ z.crashed = x.crashed /\ z \in EndRecords(e)
      BY <1>1, <2>2 DEF EndRecords
    <2> HIDE DEF z
    <2>4. SameWriter(x, z)
      BY <2>2, <2>3 DEF SameWriter, SameProgress
    <2>5. /\ EndBase(e, z)
          /\ \A pre \in Data, from \in Positions : OutOK(x, pre, from) => OutOK(z, pre, from)
      BY <1>1, <2>3, <2>4, SameWriterKeeps
    <2>6. /\ ~HasDisconnect(x.accepted) /\ ~HasDisconnect(x.n.sendQueue)
          /\ ~x.t.endTransport /\ x.t.open /\ MaySend(e, x, m) /\ m \in Sendable(e)
      BY <1>3 DEF EndOK, MaySend
    <2>7. x.n.sendQueue \in Seq(Sendable(e)) /\ x.accepted \in Seq(Sendable(e))
      BY <1>1 DEF EndRecords, SessionRecords
    <2>8. /\ HasDisconnect(Append(x.n.sendQueue, m)) <=> m.type = "Disconnect"
          /\ OnlyLast(Append(x.n.sendQueue, m))
      BY <2>6, <2>7, AppendDisconnect
    <2>9. HasDisconnect(Append(x.accepted, m)) <=> m.type = "Disconnect"
      BY <2>6, <2>7, AppendDisconnect
    <2>10. SameReader(x.t, z.t) /\ SameApplication(x.n, z.n)
      BY <2>2, <2>3 DEF SameReader
    <2>11. MaySend(e, z, m) /\ z.t.open /\ z.n.tm
      BY <2>2, <2>3, <2>6 DEF MaySend
    <2>12. CASE x.n.sendQueue # <<>>
      <3>1. y = Enqueue(z, m)
        BY <2>1, <2>2, <2>3, <2>12 DEF Sent
      <3>2. /\ EndBase(e, y) /\ y.t = z.t /\ y.wire = z.wire /\ y.crashed = z.crashed
            /\ SameApplication(z.n, y.n) /\ y.n.tm = z.n.tm /\ y.n.endSent = z.n.endSent
            /\ y.n.released = z.n.released
            /\ y.n.sendQueue = Append(z.n.sendQueue, m)
            /\ y.accepted = Append(z.accepted, m)
            /\ \A pre \in Data, from \in Positions : OutOK(z, pre, from) => OutOK(y, pre, from)
        BY <2>5, <2>6, <3>1, EnqueueKeeps
      <3>3. EndOK(e, y)
        BY <2>2, <2>3, <2>6, <2>8, <2>9, <3>2 DEF EndOK
      <3>4. SameReader(x.t, y.t) /\ SameApplication(x.n, y.n)
        BY <2>10, <3>2 DEF SameReader, SameApplication
      <3> QED
        BY <1>3, <2>2, <2>3, <2>5, <2>6, <2>12, <3>2, <3>3, <3>4 DEF y
    <2>13. CASE x.n.sendQueue = <<>> /\ lost /\ x.t.senderQueue = <<>>
      <3> DEFINE u == HandleConnectionReset(z)
                 v == IF m.type = "Disconnect" THEN Crash(u) ELSE u
      <3>1. r = [x |-> v, sent |-> TRUE]
        BY <2>2, <2>3, <2>13 DEF r, Transmit, Broken, WriteFails
      <3>2. y = v
        BY <2>1, <2>2, <2>3, <2>13, <3>1 DEF Sent, Broken
      <3>3. EndOK(e, z)
        <4>1. ~HasDisconnect(z.accepted) /\ ~HasDisconnect(z.n.sendQueue)
          BY <2>2, <2>3, <2>6
        <4>2. OnlyLast(z.n.sendQueue)
          BY <4>1 DEF HasDisconnect, OnlyLast
        <4> QED
          BY <2>3, <2>5, <2>6, <4>1, <4>2 DEF EndOK
      <3>4. /\ EndOK(e, u) /\ SameReader(z.t, u.t) /\ SameApplication(z.n, u.n)
            /\ SameWriter(z, u) /\ u.crashed = z.crashed
            /\ u.n.tm = FALSE /\ u.n.endSent = z.n.endSent /\ u.n.released = TRUE
            /\ u.t.open = FALSE
        BY <3>3, ResetKeeps
      <3> HIDE DEF u
      <3>5. /\ EndOK(e, v) /\ v.t = u.t /\ v.n = u.n /\ SameWriter(u, v)
            /\ v.crashed # u.crashed => m.type = "Disconnect"
        <4>1. CASE m.type = "Disconnect"
          BY <3>4, <4>1, CrashKeeps
        <4>2. CASE m.type # "Disconnect"
          BY <3>4, <4>2 DEF SameWriter, SameProgress
        <4> QED
          BY <4>1, <4>2
      <3> HIDE DEF v
      <3>6. SameReader(x.t, y.t) /\ SameApplication(x.n, y.n)
        BY <2>10, <3>2, <3>4, <3>5 DEF SameReader, SameApplication
      <3>7. y.accepted = x.accepted /\ y.wire = x.wire
        BY <2>3, <3>2, <3>4, <3>5 DEF SameWriter
      <3>8. y.crashed # x.crashed => y.n.endSent
        BY <2>2, <2>3, <3>2, <3>4, <3>5
      <3>9. y.n.tm = FALSE
        BY <3>2, <3>4, <3>5
      <3> QED
        BY <2>13, <3>2, <3>5, <3>6, <3>7, <3>8, <3>9 DEF y
    <2>14. CASE x.n.sendQueue = <<>> /\ ~(lost /\ x.t.senderQueue = <<>>)
      <3>1. /\ EndBase(e, r.x) /\ SameReader(z.t, r.x.t) /\ r.x.t.registry.defs # <<>>
            /\ r.x.n = z.n /\ r.x.accepted = z.accepted /\ r.x.crashed = z.crashed
            /\ r.sent \in BOOLEAN
            /\ r.x.t.endTransport = (z.t.endTransport \/ (r.sent /\ m.type = "Disconnect"))
            /\ ~r.x.t.open => m.type = "Disconnect" /\ r.sent /\ r.x.t.senderQueue = <<>>
            /\ z.t.senderQueue # <<>> => ~r.sent /\ r.x.wire = z.wire
            /\ \A pre \in Data, from \in Positions, M \in Seq(Messages) :
                 Linked(pre, from, Sender(z), WritePosition(z.t, M))
                   => Linked(pre, from, Sender(r.x),
                             WritePosition(r.x.t, IF r.sent THEN Append(M, m) ELSE M))
        BY <2>3, <2>5, <2>11, <2>14, TransmittedKeeps DEF r
      <3>2. m \in Messages
        BY <2>6 DEF Messages
      <3>3. CASE ~r.sent
        <4>1. y = Enqueue(r.x, m)
          BY <2>1, <2>2, <2>3, <2>14, <3>3 DEF Sent
        <4>2. /\ EndBase(e, y) /\ y.t = r.x.t /\ y.wire = r.x.wire /\ y.crashed = r.x.crashed
              /\ SameApplication(r.x.n, y.n) /\ y.n.tm = r.x.n.tm /\ y.n.endSent = r.x.n.endSent
              /\ y.n.released = r.x.n.released
              /\ y.n.sendQueue = Append(r.x.n.sendQueue, m)
              /\ y.accepted = Append(r.x.accepted, m)
              /\ \A pre \in Data, from \in Positions : OutOK(r.x, pre, from) => OutOK(y, pre, from)
          <5> DEFINE w == r.x
          <5>1. EndBase(e, w) /\ m \in Sendable(e) /\ y = Enqueue(w, m)
            BY <2>6, <3>1, <4>1
          <5> HIDE DEF w
          <5>2. /\ EndBase(e, y) /\ y.t = w.t /\ y.wire = w.wire /\ y.crashed = w.crashed
                /\ SameApplication(w.n, y.n) /\ y.n.tm = w.n.tm /\ y.n.endSent = w.n.endSent
                /\ y.n.released = w.n.released
                /\ y.n.sendQueue = Append(w.n.sendQueue, m)
                /\ y.accepted = Append(w.accepted, m)
                /\ \A pre \in Data, from \in Positions : OutOK(w, pre, from) => OutOK(y, pre, from)
            BY <5>1, EnqueueKeeps
          <5> QED
            BY <5>2 DEF w
        <4>3. ~y.t.endTransport /\ y.t.open
          BY <2>3, <2>6, <3>1, <3>3, <4>2
        <4>4. EndOK(e, y)
          <5>1. y.n.sendQueue = Append(x.n.sendQueue, m) /\ y.accepted = Append(x.accepted, m)
                /\ y.n.endSent = (m.type = "Disconnect")
            BY <2>2, <2>3, <3>1, <4>2
          <5>2. HasDisconnect(y.accepted) \/ HasDisconnect(y.n.sendQueue) => y.n.endSent
            BY <2>8, <2>9, <5>1
          <5>3. OnlyLast(y.n.sendQueue)
            BY <2>8, <5>1
          <5> QED
            BY <4>2, <4>3, <5>2, <5>3 DEF EndOK
        <4>5. SameReader(x.t, y.t) /\ SameApplication(x.n, y.n)
          BY <2>10, <3>1, <4>2 DEF SameReader, SameApplication
        <4>6. ASSUME NEW pre \in Data, NEW from \in Positions, OutOK(x, pre, from)
              PROVE  OutOK(y, pre, from)
          <5>1. OutOK(z, pre, from)
            BY <2>5, <4>6
          <5>2. PICK M \in Seq(Messages) :
                   /\ z.accepted = M \o z.n.sendQueue
                   /\ Linked(pre, from, Sender(z), WritePosition(z.t, M))
            BY <5>1 DEF OutOK
          <5>3. Linked(pre, from, Sender(r.x), WritePosition(r.x.t, M))
            BY <3>1, <3>3, <5>2
          <5>4. OutOK(r.x, pre, from)
            BY <3>1, <5>2, <5>3 DEF OutOK
          <5> QED
            BY <4>2, <5>4
        <4>7. lost => y.wire = x.wire
          BY <2>3, <2>14, <3>1, <4>2
        <4> QED
          BY <1>3, <2>2, <2>3, <3>1, <4>2, <4>3, <4>4, <4>5, <4>6, <4>7 DEF y
      <3>4. CASE r.sent
        <4> DEFINE a == Append(x.accepted, m)
        <4>1. ~lost /\ z.t.senderQueue = <<>>
          BY <2>3, <2>14, <3>1, <3>4
        <4>2. y = [r.x EXCEPT !.accepted = a]
          BY <2>1, <2>2, <2>3, <2>6, <2>14, <3>1, <3>4, <4>1 DEF Sent, Broken
        <4>3. a \in Seq(Sendable(e))
          BY <2>6, <2>7, AppendProperties
        <4>4. /\ y.t = r.x.t /\ y.n = z.n /\ y.wire = r.x.wire /\ y.accepted = a
              /\ y.crashed = x.crashed /\ y \in EndRecords(e)
          <5>1. r.x \in EndRecords(e)
            BY <3>1 DEF EndBase
          <5> HIDE DEF a
          <5> QED
            BY <2>3, <3>1, <4>2, <4>3, <5>1 DEF EndRecords
        <4>5. EndBase(e, y)
          BY <3>1, <4>4 DEF EndBase, Sender
        <4>6. y.n.sendQueue = <<>>
          BY <2>2, <2>3, <2>14, <4>4
        <4>7. EndOK(e, y)
          <5>1. ~HasDisconnect(y.n.sendQueue) /\ OnlyLast(y.n.sendQueue)
            BY <4>6 DEF HasDisconnect, OnlyLast
          <5>2. y.t.endTransport => m.type = "Disconnect"
            BY <2>3, <2>6, <3>1, <4>4
          <5>3. ~y.t.open => y.t.senderQueue = <<>>
            BY <3>1, <4>4
          <5> HIDE DEF a
          <5>4. y.n.endSent = (m.type = "Disconnect")
            BY <2>2, <2>3, <4>4
          <5> QED
            BY <2>9, <4>4, <4>5, <4>6, <5>1, <5>2, <5>3, <5>4 DEF EndOK, a
        <4>8. SameReader(x.t, y.t) /\ SameApplication(x.n, y.n)
          BY <2>10, <3>1, <4>4 DEF SameReader, SameApplication
        <4>9. ASSUME NEW pre \in Data, NEW from \in Positions, OutOK(x, pre, from)
              PROVE  OutOK(y, pre, from)
          <5>1. OutOK(z, pre, from)
            BY <2>5, <4>9
          <5>2. PICK M \in Seq(Messages) :
                   /\ z.accepted = M \o z.n.sendQueue
                   /\ Linked(pre, from, Sender(z), WritePosition(z.t, M))
            BY <5>1 DEF OutOK
          <5>3. Linked(pre, from, Sender(r.x), WritePosition(r.x.t, Append(M, m)))
            BY <3>1, <3>4, <5>2
          <5>4. M \o z.n.sendQueue = M
            BY <2>2, <2>3, <2>14, ConcatEmptySeq
          <5>5. Append(M, m) \o <<>> = Append(M, m) /\ Append(M, m) \in Seq(Messages)
            BY <3>2, ConcatEmptySeq, AppendProperties
          <5>6. y.accepted = Append(M, m) \o y.n.sendQueue
            BY <2>3, <4>4, <4>6, <5>2, <5>4, <5>5
          <5>7. Sender(y) = Sender(r.x)
            BY <4>4 DEF Sender
          <5> QED
            BY <4>4, <5>3, <5>5, <5>6, <5>7 DEF OutOK
        <4>10. y.n.tm = TRUE /\ y.n.released = x.n.released
               /\ (y.t.open \/ m.type = "Disconnect") /\ y.t.registry.defs # <<>>
          BY <2>2, <2>3, <3>1, <4>4
        <4> QED
          BY <1>3, <4>1, <4>4, <4>7, <4>8, <4>9, <4>10 DEF y
      <3> QED
        BY <3>1, <3>3, <3>4
    <2> QED
      BY <2>12, <2>13, <2>14
  <1> QED
    BY <1>2, <1>3

-----------------------------------------------------------------------------
(* The messages that wait for the transport.                               *)

\* Induction over numbers, from the least element of a set.
LEMMA FromNumberToNumber ==
  ASSUME NEW S, 0 \in S, \A n \in Nat : n \in S => n + 1 \in S
  PROVE  Nat \subseteq S
  <1> DEFINE T == Nat \ S
             R == OpToRel(<, Nat)
  <1>1. IsWellFoundedOn(R, Nat)
    BY NatLessThanWellFounded
  <1> HIDE DEF R
  <1>2. T # {} => \E x \in T : \A y \in T : ~(<<y, x>> \in R)
    BY <1>1, WFMin
  <1>3. ASSUME T # {} PROVE FALSE
    <2>1. PICK n \in T : \A k \in T : ~(<<k, n>> \in R)
      BY <1>2, <1>3
    <2>2. n \in Nat /\ n # 0 /\ n - 1 \in Nat
      OBVIOUS
    <2>3. <<n - 1, n>> \in R
      BY <2>2 DEF R, OpToRel
    <2>4. n - 1 \in S
      BY <2>1, <2>2, <2>3
    <2>5. (n - 1) + 1 \in S
      BY <2>2, <2>4
    <2> QED
      BY <2>2, <2>5
  <1> QED
    BY <1>3

\* The i-th entry of what HandleReadyToSendBuffer has tried.
Try(x, f, i) ==
  IF i = 0 THEN [x |-> x, sent |-> TRUE]
  ELSE IF ~f[i - 1].sent THEN f[i - 1]
  ELSE Dequeued(Transmit(f[i - 1].x, x.n.sendQueue[i]))

\* HandleReadyToSendBuffer has a function that fits its recursive definition,
LEMMA TriesExist ==
  ASSUME NEW x, Len(x.n.sendQueue) \in Nat
  PROVE  \E f : f = [i \in 0 .. Len(x.n.sendQueue) |-> Try(x, f, i)]
  <1> DEFINE l == Len(x.n.sendQueue)
             S == {k \in Nat : \E f : f = [i \in 0 .. k |-> Try(x, f, i)]}
  <1>1. 0 \in S
    <2> DEFINE f == [i \in 0 .. 0 |-> [x |-> x, sent |-> TRUE]]
    <2>1. \A i \in 0 .. 0 : Try(x, f, i) = [x |-> x, sent |-> TRUE]
      BY DEF Try
    <2>2. f = [i \in 0 .. 0 |-> Try(x, f, i)]
      BY <2>1
    <2> QED
      BY <2>2
  <1>2. ASSUME NEW k \in Nat, k \in S PROVE k + 1 \in S
    <2>1. PICK f : f = [i \in 0 .. k |-> Try(x, f, i)]
      BY <1>2
    <2> DEFINE g == [i \in 0 .. k + 1 |-> IF i <= k THEN f[i] ELSE Try(x, f, k + 1)]
    <2>2. \A i \in 0 .. k : g[i] = f[i]
      OBVIOUS
    <2>3. \A i \in 0 .. k + 1 : g[i] = Try(x, f, i)
      <3>1. \A i \in 0 .. k : f[i] = Try(x, f, i)
        BY <2>1
      <3>2. g[k + 1] = Try(x, f, k + 1)
        OBVIOUS
      <3> HIDE DEF g
      <3>3. \A i \in 0 .. k + 1 : i \in 0 .. k \/ i = k + 1
        OBVIOUS
      <3> QED
        BY <2>2, <3>1, <3>2, <3>3
    <2>4. DOMAIN g = 0 .. k + 1 /\ g = [i \in 0 .. k + 1 |-> g[i]]
      OBVIOUS
    <2> HIDE DEF g
    <2>5. \A i \in 0 .. k + 1 : Try(x, g, i) = Try(x, f, i)
      <3>1. ASSUME NEW i \in 0 .. k + 1, i # 0 PROVE g[i - 1] = f[i - 1]
        <4>1. i - 1 \in 0 .. k
          BY <3>1
        <4> QED
          BY <2>2, <4>1
      <3> QED
        BY <3>1 DEF Try
    <2>6. g = [i \in 0 .. k + 1 |-> Try(x, g, i)]
      BY <2>3, <2>4, <2>5
    <2> QED
      BY <2>6
  <1> HIDE DEF S
  <1>3. Nat \subseteq S
    BY <1>1, <1>2, FromNumberToNumber
  <1> QED
    BY <1>3 DEF S

\* and any such function is one step after the other.
LEMMA TriesFacts ==
  ASSUME NEW x, Len(x.n.sendQueue) \in Nat
  PROVE  \E f : /\ f = [i \in 0 .. Len(x.n.sendQueue) |-> Try(x, f, i)]
                /\ HandleReadyToSendBuffer(x) = f[Len(x.n.sendQueue)].x
  <1> DEFINE l == Len(x.n.sendQueue)
             f == CHOOSE g : g = [i \in 0 .. l |-> Try(x, g, i)]
  <1>1. f = [i \in 0 .. l |-> Try(x, f, i)]
    BY TriesExist
  <1>2. HandleReadyToSendBuffer(x) = f[l].x
    BY Zenon DEF HandleReadyToSendBuffer, Try
  <1> QED
    BY <1>1, <1>2

\* One message less.
LEMMA TailDisconnect ==
  ASSUME NEW S, NEW q \in Seq(S), q # <<>>
  PROVE  /\ HasDisconnect(Tail(q)) => HasDisconnect(q)
         /\ OnlyLast(q) => OnlyLast(Tail(q))
         /\ OnlyLast(q) /\ q[1].type = "Disconnect" => Tail(q) = <<>>
         /\ q[1].type = "Disconnect" => HasDisconnect(q)
  <1> DEFINE t == Tail(q)
             l == Len(q)
  <1>1. t \in Seq(S) /\ Len(t) = l - 1 /\ l \in Nat \ {0} /\ \A i \in 1 .. Len(t) : t[i] = q[i + 1]
    BY HeadTailProperties, LenProperties, EmptySeq
  <1> HIDE DEF t
  <1>2. HasDisconnect(t) => HasDisconnect(q)
    <2>1. ASSUME HasDisconnect(t) PROVE HasDisconnect(q)
      <3>1. PICK i \in 1 .. Len(t) : t[i].type = "Disconnect"
        BY <2>1 DEF HasDisconnect
      <3>2. i + 1 \in 1 .. l /\ q[i + 1].type = "Disconnect"
        BY <1>1, <3>1
      <3> QED
        BY <3>2 DEF HasDisconnect
    <2> QED
      BY <2>1
  <1>3. ASSUME OnlyLast(q) PROVE OnlyLast(t)
    <2>1. ASSUME NEW i \in 1 .. Len(t), t[i].type = "Disconnect" PROVE i = Len(t)
      <3>1. i + 1 \in 1 .. l /\ q[i + 1].type = "Disconnect"
        BY <1>1, <2>1
      <3>2. i + 1 = l
        BY <1>3, <3>1 DEF OnlyLast
      <3> QED
        BY <1>1, <3>2
    <2> QED
      BY <2>1 DEF OnlyLast
  <1>4. OnlyLast(q) /\ q[1].type = "Disconnect" => t = <<>>
    <2>1. ASSUME OnlyLast(q), q[1].type = "Disconnect" PROVE t = <<>>
      <3>1. 1 \in 1 .. l
        BY <1>1
      <3>2. 1 = l
        BY <2>1, <3>1 DEF OnlyLast
      <3> QED
        BY <1>1, <3>2, EmptySeq
    <2> QED
      BY <2>1
  <1>5. q[1].type = "Disconnect" => HasDisconnect(q)
    BY <1>1 DEF HasDisconnect
  <1> QED
    BY <1>2, <1>3, <1>4, <1>5 DEF t

\* A queue without its front.
LEMMA DropFront ==
  ASSUME NEW e \in Ends, NEW x, EndBase(e, x), x.n.sendQueue # <<>>
  PROVE  LET y == [x EXCEPT !.n.sendQueue = Tail(@)]
         IN  /\ EndBase(e, y) /\ y.t = x.t /\ y.wire = x.wire /\ y.crashed = x.crashed
             /\ y.accepted = x.accepted
             /\ SameApplication(x.n, y.n) /\ y.n.tm = x.n.tm /\ y.n.endSent = x.n.endSent
             /\ y.n.released = x.n.released /\ y.n.sendQueue = Tail(x.n.sendQueue)
  <1> DEFINE y == [x EXCEPT !.n.sendQueue = Tail(@)]
             p == Tail(x.n.sendQueue)
             n == [x.n EXCEPT !.sendQueue = p]
  <1>1. x \in EndRecords(e)
    BY DEF EndBase
  <1>2. y = [x EXCEPT !.n = n]
    BY <1>1 DEF EndRecords
  <1> HIDE DEF y
  <1>3. p \in Seq(Sendable(e))
    BY <1>1, HeadTailProperties DEF EndRecords, SessionRecords
  <1> HIDE DEF p
  <1>4. /\ n \in SessionRecords(e) /\ SameApplication(x.n, n) /\ n.sendQueue = p
        /\ n.tm = x.n.tm /\ n.endSent = x.n.endSent /\ n.released = x.n.released
    BY <1>1, <1>3 DEF EndRecords, SessionRecords, SameApplication
  <1> HIDE DEF n
  <1>5. /\ y.t = x.t /\ y.n = n /\ y.wire = x.wire /\ y.accepted = x.accepted
        /\ y.crashed = x.crashed /\ y \in EndRecords(e)
    BY <1>1, <1>2, <1>4 DEF EndRecords
  <1>6. EndBase(e, y)
    BY <1>5 DEF EndBase, Sender
  <1> QED
    BY <1>4, <1>5, <1>6 DEF y, p

\* One round of HandleReadyToSendBuffer.
LEMMA DequeueKeeps ==
  ASSUME NEW e \in Ends, NEW x, EndOK(e, x), x.n.tm, x.t.open, x.t.registry.defs # <<>>,
         x.n.sendQueue # <<>>
  PROVE  LET d == Dequeued(Transmit(x, x.n.sendQueue[1]))
             y == d.x
         IN  /\ EndOK(e, y) /\ SameReader(x.t, y.t) /\ SameApplication(x.n, y.n)
             /\ y.accepted = x.accepted /\ y.n.endSent = x.n.endSent
             /\ d.sent \in BOOLEAN /\ y.t.registry.defs # <<>>
             /\ ~lost => y.crashed = x.crashed /\ y.n.tm = x.n.tm /\ y.n.released = x.n.released
             /\ lost => y.wire = x.wire
             /\ y.crashed # x.crashed => lost /\ y.n.endSent
             /\ d.sent => y.n.sendQueue = Tail(x.n.sendQueue)
             /\ d.sent /\ y.n.tm /\ y.n.sendQueue # <<>> => y.t.open
             /\ \A pre \in Data, from \in Positions :
                  ~lost /\ OutOK(x, pre, from) => OutOK(y, pre, from)
  <1> DEFINE q == x.n.sendQueue
             m == q[1]
             r == Transmit(x, m)
             d == Dequeued(r)
             y == d.x
  <1>1. x \in EndRecords(e) /\ EndBase(e, x)
    BY DEF EndOK, EndBase
  <1>2. q \in Seq(Sendable(e)) /\ q # <<>> /\ m \in Sendable(e)
    <2>1. q \in Seq(Sendable(e)) /\ q # <<>>
      BY <1>1 DEF EndRecords, SessionRecords
    <2>2. Len(q) \in Nat \ {0}
      BY <2>1, EmptySeq
    <2> QED
      BY <2>1, <2>2, ElementOfSeq
  <1>3. /\ HasDisconnect(Tail(q)) => HasDisconnect(q)
        /\ OnlyLast(Tail(q))
        /\ m.type = "Disconnect" => Tail(q) = <<>> /\ HasDisconnect(q)
    BY <1>2, TailDisconnect DEF EndOK
  <1>4. /\ HasDisconnect(x.accepted) \/ HasDisconnect(q) => x.n.endSent
        /\ ~x.t.endTransport
    BY <1>2 DEF EndOK
  <1> HIDE DEF q, m
  <1>5. CASE lost /\ x.t.senderQueue = <<>>
    <2> DEFINE u == HandleConnectionReset(x)
               v == IF m.type = "Disconnect" THEN Crash(u) ELSE u
    <2>1. r = [x |-> v, sent |-> TRUE]
      BY <1>5 DEF Transmit, Broken, WriteFails
    <2>2. /\ EndOK(e, u) /\ SameReader(x.t, u.t) /\ SameApplication(x.n, u.n)
          /\ SameWriter(x, u) /\ u.crashed = x.crashed
          /\ u.n.tm = FALSE /\ u.n.endSent = x.n.endSent /\ u.n.released = TRUE
          /\ u.t.open = FALSE
      BY ResetKeeps
    <2> HIDE DEF u
    <2>3. /\ EndOK(e, v) /\ v.t = u.t /\ v.n = u.n /\ SameWriter(u, v)
          /\ v.crashed # u.crashed => m.type = "Disconnect"
      <3>1. CASE m.type = "Disconnect"
        BY <2>2, <3>1, CrashKeeps
      <3>2. CASE m.type # "Disconnect"
        BY <2>2, <3>2 DEF SameWriter, SameProgress
      <3> QED
        BY <3>1, <3>2
    <2> HIDE DEF v, r
    <2>4. d = [r EXCEPT !.x.n.sendQueue = Tail(@)]
      BY <2>1 DEF Dequeued
    <2> DEFINE w == [v EXCEPT !.n.sendQueue = Tail(@)]
    <2>5. d.x = w /\ d.sent = TRUE
      BY <2>1, <2>4
    <2>6. v.n.sendQueue = q /\ v.wire = x.wire /\ v.accepted = x.accepted
          /\ v.t.registry = x.t.registry
      BY <2>2, <2>3 DEF SameWriter, SameProgress, q
    <2>7. /\ EndBase(e, w) /\ w.t = v.t /\ w.wire = v.wire /\ w.crashed = v.crashed
          /\ w.accepted = v.accepted
          /\ SameApplication(v.n, w.n) /\ w.n.tm = v.n.tm /\ w.n.endSent = v.n.endSent
          /\ w.n.released = v.n.released /\ w.n.sendQueue = Tail(v.n.sendQueue)
      BY <1>2, <2>3, <2>6, DropFront DEF EndOK
    <2> HIDE DEF w, d
    <2>8. EndOK(e, w)
      <3>1. HasDisconnect(w.accepted) \/ HasDisconnect(w.n.sendQueue) => w.n.endSent
        BY <1>3, <1>4, <2>2, <2>3, <2>6, <2>7
      <3>2. OnlyLast(w.n.sendQueue)
        BY <1>3, <2>6, <2>7
      <3>3. ~w.t.endTransport
        BY <1>2, <2>3, <2>6, <2>7 DEF EndOK
      <3> QED
        BY <2>7, <3>1, <3>2, <3>3 DEF EndOK
    <2>9. SameReader(x.t, w.t) /\ SameApplication(x.n, w.n)
      BY <2>2, <2>3, <2>7 DEF SameReader, SameApplication
    <2>10. w.crashed # x.crashed => w.n.endSent
      BY <1>3, <1>4, <2>2, <2>3, <2>7
    <2>11. w.n.tm = FALSE /\ w.n.endSent = x.n.endSent /\ w.t.registry.defs # <<>>
      BY <2>2, <2>3, <2>6, <2>7
    <2> QED
      BY <1>5, <2>5, <2>6, <2>7, <2>8, <2>9, <2>10, <2>11 DEF d, r, q, m
  <1>6. CASE ~(lost /\ x.t.senderQueue = <<>>)
    <2>1. MaySend(e, x, m)
      BY <1>2 DEF MaySend
    <2>2. /\ EndBase(e, r.x) /\ SameReader(x.t, r.x.t) /\ r.x.t.registry.defs # <<>>
          /\ r.x.n = x.n /\ r.x.accepted = x.accepted /\ r.x.crashed = x.crashed
          /\ r.sent \in BOOLEAN
          /\ r.x.t.endTransport = (x.t.endTransport \/ (r.sent /\ m.type = "Disconnect"))
          /\ ~r.x.t.open => m.type = "Disconnect" /\ r.sent /\ r.x.t.senderQueue = <<>>
          /\ x.t.senderQueue # <<>> => ~r.sent /\ r.x.wire = x.wire
          /\ \A pre \in Data, from \in Positions, M \in Seq(Messages) :
               Linked(pre, from, Sender(x), WritePosition(x.t, M))
                 => Linked(pre, from, Sender(r.x),
                           WritePosition(r.x.t, IF r.sent THEN Append(M, m) ELSE M))
      BY <1>1, <1>6, <2>1, TransmittedKeeps
    <2> DEFINE z == r.x
    <2> HIDE DEF r
    <2>3. CASE ~r.sent
      <3>1. d = r /\ d.x = z /\ d.sent = FALSE
        BY <2>2, <2>3 DEF Dequeued
      <3> HIDE DEF d
      <3>2. EndOK(e, z)
        BY <1>4, <2>2, <2>3 DEF EndOK, q
      <3>3. SameApplication(x.n, z.n)
        BY <2>2 DEF SameApplication
      <3>4. ASSUME NEW pre \in Data, NEW from \in Positions, OutOK(x, pre, from)
            PROVE  OutOK(z, pre, from)
        BY <2>2, <2>3, <3>4 DEF OutOK
      <3> QED
        BY <1>6, <2>2, <3>1, <3>2, <3>3, <3>4 DEF d, r, m, q
    <2>4. CASE r.sent
      <3> DEFINE w == [z EXCEPT !.n.sendQueue = Tail(@)]
      <3>1. r = [x |-> z, sent |-> r.sent]
        <4>1. Transmit(x, m) = Transmitted(x, m, SendTree(Sender(x), Tree(m)))
          BY <1>6 DEF Transmit, Broken, Sender
        <4> QED
          BY <4>1 DEF Transmitted, r
      <3>2. d = [r EXCEPT !.x.n.sendQueue = Tail(@)]
        BY <2>4 DEF Dequeued
      <3>3. d.x = w /\ d.sent = r.sent
        <4> DEFINE ok == r.sent
        <4>1. r = [x |-> z, sent |-> ok]
          BY <3>1
        <4> HIDE DEF z, ok
        <4>2. d = [[x |-> z, sent |-> ok] EXCEPT !.x.n.sendQueue = Tail(@)]
          BY <3>2, <4>1
        <4>3. d.x = w /\ d.sent = ok
          BY <4>2
        <4> QED
          BY <4>3 DEF ok
      <3> HIDE DEF d, z
      <3>4. /\ EndBase(e, w) /\ w.t = z.t /\ w.wire = z.wire /\ w.crashed = z.crashed
            /\ w.accepted = z.accepted
            /\ SameApplication(z.n, w.n) /\ w.n.tm = z.n.tm /\ w.n.endSent = z.n.endSent
            /\ w.n.released = z.n.released /\ w.n.sendQueue = Tail(z.n.sendQueue)
        <4>1. EndBase(e, z) /\ z.n.sendQueue # <<>>
          BY <1>2, <2>2 DEF q, z
        <4> QED
          BY <4>1, DropFront
      <3> HIDE DEF w
      <3>5. w.n.sendQueue = Tail(q) /\ w.n.endSent = x.n.endSent /\ w.accepted = x.accepted
            /\ w.n.tm = x.n.tm /\ w.n.released = x.n.released /\ w.crashed = x.crashed
            /\ w.wire = r.x.wire /\ w.t = r.x.t
        BY <2>2, <3>4 DEF q, z
      <3>6. ~lost
        BY <1>6, <2>2, <2>4
      <3>7. EndOK(e, w)
        <4>1. HasDisconnect(w.accepted) \/ HasDisconnect(w.n.sendQueue) => w.n.endSent
          BY <1>3, <1>4, <3>5
        <4>2. OnlyLast(w.n.sendQueue)
          BY <1>3, <3>5
        <4>3. w.t.endTransport => w.n.sendQueue = <<>> /\ w.n.endSent
          BY <1>3, <1>4, <2>2, <3>5
        <4>4. ~w.t.open => w.t.senderQueue = <<>>
          BY <2>2, <3>5
        <4> QED
          BY <3>4, <4>1, <4>2, <4>3, <4>4 DEF EndOK
      <3>8. SameReader(x.t, w.t) /\ SameApplication(x.n, w.n)
        BY <2>2, <3>4, <3>5 DEF SameReader, SameApplication, z
      <3>9. ASSUME NEW pre \in Data, NEW from \in Positions, OutOK(x, pre, from)
            PROVE  OutOK(w, pre, from)
        <4>1. PICK M \in Seq(Messages) :
                 /\ x.accepted = M \o q
                 /\ Linked(pre, from, Sender(x), WritePosition(x.t, M))
          BY <3>9 DEF OutOK, q
        <4>2. Linked(pre, from, Sender(w), WritePosition(w.t, Append(M, m)))
          BY <2>2, <2>4, <3>5, <4>1 DEF Sender
        <4>3. m \in Messages /\ q \in Seq(Messages)
          BY <1>2, SendableMessages DEF Messages
        <4>4. Append(M, m) \in Seq(Messages)
          BY <4>3, AppendProperties
        <4>5. w.accepted = Append(M, m) \o w.n.sendQueue
          <5> DEFINE l == <<m>>
                     t == Tail(q)
          <5>1. l \in Seq(Messages) /\ t \in Seq(Messages)
            BY <1>2, <4>3, HeadTailProperties
          <5>2. q = l \o t
            BY <1>2, <4>3 DEF m
          <5>3. Append(M, m) = M \o l
            BY <4>3, ConcatMessages
          <5> HIDE DEF l, t
          <5>4. (M \o l) \o t = M \o (l \o t)
            BY <5>1, ConcatAssociative
          <5> QED
            BY <3>5, <4>1, <5>2, <5>3, <5>4 DEF t
        <4> QED
          BY <4>2, <4>4, <4>5 DEF OutOK
      <3>10. w.n.sendQueue # <<>> => w.t.open
        BY <1>3, <2>2, <3>5
      <3> QED
        BY <2>2, <2>4, <3>3, <3>5, <3>6, <3>7, <3>8, <3>9, <3>10 DEF d, r, m, q
    <2> QED
      BY <2>2, <2>3, <2>4
  <1> QED
    BY <1>5, <1>6

\* After i messages have been tried.
Trying(e, x, i, p) ==
  LET q == x.n.sendQueue
      y == p.x
  IN  /\ EndOK(e, y) /\ SameReader(x.t, y.t) /\ SameApplication(x.n, y.n)
      /\ y.accepted = x.accepted /\ y.n.endSent = x.n.endSent
      /\ p.sent \in BOOLEAN /\ y.t.registry.defs # <<>>
      /\ ~lost => y.crashed = x.crashed /\ y.n.tm = x.n.tm /\ y.n.released = x.n.released
      /\ lost => y.wire = x.wire
      /\ y.crashed # x.crashed => lost /\ (y.n.endSent \/ Len(q) >= 2)
      /\ p.sent => y.n.sendQueue = SubSeq(q, i + 1, Len(q))
      /\ p.sent /\ y.n.tm /\ y.n.sendQueue # <<>> => y.t.open
      /\ ~y.n.tm => i >= 1
      /\ \A pre \in Data, from \in Positions :
           ~lost /\ OutOK(x, pre, from) => OutOK(y, pre, from)

\* What is left of a queue, and without its front.
LEMMA RestOfQueue ==
  ASSUME NEW S, NEW q \in Seq(S), NEW i \in 0 .. Len(q) - 1
  PROVE  LET r == SubSeq(q, i + 1, Len(q))
         IN  r # <<>> /\ r[1] = q[i + 1] /\ Tail(r) = SubSeq(q, (i + 1) + 1, Len(q))
  <1> DEFINE l == Len(q)
             m == i + 1
             k == m + 1
             r == SubSeq(q, m, l)
             s == SubSeq(q, k, l)
             t == Tail(r)
  <1>1. l \in Nat /\ m \in Int /\ k \in Int /\ m = i + 1 /\ k = i + 2 /\ m <= l /\ m >= 1
        /\ \A j \in 1 .. l : q[j] \in S
    BY LenProperties, ElementOfSeq
  <1> HIDE DEF l, m, k
  <1>2. (\A j \in m .. l : q[j] \in S) /\ (\A j \in k .. l : q[j] \in S)
    BY <1>1
  <1>3. r \in Seq(S) /\ Len(r) = (IF m <= l THEN l - m + 1 ELSE 0)
        /\ \A j \in 1 .. l - m + 1 : r[j] = q[m + j - 1]
    BY <1>1, <1>2, SubSeqProperties
  <1>4. s \in Seq(S) /\ Len(s) = (IF k <= l THEN l - k + 1 ELSE 0)
        /\ \A j \in 1 .. l - k + 1 : s[j] = q[k + j - 1]
    BY <1>1, <1>2, SubSeqProperties
  <1> HIDE DEF r, s
  <1>5. Len(r) = l - i /\ r # <<>>
    BY <1>1, <1>3
  <1>6. r[1] = q[m]
    BY <1>1, <1>3
  <1>7. t \in Seq(S) /\ Len(t) = Len(r) - 1 /\ \A j \in 1 .. Len(t) : t[j] = r[j + 1]
    BY <1>3, <1>5, HeadTailProperties
  <1> HIDE DEF t
  <1>8. Len(s) = l - m
    BY <1>1, <1>4
  <1>9. \A j \in 1 .. Len(t) : t[j] = s[j]
    <2>1. ASSUME NEW j \in 1 .. l - m PROVE t[j] = s[j]
      <3>1. j \in 1 .. Len(t) /\ j + 1 \in 1 .. l - m + 1 /\ j \in 1 .. l - k + 1
        BY <1>1, <1>5, <1>7
      <3>2. m + (j + 1) - 1 = m + j /\ k + j - 1 = m + j
        BY <1>1
      <3>3. t[j] = q[m + j] /\ s[j] = q[m + j]
        BY <1>3, <1>4, <1>7, <3>1, <3>2
      <3> QED
        BY <3>3
    <2> QED
      BY <1>1, <1>5, <1>7, <2>1
  <1>10. t = s
    <2>1. Len(t) = Len(s)
      BY <1>1, <1>5, <1>7, <1>8
    <2> QED
      BY <1>4, <1>7, <1>9, <2>1, SeqEqual
  <1> QED
    BY <1>5, <1>6, <1>10 DEF r, s, t, k, m, l

\* HandleReadyToSendBuffer, by induction over its rounds.
LEMMA ReadyToSendKeeps ==
  ASSUME NEW e \in Ends, NEW x, EndOK(e, x), x.n.tm, x.t.open, x.t.registry.defs # <<>>
  PROVE  LET y == HandleReadyToSendBuffer(x)
         IN  /\ EndOK(e, y) /\ SameReader(x.t, y.t) /\ SameApplication(x.n, y.n)
             /\ y.accepted = x.accepted /\ y.n.endSent = x.n.endSent
             /\ y.t.registry.defs # <<>>
             /\ ~lost => y.crashed = x.crashed /\ y.n.tm = x.n.tm /\ y.n.released = x.n.released
             /\ lost => y.wire = x.wire
             /\ y.crashed # x.crashed => lost /\ (y.n.endSent \/ Len(x.n.sendQueue) >= 2)
             /\ \A pre \in Data, from \in Positions :
                  ~lost /\ OutOK(x, pre, from) => OutOK(y, pre, from)
  <1> DEFINE q == x.n.sendQueue
             l == Len(q)
             y == HandleReadyToSendBuffer(x)
  <1>1. q \in Seq(Sendable(e)) /\ l \in Nat
    BY LenProperties DEF EndOK, EndBase, EndRecords, SessionRecords
  <1>2. PICK f : f = [i \in 0 .. l |-> Try(x, f, i)] /\ y = f[l].x
    BY <1>1, TriesFacts
  <1> HIDE DEF y
  <1>3. \A i \in 0 .. l : f[i] = Try(x, f, i)
    BY <1>2
  <1>4. Trying(e, x, 0, f[0])
    <2>1. f[0] = [x |-> x, sent |-> TRUE]
      <3> DEFINE i == 0
      <3>1. i \in 0 .. l
        BY <1>1
      <3> HIDE DEF i
      <3>2. f[i] = Try(x, f, i)
        BY <1>3, <3>1
      <3>3. f[0] = Try(x, f, 0)
        BY <3>2 DEF i
      <3> QED
        BY <3>3, Zenon DEF Try
    <2>2. f[0].x = x /\ f[0].sent = TRUE
      BY <2>1
    <2>3. SubSeq(q, 0 + 1, l) = q
      BY <1>1, SubSeqFull
    <2>4. SameReader(x.t, x.t) /\ SameApplication(x.n, x.n)
      BY DEF SameReader, SameApplication
    <2> QED
      BY <2>2, <2>3, <2>4 DEF Trying
  <1>5. ASSUME NEW i \in 0 .. l - 1, Trying(e, x, i, f[i])
        PROVE  Trying(e, x, i + 1, f[i + 1])
    <2> DEFINE p == f[i]
               z == p.x
               rest == SubSeq(q, i + 1, l)
               d == f[i + 1]
    <2>1. i + 1 \in 0 .. l /\ i + 1 # 0 /\ (i + 1) - 1 = i /\ i \in Nat
      BY <1>1
    <2>2. d = IF ~p.sent THEN p ELSE Dequeued(Transmit(z, q[i + 1]))
      BY <1>3, <2>1 DEF Try
    <2> HIDE DEF p, d
    <2>3. rest # <<>> /\ rest[1] = q[i + 1] /\ Tail(rest) = SubSeq(q, (i + 1) + 1, l)
      BY <1>1, RestOfQueue
    <2> HIDE DEF rest
    <2>4. /\ EndOK(e, z) /\ SameReader(x.t, z.t) /\ SameApplication(x.n, z.n)
          /\ z.accepted = x.accepted /\ z.n.endSent = x.n.endSent
          /\ p.sent \in BOOLEAN /\ z.t.registry.defs # <<>>
          /\ ~lost => z.crashed = x.crashed /\ z.n.tm = x.n.tm /\ z.n.released = x.n.released
          /\ lost => z.wire = x.wire
          /\ z.crashed # x.crashed => lost /\ (z.n.endSent \/ l >= 2)
          /\ p.sent => z.n.sendQueue = rest
          /\ p.sent /\ z.n.tm /\ z.n.sendQueue # <<>> => z.t.open
          /\ ~z.n.tm => i >= 1
          /\ \A pre \in Data, from \in Positions :
               ~lost /\ OutOK(x, pre, from) => OutOK(z, pre, from)
      BY <1>5 DEF Trying, p, rest
    <2> HIDE DEF z, q, l
    <2>5. CASE ~p.sent
      <3>1. d = p
        BY <2>2, <2>5
      <3>2. i + 1 >= 1
        BY <2>1
      <3> QED
        BY <2>4, <2>5, <3>1, <3>2 DEF Trying, d, z, q, l
    <2>6. CASE p.sent /\ ~z.n.tm
      <3>1. d = [x |-> Crash(z), sent |-> FALSE]
        BY <2>2, <2>6 DEF Transmit, Dequeued
      <3> DEFINE c == Crash(z)
      <3>2. /\ EndOK(e, c) /\ c.t = z.t /\ c.n = z.n /\ SameWriter(z, c)
            /\ \A pre \in Data, from \in Positions : OutOK(z, pre, from) => OutOK(c, pre, from)
        BY <2>4, CrashKeeps
      <3> HIDE DEF c
      <3>3. d.x = c /\ d.sent = FALSE
        BY <3>1 DEF c
      <3>4. lost /\ l >= 2
        <4>1. i >= 1 /\ i + 1 <= l /\ i \in Nat
          BY <2>1, <2>4, <2>6
        <4>2. l >= 2
          BY <1>1, <4>1 DEF l
        <4>3. z.n.tm = x.n.tm => FALSE
          BY <2>6, Zenon
        <4>4. lost
          BY <2>4, <4>3, Zenon
        <4> QED
          BY <4>2, <4>4
      <3>5. SameReader(x.t, c.t) /\ SameApplication(x.n, c.n) /\ c.wire = z.wire
            /\ c.accepted = z.accepted
        BY <2>4, <3>2 DEF SameReader, SameApplication, SameWriter
      <3>6. i + 1 >= 1
        BY <2>1
      <3> QED
        BY <2>4, <3>2, <3>3, <3>4, <3>5, <3>6 DEF Trying, d, q, l
    <2>7. CASE p.sent /\ z.n.tm
      <3>1. z.n.sendQueue = rest /\ z.n.sendQueue # <<>> /\ z.t.open
            /\ z.n.sendQueue[1] = q[i + 1]
        BY <2>3, <2>4, <2>7 DEF q, l
      <3>2. d = Dequeued(Transmit(z, z.n.sendQueue[1]))
        BY <2>2, <2>7, <3>1
      <3> DEFINE w == d.x
      <3>3. /\ EndOK(e, w) /\ SameReader(z.t, w.t) /\ SameApplication(z.n, w.n)
            /\ w.accepted = z.accepted /\ w.n.endSent = z.n.endSent
            /\ d.sent \in BOOLEAN /\ w.t.registry.defs # <<>>
            /\ ~lost => w.crashed = z.crashed /\ w.n.tm = z.n.tm /\ w.n.released = z.n.released
            /\ lost => w.wire = z.wire
            /\ w.crashed # z.crashed => lost /\ w.n.endSent
            /\ d.sent => w.n.sendQueue = Tail(z.n.sendQueue)
            /\ d.sent /\ w.n.tm /\ w.n.sendQueue # <<>> => w.t.open
            /\ \A pre \in Data, from \in Positions :
                 ~lost /\ OutOK(z, pre, from) => OutOK(w, pre, from)
        BY <2>4, <2>7, <3>1, <3>2, DequeueKeeps
      <3> HIDE DEF w
      <3>4. SameReader(x.t, w.t) /\ SameApplication(x.n, w.n)
        BY <2>4, <3>3 DEF SameReader, SameApplication
      <3>5. d.sent => w.n.sendQueue = SubSeq(q, (i + 1) + 1, l)
        BY <2>3, <3>1, <3>3 DEF q, l
      <3>6. w.crashed # x.crashed => lost /\ (w.n.endSent \/ l >= 2)
        BY <2>4, <3>3
      <3>7. i + 1 >= 1
        BY <2>1
      <3>8. ~lost => w.crashed = x.crashed /\ w.n.tm = x.n.tm /\ w.n.released = x.n.released
        BY <2>4, <3>3
      <3> QED
        BY <2>4, <3>3, <3>4, <3>5, <3>6, <3>7, <3>8 DEF Trying, d, w, q, l
    <2> QED
      BY <2>4, <2>5, <2>6, <2>7
  <1>6. Trying(e, x, l, f[l])
    <2> DEFINE S == {i \in Nat : i <= l => Trying(e, x, i, f[i])}
    <2>1. 0 \in S
      BY <1>4
    <2>2. ASSUME NEW i \in Nat, i \in S PROVE i + 1 \in S
      <3>1. CASE i + 1 <= l
        <4>1. i \in 0 .. l - 1
          BY <1>1, <3>1
        <4> QED
          BY <1>5, <2>2, <4>1
      <3>2. CASE ~(i + 1 <= l)
        BY <3>2
      <3> QED
        BY <3>1, <3>2
    <2> HIDE DEF S
    <2>3. Nat \subseteq S
      BY <2>1, <2>2, FromNumberToNumber
    <2> QED
      BY <1>1, <2>3 DEF S
  <1> QED
    BY <1>2, <1>6 DEF Trying, y

\* Writing the front of the queue of the transport.
LEMMA WriteFrontKeeps ==
  ASSUME NEW s, SenderOK(s), s.t.senderQueue # <<>>, s.t.open
  PROVE  LET r == WriteFront(s)
         IN  /\ SenderOK(r) /\ SameReader(s.t, r.t) /\ SameProgress(s.t, r.t)
             /\ r.t.endTransport = s.t.endTransport
             /\ ~r.t.open => r.t.senderQueue = <<>>
             /\ \A pre \in Data, from \in Positions, to \in Positions :
                  Linked(pre, from, s, to) => Linked(pre, from, r, to)
  <1> DEFINE q == s.t.senderQueue
             front == q[1]
             w == s.wire
             a == Accepted(w, front)
             rest == Remainder(w, front)
             more == Tail(q)
             p == IF rest = <<>> THEN more ELSE <<rest>> \o more
             t == [s.t EXCEPT !.senderQueue = p]
             r == WriteFront(s)
  <1>1. s.t \in Transports /\ w \in Data /\ q \in Seq(Data) /\ Len(w) <= Capacity
        /\ \A i \in 1 .. Len(q) : q[i] # <<>>
    BY DEF SenderOK, Transports, NoneEmpty
  <1>2. front \in Data /\ more \in Seq(Data) /\ Len(q) \in Nat \ {0} /\ Len(more) = Len(q) - 1
        /\ \A i \in 1 .. Len(more) : more[i] = q[i + 1]
    <2>1. Len(q) \in Nat \ {0} /\ q # <<>>
      BY <1>1, EmptySeq
    <2> QED
      BY <1>1, <2>1, ElementOfSeq, HeadTailProperties
  <1> HIDE DEF front
  <1>3. /\ a \in Data /\ rest \in Data /\ a \o rest = front
        /\ w \o a \in Data /\ Len(w \o a) <= Capacity
    BY <1>1, <1>2, AcceptedFacts
  <1>4. r = [wire |-> w \o a, t |-> CloseWhenEmpty(t)]
    BY DEF WriteFront, front
  <1> HIDE DEF w, a, rest, more, r
  <1>5. \A i \in 1 .. Len(more) : more[i] # <<>>
    <2>1. ASSUME NEW i \in 1 .. Len(more) PROVE more[i] # <<>>
      <3>1. i + 1 \in 1 .. Len(q)
        BY <1>2
      <3> QED
        BY <1>1, <1>2, <3>1
    <2> QED
      BY <2>1
  <1>6. p \in Seq(Data) /\ \A i \in 1 .. Len(p) : p[i] # <<>>
    <2>1. CASE rest = <<>>
      BY <1>2, <1>5, <2>1
    <2>2. CASE rest # <<>>
      <3> DEFINE l == <<rest>>
                 k == l \o more
      <3>1. l \in Seq(Data) /\ Len(l) = 1 /\ l[1] = rest
        BY <1>3
      <3> HIDE DEF l
      <3>2. k \in Seq(Data) /\ Len(k) = Len(l) + Len(more)
            /\ \A i \in 1 .. Len(l) + Len(more) : k[i] = IF i <= Len(l) THEN l[i] ELSE more[i - Len(l)]
        <4> DEFINE T == Data
        <4>1. l \in Seq(T) /\ more \in Seq(T)
          BY <1>2, <3>1
        <4> HIDE DEF T, more
        <4>2. /\ k \in Seq(T) /\ Len(k) = Len(l) + Len(more)
              /\ \A i \in 1 .. Len(l) + Len(more) :
                   k[i] = IF i <= Len(l) THEN l[i] ELSE more[i - Len(l)]
          BY <4>1, ConcatProperties
        <4> QED
          BY <4>2 DEF T
      <3>3. p = k
        BY <2>2 DEF l
      <3> HIDE DEF k, p
      <3>4. \A i \in 1 .. Len(k) : k[i] # <<>>
        <4>1. ASSUME NEW i \in 1 .. Len(k) PROVE k[i] # <<>>
          <5>1. Len(more) \in Nat
            BY <1>2
          <5>2. CASE i <= 1
            <6>1. k[i] = l[1]
              BY <3>1, <3>2, <5>1, <5>2
            <6> QED
              BY <2>2, <3>1, <6>1
          <5>3. CASE ~(i <= 1)
            <6>1. i - 1 \in 1 .. Len(more) /\ k[i] = more[i - 1]
              BY <3>1, <3>2, <5>1, <5>3
            <6> QED
              BY <1>5, <6>1
          <5> QED
            BY <5>2, <5>3
        <4> QED
          BY <4>1
      <3> QED
        BY <3>2, <3>3, <3>4
    <2> QED
      BY <2>1, <2>2
  <1>7. ASSUME NEW u \in Data, Made(u, more) PROVE Made(rest \o u, p)
    <2>1. CASE rest = <<>>
      BY <1>7, <2>1, DataAndNothing
    <2>2. CASE rest # <<>>
      BY <1>3, <1>7, <2>2, MadeCons
    <2> QED
      BY <2>1, <2>2
  <1> HIDE DEF p
  <1>8. /\ t \in Transports /\ t.senderQueue = p /\ SameReader(s.t, t) /\ SameProgress(s.t, t)
        /\ t.endTransport = s.t.endTransport /\ t.open = s.t.open
    BY <1>1, <1>6 DEF Transports, SameReader, SameProgress
  <1> HIDE DEF t
  <1> DEFINE c == CloseWhenEmpty(t)
  <1>9. /\ c \in Transports /\ c.senderQueue = p /\ SameReader(s.t, c) /\ SameProgress(s.t, c)
        /\ c.endTransport = s.t.endTransport /\ (~c.open => c.senderQueue = <<>>)
    <2>1. CASE t.senderQueue = <<>> /\ t.endTransport
      <3>1. c = CloseConnections(t)
        BY <2>1 DEF CloseWhenEmpty
      <3> HIDE DEF c
      <3>2. /\ c \in Transports /\ c.senderQueue = t.senderQueue
            /\ SameReader(t, c) /\ SameProgress(t, c) /\ c.endTransport = t.endTransport
        BY <1>8, <3>1 DEF CloseConnections, Transports, SameReader, SameProgress
      <3> QED
        BY <1>8, <2>1, <3>2 DEF SameReader, SameProgress
    <2>2. CASE ~(t.senderQueue = <<>> /\ t.endTransport)
      <3>1. c = t
        BY <2>2 DEF CloseWhenEmpty
      <3> HIDE DEF c
      <3> QED
        BY <1>8, <3>1
    <2> QED
      BY <2>1, <2>2
  <1> HIDE DEF c
  <1>10. r.wire = w \o a /\ r.t = c /\ r = [t |-> r.t, wire |-> r.wire]
    BY <1>4 DEF c
  <1>11. SenderOK(r)
    BY <1>3, <1>6, <1>9, <1>10 DEF SenderOK, NoneEmpty
  <1>12. ASSUME NEW pre \in Data, NEW from \in Positions, NEW to \in Positions,
                Linked(pre, from, s, to)
         PROVE  Linked(pre, from, r, to)
    <2>1. PICK u \in Data : Made(u, q) /\ Leads(from, pre \o (w \o u), to)
      BY <1>12 DEF Linked, w
    <2>2. PICK v \in Data : u = front \o v /\ Made(v, more)
      BY <2>1, MadeFirst DEF front, more
    <2>3. front \o v = a \o (rest \o v)
      <3>1. a \in Data /\ rest \in Data /\ v \in Data /\ a \o rest = front
        BY <1>3
      <3> HIDE DEF a, rest, front
      <3>2. (a \o rest) \o v = a \o (rest \o v)
        BY <3>1, DataAssociative, ZenonT(60)
      <3> QED
        BY <3>1, <3>2
    <2>4. rest \o v \in Data
      BY <1>3, ConcatData
    <2>5. w \o (a \o (rest \o v)) = (w \o a) \o (rest \o v)
      <3> DEFINE b == rest \o v
      <3>1. w \in Data /\ a \in Data /\ b \in Data
        BY <1>1, <1>3, <2>4 DEF w
      <3> HIDE DEF b
      <3>2. (w \o a) \o b = w \o (a \o b)
        BY <3>1, DataAssociative, ZenonT(60)
      <3> QED
        BY <3>2 DEF b
    <2>6. Leads(from, pre \o (r.wire \o (rest \o v)), to)
      BY <1>10, <2>1, <2>2, <2>3, <2>5
    <2>7. Made(rest \o v, r.t.senderQueue)
      BY <1>7, <1>9, <1>10, <2>2
    <2> QED
      BY <2>4, <2>6, <2>7 DEF Linked
  <1> QED
    BY <1>9, <1>10, <1>11, <1>12 DEF r

\* HandleFDWrite.
LEMMA WrittenKeeps ==
  ASSUME NEW e \in Ends, NEW x, EndOK(e, x), x.n.tm, x.t.open, x.t.registry.defs # <<>>
  PROVE  LET y == Written(x)
         IN  /\ EndOK(e, y) /\ SameReader(x.t, y.t) /\ SameApplication(x.n, y.n)
             /\ y.accepted = x.accepted /\ y.n.endSent = x.n.endSent
             /\ y.t.registry.defs # <<>>
             /\ ~lost => y.crashed = x.crashed /\ y.n.tm = x.n.tm /\ y.n.released = x.n.released
             /\ lost => y.wire = x.wire
             /\ y.crashed # x.crashed => lost /\ (y.n.endSent \/ Len(x.n.sendQueue) >= 2)
             /\ \A pre \in Data, from \in Positions :
                  ~lost /\ OutOK(x, pre, from) => OutOK(y, pre, from)
  <1> DEFINE y == Written(x)
  <1>1. x \in EndRecords(e) /\ EndBase(e, x)
    BY DEF EndOK, EndBase
  <1>2. CASE x.t.senderQueue = <<>>
    <2> DEFINE t == [x.t EXCEPT !.writePoll = FALSE]
               z == [x EXCEPT !.t = t]
    <2>1. y = HandleReadyToSendBuffer(z)
      <3>1. z = [x EXCEPT !.t.writePoll = FALSE]
        BY <1>1 DEF EndRecords
      <3> QED
        BY <1>2, <3>1 DEF Written
    <2> HIDE DEF y
    <2>2. /\ t \in Transports /\ t.senderQueue = x.t.senderQueue /\ SameReader(x.t, t)
          /\ SameProgress(x.t, t) /\ SameEnd(x.t, t)
      BY <1>1 DEF EndRecords, Transports, SameReader, SameProgress, SameEnd
    <2> HIDE DEF t
    <2>3. /\ z.t = t /\ z.n = x.n /\ z.wire = x.wire /\ z.accepted = x.accepted
          /\ z.crashed = x.crashed /\ z \in EndRecords(e)
      BY <1>1, <2>2 DEF EndRecords
    <2> HIDE DEF z
    <2>4. SameWriter(x, z)
      BY <2>2, <2>3 DEF SameWriter
    <2>5. /\ EndBase(e, z)
          /\ \A pre \in Data, from \in Positions : OutOK(x, pre, from) => OutOK(z, pre, from)
      BY <1>1, <2>3, <2>4, SameWriterKeeps
    <2>6. EndOK(e, z)
      BY <2>2, <2>3, <2>5 DEF EndOK, SameEnd
    <2>7. z.n.tm /\ z.t.open /\ z.t.registry.defs # <<>>
      BY <2>2, <2>3 DEF SameEnd, SameProgress
    <2>8. /\ EndOK(e, y) /\ SameReader(z.t, y.t) /\ SameApplication(z.n, y.n)
          /\ y.accepted = z.accepted /\ y.n.endSent = z.n.endSent
          /\ y.t.registry.defs # <<>>
          /\ ~lost => y.crashed = z.crashed /\ y.n.tm = z.n.tm /\ y.n.released = z.n.released
          /\ lost => y.wire = z.wire
          /\ y.crashed # z.crashed => lost /\ (y.n.endSent \/ Len(z.n.sendQueue) >= 2)
          /\ \A pre \in Data, from \in Positions :
               ~lost /\ OutOK(z, pre, from) => OutOK(y, pre, from)
      BY <2>1, <2>6, <2>7, ReadyToSendKeeps
    <2>9. SameReader(x.t, y.t) /\ SameApplication(x.n, y.n)
      BY <2>2, <2>3, <2>8 DEF SameReader, SameApplication
    <2> QED
      BY <2>3, <2>5, <2>8, <2>9 DEF y
  <1>3. CASE x.t.senderQueue # <<>> /\ lost
    <2>1. y = HandleConnectionReset(x)
      BY <1>3 DEF Written
    <2>2. /\ EndOK(e, y) /\ SameReader(x.t, y.t) /\ SameApplication(x.n, y.n)
          /\ SameWriter(x, y) /\ y.crashed = x.crashed /\ y.n.endSent = x.n.endSent
      BY <2>1, ResetKeeps
    <2> HIDE DEF y
    <2> QED
      BY <1>3, <2>2 DEF SameWriter, SameProgress, y
  <1>4. CASE x.t.senderQueue # <<>> /\ ~lost
    <2> DEFINE s == Sender(x)
               r == WriteFront(s)
    <2>1. y = [x EXCEPT !.t = r.t, !.wire = r.wire]
      BY <1>4 DEF Written, WriteQueued, Sender
    <2>2. SenderOK(s) /\ s.t = x.t /\ s.wire = x.wire
      BY <1>1 DEF EndBase, Sender
    <2> HIDE DEF y, s
    <2>3. /\ SenderOK(r) /\ SameReader(s.t, r.t) /\ SameProgress(s.t, r.t)
          /\ r.t.endTransport = s.t.endTransport
          /\ ~r.t.open => r.t.senderQueue = <<>>
          /\ \A pre \in Data, from \in Positions, to \in Positions :
               Linked(pre, from, s, to) => Linked(pre, from, r, to)
      BY <1>4, <2>2, WriteFrontKeeps
    <2> HIDE DEF r
    <2>4. r.t \in Transports /\ r.wire \in Data /\ r = [t |-> r.t, wire |-> r.wire]
      BY <2>3 DEF SenderOK
    <2>5. /\ y.t = r.t /\ y.n = x.n /\ y.wire = r.wire /\ y.accepted = x.accepted
          /\ y.crashed = x.crashed /\ y \in EndRecords(e)
      BY <1>1, <2>1, <2>4 DEF EndRecords
    <2>6. Sender(y) = r
      BY <2>4, <2>5 DEF Sender
    <2>7. EndBase(e, y)
      BY <1>1, <2>2, <2>3, <2>5, <2>6 DEF EndBase, RegistryOK, SameProgress
    <2>8. EndOK(e, y)
      BY <2>2, <2>3, <2>5, <2>7 DEF EndOK
    <2>9. SameReader(x.t, y.t) /\ SameApplication(x.n, y.n) /\ y.t.registry.defs # <<>>
      BY <2>2, <2>3, <2>5 DEF SameApplication, SameProgress
    <2>10. ASSUME NEW pre \in Data, NEW from \in Positions, OutOK(x, pre, from)
           PROVE  OutOK(y, pre, from)
      <3>1. PICK M \in Seq(Messages) :
               /\ x.accepted = M \o x.n.sendQueue
               /\ Linked(pre, from, s, WritePosition(x.t, M))
        BY <2>10 DEF OutOK, s
      <3> DEFINE to == WritePosition(x.t, M)
      <3>2. to \in Positions
        BY <1>1, WritePositionTypes DEF EndBase, EndRecords
      <3>3. WritePosition(y.t, M) = to
        BY <2>2, <2>3, <2>5 DEF WritePosition, SameProgress
      <3> HIDE DEF to
      <3>4. Linked(pre, from, r, to)
        BY <2>3, <3>1, <3>2 DEF to
      <3> QED
        BY <2>5, <2>6, <3>1, <3>3, <3>4 DEF OutOK
    <2> QED
      BY <1>4, <2>5, <2>8, <2>9, <2>10 DEF y
  <1> QED
    BY <1>2, <1>3, <1>4

-----------------------------------------------------------------------------
(* Messages and their trees.                                               *)

ClientTypes == {"ClientHello", "Disconnect", "Authenticate", "RemoteForwardRequest", "KeepAlive"}
ServerTypes == {"ServerHello", "Disconnect", "AuthenticationResponse", "Error", "Usages",
                "RemoteForwardResponse", "KeepAliveResponse"}

\* The field of a message is not one of its plain fields.
LEMMA ArgNames ==
  /\ MsgTypes = ClientTypes \cup ServerTypes
  /\ \A type \in MsgTypes : ArgName[type] \notin {"MsgId", "TunnelInfo", "RemoteForwardings"}
  BY DEF MsgTypes, ArgName, ClientTypes, ServerTypes

\* What an end may send, by type.
LEMMA SendableFacts ==
  ASSUME NEW e \in Ends, NEW m \in Sendable(e)
  PROVE  /\ m = Msg(m.type, m.arg) /\ m.arg \in Nat
         /\ m.type \in IF e = "client" THEN ClientTypes ELSE ServerTypes
         /\ m.type \in {"RemoteForwardRequest", "RemoteForwardResponse"} => m.arg \in 4 .. 3 + MaxCalls
         /\ m.type \in {"KeepAlive", "KeepAliveResponse"} => m.arg \in 0 .. MaxCalls - 1
         /\ m \in HellosOf(e) <=> m.type \in Hellos
         /\ m.type \in Hellos => m = HelloOf(e, m.arg)
         /\ m.type = "ClientHello" => m.arg = PINGGY_SESSION_VERSION_1_02
  <1>1. MaxCalls \in Nat /\ ServerVersions \subseteq Nat /\ Notices \subseteq {"Error", "Usages"}
        /\ PINGGY_SESSION_VERSION_1_02 \in Nat
    BY SessionAssumption DEF PINGGY_SESSION_VERSION_1_02
  <1>2. CASE e = "client"
    <2>1. HellosOf(e) = {Msg("ClientHello", PINGGY_SESSION_VERSION_1_02)}
      BY <1>2 DEF HellosOf, HelloOf
    <2>2. m \in HellosOf(e) \cup {Msg("Disconnect", 0), Msg("Authenticate", 0)}
               \cup {Msg("RemoteForwardRequest", i) : i \in 4 .. 3 + MaxCalls}
               \cup {Msg("KeepAlive", i) : i \in 0 .. MaxCalls - 1}
      BY <1>1, <1>2 DEF Sendable, Calls
    <2> QED
      BY <1>1, <1>2, <2>1, <2>2 DEF Msg, ClientTypes, Hellos, HelloOf
  <1>3. CASE e # "client"
    <2>1. HellosOf(e) = {Msg("ServerHello", v) : v \in ServerVersions}
      BY <1>3 DEF HellosOf, HelloOf
    <2>2. m \in HellosOf(e) \cup {Msg("Disconnect", 0)}
               \cup {Msg("AuthenticationResponse", i) : i \in 0 .. 1}
               \cup {Msg(type, 0) : type \in Notices}
               \cup {Msg("RemoteForwardResponse", i) : i \in 4 .. 3 + MaxCalls}
               \cup {Msg("KeepAliveResponse", i) : i \in 0 .. MaxCalls - 1}
      BY <1>1, <1>3 DEF Sendable, Calls
    <2> QED
      BY <1>1, <1>3, <2>1, <2>2 DEF Msg, ServerTypes, Hellos, HelloOf
  <1> QED
    BY <1>2, <1>3

\* The parts of a message.
LEMMA MessageFacts ==
  ASSUME NEW m \in Messages
  PROVE  m = Msg(m.type, m.arg) /\ m.type \in MsgTypes /\ m.arg \in Nat
  <1>1. PICK e \in Ends : m \in Sendable(e)
    BY DEF Messages
  <1>2. m.type \in ClientTypes \cup ServerTypes
    BY <1>1, SendableFacts
  <1> QED
    BY <1>1, <1>2, SendableFacts, ArgNames

\* The other end inflates the message that was sent (ToPinggyValue, FromPinggyValue).
LEMMA TreeReadsBack ==
  ASSUME NEW m \in Messages
  PROVE  Inflate(Tree(m)) = m /\ Tree(m) # NoTree /\ Tree(m).type # "Corrupt"
  <1>1. m = Msg(m.type, m.arg) /\ m.type \in MsgTypes /\ m.type # "msgType"
        /\ ArgName[m.type] \notin {"MsgId", "TunnelInfo", "RemoteForwardings"}
    <2>1. m = Msg(m.type, m.arg) /\ m.type \in MsgTypes
      BY MessageFacts
    <2> QED
      BY <2>1, ArgNames DEF ClientTypes, ServerTypes
  <1> DEFINE f == [g \in {"msgType", m.type} |->
                      IF g = "msgType" THEN Lit(m.type) ELSE Obj(Fields(m))]
             inner == Obj(f)
             msg == [msg |-> inner]
             arg == ArgName[m.type]
             fields == Fields(m)
  <1>2. Tree(m) = [type |-> "Object", of |-> msg]
    BY DEF Tree, Obj
  <1>3. f["msgType"] = Lit(m.type) /\ f[m.type] = Obj(fields)
    BY <1>1
  <1> HIDE DEF f, fields
  <1>4. inner.of = f
    BY DEF Obj
  <1> HIDE DEF inner
  <1>5. msg.msg = inner
    OBVIOUS
  <1> HIDE DEF msg
  <1>6. Tree(m).of = msg /\ Tree(m).type = "Object"
    BY <1>2
  <1>7. Tree(m).of.msg.of = f
    BY <1>4, <1>5, <1>6
  <1>8. Tree(m).of.msg.of.msgType.of = m.type
    BY <1>3, <1>7 DEF Lit
  <1>9. Tree(m).of.msg.of[m.type].of = fields
    <2>1. Obj(fields).of = fields
      BY DEF Obj
    <2> QED
      BY <1>3, <1>7, <2>1
  <1>10. (IF arg \in DOMAIN fields THEN fields[arg].of ELSE 0) = m.arg
    <2>1. CASE m.arg = 0 /\ m.type \notin Hellos
      <3>1. fields = PlainFields(m)
        BY <2>1 DEF Fields, fields
      <3>2. DOMAIN PlainFields(m) \subseteq {"MsgId", "TunnelInfo", "RemoteForwardings"}
        <4>1. CASE m.type = "RemoteForwardResponse"
          <5>1. DOMAIN PlainFields(m) = {"MsgId", "RemoteForwardings"}
            BY <2>1, <4>1 DEF PlainFields
          <5> QED
            BY <5>1
        <4>2. CASE m.type # "RemoteForwardResponse"
          <5>1. PlainFields(m) = [MsgId |-> Lit(0)]
            BY <2>1, <4>2 DEF PlainFields
          <5>2. DOMAIN PlainFields(m) = {"MsgId"}
            BY <5>1
          <5> QED
            BY <5>2
        <4> QED
          BY <4>1, <4>2
      <3>3. arg \notin DOMAIN fields
        BY <1>1, <3>1, <3>2
      <3> QED
        BY <2>1, <3>3
    <2>2. CASE ~(m.arg = 0 /\ m.type \notin Hellos)
      <3>1. fields = [g \in {arg} \cup DOMAIN PlainFields(m) |->
                        IF g = arg THEN Lit(m.arg) ELSE PlainFields(m)[g]]
        BY <2>2 DEF Fields, fields
      <3>2. arg \in DOMAIN fields /\ fields[arg] = Lit(m.arg)
        BY <3>1
      <3> QED
        BY <3>2 DEF Lit
    <2> QED
      BY <2>1, <2>2
  <1>11. Inflate(Tree(m)) = Msg(m.type, m.arg)
    BY <1>8, <1>9, <1>10 DEF Inflate
  <1>12. Tree(m) # NoTree
    <2>1. NoTree.type = "None"
      BY DEF NoTree
    <2> QED
      BY <1>6, <2>1
  <1> QED
    BY <1>1, <1>6, <1>11, <1>12

-----------------------------------------------------------------------------
(* Reading.  The reader is at a position, and has in recvRaw the beginning *)
(* of the piece that comes next.                                           *)

Reads(t, messages, from) ==
  /\ from \in Positions /\ from.messages = messages
  /\ Numbered(from.known) /\ t.known = Learned(from.known)
  /\ t.signatureRcvd = (from.stage # "signature")
  /\ t.readingHeader = (from.stage # "body")
  /\ t.expectedLen = IF from.stage = "body" THEN from.length ELSE 2
  /\ Len(t.recvRaw) < t.expectedLen

\* What reading leaves alone.
SameWriting(t, u) ==
  /\ SameProgress(t, u) /\ SameEnd(t, u)
  /\ t.senderQueue = u.senderQueue /\ t.writePoll = u.writePoll

\* A whole piece: the reader gets to the next position, with the message that it holds.
LEMMA ParseWholePiece ==
  ASSUME NEW t \in Transports, NEW from, NEW messages \in Seq(Messages),
         from \in Positions, from.messages = messages,
         Numbered(from.known), t.known = Learned(from.known),
         t.signatureRcvd = (from.stage # "signature"),
         t.readingHeader = (from.stage # "body"),
         t.recvRaw = <<>>, NEW raw \in Data, NEW next, Piece(from, raw, next),
         next \in Positions
  PROVE  LET r == ParseWhole(t, raw)
         IN  /\ r.ok = TRUE /\ r.t \in Transports /\ SameWriting(t, r.t)
             /\ \/ r.tree = NoTree /\ Reads(r.t, messages, next)
                \/ \E m \in Messages : r.tree = Tree(m) /\ Reads(r.t, Append(messages, m), next)
  <1> DEFINE r == ParseWhole(t, raw)
  <1>1. t.recvRaw = <<>> /\ Len(t.recvRaw) = 0 /\ 0 < 2
    OBVIOUS
  <1>2. CASE from.stage = "signature"
    <2>1. raw = Signature /\ next = Position("header", 0, from.known, from.messages)
      BY <1>2 DEF Piece
    <2> DEFINE n == [NextHeader(t) EXCEPT !.signatureRcvd = TRUE]
    <2>2. r = [t |-> n, ok |-> TRUE, tree |-> NoTree]
      BY <1>2, <2>1 DEF ParseWhole, RecvSignature, Parsed
    <2>3. /\ n \in Transports /\ SameWriting(t, n) /\ n.signatureRcvd = TRUE
          /\ n.readingHeader = TRUE /\ n.expectedLen = 2 /\ n.recvRaw = t.recvRaw
          /\ n.known = t.known
      BY DEF NextHeader, Transports, SameWriting, SameProgress, SameEnd, TRANSPORT_HEADER_LENGTH
    <2> HIDE DEF n, r
    <2>4. r.t = n /\ r.ok = TRUE /\ r.tree = NoTree
      BY <2>2
    <2>5. /\ next.stage = "header" /\ next.known = from.known
          /\ next.messages = from.messages
      BY <2>1 DEF Position
    <2>6. Reads(n, messages, next)
      BY <1>1, <2>3, <2>5 DEF Reads
    <2> QED
      BY <2>3, <2>4, <2>6 DEF r
  <1>3. CASE from.stage = "header"
    <2>1. PICK l \in 1 .. Base - 1 :
             raw = LengthUnits(l) /\ next = Position("body", l, from.known, from.messages)
      BY <1>3 DEF Piece
    <2>2. Base \in Nat
      BY TransportAssumption DEF Base
    <2>3. l \in Nat /\ l >= 1 /\ l < Base
      BY <2>2
    <2>4. LengthOf(raw) = l /\ \A i \in DOMAIN raw : raw[i].unit = "digit"
      BY <2>1, <2>3, LengthReads
    <2> DEFINE n == [t EXCEPT !.expectedLen = LengthOf(raw), !.readingHeader = FALSE]
    <2>5. t.signatureRcvd /\ t.readingHeader
      BY <1>3
    <2>6. r = [t |-> n, ok |-> TRUE, tree |-> NoTree]
      BY <2>4, <2>5 DEF ParseWhole, ParseHeader, Parsed
    <2>7. /\ n \in Transports /\ SameWriting(t, n) /\ n.signatureRcvd = t.signatureRcvd
          /\ n.readingHeader = FALSE /\ n.expectedLen = l /\ n.recvRaw = t.recvRaw
          /\ n.known = t.known
      BY <2>3, <2>4 DEF Transports, SameWriting, SameProgress, SameEnd
    <2> HIDE DEF n, r
    <2>8. r.t = n /\ r.ok = TRUE /\ r.tree = NoTree
      BY <2>6
    <2>9. /\ next.stage = "body" /\ next.known = from.known /\ next.length = l
          /\ next.messages = from.messages
      BY <2>1 DEF Position
    <2>10. Reads(n, messages, next)
      <3>1. Len(n.recvRaw) < n.expectedLen
        BY <1>1, <2>3, <2>7
      <3> QED
        BY <1>3, <2>7, <2>9, <3>1 DEF Reads
    <2> QED
      BY <2>7, <2>8, <2>10 DEF r
  <1>4. CASE from.stage = "body" /\ PathPiece(from, raw, next)
    <2>1. PICK new \in Seq(Paths) :
             /\ raw = <<MsgType_Type>> \o PathUnits(new)
             /\ Numbered(from.known \o new)
             /\ next = Position("header", 0, from.known \o new, from.messages)
      BY <1>4 DEF PathPiece
    <2> DEFINE units == PathUnits(new)
               defs == [i \in DOMAIN units |-> units[i].of]
               known == from.known \o new
    <2>2. /\ units \in Data /\ Len(units) = Len(new)
          /\ \A i \in 1 .. Len(new) : units[i] = Unit("path", new[i])
      BY PathUnitsFacts
    <2>3. raw[1] = MsgType_Type /\ Tail(raw) = units
      <3> HIDE DEF units
      <3> QED
        BY <2>1, <2>2, MarkedData DEF units
    <2> HIDE DEF units
    <2>4. DOMAIN units = 1 .. Len(new) /\ DOMAIN new = 1 .. Len(new)
      BY <2>2 DEF Data
    <2>5. \A i \in DOMAIN units : units[i].unit = "path" /\ units[i].of = new[i]
      BY <2>2, <2>4 DEF Unit
    <2>6. defs = new
      <3>1. defs = [i \in 1 .. Len(new) |-> new[i]]
        BY <2>4, <2>5
      <3> QED
        BY <3>1
    <2> HIDE DEF defs
    <2>7. from.known \in Seq(Paths)
      BY DEF Positions
    <2>8. UpdatePathRegistryFromStream(t.known, defs) = Learned(known)
      BY <2>1, <2>6, <2>7, LearnedGrows
    <2> DEFINE n == [NextHeader(t) EXCEPT !.known = Learned(known)]
    <2>9. r = [t |-> n, ok |-> TRUE, tree |-> NoTree]
      <3>1. t.signatureRcvd /\ ~t.readingHeader
        BY <1>4
      <3>2. r = ParseData(t, raw)
        BY <3>1 DEF ParseWhole
      <3>3. r = ParsePathDefinition(t, units)
        <4>1. MsgType_Value # MsgType_Type
          BY DEF MsgType_Value, MsgType_Type, Unit
        <4> QED
          BY <2>3, <3>2, <4>1 DEF ParseData
      <3>4. ParsePathDefinition(t, units)
              = Parsed([NextHeader(t) EXCEPT !.known = UpdatePathRegistryFromStream(@, defs)],
                       TRUE, NoTree)
        BY <2>5 DEF ParsePathDefinition, defs
      <3>5. NextHeader(t).known = t.known
        BY DEF NextHeader, Transports
      <3>6. [NextHeader(t) EXCEPT !.known = UpdatePathRegistryFromStream(@, defs)] = n
        BY <2>8, <3>5
      <3> HIDE DEF n, r
      <3> QED
        BY <3>3, <3>4, <3>6 DEF Parsed
    <2>10. known \in Seq(Paths)
      BY <2>7, ConcatProperties
    <2> HIDE DEF known
    <2>11. /\ n \in Transports /\ SameWriting(t, n) /\ n.signatureRcvd = t.signatureRcvd
           /\ n.readingHeader = TRUE /\ n.expectedLen = 2 /\ n.recvRaw = t.recvRaw
           /\ n.known = Learned(known)
      BY <2>10 DEF NextHeader, Transports, SameWriting, SameProgress, SameEnd,
                   TRANSPORT_HEADER_LENGTH
    <2> HIDE DEF n, r
    <2>12. r.t = n /\ r.ok = TRUE /\ r.tree = NoTree
      BY <2>9
    <2>13. next.stage = "header" /\ next.known = known /\ next.messages = from.messages
           /\ Numbered(known)
      BY <2>1 DEF Position, known
    <2>14. Reads(n, messages, next)
      BY <1>1, <1>4, <2>11, <2>13 DEF Reads
    <2> QED
      BY <2>11, <2>12, <2>14 DEF r
  <1>5. CASE from.stage = "body" /\ ValuePiece(from, raw, next)
    <2>1. PICK m \in Messages, s \in Data :
             /\ raw = <<MsgType_Value>> \o s
             /\ Deserialize(s, Learned(from.known)) = Tree(m)
             /\ next = Position("header", 0, from.known, Append(from.messages, m))
      BY <1>5 DEF ValuePiece
    <2>2. raw[1] = MsgType_Value /\ Tail(raw) = s
      BY <2>1, MarkedData
    <2>3. MsgType_Value # MsgType_Type
      BY DEF MsgType_Value, MsgType_Type, Unit
    <2>4. Tree(m).type # "Corrupt"
      BY TreeReadsBack
    <2> DEFINE n == NextHeader(t)
    <2>5. r = [t |-> n, ok |-> TRUE, tree |-> Tree(m)]
      <3>1. t.signatureRcvd /\ ~t.readingHeader
        BY <1>5
      <3>2. r = ParseData(t, raw)
        BY <3>1 DEF ParseWhole
      <3>3. r = ParseBody(t, Deserialize(s, t.known))
        BY <2>2, <2>3, <3>2 DEF ParseData
      <3> QED
        BY <2>1, <2>4, <3>3 DEF ParseBody, Parsed
    <2>6. /\ n \in Transports /\ SameWriting(t, n) /\ n.signatureRcvd = t.signatureRcvd
          /\ n.readingHeader = TRUE /\ n.expectedLen = 2 /\ n.recvRaw = t.recvRaw
          /\ n.known = t.known
      BY DEF NextHeader, Transports, SameWriting, SameProgress, SameEnd, TRANSPORT_HEADER_LENGTH
    <2> HIDE DEF n, r
    <2>7. r.t = n /\ r.ok = TRUE /\ r.tree = Tree(m)
      BY <2>5
    <2>8. next.stage = "header" /\ next.known = from.known
          /\ next.messages = Append(from.messages, m)
      BY <2>1 DEF Position
    <2>9. Reads(n, Append(messages, m), next)
      BY <1>1, <1>5, <2>6, <2>8 DEF Reads
    <2> QED
      BY <2>6, <2>7, <2>9 DEF r
  <1>6. from.stage \in {"signature", "header", "body"}
    BY DEF Positions
  <1> QED
    BY <1>2, <1>3, <1>4, <1>5, <1>6 DEF Piece

\* Units that are read: the reader stays in step with the stream however it is cut.
LEMMA ReadUnitsKeeps ==
  ASSUME NEW t \in Transports, NEW from, NEW messages \in Seq(Messages),
         Reads(t, messages, from), NEW w \in Data, w # <<>>, NEW u \in Data, NEW to,
         Leads(from, t.recvRaw \o (w \o u), to)
  PROVE  LET n == Taken(t, w)
             rest == SubSeq(w, n + 1, Len(w))
             r == ReadUnits(t, SubSeq(w, 1, n))
         IN  /\ n \in 1 .. Len(w) /\ r.ok = TRUE /\ r.t \in Transports /\ SameWriting(t, r.t)
             /\ \E next \in Positions :
                  /\ Leads(next, r.t.recvRaw \o (rest \o u), to)
                  /\ \/ r.tree = NoTree /\ Reads(r.t, messages, next)
                     \/ \E m \in Messages : r.tree = Tree(m) /\ Reads(r.t, Append(messages, m), next)
  <1> DEFINE n == Taken(t, w)
             l == Len(w)
             k == Len(t.recvRaw)
             x == t.expectedLen
             units == SubSeq(w, 1, n)
             rest == SubSeq(w, n + 1, l)
             old == t.recvRaw
             raw == old \o units
             r == ReadUnits(t, units)
  <1>1. /\ l \in Nat \ {0} /\ k \in Nat /\ x \in Nat /\ k < x /\ old \in Data
    BY LenProperties, EmptySeq DEF Transports, Reads, Data
  <1>2. n = IF x - k <= l THEN x - k ELSE l
    <2> DEFINE a == x - k
    <2>1. a \in Int /\ l \in Int
      BY <1>1
    <2>2. n = Min({a, l})
      BY DEF Taken, Wanted
    <2> HIDE DEF a, l, n
    <2>3. n = IF a <= l THEN a ELSE l
      BY <2>1, <2>2, MinOfTwo
    <2> QED
      BY <2>3 DEF a
  <1> HIDE DEF n
  <1>3. n \in 1 .. l /\ n \in 0 .. Len(w) /\ k + n <= x
    BY <1>1, <1>2
  <1>4. units \in Data /\ Len(units) = n /\ rest \in Data /\ units \o rest = w
    BY <1>3, CutData
  <1> HIDE DEF l, units, rest
  <1>5. raw \in Data /\ Len(raw) = k + n
    BY <1>1, <1>4, ConcatData
  <1>6. old \o (w \o u) = raw \o (rest \o u) /\ rest \o u \in Data
    <2> HIDE DEF old
    <2> DEFINE b == rest \o u
    <2>1. b \in Data
      BY <1>4, ConcatData
    <2>2. (units \o rest) \o u = units \o b
      BY <1>4, DataAssociative
    <2> HIDE DEF b
    <2>3. (old \o units) \o b = old \o (units \o b)
      <3>1. old \in Data /\ units \in Data /\ b \in Data
        BY <1>1, <1>4, <2>1
      <3> HIDE DEF units
      <3> QED
        BY <3>1, DataAssociative
    <2> QED
      BY <1>4, <2>1, <2>2, <2>3 DEF b
  <1>7. Leads(from, raw \o (rest \o u), to)
    BY <1>6
  <1> HIDE DEF raw, r
  <1>8. CASE k + n < x
    <2> DEFINE y == [t EXCEPT !.recvRaw = raw]
    <2>1. r = [t |-> y, ok |-> TRUE, tree |-> NoTree]
      <3>1. Len(t.recvRaw) + Len(units) < t.expectedLen
        BY <1>4, <1>8
      <3> QED
        BY <3>1 DEF r, ReadUnits, Parsed, raw
    <2>2. /\ y \in Transports /\ SameWriting(t, y) /\ y.recvRaw = raw
          /\ y.signatureRcvd = t.signatureRcvd /\ y.readingHeader = t.readingHeader
          /\ y.expectedLen = t.expectedLen /\ y.known = t.known
      BY <1>5 DEF Transports, SameWriting, SameProgress, SameEnd
    <2> HIDE DEF y
    <2>3. r.t = y /\ r.ok = TRUE /\ r.tree = NoTree
      BY <2>1
    <2>4. Len(y.recvRaw) < y.expectedLen
      BY <1>5, <1>8, <2>2
    <2>5. Reads(y, messages, from) /\ from \in Positions
      BY <2>2, <2>4 DEF Reads
    <2> QED
      BY <1>3, <1>7, <2>2, <2>3, <2>5 DEF n, l, units, rest, r
  <1>9. CASE ~(k + n < x)
    <2> DEFINE y == [t EXCEPT !.recvRaw = <<>>]
    <2>1. Len(raw) = x
      BY <1>1, <1>3, <1>5, <1>9
    <2>2. r = ParseWhole(y, raw)
      <3>1. ~(Len(t.recvRaw) + Len(units) < t.expectedLen)
        BY <1>4, <1>9
      <3> QED
        BY <3>1 DEF r, ReadUnits, raw
    <2>3. /\ y \in Transports /\ SameWriting(t, y) /\ y.recvRaw = <<>>
          /\ y.signatureRcvd = t.signatureRcvd /\ y.readingHeader = t.readingHeader
          /\ y.known = t.known
      BY NothingIsData DEF Transports, SameWriting, SameProgress, SameEnd
    <2> HIDE DEF y
    <2> DEFINE all == raw \o (rest \o u)
               b == rest \o u
    <2>4. all # <<>>
      <3>1. b \in Data
        BY <1>6
      <3> HIDE DEF b
      <3>2. Len(raw \o b) = Len(raw) + Len(b) /\ Len(b) \in Nat
        BY <1>5, <3>1, ConcatData, LenProperties DEF Data
      <3>3. Len(raw \o b) # 0
        BY <1>1, <2>1, <3>2
      <3> QED
        BY <3>3 DEF b
    <2>5. PICK d, v \in Data, next \in Positions :
             all = d \o v /\ Piece(from, d, next) /\ Leads(next, v, to)
      BY <1>7, <2>4, LeadsFirst
    <2>6. Len(d) = x
      <3>1. CASE from.stage = "signature"
        BY <2>5, <3>1, SignatureFacts DEF Piece, Reads
      <3>2. CASE from.stage = "header"
        <4>1. PICK i \in 1 .. Base - 1 : d = LengthUnits(i)
          BY <2>5, <3>2 DEF Piece
        <4>2. Base \in Nat
          BY TransportAssumption DEF Base
        <4>3. i \in Nat /\ i < Base
          BY <4>2
        <4>4. Len(d) = 2
          BY <4>1, <4>3, LengthReads
        <4> QED
          BY <3>2, <4>4 DEF Reads
      <3>3. CASE from.stage = "body"
        BY <2>5, <3>3 DEF Piece, Reads
      <3>4. from.stage \in {"signature", "header", "body"}
        BY DEF Reads, Positions
      <3> QED
        BY <3>1, <3>2, <3>3, <3>4
    <2>7. d = raw /\ v = rest \o u
      <3>1. raw \o b = d \o v /\ b \in Data /\ Len(raw) = Len(d)
        BY <1>6, <2>1, <2>5, <2>6
      <3> HIDE DEF b
      <3>2. raw = d /\ b = v
        BY <1>5, <2>5, <3>1, SameCut
      <3> QED
        BY <3>2 DEF b
    <2>8. Piece(from, raw, next) /\ Leads(next, rest \o u, to)
      BY <2>5, <2>7
    <2>9. /\ r.ok = TRUE /\ r.t \in Transports /\ SameWriting(y, r.t)
          /\ \/ r.tree = NoTree /\ Reads(r.t, messages, next)
             \/ \E m \in Messages : r.tree = Tree(m) /\ Reads(r.t, Append(messages, m), next)
      <3>1. /\ from \in Positions /\ from.messages = messages
            /\ Numbered(from.known) /\ y.known = Learned(from.known)
            /\ y.signatureRcvd = (from.stage # "signature")
            /\ y.readingHeader = (from.stage # "body") /\ y.recvRaw = <<>>
        BY <2>3 DEF Reads
      <3> QED
        BY <1>5, <2>2, <2>3, <2>5, <2>8, <3>1, ParseWholePiece
    <2>10. r.t.recvRaw = <<>>
      <3> DEFINE h == NextHeader(y)
      <3>1. h.recvRaw = <<>> /\ [h EXCEPT !.signatureRcvd = TRUE].recvRaw = <<>>
            /\ (\A z : [y EXCEPT !.expectedLen = z, !.readingHeader = FALSE].recvRaw = <<>>)
            /\ (\A z : [h EXCEPT !.known = z].recvRaw = <<>>)
        BY <2>3 DEF NextHeader, Transports
      <3> QED
        BY <2>2, <2>3, <3>1 DEF ParseWhole, RecvSignature, ParseHeader, ParseData,
             ParsePathDefinition, ParseBody, Parsed
    <2>11. SameWriting(t, r.t)
      BY <2>3, <2>9 DEF SameWriting, SameProgress, SameEnd
    <2>12. <<>> \o (rest \o u) = rest \o u
      BY <1>6, DataAndNothing
    <2>13. Leads(next, r.t.recvRaw \o (rest \o u), to)
      BY <2>8, <2>10, <2>12
    <2> QED
      BY <1>3, <2>5, <2>9, <2>11, <2>13 DEF n, l, units, rest, r
  <1> QED
    BY <1>8, <1>9 DEF n, l, units, rest, r, raw

-----------------------------------------------------------------------------
(* What an action may do to the end that takes it.                         *)

Effect(e, x, y) ==
  /\ EndOK(e, y) /\ SameReader(x.t, y.t)
  /\ x.t.open
  /\ y.n.tm => y.t.registry.defs # <<>>
  /\ \/ y.accepted = x.accepted
     \/ ~HasDisconnect(x.accepted) /\ \E m \in Sendable(e) : y.accepted = Append(x.accepted, m)
  /\ lost => y.wire = x.wire
  /\ y.crashed # x.crashed =>
       lost /\ (x.n.state = "Init" \/ y.n.endSent \/ Len(x.n.sendQueue) >= 2)
  /\ \A pre \in Data, from \in Positions : ~lost /\ OutOK(x, pre, from) => OutOK(y, pre, from)

\* Only the application's part of the session differs.
SameButApplication(x, y) ==
  /\ y.t = x.t /\ y.wire = x.wire /\ y.accepted = x.accepted /\ y.crashed = x.crashed
  /\ y.n.sendQueue = x.n.sendQueue /\ y.n.endSent = x.n.endSent /\ y.n.released = x.n.released

\* A session whose queue is the same keeps its end consistent.
LEMMA ApplicationKeeps ==
  ASSUME NEW e \in Ends, NEW x, EndOK(e, x), NEW k \in SessionRecords(e),
         k.sendQueue = x.n.sendQueue, k.endSent = x.n.endSent, k.released = x.n.released
  PROVE  LET y == [x EXCEPT !.n = k]
         IN  EndOK(e, y) /\ SameButApplication(x, y) /\ y.n = k
  <1> DEFINE y == [x EXCEPT !.n = k]
  <1>1. x \in EndRecords(e)
    BY DEF EndOK, EndBase
  <1>2. /\ y.t = x.t /\ y.n = k /\ y.wire = x.wire /\ y.accepted = x.accepted
        /\ y.crashed = x.crashed /\ y \in EndRecords(e)
    BY <1>1 DEF EndRecords
  <1> HIDE DEF y
  <1>3. EndOK(e, y)
    BY <1>2 DEF EndOK, EndBase, Sender
  <1>4. SameButApplication(x, y)
    BY <1>2 DEF SameButApplication
  <1> QED
    BY <1>2, <1>3, <1>4 DEF y

\* What is on its way does not depend on the rest of the session.
LEMMA SameOut ==
  ASSUME NEW x, NEW y, SameButApplication(x, y), NEW pre, NEW from, OutOK(x, pre, from)
  PROVE  OutOK(y, pre, from)
  BY DEF SameButApplication, OutOK, Sender

\* An application that changes its part of the session, and no more.
LEMMA NoEffect ==
  ASSUME NEW e \in Ends, NEW x, NEW y, EndOK(e, y), SameButApplication(x, y), x.t.open,
         y.n.tm => y.t.registry.defs # <<>>
  PROVE  Effect(e, x, y)
  <1>1. \A pre \in Data, from \in Positions : OutOK(x, pre, from) => OutOK(y, pre, from)
    BY SameOut
  <1> QED
    BY <1>1 DEF Effect, SameButApplication, SameReader

\* A change of the application's part before or after an effect.
LEMMA EffectBefore ==
  ASSUME NEW e \in Ends, NEW x, NEW y, NEW z, SameButApplication(x, y), Effect(e, y, z),
         y.n.state = "Init" => x.n.state = "Init"
  PROVE  Effect(e, x, z)
  <1>1. ASSUME NEW pre \in Data, NEW from \in Positions, ~lost, OutOK(x, pre, from)
        PROVE  OutOK(z, pre, from)
    <2>1. OutOK(y, pre, from)
      BY <1>1, SameOut
    <2> QED
      BY <1>1, <2>1 DEF Effect
  <1> QED
    BY <1>1 DEF Effect, SameButApplication

\* An effect, and then a change of the application.
LEMMA EffectAfter ==
  ASSUME NEW e \in Ends, NEW x, NEW y, NEW z, Effect(e, x, y), SameButApplication(y, z),
         EndOK(e, z), z.n.tm = y.n.tm
  PROVE  Effect(e, x, z)
  <1>1. ASSUME NEW pre \in Data, NEW from \in Positions, ~lost, OutOK(x, pre, from)
        PROVE  OutOK(z, pre, from)
    <2>1. OutOK(y, pre, from)
      BY <1>1 DEF Effect
    <2> QED
      BY <2>1, SameOut
  <1> QED
    BY <1>1 DEF Effect, SameButApplication

\* sendMsg.
LEMMA SendEffect ==
  ASSUME NEW e \in Ends, NEW x, EndOK(e, x), x.t.open, NEW m \in Sendable(e),
         x.n.tm => x.t.registry.defs # <<>>
                     \/ (m \in HellosOf(e) /\ x.n.sendQueue = <<>> /\ ~x.n.endSent)
  PROVE  LET y == SendMsg(x, m)
         IN  /\ Effect(e, x, y) /\ SameApplication(x.n, y.n)
             /\ y.n.tm => x.n.tm
             /\ y.accepted = x.accepted \/ (x.n.tm /\ y.accepted = Append(x.accepted, m))
             /\ ~lost => y.n.tm = x.n.tm
             /\ ~lost /\ x.n.tm /\ ~x.n.endSent => y.accepted = Append(x.accepted, m)
  <1> DEFINE y == SendMsg(x, m)
  <1>1. x.n.tm => x.t.open /\ MaySend(e, x, m)
    BY DEF MaySend
  <1>2. /\ EndOK(e, y) /\ SameReader(x.t, y.t) /\ SameApplication(x.n, y.n)
        /\ \/ y.accepted = x.accepted
           \/ x.n.tm /\ ~x.n.endSent /\ y.accepted = Append(x.accepted, m)
        /\ ~lost => /\ y.crashed = x.crashed /\ y.n.tm = x.n.tm
                    /\ y.n.released = x.n.released
                    /\ x.n.tm /\ ~x.n.endSent => y.accepted = Append(x.accepted, m)
                    /\ y.t.open \/ ~x.t.open \/ m.type = "Disconnect"
        /\ y.crashed # x.crashed => lost /\ y.n.endSent
        /\ lost => y.wire = x.wire
        /\ y.n.tm /\ (x.t.registry.defs # <<>> \/ (x.n.sendQueue = <<>> /\ ~x.n.endSent))
             => y.t.registry.defs # <<>>
        /\ y.n.tm => x.n.tm
        /\ \A pre \in Data, from \in Positions :
             ~lost /\ OutOK(x, pre, from) => OutOK(y, pre, from)
    BY <1>1, SendMsgKeeps
  <1> HIDE DEF y
  <1>3. y.n.tm => y.t.registry.defs # <<>>
    BY <1>2
  <1>4. ~x.n.endSent => ~HasDisconnect(x.accepted)
    BY DEF EndOK
  <1>5. Effect(e, x, y)
    BY <1>2, <1>3, <1>4 DEF Effect
  <1> QED
    BY <1>2, <1>5 DEF y

\* The application closes the connection.
LEMMA ReleaseEffect ==
  ASSUME NEW e \in Ends, NEW x, EndOK(e, x), x.t.open, x.n.tm => x.t.registry.defs # <<>>
  PROVE  /\ Effect(e, x, Release(x)) /\ SameApplication(x.n, Release(x).n)
         /\ Release(x).accepted = x.accepted
  <1> DEFINE y == Release(x)
  <1>1. /\ EndOK(e, y) /\ SameReader(x.t, y.t) /\ SameApplication(x.n, y.n)
        /\ SameWriter(x, y) /\ y.crashed = x.crashed /\ y.n.tm = x.n.tm
        /\ \A pre \in Data, from \in Positions : OutOK(x, pre, from) => OutOK(y, pre, from)
    BY ReleaseKeeps
  <1> HIDE DEF y
  <1>2. Effect(e, x, y)
    BY <1>1 DEF Effect, SameWriter, SameProgress
  <1> QED
    BY <1>1, <1>2 DEF y, SameWriter

\* HandleConnectionReset.
LEMMA ResetEffect ==
  ASSUME NEW e \in Ends, NEW x, EndOK(e, x), x.t.open
  PROVE  /\ Effect(e, x, HandleConnectionReset(x))
         /\ SameApplication(x.n, HandleConnectionReset(x).n)
         /\ HandleConnectionReset(x).accepted = x.accepted
  <1> DEFINE y == HandleConnectionReset(x)
  <1>1. /\ EndOK(e, y) /\ SameReader(x.t, y.t) /\ SameApplication(x.n, y.n)
        /\ SameWriter(x, y) /\ y.crashed = x.crashed /\ y.n.tm = FALSE
        /\ \A pre \in Data, from \in Positions : OutOK(x, pre, from) => OutOK(y, pre, from)
    BY ResetKeeps
  <1> HIDE DEF y
  <1>2. Effect(e, x, y)
    BY <1>1 DEF Effect, SameWriter
  <1> QED
    BY <1>1, <1>2 DEF y, SameWriter

\* HandleFDWrite.
LEMMA WrittenEffect ==
  ASSUME NEW e \in Ends, NEW x, EndOK(e, x), x.n.tm, x.t.open, x.t.registry.defs # <<>>
  PROVE  /\ Effect(e, x, Written(x)) /\ SameApplication(x.n, Written(x).n)
         /\ Written(x).accepted = x.accepted
  <1> DEFINE y == Written(x)
  <1>1. /\ EndOK(e, y) /\ SameReader(x.t, y.t) /\ SameApplication(x.n, y.n)
        /\ y.accepted = x.accepted
        /\ y.t.registry.defs # <<>>
        /\ lost => y.wire = x.wire
        /\ y.crashed # x.crashed => lost /\ (y.n.endSent \/ Len(x.n.sendQueue) >= 2)
        /\ \A pre \in Data, from \in Positions :
             ~lost /\ OutOK(x, pre, from) => OutOK(y, pre, from)
    BY WrittenKeeps
  <1> HIDE DEF y
  <1>2. Effect(e, x, y)
    BY <1>1 DEF Effect
  <1> QED
    BY <1>1, <1>2 DEF y
=============================================================================
