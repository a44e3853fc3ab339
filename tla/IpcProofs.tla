------------------------------ MODULE IpcProofs -----------------------------
(***************************************************************************)
(* The control socket keeps its streams whole, answers every line once and *)
(* in order, and forgets no change, for any number of clients, any limits  *)
(* and any scenario.                                                       *)
(*                                                                         *)
(* A world is the record of the variables that the operators work on.  In  *)
(* the middle of a handler the connection that is served may have failed:  *)
(* what goes over it need not be whole then, since it is dropped before    *)
(* the handler ends.                                                       *)
(***************************************************************************)
EXTENDS IpcProperties, DataProofs, SequenceTheorems

Bytes == [newline : {FALSE}] \cup [newline : {TRUE}, says : around.requests]

Connections ==
  [state : {"none", "waiting", "open", "failed", "gone"}, hangup : BOOLEAN, wire : Seq(Bytes),
   input : 0..MaxLine, output : Seq(Units), socket : Seq(Units), subscribed : BOOLEAN,
   events : SUBSET Events]

Servers ==
  [now : State, snapshot : State, idle : BOOLEAN, locked : BOOLEAN, exclusive : BOOLEAN,
   clients : SUBSET Clients, count : Nat]

Histories ==
  [asked : [Clients -> Nat], answered : [Clients -> Nat], heard : [Clients -> {NONE} \cup Units],
   told : [Clients -> State], changes : Nat, commands : Nat, locks : Nat]

Worlds == [server : Servers, client : [Clients -> Connections], history : Histories]

\* What waits for the client, and the places of the newlines in what waits for the server.
Pending(k) == k.socket \o k.output
Newlines(w) == {i \in DOMAIN w : w[i].newline}

\* A line ends at each newline, and is as long as the request says: the one that the
\* server is reading has begun in its buffer.
Lined(w, input) ==
  /\ w = <<>> => input = 0
  /\ w # <<>> => w[Len(w)].newline
  /\ \A j \in DOMAIN w : w[j].newline =>
       \/ w[j].says.length = input + j - 1 /\ \A i \in 1 .. j - 1 : ~w[i].newline
       \/ \E i \in 1 .. j - 1 : /\ w[i].newline /\ w[j].says.length = j - i - 1
                               /\ \A l \in i + 1 .. j - 1 : ~w[l].newline

\* The lines of a client that are neither answered nor refused are those on its wire.
Asked(k, asked, answered) ==
  /\ asked \in 0 .. around.sent /\ answered \in 0 .. asked
  /\ k.state = "none" => k.wire = <<>> /\ k.input = 0 /\ asked = 0
  /\ k.state \in {"waiting", "open"} =>
       Lined(k.wire, k.input) /\ answered + Cardinality(Newlines(k.wire)) = asked

\* Texts and newlines alternate, and the last message is whole.
Follows(before, unit) ==
  IF unit.part = "text" THEN before.part = "end" ELSE before = [unit EXCEPT !.part = "text"]
Framed(q) ==
  /\ \A i \in 2 .. Len(q) : Follows(q[i - 1], q[i])
  /\ q # <<>> => q[Len(q)].part = "end"
FramedAfter(heard, q) == Framed((IF heard = NONE THEN <<>> ELSE <<heard>>) \o q)

\* The replies that wait are earned, and numbered in order up to the last one given.
IsReply(u) == u.part = "text" /\ u.message.kind = "reply"
Earned(m) == m.to.length <= MaxLine /\ (m.ok => m.to.verb \in {"get", "subscribe", "set"})
Numbered(q, answered) ==
  /\ \A i \in DOMAIN q : IsReply(q[i]) => q[i].message.n <= answered /\ Earned(q[i].message)
  /\ \A i, j \in DOMAIN q :
       IsReply(q[i]) /\ IsReply(q[j]) /\ i < j => q[i].message.n < q[j].message.n

\* Who has an event is a subscriber, and what it was told last of a field is what the
\* server thinks it published.  Who is not served yet has no events.
Truthful(k, told, published) ==
  /\ k.state = "open" =>
       \A f \in Fields : EventOf(f) \in k.events =>
         k.subscribed /\ (published[f] # NONE => told[f] = published[f])
  /\ k.state \in {"none", "waiting"} => k.events = {}

\* One client, with what was said to it.
Kept(k, asked, answered, heard) ==
  /\ Len(k.output) <= MaxOutput /\ Len(k.socket) <= Room
  /\ Asked(k, asked, answered)
  /\ k.state \notin {"failed", "gone"} =>
       FramedAfter(heard, Pending(k)) /\ Numbered(Pending(k), answered)

AllKept(s) ==
  \A c \in Clients : Kept(s.client[c], s.history.asked[c], s.history.answered[c], s.history.heard[c])
AllTold(s, published) == \A c \in Clients : Truthful(s.client[c], s.history.told[c], published)

Counted(s) ==
  /\ s.server.count = Cardinality(s.server.clients) /\ s.server.count <= MaxClients
  /\ s.server.clients = {c \in Clients : s.client[c].state \in {"open", "failed"}}
NoneFailed(s) == \A c \in Clients : ~Failed(s, c)

\* What is published is what there is, unless a reconciliation is due or cannot be.
Published(s) ==
  s.server.idle \/ s.server.locked \/ s.server.exclusive \/ s.server.now = s.server.snapshot

Steady(s) == s \in Worlds /\ AllKept(s) /\ Counted(s)
Sound(s) == Steady(s) /\ AllTold(s, s.server.snapshot)

IInv ==
  /\ around \in Scenarios
  /\ Sound(Whole) /\ NoneFailed(Whole) /\ Published(Whole)
  /\ history.changes <= around.changes /\ history.locks <= around.locks

-----------------------------------------------------------------------------
(* Sequences of units.                                                     *)

\* The two units that a message adds.
Text(m) == [message |-> m, part |-> "text"]
End(m) == [message |-> m, part |-> "end"]

\* The units of a message, and nothing else about them, are typed.
LEMMA UnitsOfMessage ==
  ASSUME NEW m \in Message
  PROVE  /\ Text(m) \in Units /\ End(m) \in Units
         /\ Text(m).part = "text" /\ End(m).part = "end" /\ Text(m).message = m
         /\ [End(m) EXCEPT !.part = "text"] = Text(m)
<1> DEFINE M == Message
<1>1. m \in M
  OBVIOUS
<1> HIDE DEF M
<1>2. Units = [message : M, part : {"text", "end"}]
  BY DEF Units, M
<1> QED
  BY <1>1, <1>2 DEF Text, End

\* Where the units of a sequence are after two more.
LEMMA TwoMore ==
  ASSUME NEW V, NEW q \in Seq(V), NEW t \in V, NEW e \in V
  PROVE  LET z == Append(Append(q, t), e)
         IN /\ z \in Seq(V) /\ Len(q) \in Nat /\ Len(z) = Len(q) + 2 /\ DOMAIN z = 1 .. Len(q) + 2
            /\ DOMAIN q = 1 .. Len(q)
            /\ \A i \in 1 .. Len(q) : z[i] = q[i]
            /\ z[Len(q) + 1] = t /\ z[Len(q) + 2] = e
<1> DEFINE y == Append(q, t)
           z == Append(y, e)
<1>1. y \in Seq(V) /\ Len(y) = Len(q) + 1 /\ y[Len(q) + 1] = t /\ \A i \in 1 .. Len(q) : y[i] = q[i]
  BY AppendProperties
<1>2. Len(q) \in Nat /\ DOMAIN q = 1 .. Len(q)
  BY LenProperties
<1> HIDE DEF y
<1>3. z \in Seq(V) /\ Len(z) = Len(y) + 1 /\ z[Len(y) + 1] = e /\ \A i \in 1 .. Len(y) : z[i] = y[i]
  BY <1>1, AppendProperties
<1>4. DOMAIN z = 1 .. Len(z)
  BY <1>3, LenProperties
<1> HIDE DEF z
<1>5. \A i \in 1 .. Len(q) : z[i] = q[i]
  BY <1>1, <1>2, <1>3
<1>6. z[Len(q) + 1] = t
  BY <1>1, <1>2, <1>3
<1>7. Len(z) = Len(q) + 2 /\ z[Len(q) + 2] = e
  BY <1>1, <1>2, <1>3
<1>8. /\ z \in Seq(V) /\ Len(q) \in Nat /\ Len(z) = Len(q) + 2 /\ DOMAIN z = 1 .. Len(q) + 2
      /\ DOMAIN q = 1 .. Len(q)
      /\ \A i \in 1 .. Len(q) : z[i] = q[i]
      /\ z[Len(q) + 1] = t /\ z[Len(q) + 2] = e
  BY <1>2, <1>3, <1>4, <1>5, <1>6, <1>7
<1> QED
  BY <1>8 DEF y, z

\* A whole message keeps a stream whole.
LEMMA FramedMore ==
  ASSUME NEW q \in Seq(Units), NEW m \in Message, Framed(q)
  PROVE  Framed(Append(Append(q, Text(m)), End(m)))
<1> DEFINE t == Text(m)
           e == End(m)
           z == Append(Append(q, t), e)
<1>1. t \in Units /\ e \in Units /\ t.part = "text" /\ e.part = "end" /\ [e EXCEPT !.part = "text"] = t
  BY UnitsOfMessage
<1> HIDE DEF t, e
<1>2. /\ Len(q) \in Nat /\ Len(z) = Len(q) + 2
      /\ \A i \in 1 .. Len(q) : z[i] = q[i]
      /\ z[Len(q) + 1] = t /\ z[Len(q) + 2] = e
  BY <1>1, TwoMore
<1> HIDE DEF z
<1>3. ASSUME NEW i \in 2 .. Len(z) PROVE Follows(z[i - 1], z[i])
  <2>1. CASE i <= Len(q)
    <3>1. i \in 2 .. Len(q) /\ i \in 1 .. Len(q) /\ i - 1 \in 1 .. Len(q)
      BY <1>2, <2>1
    <3>2. Follows(q[i - 1], q[i])
      BY <3>1 DEF Framed
    <3> QED
      BY <1>2, <3>1, <3>2
  <2>2. CASE i = Len(q) + 1
    <3>1. Len(q) \in 1 .. Len(q) /\ q # <<>> /\ i - 1 = Len(q)
      BY <1>2, <2>2
    <3>2. q[Len(q)].part = "end"
      BY <3>1 DEF Framed
    <3>3. z[i - 1] = q[Len(q)] /\ z[i] = t
      BY <1>2, <2>2, <3>1
    <3> QED
      BY <1>1, <3>2, <3>3 DEF Follows
  <2>3. CASE i = Len(q) + 2
    <3>1. z[i - 1] = t /\ z[i] = e
      BY <1>2, <2>3
    <3> QED
      BY <1>1, <3>1 DEF Follows
  <2> QED
    BY <1>2, <2>1, <2>2, <2>3
<1>4. z[Len(z)].part = "end"
  BY <1>1, <1>2
<1>5. Framed(z)
  BY <1>3, <1>4 DEF Framed
<1> QED
  BY <1>5 DEF z, t, e

\* What is left of a whole stream is whole.
LEMMA FramedTail ==
  ASSUME NEW q \in Seq(Units), q # <<>>, Framed(q)
  PROVE  Framed(Tail(q))
<1> DEFINE z == Tail(q)
<1>1. Len(q) \in Nat \ {0} /\ Len(z) = Len(q) - 1 /\ z \in Seq(Units)
  BY HeadTailProperties, EmptySeq
<1>2. \A i \in 1 .. Len(z) : z[i] = q[i + 1]
  BY HeadTailProperties
<1>3. z # <<>> => Len(z) \in Nat \ {0}
  BY <1>1, EmptySeq
<1> HIDE DEF z
<1>4. ASSUME NEW i \in 2 .. Len(z) PROVE Follows(z[i - 1], z[i])
  <2>1. i \in 1 .. Len(z) /\ i - 1 \in 1 .. Len(z) /\ i + 1 \in 2 .. Len(q) /\ (i + 1) - 1 = (i - 1) + 1
    BY <1>1
  <2>2. Follows(q[(i + 1) - 1], q[i + 1])
    BY <2>1 DEF Framed
  <2>3. z[i] = q[i + 1] /\ z[i - 1] = q[(i + 1) - 1]
    BY <1>2, <2>1
  <2> QED
    BY <2>2, <2>3
<1>5. z # <<>> => z[Len(z)].part = "end"
  <2>1. q[Len(q)].part = "end"
    BY DEF Framed
  <2>2. z # <<>> => Len(z) \in 1 .. Len(z) /\ Len(z) + 1 = Len(q)
    BY <1>1, <1>3
  <2> QED
    BY <1>2, <2>1, <2>2
<1>6. Framed(z)
  BY <1>4, <1>5 DEF Framed
<1> QED
  BY <1>6 DEF z

\* The unit that the client has read comes before those that wait.
LEMMA FramedAfterMore ==
  ASSUME NEW q \in Seq(Units), NEW m \in Message, NEW h \in {NONE} \cup Units, FramedAfter(h, q)
  PROVE  FramedAfter(h, Append(Append(q, Text(m)), End(m)))
<1> DEFINE t == Text(m)
           e == End(m)
           p == IF h = NONE THEN <<>> ELSE <<h>>
<1>1. t \in Units /\ e \in Units
  BY UnitsOfMessage
<1>2. p \in Seq(Units)
  OBVIOUS
<1>3. Framed(p \o q)
  BY DEF FramedAfter
<1> HIDE DEF p
<1>4. p \o q \in Seq(Units)
  BY <1>2, ConcatProperties
<1>5. Framed(Append(Append(p \o q, Text(m)), End(m)))
  BY <1>3, <1>4, FramedMore
<1> HIDE DEF t, e
<1>6. Append(Append(p \o q, t), e) = p \o Append(Append(q, t), e)
  <2>1. q \o <<t>> = Append(q, t) /\ Append(q, t) \in Seq(Units)
    BY <1>1, AppendIsConcat, AppendProperties
  <2>2. Append(q, t) \o <<e>> = Append(Append(q, t), e)
    BY <1>1, <2>1, AppendIsConcat
  <2>3. Append(p \o q, t) = (p \o q) \o <<t>> /\ Append(p \o q, t) \in Seq(Units)
    BY <1>1, <1>4, AppendIsConcat, AppendProperties
  <2>4. Append(Append(p \o q, t), e) = Append(p \o q, t) \o <<e>>
    BY <1>1, <2>3, AppendIsConcat
  <2> DEFINE tt == <<t>>
             ee == <<e>>
             qt == Append(q, t)
  <2>5. tt \in Seq(Units) /\ ee \in Seq(Units) /\ qt \in Seq(Units)
    BY <1>1, <2>1
  <2>6. (p \o q) \o tt = p \o qt
    <3>1. (p \o q) \o tt = p \o (q \o tt)
      <4> HIDE DEF tt
      <4> QED
        BY <1>2, <2>5, ConcatAssociative, SMTT(60)
    <3> QED
      BY <2>1, <3>1
  <2>7. (p \o qt) \o ee = p \o (qt \o ee)
    <3> HIDE DEF ee, qt
    <3> QED
      BY <1>2, <2>5, ConcatAssociative, SMTT(60)
  <2> QED
    BY <2>2, <2>3, <2>4, <2>6, <2>7
<1>7. Framed(p \o Append(Append(q, t), e))
  BY <1>5, <1>6 DEF t, e
<1>8. FramedAfter(h, Append(Append(q, t), e))
  BY <1>7 DEF FramedAfter, p
<1> QED
  BY <1>8 DEF t, e

\* A client that reads a unit takes it from the head of the stream.
LEMMA FramedAfterTail ==
  ASSUME NEW q \in Seq(Units), q # <<>>, NEW h \in {NONE} \cup Units, FramedAfter(h, q)
  PROVE  FramedAfter(Head(q), Tail(q))
<1>1. Framed(q)
  <2>1. CASE h = NONE
    <3>1. <<>> \o q = q
      BY ConcatEmptySeq
    <3> QED
      BY <2>1, <3>1 DEF FramedAfter
  <2>2. CASE h # NONE
    <3> DEFINE z == <<h>> \o q
    <3>1. Framed(z)
      BY <2>2 DEF FramedAfter
    <3>2. <<h>> \in Seq(Units) /\ Len(<<h>>) = 1
      BY <2>2
    <3>3. z \in Seq(Units) /\ Len(z) = 1 + Len(q) /\ Len(q) \in Nat
          /\ \A i \in 1 .. 1 + Len(q) : z[i] = IF i <= 1 THEN <<h>>[i] ELSE q[i - 1]
      BY <3>2, ConcatProperties, LenProperties
    <3> HIDE DEF z
    <3>4. z # <<>>
      BY <3>3, EmptySeq
    <3>5. Tail(z) \in Seq(Units) /\ Len(Tail(z)) = Len(z) - 1
          /\ \A i \in 1 .. Len(Tail(z)) : Tail(z)[i] = z[i + 1]
      BY <3>3, <3>4, HeadTailProperties
    <3>6. Tail(z) = q
      <4>1. Len(Tail(z)) = Len(q)
        BY <3>3, <3>5
      <4>2. ASSUME NEW i \in 1 .. Len(Tail(z)) PROVE Tail(z)[i] = q[i]
        <5>1. i + 1 \in 1 .. 1 + Len(q) /\ ~(i + 1 <= 1) /\ (i + 1) - 1 = i
          BY <3>3, <4>1
        <5> QED
          BY <3>3, <3>5, <5>1
      <4> QED
        BY <3>5, <4>1, <4>2, SeqEqual
    <3> QED
      BY <3>1, <3>3, <3>4, <3>6, FramedTail
  <2> QED
    BY <2>1, <2>2
<1>2. Tail(q) \in Seq(Units) /\ Head(q) \in Units
  BY HeadTailProperties
<1>3. CASE Head(q) = NONE
  <2>1. <<>> \o Tail(q) = Tail(q)
    BY <1>2, ConcatEmptySeq
  <2>2. Framed(Tail(q))
    BY <1>1, FramedTail
  <2> QED
    BY <1>3, <2>1, <2>2 DEF FramedAfter
<1>4. CASE Head(q) # NONE
  <2>1. <<Head(q)>> \o Tail(q) = q
    <3> DEFINE z == <<Head(q)>> \o Tail(q)
    <3>1. <<Head(q)>> \in Seq(Units) /\ Len(<<Head(q)>>) = 1 /\ <<Head(q)>>[1] = q[1]
      BY <1>2
    <3>2. z \in Seq(Units) /\ Len(z) = 1 + Len(Tail(q))
          /\ \A i \in 1 .. 1 + Len(Tail(q)) : z[i] = IF i <= 1 THEN <<Head(q)>>[i] ELSE Tail(q)[i - 1]
      BY <1>2, <3>1, ConcatProperties
    <3>3. Len(q) \in Nat \ {0} /\ Len(Tail(q)) = Len(q) - 1
          /\ \A i \in 1 .. Len(Tail(q)) : Tail(q)[i] = q[i + 1]
      BY HeadTailProperties, EmptySeq
    <3> HIDE DEF z
    <3>4. Len(z) = Len(q)
      BY <3>2, <3>3
    <3>5. ASSUME NEW i \in 1 .. Len(z) PROVE z[i] = q[i]
      <4>1. CASE i = 1
        BY <3>1, <3>2, <3>3, <4>1
      <4>2. CASE i # 1
        <5>1. i \in 1 .. 1 + Len(Tail(q)) /\ ~(i <= 1) /\ i - 1 \in 1 .. Len(Tail(q)) /\ (i - 1) + 1 = i
          BY <3>3, <3>4, <4>2
        <5> QED
          BY <3>2, <3>3, <5>1
      <4> QED
        BY <4>1, <4>2
    <3>6. z = q
      BY <3>2, <3>4, <3>5, SeqEqual
    <3> QED
      BY <3>6 DEF z
  <2> QED
    BY <1>1, <1>4, <2>1 DEF FramedAfter
<1> QED
  BY <1>3, <1>4

\* A reply that is earned, with the next number, keeps the order of the replies.
LEMMA NumberedMore ==
  ASSUME NEW q \in Seq(Units), NEW m \in Message, NEW b \in Nat, NEW a \in Nat, b <= a,
         Numbered(q, b), m.kind = "reply" => m.n = a /\ b < a /\ Earned(m),
         \A u \in Units : IsReply(u) => u.message.n \in Nat
  PROVE  Numbered(Append(Append(q, Text(m)), End(m)), a)
<1> DEFINE t == Text(m)
           e == End(m)
           z == Append(Append(q, t), e)
<1>1. t \in Units /\ e \in Units /\ t.part = "text" /\ e.part = "end" /\ t.message = m
  BY UnitsOfMessage
<1>2. ~IsReply(e) /\ (IsReply(t) => t.message.n = a /\ b < a /\ Earned(t.message))
  BY <1>1 DEF IsReply
<1> HIDE DEF t, e
<1>3. /\ Len(q) \in Nat /\ DOMAIN z = 1 .. Len(q) + 2 /\ DOMAIN q = 1 .. Len(q)
      /\ \A i \in 1 .. Len(q) : z[i] = q[i]
      /\ z[Len(q) + 1] = t /\ z[Len(q) + 2] = e
  BY <1>1, TwoMore
<1> HIDE DEF z
<1>4. ASSUME NEW i \in DOMAIN z, IsReply(z[i])
      PROVE  \/ i \in 1 .. Len(q) /\ z[i] = q[i]
             \/ i = Len(q) + 1 /\ z[i] = t
  BY <1>2, <1>3, <1>4
<1>5. \A i \in 1 .. Len(q) : q[i] \in Units
  BY ElementOfSeq
<1>6. \A i \in 1 .. Len(q) : IsReply(q[i]) => q[i].message.n \in Nat /\ q[i].message.n <= b /\ Earned(q[i].message)
  BY <1>3, <1>5 DEF Numbered
<1>7. ASSUME NEW i \in DOMAIN z, IsReply(z[i])
      PROVE  z[i].message.n <= a /\ Earned(z[i].message)
  BY <1>2, <1>4, <1>6, <1>7
<1>8. ASSUME NEW i \in DOMAIN z, NEW j \in DOMAIN z, IsReply(z[i]), IsReply(z[j]), i < j
      PROVE  z[i].message.n < z[j].message.n
  <2>1. i \in 1 .. Len(q) /\ z[i] = q[i]
    BY <1>3, <1>4, <1>8
  <2>2. CASE j \in 1 .. Len(q) /\ z[j] = q[j]
    <3>1. i \in DOMAIN q /\ j \in DOMAIN q
      BY <1>3, <2>1, <2>2
    <3> QED
      BY <1>8, <2>1, <2>2, <3>1 DEF Numbered
  <2>3. CASE j = Len(q) + 1 /\ z[j] = t
    BY <1>2, <1>6, <1>8, <2>1, <2>3
  <2> QED
    BY <1>4, <1>8, <2>2, <2>3
<1>9. Numbered(z, a)
  BY <1>7, <1>8 DEF Numbered
<1> QED
  BY <1>9 DEF z, t, e

\* So do reading, and an answer that is not written.
LEMMA NumberedTail ==
  ASSUME NEW q \in Seq(Units), q # <<>>, NEW b, Numbered(q, b)
  PROVE  Numbered(Tail(q), b)
<1> DEFINE z == Tail(q)
<1>1. Len(q) \in Nat \ {0} /\ Len(z) = Len(q) - 1 /\ DOMAIN q = 1 .. Len(q)
  BY HeadTailProperties, EmptySeq, LenProperties
<1>2. DOMAIN z = 1 .. Len(z)
  BY HeadTailProperties, LenProperties
<1>3. \A i \in 1 .. Len(z) : z[i] = q[i + 1]
  BY HeadTailProperties
<1> HIDE DEF z
<1>4. \A i \in DOMAIN z : i \in Int /\ i + 1 \in DOMAIN q /\ z[i] = q[i + 1]
  BY <1>1, <1>2, <1>3
<1>5. \A i \in DOMAIN z : IsReply(z[i]) => z[i].message.n <= b /\ Earned(z[i].message)
  BY <1>4 DEF Numbered
<1>6. ASSUME NEW i \in DOMAIN z, NEW j \in DOMAIN z, IsReply(z[i]), IsReply(z[j]), i < j
      PROVE  z[i].message.n < z[j].message.n
  <2>1. i + 1 < j + 1
    BY <1>4, <1>6
  <2> QED
    BY <1>4, <1>6, <2>1 DEF Numbered
<1>7. Numbered(z, b)
  BY <1>5, <1>6 DEF Numbered
<1> QED
  BY <1>7 DEF z

LEMMA NumberedBeyond ==
  ASSUME NEW q \in Seq(Units), NEW a \in Nat, NEW b \in Nat, b <= a, Numbered(q, b),
         \A u \in Units : IsReply(u) => u.message.n \in Nat
  PROVE  Numbered(q, a)
<1>1. DOMAIN q = 1 .. Len(q) /\ \A i \in 1 .. Len(q) : q[i] \in Units
  BY LenProperties, ElementOfSeq
<1>2. ASSUME NEW i \in DOMAIN q, IsReply(q[i]) PROVE q[i].message.n <= a /\ Earned(q[i].message)
  <2>1. q[i].message.n <= b /\ Earned(q[i].message) /\ q[i].message.n \in Nat
    BY <1>1, <1>2 DEF Numbered
  <2> QED
    BY <2>1
<1> QED
  BY <1>2 DEF Numbered

-----------------------------------------------------------------------------
(* What goes over a connection.                                            *)

Fits(k) == Len(k.output) <= MaxOutput /\ Len(k.socket) <= Room

\* All of a connection but its buffers and whether it has failed.
SameBut(z, k) ==
  /\ z.hangup = k.hangup /\ z.wire = k.wire /\ z.input = k.input
  /\ z.subscribed = k.subscribed /\ z.events = k.events

LEMMA Typed ==
  ASSUME NEW k \in Connections
  PROVE  /\ k.output \in Seq(Units) /\ k.socket \in Seq(Units) /\ k.wire \in Seq(Bytes)
         /\ Len(k.output) \in Nat /\ Len(k.socket) \in Nat /\ Pending(k) \in Seq(Units)
<1>1. k.output \in Seq(Units) /\ k.socket \in Seq(Units) /\ k.wire \in Seq(Bytes)
  BY DEF Connections
<1>2. Pending(k) \in Seq(Units)
  BY <1>1, ConcatProperties DEF Pending
<1> QED
  BY <1>1, <1>2, LenProperties

\* A flush moves units from the buffer to the socket.
LEMMA FlushKeeps ==
  ASSUME NEW k \in Connections, Len(k.socket) <= Room
  PROVE  LET z == Flush(k)
         IN /\ z \in Connections /\ SameBut(z, k) /\ z.state = k.state /\ Pending(z) = Pending(k)
            /\ Len(z.socket) <= Room /\ Len(z.output) <= Len(k.output)
<1> DEFINE room == Room - Len(k.socket)
           n == IF Len(k.output) < room THEN Len(k.output) ELSE room
           head == SubSeq(k.output, 1, n)
           rest == SubSeq(k.output, n + 1, Len(k.output))
           z == [k EXCEPT !.socket = k.socket \o head, !.output = rest]
<1>1. /\ k.output \in Seq(Units) /\ k.socket \in Seq(Units)
      /\ Len(k.output) \in Nat /\ Len(k.socket) \in Nat
  BY Typed
<1>2. Room \in Nat
  BY IpcAssumption
<1>3. n \in 0 .. Len(k.output) /\ n + Len(k.socket) <= Room
  <2> DEFINE long == Len(k.output)
             full == Len(k.socket)
  <2>1. long \in Nat /\ full \in Nat /\ full <= Room
    BY <1>1
  <2> HIDE DEF long, full
  <2>2. (IF long < Room - full THEN long ELSE Room - full) \in 0 .. long
    BY <1>2, <2>1
  <2>3. (IF long < Room - full THEN long ELSE Room - full) + full <= Room
    BY <1>2, <2>1
  <2> QED
    BY <2>2, <2>3 DEF long, full
<1> HIDE DEF n
<1>4. \A i \in 1 .. Len(k.output) : k.output[i] \in Units
  BY <1>1, ElementOfSeq
<1>5. head \in Seq(Units) /\ Len(head) = n
  <2>1. \A i \in 1 .. n : k.output[i] \in Units
    BY <1>3, <1>4
  <2>2. 1 \in Int /\ n \in Int
    BY <1>3
  <2>3. head \in Seq(Units) /\ Len(head) = IF 1 <= n THEN n - 1 + 1 ELSE 0
    BY <2>1, <2>2, SubSeqProperties
  <2> QED
    BY <1>3, <2>3
<1>6. rest \in Seq(Units) /\ Len(rest) = Len(k.output) - n
  <2>1. \A i \in n + 1 .. Len(k.output) : k.output[i] \in Units
    BY <1>1, <1>3, <1>4
  <2>2. n + 1 \in Int /\ Len(k.output) \in Int
    BY <1>1, <1>3
  <2>3. rest \in Seq(Units)
        /\ Len(rest) = IF n + 1 <= Len(k.output) THEN Len(k.output) - (n + 1) + 1 ELSE 0
    BY <2>1, <2>2, SubSeqProperties
  <2> QED
    BY <1>1, <1>3, <2>3
<1>7. head \o rest = k.output
  <2>1. 1 \in 1 .. Len(k.output) + 1 /\ n \in 1 - 1 .. Len(k.output) /\ Len(k.output) \in n .. Len(k.output)
    BY <1>1, <1>3
  <2>2. head \o rest = SubSeq(k.output, 1, Len(k.output))
    BY <1>1, <2>1, ConcatAdjacentSubSeq
  <2> QED
    BY <1>1, <2>2, SubSeqFull
<1> HIDE DEF head, rest
<1>8. k.socket \o head \in Seq(Units) /\ Len(k.socket \o head) = Len(k.socket) + n
  BY <1>1, <1>5, ConcatProperties
<1>9. (k.socket \o head) \o rest = k.socket \o k.output
  <2> DEFINE soc == k.socket
  <2>1. soc \in Seq(Units)
    BY <1>1
  <2> HIDE DEF soc
  <2>2. (soc \o head) \o rest = soc \o (head \o rest)
    BY <1>5, <1>6, <2>1, ConcatAssociative, SMTT(60)
  <2> QED
    BY <1>7, <2>2 DEF soc
<1> DEFINE socket == k.socket \o head
<1> HIDE DEF socket
<1>10. z = [k EXCEPT !.socket = socket, !.output = rest]
  BY DEF socket
<1>11. socket \in Seq(Units) /\ Len(socket) = Len(k.socket) + n /\ socket \o rest = k.socket \o k.output
  BY <1>8, <1>9 DEF socket
<1>12. z \in Connections /\ z.socket = socket /\ z.output = rest /\ SameBut(z, k) /\ z.state = k.state
  BY <1>6, <1>10, <1>11 DEF Connections, SameBut
<1>13. Pending(z) = Pending(k)
  BY <1>11, <1>12 DEF Pending
<1>14. Len(z.socket) <= Room /\ Len(z.output) <= Len(k.output)
  BY <1>1, <1>2, <1>3, <1>6, <1>11, <1>12, SMTT(60)
<1>15. Flush(k) = z
  BY DEF Flush, z, head, rest, n
<1> HIDE DEF z
<1> QED
  BY <1>12, <1>13, <1>14, <1>15

\* A unit is queued behind the others, or the connection has failed.
LEMMA QueueOne ==
  ASSUME NEW k \in Connections, Fits(k), NEW u \in Units
  PROVE  LET z == Queue(k, u)
         IN /\ z \in Connections /\ SameBut(z, k) /\ Fits(z) /\ z.state \in {k.state, "failed"}
            /\ z.state # "failed" => k.state # "failed" /\ Pending(z) = Append(Pending(k), u)
<1>1. /\ k.output \in Seq(Units) /\ k.socket \in Seq(Units)
      /\ Len(k.output) \in Nat /\ Len(k.socket) \in Nat
  BY Typed
<1>2. MaxOutput \in Nat
  BY IpcAssumption
<1>3. CASE k.state = "failed" \/ k.hangup \/ Len(k.output) >= MaxOutput
  <2> DEFINE failed == "failed"
             z == [k EXCEPT !.state = failed]
  <2>1. Queue(k, u) = z
    BY <1>3 DEF Queue
  <2>2. z \in Connections /\ z.state = "failed" /\ SameBut(z, k) /\ z.output = k.output /\ z.socket = k.socket
    BY DEF Connections, SameBut
  <2> HIDE DEF z
  <2>3. Fits(z)
    BY <2>2 DEF Fits
  <2> QED
    BY <2>1, <2>2, <2>3
<1>4. CASE ~(k.state = "failed" \/ k.hangup \/ Len(k.output) >= MaxOutput)
  <2> DEFINE output == Append(k.output, u)
             y == [k EXCEPT !.output = output]
             z == Flush(y)
  <2>1. output \in Seq(Units) /\ Len(output) = Len(k.output) + 1 /\ output = k.output \o <<u>>
    BY <1>1, AppendProperties, AppendIsConcat
  <2>2. Queue(k, u) = z
    BY <1>4 DEF Queue
  <2> HIDE DEF output
  <2>3. y \in Connections /\ SameBut(y, k) /\ y.state = k.state /\ y.output = output /\ y.socket = k.socket
    BY <2>1 DEF Connections, SameBut
  <2> HIDE DEF y
  <2>4. Len(y.socket) <= Room
    BY <2>3 DEF Fits
  <2>5. /\ z \in Connections /\ SameBut(z, y) /\ z.state = y.state /\ Pending(z) = Pending(y)
        /\ Len(z.socket) <= Room /\ Len(z.output) <= Len(y.output)
    BY <2>3, <2>4, FlushKeeps
  <2>6. Len(z.output) \in Nat
    BY <2>5, Typed
  <2> HIDE DEF z
  <2>7. Fits(z)
    BY <1>1, <1>2, <1>4, <2>1, <2>3, <2>5, <2>6 DEF Fits
  <2>8. Pending(y) = Append(Pending(k), u)
    <3> DEFINE one == <<u>>
    <3>1. one \in Seq(Units)
      OBVIOUS
    <3>2. Append(Pending(k), u) = Pending(k) \o one
      BY Typed, AppendIsConcat
    <3>3. output = k.output \o one
      BY <2>1
    <3> HIDE DEF one
    <3> DEFINE soc == k.socket
               out == k.output
    <3>5. soc \in Seq(Units) /\ out \in Seq(Units)
      BY <1>1
    <3> HIDE DEF soc, out
    <3>6. (soc \o out) \o one = soc \o (out \o one)
      BY <3>1, <3>5, ConcatAssociative, SMTT(60)
    <3>4. (k.socket \o k.output) \o one = k.socket \o (k.output \o one)
      BY <3>6 DEF soc, out
    <3> QED
      BY <2>3, <3>2, <3>3, <3>4 DEF Pending
  <2>9. SameBut(z, k) /\ z.state = k.state
    BY <2>3, <2>5 DEF SameBut
  <2> QED
    BY <1>4, <2>2, <2>5, <2>7, <2>8, <2>9
<1> QED
  BY <1>3, <1>4

\* A message is queued whole, or the connection has failed.
LEMMA SendWhole ==
  ASSUME NEW k \in Connections, Fits(k), NEW m \in Message
  PROVE  LET z == Send(k, m)
         IN /\ z \in Connections /\ SameBut(z, k) /\ Fits(z) /\ z.state \in {k.state, "failed"}
            /\ z.state # "failed" =>
                 k.state # "failed" /\ Pending(z) = Append(Append(Pending(k), Text(m)), End(m))
<1> DEFINE t == Text(m)
           e == End(m)
           y == Queue(k, t)
           z == Queue(y, e)
<1>1. t \in Units /\ e \in Units
  BY UnitsOfMessage
<1>2. Send(k, m) = z
  BY DEF Send, Text, End
<1> HIDE DEF t, e
<1>3. /\ y \in Connections /\ SameBut(y, k) /\ Fits(y) /\ y.state \in {k.state, "failed"}
      /\ y.state # "failed" => k.state # "failed" /\ Pending(y) = Append(Pending(k), t)
  BY <1>1, QueueOne
<1> HIDE DEF y
<1>4. /\ z \in Connections /\ SameBut(z, y) /\ Fits(z) /\ z.state \in {y.state, "failed"}
      /\ z.state # "failed" => y.state # "failed" /\ Pending(z) = Append(Pending(y), e)
  BY <1>1, <1>3, QueueOne
<1> HIDE DEF z
<1>5. SameBut(z, k)
  BY <1>3, <1>4 DEF SameBut
<1> QED
  BY <1>2, <1>3, <1>4, <1>5 DEF t, e

-----------------------------------------------------------------------------
(* The lines on the wire.                                                  *)

\* The bounds of a scenario are numbers, and so is the length of a line.
LEMMA Bounds ==
  ASSUME around \in Scenarios
  PROVE  /\ around.sent \in Nat /\ around.changes \in Nat /\ around.locks \in Nat
         /\ \A r \in around.requests : r.length \in Nat
         /\ \A u \in Units : IsReply(u) => u.message.n \in Nat
         /\ \A b \in Bytes : b.newline \in BOOLEAN /\ (b.newline => b.says \in around.requests)
<1>1. around.sent \in Nat /\ around.changes \in Nat /\ around.locks \in Nat
  BY IpcAssumption
<1>2. \A r \in around.requests : r.length \in Nat
  BY IpcAssumption
<1>3. ASSUME NEW u \in Units, IsReply(u) PROVE u.message.n \in Nat
  <2>1. u.message \in Message /\ u.message.kind = "reply"
    BY <1>3 DEF Units, IsReply
  <2>2. u.message.n \in 1 .. around.sent
    BY <2>1 DEF Message
  <2> QED
    BY <1>1, <2>2
<1>4. \A b \in Bytes : b.newline \in BOOLEAN /\ (b.newline => b.says \in around.requests)
  BY DEF Bytes
<1> QED
  BY <1>1, <1>2, <1>3, <1>4

LEMMA NewlinesFinite ==
  ASSUME NEW w \in Seq(Bytes)
  PROVE  IsFiniteSet(Newlines(w)) /\ Cardinality(Newlines(w)) \in Nat
<1>1. Len(w) \in Nat /\ DOMAIN w = 1 .. Len(w)
  BY LenProperties
<1>2. IsFiniteSet(1 .. Len(w))
  BY <1>1, FS_Interval
<1>3. Newlines(w) \in SUBSET (1 .. Len(w))
  BY <1>1 DEF Newlines
<1> HIDE DEF Newlines
<1>4. IsFiniteSet(Newlines(w))
  BY <1>2, <1>3, FS_Subset
<1> QED
  BY <1>4, FS_CardinalityType

\* Where the bytes are once the first is taken.
LEMMA TailBytes ==
  ASSUME NEW w \in Seq(Bytes), w # <<>>
  PROVE  /\ Tail(w) \in Seq(Bytes) /\ Head(w) \in Bytes /\ Head(w) = w[1]
         /\ Len(w) \in Nat \ {0} /\ Len(Tail(w)) = Len(w) - 1
         /\ DOMAIN w = 1 .. Len(w) /\ DOMAIN Tail(w) = 1 .. Len(w) - 1
         /\ \A i \in 1 .. Len(w) - 1 : Tail(w)[i] = w[i + 1]
         /\ \A i \in 1 .. Len(w) : w[i].newline \in BOOLEAN
<1>1. Tail(w) \in Seq(Bytes) /\ Head(w) \in Bytes /\ Len(Tail(w)) = Len(w) - 1
      /\ \A i \in 1 .. Len(Tail(w)) : Tail(w)[i] = w[i + 1]
  BY HeadTailProperties
<1>2. Len(w) \in Nat \ {0} /\ DOMAIN w = 1 .. Len(w) /\ DOMAIN Tail(w) = 1 .. Len(Tail(w))
  BY <1>1, EmptySeq, LenProperties
<1>3. Head(w) = w[1]
  OBVIOUS
<1>4. ASSUME NEW i \in 1 .. Len(w) PROVE w[i].newline \in BOOLEAN
  <2>1. w[i] \in Bytes
    BY ElementOfSeq
  <2> QED
    BY <2>1 DEF Bytes
<1> QED
  BY <1>1, <1>2, <1>3, <1>4

\* Taking a byte takes a newline from the wire only if it is one.
LEMMA NewlinesTail ==
  ASSUME NEW w \in Seq(Bytes), w # <<>>
  PROVE  Cardinality(Newlines(w))
           = Cardinality(Newlines(Tail(w))) + (IF Head(w).newline THEN 1 ELSE 0)
<1> DEFINE z == Tail(w)
           S == Newlines(w)
           T == Newlines(z)
           later == S \ {1}
           f == [i \in T |-> i + 1]
<1>1. /\ z \in Seq(Bytes) /\ Head(w) = w[1] /\ Len(w) \in Nat \ {0}
      /\ DOMAIN w = 1 .. Len(w) /\ DOMAIN z = 1 .. Len(w) - 1
      /\ \A i \in 1 .. Len(w) - 1 : z[i] = w[i + 1]
  BY TailBytes
<1> HIDE DEF z
<1>2. S = {i \in 1 .. Len(w) : w[i].newline} /\ T = {i \in 1 .. Len(w) - 1 : w[i + 1].newline}
  BY <1>1 DEF Newlines
<1>3. IsFiniteSet(S) /\ Cardinality(S) \in Nat /\ IsFiniteSet(T) /\ Cardinality(T) \in Nat
  BY <1>1, NewlinesFinite
<1> HIDE DEF S, T
<1>4. f \in [T -> later]
  <2>1. \A i \in T : i + 1 \in S /\ i + 1 # 1
    BY <1>1, <1>2
  <2> QED
    BY <2>1
<1>5. \A i, j \in T : f[i] = f[j] => i = j
  <2>1. \A i \in T : i \in Int
    BY <1>2
  <2> QED
    BY <2>1
<1>6. ASSUME NEW j \in later PROVE \E i \in T : f[i] = j
  <2>1. j \in 1 .. Len(w) /\ w[j].newline /\ j # 1
    BY <1>2
  <2>2. j - 1 \in 1 .. Len(w) - 1 /\ (j - 1) + 1 = j
    BY <1>1, <2>1
  <2>3. j - 1 \in T
    BY <1>2, <2>1, <2>2
  <2> QED
    BY <2>2, <2>3
<1>7. ExistsBijection(T, later)
  <2> HIDE DEF f, later
  <2>1. f \in Injection(T, later)
    BY <1>4, <1>5 DEF Injection, IsInjective
  <2>2. f \in Surjection(T, later)
    BY <1>4, <1>6 DEF Surjection
  <2> QED
    BY <2>1, <2>2 DEF ExistsBijection, Bijection
<1>8. Cardinality(later) = Cardinality(T)
  <2> HIDE DEF later
  <2> QED
    BY <1>3, <1>7, FS_Bijection
<1>9. Cardinality(later) = IF 1 \in S THEN Cardinality(S) - 1 ELSE Cardinality(S)
  BY <1>3, FS_RemoveElement
<1>10. 1 \in S <=> Head(w).newline
  BY <1>1, <1>2
<1>11. Cardinality(S) = Cardinality(T) + (IF Head(w).newline THEN 1 ELSE 0)
  BY <1>3, <1>8, <1>9, <1>10
<1> QED
  BY <1>11 DEF S, T, z

\* The line that the server reads stays as long as the request says, byte by byte.
LEMMA LinedTail ==
  ASSUME around \in Scenarios, NEW w \in Seq(Bytes), w # <<>>, NEW input \in Nat, Lined(w, input)
  PROVE  /\ Head(w).newline => Head(w).says.length = input /\ Lined(Tail(w), 0)
         /\ ~Head(w).newline => Lined(Tail(w), input + 1)
<1> DEFINE z == Tail(w)
           next == IF Head(w).newline THEN 0 ELSE input + 1
<1>1. /\ z \in Seq(Bytes) /\ Head(w) = w[1] /\ Len(w) \in Nat \ {0} /\ Len(z) = Len(w) - 1
      /\ DOMAIN w = 1 .. Len(w) /\ DOMAIN z = 1 .. Len(w) - 1
      /\ \A i \in 1 .. Len(w) - 1 : z[i] = w[i + 1]
      /\ \A i \in 1 .. Len(w) : w[i].newline \in BOOLEAN
  BY TailBytes
<1>2. z # <<>> => Len(z) \in Nat \ {0}
  BY <1>1, EmptySeq
<1>3. \A i \in 1 .. Len(w) : w[i].newline => w[i].says.length \in Nat
  <2>1. \A i \in 1 .. Len(w) : w[i] \in Bytes
    BY ElementOfSeq
  <2> QED
    BY <2>1, Bounds
<1>4. w[Len(w)].newline
  BY DEF Lined
<1> HIDE DEF z
<1>5. ASSUME NEW j \in DOMAIN w, w[j].newline
      PROVE  \/ w[j].says.length = input + j - 1 /\ \A i \in 1 .. j - 1 : ~w[i].newline
             \/ \E i \in 1 .. j - 1 : /\ w[i].newline /\ w[j].says.length = j - i - 1
                                     /\ \A l \in i + 1 .. j - 1 : ~w[l].newline
  BY <1>5 DEF Lined
<1>6. Head(w).newline => Head(w).says.length = input
  <2>1. SUFFICES ASSUME w[1].newline PROVE w[1].says.length = input
    BY <1>1
  <2>2. 1 \in DOMAIN w /\ 1 .. 1 - 1 = {} /\ input + 1 - 1 = input
    BY <1>1
  <2> QED
    BY <1>5, <2>1, <2>2
<1>7. z = <<>> => next = 0
  <2>1. z = <<>> => Len(w) = 1
    BY <1>1
  <2> QED
    BY <1>1, <1>4, <2>1
<1>8. z # <<>> => z[Len(z)].newline
  <2>1. z # <<>> => Len(z) \in 1 .. Len(w) - 1 /\ Len(z) + 1 = Len(w)
    BY <1>1, <1>2
  <2> QED
    BY <1>1, <1>4, <2>1
<1>9. ASSUME NEW j \in DOMAIN z, z[j].newline
      PROVE  \/ z[j].says.length = next + j - 1 /\ \A i \in 1 .. j - 1 : ~z[i].newline
             \/ \E i \in 1 .. j - 1 : /\ z[i].newline /\ z[j].says.length = j - i - 1
                                     /\ \A l \in i + 1 .. j - 1 : ~z[l].newline
  <2> DEFINE r == z[j].says
  <2>1. j \in 1 .. Len(w) - 1 /\ j + 1 \in DOMAIN w /\ j + 1 \in 1 .. Len(w) /\ z[j] = w[j + 1] /\ w[j + 1].newline
    BY <1>1, <1>9
  <2>2. r.length \in Nat /\ r = w[j + 1].says
    BY <1>3, <2>1
  <2>3. \A i \in 1 .. j - 1 : z[i] = w[i + 1] /\ i + 1 \in 1 .. (j + 1) - 1
    BY <1>1, <2>1
  <2> HIDE DEF r
  <2>4. CASE r.length = input + (j + 1) - 1 /\ \A i \in 1 .. (j + 1) - 1 : ~w[i].newline
    <3>1. 1 \in 1 .. (j + 1) - 1
      BY <2>1
    <3>2. next = input + 1
      BY <1>1, <2>4, <3>1
    <3>3. \A i \in 1 .. j - 1 : ~z[i].newline
      BY <2>3, <2>4
    <3>4. r.length = next + j - 1
      <4>1. j \in Int /\ r.length = input + (j + 1) - 1
        BY <2>1, <2>4
      <4>2. input + (j + 1) - 1 = (input + 1) + j - 1
        BY <4>1
      <4> QED
        BY <3>2, <4>1, <4>2
    <3> QED
      BY <3>3, <3>4 DEF r
  <2>5. CASE \E i \in 1 .. (j + 1) - 1 : /\ w[i].newline /\ r.length = (j + 1) - i - 1
                                         /\ \A l \in i + 1 .. (j + 1) - 1 : ~w[l].newline
    <3>1. PICK i \in 1 .. (j + 1) - 1 : /\ w[i].newline /\ r.length = (j + 1) - i - 1
                                       /\ \A l \in i + 1 .. (j + 1) - 1 : ~w[l].newline
      BY <2>5
    <3>2. ASSUME NEW l \in i .. j - 1 PROVE ~z[l].newline
      <4>1. l \in 1 .. j - 1 /\ l + 1 \in i + 1 .. (j + 1) - 1
        BY <2>1, <3>1, SMTT(60)
      <4> QED
        BY <2>3, <3>1, <4>1
    <3>3. CASE i # 1
      <4>1. /\ i - 1 \in 1 .. j - 1 /\ (i - 1) + 1 = i /\ (j + 1) - i - 1 = j - (i - 1) - 1
            /\ (i - 1) + 1 .. j - 1 = i .. j - 1
        BY <2>1, <3>1, <3>3, SMTT(60)
      <4>2. z[i - 1] = w[i]
        BY <2>3, <4>1
      <4> QED
        BY <3>1, <3>2, <4>1, <4>2 DEF r
    <3>4. CASE i = 1
      <4>1. next = 0 /\ r.length = next + j - 1
        BY <1>1, <2>1, <3>1, <3>4
      <4> QED
        BY <3>2, <3>4, <4>1 DEF r
    <3> QED
      BY <3>3, <3>4
  <2> QED
    BY <1>5, <2>1, <2>2, <2>4, <2>5
<1>10. Lined(z, next)
  BY <1>7, <1>8, <1>9 DEF Lined
<1> QED
  BY <1>6, <1>10 DEF z

\* The bytes of a line and its newline, behind those on the wire.
Written(w, r) ==
  w \o [i \in 1..r.length |-> [newline |-> FALSE]] \o <<[newline |-> TRUE, says |-> r]>>

LEMMA WrittenBytes ==
  ASSUME around \in Scenarios, NEW w \in Seq(Bytes), NEW r \in around.requests
  PROVE  LET z == Written(w, r)
         IN /\ z \in Seq(Bytes) /\ Len(w) \in Nat /\ DOMAIN w = 1 .. Len(w)
            /\ Len(z) = Len(w) + r.length + 1 /\ DOMAIN z = 1 .. Len(w) + r.length + 1
            /\ \A i \in 1 .. Len(w) : z[i] = w[i]
            /\ \A i \in Len(w) + 1 .. Len(w) + r.length : ~z[i].newline
            /\ z[Len(w) + r.length + 1].newline /\ z[Len(w) + r.length + 1].says = r
<1> DEFINE n == r.length
           blank == [newline |-> FALSE]
           end == [newline |-> TRUE, says |-> r]
           blanks == [i \in 1 .. n |-> blank]
           last == <<end>>
           y == w \o blanks
           z == y \o last
<1>1. n \in Nat
  BY Bounds
<1>2. blank \in Bytes /\ end \in Bytes /\ ~blank.newline /\ end.newline /\ end.says = r
  BY DEF Bytes
<1> HIDE DEF n, blank, end
<1>3. blanks \in Seq(Bytes) /\ Len(blanks) = n /\ \A i \in 1 .. n : blanks[i] = blank
  BY <1>1, <1>2
<1>4. last \in Seq(Bytes) /\ Len(last) = 1 /\ last[1] = end
  BY <1>2
<1>5. Len(w) \in Nat /\ DOMAIN w = 1 .. Len(w)
  BY LenProperties
<1> HIDE DEF blanks, last
<1>6. y \in Seq(Bytes) /\ Len(y) = Len(w) + n
      /\ \A i \in 1 .. Len(w) + n : y[i] = IF i <= Len(w) THEN w[i] ELSE blanks[i - Len(w)]
  BY <1>3, ConcatProperties
<1> HIDE DEF y
<1>7. z \in Seq(Bytes) /\ Len(z) = Len(w) + n + 1
      /\ \A i \in 1 .. Len(w) + n + 1 : z[i] = IF i <= Len(w) + n THEN y[i] ELSE last[i - (Len(w) + n)]
  <2> DEFINE m == Len(y)
  <2>0. y \in Seq(Bytes) /\ last \in Seq(Bytes)
    BY <1>4, <1>6
  <2>1. z \in Seq(Bytes) /\ Len(z) = m + Len(last)
        /\ \A i \in 1 .. m + Len(last) : z[i] = IF i <= m THEN y[i] ELSE last[i - m]
    BY <2>0, ConcatProperties
  <2>2. m = Len(w) + n
    BY <1>6
  <2> HIDE DEF m, z
  <2>3. Len(z) = m + 1 /\ \A i \in 1 .. m + 1 : z[i] = IF i <= m THEN y[i] ELSE last[i - m]
    BY <1>4, <2>1
  <2> QED
    BY <2>1, <2>2, <2>3
<1>8. DOMAIN z = 1 .. Len(w) + n + 1
  BY <1>7, LenProperties
<1> HIDE DEF z
<1>9. \A i \in 1 .. Len(w) : z[i] = w[i]
  BY <1>1, <1>5, <1>6, <1>7
<1>10. ASSUME NEW i \in Len(w) + 1 .. Len(w) + n PROVE ~z[i].newline
  <2>1. i \in 1 .. Len(w) + n /\ i <= Len(w) + n /\ ~(i <= Len(w)) /\ i - Len(w) \in 1 .. n
    BY <1>1, <1>5
  <2>2. z[i] = y[i] /\ y[i] = blanks[i - Len(w)]
    BY <1>1, <1>5, <1>6, <1>7, <2>1
  <2> QED
    BY <1>2, <1>3, <2>1, <2>2
<1>11. z[Len(w) + n + 1] = end
  <2>1. Len(w) + n + 1 \in 1 .. Len(w) + n + 1 /\ ~(Len(w) + n + 1 <= Len(w) + n)
        /\ (Len(w) + n + 1) - (Len(w) + n) = 1
    BY <1>1, <1>5
  <2> QED
    BY <1>4, <1>7, <2>1
<1>12. Written(w, r) = z
  BY DEF Written, z, y, last, blanks, end, blank, n
<1> QED
  BY <1>2, <1>5, <1>7, <1>8, <1>9, <1>10, <1>11, <1>12 DEF n

\* A line that is written whole is one more line, of the length it says.
LEMMA LinedMore ==
  ASSUME around \in Scenarios, NEW w \in Seq(Bytes), NEW input \in Nat, Lined(w, input),
         NEW r \in around.requests
  PROVE  /\ Lined(Written(w, r), input)
         /\ Cardinality(Newlines(Written(w, r))) = Cardinality(Newlines(w)) + 1
<1> DEFINE n == r.length
           z == Written(w, r)
           end == Len(w) + n + 1
<1>1. n \in Nat
  BY Bounds
<1>2. /\ z \in Seq(Bytes) /\ Len(w) \in Nat /\ DOMAIN w = 1 .. Len(w)
      /\ Len(z) = end /\ DOMAIN z = 1 .. end
      /\ \A i \in 1 .. Len(w) : z[i] = w[i]
      /\ \A i \in Len(w) + 1 .. Len(w) + n : ~z[i].newline
      /\ z[end].newline /\ z[end].says = r
  BY WrittenBytes
<1> HIDE DEF z
<1>3. z # <<>> /\ z[Len(z)].newline
  BY <1>1, <1>2, EmptySeq
<1>4. ASSUME NEW j \in 1 .. Len(w), z[j].newline
      PROVE  \/ z[j].says.length = input + j - 1 /\ \A i \in 1 .. j - 1 : ~z[i].newline
             \/ \E i \in 1 .. j - 1 : /\ z[i].newline /\ z[j].says.length = j - i - 1
                                     /\ \A l \in i + 1 .. j - 1 : ~z[l].newline
  <2>1. j \in DOMAIN w /\ z[j] = w[j] /\ w[j].newline
    BY <1>2, <1>4
  <2>2. \A i \in 1 .. j - 1 : z[i] = w[i]
    BY <1>2
  <2>3. CASE w[j].says.length = input + j - 1 /\ \A i \in 1 .. j - 1 : ~w[i].newline
    BY <2>1, <2>2, <2>3
  <2>4. CASE \E i \in 1 .. j - 1 : /\ w[i].newline /\ w[j].says.length = j - i - 1
                                  /\ \A l \in i + 1 .. j - 1 : ~w[l].newline
    <3>1. PICK i \in 1 .. j - 1 : /\ w[i].newline /\ w[j].says.length = j - i - 1
                                 /\ \A l \in i + 1 .. j - 1 : ~w[l].newline
      BY <2>4
    <3>2. \A l \in i + 1 .. j - 1 : l \in 1 .. j - 1
      BY <1>2
    <3> QED
      BY <2>1, <2>2, <3>1, <3>2
  <2> QED
    BY <2>1, <2>3, <2>4 DEF Lined
<1>5. \/ z[end].says.length = input + end - 1 /\ \A i \in 1 .. end - 1 : ~z[i].newline
      \/ \E i \in 1 .. end - 1 : /\ z[i].newline /\ z[end].says.length = end - i - 1
                                /\ \A l \in i + 1 .. end - 1 : ~z[l].newline
  <2>1. CASE w = <<>>
    <3>1. Len(w) = 0 /\ input = 0
      BY <2>1 DEF Lined
    <3>2. n = input + end - 1
      BY <1>1, <3>1
    <3>3. \A i \in 1 .. end - 1 : i \in Len(w) + 1 .. Len(w) + n
      BY <1>1, <3>1
    <3> QED
      BY <1>2, <3>2, <3>3
  <2>2. CASE w # <<>>
    <3>1. Len(w) \in 1 .. Len(w) /\ w[Len(w)].newline
      BY <1>2, <2>2, EmptySeq DEF Lined
    <3>2. Len(w) \in 1 .. end - 1 /\ n = end - Len(w) - 1 /\ end - 1 = Len(w) + n
      BY <1>1, <1>2, <3>1
    <3> HIDE DEF end
    <3>3. \A l \in Len(w) + 1 .. end - 1 : ~z[l].newline
      BY <1>2, <3>2
    <3>4. z[Len(w)].newline /\ z[end].says.length = n
      BY <1>2, <3>1
    <3> QED
      BY <3>2, <3>3, <3>4
  <2> QED
    BY <2>1, <2>2
<1>6. ASSUME NEW j \in DOMAIN z, z[j].newline PROVE j \in 1 .. Len(w) \/ j = end
  <2>1. j \in 1 .. end /\ ~(j \in Len(w) + 1 .. Len(w) + n)
    BY <1>2, <1>6
  <2> QED
    BY <1>1, <1>2, <2>1
<1>7. Lined(z, input)
  <2> HIDE DEF end
  <2>1. ASSUME NEW j \in DOMAIN z, z[j].newline
        PROVE  \/ z[j].says.length = input + j - 1 /\ \A i \in 1 .. j - 1 : ~z[i].newline
               \/ \E i \in 1 .. j - 1 : /\ z[i].newline /\ z[j].says.length = j - i - 1
                                       /\ \A l \in i + 1 .. j - 1 : ~z[l].newline
    <3>1. CASE j \in 1 .. Len(w)
      BY <1>4, <2>1, <3>1
    <3>2. CASE j = end
      BY <1>5, <3>2
    <3> QED
      BY <1>6, <2>1, <3>1, <3>2
  <2> QED
    BY <1>3, <2>1 DEF Lined
<1>8. Newlines(z) = Newlines(w) \cup {end}
  <2>1. \A j \in Newlines(w) : j \in 1 .. Len(w) /\ w[j].newline
    BY <1>2 DEF Newlines
  <2>2. \A j \in 1 .. Len(w) : j \in DOMAIN z /\ z[j] = w[j] /\ j \in DOMAIN w
    BY <1>1, <1>2
  <2>3. end \in DOMAIN z
    BY <1>1, <1>2
  <2> HIDE DEF end
  <2>4. \A j \in Newlines(z) : j \in Newlines(w) \/ j = end
    BY <1>6, <2>2 DEF Newlines
  <2>5. \A j \in Newlines(w) : j \in Newlines(z)
    BY <2>1, <2>2 DEF Newlines
  <2>6. end \in Newlines(z)
    BY <1>2, <2>3 DEF Newlines
  <2> QED
    BY <2>4, <2>5, <2>6
<1>9. end \notin Newlines(w)
  BY <1>1, <1>2 DEF Newlines
<1>10. Cardinality(Newlines(z)) = Cardinality(Newlines(w)) + 1
  <2> HIDE DEF end
  <2> QED
    BY <1>8, <1>9, NewlinesFinite, FS_AddElement
<1> QED
  BY <1>7, <1>10 DEF z

-----------------------------------------------------------------------------
(* One request.                                                            *)

\* The places where an event begins.
EventPlaces(q) == {i \in DOMAIN q : q[i].part = "text" /\ q[i].message.kind = "event"}

Spoken(k, answered, heard) ==
  k.state # "failed" => FramedAfter(heard, Pending(k)) /\ Numbered(Pending(k), answered)

\* A client may be answered once more.
Ready(s, c) ==
  /\ s \in Worlds /\ s.client[c].state = "open" /\ Fits(s.client[c])
  /\ Spoken(s.client[c], s.history.answered[c], s.history.heard[c])
  /\ s.history.answered[c] + 1 <= around.sent

\* What the service of a client leaves alone.
Apart(s, t, c) ==
  /\ t.server.snapshot = s.server.snapshot /\ t.server.locked = s.server.locked
  /\ t.server.clients = s.server.clients /\ t.server.count = s.server.count
  /\ Published(s) => Published(t)
  /\ \A d \in Clients \ {c} :
       /\ t.client[d] = s.client[d] /\ t.history.answered[d] = s.history.answered[d]
       /\ t.history.told[d] = s.history.told[d]
  /\ t.history.asked = s.history.asked /\ t.history.heard = s.history.heard
  /\ t.history.changes = s.history.changes /\ t.history.locks = s.history.locks
  /\ s.server.locked => t.history.commands = s.history.commands

\* What it does for the client, with one answer more.
Answered(s, t, c) ==
  /\ t.client[c].hangup = s.client[c].hangup /\ t.client[c].wire = s.client[c].wire
  /\ t.client[c].input = s.client[c].input /\ t.client[c].state \in {"open", "failed"}
  /\ Fits(t.client[c])
  /\ t.history.answered[c] = s.history.answered[c] + 1
  /\ Spoken(t.client[c], t.history.answered[c], t.history.heard[c])
  /\ Truthful(s.client[c], s.history.told[c], s.server.snapshot)
       => Truthful(t.client[c], t.history.told[c], t.server.snapshot)
  /\ t.client[c].state # "failed" =>
       EventPlaces(Pending(t.client[c])) = EventPlaces(Pending(s.client[c]))

\* A world in which a connection and its count of answers are others.
Answer(s, c, k, n) == [s EXCEPT !.client[c] = k, !.history.answered[c] = n]

LEMMA WorldFields ==
  ASSUME NEW s \in Worlds
  PROVE  /\ s.server \in Servers /\ s.client \in [Clients -> Connections] /\ s.history \in Histories
         /\ \A c \in Clients :
              /\ s.client[c] \in Connections /\ s.history.answered[c] \in Nat
              /\ s.history.asked[c] \in Nat /\ s.history.heard[c] \in {NONE} \cup Units
              /\ s.history.told[c] \in State
<1>1. s.server \in Servers /\ s.client \in [Clients -> Connections] /\ s.history \in Histories
  BY DEF Worlds
<1>2. /\ s.history.answered \in [Clients -> Nat] /\ s.history.asked \in [Clients -> Nat]
      /\ s.history.heard \in [Clients -> {NONE} \cup Units] /\ s.history.told \in [Clients -> State]
  BY <1>1 DEF Histories
<1> QED
  BY <1>1, <1>2

LEMMA AnswerFields ==
  ASSUME NEW s \in Worlds, NEW c \in Clients, NEW k \in Connections, NEW n \in Nat
  PROVE  LET t == Answer(s, c, k, n)
         IN /\ t \in Worlds /\ t.server = s.server
            /\ t.client[c] = k /\ \A d \in Clients \ {c} : t.client[d] = s.client[d]
            /\ t.history.answered[c] = n
            /\ \A d \in Clients \ {c} : t.history.answered[d] = s.history.answered[d]
            /\ t.history.asked = s.history.asked /\ t.history.heard = s.history.heard
            /\ t.history.told = s.history.told /\ t.history.changes = s.history.changes
            /\ t.history.locks = s.history.locks /\ t.history.commands = s.history.commands
<1> DEFINE answered == [s.history.answered EXCEPT ![c] = n]
           clients == [s.client EXCEPT ![c] = k]
           history1 == [s.history EXCEPT !.answered = answered]
           t == [s EXCEPT !.client = clients, !.history = history1]
<1>1. s.server \in Servers /\ s.client \in [Clients -> Connections] /\ s.history \in Histories
  BY WorldFields
<1>2. s.history.answered \in [Clients -> Nat]
  BY <1>1 DEF Histories
<1>3. /\ answered \in [Clients -> Nat] /\ answered[c] = n
      /\ \A d \in Clients \ {c} : answered[d] = s.history.answered[d]
  BY <1>2
<1>4. /\ clients \in [Clients -> Connections] /\ clients[c] = k
      /\ \A d \in Clients \ {c} : clients[d] = s.client[d]
  BY <1>1
<1>5. Answer(s, c, k, n) = t
  BY DEF Answer
<1> HIDE DEF answered, clients
<1>6. /\ history1 \in Histories /\ history1.answered = answered
      /\ history1.asked = s.history.asked /\ history1.heard = s.history.heard
      /\ history1.told = s.history.told /\ history1.changes = s.history.changes
      /\ history1.locks = s.history.locks /\ history1.commands = s.history.commands
  BY <1>1, <1>3 DEF Histories
<1> HIDE DEF history1
<1>7. t \in Worlds /\ t.server = s.server /\ t.client = clients /\ t.history = history1
  BY <1>4, <1>6 DEF Worlds
<1> HIDE DEF t
<1> QED
  BY <1>3, <1>4, <1>5, <1>6, <1>7

\* Another reply leaves the events where they are.
LEMMA PlacesKept ==
  ASSUME NEW q \in Seq(Units), NEW m \in Message, m.kind = "reply"
  PROVE  EventPlaces(Append(Append(q, Text(m)), End(m))) = EventPlaces(q)
<1> DEFINE t == Text(m)
           e == End(m)
           z == Append(Append(q, t), e)
<1>1. t \in Units /\ e \in Units /\ t.part = "text" /\ e.part = "end" /\ t.message = m
  BY UnitsOfMessage
<1> HIDE DEF t, e
<1>2. /\ Len(q) \in Nat /\ DOMAIN z = 1 .. Len(q) + 2 /\ DOMAIN q = 1 .. Len(q)
      /\ \A i \in 1 .. Len(q) : z[i] = q[i]
      /\ z[Len(q) + 1] = t /\ z[Len(q) + 2] = e
  BY <1>1, TwoMore
<1> HIDE DEF z
<1>3. \A i \in DOMAIN z : i \in DOMAIN q \/ i = Len(q) + 1 \/ i = Len(q) + 2
  BY <1>2
<1>4. Len(q) + 1 \notin EventPlaces(z) /\ Len(q) + 2 \notin EventPlaces(z)
  BY <1>1, <1>2 DEF EventPlaces
<1>5. \A i \in DOMAIN q : i \in DOMAIN z /\ z[i] = q[i]
  BY <1>2
<1>6. \A i : i \in EventPlaces(z) <=> i \in EventPlaces(q)
  BY <1>3, <1>4, <1>5 DEF EventPlaces
<1>7. EventPlaces(z) = EventPlaces(q)
  BY <1>6 DEF EventPlaces
<1> QED
  BY <1>7 DEF z, t, e

\* A reply that is earned (leme_ipc_client_fail and the replies that succeed).
LEMMA ReplyHandled ==
  ASSUME around \in Scenarios, NEW s, NEW c \in Clients, Ready(s, c),
         NEW r \in around.requests, NEW ok \in BOOLEAN, r.length <= MaxLine,
         ok => r.verb \in {"get", "subscribe", "set"}
  PROVE  Reply(s, c, r, ok) \in Worlds /\ Apart(s, Reply(s, c, r, ok), c)
         /\ Reply(s, c, r, ok).server = s.server /\ Answered(s, Reply(s, c, r, ok), c)
<1> DEFINE n == s.history.answered[c] + 1
           k == s.client[c]
           m == [kind |-> "reply", n |-> n, to |-> r, ok |-> ok]
           z == Send(k, m)
           t == Answer(s, c, z, n)
           h == s.history.heard[c]
<1>1. /\ s \in Worlds /\ k \in Connections /\ s.history.answered[c] \in Nat
      /\ h \in {NONE} \cup Units
  BY WorldFields DEF Ready
<1>2. n \in Nat /\ n \in 1 .. around.sent /\ s.history.answered[c] <= n /\ s.history.answered[c] < n
  BY <1>1, Bounds DEF Ready
<1>3. m \in Message /\ m.kind = "reply" /\ m.n = n /\ Earned(m)
  <2>1. m \in Message
    BY <1>2 DEF Message
  <2> QED
    BY <2>1 DEF Earned
<1>4. Reply(s, c, r, ok) = t
  BY DEF Reply, Answer
<1>5. k.state = "open" /\ Fits(k) /\ FramedAfter(h, Pending(k)) /\ Numbered(Pending(k), s.history.answered[c])
  BY DEF Ready, Spoken
<1>6. Pending(k) \in Seq(Units)
  BY <1>1, Typed
<1> HIDE DEF m
<1>7. /\ z \in Connections /\ SameBut(z, k) /\ Fits(z) /\ z.state \in {k.state, "failed"}
      /\ z.state # "failed" =>
           k.state # "failed" /\ Pending(z) = Append(Append(Pending(k), Text(m)), End(m))
  BY <1>1, <1>3, <1>5, SendWhole
<1> HIDE DEF z
<1>8. /\ t \in Worlds /\ t.server = s.server
      /\ t.client[c] = z /\ \A d \in Clients \ {c} : t.client[d] = s.client[d]
      /\ t.history.answered[c] = n
      /\ \A d \in Clients \ {c} : t.history.answered[d] = s.history.answered[d]
      /\ t.history.asked = s.history.asked /\ t.history.heard = s.history.heard
      /\ t.history.told = s.history.told /\ t.history.changes = s.history.changes
      /\ t.history.locks = s.history.locks /\ t.history.commands = s.history.commands
  <2>1. s \in Worlds /\ z \in Connections /\ n \in Nat
    BY <1>1, <1>2, <1>7
  <2> HIDE DEF n
  <2> QED
    BY <2>1, AnswerFields
<1>9. ASSUME z.state # "failed"
      PROVE  /\ FramedAfter(h, Pending(z)) /\ Numbered(Pending(z), n)
             /\ EventPlaces(Pending(z)) = EventPlaces(Pending(k))
  <2> DEFINE q == Pending(k)
             b == s.history.answered[c]
  <2>1. q \in Seq(Units) /\ Pending(z) = Append(Append(q, Text(m)), End(m))
    BY <1>6, <1>7, <1>9
  <2>2. FramedAfter(h, q) /\ Numbered(q, b) /\ b \in Nat /\ b <= n /\ b < n
    BY <1>1, <1>2, <1>5
  <2>3. \A u \in Units : IsReply(u) => u.message.n \in Nat
    BY Bounds
  <2> HIDE DEF q, b, n, h
  <2>4. FramedAfter(h, Append(Append(q, Text(m)), End(m)))
    BY <1>1, <1>3, <2>1, <2>2, FramedAfterMore
  <2>5. Numbered(Append(Append(q, Text(m)), End(m)), n)
    BY <1>2, <1>3, <2>1, <2>2, <2>3, NumberedMore
  <2>6. EventPlaces(Append(Append(q, Text(m)), End(m))) = EventPlaces(q)
    BY <1>3, <2>1, PlacesKept
  <2> QED
    BY <2>1, <2>4, <2>5, <2>6 DEF q
<1>10. Apart(s, t, c)
  <2> HIDE DEF t
  <2>1. Published(s) => Published(t)
    BY <1>8 DEF Published
  <2> QED
    BY <1>8, <2>1 DEF Apart
<1>11. Answered(s, t, c)
  <2> HIDE DEF t, n
  <2>1. z.hangup = k.hangup /\ z.wire = k.wire /\ z.input = k.input /\ z.state \in {"open", "failed"}
    BY <1>5, <1>7 DEF SameBut
  <2>2. Spoken(t.client[c], t.history.answered[c], t.history.heard[c])
    BY <1>8, <1>9 DEF Spoken
  <2>3. Truthful(s.client[c], s.history.told[c], s.server.snapshot)
          => Truthful(t.client[c], t.history.told[c], t.server.snapshot)
    BY <1>5, <1>7, <1>8 DEF Truthful, SameBut
  <2>4. t.history.answered[c] = s.history.answered[c] + 1
    BY <1>8 DEF n
  <2>5. t.client[c].state # "failed" =>
          EventPlaces(Pending(t.client[c])) = EventPlaces(Pending(s.client[c]))
    BY <1>8, <1>9
  <2> QED
    BY <1>7, <1>8, <2>1, <2>2, <2>3, <2>4, <2>5 DEF Answered
<1> HIDE DEF t
<1> QED
  BY <1>4, <1>8, <1>10, <1>11

\* A blank line is passed over.
LEMMA BlankHandled ==
  ASSUME around \in Scenarios, NEW s, NEW c \in Clients, Ready(s, c)
  PROVE  LET t == [s EXCEPT !.history.answered[c] = s.history.answered[c] + 1]
         IN t \in Worlds /\ Apart(s, t, c) /\ Answered(s, t, c)
<1> DEFINE n == s.history.answered[c] + 1
           k == s.client[c]
           t == Answer(s, c, k, n)
           u == [s EXCEPT !.history.answered[c] = s.history.answered[c] + 1]
<1>1. /\ s \in Worlds /\ k \in Connections /\ s.history.answered[c] \in Nat
  BY WorldFields DEF Ready
<1>2. n \in Nat /\ s.history.answered[c] <= n
  BY <1>1
<1>3. u = t
  <2>1. s.client \in [Clients -> Connections]
    BY <1>1, WorldFields
  <2>2. [s.client EXCEPT ![c] = k] = s.client
    BY <2>1
  <2>3. s = [s EXCEPT !.client = s.client]
    BY <1>1 DEF Worlds
  <2>4. t = [s EXCEPT !.client = [s.client EXCEPT ![c] = k],
                      !.history = [s.history EXCEPT !.answered = [s.history.answered EXCEPT ![c] = n]]]
    BY DEF Answer
  <2>5. u = [s EXCEPT !.history = [s.history EXCEPT !.answered = [s.history.answered EXCEPT ![c] = n]]]
    OBVIOUS
  <2> DEFINE hist == [s.history EXCEPT !.answered = [s.history.answered EXCEPT ![c] = n]]
             same == [s EXCEPT !.client = s.client, !.history = hist]
             new == [s EXCEPT !.history = hist]
  <2> HIDE DEF hist
  <2>6. same = new
    BY <1>1 DEF Worlds
  <2>7. t = same
    BY <2>2, <2>4 DEF hist
  <2>8. u = new
    BY <2>5 DEF hist
  <2> HIDE DEF same, new, t, u
  <2> QED
    BY <2>6, <2>7, <2>8
<1>4. k.state = "open" /\ Fits(k) /\ FramedAfter(s.history.heard[c], Pending(k))
      /\ Numbered(Pending(k), s.history.answered[c])
  BY DEF Ready, Spoken
<1>5. Pending(k) \in Seq(Units)
  BY <1>1, Typed
<1>6. Numbered(Pending(k), n)
  <2> DEFINE b == s.history.answered[c]
             q == Pending(k)
  <2>1. q \in Seq(Units) /\ b \in Nat /\ b <= n /\ Numbered(q, b)
        /\ \A v \in Units : IsReply(v) => v.message.n \in Nat
    BY <1>1, <1>2, <1>4, <1>5, Bounds
  <2> HIDE DEF q, b, n
  <2>2. Numbered(q, n)
    BY <1>2, <2>1, NumberedBeyond
  <2> QED
    BY <2>2 DEF q
<1>7. s \in Worlds /\ k \in Connections /\ n \in Nat
  BY <1>1, <1>2
<1>8. /\ t \in Worlds /\ t.server = s.server
      /\ t.client[c] = k /\ \A d \in Clients \ {c} : t.client[d] = s.client[d]
      /\ t.history.answered[c] = n
      /\ \A d \in Clients \ {c} : t.history.answered[d] = s.history.answered[d]
      /\ t.history.asked = s.history.asked /\ t.history.heard = s.history.heard
      /\ t.history.told = s.history.told /\ t.history.changes = s.history.changes
      /\ t.history.locks = s.history.locks /\ t.history.commands = s.history.commands
  <2> HIDE DEF n, k
  <2> QED
    BY <1>7, AnswerFields
<1> HIDE DEF t
<1>9. Apart(s, t, c)
  <2>1. Published(s) => Published(t)
    BY <1>8 DEF Published
  <2> QED
    BY <1>8, <2>1 DEF Apart
<1>10. Answered(s, t, c)
  <2>1. Spoken(t.client[c], t.history.answered[c], t.history.heard[c])
    BY <1>4, <1>6, <1>8 DEF Spoken
  <2>2. Fits(t.client[c]) /\ t.client[c].state \in {"open", "failed"}
    BY <1>4, <1>8
  <2> QED
    BY <1>8, <2>1, <2>2 DEF Answered
<1> HIDE DEF u
<1>11. u \in Worlds /\ Apart(s, u, c) /\ Answered(s, u, c)
  BY <1>3, <1>8, <1>9, <1>10
<1> QED
  BY <1>11 DEF u

\* A command that sets a field asks for a reconciliation, unless a panel stops it.
LEMMA SetFields ==
  ASSUME NEW s \in Worlds, NEW f \in Fields, NEW v \in Values \cup {NONE}
  PROVE  LET t == Set(s, f, v)
         IN /\ t \in Worlds /\ t.client = s.client /\ t.history = s.history
            /\ t.server.snapshot = s.server.snapshot /\ t.server.locked = s.server.locked
            /\ t.server.clients = s.server.clients /\ t.server.count = s.server.count
            /\ Published(t)
<1> DEFINE yes == TRUE
           now1 == [s.server.now EXCEPT ![f] = v]
           server1 == [s.server EXCEPT !.now = now1]
           t1 == [s EXCEPT !.server = server1]
           server2 == [server1 EXCEPT !.idle = yes]
           t2 == [t1 EXCEPT !.server = server2]
<1>1. s.server \in Servers /\ s.server.now \in State
  BY WorldFields DEF Servers
<1>2. now1 \in State
  BY <1>1 DEF State
<1>3. yes \in BOOLEAN /\ yes
  OBVIOUS
<1>4. [s EXCEPT !.server.now[f] = v] = t1
  OBVIOUS
<1>5. [t1 EXCEPT !.server.idle = TRUE] = t2
  BY DEF Worlds
<1> HIDE DEF now1, yes
<1>6. /\ server1 \in Servers /\ server1.snapshot = s.server.snapshot
      /\ server1.locked = s.server.locked /\ server1.exclusive = s.server.exclusive
      /\ server1.clients = s.server.clients /\ server1.count = s.server.count
  BY <1>1, <1>2 DEF Servers
<1> HIDE DEF server1
<1>7. t1 \in Worlds /\ t1.server = server1 /\ t1.client = s.client /\ t1.history = s.history
  BY <1>6 DEF Worlds
<1>8. /\ server2 \in Servers /\ server2.snapshot = s.server.snapshot
      /\ server2.locked = s.server.locked /\ server2.idle
      /\ server2.clients = s.server.clients /\ server2.count = s.server.count
  BY <1>3, <1>6 DEF Servers
<1> HIDE DEF server2, t1
<1>9. t2 \in Worlds /\ t2.server = server2 /\ t2.client = s.client /\ t2.history = s.history
  BY <1>7, <1>8 DEF Worlds
<1>10. CASE f \in Spaces /\ s.server.exclusive
  <2>1. Set(s, f, v) = t1
    BY <1>4, <1>10 DEF Set
  <2>2. Published(t1)
    BY <1>6, <1>7, <1>10 DEF Published
  <2> QED
    BY <1>6, <1>7, <2>1, <2>2
<1>11. CASE ~(f \in Spaces /\ s.server.exclusive)
  <2>1. Set(s, f, v) = t2
    BY <1>4, <1>5, <1>11 DEF Set, Invalidate
  <2> HIDE DEF t2
  <2>2. Published(t2)
    BY <1>8, <1>9 DEF Published
  <2> QED
    BY <1>8, <1>9, <2>1, <2>2
<1> QED
  BY <1>10, <1>11

\* leme_ipc_client_command
LEMMA CommandHandled ==
  ASSUME around \in Scenarios, NEW s, NEW c \in Clients, Ready(s, c),
         NEW r \in around.requests, r.length <= MaxLine, r.verb \in {"set", "refused", "invalid"}
  PROVE  LET t == Command(s, c, r)
         IN t \in Worlds /\ Apart(s, t, c) /\ Answered(s, t, c)
<1>1. CASE s.server.locked \/ r.verb \in {"invalid", "refused"} \/ s.server.now[r.field] = NONE
  <2> DEFINE no == FALSE
             t == Reply(s, c, r, no)
  <2>1. Command(s, c, r) = t
    BY <1>1 DEF Command
  <2>2. no \in BOOLEAN /\ (no => r.verb \in {"get", "subscribe", "set"})
    OBVIOUS
  <2> HIDE DEF no
  <2>3. t \in Worlds /\ Apart(s, t, c) /\ Answered(s, t, c)
    BY <2>2, ReplyHandled
  <2> HIDE DEF t
  <2> QED
    BY <2>1, <2>3
<1>2. CASE ~(s.server.locked \/ r.verb \in {"invalid", "refused"} \/ s.server.now[r.field] = NONE)
  <2> DEFINE yes == TRUE
             commands == s.history.commands + 1
             history1 == [s.history EXCEPT !.commands = commands]
             s1 == [s EXCEPT !.history = history1]
             u == Set(s1, r.field, r.value)
             t == Reply(u, c, r, yes)
  <2>1. Command(s, c, r) = t
    BY <1>2 DEF Command
  <2>2. r.verb = "set" /\ r.field \in Fields /\ r.value \in Values \cup {NONE}
    BY <1>2, IpcAssumption
  <2>3. yes \in BOOLEAN /\ (yes => r.verb \in {"get", "subscribe", "set"})
    BY <2>2
  <2> HIDE DEF yes
  <2>4. s \in Worlds /\ s.history \in Histories
    BY WorldFields DEF Ready
  <2>5. commands \in Nat
    BY <2>4 DEF Histories
  <2> HIDE DEF commands
  <2>6. /\ history1 \in Histories /\ history1.asked = s.history.asked
        /\ history1.answered = s.history.answered /\ history1.heard = s.history.heard
        /\ history1.told = s.history.told /\ history1.changes = s.history.changes
        /\ history1.locks = s.history.locks
    BY <2>4, <2>5 DEF Histories
  <2> HIDE DEF history1
  <2>7. s1 \in Worlds /\ s1.server = s.server /\ s1.client = s.client /\ s1.history = history1
    BY <2>4, <2>6 DEF Worlds
  <2> HIDE DEF s1
  <2>8. /\ u \in Worlds /\ u.client = s1.client /\ u.history = s1.history
        /\ u.server.snapshot = s1.server.snapshot /\ u.server.locked = s1.server.locked
        /\ u.server.clients = s1.server.clients /\ u.server.count = s1.server.count
        /\ Published(u)
    BY <2>2, <2>7, SetFields
  <2> HIDE DEF u
  <2>9. Ready(u, c)
    BY <2>6, <2>7, <2>8 DEF Ready
  <2>10. t \in Worlds /\ Apart(u, t, c) /\ Answered(u, t, c)
    BY <2>3, <2>9, ReplyHandled
  <2> HIDE DEF t
  <2>11. Apart(s, t, c)
    BY <1>2, <2>6, <2>7, <2>8, <2>10 DEF Apart
  <2>12. Answered(s, t, c)
    BY <2>6, <2>7, <2>8, <2>10 DEF Answered
  <2> QED
    BY <2>1, <2>10, <2>11, <2>12
<1> QED
  BY <1>1, <1>2

\* leme_ipc_client_subscribe: the client is told of nothing that it will not hear later.
LEMMA SubscribeHandled ==
  ASSUME around \in Scenarios, NEW s, NEW c \in Clients, Ready(s, c),
         NEW r \in around.requests, r.length <= MaxLine, r.verb = "subscribe"
  PROVE  LET t == Subscribe(s, c, r)
         IN t \in Worlds /\ Apart(s, t, c) /\ Answered(s, t, c)
<1> DEFINE k == s.client[c]
           events == IF r.names = {} THEN Events ELSE r.names
           added == events \ k.events
<1>1. s \in Worlds /\ k \in Connections /\ s.history \in Histories
      /\ s.server \in Servers /\ s.history.told[c] \in State /\ s.client \in [Clients -> Connections]
  BY WorldFields DEF Ready
<1>2. CASE ~(events \subseteq Events)
  <2> DEFINE no == FALSE
             t == Reply(s, c, r, no)
  <2>1. Subscribe(s, c, r) = t
    BY <1>2 DEF Subscribe
  <2>2. no \in BOOLEAN /\ (no => r.verb \in {"get", "subscribe", "set"})
    OBVIOUS
  <2> HIDE DEF no
  <2>3. t \in Worlds /\ Apart(s, t, c) /\ Answered(s, t, c)
    BY <2>2, ReplyHandled
  <2> HIDE DEF t
  <2> QED
    BY <2>1, <2>3
<1>3. CASE events \subseteq Events
  <2> DEFINE yes == TRUE
             all == k.events \cup events
             j == [k EXCEPT !.events = all, !.subscribed = yes]
             telling == [f \in Fields |->
                           IF EventOf(f) \in added THEN s.server.snapshot[f] ELSE s.history.told[c][f]]
             told1 == [s.history.told EXCEPT ![c] = telling]
             client1 == [s.client EXCEPT ![c] = j]
             history1 == [s.history EXCEPT !.told = told1]
             u == [s EXCEPT !.client = client1, !.history = history1]
             t == Reply(u, c, r, yes)
  <2>1. Subscribe(s, c, r) = t
    BY <1>1, <1>3, ZenonT(90) DEF Subscribe, Worlds
  <2>2. yes \in BOOLEAN /\ yes /\ (yes => r.verb \in {"get", "subscribe", "set"})
    OBVIOUS
  <2> HIDE DEF yes, events
  <2>3. all \subseteq Events
    BY <1>1, <1>3 DEF Connections
  <2>4. \A f \in Fields : EventOf(f) \in all => EventOf(f) \in added \/ EventOf(f) \in k.events
    OBVIOUS
  <2> HIDE DEF all
  <2>5. /\ j \in Connections /\ j.events = all /\ j.subscribed /\ j.hangup = k.hangup
        /\ j.wire = k.wire /\ j.input = k.input /\ j.state = k.state
        /\ j.output = k.output /\ j.socket = k.socket
    BY <1>1, <2>2, <2>3 DEF Connections
  <2> HIDE DEF j, added
  <2>6. s.server.snapshot \in State /\ s.history.told[c] \in State
    BY <1>1 DEF Servers
  <2>7. telling \in State
        /\ \A f \in Fields : telling[f] = IF EventOf(f) \in added THEN s.server.snapshot[f]
                                          ELSE s.history.told[c][f]
    BY <2>6 DEF State
  <2> HIDE DEF telling
  <2>8. /\ told1 \in [Clients -> State] /\ told1[c] = telling
        /\ \A d \in Clients \ {c} : told1[d] = s.history.told[d]
    BY <1>1, <2>7 DEF Histories
  <2>9. /\ client1 \in [Clients -> Connections] /\ client1[c] = j
        /\ \A d \in Clients \ {c} : client1[d] = s.client[d]
    BY <1>1, <2>5
  <2> HIDE DEF told1, client1
  <2>10. /\ history1 \in Histories /\ history1.told = told1 /\ history1.asked = s.history.asked
         /\ history1.answered = s.history.answered /\ history1.heard = s.history.heard
         /\ history1.changes = s.history.changes /\ history1.locks = s.history.locks
         /\ history1.commands = s.history.commands
    BY <1>1, <2>8 DEF Histories
  <2> HIDE DEF history1
  <2>11. u \in Worlds /\ u.server = s.server /\ u.client = client1 /\ u.history = history1
    BY <1>1, <2>9, <2>10 DEF Worlds
  <2> HIDE DEF u
  <2>12. Pending(j) = Pending(k) /\ (Fits(k) => Fits(j))
    BY <2>5 DEF Pending, Fits
  <2>13. Ready(u, c)
    BY <2>5, <2>9, <2>10, <2>11, <2>12 DEF Ready, Spoken
  <2>14. t \in Worlds /\ Apart(u, t, c) /\ Answered(u, t, c)
    BY <2>2, <2>13, ReplyHandled
  <2> HIDE DEF t
  <2>15. Apart(s, t, c)
    <3>1. Published(s) => Published(u)
      BY <2>11 DEF Published
    <3> QED
      BY <2>8, <2>9, <2>10, <2>11, <2>14, <3>1 DEF Apart
  <2>16. Truthful(s.client[c], s.history.told[c], s.server.snapshot)
           => Truthful(u.client[c], u.history.told[c], u.server.snapshot)
    <3>1. k.state = "open"
      BY DEF Ready
    <3>2. u.client[c].state = "open" /\ u.client[c].events = all /\ u.client[c].subscribed
          /\ u.history.told[c] = telling /\ u.server.snapshot = s.server.snapshot
      BY <2>5, <2>8, <2>9, <2>10, <2>11, <3>1
    <3> QED
      BY <2>4, <2>7, <3>1, <3>2 DEF Truthful
  <2>17. Answered(s, t, c)
    BY <2>5, <2>9, <2>10, <2>11, <2>12, <2>14, <2>16 DEF Answered
  <2> QED
    BY <2>1, <2>14, <2>15, <2>17
<1> QED
  BY <1>2, <1>3

\* leme_ipc_client_dispatch
LEMMA DispatchHandled ==
  ASSUME around \in Scenarios, NEW s, NEW c \in Clients, Ready(s, c),
         NEW r \in around.requests, r.length <= MaxLine
  PROVE  LET t == Dispatch(s, c, r)
         IN t \in Worlds /\ Apart(s, t, c) /\ Answered(s, t, c)
<1>1. CASE r.verb = "blank"
  <2> DEFINE t == [s EXCEPT !.history.answered[c] = s.history.answered[c] + 1]
  <2>1. Dispatch(s, c, r) = t
    BY <1>1 DEF Dispatch
  <2>2. t \in Worlds /\ Apart(s, t, c) /\ Answered(s, t, c)
    BY BlankHandled
  <2> HIDE DEF t
  <2> QED
    BY <2>1, <2>2
<1>2. CASE r.verb = "get"
  <2> DEFINE ok == Answers(s, r.path)
             t == Reply(s, c, r, ok)
  <2>1. Dispatch(s, c, r) = t
    BY <1>2 DEF Dispatch
  <2>2. ok \in BOOLEAN /\ (ok => r.verb \in {"get", "subscribe", "set"})
    BY <1>2 DEF Answers
  <2> HIDE DEF ok
  <2>3. t \in Worlds /\ Apart(s, t, c) /\ Answered(s, t, c)
    BY <2>2, ReplyHandled
  <2> HIDE DEF t
  <2> QED
    BY <2>1, <2>3
<1>3. CASE r.verb = "subscribe"
  <2>1. Dispatch(s, c, r) = Subscribe(s, c, r)
    BY <1>3 DEF Dispatch
  <2> QED
    BY <1>3, <2>1, SubscribeHandled
<1>4. CASE r.verb \in {"set", "refused", "invalid"}
  <2>1. Dispatch(s, c, r) = Command(s, c, r)
    BY <1>4 DEF Dispatch
  <2> QED
    BY <1>4, <2>1, CommandHandled
<1>5. r.verb \in {"blank", "get", "subscribe", "set", "refused", "invalid"}
  BY IpcAssumption
<1> QED
  BY <1>1, <1>2, <1>3, <1>4, <1>5

-----------------------------------------------------------------------------
(* The bytes of one recv.                                                  *)

\* A client between two bytes, which was as k0 at the first.
Between(s, c, k0) ==
  /\ s.client[c].state \in {"open", "failed"}
  /\ Kept(s.client[c], s.history.asked[c], s.history.answered[c], s.history.heard[c])
  /\ Truthful(s.client[c], s.history.told[c], s.server.snapshot)
  /\ s.client[c].state # "failed" => EventPlaces(Pending(s.client[c])) = EventPlaces(Pending(k0))

LEMMA ApartTransitive ==
  ASSUME NEW s, NEW u, NEW t, NEW c \in Clients, Apart(s, u, c), Apart(u, t, c)
  PROVE  Apart(s, t, c)
<1>1. /\ t.server.snapshot = s.server.snapshot /\ t.server.locked = s.server.locked
      /\ t.server.clients = s.server.clients /\ t.server.count = s.server.count
      /\ Published(s) => Published(t)
  BY DEF Apart
<1>2. \A d \in Clients \ {c} :
        /\ t.client[d] = s.client[d] /\ t.history.answered[d] = s.history.answered[d]
        /\ t.history.told[d] = s.history.told[d]
  BY DEF Apart
<1>3. /\ t.history.asked = s.history.asked /\ t.history.heard = s.history.heard
      /\ t.history.changes = s.history.changes /\ t.history.locks = s.history.locks
      /\ s.server.locked => t.history.commands = s.history.commands
  BY DEF Apart
<1> QED
  BY <1>1, <1>2, <1>3 DEF Apart

LEMMA PutFields ==
  ASSUME NEW s \in Worlds, NEW c \in Clients, NEW k \in Connections
  PROVE  LET t == [s EXCEPT !.client[c] = k]
         IN /\ t \in Worlds /\ t.server = s.server /\ t.history = s.history
            /\ t.client[c] = k /\ (\A d \in Clients \ {c} : t.client[d] = s.client[d])
            /\ Apart(s, t, c)
<1> DEFINE clients == [s.client EXCEPT ![c] = k]
           t == [s EXCEPT !.client = clients]
<1>1. s.client \in [Clients -> Connections]
  BY WorldFields
<1>2. /\ clients \in [Clients -> Connections] /\ clients[c] = k
      /\ \A d \in Clients \ {c} : clients[d] = s.client[d]
  BY <1>1
<1>3. [s EXCEPT !.client[c] = k] = t
  OBVIOUS
<1> HIDE DEF clients
<1>4. t \in Worlds /\ t.server = s.server /\ t.history = s.history /\ t.client = clients
  BY <1>2 DEF Worlds
<1> HIDE DEF t
<1>5. Published(s) => Published(t)
  BY <1>4 DEF Published
<1>6. Apart(s, t, c)
  BY <1>2, <1>4, <1>5 DEF Apart
<1> QED
  BY <1>2, <1>3, <1>4, <1>6

\* One byte of leme_ipc_handle_client
LEMMA TakeHandled ==
  ASSUME around \in Scenarios, NEW s \in Worlds, NEW c \in Clients, NEW k0, Between(s, c, k0),
         s.client[c].state = "open", s.client[c].wire # <<>>
  PROVE  LET t == Take(s, c)
         IN /\ t \in Worlds /\ Apart(s, t, c) /\ Between(t, c, k0)
            /\ t.client[c].state # "failed" => t.client[c].wire = Tail(s.client[c].wire)
<1> DEFINE k == s.client[c]
           w == k.wire
           asked == s.history.asked[c]
           answered == s.history.answered[c]
           heard == s.history.heard[c]
<1>1. k \in Connections /\ asked \in Nat /\ answered \in Nat /\ s.client \in [Clients -> Connections]
  BY WorldFields
<1>2. /\ w \in Seq(Bytes) /\ w # <<>> /\ k.input \in Nat /\ k.input <= MaxLine
      /\ k.input \in 0 .. MaxLine /\ MaxLine \in Nat
  <2>1. MaxLine \in Nat
    BY IpcAssumption
  <2> QED
    BY <1>1, <2>1 DEF Connections
<1>3. /\ Fits(k) /\ FramedAfter(heard, Pending(k)) /\ Numbered(Pending(k), answered)
      /\ asked \in 0 .. around.sent /\ answered \in 0 .. asked
      /\ Lined(w, k.input) /\ answered + Cardinality(Newlines(w)) = asked
      /\ Truthful(k, s.history.told[c], s.server.snapshot)
      /\ EventPlaces(Pending(k)) = EventPlaces(Pending(k0))
  BY DEF Between, Kept, Asked, Fits
<1>4. /\ Tail(w) \in Seq(Bytes) /\ Head(w) \in Bytes /\ Head(w).newline \in BOOLEAN
      /\ (Head(w).newline => Head(w).says \in around.requests)
  BY <1>2, TailBytes, Bounds
<1>5. Cardinality(Newlines(w)) = Cardinality(Newlines(Tail(w))) + (IF Head(w).newline THEN 1 ELSE 0)
      /\ Cardinality(Newlines(Tail(w))) \in Nat
  BY <1>2, <1>4, NewlinesTail, NewlinesFinite
<1>6. /\ Head(w).newline => Head(w).says.length = k.input /\ Lined(Tail(w), 0)
      /\ ~Head(w).newline => Lined(Tail(w), k.input + 1)
  <2> DEFINE ww == w
             input == k.input
  <2>1. ww \in Seq(Bytes) /\ ww # <<>> /\ input \in Nat /\ Lined(ww, input)
    BY <1>2, <1>3
  <2> HIDE DEF ww, input
  <2>2. /\ Head(ww).newline => Head(ww).says.length = input /\ Lined(Tail(ww), 0)
        /\ ~Head(ww).newline => Lined(Tail(ww), input + 1)
    BY <2>1, LinedTail
  <2> QED
    BY <2>2 DEF ww, input
<1>7. ~Failed(s, c)
  BY DEF Failed
<1> DEFINE rest == Tail(w)
           t1 == [s EXCEPT !.client[c].wire = rest]
<1>8. CASE Head(w).newline
  <2> DEFINE j == [k EXCEPT !.wire = rest, !.input = 0]
             u == [s EXCEPT !.client[c] = j]
             r == Head(w).says
             t == Dispatch(u, c, r)
  <2>1. Take(s, c) = t
    BY <1>1, <1>7, <1>8 DEF Take, Worlds
  <2> HIDE DEF rest
  <2>2. rest \in Seq(Bytes) /\ 0 \in 0 .. MaxLine
    BY <1>2, <1>4 DEF rest
  <2>3. /\ j \in Connections /\ j.wire = rest /\ j.input = 0 /\ j.hangup = k.hangup /\ j.state = k.state
        /\ j.output = k.output /\ j.socket = k.socket /\ j.subscribed = k.subscribed
        /\ j.events = k.events
    BY <1>1, <2>2 DEF Connections
  <2> HIDE DEF j
  <2>4. /\ u \in Worlds /\ u.server = s.server /\ u.history = s.history
        /\ u.client[c] = j /\ (\A d \in Clients \ {c} : u.client[d] = s.client[d])
        /\ Apart(s, u, c)
    BY <2>3, PutFields
  <2> HIDE DEF u
  <2>5. Pending(j) = Pending(k) /\ Fits(j)
    BY <1>3, <2>3 DEF Pending, Fits
  <2>6. answered + 1 + Cardinality(Newlines(rest)) = asked /\ Cardinality(Newlines(rest)) \in Nat
        /\ answered + 1 \in 0 .. asked /\ answered + 1 <= around.sent
    <3> DEFINE lines == Cardinality(Newlines(rest))
               all == Cardinality(Newlines(w))
    <3>1. lines \in Nat /\ all = lines + 1 /\ answered + all = asked /\ answered \in Nat
          /\ asked \in Nat /\ asked <= around.sent /\ around.sent \in Nat
      BY <1>1, <1>3, <1>5, <1>8, Bounds DEF rest
    <3> HIDE DEF lines, all, answered, asked
    <3>2. answered + 1 + lines = asked /\ answered + 1 \in 0 .. asked /\ answered + 1 <= around.sent
      BY <3>1
    <3> QED
      BY <3>1, <3>2 DEF lines
  <2>7. Ready(u, c)
    BY <1>3, <2>3, <2>4, <2>5, <2>6 DEF Ready, Spoken
  <2>8. r \in around.requests /\ r.length <= MaxLine
    BY <1>2, <1>4, <1>6, <1>8
  <2> HIDE DEF r
  <2>9. t \in Worlds /\ Apart(u, t, c) /\ Answered(u, t, c)
    BY <2>7, <2>8, DispatchHandled
  <2> HIDE DEF t
  <2>10. Apart(s, t, c)
    BY <2>4, <2>9, ApartTransitive
  <2> DEFINE z == t.client[c]
  <2>11. /\ z.wire = rest /\ z.input = 0 /\ z.state \in {"open", "failed"} /\ Fits(z)
         /\ t.history.answered[c] = answered + 1 /\ t.history.asked[c] = asked
         /\ t.history.heard[c] = heard
         /\ Spoken(z, answered + 1, heard)
         /\ Truthful(z, t.history.told[c], t.server.snapshot)
         /\ (z.state # "failed" => EventPlaces(Pending(z)) = EventPlaces(Pending(k)))
    <3>1. Truthful(j, s.history.told[c], s.server.snapshot)
      BY <1>3, <2>3 DEF Truthful
    <3>2. t.history.asked = s.history.asked /\ t.history.heard = s.history.heard
      BY <2>4, <2>9 DEF Apart
    <3> QED
      BY <2>3, <2>4, <2>5, <2>9, <3>1, <3>2 DEF Answered
  <2>12. Lined(rest, 0)
    BY <1>6, <1>8 DEF rest
  <2>13. Kept(z, asked, answered + 1, heard)
    <3>1. Asked(z, asked, answered + 1)
      BY <1>3, <2>6, <2>11, <2>12, SMTT(60) DEF Asked
    <3> QED
      BY <2>11, <3>1 DEF Kept, Spoken, Fits
  <2>14. Between(t, c, k0)
    BY <1>3, <2>11, <2>13 DEF Between
  <2> QED
    BY <2>1, <2>9, <2>10, <2>11, <2>14 DEF rest
<1>9. CASE ~Head(w).newline /\ k.input >= MaxLine
  <2> DEFINE failed == "failed"
             j == [k EXCEPT !.wire = rest, !.state = failed]
             t == [s EXCEPT !.client[c] = j]
  <2>1. Take(s, c) = t
    BY <1>1, <1>7, <1>9, ZenonT(90) DEF Take, Worlds, Connections
  <2> HIDE DEF rest
  <2>2. rest \in Seq(Bytes)
    BY <1>4 DEF rest
  <2>3. /\ j \in Connections /\ j.state = "failed" /\ j.output = k.output /\ j.socket = k.socket
    BY <1>1, <2>2 DEF Connections
  <2> HIDE DEF j, failed
  <2>4. /\ t \in Worlds /\ t.server = s.server /\ t.history = s.history /\ t.client[c] = j
        /\ Apart(s, t, c)
    BY <2>3, PutFields
  <2> HIDE DEF t
  <2>5. Kept(j, asked, answered, heard)
    BY <1>3, <2>3 DEF Kept, Asked, Fits
  <2>6. Between(t, c, k0)
    BY <2>3, <2>4, <2>5 DEF Between, Truthful
  <2> QED
    BY <2>1, <2>3, <2>4, <2>6
<1>10. CASE ~Head(w).newline /\ ~(k.input >= MaxLine)
  <2> DEFINE input == k.input + 1
             j == [k EXCEPT !.wire = rest, !.input = input]
             t == [s EXCEPT !.client[c] = j]
  <2>1. Take(s, c) = t
    BY <1>1, <1>7, <1>10, ZenonT(90) DEF Take, Worlds, Connections
  <2>2. rest \in Seq(Bytes) /\ input \in 0 .. MaxLine
    BY <1>2, <1>4, <1>10, SMTT(60)
  <2>3. Lined(rest, input) /\ Cardinality(Newlines(rest)) = Cardinality(Newlines(w))
    <3>1. Cardinality(Newlines(rest)) \in Nat
      BY <1>5
    <3>2. Cardinality(Newlines(w)) = Cardinality(Newlines(rest)) + 0
      BY <1>5, <1>10
    <3>3. Cardinality(Newlines(rest)) + 0 = Cardinality(Newlines(rest))
      BY <3>1
    <3> QED
      BY <1>6, <1>10, <3>2, <3>3
  <2> HIDE DEF rest, input
  <2>4. /\ j \in Connections /\ j.state = k.state /\ j.output = k.output /\ j.socket = k.socket
        /\ j.wire = rest /\ j.input = input /\ j.subscribed = k.subscribed /\ j.events = k.events
    BY <1>1, <2>2 DEF Connections
  <2> HIDE DEF j
  <2>5. /\ t \in Worlds /\ t.server = s.server /\ t.history = s.history /\ t.client[c] = j
        /\ Apart(s, t, c)
    BY <2>4, PutFields
  <2> HIDE DEF t
  <2>6. Pending(j) = Pending(k)
    BY <2>4 DEF Pending
  <2>7. Kept(j, asked, answered, heard)
    BY <1>3, <2>3, <2>4, <2>6 DEF Kept, Asked, Fits
  <2>8. Truthful(j, s.history.told[c], s.server.snapshot)
    BY <1>3, <2>4 DEF Truthful
  <2>9. Between(t, c, k0)
    BY <1>3, <2>4, <2>5, <2>6, <2>7, <2>8 DEF Between
  <2> QED
    BY <2>1, <2>4, <2>5, <2>9 DEF rest
<1> QED
  BY <1>4, <1>8, <1>9, <1>10

\* One step of the loop of leme_ipc_handle_client.
TakeStep(s, c, f, i) == IF i = 0 THEN s ELSE Take(f[i - 1], c)

\* The worlds after each byte exist.
LEMMA TakenExists ==
  ASSUME NEW s, NEW c, NEW n \in Nat
  PROVE  \E f : f = [i \in 0 .. n |-> TakeStep(s, c, f, i)]
<1> DEFINE Good(k) == \E f : f = [i \in 0 .. k |-> TakeStep(s, c, f, i)]
           bad == {k \in Nat : ~Good(k)}
<1>1. SUFFICES ASSUME n \in bad PROVE FALSE
  OBVIOUS
<1>2. PICK k \in bad : \A m \in bad : k <= m
  <2> HIDE DEF bad
  <2>1. bad \subseteq Nat /\ bad # {}
    BY <1>1 DEF bad
  <2> QED
    BY <2>1, LeastNatural
<1>3. k # 0
  <2>1. SUFFICES ASSUME k = 0 PROVE Good(0)
    BY <1>2
  <2> DEFINE f == [i \in 0 .. 0 |-> s]
  <2>2. f = [i \in 0 .. 0 |-> TakeStep(s, c, f, i)]
    BY DEF TakeStep
  <2> QED
    BY <2>2
<1>4. k \in Nat /\ k - 1 \in Nat /\ ~Good(k)
  BY <1>2, <1>3
<1>5. Good(k - 1)
  <2> HIDE DEF Good
  <2>1. k - 1 \notin bad
    BY <1>2, <1>4
  <2> QED
    BY <1>4, <2>1
<1>6. PICK f : f = [i \in 0 .. k - 1 |-> TakeStep(s, c, f, i)]
  BY <1>5
<1> DEFINE g == [i \in 0 .. k |-> IF i < k THEN f[i] ELSE TakeStep(s, c, f, k)]
<1>7. ASSUME NEW i \in 0 .. k PROVE g[i] = TakeStep(s, c, g, i)
  <2>1. i \in Nat /\ i <= k
    BY <1>4, <1>7
  <2>2. i # 0 => g[i - 1] = f[i - 1]
    BY <1>4, <2>1
  <2>3. TakeStep(s, c, g, i) = TakeStep(s, c, f, i)
    BY <2>2 DEF TakeStep
  <2>4. CASE i < k
    <3>1. i \in 0 .. k - 1
      BY <1>4, <2>1, <2>4
    <3>2. f[i] = TakeStep(s, c, f, i)
      BY <1>6, <3>1
    <3> QED
      BY <2>3, <2>4, <3>2
  <2>5. CASE i = k
    BY <2>3, <2>5
  <2> QED
    BY <1>4, <2>1, <2>4, <2>5
<1>8. g = [i \in 0 .. k |-> TakeStep(s, c, g, i)]
  <2> DEFINE h == [i \in 0 .. k |-> TakeStep(s, c, g, i)]
  <2>1. \A i \in 0 .. k : g[i] = h[i]
    BY <1>7
  <2>2. g = [i \in 0 .. k |-> g[i]] /\ h = [i \in 0 .. k |-> h[i]]
    OBVIOUS
  <2> HIDE DEF g, h
  <2>3. [i \in 0 .. k |-> g[i]] = [i \in 0 .. k |-> h[i]]
    BY <2>1
  <2>4. g = h
    BY <2>2, <2>3
  <2> QED
    BY <2>4 DEF h
<1> QED
  <2> HIDE DEF g
  <2>1. Good(k)
    BY <1>8
  <2> QED
    BY <1>4, <2>1

\* The worlds after each byte.
Taken(s, c, n) ==
  LET taken[i \in 0 .. n] == IF i = 0 THEN s ELSE Take(taken[i - 1], c)
  IN taken

LEMMA TakenSteps ==
  ASSUME NEW s, NEW c, NEW n \in Nat
  PROVE  /\ Taken(s, c, n)[0] = s
         /\ \A i \in 1 .. n : Taken(s, c, n)[i] = Take(Taken(s, c, n)[i - 1], c)
<1>1. \E f : f = [i \in 0 .. n |-> TakeStep(s, c, f, i)]
  BY TakenExists
<1>2. Taken(s, c, n) = CHOOSE f : f = [i \in 0 .. n |-> TakeStep(s, c, f, i)]
  BY DEF Taken, TakeStep
<1>3. Taken(s, c, n) = [i \in 0 .. n |-> TakeStep(s, c, Taken(s, c, n), i)]
  BY <1>1, <1>2
<1> DEFINE f == Taken(s, c, n)
<1> HIDE DEF f
<1>4. f = [i \in 0 .. n |-> TakeStep(s, c, f, i)]
  BY <1>3 DEF f
<1>5. f[0] = s /\ \A i \in 1 .. n : f[i] = Take(f[i - 1], c)
  <2>1. \A i \in 0 .. n : f[i] = TakeStep(s, c, f, i)
    BY <1>4
  <2>2. 0 \in 0 .. n /\ \A i \in 1 .. n : i \in 0 .. n /\ i # 0
    OBVIOUS
  <2> QED
    BY <2>1, <2>2 DEF TakeStep
<1> QED
  BY <1>5 DEF f

\* However many bytes are taken, the client is as it should be or has failed.
LEMMA TakenHandled ==
  ASSUME around \in Scenarios, NEW s \in Worlds, NEW c \in Clients, NEW k0, Between(s, c, k0),
         s.client[c].state = "open", NEW n \in Nat, n <= Len(s.client[c].wire)
  PROVE  LET t == Taken(s, c, n)[n]
         IN t \in Worlds /\ Apart(s, t, c) /\ Between(t, c, k0)
<1> DEFINE f == Taken(s, c, n)
           w == s.client[c].wire
           Good(i) == /\ f[i] \in Worlds /\ Apart(s, f[i], c) /\ Between(f[i], c, k0)
                      /\ f[i].client[c].state # "failed" => Len(f[i].client[c].wire) = Len(w) - i
           bad == {i \in 0 .. n : ~Good(i)}
<1>1. f[0] = s /\ \A i \in 1 .. n : f[i] = Take(f[i - 1], c)
  BY TakenSteps
<1>2. w \in Seq(Bytes) /\ Len(w) \in Nat
  <2>1. s.client[c] \in Connections
    BY WorldFields
  <2>2. w \in Seq(Bytes)
    BY <2>1, Typed
  <2> HIDE DEF w
  <2> QED
    BY <2>2, LenProperties
<1> HIDE DEF f
<1>3. Good(0)
  <2>1. Apart(s, s, c)
    BY DEF Apart
  <2> QED
    BY <1>1, <1>2, <2>1
<1>4. ASSUME NEW i \in 1 .. n, Good(i - 1) PROVE Good(i)
  <2> DEFINE u == f[i - 1]
  <2>1. u \in Worlds /\ Apart(s, u, c) /\ Between(u, c, k0) /\ f[i] = Take(u, c)
    BY <1>1, <1>4
  <2>2. CASE u.client[c].state = "failed"
    <3>1. f[i] = u
      BY <2>1, <2>2 DEF Take, Failed
    <3> QED
      BY <2>1, <2>2, <3>1
  <2>3. CASE u.client[c].state # "failed"
    <3>1. u.client[c].state = "open"
      BY <2>1, <2>3 DEF Between
    <3>2. Len(u.client[c].wire) = Len(w) - (i - 1)
      BY <1>4, <2>3
    <3>3. u.client[c].wire \in Seq(Bytes)
      <4>1. u.client[c] \in Connections
        BY <2>1, WorldFields
      <4> QED
        BY <4>1, Typed
    <3>4. Len(u.client[c].wire) > 0
      BY <1>2, <3>2
    <3>5. u.client[c].wire # <<>>
      BY <3>4, EmptySeq
    <3> DEFINE t == Take(u, c)
    <3> HIDE DEF u
    <3>6. /\ t \in Worlds /\ Apart(u, t, c) /\ Between(t, c, k0)
          /\ t.client[c].state # "failed" => t.client[c].wire = Tail(u.client[c].wire)
      BY <2>1, <3>1, <3>5, TakeHandled
    <3>7. Len(Tail(u.client[c].wire)) = Len(u.client[c].wire) - 1
      BY <3>3, <3>5, TailBytes
    <3>8. (Len(w) - (i - 1)) - 1 = Len(w) - i
      BY <1>2
    <3>9. Apart(s, t, c)
      BY <2>1, <3>6, ApartTransitive
    <3> HIDE DEF t
    <3>10. f[i] = t
      BY <2>1 DEF t
    <3> QED
      BY <3>2, <3>6, <3>7, <3>8, <3>9, <3>10
  <2> QED
    BY <2>2, <2>3
<1>5. bad = {}
  <2>1. SUFFICES ASSUME bad # {} PROVE FALSE
    OBVIOUS
  <2>2. bad \subseteq Nat
    OBVIOUS
  <2>3. PICK i \in bad : \A m \in bad : i <= m
    <3> HIDE DEF bad
    <3> QED
      BY <2>1, <2>2, LeastNatural
  <2> HIDE DEF Good
  <2>4. i # 0 /\ i \in 0 .. n /\ ~Good(i)
    BY <1>3, <2>3
  <2>5. i \in 1 .. n /\ i - 1 \in 0 .. n /\ ~(i <= i - 1)
    BY <2>4
  <2>6. Good(i - 1)
    BY <2>3, <2>5
  <2> QED
    BY <1>4, <2>4, <2>5, <2>6
<1>6. Good(n)
  <2> HIDE DEF Good
  <2>1. n \in 0 .. n
    OBVIOUS
  <2> QED
    BY <1>5, <2>1
<1> QED
  BY <1>6 DEF f

-----------------------------------------------------------------------------
(* Clients that leave.                                                     *)

Gone == [Closed EXCEPT !.state = "gone"]

LEMMA GoneFields ==
  /\ Gone \in Connections /\ Gone.state = "gone" /\ Gone.output = <<>> /\ Gone.socket = <<>>
  /\ Gone.wire = <<>> /\ Gone.input = 0 /\ Gone.events = {} /\ Gone.hangup = FALSE
<1> DEFINE no == FALSE
           gone == "gone"
           start == "none"
           x == [state |-> start, hangup |-> no, wire |-> <<>>, input |-> 0, output |-> <<>>,
                 socket |-> <<>>, subscribed |-> no, events |-> {}]
           g == [x EXCEPT !.state = gone]
<1>1. Closed = x
  BY DEF Closed
<1>2. /\ no \in BOOLEAN /\ no = FALSE /\ gone = "gone"
      /\ {gone, start} \subseteq {"none", "waiting", "open", "failed", "gone"}
  OBVIOUS
<1>3. 0 \in 0 .. MaxLine
  BY IpcAssumption
<1>4. <<>> \in Seq(Units) /\ <<>> \in Seq(Bytes)
  OBVIOUS
<1> HIDE DEF no, gone, start
<1>5. x \in Connections
  BY <1>2, <1>3, <1>4 DEF Connections
<1>6. /\ x.output = <<>> /\ x.socket = <<>> /\ x.wire = <<>> /\ x.input = 0 /\ x.events = {}
      /\ x.hangup = no
  OBVIOUS
<1> HIDE DEF x
<1>7. /\ g \in Connections /\ g.state = gone /\ g.output = <<>> /\ g.socket = <<>>
      /\ g.wire = <<>> /\ g.input = 0 /\ g.events = {} /\ g.hangup = no
  BY <1>2, <1>5, <1>6 DEF Connections
<1>8. Gone = g
  BY <1>1 DEF Gone, gone
<1> HIDE DEF g
<1> QED
  BY <1>2, <1>7, <1>8

LEMMA GoneKept ==
  ASSUME NEW asked \in 0 .. around.sent, NEW answered \in 0 .. asked, NEW heard
  PROVE  Kept(Gone, asked, answered, heard)
<1>1. Len(Gone.output) <= MaxOutput /\ Len(Gone.socket) <= Room
  <2>1. MaxOutput \in Nat /\ Room \in Nat /\ Len(<<>>) = 0
    BY IpcAssumption
  <2> QED
    BY <2>1, GoneFields
<1>2. Asked(Gone, asked, answered)
  BY GoneFields DEF Asked
<1> HIDE DEF Gone
<1> QED
  BY <1>1, <1>2, GoneFields DEF Kept

LEMMA DestroyFields ==
  ASSUME NEW s \in Worlds, NEW gone, gone \subseteq s.server.clients,
         s.server.count = Cardinality(s.server.clients)
  PROVE  LET t == Destroy(s, gone)
         IN /\ t \in Worlds
            /\ \A c \in Clients : t.client[c] = IF c \in gone THEN Gone ELSE s.client[c]
            /\ \A c \in Clients : t.history.heard[c] = IF c \in gone THEN NONE ELSE s.history.heard[c]
            /\ t.server.clients = s.server.clients \ gone
            /\ t.server.count = Cardinality(t.server.clients) /\ t.server.count <= s.server.count
            /\ t.server.now = s.server.now /\ t.server.snapshot = s.server.snapshot
            /\ t.server.idle = s.server.idle /\ t.server.locked = s.server.locked
            /\ t.server.exclusive = s.server.exclusive
            /\ t.history.asked = s.history.asked /\ t.history.answered = s.history.answered
            /\ t.history.told = s.history.told /\ t.history.changes = s.history.changes
            /\ t.history.commands = s.history.commands /\ t.history.locks = s.history.locks
<1> DEFINE client1 == [c \in Clients |-> IF c \in gone THEN Gone ELSE s.client[c]]
           heard1 == [c \in Clients |-> IF c \in gone THEN NONE ELSE s.history.heard[c]]
           clients1 == s.server.clients \ gone
           count1 == s.server.count - Cardinality(gone)
           history1 == [s.history EXCEPT !.heard = heard1]
           server1 == [s.server EXCEPT !.clients = clients1, !.count = count1]
           t == [s EXCEPT !.client = client1, !.history = history1, !.server = server1]
<1>1. /\ s.server \in Servers /\ s.client \in [Clients -> Connections] /\ s.history \in Histories
      /\ \A c \in Clients : s.client[c] \in Connections /\ s.history.heard[c] \in {NONE} \cup Units
  BY WorldFields
<1>2. s.server.clients \subseteq Clients /\ s.server.count \in Nat
  BY <1>1 DEF Servers
<1>3. IsFiniteSet(s.server.clients) /\ IsFiniteSet(gone)
  <2>1. IsFiniteSet(Clients)
    BY IpcAssumption
  <2> QED
    BY <1>2, <2>1, FS_Subset
<1>4. count1 = Cardinality(clients1) /\ count1 \in Nat /\ count1 <= s.server.count
  <2> DEFINE all == s.server.clients
  <2>1. all = clients1 \cup gone /\ clients1 \cap gone = {} /\ clients1 \subseteq all
    OBVIOUS
  <2>2. IsFiniteSet(all) /\ IsFiniteSet(gone) /\ s.server.count = Cardinality(all)
    BY <1>3
  <2> HIDE DEF all, clients1
  <2>3. IsFiniteSet(clients1)
    BY <2>1, <2>2, FS_Subset
  <2>4. Cardinality(clients1 \cup gone)
          = Cardinality(clients1) + Cardinality(gone) - Cardinality(clients1 \cap gone)
    BY <2>2, <2>3, FS_Union
  <2>5. Cardinality(clients1) \in Nat /\ Cardinality(gone) \in Nat /\ Cardinality({}) = 0
    BY <2>2, <2>3, FS_CardinalityType, FS_EmptySet
  <2> DEFINE a == Cardinality(all)
             b == Cardinality(gone)
             d == Cardinality(clients1)
  <2>6. a = d + b - 0 /\ s.server.count = a /\ d \in Nat /\ b \in Nat
    BY <2>1, <2>2, <2>4, <2>5
  <2>7. count1 = s.server.count - b
    OBVIOUS
  <2> HIDE DEF a, b, d, count1
  <2>8. count1 = d /\ count1 \in Nat /\ count1 <= s.server.count
    BY <2>6, <2>7
  <2> QED
    BY <2>8 DEF d
<1>5. Destroy(s, gone) = t
  BY DEF Destroy, Gone
<1>6. client1 \in [Clients -> Connections]
      /\ \A c \in Clients : client1[c] = IF c \in gone THEN Gone ELSE s.client[c]
  <2> HIDE DEF Gone
  <2> QED
    BY <1>1, GoneFields
<1>7. heard1 \in [Clients -> {NONE} \cup Units]
      /\ \A c \in Clients : heard1[c] = IF c \in gone THEN NONE ELSE s.history.heard[c]
  BY <1>1
<1>8. clients1 \subseteq Clients
  BY <1>2
<1> HIDE DEF client1, heard1, count1
<1>9. /\ history1 \in Histories /\ history1.heard = heard1
      /\ history1.asked = s.history.asked /\ history1.answered = s.history.answered
      /\ history1.told = s.history.told /\ history1.changes = s.history.changes
      /\ history1.commands = s.history.commands /\ history1.locks = s.history.locks
  BY <1>1, <1>7 DEF Histories
<1> DEFINE left == clients1
<1>10. left \subseteq Clients /\ left = s.server.clients \ gone
  BY <1>8
<1> HIDE DEF clients1
<1>11. /\ server1 \in Servers /\ server1.clients = left /\ server1.count = count1
       /\ server1.now = s.server.now /\ server1.snapshot = s.server.snapshot
       /\ server1.idle = s.server.idle /\ server1.locked = s.server.locked
       /\ server1.exclusive = s.server.exclusive
  BY <1>1, <1>4, <1>10 DEF Servers
<1> HIDE DEF history1, server1
<1>12. t \in Worlds /\ t.client = client1 /\ t.history = history1 /\ t.server = server1
  BY <1>6, <1>9, <1>11 DEF Worlds
<1> HIDE DEF t
<1> QED
  BY <1>4, <1>5, <1>6, <1>7, <1>9, <1>10, <1>11, <1>12

\* A world stays as it is when clients leave, and if all that failed leave no one has failed.
LEMMA Dropped ==
  ASSUME NEW s, Steady(s), NEW gone, gone \subseteq s.server.clients
  PROVE  LET t == Destroy(s, gone)
         IN /\ Steady(t) /\ (Sound(s) => Sound(t)) /\ (Published(s) => Published(t))
            /\ \A p : AllTold(s, p) => AllTold(t, p)
            /\ t.server.now = s.server.now /\ t.server.snapshot = s.server.snapshot
            /\ t.server.idle = s.server.idle /\ t.server.exclusive = s.server.exclusive
            /\ t.server.locked = s.server.locked /\ t.history.commands = s.history.commands
            /\ t.history.changes = s.history.changes /\ t.history.locks = s.history.locks
            /\ (\A c \in Clients : Failed(s, c) => c \in gone) => NoneFailed(t)
            /\ \A c \in Clients : t.client[c] = IF c \in gone THEN Gone ELSE s.client[c]
<1> DEFINE t == Destroy(s, gone)
<1>1. s \in Worlds /\ s.server.count = Cardinality(s.server.clients)
  BY DEF Steady, Counted
<1>2. /\ t \in Worlds
      /\ \A c \in Clients : t.client[c] = IF c \in gone THEN Gone ELSE s.client[c]
      /\ \A c \in Clients : t.history.heard[c] = IF c \in gone THEN NONE ELSE s.history.heard[c]
      /\ t.server.clients = s.server.clients \ gone
      /\ t.server.count = Cardinality(t.server.clients) /\ t.server.count <= s.server.count
      /\ t.server.now = s.server.now /\ t.server.snapshot = s.server.snapshot
      /\ t.server.idle = s.server.idle /\ t.server.locked = s.server.locked
      /\ t.server.exclusive = s.server.exclusive
      /\ t.history.asked = s.history.asked /\ t.history.answered = s.history.answered
      /\ t.history.told = s.history.told /\ t.history.changes = s.history.changes
      /\ t.history.commands = s.history.commands /\ t.history.locks = s.history.locks
  BY <1>1, DestroyFields
<1> HIDE DEF t
<1>3. AllKept(t)
  <2>1. SUFFICES ASSUME NEW c \in Clients
                 PROVE  Kept(t.client[c], t.history.asked[c], t.history.answered[c], t.history.heard[c])
    BY DEF AllKept
  <2>2. Kept(s.client[c], s.history.asked[c], s.history.answered[c], s.history.heard[c])
    BY DEF Steady, AllKept
  <2>3. CASE c \in gone
    <3>1. s.history.asked[c] \in 0 .. around.sent /\ s.history.answered[c] \in 0 .. s.history.asked[c]
      BY <2>2 DEF Kept, Asked
    <3>2. Kept(Gone, s.history.asked[c], s.history.answered[c], NONE)
      BY <3>1, GoneKept
    <3> QED
      BY <1>2, <2>3, <3>2
  <2>4. CASE c \notin gone
    BY <1>2, <2>2, <2>4
  <2> QED
    BY <2>3, <2>4
<1>4. ASSUME NEW p, AllTold(s, p) PROVE AllTold(t, p)
  <2>1. SUFFICES ASSUME NEW c \in Clients PROVE Truthful(t.client[c], t.history.told[c], p)
    BY DEF AllTold
  <2>2. Truthful(s.client[c], s.history.told[c], p)
    BY <1>4 DEF AllTold
  <2>3. CASE c \in gone
    BY <1>2, <2>3, GoneFields DEF Truthful
  <2>4. CASE c \notin gone
    BY <1>2, <2>2, <2>4
  <2> QED
    BY <2>3, <2>4
<1>5. Counted(t)
  <2>1. s.server.clients = {c \in Clients : s.client[c].state \in {"open", "failed"}}
        /\ s.server.count <= MaxClients
    BY DEF Steady, Counted
  <2>2. ASSUME NEW c \in Clients
        PROVE  c \in t.server.clients <=> t.client[c].state \in {"open", "failed"}
    BY <1>2, <2>1, GoneFields
  <2>3. t.server.clients \subseteq Clients
    BY <1>2, <2>1
  <2>4. t.server.clients = {c \in Clients : t.client[c].state \in {"open", "failed"}}
    BY <2>2, <2>3
  <2>5. t.server.count <= MaxClients
    <3>1. s.server.count \in Nat /\ t.server.count \in Nat /\ MaxClients \in Nat
      BY <1>1, <1>2, IpcAssumption, WorldFields DEF Servers
    <3> QED
      BY <1>2, <2>1, <3>1
  <2> QED
    BY <1>2, <2>4, <2>5 DEF Counted
<1>6. Published(s) => Published(t)
  BY <1>2 DEF Published
<1>7. (\A c \in Clients : Failed(s, c) => c \in gone) => NoneFailed(t)
  BY <1>2, GoneFields DEF NoneFailed, Failed
<1>8. Steady(t) /\ (Sound(s) => Sound(t))
  BY <1>2, <1>3, <1>4, <1>5 DEF Steady, Sound
<1> QED
  BY <1>2, <1>4, <1>6, <1>7, <1>8 DEF t

\* leme_ipc_handle_client, when the client has sent something
LEMMA ReceiveSound ==
  ASSUME around \in Scenarios, NEW s, Sound(s), NoneFailed(s), NEW c \in s.server.clients,
         NEW n \in Nat, n <= Len(s.client[c].wire)
  PROVE  LET t == Receive(s, c, n)
         IN /\ Sound(t) /\ NoneFailed(t) /\ (Published(s) => Published(t))
            /\ t.server.locked = s.server.locked
            /\ t.history.changes = s.history.changes /\ t.history.locks = s.history.locks
            /\ (s.server.locked => t.history.commands = s.history.commands)
            /\ \A d \in Clients :
                 t.client[d] = Gone \/ EventPlaces(Pending(t.client[d])) = EventPlaces(Pending(s.client[d]))
<1> DEFINE u == Taken(s, c, n)[n]
<1>1. /\ s \in Worlds /\ c \in Clients /\ s.client[c].state = "open"
      /\ Kept(s.client[c], s.history.asked[c], s.history.answered[c], s.history.heard[c])
      /\ Truthful(s.client[c], s.history.told[c], s.server.snapshot)
  BY DEF Sound, Steady, Counted, NoneFailed, Failed, AllKept, AllTold
<1>2. Between(s, c, s.client[c])
  BY <1>1 DEF Between
<1>3. u \in Worlds /\ Apart(s, u, c) /\ Between(u, c, s.client[c])
  BY <1>1, <1>2, TakenHandled
<1>4. Receive(s, c, n) = IF Failed(u, c) THEN Destroy(u, {c}) ELSE u
  BY DEF Receive, Taken
<1> HIDE DEF u
<1>5. Sound(u)
  <2>1. AllKept(u)
    <3>1. SUFFICES ASSUME NEW d \in Clients
                   PROVE  Kept(u.client[d], u.history.asked[d], u.history.answered[d], u.history.heard[d])
      BY DEF AllKept
    <3>2. CASE d = c
      BY <1>3, <3>2 DEF Between
    <3>3. CASE d # c
      <4>1. Kept(s.client[d], s.history.asked[d], s.history.answered[d], s.history.heard[d])
        BY DEF Sound, Steady, AllKept
      <4>2. d \in Clients \ {c}
        BY <3>3
      <4> QED
        BY <1>3, <4>1, <4>2 DEF Apart
    <3> QED
      BY <3>2, <3>3
  <2>2. AllTold(u, u.server.snapshot)
    <3>1. SUFFICES ASSUME NEW d \in Clients
                   PROVE  Truthful(u.client[d], u.history.told[d], u.server.snapshot)
      BY DEF AllTold
    <3>2. CASE d = c
      BY <1>3, <3>2 DEF Between
    <3>3. CASE d # c
      <4>1. Truthful(s.client[d], s.history.told[d], s.server.snapshot)
        BY DEF Sound, AllTold
      <4>2. d \in Clients \ {c}
        BY <3>3
      <4> QED
        BY <1>3, <4>1, <4>2 DEF Apart
    <3> QED
      BY <3>2, <3>3
  <2>3. Counted(u)
    <3>1. s.server.clients = {d \in Clients : s.client[d].state \in {"open", "failed"}}
          /\ s.server.count = Cardinality(s.server.clients) /\ s.server.count <= MaxClients
      BY DEF Sound, Steady, Counted
    <3>2. u.server.clients = s.server.clients /\ u.server.count = s.server.count
          /\ \A d \in Clients \ {c} : u.client[d] = s.client[d]
      BY <1>3 DEF Apart
    <3>3. u.client[c].state \in {"open", "failed"} /\ s.client[c].state \in {"open", "failed"}
      BY <1>1, <1>3 DEF Between
    <3>4. \A d \in Clients : s.client[d].state \in {"open", "failed"} <=> u.client[d].state \in {"open", "failed"}
      BY <3>2, <3>3
    <3> QED
      BY <3>1, <3>2, <3>4 DEF Counted
  <2> QED
    BY <1>3, <2>1, <2>2, <2>3 DEF Sound, Steady
<1>6. \A d \in Clients : Failed(u, d) => d \in {c}
  BY <1>3 DEF Apart, NoneFailed, Failed
<1>7. \A d \in Clients :
        ~Failed(u, d) => EventPlaces(Pending(u.client[d])) = EventPlaces(Pending(s.client[d]))
  <2>1. SUFFICES ASSUME NEW d \in Clients, ~Failed(u, d)
                 PROVE  EventPlaces(Pending(u.client[d])) = EventPlaces(Pending(s.client[d]))
    OBVIOUS
  <2>2. CASE d = c
    BY <1>3, <2>1, <2>2 DEF Between, Failed
  <2>3. CASE d # c
    BY <1>3, <2>3 DEF Apart
  <2> QED
    BY <2>2, <2>3
<1>8. /\ (Published(s) => Published(u)) /\ u.server.locked = s.server.locked
      /\ u.server.clients = s.server.clients
      /\ u.history.changes = s.history.changes /\ u.history.locks = s.history.locks
      /\ (s.server.locked => u.history.commands = s.history.commands)
  BY <1>3 DEF Apart
<1>9. CASE Failed(u, c)
  <2> DEFINE gone == {c}
             t == Destroy(u, gone)
  <2>1. gone \subseteq u.server.clients
    BY <1>8
  <2>2. \A d \in Clients : Failed(u, d) => d \in gone
    BY <1>6
  <2>3. Receive(s, c, n) = t
    BY <1>4, <1>9
  <2> HIDE DEF gone
  <2>8. Steady(u)
    BY <1>5 DEF Sound
  <2>4. /\ Steady(t) /\ (Sound(u) => Sound(t)) /\ (Published(u) => Published(t))
        /\ t.server.locked = u.server.locked /\ t.history.commands = u.history.commands
        /\ t.history.changes = u.history.changes /\ t.history.locks = u.history.locks
        /\ (\A d \in Clients : Failed(u, d) => d \in gone) => NoneFailed(t)
        /\ \A d \in Clients : t.client[d] = IF d \in gone THEN Gone ELSE u.client[d]
    BY <2>1, <2>8, Dropped
  <2> HIDE DEF t
  <2>5. ASSUME NEW d \in Clients
        PROVE  t.client[d] = Gone \/ EventPlaces(Pending(t.client[d])) = EventPlaces(Pending(s.client[d]))
    <3>1. CASE d \in gone
      BY <2>4, <3>1
    <3>2. CASE d \notin gone
      BY <1>7, <2>2, <2>4, <3>2
    <3> QED
      BY <3>1, <3>2
  <2> QED
    BY <1>5, <1>8, <2>2, <2>3, <2>4, <2>5
<1>10. CASE ~Failed(u, c)
  <2>1. Receive(s, c, n) = u
    BY <1>4, <1>10
  <2>2. NoneFailed(u)
    BY <1>6, <1>10 DEF NoneFailed
  <2>3. \A d \in Clients : EventPlaces(Pending(u.client[d])) = EventPlaces(Pending(s.client[d]))
    BY <1>7, <2>2 DEF NoneFailed
  <2> QED
    BY <1>5, <1>8, <2>1, <2>2, <2>3
<1> QED
  BY <1>9, <1>10

-----------------------------------------------------------------------------
(* Events.                                                                 *)

\* A listener is sent an event whole, or it has failed.
LEMMA TellKept ==
  ASSUME around \in Scenarios, NEW k \in Connections, NEW a \in Nat, NEW b \in Nat,
         NEW h \in {NONE} \cup Units, Kept(k, a, b, h), k.state = "open",
         NEW f \in Fields, NEW v \in Values \cup {NONE}
  PROVE  LET z == Send(k, [kind |-> "event", field |-> f, value |-> v])
         IN /\ z \in Connections /\ Kept(z, a, b, h) /\ z.state \in {"open", "failed"}
            /\ z.subscribed = k.subscribed /\ z.events = k.events
<1> DEFINE m == [kind |-> "event", field |-> f, value |-> v]
           z == Send(k, m)
           q == Pending(k)
<1>1. m \in Message /\ m.kind = "event"
  BY DEF Message
<1>2. Fits(k) /\ Asked(k, a, b) /\ FramedAfter(h, q) /\ Numbered(q, b)
  BY DEF Kept, Fits
<1>3. q \in Seq(Units)
  BY Typed
<1> HIDE DEF m
<1>4. /\ z \in Connections /\ SameBut(z, k) /\ Fits(z) /\ z.state \in {k.state, "failed"}
      /\ z.state # "failed" =>
           k.state # "failed" /\ Pending(z) = Append(Append(Pending(k), Text(m)), End(m))
  BY <1>1, <1>2, SendWhole
<1> HIDE DEF z
<1>5. z.state # "failed" => FramedAfter(h, Pending(z)) /\ Numbered(Pending(z), b)
  <2> DEFINE y == Append(Append(q, Text(m)), End(m))
  <2>1. \A u \in Units : IsReply(u) => u.message.n \in Nat
    BY Bounds
  <2>2. ~(m.kind = "reply")
    BY <1>1
  <2> HIDE DEF q
  <2>3. FramedAfter(h, y)
    BY <1>1, <1>2, <1>3, FramedAfterMore
  <2>4. Numbered(y, b)
    <3>1. b <= b /\ (m.kind = "reply" => m.n = b /\ b < b /\ Earned(m))
      BY <2>2
    <3> QED
      BY <1>1, <1>2, <1>3, <2>1, <3>1, NumberedMore
  <2> QED
    BY <1>4, <2>3, <2>4 DEF q
<1>6. Asked(z, a, b)
  BY <1>2, <1>4 DEF Asked, SameBut
<1>7. Kept(z, a, b, h)
  BY <1>4, <1>5, <1>6 DEF Kept, Fits
<1> QED
  BY <1>4, <1>7 DEF SameBut, z, m

\* The published state with one field as it was just sent.
Sent(p, f, v) == [p EXCEPT ![f] = v]

\* leme_ipc_emit
LEMMA EmitSteady ==
  ASSUME around \in Scenarios, NEW s, Steady(s), NoneFailed(s), NEW f \in Fields,
         NEW v \in Values \cup {NONE}
  PROVE  LET t == Emit(s, f, v)
         IN /\ Steady(t) /\ NoneFailed(t)
            /\ \A p \in State : AllTold(s, p) => AllTold(t, Sent(p, f, v))
            /\ t.server.now = s.server.now /\ t.server.snapshot = s.server.snapshot
            /\ t.server.idle = s.server.idle /\ t.server.locked = s.server.locked
            /\ t.server.exclusive = s.server.exclusive
            /\ t.history.changes = s.history.changes /\ t.history.locks = s.history.locks
            /\ t.history.commands = s.history.commands
<1> DEFINE m == [kind |-> "event", field |-> f, value |-> v]
           z(c) == Send(s.client[c], m)
           client1 == [c \in Clients |-> IF Listening(s, c, f) THEN z(c) ELSE s.client[c]]
           told1 == [c \in Clients |-> IF Listening(s, c, f) THEN Sent(s.history.told[c], f, v)
                                       ELSE s.history.told[c]]
           history1 == [s.history EXCEPT !.told = told1]
           u == [s EXCEPT !.client = client1, !.history = history1]
           gone == {c \in s.server.clients : Failed(u, c)}
           t == Destroy(u, gone)
<1>1. /\ s \in Worlds /\ AllKept(s) /\ Counted(s)
      /\ s.server \in Servers /\ s.client \in [Clients -> Connections] /\ s.history \in Histories
      /\ \A c \in Clients :
           /\ s.client[c] \in Connections /\ s.history.answered[c] \in Nat
           /\ s.history.asked[c] \in Nat /\ s.history.heard[c] \in {NONE} \cup Units
           /\ s.history.told[c] \in State
  BY WorldFields DEF Steady
<1>2. Emit(s, f, v) = t
  BY DEF Emit, Sent
<1>3. ASSUME NEW c \in Clients, Listening(s, c, f)
      PROVE  /\ s.client[c].state = "open" /\ s.client[c].subscribed
             /\ z(c) \in Connections
             /\ Kept(z(c), s.history.asked[c], s.history.answered[c], s.history.heard[c])
             /\ z(c).state \in {"open", "failed"}
             /\ z(c).subscribed = s.client[c].subscribed /\ z(c).events = s.client[c].events
  <2>1. s.client[c].state = "open" /\ s.client[c].subscribed
    BY <1>1, <1>3 DEF Listening, Counted, NoneFailed, Failed
  <2> DEFINE k == s.client[c]
             a == s.history.asked[c]
             b == s.history.answered[c]
             h == s.history.heard[c]
             y == z(c)
  <2>2. k \in Connections /\ a \in Nat /\ b \in Nat /\ h \in {NONE} \cup Units /\ Kept(k, a, b, h)
        /\ k.state = "open"
    BY <1>1, <2>1 DEF AllKept
  <2> HIDE DEF k, a, b, h
  <2>3. LET x == Send(k, [kind |-> "event", field |-> f, value |-> v])
        IN /\ x \in Connections /\ Kept(x, a, b, h) /\ x.state \in {"open", "failed"}
           /\ x.subscribed = k.subscribed /\ x.events = k.events
    BY <2>2, TellKept
  <2> QED
    BY <2>1, <2>3 DEF k, a, b, h
<1> HIDE DEF z
<1>4. /\ client1 \in [Clients -> Connections]
      /\ \A c \in Clients : client1[c] = IF Listening(s, c, f) THEN z(c) ELSE s.client[c]
  BY <1>1, <1>3
<1>5. ASSUME NEW c \in Clients PROVE Sent(s.history.told[c], f, v) \in State
  BY <1>1 DEF Sent, State
<1>6. /\ told1 \in [Clients -> State]
      /\ \A c \in Clients : told1[c] = IF Listening(s, c, f) THEN Sent(s.history.told[c], f, v)
                                       ELSE s.history.told[c]
  BY <1>1, <1>5
<1> HIDE DEF client1, told1
<1>7. /\ history1 \in Histories /\ history1.told = told1 /\ history1.asked = s.history.asked
      /\ history1.answered = s.history.answered /\ history1.heard = s.history.heard
      /\ history1.changes = s.history.changes /\ history1.commands = s.history.commands
      /\ history1.locks = s.history.locks
  BY <1>1, <1>6 DEF Histories
<1> HIDE DEF history1
<1>8. u \in Worlds /\ u.client = client1 /\ u.history = history1 /\ u.server = s.server
  BY <1>1, <1>4, <1>7 DEF Worlds
<1> HIDE DEF u
<1>9. AllKept(u)
  <2>1. SUFFICES ASSUME NEW c \in Clients
                 PROVE  Kept(client1[c], s.history.asked[c], s.history.answered[c], s.history.heard[c])
    BY <1>7, <1>8 DEF AllKept
  <2>2. Kept(s.client[c], s.history.asked[c], s.history.answered[c], s.history.heard[c])
    BY <1>1 DEF AllKept
  <2> QED
    BY <1>3, <1>4, <2>2
<1>10. Counted(u)
  <2>1. s.server.clients = {c \in Clients : s.client[c].state \in {"open", "failed"}}
    BY <1>1 DEF Counted
  <2>2. ASSUME NEW c \in Clients
        PROVE  s.client[c].state \in {"open", "failed"} <=> u.client[c].state \in {"open", "failed"}
    BY <1>3, <1>4, <1>8
  <2>3. s.server.clients = {c \in Clients : u.client[c].state \in {"open", "failed"}}
    BY <2>1, <2>2
  <2> QED
    BY <1>1, <1>8, <2>3 DEF Counted
<1>11. Steady(u)
  BY <1>8, <1>9, <1>10 DEF Steady
<1>12. ASSUME NEW p \in State, AllTold(s, p) PROVE AllTold(u, Sent(p, f, v))
  <2>1. SUFFICES ASSUME NEW c \in Clients PROVE Truthful(client1[c], told1[c], Sent(p, f, v))
    BY <1>7, <1>8 DEF AllTold
  <2>2. Truthful(s.client[c], s.history.told[c], p)
    BY <1>12 DEF AllTold
  <2>3. \A g \in Fields : Sent(p, f, v)[g] = IF g = f THEN v ELSE p[g]
    BY DEF Sent, State
  <2>4. CASE Listening(s, c, f)
    <3>1. \A g \in Fields : told1[c][g] = IF g = f THEN v ELSE s.history.told[c][g]
      BY <1>1, <1>6, <2>4 DEF Sent, State
    <3>2. client1[c] = z(c) /\ s.client[c].state = "open" /\ s.client[c].subscribed
          /\ z(c).subscribed = s.client[c].subscribed /\ z(c).events = s.client[c].events
          /\ z(c).state \in {"open", "failed"}
      BY <1>3, <1>4, <2>4
    <3> HIDE DEF gone
    <3> QED
      BY <2>2, <2>3, <3>1, <3>2 DEF Truthful
  <2>5. CASE ~Listening(s, c, f)
    <3>1. client1[c] = s.client[c] /\ told1[c] = s.history.told[c]
      BY <1>4, <1>6, <2>5
    <3>2. ASSUME s.client[c].state = "open" PROVE c \in s.server.clients
      BY <1>1, <3>2 DEF Counted
    <3>3. ASSUME s.client[c].state = "open", EventOf(f) \in s.client[c].events PROVE FALSE
      BY <2>2, <2>5, <3>2, <3>3 DEF Listening, Truthful
    <3> QED
      BY <2>2, <2>3, <3>1, <3>3 DEF Truthful
  <2> QED
    BY <2>4, <2>5
<1>13. gone \subseteq u.server.clients
  BY <1>8
<1>14. \A c \in Clients : Failed(u, c) => c \in gone
  BY <1>8, <1>10 DEF Counted, Failed
<1> HIDE DEF gone
<1>15. /\ Steady(t) /\ \A p : AllTold(u, p) => AllTold(t, p)
       /\ t.server.now = u.server.now /\ t.server.snapshot = u.server.snapshot
       /\ t.server.idle = u.server.idle /\ t.server.exclusive = u.server.exclusive
       /\ t.server.locked = u.server.locked /\ t.history.commands = u.history.commands
       /\ t.history.changes = u.history.changes /\ t.history.locks = u.history.locks
       /\ (\A c \in Clients : Failed(u, c) => c \in gone) => NoneFailed(t)
  BY <1>11, <1>13, Dropped
<1> HIDE DEF t
<1> QED
  BY <1>2, <1>7, <1>8, <1>12, <1>14, <1>15

\* The sequence of a finite set has its elements.
LEMMA SetToSeqElements ==
  ASSUME NEW S, IsFiniteSet(S)
  PROVE  LET q == SetToSeq(S)
         IN Len(q) \in Nat /\ (\A i \in 1 .. Len(q) : q[i] \in S) /\ \A x \in S : \E i \in 1 .. Len(q) : q[i] = x
<1> DEFINE n == Cardinality(S)
           q == SetToSeq(S)
<1>1. n \in Nat /\ ExistsBijection(1 .. n, S)
  BY FS_CardinalityType
<1>2. \E f \in [1 .. n -> S] : IsInjective(f)
  BY <1>1 DEF ExistsBijection, Bijection, Injection, IsInjective
<1>3. q \in [1 .. n -> S] /\ IsInjective(q)
  BY <1>2 DEF SetToSeq
<1> HIDE DEF q
<1>4. q \in Injection(1 .. n, S)
  BY <1>3 DEF Injection, IsInjective
<1>5. Cardinality(1 .. n) = n
  BY <1>1, FS_Interval
<1> HIDE DEF n
<1>6. q \in Surjection(1 .. n, S)
  <2>1. Cardinality(1 .. n) = Cardinality(S)
    BY <1>5 DEF n
  <2> QED
    BY <1>4, <2>1, FS_Injection
<1>7. Len(q) = n
  BY <1>1, <1>3, LenProperties, SeqDef
<1>8. \A x \in S : \E i \in 1 .. n : q[i] = x
  BY <1>6 DEF Surjection
<1>9. Len(q) \in Nat /\ (\A i \in 1 .. Len(q) : q[i] \in S) /\ \A x \in S : \E i \in 1 .. Len(q) : q[i] = x
  BY <1>1, <1>3, <1>7, <1>8
<1> QED
  BY <1>9 DEF q

\* One event of leme_ipc_diff, by its place in the order
EmitStep(s, fields, f, i) ==
  IF i = 0 THEN s ELSE Emit(f[i - 1], fields[i], s.server.now[fields[i]])

\* The worlds after each event exist.
LEMMA EmittedExists ==
  ASSUME NEW s, NEW q, NEW n \in Nat
  PROVE  \E f : f = [i \in 0 .. n |-> EmitStep(s, q, f, i)]
<1> DEFINE Good(k) == \E f : f = [i \in 0 .. k |-> EmitStep(s, q, f, i)]
           bad == {k \in Nat : ~Good(k)}
<1>1. SUFFICES ASSUME n \in bad PROVE FALSE
  OBVIOUS
<1>2. PICK k \in bad : \A m \in bad : k <= m
  <2> HIDE DEF bad
  <2>1. bad \subseteq Nat /\ bad # {}
    BY <1>1 DEF bad
  <2> QED
    BY <2>1, LeastNatural
<1>3. k # 0
  <2>1. SUFFICES ASSUME k = 0 PROVE Good(0)
    BY <1>2
  <2> DEFINE f == [i \in 0 .. 0 |-> s]
  <2>2. f = [i \in 0 .. 0 |-> EmitStep(s, q, f, i)]
    BY DEF EmitStep
  <2> QED
    BY <2>2
<1>4. k \in Nat /\ k - 1 \in Nat /\ ~Good(k)
  BY <1>2, <1>3
<1>5. Good(k - 1)
  <2> HIDE DEF Good
  <2>1. k - 1 \notin bad
    BY <1>2, <1>4
  <2> QED
    BY <1>4, <2>1
<1>6. PICK f : f = [i \in 0 .. k - 1 |-> EmitStep(s, q, f, i)]
  BY <1>5
<1> DEFINE g == [i \in 0 .. k |-> IF i < k THEN f[i] ELSE EmitStep(s, q, f, k)]
<1>7. ASSUME NEW i \in 0 .. k PROVE g[i] = EmitStep(s, q, g, i)
  <2>1. i \in Nat /\ i <= k
    BY <1>4, <1>7
  <2>2. i # 0 => g[i - 1] = f[i - 1]
    BY <1>4, <2>1
  <2>3. EmitStep(s, q, g, i) = EmitStep(s, q, f, i)
    BY <2>2 DEF EmitStep
  <2>4. CASE i < k
    <3>1. i \in 0 .. k - 1
      BY <1>4, <2>1, <2>4
    <3>2. f[i] = EmitStep(s, q, f, i)
      BY <1>6, <3>1
    <3> QED
      BY <2>3, <2>4, <3>2
  <2>5. CASE i = k
    BY <2>3, <2>5
  <2> QED
    BY <1>4, <2>1, <2>4, <2>5
<1>8. g = [i \in 0 .. k |-> EmitStep(s, q, g, i)]
  <2> DEFINE h == [i \in 0 .. k |-> EmitStep(s, q, g, i)]
  <2>1. \A i \in 0 .. k : g[i] = h[i]
    BY <1>7
  <2>2. g = [i \in 0 .. k |-> g[i]] /\ h = [i \in 0 .. k |-> h[i]]
    OBVIOUS
  <2> HIDE DEF g, h
  <2>3. [i \in 0 .. k |-> g[i]] = [i \in 0 .. k |-> h[i]]
    BY <2>1
  <2>4. g = h
    BY <2>2, <2>3
  <2> QED
    BY <2>4 DEF h
<1> QED
  <2> HIDE DEF g
  <2>1. Good(k)
    BY <1>8
  <2> QED
    BY <1>4, <2>1

\* The worlds after each event.
Emitted(s, fields) ==
  LET emitted[i \in 0 .. Len(fields)] ==
        IF i = 0 THEN s ELSE Emit(emitted[i - 1], fields[i], s.server.now[fields[i]])
  IN emitted

LEMMA EmittedSteps ==
  ASSUME NEW s, NEW q, Len(q) \in Nat
  PROVE  /\ Emitted(s, q)[0] = s
         /\ \A i \in 1 .. Len(q) :
              Emitted(s, q)[i] = Emit(Emitted(s, q)[i - 1], q[i], s.server.now[q[i]])
<1> DEFINE n == Len(q)
<1>1. \E f : f = [i \in 0 .. n |-> EmitStep(s, q, f, i)]
  BY EmittedExists
<1>2. Emitted(s, q) = CHOOSE f : f = [i \in 0 .. n |-> EmitStep(s, q, f, i)]
  BY DEF Emitted, EmitStep
<1>3. Emitted(s, q) = [i \in 0 .. n |-> EmitStep(s, q, Emitted(s, q), i)]
  BY <1>1, <1>2
<1> DEFINE f == Emitted(s, q)
<1> HIDE DEF f
<1>4. f = [i \in 0 .. n |-> EmitStep(s, q, f, i)]
  BY <1>3 DEF f
<1>5. f[0] = s /\ \A i \in 1 .. n : f[i] = Emit(f[i - 1], q[i], s.server.now[q[i]])
  <2>1. \A i \in 0 .. n : f[i] = EmitStep(s, q, f, i)
    BY <1>4
  <2>2. 0 \in 0 .. n /\ \A i \in 1 .. n : i \in 0 .. n /\ i # 0
    OBVIOUS
  <2> QED
    BY <2>1, <2>2 DEF EmitStep
<1> QED
  BY <1>5 DEF f


\* What was published once the first i fields of q are sent.
Partial(s, q, i) ==
  [g \in Fields |-> IF \E j \in 1 .. i : q[j] = g THEN s.server.now[g] ELSE s.server.snapshot[g]]

\* The next event makes one more field published.
LEMMA PartialMore ==
  ASSUME NEW s \in Worlds, NEW q, NEW i \in Nat \ {0}, q[i] \in Fields
  PROVE  /\ Partial(s, q, i - 1) \in State /\ s.server.now[q[i]] \in Values \cup {NONE}
         /\ Sent(Partial(s, q, i - 1), q[i], s.server.now[q[i]]) = Partial(s, q, i)
<1> DEFINE now == s.server.now
           snapshot == s.server.snapshot
           before == [g \in Fields |-> IF \E j \in 1 .. i - 1 : q[j] = g THEN now[g] ELSE snapshot[g]]
           after == [g \in Fields |-> IF \E j \in 1 .. i : q[j] = g THEN now[g] ELSE snapshot[g]]
           f == q[i]
           v == now[f]
           sent == [before EXCEPT ![f] = v]
<1>1. now \in State /\ snapshot \in State
  BY WorldFields DEF Servers
<1> HIDE DEF now, snapshot
<1>2. \A g \in Fields : now[g] \in Values \cup {NONE} /\ snapshot[g] \in Values \cup {NONE}
  BY <1>1 DEF State
<1>3. before \in State /\ v \in Values \cup {NONE}
  BY <1>2 DEF State
<1>4. ASSUME NEW g \in Fields PROVE sent[g] = after[g]
  <2>1. CASE g = f
    <3>1. i \in 1 .. i
      OBVIOUS
    <3> QED
      BY <2>1, <3>1
  <2>2. CASE g # f
    <3>1. (\E j \in 1 .. i - 1 : q[j] = g) <=> (\E j \in 1 .. i : q[j] = g)
      BY <2>2
    <3> QED
      BY <2>2, <3>1
  <2> QED
    BY <2>1, <2>2
<1>5. sent = after
  <2>1. sent = [g \in Fields |-> sent[g]] /\ after = [g \in Fields |-> after[g]]
    OBVIOUS
  <2> HIDE DEF sent, after
  <2>2. [g \in Fields |-> sent[g]] = [g \in Fields |-> after[g]]
    BY <1>4
  <2> QED
    BY <2>1, <2>2
<1> QED
  BY <1>3, <1>5 DEF Partial, Sent, now, snapshot

\* What the events leave alone
SameServer(s, t) ==
  /\ t.server.now = s.server.now /\ t.server.snapshot = s.server.snapshot
  /\ t.server.idle = s.server.idle /\ t.server.locked = s.server.locked
  /\ t.server.exclusive = s.server.exclusive
  /\ t.history.changes = s.history.changes /\ t.history.locks = s.history.locks
  /\ t.history.commands = s.history.commands

\* leme_ipc_diff: afterwards the subscribers were told what there is now.
LEMMA DiffTold ==
  ASSUME around \in Scenarios, NEW s, Sound(s), NoneFailed(s)
  PROVE  LET t == Diff(s)
         IN Steady(t) /\ NoneFailed(t) /\ SameServer(s, t) /\ AllTold(t, s.server.now)
<1> DEFINE changed == {f \in Fields : Changed(s, f)}
           q == SetToSeq(changed)
           n == Len(q)
           e == Emitted(s, q)
           Good(i) == Steady(e[i]) /\ NoneFailed(e[i]) /\ SameServer(s, e[i]) /\ AllTold(e[i], Partial(s, q, i))
           bad == {i \in 0 .. n : ~Good(i)}
<1>1. s \in Worlds /\ s.server.now \in State /\ s.server.snapshot \in State
      /\ Steady(s) /\ AllTold(s, s.server.snapshot)
  BY WorldFields DEF Sound, Steady, Servers
<1>2. IsFiniteSet(changed)
  BY IpcAssumption, FS_Subset
<1>3. Diff(s) = e[n]
  BY DEF Diff, Emitted
<1>4. \A f : f \in changed <=> f \in Fields /\ Changed(s, f)
  OBVIOUS
<1> HIDE DEF changed
<1>5. n \in Nat /\ (\A i \in 1 .. n : q[i] \in changed) /\ \A x \in changed : \E i \in 1 .. n : q[i] = x
  BY <1>2, SetToSeqElements
<1> HIDE DEF q
<1>6. e[0] = s /\ \A i \in 1 .. n : e[i] = Emit(e[i - 1], q[i], s.server.now[q[i]])
  BY <1>5, EmittedSteps
<1> HIDE DEF e, n
<1>7. Good(0)
  <2>1. Partial(s, q, 0) = s.server.snapshot
    <3>1. ~\E j \in 1 .. 0 : TRUE
      OBVIOUS
    <3> DEFINE p == s.server.snapshot
    <3>2. p = [g \in Fields |-> p[g]]
      BY <1>1 DEF State
    <3>3. Partial(s, q, 0) = [g \in Fields |-> p[g]]
      BY <3>1 DEF Partial
    <3> QED
      BY <3>2, <3>3
  <2>2. SameServer(s, s)
    BY DEF SameServer
  <2> QED
    BY <1>1, <1>6, <2>1, <2>2
<1>8. ASSUME NEW i \in 1 .. n, Good(i - 1) PROVE Good(i)
  <2> DEFINE u == e[i - 1]
             f == q[i]
             v == s.server.now[f]
             t == Emit(u, f, v)
  <2>1. Steady(u) /\ NoneFailed(u) /\ SameServer(s, u) /\ AllTold(u, Partial(s, q, i - 1))
    BY <1>8
  <2>2. e[i] = t /\ i \in Nat \ {0}
    BY <1>5, <1>6
  <2>3. f \in Fields
    BY <1>4, <1>5
  <2>4. Partial(s, q, i - 1) \in State /\ v \in Values \cup {NONE}
        /\ Sent(Partial(s, q, i - 1), f, v) = Partial(s, q, i)
    BY <1>1, <2>2, <2>3, PartialMore
  <2> HIDE DEF u, f, v
  <2>5. /\ Steady(t) /\ NoneFailed(t)
        /\ \A p \in State : AllTold(u, p) => AllTold(t, Sent(p, f, v))
        /\ t.server.now = u.server.now /\ t.server.snapshot = u.server.snapshot
        /\ t.server.idle = u.server.idle /\ t.server.locked = u.server.locked
        /\ t.server.exclusive = u.server.exclusive
        /\ t.history.changes = u.history.changes /\ t.history.locks = u.history.locks
        /\ t.history.commands = u.history.commands
    BY <2>1, <2>3, <2>4, EmitSteady
  <2> HIDE DEF t
  <2>6. AllTold(t, Partial(s, q, i))
    BY <2>1, <2>4, <2>5
  <2>7. SameServer(s, t)
    BY <2>1, <2>5 DEF SameServer
  <2> QED
    BY <2>2, <2>5, <2>6, <2>7
<1>9. bad = {}
  <2>1. SUFFICES ASSUME bad # {} PROVE FALSE
    OBVIOUS
  <2>2. bad \subseteq Nat
    BY <1>5
  <2>3. PICK i \in bad : \A m \in bad : i <= m
    <3> HIDE DEF bad
    <3> QED
      BY <2>1, <2>2, LeastNatural
  <2> HIDE DEF Good
  <2>4. i # 0 /\ i \in 0 .. n /\ ~Good(i)
    BY <1>7, <2>3
  <2>5. i \in 1 .. n /\ i - 1 \in 0 .. n /\ ~(i <= i - 1)
    BY <1>5, <2>4
  <2>6. Good(i - 1)
    BY <2>3, <2>5
  <2> QED
    BY <1>8, <2>4, <2>5, <2>6
<1>10. Good(n)
  <2> HIDE DEF Good
  <2>1. n \in 0 .. n
    BY <1>5
  <2> QED
    BY <1>9, <2>1
<1>11. ASSUME NEW f \in Fields, s.server.now[f] # NONE
       PROVE  Partial(s, q, n)[f] = s.server.now[f]
  <2>1. CASE f \in changed
    <3>1. \E j \in 1 .. n : q[j] = f
      BY <1>5, <2>1
    <3> QED
      BY <3>1 DEF Partial
  <2>2. CASE f \notin changed
    <3>1. s.server.now[f] = s.server.snapshot[f]
      BY <1>4, <1>11, <2>2 DEF Changed
    <3> QED
      BY <3>1 DEF Partial
  <2> QED
    BY <2>1, <2>2
<1> DEFINE t == e[n]
<1>12. Steady(t) /\ NoneFailed(t) /\ SameServer(s, t) /\ AllTold(t, Partial(s, q, n))
  BY <1>10
<1> HIDE DEF t
<1>13. AllTold(t, s.server.now)
  <2>1. SUFFICES ASSUME NEW c \in Clients
                 PROVE  Truthful(t.client[c], t.history.told[c], s.server.now)
    BY DEF AllTold
  <2>2. Truthful(t.client[c], t.history.told[c], Partial(s, q, n))
    BY <1>12 DEF AllTold
  <2> QED
    BY <1>11, <2>2 DEF Truthful
<1> QED
  BY <1>3, <1>12, <1>13 DEF t

\* leme_ipc_reconcile
LEMMA ReconcileSound ==
  ASSUME around \in Scenarios, NEW s, Sound(s), NoneFailed(s)
  PROVE  LET t == Reconcile(s)
         IN /\ Sound(t) /\ NoneFailed(t) /\ Published(t)
            /\ t.history.changes = s.history.changes /\ t.history.locks = s.history.locks
            /\ t.history.commands = s.history.commands /\ t.server.locked = s.server.locked
            /\ (s.server.locked => t = s)
<1>1. CASE s.server.locked
  BY <1>1 DEF Reconcile, Published
<1>2. CASE ~s.server.locked
  <2> DEFINE u == Diff(s)
             now == s.server.now
             server1 == [u.server EXCEPT !.snapshot = now]
             t == [u EXCEPT !.server = server1]
  <2>1. Reconcile(s) = t
    BY <1>2 DEF Reconcile
  <2>2. Steady(u) /\ NoneFailed(u) /\ SameServer(s, u) /\ AllTold(u, now)
    BY DiffTold
  <2> HIDE DEF u
  <2>3. now \in State
    BY WorldFields DEF Sound, Steady, Servers
  <2>4. u.server.now = now
    BY <2>2 DEF SameServer
  <2> HIDE DEF now
  <2>5. u \in Worlds /\ u.server \in Servers
    BY <2>2, WorldFields DEF Steady
  <2>6. /\ server1 \in Servers /\ server1.snapshot = now /\ server1.now = u.server.now
        /\ server1.idle = u.server.idle /\ server1.locked = u.server.locked
        /\ server1.exclusive = u.server.exclusive /\ server1.clients = u.server.clients
        /\ server1.count = u.server.count
    BY <2>3, <2>5 DEF Servers
  <2> HIDE DEF server1
  <2>7. t \in Worlds /\ t.server = server1 /\ t.client = u.client /\ t.history = u.history
    BY <2>5, <2>6 DEF Worlds
  <2> HIDE DEF t
  <2>8. AllKept(t) /\ Counted(t) /\ NoneFailed(t) /\ AllTold(t, t.server.snapshot)
    BY <2>2, <2>6, <2>7 DEF Steady, AllKept, Counted, NoneFailed, Failed, AllTold
  <2>9. Published(t)
    BY <2>4, <2>6, <2>7 DEF Published
  <2>10. /\ t.history.changes = s.history.changes /\ t.history.locks = s.history.locks
         /\ t.history.commands = s.history.commands /\ t.server.locked = s.server.locked
    BY <2>2, <2>6, <2>7 DEF SameServer
  <2> QED
    BY <1>2, <2>1, <2>7, <2>8, <2>9, <2>10 DEF Sound, Steady
<1> QED
  BY <1>1, <1>2


-----------------------------------------------------------------------------
(* What happens.                                                           *)

\* The types do not depend on the step, which keeps the scenario.
LEMMA SameTypes ==
  ASSUME around' = around
  PROVE  Worlds' = Worlds /\ Units' = Units
<1>1. Message' = Message
  BY DEF Message
<1>2. Units' = Units
  BY <1>1 DEF Units
<1>3. Bytes' = Bytes
  BY DEF Bytes
<1>4. Connections' = Connections /\ Histories' = Histories /\ Servers' = Servers
  BY <1>2, <1>3 DEF Connections, Histories, Servers
<1> QED
  BY <1>2, <1>4 DEF Worlds

\* The invariant of the next state, in terms of the world that it will be.
LEMMA Restated ==
  ASSUME around \in Scenarios, NEW s, Become(s), Sound(s), NoneFailed(s), Published(s),
         s.history.changes <= around.changes, s.history.locks <= around.locks
  PROVE  IInv' /\ around' = around
<1>1. around' = around /\ server' = s.server /\ client' = s.client /\ history' = s.history
  BY DEF Become
<1>2. Worlds' = Worlds
  BY <1>1, SameTypes
<1>3. Whole' = s
  <2>1. s = [server |-> s.server, client |-> s.client, history |-> s.history]
    BY DEF Sound, Steady, Worlds
  <2>2. Whole' = [server |-> s.server, client |-> s.client, history |-> s.history]
    BY <1>1 DEF Whole
  <2> QED
    BY <2>1, <2>2
<1>4. \A c \in Clients : /\ server' = s.server /\ client'[c] = s.client[c]
                         /\ history'.asked[c] = s.history.asked[c]
                         /\ history'.answered[c] = s.history.answered[c]
                         /\ history'.heard[c] = s.history.heard[c] /\ history'.told[c] = s.history.told[c]
  BY <1>1
<1>5. AllKept(Whole)'
  <2>1. SUFFICES ASSUME NEW c \in Clients
                 PROVE  Kept(client[c], history.asked[c], history.answered[c], history.heard[c])'
    BY DEF AllKept, Whole
  <2>2. Kept(s.client[c], s.history.asked[c], s.history.answered[c], s.history.heard[c])
    BY DEF Sound, Steady, AllKept
  <2> QED
    BY <1>1, <1>4, <2>2 DEF Kept, Asked
<1>6. Counted(Whole)'
  BY <1>1 DEF Sound, Steady, Counted, Whole
<1>7. AllTold(Whole, Whole.server.snapshot)'
  BY <1>1 DEF Sound, AllTold, Truthful, Whole
<1>8. NoneFailed(Whole)' /\ Published(Whole)'
  BY <1>1 DEF NoneFailed, Failed, Published, Whole
<1>9. (Whole \in Worlds)'
  BY <1>2, <1>3 DEF Sound, Steady
<1>10. Sound(Whole)'
  BY <1>5, <1>6, <1>7, <1>9 DEF Sound, Steady
<1>11. (around \in Scenarios /\ history.changes <= around.changes /\ history.locks <= around.locks)'
  BY <1>1
<1> QED
  BY <1>1, <1>8, <1>10, <1>11 DEF IInv


\* A connection that nothing has happened to.
LEMMA ClosedFields ==
  ASSUME around \in Scenarios
  PROVE  /\ Closed \in Connections /\ Closed.state = "none" /\ Pending(Closed) = <<>>
         /\ Closed.subscribed = FALSE /\ Closed.events = {} /\ Kept(Closed, 0, 0, NONE)
<1> DEFINE no == FALSE
           start == "none"
           x == [state |-> start, hangup |-> no, wire |-> <<>>, input |-> 0, output |-> <<>>,
                 socket |-> <<>>, subscribed |-> no, events |-> {}]
<1>1. Closed = x
  BY DEF Closed
<1>2. /\ no \in BOOLEAN /\ no = FALSE /\ start = "none"
      /\ start \in {"none", "waiting", "open", "failed", "gone"}
  OBVIOUS
<1>3. 0 \in 0 .. MaxLine
  BY IpcAssumption
<1>4. <<>> \in Seq(Units) /\ <<>> \in Seq(Bytes)
  OBVIOUS
<1> HIDE DEF no, start
<1>5. x \in Connections
  BY <1>2, <1>3, <1>4 DEF Connections
<1>6. /\ x.output = <<>> /\ x.socket = <<>> /\ x.wire = <<>> /\ x.input = 0 /\ x.events = {}
      /\ x.subscribed = no /\ x.state = start
  OBVIOUS
<1> HIDE DEF x
<1>7. Pending(x) = <<>>
  BY <1>6 DEF Pending
<1>8. Kept(x, 0, 0, NONE)
  <2>1. FramedAfter(NONE, <<>>)
    BY DEF FramedAfter, Framed
  <2>2. Numbered(<<>>, 0)
    BY DEF Numbered
  <2>3. Len(x.output) <= MaxOutput /\ Len(x.socket) <= Room
    <3>1. MaxOutput \in Nat /\ Room \in Nat /\ Len(<<>>) = 0
      BY IpcAssumption
    <3> QED
      BY <1>6, <3>1
  <2>4. Asked(x, 0, 0)
    <3>1. 0 \in 0 .. around.sent /\ 0 \in 0 .. 0
      BY Bounds
    <3> QED
      BY <1>2, <1>6, <3>1 DEF Asked
  <2> QED
    BY <1>7, <2>1, <2>2, <2>3, <2>4 DEF Kept
<1> QED
  BY <1>1, <1>2, <1>5, <1>6, <1>7, <1>8

LEMMA InitHolds == Init => IInv
<1> SUFFICES ASSUME Init PROVE IInv
  OBVIOUS
<1> DEFINE first == CHOOSE v \in Values : TRUE
           start == [f \in Fields |-> first]
           zeros == [c \in Clients |-> 0]
           nones == [c \in Clients |-> NONE]
           starts == [c \in Clients |-> start]
           no == FALSE
           closed == [c \in Clients |-> Closed]
<1>1. /\ around \in Scenarios
      /\ server = [now |-> start, snapshot |-> start, idle |-> no, locked |-> no,
                   exclusive |-> no, clients |-> {}, count |-> 0]
      /\ history = [asked |-> zeros, answered |-> zeros, heard |-> nones, told |-> starts,
                    changes |-> 0, commands |-> 0, locks |-> 0]
      /\ client = closed
  BY DEF Init
<1>2. start \in State
  <2>1. first \in Values
    BY IpcAssumption
  <2> HIDE DEF first
  <2> QED
    BY <2>1 DEF State
<1>3. zeros \in [Clients -> Nat] /\ \A c \in Clients : zeros[c] = 0
  OBVIOUS
<1>4. nones \in [Clients -> {NONE} \cup Units] /\ \A c \in Clients : nones[c] = NONE
  OBVIOUS
<1> HIDE DEF start
<1>5. starts \in [Clients -> State] /\ \A c \in Clients : starts[c] = start
  BY <1>2
<1>6. closed \in [Clients -> Connections] /\ \A c \in Clients : closed[c] = Closed
  BY <1>1, ClosedFields
<1>7. no \in BOOLEAN /\ no = FALSE
  OBVIOUS
<1> HIDE DEF zeros, nones, starts, closed, no
<1>8. server \in Servers /\ history \in Histories /\ client \in [Clients -> Connections]
  BY <1>1, <1>2, <1>3, <1>4, <1>5, <1>6, <1>7 DEF Servers, Histories
<1>9. /\ Whole.server = server /\ Whole.client = client /\ Whole.history = history
      /\ Whole \in Worlds
  BY <1>8 DEF Whole, Worlds
<1>10. AllKept(Whole)
  BY <1>1, <1>3, <1>4, <1>6, <1>9, ClosedFields DEF AllKept
<1>11. AllTold(Whole, Whole.server.snapshot)
  BY <1>1, <1>6, <1>9, ClosedFields DEF AllTold, Truthful
<1>12. NoneFailed(Whole)
  BY <1>1, <1>6, <1>9, ClosedFields DEF NoneFailed, Failed
<1>13. Published(Whole)
  BY <1>1, <1>9 DEF Published
<1>14. Counted(Whole)
  <2>1. {c \in Clients : Whole.client[c].state \in {"open", "failed"}} = {}
    BY <1>1, <1>6, <1>9, ClosedFields
  <2>2. server.count = 0 /\ server.clients = {} /\ 0 <= MaxClients
    BY <1>1, IpcAssumption
  <2> QED
    BY <1>9, <2>1, <2>2, FS_EmptySet DEF Counted
<1>15. history.changes <= around.changes /\ history.locks <= around.locks
  BY <1>1, Bounds
<1> QED
  BY <1>1, <1>9, <1>10, <1>11, <1>12, <1>13, <1>14, <1>15 DEF IInv, Sound, Steady

\* What the invariant says of the world
LEMMA Here ==
  ASSUME IInv
  PROVE  /\ around \in Scenarios /\ Sound(Whole) /\ Steady(Whole) /\ Whole \in Worlds
         /\ AllKept(Whole) /\ Counted(Whole) /\ AllTold(Whole, Whole.server.snapshot)
         /\ NoneFailed(Whole) /\ Published(Whole)
         /\ Whole.server = server /\ Whole.client = client /\ Whole.history = history
         /\ history.changes <= around.changes /\ history.locks <= around.locks
         /\ history.changes \in Nat /\ history.locks \in Nat
<1>1. Whole.server = server /\ Whole.client = client /\ Whole.history = history
  BY DEF Whole
<1>2. Whole \in Worlds
  BY DEF IInv, Sound, Steady
<1>3. history \in Histories
  BY <1>1, <1>2, WorldFields
<1> QED
  BY <1>1, <1>3 DEF IInv, Sound, Steady, Histories


\* One connection changes, and what was asked and heard over it, while the server stands
\* still.
LEMMA OneClient ==
  ASSUME IInv, NEW c \in Clients, NEW k \in Connections, NEW h \in Histories,
         around' = around, server' = server, client' = [client EXCEPT ![c] = k], history' = h,
         h.answered = history.answered, h.told = history.told,
         h.changes = history.changes, h.locks = history.locks,
         \A d \in Clients \ {c} : h.asked[d] = history.asked[d] /\ h.heard[d] = history.heard[d],
         Kept(k, h.asked[c], h.answered[c], h.heard[c]),
         k.state # "failed", k.state = "open" <=> client[c].state = "open",
         k.state \in {"none", "waiting"} => client[c].state \in {"none", "waiting"},
         k.events = client[c].events, k.subscribed = client[c].subscribed
  PROVE  IInv'
<1> DEFINE client1 == [client EXCEPT ![c] = k]
           t == [server |-> server, client |-> client1, history |-> h]
<1>1. /\ around \in Scenarios /\ Whole \in Worlds
      /\ AllKept(Whole) /\ Counted(Whole) /\ AllTold(Whole, Whole.server.snapshot)
      /\ NoneFailed(Whole) /\ Published(Whole)
      /\ Whole.server = server /\ Whole.client = client /\ Whole.history = history
      /\ history.changes <= around.changes /\ history.locks <= around.locks
  BY Here
<1>2. server \in Servers /\ client \in [Clients -> Connections]
  BY <1>1, WorldFields
<1>3. /\ client1 \in [Clients -> Connections] /\ client1[c] = k
      /\ \A d \in Clients \ {c} : client1[d] = client[d]
  BY <1>2
<1>4. client' = client1
  OBVIOUS
<1> HIDE DEF client1
<1>5. t \in Worlds /\ t.server = server /\ t.client = client1 /\ t.history = h
  BY <1>2, <1>3 DEF Worlds
<1>6. Become(t)
  BY <1>4 DEF Become
<1> HIDE DEF t
<1>7. AllKept(t)
  <2>1. SUFFICES ASSUME NEW d \in Clients
                 PROVE  Kept(client1[d], h.asked[d], h.answered[d], h.heard[d])
    BY <1>5 DEF AllKept
  <2>2. CASE d = c
    BY <1>3, <2>2
  <2>3. CASE d # c
    <3>1. Kept(client[d], history.asked[d], history.answered[d], history.heard[d])
      BY <1>1 DEF AllKept
    <3> QED
      BY <1>3, <2>3, <3>1
  <2> QED
    BY <2>2, <2>3
<1>8. AllTold(t, t.server.snapshot)
  <2>1. SUFFICES ASSUME NEW d \in Clients
                 PROVE  Truthful(client1[d], history.told[d], server.snapshot)
    BY <1>5 DEF AllTold
  <2>2. Truthful(client[d], history.told[d], server.snapshot)
    BY <1>1 DEF AllTold
  <2>3. CASE d = c
    BY <1>3, <2>2, <2>3 DEF Truthful
  <2>4. CASE d # c
    BY <1>3, <2>2, <2>4
  <2> QED
    BY <2>3, <2>4
<1>9. \A d \in Clients : client1[d].state \in {"open", "failed"} <=> client[d].state \in {"open", "failed"}
  BY <1>1, <1>3 DEF NoneFailed, Failed
<1>10. Counted(t)
  <2>1. server.clients = {d \in Clients : client[d].state \in {"open", "failed"}}
        /\ server.count = Cardinality(server.clients) /\ server.count <= MaxClients
    BY <1>1 DEF Counted
  <2>2. server.clients = {d \in Clients : client1[d].state \in {"open", "failed"}}
    BY <1>9, <2>1
  <2> QED
    BY <1>5, <2>1, <2>2 DEF Counted
<1>11. NoneFailed(t)
  BY <1>1, <1>3, <1>5 DEF NoneFailed, Failed
<1>12. Published(t)
  BY <1>1, <1>5 DEF Published
<1>13. t.history.changes <= around.changes /\ t.history.locks <= around.locks
  BY <1>1, <1>5
<1>14. Sound(t)
  BY <1>5, <1>7, <1>8, <1>10 DEF Sound, Steady
<1> QED
  BY <1>1, <1>6, <1>11, <1>12, <1>13, <1>14, Restated

\* What the invariant says of a client
LEMMA ClientHere ==
  ASSUME IInv, NEW c \in Clients
  PROVE  /\ client[c] \in Connections /\ client \in [Clients -> Connections] /\ history \in Histories
         /\ Kept(client[c], history.asked[c], history.answered[c], history.heard[c])
         /\ client[c].state # "failed"
         /\ history.asked[c] \in Nat /\ history.answered[c] \in Nat
         /\ history.heard[c] \in {NONE} \cup Units
<1>1. Whole \in Worlds /\ AllKept(Whole) /\ NoneFailed(Whole)
      /\ Whole.client = client /\ Whole.history = history
  BY Here
<1>2. /\ client[c] \in Connections /\ client \in [Clients -> Connections] /\ history \in Histories
      /\ history.asked[c] \in Nat /\ history.answered[c] \in Nat
      /\ history.heard[c] \in {NONE} \cup Units
  BY <1>1, WorldFields
<1> QED
  BY <1>1, <1>2 DEF AllKept, NoneFailed, Failed

LEMMA ConnectKeeps ==
  ASSUME IInv, NEW c \in Clients, Connect(c)
  PROVE  IInv'
<1> DEFINE start == "waiting"
           k == [client[c] EXCEPT !.state = start]
<1>1. /\ client[c] \in Connections /\ client \in [Clients -> Connections] /\ history \in Histories
      /\ Kept(client[c], history.asked[c], history.answered[c], history.heard[c])
  BY ClientHere
<1>2. /\ client[c].state = "none" /\ around' = around /\ server' = server /\ history' = history
      /\ client' = [client EXCEPT ![c] = k]
  BY <1>1 DEF Connect
<1>3. start \in {"none", "waiting", "open", "failed", "gone"} /\ start = "waiting"
  OBVIOUS
<1> HIDE DEF start
<1>4. /\ k \in Connections /\ k.state = start /\ k.wire = client[c].wire /\ k.input = client[c].input
      /\ k.output = client[c].output /\ k.socket = client[c].socket
      /\ k.events = client[c].events /\ k.subscribed = client[c].subscribed
  BY <1>1, <1>3 DEF Connections
<1> HIDE DEF k
<1>5. Pending(k) = Pending(client[c])
  BY <1>4 DEF Pending
<1>6. Asked(k, history.asked[c], history.answered[c])
  <2>1. Asked(client[c], history.asked[c], history.answered[c])
    BY <1>1 DEF Kept
  <2>2. k.wire = <<>> /\ k.input = 0 /\ history.asked[c] = 0 /\ history.answered[c] = 0
    BY <1>2, <1>4, <2>1 DEF Asked
  <2>3. Lined(<<>>, 0) /\ Newlines(<<>>) = {}
    BY DEF Lined, Newlines
  <2>4. 0 + Cardinality({}) = 0
    BY FS_EmptySet
  <2> QED
    BY <1>3, <1>4, <2>1, <2>2, <2>3, <2>4 DEF Asked
<1>7. Kept(k, history.asked[c], history.answered[c], history.heard[c])
  BY <1>1, <1>2, <1>4, <1>5, <1>6 DEF Kept
<1> QED
  BY <1>1, <1>2, <1>3, <1>4, <1>7, OneClient


LEMMA HangupKeeps ==
  ASSUME IInv, NEW c \in Clients, Hangup(c)
  PROVE  IInv'
<1> DEFINE yes == TRUE
           k == [client[c] EXCEPT !.hangup = yes]
<1>1. /\ client[c] \in Connections /\ client \in [Clients -> Connections] /\ history \in Histories
      /\ Kept(client[c], history.asked[c], history.answered[c], history.heard[c])
      /\ client[c].state # "failed"
  BY ClientHere
<1>2. /\ around' = around /\ server' = server /\ history' = history
      /\ client' = [client EXCEPT ![c] = k]
  BY <1>1 DEF Hangup
<1>3. yes \in BOOLEAN
  OBVIOUS
<1> HIDE DEF yes
<1>4. /\ k \in Connections /\ k.wire = client[c].wire /\ k.input = client[c].input
      /\ k.output = client[c].output /\ k.socket = client[c].socket /\ k.state = client[c].state
      /\ k.events = client[c].events /\ k.subscribed = client[c].subscribed
  BY <1>1, <1>3 DEF Connections
<1> HIDE DEF k
<1>5. Pending(k) = Pending(client[c])
  BY <1>4 DEF Pending
<1>6. Asked(k, history.asked[c], history.answered[c])
  BY <1>1, <1>4 DEF Kept, Asked
<1>7. Kept(k, history.asked[c], history.answered[c], history.heard[c])
  BY <1>1, <1>4, <1>5, <1>6 DEF Kept
<1> QED
  BY <1>1, <1>2, <1>4, <1>7, OneClient, ZenonT(90)

LEMMA WriteKeeps ==
  ASSUME IInv, NEW c \in Clients, NEW r \in around.requests, Write(c, r)
  PROVE  IInv'
<1> DEFINE w == client[c].wire
           z == Written(w, r)
           k == [client[c] EXCEPT !.wire = z]
           n == history.asked[c] + 1
           asked == [history.asked EXCEPT ![c] = n]
           h == [history EXCEPT !.asked = asked]
<1>1. /\ client[c] \in Connections /\ client \in [Clients -> Connections] /\ history \in Histories
      /\ Kept(client[c], history.asked[c], history.answered[c], history.heard[c])
      /\ history.asked[c] \in Nat /\ history.answered[c] \in Nat /\ around \in Scenarios
  BY ClientHere, Here
<1>2. /\ around' = around /\ server' = server
      /\ client[c].state \in {"waiting", "open"} /\ history.asked[c] < around.sent
      /\ client' = [client EXCEPT ![c] = k]
  BY <1>1 DEF Write, Written
<1>3. history' = h
  BY DEF Write
<1>4. w \in Seq(Bytes) /\ client[c].input \in Nat
  BY <1>1, Typed, IpcAssumption DEF Connections
<1>5. n \in Nat /\ asked \in [Clients -> Nat] /\ asked[c] = n
      /\ \A d \in Clients \ {c} : asked[d] = history.asked[d]
  BY <1>1 DEF Histories
<1>6. Asked(client[c], history.asked[c], history.answered[c])
  BY <1>1 DEF Kept
<1>7. Lined(w, client[c].input) /\ history.answered[c] + Cardinality(Newlines(w)) = history.asked[c]
      /\ history.answered[c] \in 0 .. history.asked[c] /\ client[c].state \in {"waiting", "open"}
  BY <1>2, <1>6 DEF Asked
<1> HIDE DEF w
<1>8. z \in Seq(Bytes)
  BY <1>1, <1>4, WrittenBytes
<1>9. Lined(z, client[c].input) /\ Cardinality(Newlines(z)) = Cardinality(Newlines(w)) + 1
      /\ Cardinality(Newlines(w)) \in Nat
  BY <1>1, <1>4, <1>7, LinedMore, NewlinesFinite
<1>10. n \in 0 .. around.sent /\ history.answered[c] \in 0 .. n
       /\ history.answered[c] + Cardinality(Newlines(z)) = n
  BY <1>1, <1>2, <1>7, <1>9, Bounds
<1> HIDE DEF z, n, asked
<1>11. /\ k \in Connections /\ k.wire = z /\ k.input = client[c].input
       /\ k.output = client[c].output /\ k.socket = client[c].socket /\ k.state = client[c].state
       /\ k.events = client[c].events /\ k.subscribed = client[c].subscribed
  BY <1>1, <1>8 DEF Connections
<1>12. /\ h \in Histories /\ h.asked = asked /\ h.answered = history.answered
       /\ h.heard = history.heard /\ h.told = history.told
       /\ h.changes = history.changes /\ h.locks = history.locks
  BY <1>1, <1>5 DEF Histories
<1> HIDE DEF k, h
<1>13. Pending(k) = Pending(client[c])
  BY <1>11 DEF Pending
<1>14. Asked(k, n, history.answered[c])
  BY <1>7, <1>9, <1>10, <1>11 DEF Asked
<1>15. k.state # "failed" /\ client[c].state # "failed"
  BY <1>7, <1>11
<1>16. Kept(k, n, history.answered[c], history.heard[c])
  BY <1>1, <1>11, <1>13, <1>14, <1>15 DEF Kept
<1>17. Kept(k, h.asked[c], h.answered[c], h.heard[c])
       /\ \A d \in Clients \ {c} : h.asked[d] = history.asked[d] /\ h.heard[d] = history.heard[d]
  BY <1>5, <1>12, <1>16
<1>18. /\ k \in Connections /\ h \in Histories
       /\ around' = around /\ server' = server /\ client' = [client EXCEPT ![c] = k] /\ history' = h
       /\ h.answered = history.answered /\ h.told = history.told
       /\ h.changes = history.changes /\ h.locks = history.locks
       /\ \A d \in Clients \ {c} : h.asked[d] = history.asked[d] /\ h.heard[d] = history.heard[d]
       /\ Kept(k, h.asked[c], h.answered[c], h.heard[c])
       /\ k.state # "failed" /\ (k.state = "open" <=> client[c].state = "open")
       /\ (k.state \in {"none", "waiting"} => client[c].state \in {"none", "waiting"})
       /\ k.events = client[c].events /\ k.subscribed = client[c].subscribed
  BY <1>2, <1>3, <1>11, <1>12, <1>15, <1>17
<1> QED
  BY <1>18, OneClient

\* What comes first is taken from the first of two sequences.
LEMMA FirstOfTwo ==
  ASSUME NEW V, NEW a \in Seq(V), a # <<>>, NEW b \in Seq(V)
  PROVE  Head(a) \in V /\ Tail(a) \in Seq(V) /\ a \o b # <<>> /\ Head(a \o b) = Head(a)
         /\ Tail(a \o b) = Tail(a) \o b /\ Len(Tail(a)) <= Len(a)
<1> DEFINE ab == a \o b
           x == Tail(ab)
           y == Tail(a) \o b
<1>1. Len(a) \in Nat \ {0} /\ Len(b) \in Nat
  BY EmptySeq, LenProperties
<1>2. ab \in Seq(V) /\ Len(ab) = Len(a) + Len(b)
      /\ \A i \in 1 .. Len(a) + Len(b) : ab[i] = IF i <= Len(a) THEN a[i] ELSE b[i - Len(a)]
  BY ConcatProperties
<1>3. Tail(a) \in Seq(V) /\ Len(Tail(a)) = Len(a) - 1 /\ Head(a) \in V /\ Head(a) = a[1]
      /\ \A i \in 1 .. Len(Tail(a)) : Tail(a)[i] = a[i + 1]
  BY HeadTailProperties
<1> HIDE DEF ab
<1>4. ab # <<>>
  BY <1>1, <1>2, EmptySeq
<1>5. x \in Seq(V) /\ Len(x) = Len(ab) - 1 /\ \A i \in 1 .. Len(x) : x[i] = ab[i + 1]
  BY <1>2, <1>4, HeadTailProperties
<1>6. Head(ab) = a[1]
  <2>1. 1 \in 1 .. Len(a) + Len(b) /\ 1 <= Len(a)
    BY <1>1
  <2>2. Head(ab) = ab[1]
    BY <1>2, <1>4, HeadTailProperties
  <2> QED
    BY <1>2, <2>1, <2>2
<1>7. y \in Seq(V) /\ Len(y) = Len(Tail(a)) + Len(b)
      /\ \A i \in 1 .. Len(Tail(a)) + Len(b) :
           y[i] = IF i <= Len(Tail(a)) THEN Tail(a)[i] ELSE b[i - Len(Tail(a))]
  <2> DEFINE at == Tail(a)
  <2>1. at \in Seq(V)
    BY <1>3
  <2> HIDE DEF at
  <2>2. at \o b \in Seq(V) /\ Len(at \o b) = Len(at) + Len(b)
        /\ \A i \in 1 .. Len(at) + Len(b) :
             (at \o b)[i] = IF i <= Len(at) THEN at[i] ELSE b[i - Len(at)]
    BY <2>1, ConcatProperties
  <2> QED
    BY <2>2 DEF at
<1> HIDE DEF x, y
<1>8. Len(x) = Len(y)
  BY <1>1, <1>2, <1>3, <1>5, <1>7
<1>9. ASSUME NEW i \in 1 .. Len(x) PROVE x[i] = y[i]
  <2>1. /\ i \in Int /\ 1 <= i /\ i <= Len(a) + Len(b) - 1 /\ x[i] = ab[i + 1]
        /\ i \in 1 .. Len(Tail(a)) + Len(b) /\ i + 1 \in 1 .. Len(a) + Len(b)
    BY <1>1, <1>2, <1>3, <1>5
  <2>2. CASE i <= Len(a) - 1
    <3>1. i \in 1 .. Len(Tail(a)) /\ i <= Len(Tail(a)) /\ i + 1 <= Len(a)
      BY <1>1, <1>3, <2>1, <2>2
    <3> QED
      BY <1>2, <1>3, <1>7, <2>1, <3>1
  <2>3. CASE ~(i <= Len(a) - 1)
    <3>1. ~(i <= Len(Tail(a))) /\ ~(i + 1 <= Len(a)) /\ (i + 1) - Len(a) = i - Len(Tail(a))
      BY <1>1, <1>3, <2>1, <2>3
    <3> QED
      BY <1>2, <1>7, <2>1, <3>1
  <2> QED
    BY <2>2, <2>3
<1>10. x = y
  BY <1>5, <1>7, <1>8, <1>9, SeqEqual, SMTT(60)
<1>11. Len(Tail(a)) <= Len(a)
  BY <1>1, <1>3
<1> QED
  BY <1>3, <1>4, <1>6, <1>10, <1>11 DEF ab, x, y

LEMMA ReadKeeps ==
  ASSUME IInv, NEW c \in Clients, Read(c)
  PROVE  /\ IInv' /\ Pending(client[c]) \in Seq(Units) /\ Pending(client[c]) # <<>>
         /\ Pending(client'[c]) = Tail(Pending(client[c]))
<1> DEFINE a == client[c].socket
           b == client[c].output
           at == Tail(a)
           head == Head(a)
           k == [client[c] EXCEPT !.socket = at]
           heard == [history.heard EXCEPT ![c] = head]
           h == [history EXCEPT !.heard = heard]
<1>1. /\ client[c] \in Connections /\ client \in [Clients -> Connections] /\ history \in Histories
      /\ Kept(client[c], history.asked[c], history.answered[c], history.heard[c])
      /\ client[c].state # "failed" /\ history.heard[c] \in {NONE} \cup Units
  BY ClientHere
<1>2. /\ around' = around /\ server' = server /\ a # <<>>
      /\ client' = [client EXCEPT ![c] = k]
  BY <1>1 DEF Read
<1>3. history' = h
  BY DEF Read
<1>4. a \in Seq(Units) /\ b \in Seq(Units)
  BY <1>1, Typed
<1>14. Len(a) <= Room /\ Len(b) <= MaxOutput
  BY <1>1 DEF Kept
<1> HIDE DEF a, b
<1>5. /\ head \in Units /\ at \in Seq(Units) /\ a \o b # <<>> /\ head = Head(a \o b)
      /\ Tail(a \o b) = at \o b /\ Len(at) <= Len(a)
  BY <1>2, <1>4, FirstOfTwo
<1> HIDE DEF at, head
<1>6. heard \in [Clients -> {NONE} \cup Units] /\ heard[c] = head
      /\ \A d \in Clients \ {c} : heard[d] = history.heard[d]
  BY <1>1, <1>5 DEF Histories
<1> HIDE DEF heard
<1>7. /\ k \in Connections /\ k.wire = client[c].wire /\ k.input = client[c].input
      /\ k.output = b /\ k.socket = at /\ k.state = client[c].state
      /\ k.events = client[c].events /\ k.subscribed = client[c].subscribed
  BY <1>1, <1>5 DEF Connections, b
<1>8. /\ h \in Histories /\ h.heard = heard /\ h.answered = history.answered
      /\ h.asked = history.asked /\ h.told = history.told
      /\ h.changes = history.changes /\ h.locks = history.locks
  BY <1>1, <1>6 DEF Histories
<1> HIDE DEF k, h
<1> DEFINE q == Pending(client[c])
<1>9. q = a \o b /\ Pending(k) = at \o b
  BY <1>7 DEF Pending, a, b
<1>10. q \in Seq(Units)
  BY <1>1, Typed
<1>11. /\ client[c].state # "gone" => FramedAfter(history.heard[c], q) /\ Numbered(q, history.answered[c])
       /\ Asked(client[c], history.asked[c], history.answered[c])
  BY <1>1 DEF Kept
<1> HIDE DEF q
<1>12. q # <<>> /\ head = Head(q) /\ Pending(k) = Tail(q)
  BY <1>5, <1>9
<1>13. k.state # "gone" => FramedAfter(head, Pending(k)) /\ Numbered(Pending(k), history.answered[c])
  BY <1>7, <1>1, <1>10, <1>11, <1>12, FramedAfterTail, NumberedTail
<1>15. Len(k.output) <= MaxOutput /\ Len(k.socket) <= Room
  <2>1. Len(a) \in Nat /\ Len(at) \in Nat /\ Room \in Nat
    BY <1>4, <1>5, LenProperties, IpcAssumption
  <2> QED
    BY <1>5, <1>7, <1>14, <2>1
<1>16. Asked(k, history.asked[c], history.answered[c])
  BY <1>7, <1>11 DEF Asked
<1>17. Kept(k, h.asked[c], h.answered[c], h.heard[c])
  BY <1>6, <1>8, <1>13, <1>15, <1>16 DEF Kept
<1>18. k.state # "failed" /\ \A d \in Clients \ {c} : h.asked[d] = history.asked[d] /\ h.heard[d] = history.heard[d]
  BY <1>1, <1>6, <1>7, <1>8
<1>19. /\ k \in Connections /\ h \in Histories
       /\ around' = around /\ server' = server /\ client' = [client EXCEPT ![c] = k] /\ history' = h
       /\ h.answered = history.answered /\ h.told = history.told
       /\ h.changes = history.changes /\ h.locks = history.locks
       /\ \A d \in Clients \ {c} : h.asked[d] = history.asked[d] /\ h.heard[d] = history.heard[d]
       /\ Kept(k, h.asked[c], h.answered[c], h.heard[c])
       /\ k.state # "failed" /\ (k.state = "open" <=> client[c].state = "open")
       /\ (k.state \in {"none", "waiting"} => client[c].state \in {"none", "waiting"})
       /\ k.events = client[c].events /\ k.subscribed = client[c].subscribed
  BY <1>2, <1>3, <1>7, <1>8, <1>17, <1>18
<1>20. IInv'
  BY <1>19, OneClient
<1>21. client'[c] = k
  BY <1>1, <1>2
<1> QED
  BY <1>10, <1>12, <1>20, <1>21 DEF q


\* leme_ipc_handle_listen, when there is a place
LEMMA AcceptKeeps ==
  ASSUME IInv, NEW c \in Clients, HandleListen(c), ~(server.count >= MaxClients)
  PROVE  IInv' /\ server'.locked = server.locked /\ history'.commands = history.commands
         /\ \A d \in Clients : Pending(client'[d]) = Pending(client[d])
<1> DEFINE open == "open"
           k == [client[c] EXCEPT !.state = open]
           clients == server.clients \cup {c}
           n == server.count + 1
           client1 == [client EXCEPT ![c] = k]
           server1 == [server EXCEPT !.count = n, !.clients = clients]
           t == [Whole EXCEPT !.client = client1, !.server = server1]
<1>1. /\ around \in Scenarios /\ Whole \in Worlds
      /\ AllKept(Whole) /\ Counted(Whole) /\ AllTold(Whole, Whole.server.snapshot)
      /\ NoneFailed(Whole) /\ Published(Whole)
      /\ Whole.server = server /\ Whole.client = client /\ Whole.history = history
      /\ history.changes <= around.changes /\ history.locks <= around.locks
  BY Here
<1>2. server \in Servers /\ client \in [Clients -> Connections]
  BY <1>1, WorldFields
<1>3. client[c].state = "waiting"
  BY DEF HandleListen
<1>4. [Whole EXCEPT !.client[c].state = "open", !.server.count = @ + 1,
                    !.server.clients = @ \cup {c}] = t
  BY <1>1, <1>2
<1>5. Become(t)
  BY <1>3, <1>4 DEF HandleListen
<1>6. open \in {"none", "waiting", "open", "failed", "gone"} /\ open = "open"
  OBVIOUS
<1> HIDE DEF open
<1>7. client[c] \in Connections
  BY <1>2
<1>8. /\ k \in Connections /\ k.wire = client[c].wire /\ k.input = client[c].input
      /\ k.output = client[c].output /\ k.socket = client[c].socket /\ k.state = open
      /\ k.events = client[c].events /\ k.subscribed = client[c].subscribed
  BY <1>6, <1>7 DEF Connections
<1> HIDE DEF k
<1>9. /\ client1 \in [Clients -> Connections] /\ client1[c] = k
      /\ \A d \in Clients \ {c} : client1[d] = client[d]
  BY <1>2, <1>8
<1>10. server.clients \subseteq Clients /\ server.count \in Nat
  BY <1>2 DEF Servers
<1>11. clients \in SUBSET Clients /\ n \in Nat
  BY <1>10
<1>12. \A d : d \in clients <=> d \in server.clients \/ d = c
  OBVIOUS
<1>13. /\ server.count = Cardinality(server.clients) /\ server.count <= MaxClients
       /\ server.clients = {d \in Clients : client[d].state \in {"open", "failed"}}
  BY <1>1 DEF Counted
<1>14. n = Cardinality(clients) /\ n <= MaxClients
  <2>1. IsFiniteSet(server.clients) /\ c \notin server.clients
    BY <1>3, <1>10, <1>13, IpcAssumption, FS_Subset
  <2>2. Cardinality(clients) = Cardinality(server.clients) + 1
    BY <2>1, FS_AddElement
  <2>3. MaxClients \in Nat
    BY IpcAssumption
  <2> QED
    BY <1>10, <1>13, <2>2, <2>3
<1> HIDE DEF clients, n, client1
<1>15. /\ server1 \in Servers /\ server1.clients = clients /\ server1.count = n
       /\ server1.now = server.now /\ server1.snapshot = server.snapshot
       /\ server1.idle = server.idle /\ server1.locked = server.locked
       /\ server1.exclusive = server.exclusive
  BY <1>2, <1>11 DEF Servers
<1> HIDE DEF server1
<1>16. t \in Worlds /\ t.server = server1 /\ t.client = client1 /\ t.history = history
  BY <1>1, <1>9, <1>15 DEF Worlds
<1> HIDE DEF t
<1>17. \A d \in Clients : Pending(client1[d]) = Pending(client[d])
  <2>1. Pending(k) = Pending(client[c])
    BY <1>8 DEF Pending
  <2> QED
    BY <1>9, <2>1
<1>18. AllKept(t)
  <2>1. SUFFICES ASSUME NEW d \in Clients
                 PROVE  Kept(client1[d], history.asked[d], history.answered[d], history.heard[d])
    BY <1>16 DEF AllKept
  <2>2. Kept(client[d], history.asked[d], history.answered[d], history.heard[d])
    BY <1>1 DEF AllKept
  <2>3. CASE d = c
    <3>1. Asked(k, history.asked[c], history.answered[c])
      BY <1>3, <1>6, <1>8, <2>2, <2>3 DEF Kept, Asked
    <3>2. Kept(k, history.asked[c], history.answered[c], history.heard[c])
      BY <1>3, <1>8, <1>9, <1>17, <2>2, <2>3, <3>1 DEF Kept
    <3> QED
      BY <1>9, <2>3, <3>2
  <2>4. CASE d # c
    BY <1>9, <2>2, <2>4
  <2> QED
    BY <2>3, <2>4

<1>19. AllTold(t, t.server.snapshot)
  <2>1. SUFFICES ASSUME NEW d \in Clients
                 PROVE  Truthful(client1[d], history.told[d], server.snapshot)
    BY <1>15, <1>16 DEF AllTold
  <2>2. Truthful(client[d], history.told[d], server.snapshot)
    BY <1>1 DEF AllTold
  <2>3. CASE d = c
    <3>1. k.events = {}
      BY <1>3, <1>8, <2>2, <2>3 DEF Truthful
    <3> QED
      BY <1>9, <2>3, <3>1 DEF Truthful
  <2>4. CASE d # c
    BY <1>9, <2>2, <2>4
  <2> QED
    BY <2>3, <2>4
<1>20. Counted(t)
  <2>1. ASSUME NEW d \in Clients
        PROVE  d \in clients <=> client1[d].state \in {"open", "failed"}
    BY <1>6, <1>8, <1>9, <1>12, <1>13
  <2>2. clients = {d \in Clients : client1[d].state \in {"open", "failed"}}
    BY <1>11, <2>1
  <2> QED
    BY <1>14, <1>15, <1>16, <2>2 DEF Counted
<1>21. NoneFailed(t)
  BY <1>1, <1>6, <1>8, <1>9, <1>16 DEF NoneFailed, Failed
<1>22. Published(t)
  BY <1>1, <1>15, <1>16 DEF Published
<1>23. Sound(t)
  BY <1>16, <1>18, <1>19, <1>20 DEF Sound, Steady
<1>24. t.history.changes <= around.changes /\ t.history.locks <= around.locks
  BY <1>1, <1>16
<1>25. IInv'
  BY <1>1, <1>5, <1>21, <1>22, <1>23, <1>24, Restated
<1>26. server' = server1 /\ client' = client1 /\ history' = history
  BY <1>5, <1>16 DEF Become
<1> QED
  BY <1>15, <1>17, <1>25, <1>26


\* leme_ipc_handle_listen, when there is no place
LEMMA RefuseKeeps ==
  ASSUME IInv, NEW c \in Clients, HandleListen(c), server.count >= MaxClients
  PROVE  IInv' /\ server'.locked = server.locked /\ history'.commands = history.commands
         /\ \A d \in Clients : client'[d] = Gone \/ client'[d] = client[d]
<1>1. /\ around \in Scenarios /\ Whole \in Worlds
      /\ AllKept(Whole) /\ AllTold(Whole, Whole.server.snapshot)
      /\ Whole.server = server /\ Whole.client = client /\ Whole.history = history
  BY Here
<1>2. client \in [Clients -> Connections] /\ history \in Histories
      /\ Kept(client[c], history.asked[c], history.answered[c], history.heard[c])
  BY ClientHere
<1>3. client[c].state = "waiting" /\ Become([Whole EXCEPT !.client[c] = Gone])
  BY DEF HandleListen, Gone
<1>4. /\ Gone \in Connections /\ Gone.state = "gone" /\ Gone.events = {}
  BY GoneFields
<1>5. history.asked[c] \in 0 .. around.sent /\ history.answered[c] \in 0 .. history.asked[c]
  BY <1>2 DEF Kept, Asked
<1>6. Kept(Gone, history.asked[c], history.answered[c], history.heard[c])
  BY <1>5, GoneKept
<1> DEFINE client1 == [client EXCEPT ![c] = Gone]
           t == [server |-> server, client |-> client1, history |-> history]
<1>8. [Whole EXCEPT !.client[c] = Gone] = t
  BY <1>1 DEF Whole
<1> HIDE DEF Gone
<1>9. client1 \in [Clients -> Connections] /\ client1[c] = Gone
      /\ \A d \in Clients \ {c} : client1[d] = client[d]
  BY <1>2, <1>4
<1> HIDE DEF client1
<1>10. t \in Worlds /\ t.server = server /\ t.client = client1 /\ t.history = history
  BY <1>1, <1>9 DEF Worlds
<1>11. Become(t)
  BY <1>3, <1>8
<1> HIDE DEF t
<1>12. AllKept(t)
  <2>1. SUFFICES ASSUME NEW d \in Clients
                 PROVE  Kept(client1[d], history.asked[d], history.answered[d], history.heard[d])
    BY <1>10 DEF AllKept
  <2>2. CASE d = c
    BY <1>6, <1>9, <2>2
  <2>3. CASE d # c
    <3>1. Kept(client[d], history.asked[d], history.answered[d], history.heard[d])
      BY <1>1 DEF AllKept
    <3> QED
      BY <1>9, <2>3, <3>1
  <2> QED
    BY <2>2, <2>3
<1>13. AllTold(t, t.server.snapshot)
  <2>1. SUFFICES ASSUME NEW d \in Clients
                 PROVE  Truthful(client1[d], history.told[d], server.snapshot)
    BY <1>10 DEF AllTold
  <2>2. CASE d = c
    BY <1>4, <1>9, <2>2 DEF Truthful
  <2>3. CASE d # c
    <3>1. Truthful(client[d], history.told[d], server.snapshot)
      BY <1>1 DEF AllTold
    <3> QED
      BY <1>9, <2>3, <3>1
  <2> QED
    BY <2>2, <2>3
<1>14. Counted(t)
  <2>1. server.clients = {d \in Clients : client[d].state \in {"open", "failed"}}
        /\ server.count = Cardinality(server.clients) /\ server.count <= MaxClients
    BY <1>1, Here DEF Counted
  <2>2. \A d \in Clients : client[d].state \in {"open", "failed"} <=> client1[d].state \in {"open", "failed"}
    BY <1>3, <1>4, <1>9
  <2>3. server.clients = {d \in Clients : client1[d].state \in {"open", "failed"}}
    BY <2>1, <2>2
  <2> QED
    BY <1>10, <2>1, <2>3 DEF Counted
<1>15. NoneFailed(t)
  BY <1>1, <1>4, <1>9, <1>10, Here DEF NoneFailed, Failed
<1>16. Published(t) /\ t.history.changes <= around.changes /\ t.history.locks <= around.locks
  BY <1>1, <1>10, Here DEF Published
<1>17. IInv'
  BY <1>1, <1>10, <1>11, <1>12, <1>13, <1>14, <1>15, <1>16, Restated DEF Sound, Steady
<1>18. server' = server /\ client' = client1 /\ history' = history
  BY <1>10, <1>11 DEF Become
<1> QED
  BY <1>9, <1>17, <1>18

\* leme_ipc_handle_client
LEMMA ServeKeeps ==
  ASSUME IInv, NEW c \in Clients, HandleClient(c)
  PROVE  IInv' /\ server'.locked = server.locked
         /\ (server.locked => history'.commands = history.commands)
         /\ \A d \in Clients :
              client'[d] = Gone \/ EventPlaces(Pending(client'[d])) = EventPlaces(Pending(client[d]))
<1>1. /\ around \in Scenarios /\ Sound(Whole) /\ Steady(Whole) /\ NoneFailed(Whole) /\ Published(Whole)
      /\ Whole.server = server /\ Whole.client = client /\ Whole.history = history
      /\ history.changes <= around.changes /\ history.locks <= around.locks
  BY Here
<1>2. c \in server.clients
  BY DEF HandleClient
<1>3. CASE client[c].hangup /\ Become(Destroy(Whole, {c}))
  <2> DEFINE gone == {c}
             s == Whole
             t == Destroy(s, gone)
  <2>1. gone \subseteq s.server.clients /\ Become(t)
    BY <1>1, <1>2, <1>3
  <2> HIDE DEF gone, s
  <2>2. /\ (Sound(s) => Sound(t)) /\ (Published(s) => Published(t))
        /\ t.server.locked = s.server.locked /\ t.history.commands = s.history.commands
        /\ t.history.changes = s.history.changes /\ t.history.locks = s.history.locks
        /\ (\A d \in Clients : Failed(s, d) => d \in gone) => NoneFailed(t)
        /\ \A d \in Clients : t.client[d] = IF d \in gone THEN Gone ELSE s.client[d]
    BY <1>1, <2>1, Dropped DEF s
  <2> HIDE DEF t
  <2>3. s.server = server /\ s.client = client /\ s.history = history
        /\ Sound(s) /\ Published(s) /\ NoneFailed(s)
    BY <1>1 DEF s
  <2>4. Sound(t) /\ Published(t) /\ NoneFailed(t)
        /\ t.history.changes <= around.changes /\ t.history.locks <= around.locks
    BY <1>1, <2>2, <2>3 DEF NoneFailed
  <2>5. IInv'
    BY <1>1, <2>1, <2>4, Restated
  <2>6. server' = t.server /\ client' = t.client /\ history' = t.history
    BY <2>1 DEF Become
  <2> QED
    BY <2>2, <2>3, <2>5, <2>6
<1>4. ASSUME NEW n \in 1 .. (IF Len(client[c].wire) < MaxLine THEN Len(client[c].wire) ELSE MaxLine),
             Become(Receive(Whole, c, n))
      PROVE  IInv' /\ server'.locked = server.locked
             /\ (server.locked => history'.commands = history.commands)
             /\ \A d \in Clients :
                  client'[d] = Gone \/ EventPlaces(Pending(client'[d])) = EventPlaces(Pending(client[d]))
  <2> DEFINE s == Whole
             t == Receive(s, c, n)
  <2>1. n \in Nat /\ n <= Len(client[c].wire)
    <3>1. client[c] \in Connections
      BY ClientHere
    <3>2. client[c].wire \in Seq(Bytes)
      BY <3>1, Typed
    <3>3. Len(client[c].wire) \in Nat /\ MaxLine \in Nat
      BY <3>2, LenProperties, IpcAssumption
    <3> QED
      BY <1>4, <3>3
  <2>2. s.server = server /\ s.client = client /\ s.history = history
        /\ Sound(s) /\ Published(s) /\ NoneFailed(s) /\ Become(t)
    BY <1>1, <1>4
  <2> HIDE DEF s
  <2>3. c \in s.server.clients /\ n <= Len(s.client[c].wire)
    BY <1>2, <2>1, <2>2
  <2>4. /\ Sound(t) /\ NoneFailed(t) /\ (Published(s) => Published(t))
        /\ t.server.locked = s.server.locked
        /\ t.history.changes = s.history.changes /\ t.history.locks = s.history.locks
        /\ (s.server.locked => t.history.commands = s.history.commands)
        /\ \A d \in Clients :
             t.client[d] = Gone \/ EventPlaces(Pending(t.client[d])) = EventPlaces(Pending(s.client[d]))
    BY <1>1, <2>1, <2>2, <2>3, ReceiveSound
  <2> HIDE DEF t
  <2>5. Published(t) /\ t.history.changes <= around.changes /\ t.history.locks <= around.locks
    BY <1>1, <2>2, <2>4
  <2>6. IInv'
    BY <1>1, <2>2, <2>4, <2>5, Restated
  <2>7. server' = t.server /\ client' = t.client /\ history' = t.history
    BY <2>2 DEF Become
  <2> QED
    BY <2>2, <2>4, <2>6, <2>7
<1> QED
  BY <1>3, <1>4 DEF HandleClient

\* The server changes, but not in what it sent or whom it serves.
LEMMA ServerOnly ==
  ASSUME IInv, NEW t \in Worlds, t.client = client,
         t.server.clients = server.clients, t.server.count = server.count,
         t.server.snapshot = server.snapshot,
         t.history.asked = history.asked, t.history.answered = history.answered,
         t.history.heard = history.heard, t.history.told = history.told
  PROVE  Sound(t) /\ NoneFailed(t)
<1>1. /\ AllKept(Whole) /\ Counted(Whole) /\ AllTold(Whole, Whole.server.snapshot) /\ NoneFailed(Whole)
      /\ Whole.server = server /\ Whole.client = client /\ Whole.history = history
  BY Here
<1>2. AllKept(t)
  BY <1>1 DEF AllKept
<1>3. AllTold(t, t.server.snapshot)
  BY <1>1 DEF AllTold
<1>4. Counted(t) /\ NoneFailed(t)
  BY <1>1, ZenonT(90) DEF Counted, NoneFailed, Failed
<1> QED
  BY <1>2, <1>3, <1>4 DEF Sound, Steady


\* leme_ipc_handle_idle
LEMMA IdleKeeps ==
  ASSUME IInv, HandleIdle
  PROVE  IInv' /\ server'.locked = server.locked /\ history'.commands = history.commands
         /\ (server.locked => client' = client)
<1> DEFINE no == FALSE
           server1 == [server EXCEPT !.idle = no]
           u == [server |-> server1, client |-> client, history |-> history]
           t == Reconcile(u)
<1>1. /\ around \in Scenarios /\ Whole \in Worlds
      /\ Whole.server = server /\ Whole.client = client /\ Whole.history = history
      /\ history.changes <= around.changes /\ history.locks <= around.locks
  BY Here
<1>2. server \in Servers /\ client \in [Clients -> Connections] /\ history \in Histories
  BY <1>1, WorldFields
<1>3. Become(Reconcile([Whole EXCEPT !.server.idle = no])) /\ no \in BOOLEAN
  BY DEF HandleIdle
<1> HIDE DEF no
<1>4. [Whole EXCEPT !.server.idle = no] = u
  BY DEF Whole
<1>5. Become(t)
  BY <1>3, <1>4
<1>6. /\ server1 \in Servers /\ server1.clients = server.clients /\ server1.count = server.count
      /\ server1.snapshot = server.snapshot /\ server1.locked = server.locked
  BY <1>2, <1>3 DEF Servers
<1> HIDE DEF server1
<1>7. u \in Worlds /\ u.server = server1 /\ u.client = client /\ u.history = history
  BY <1>2, <1>6 DEF Worlds
<1> HIDE DEF u
<1>8. Sound(u) /\ NoneFailed(u)
  BY <1>6, <1>7, ServerOnly
<1>9. /\ Sound(t) /\ NoneFailed(t) /\ Published(t)
      /\ t.history.changes = u.history.changes /\ t.history.locks = u.history.locks
      /\ t.history.commands = u.history.commands /\ t.server.locked = u.server.locked
      /\ (u.server.locked => t = u)
  BY <1>1, <1>8, ReconcileSound
<1> HIDE DEF t
<1>10. IInv'
  BY <1>1, <1>5, <1>7, <1>9, Restated
<1>11. server' = t.server /\ client' = t.client /\ history' = t.history
  BY <1>5 DEF Become
<1> QED
  BY <1>6, <1>7, <1>9, <1>10, <1>11

\* The world as it is, with other things published and another history
LEMMA ChangeKeeps ==
  ASSUME IInv, NEW f \in Fields, NEW v \in Values \cup {NONE}, Change(f, v)
  PROVE  IInv' /\ server'.locked = server.locked /\ history'.commands = history.commands
         /\ client' = client
<1> DEFINE n == history.changes + 1
           history1 == [history EXCEPT !.changes = n]
           u == [server |-> server, client |-> client, history |-> history1]
           t == Set(u, f, v)
<1>1. /\ around \in Scenarios /\ Whole \in Worlds
      /\ Whole.server = server /\ Whole.client = client /\ Whole.history = history
      /\ history.changes \in Nat /\ history.locks <= around.locks
  BY Here
<1>2. server \in Servers /\ client \in [Clients -> Connections] /\ history \in Histories
  BY <1>1, WorldFields
<1>3. [Whole EXCEPT !.history.changes = history.changes + 1] = u
  BY DEF Whole
<1>4. [Whole EXCEPT !.history.changes = @ + 1] = [Whole EXCEPT !.history.changes = history.changes + 1]
  BY DEF Whole
<1>5. Become(t) /\ history.changes < around.changes
  BY <1>3, <1>4 DEF Change
<1>6. n \in Nat /\ n <= around.changes
  BY <1>1, <1>5, Bounds
<1> HIDE DEF n
<1>7. /\ history1 \in Histories /\ history1.changes = n /\ history1.locks = history.locks
      /\ history1.asked = history.asked /\ history1.answered = history.answered
      /\ history1.heard = history.heard /\ history1.told = history.told
      /\ history1.commands = history.commands
  BY <1>2, <1>6 DEF Histories
<1> HIDE DEF history1
<1>8. u \in Worlds /\ u.server = server /\ u.client = client /\ u.history = history1
  BY <1>2, <1>7 DEF Worlds
<1> HIDE DEF u
<1>9. /\ t \in Worlds /\ t.client = u.client /\ t.history = u.history
      /\ t.server.snapshot = u.server.snapshot /\ t.server.locked = u.server.locked
      /\ t.server.clients = u.server.clients /\ t.server.count = u.server.count
      /\ Published(t)
  BY <1>8, SetFields
<1> HIDE DEF t
<1>10. Sound(t) /\ NoneFailed(t)
  BY <1>7, <1>8, <1>9, ServerOnly
<1>11. t.history.changes <= around.changes /\ t.history.locks <= around.locks
  BY <1>1, <1>6, <1>7, <1>8, <1>9
<1>12. IInv'
  BY <1>1, <1>5, <1>9, <1>10, <1>11, Restated
<1>13. server' = t.server /\ client' = t.client /\ history' = t.history
  BY <1>5 DEF Become
<1> QED
  BY <1>7, <1>8, <1>9, <1>12, <1>13

\* A flag of the server is set.
LEMMA FlagKeeps ==
  ASSUME IInv, NEW u \in Servers, NEW n \in Nat, n <= around.locks,
         u.clients = server.clients, u.count = server.count, u.snapshot = server.snapshot,
         u.now = server.now, u.idle \/ u.locked \/ u.exclusive \/
           (u.idle = server.idle /\ u.locked = server.locked /\ u.exclusive = server.exclusive),
         Become([server |-> u, client |-> client, history |-> [history EXCEPT !.locks = n]])
  PROVE  IInv' /\ server' = u /\ history'.commands = history.commands /\ client' = client
<1> DEFINE history1 == [history EXCEPT !.locks = n]
           t == [server |-> u, client |-> client, history |-> history1]
<1>1. /\ around \in Scenarios /\ Whole \in Worlds /\ Published(Whole)
      /\ Whole.server = server /\ Whole.client = client /\ Whole.history = history
      /\ history.changes <= around.changes
  BY Here
<1>2. client \in [Clients -> Connections] /\ history \in Histories
  BY <1>1, WorldFields
<1>3. Become(t)
  OBVIOUS
<1>4. /\ history1 \in Histories /\ history1.changes = history.changes /\ history1.locks = n
      /\ history1.asked = history.asked /\ history1.answered = history.answered
      /\ history1.heard = history.heard /\ history1.told = history.told
      /\ history1.commands = history.commands
  BY <1>2 DEF Histories
<1> HIDE DEF history1
<1>5. t \in Worlds /\ t.server = u /\ t.client = client /\ t.history = history1
  BY <1>2, <1>4 DEF Worlds
<1> HIDE DEF t
<1>6. Sound(t) /\ NoneFailed(t)
  BY <1>4, <1>5, ServerOnly
<1>7. Published(t)
  BY <1>1, <1>5 DEF Published
<1>8. IInv'
  BY <1>1, <1>3, <1>4, <1>5, <1>6, <1>7, Restated
<1> QED
  BY <1>3, <1>4, <1>5, <1>8 DEF Become

\* leme_session_handle_new_lock and leme_session_handle_unlock
LEMMA LockKeeps ==
  ASSUME IInv, Lock \/ Unlock
  PROVE  IInv' /\ (server.locked => ~server'.locked)
<1>1. /\ around \in Scenarios /\ Whole \in Worlds
      /\ Whole.server = server /\ Whole.client = client /\ Whole.history = history
      /\ history.locks \in Nat /\ history.locks <= around.locks
  BY Here
<1>2. server \in Servers /\ history \in Histories
  BY <1>1, WorldFields
<1>3. CASE Lock
  <2> DEFINE yes == TRUE
             n == history.locks + 1
             u == [server EXCEPT !.locked = yes]
  <2>1. /\ ~server.locked /\ history.locks < around.locks /\ yes \in BOOLEAN /\ yes
        /\ Become([Whole EXCEPT !.server.locked = yes, !.history.locks = @ + 1])
    BY <1>3 DEF Lock
  <2> HIDE DEF yes
  <2>2. [Whole EXCEPT !.server.locked = yes, !.history.locks = @ + 1]
          = [server |-> u, client |-> client, history |-> [history EXCEPT !.locks = n]]
    <3>1. [Whole EXCEPT !.server.locked = yes, !.history.locks = @ + 1]
            = [[Whole EXCEPT !.server.locked = yes] EXCEPT !.history.locks = n]
      BY <1>1
    <3>2. [Whole EXCEPT !.server.locked = yes]
            = [server |-> u, client |-> client, history |-> history]
      BY DEF Whole
    <3> HIDE DEF u, n
    <3>3. [[server |-> u, client |-> client, history |-> history] EXCEPT !.history.locks = n]
            = [server |-> u, client |-> client, history |-> [history EXCEPT !.locks = n]]
      OBVIOUS
    <3> QED
      BY <3>1, <3>2, <3>3
  <2>3. n \in Nat /\ n <= around.locks
    BY <1>1, <2>1, Bounds
  <2>6. Become([server |-> u, client |-> client, history |-> [history EXCEPT !.locks = n]])
    BY <2>1, <2>2
  <2> HIDE DEF n
  <2>4. /\ u \in Servers /\ u.clients = server.clients /\ u.count = server.count
        /\ u.snapshot = server.snapshot /\ u.now = server.now /\ u.locked
    BY <1>2, <2>1 DEF Servers
  <2> HIDE DEF u
  <2>5. IInv'
    BY <2>3, <2>4, <2>6, FlagKeeps
  <2> QED
    BY <2>1, <2>5
<1>4. CASE Unlock
  <2> DEFINE yes == TRUE
             no == FALSE
             n == history.locks
             unlocked == [server EXCEPT !.locked = no]
             u == [unlocked EXCEPT !.idle = yes]
  <2>1. /\ Become([[Whole EXCEPT !.server.locked = no] EXCEPT !.server.idle = yes])
        /\ yes \in BOOLEAN /\ yes /\ no \in BOOLEAN /\ ~no
    BY <1>4 DEF Unlock, Invalidate
  <2> HIDE DEF yes, no
  <2>2. [[Whole EXCEPT !.server.locked = no] EXCEPT !.server.idle = yes]
          = [server |-> u, client |-> client, history |-> history]
    <3>1. [Whole EXCEPT !.server.locked = no]
            = [server |-> unlocked, client |-> client, history |-> history]
      BY DEF Whole
    <3> HIDE DEF unlocked
    <3>2. [[server |-> unlocked, client |-> client, history |-> history] EXCEPT !.server.idle = yes]
            = [server |-> u, client |-> client, history |-> history]
      OBVIOUS
    <3> QED
      BY <3>1, <3>2
  <2>3. history = [history EXCEPT !.locks = n]
    BY <1>2 DEF Histories
  <2>4. Become([server |-> u, client |-> client, history |-> [history EXCEPT !.locks = n]])
    BY <2>1, <2>2, <2>3
  <2>5. n \in Nat /\ n <= around.locks
    BY <1>1
  <2> HIDE DEF n
  <2>6. /\ u \in Servers /\ u.clients = server.clients /\ u.count = server.count
        /\ u.snapshot = server.snapshot /\ u.now = server.now /\ u.idle /\ ~u.locked
    BY <1>2, <2>1 DEF Servers
  <2> HIDE DEF u
  <2>7. IInv' /\ server' = u
    BY <2>4, <2>5, <2>6, FlagKeeps
  <2> QED
    BY <2>6, <2>7
<1> QED
  BY <1>3, <1>4

\* A panel takes the keyboard or gives it back.
LEMMA PanelKeeps ==
  ASSUME IInv, ExclusiveLayer
  PROVE  IInv' /\ history'.commands = history.commands /\ client' = client
<1>1. /\ around \in Scenarios /\ Whole \in Worlds
      /\ Whole.server = server /\ Whole.client = client /\ Whole.history = history
      /\ history.locks \in Nat /\ history.locks <= around.locks
  BY Here
<1>2. server \in Servers /\ history \in Histories
  BY <1>1, WorldFields
<1> DEFINE yes == TRUE
           no == FALSE
           n == history.locks
<1>3. history = [history EXCEPT !.locks = n]
  BY <1>2 DEF Histories
<1>4. n \in Nat /\ n <= around.locks /\ yes \in BOOLEAN /\ yes /\ no \in BOOLEAN /\ ~no
  BY <1>1
<1>7. /\ server.exclusive =>
            Become([[Whole EXCEPT !.server.exclusive = no] EXCEPT !.server.idle = yes])
      /\ ~server.exclusive => Become([Whole EXCEPT !.server.exclusive = yes])
  BY DEF ExclusiveLayer, Invalidate
<1> HIDE DEF yes, no
<1>5. CASE server.exclusive
  <2> DEFINE freed == [server EXCEPT !.exclusive = no]
             u == [freed EXCEPT !.idle = yes]
  <2>2. [[Whole EXCEPT !.server.exclusive = no] EXCEPT !.server.idle = yes]
          = [server |-> u, client |-> client, history |-> history]
    <3>1. [Whole EXCEPT !.server.exclusive = no]
            = [server |-> freed, client |-> client, history |-> history]
      BY DEF Whole
    <3> HIDE DEF freed
    <3>2. [[server |-> freed, client |-> client, history |-> history] EXCEPT !.server.idle = yes]
            = [server |-> u, client |-> client, history |-> history]
      OBVIOUS
    <3> QED
      BY <3>1, <3>2
  <2>3. Become([server |-> u, client |-> client, history |-> [history EXCEPT !.locks = n]])
    BY <1>3, <1>5, <1>7, <2>2
  <2> HIDE DEF n
  <2>4. /\ u \in Servers /\ u.clients = server.clients /\ u.count = server.count
        /\ u.snapshot = server.snapshot /\ u.now = server.now /\ u.idle
    BY <1>2, <1>4 DEF Servers
  <2> HIDE DEF u
  <2> QED
    BY <1>4, <2>3, <2>4, FlagKeeps
<1>6. CASE ~server.exclusive
  <2> DEFINE u == [server EXCEPT !.exclusive = yes]
  <2>2. [Whole EXCEPT !.server.exclusive = yes]
          = [server |-> u, client |-> client, history |-> history]
    BY DEF Whole
  <2>3. Become([server |-> u, client |-> client, history |-> [history EXCEPT !.locks = n]])
    BY <1>3, <1>6, <1>7, <2>2
  <2> HIDE DEF n
  <2>4. /\ u \in Servers /\ u.clients = server.clients /\ u.count = server.count
        /\ u.snapshot = server.snapshot /\ u.now = server.now /\ u.exclusive
    BY <1>2, <1>4 DEF Servers
  <2> HIDE DEF u
  <2> QED
    BY <1>4, <2>3, <2>4, FlagKeeps
<1> QED
  BY <1>5, <1>6


\* The other end writes, comes or leaves: nothing that the server sent changes.
LEMMA OtherEnd ==
  ASSUME IInv, NEW c \in Clients, Connect(c) \/ Hangup(c) \/ \E r \in around.requests : Write(c, r)
  PROVE  history'.commands = history.commands
         /\ \A d \in Clients : Pending(client'[d]) = Pending(client[d])
<1>1. client \in [Clients -> Connections] /\ client[c] \in Connections /\ history \in Histories
  BY ClientHere
<1>2. \E k : /\ client' = [client EXCEPT ![c] = k]
             /\ k.socket = client[c].socket /\ k.output = client[c].output
  <2>1. CASE Connect(c)
    <3> DEFINE k == [client[c] EXCEPT !.state = "waiting"]
    <3>1. client' = [client EXCEPT ![c] = k]
      BY <2>1 DEF Connect
    <3>2. k.socket = client[c].socket /\ k.output = client[c].output
      BY <1>1 DEF Connections
    <3> QED
      BY <3>1, <3>2
  <2>2. CASE Hangup(c)
    <3> DEFINE yes == TRUE
               k == [client[c] EXCEPT !.hangup = yes]
    <3>1. client' = [client EXCEPT ![c] = k]
      BY <2>2 DEF Hangup
    <3> HIDE DEF yes
    <3>2. k.socket = client[c].socket /\ k.output = client[c].output
      BY <1>1 DEF Connections
    <3> QED
      BY <3>1, <3>2
  <2>3. ASSUME NEW r \in around.requests, Write(c, r)
        PROVE  \E k : /\ client' = [client EXCEPT ![c] = k]
                      /\ k.socket = client[c].socket /\ k.output = client[c].output
    <3> DEFINE z == Written(client[c].wire, r)
               k == [client[c] EXCEPT !.wire = z]
    <3>1. client' = [client EXCEPT ![c] = k]
      BY <2>3 DEF Write, Written
    <3> HIDE DEF z
    <3>2. k.socket = client[c].socket /\ k.output = client[c].output
      BY <1>1 DEF Connections
    <3> QED
      BY <3>1, <3>2
  <2> QED
    BY <2>1, <2>2, <2>3
<1>3. ASSUME NEW d \in Clients PROVE Pending(client'[d]) = Pending(client[d])
  BY <1>1, <1>2 DEF Pending
<1>4. history'.commands = history.commands
  BY <1>1 DEF Connect, Hangup, Write, Histories
<1> QED
  BY <1>3, <1>4

\* The other end reads.
LEMMA OtherReads ==
  ASSUME IInv, NEW c \in Clients, Read(c)
  PROVE  history'.commands = history.commands
         /\ \A d \in Clients \ {c} : Pending(client'[d]) = Pending(client[d])
<1>1. client \in [Clients -> Connections] /\ history \in Histories
  BY ClientHere
<1>2. client' = [client EXCEPT ![c].socket = Tail(client[c].socket)]
  BY DEF Read
<1>3. \A d \in Clients \ {c} : client'[d] = client[d]
  BY <1>1, <1>2
<1>4. history'.commands = history.commands
  BY <1>1 DEF Read, Histories
<1> QED
  BY <1>3, <1>4

-----------------------------------------------------------------------------
(* The whole                                                               *)

\* What a step does for the events that wait, while the session is locked.
Hushed(now, next) ==
  \/ next = Gone
  \/ EventPlaces(Pending(next)) = EventPlaces(Pending(now))
  \/ /\ Pending(now) \in Seq(Units) /\ Pending(now) # <<>>
     /\ Pending(next) = Tail(Pending(now))

\* Every action keeps the invariant, and is quiet under the lock.
LEMMA NextKeeps ==
  ASSUME IInv, Next
  PROVE  IInv' /\ (server.locked /\ server'.locked =>
                     /\ history'.commands = history.commands
                     /\ \A d \in Clients : Hushed(client[d], client'[d]))
<1>1. CASE Lock \/ Unlock
  BY <1>1, LockKeeps
<1>2. CASE HandleIdle
  BY <1>2, IdleKeeps DEF Hushed
<1>3. CASE ExclusiveLayer
  BY <1>3, PanelKeeps DEF Hushed
<1>4. ASSUME NEW f \in Fields, NEW v \in Values \cup {NONE}, Change(f, v)
      PROVE  IInv' /\ history'.commands = history.commands
             /\ \A d \in Clients : Hushed(client[d], client'[d])
  BY <1>4, ChangeKeeps DEF Hushed
<1>5. ASSUME NEW c \in Clients, HandleClient(c)
      PROVE  IInv' /\ (server.locked => history'.commands = history.commands)
             /\ \A d \in Clients : Hushed(client[d], client'[d])
  BY <1>5, ServeKeeps DEF Hushed
<1>6. ASSUME NEW c \in Clients, HandleListen(c)
      PROVE  IInv' /\ history'.commands = history.commands
             /\ \A d \in Clients : Hushed(client[d], client'[d])
  <2>1. CASE server.count >= MaxClients
    BY <1>6, <2>1, RefuseKeeps DEF Hushed
  <2>2. CASE ~(server.count >= MaxClients)
    BY <1>6, <2>2, AcceptKeeps DEF Hushed
  <2> QED
    BY <2>1, <2>2
<1>7. ASSUME NEW c \in Clients, Connect(c)
      PROVE  IInv' /\ history'.commands = history.commands
             /\ \A d \in Clients : Hushed(client[d], client'[d])
  BY <1>7, ConnectKeeps, OtherEnd DEF Hushed
<1>8. ASSUME NEW c \in Clients, Hangup(c)
      PROVE  IInv' /\ history'.commands = history.commands
             /\ \A d \in Clients : Hushed(client[d], client'[d])
  BY <1>8, HangupKeeps, OtherEnd DEF Hushed
<1>9. ASSUME NEW c \in Clients, NEW r \in around.requests, Write(c, r)
      PROVE  IInv' /\ history'.commands = history.commands
             /\ \A d \in Clients : Hushed(client[d], client'[d])
  BY <1>9, WriteKeeps, OtherEnd DEF Hushed
<1>10. ASSUME NEW c \in Clients, Read(c)
       PROVE  IInv' /\ history'.commands = history.commands
              /\ \A d \in Clients : Hushed(client[d], client'[d])
  BY <1>10, ReadKeeps, OtherReads DEF Hushed
<1>11. \A f \in Spaces : f \in Fields
  BY DEF Fields
<1> QED
  BY <1>1, <1>2, <1>3, <1>4, <1>5, <1>6, <1>7, <1>8, <1>9, <1>10, <1>11 DEF Next

\* A step that changes nothing keeps the invariant too.
LEMMA Stuttering ==
  ASSUME IInv, UNCHANGED vars
  PROVE  IInv'
<1>1. around' = around /\ server' = server /\ client' = client /\ history' = history
  BY DEF vars
<1>2. Become(Whole)
  BY <1>1 DEF Become, Whole
<1>3. /\ around \in Scenarios /\ Sound(Whole) /\ NoneFailed(Whole) /\ Published(Whole)
      /\ Whole.history = history /\ history.changes <= around.changes /\ history.locks <= around.locks
  BY Here
<1> QED
  BY <1>2, <1>3, Restated

\* The inductive invariant, in every behaviour of the specification.
THEOREM Invariance == Spec => []IInv
<1>1. Init => IInv
  BY InitHolds
<1>2. IInv /\ [Next]_vars => IInv'
  BY NextKeeps, Stuttering
<1> QED
  BY <1>1, <1>2, PTL DEF Spec


\* What the invariant says of a client that is served
LEMMA ServedHere ==
  ASSUME IInv, NEW c \in server.clients
  PROVE  /\ c \in Clients /\ client[c].state = "open" /\ client[c] \in Connections
         /\ FramedAfter(history.heard[c], Pending(client[c]))
         /\ Numbered(Pending(client[c]), history.answered[c])
         /\ Asked(client[c], history.asked[c], history.answered[c])
         /\ Truthful(client[c], history.told[c], server.snapshot)
<1>1. /\ Counted(Whole) /\ NoneFailed(Whole) /\ AllTold(Whole, Whole.server.snapshot)
      /\ Whole.server = server /\ Whole.client = client /\ Whole.history = history
  BY Here
<1>2. c \in Clients /\ client[c].state = "open"
  BY <1>1 DEF Counted, NoneFailed, Failed
<1>3. client[c] \in Connections
      /\ Kept(client[c], history.asked[c], history.answered[c], history.heard[c])
  BY <1>2, ClientHere
<1>4. Truthful(client[c], history.told[c], server.snapshot)
  BY <1>1, <1>2 DEF AllTold
<1> QED
  BY <1>2, <1>3, <1>4 DEF Kept

LEMMA TypesHold ==
  ASSUME IInv
  PROVE  TypeOK
<1>1. /\ around \in Scenarios /\ Whole \in Worlds /\ Counted(Whole)
      /\ Whole.server = server /\ Whole.client = client /\ Whole.history = history
      /\ history.changes <= around.changes /\ history.locks <= around.locks
  BY Here
<1>2. server \in Servers /\ history \in Histories
  BY <1>1, WorldFields
<1>3. around.sent \in Nat /\ around.changes \in Nat /\ around.locks \in Nat
      /\ MaxClients \in Nat /\ MaxLine \in Nat
  BY <1>1, Bounds, IpcAssumption
<1>4. /\ server.now \in State /\ server.snapshot \in State /\ server.idle \in BOOLEAN
      /\ server.locked \in BOOLEAN /\ server.exclusive \in BOOLEAN
      /\ server.clients \subseteq Clients /\ server.count \in Nat
  BY <1>2 DEF Servers
<1>5. server.count \in 0..MaxClients
  BY <1>1, <1>3, <1>4 DEF Counted
<1>6. /\ history.commands \in Nat /\ history.changes \in Nat /\ history.locks \in Nat
      /\ history.told \in [Clients -> State] /\ history.heard \in [Clients -> {NONE} \cup Units]
  BY <1>2 DEF Histories
<1>7. history.changes \in 0..around.changes /\ history.locks \in 0..around.locks
  BY <1>1, <1>3, <1>6
<1>8. ASSUME NEW c \in Clients
      PROVE  /\ client[c].state \in {"none", "waiting", "open", "gone"}
             /\ client[c].input \in 0..MaxLine /\ client[c].hangup \in BOOLEAN
             /\ Len(client[c].output) <= MaxOutput /\ Len(client[c].socket) <= Room
             /\ ToSet(client[c].output) \cup ToSet(client[c].socket) \subseteq Units
             /\ client[c].events \subseteq Events
             /\ history.asked[c] \in 0..around.sent /\ history.answered[c] \in 0..around.sent
             /\ history.heard[c] \in {NONE} \cup Units /\ history.told[c] \in State
  <2>1. /\ client[c] \in Connections /\ client[c].state # "failed"
        /\ Kept(client[c], history.asked[c], history.answered[c], history.heard[c])
    BY ClientHere
  <2>2. /\ client[c].state \in {"none", "waiting", "open", "gone"}
        /\ client[c].input \in 0..MaxLine /\ client[c].hangup \in BOOLEAN
        /\ client[c].events \subseteq Events
    BY <2>1 DEF Connections
  <2>3. Len(client[c].output) <= MaxOutput /\ Len(client[c].socket) <= Room
    BY <2>1 DEF Kept
  <2>4. history.asked[c] \in 0..around.sent /\ history.answered[c] \in 0..around.sent
    BY <1>3, <2>1 DEF Kept, Asked
  <2>5. client[c].output \in Seq(Units) /\ client[c].socket \in Seq(Units)
    BY <2>1, Typed
  <2>6. \A q \in Seq(Units) : ToSet(q) \subseteq Units
    <3>1. SUFFICES ASSUME NEW q \in Seq(Units), NEW i \in DOMAIN q PROVE q[i] \in Units
      BY DEF ToSet
    <3> QED
      BY LenProperties, ElementOfSeq
  <2> QED
    BY <1>6, <2>2, <2>3, <2>4, <2>5, <2>6
<1> QED
  BY <1>1, <1>4, <1>5, <1>6, <1>7, <1>8 DEF TypeOK

\* The streams to the clients stay framed at whatever the limits of the buffers are, and
\* no client is counted that is not there, or there and not counted
\* (leme_ipc_client_queue, leme_ipc_client_flush, leme_ipc_client_destroy).
THEOREM StreamsHold == Spec => []StreamsSound
<1>1. ASSUME IInv PROVE StreamsSound
  <2>1. TypeOK
    BY <1>1, TypesHold
  <2>2. StreamsFramed
    <3>1. SUFFICES ASSUME NEW c \in server.clients, NEW i \in 2..Len(Stream(c))
                   PROVE  Follows(Stream(c)[i - 1], Stream(c)[i])
      BY DEF StreamsFramed, Follows
    <3>2. FramedAfter(history.heard[c], Pending(client[c]))
      BY <1>1, ServedHere
    <3>3. Framed(Stream(c))
      BY <3>2 DEF FramedAfter, Pending, Stream, Queued
    <3> QED
      BY <3>3 DEF Framed
  <2>3. ClientsCounted
    <3>1. Counted(Whole) /\ NoneFailed(Whole) /\ Whole.server = server /\ Whole.client = client
      BY <1>1, Here
    <3>2. server.count = Cardinality(server.clients)
          /\ server.clients = {c \in Clients : client[c].state \in {"open", "failed"}}
      BY <3>1 DEF Counted
    <3>3. \A c \in Clients : client[c].state \in {"open", "failed"} <=> client[c].state = "open"
      BY <3>1 DEF NoneFailed, Failed
    <3>4. server.clients = {c \in Clients : client[c].state = "open"}
      BY <3>2, <3>3
    <3> QED
      BY <3>2, <3>4 DEF ClientsCounted
  <2> QED
    BY <2>1, <2>2, <2>3 DEF StreamsSound
<1> QED
  BY <1>1, Invariance, PTL

\* Every line of a client is answered once and in order, and an answer of success is one
\* that the socket may give, however the bytes are cut into packets
\* (leme_ipc_handle_client, leme_ipc_client_dispatch).
THEOREM RepliesHold == Spec => []RepliesSound
<1>1. ASSUME IInv PROVE RepliesSound
  <2>1. ASSUME NEW c \in server.clients
        PROVE  /\ \A i, j \in Unread(c, "reply") :
                    i < j => Queued(c)[i].message.n < Queued(c)[j].message.n
               /\ history.answered[c] + Cardinality(Unserved(c)) = history.asked[c]
               /\ \A i \in Unread(c, "reply") : Earned(Queued(c)[i].message)
    <3>1. /\ Numbered(Pending(client[c]), history.answered[c])
          /\ Asked(client[c], history.asked[c], history.answered[c]) /\ client[c].state = "open"
      BY <1>1, ServedHere
    <3>2. Queued(c) = Pending(client[c])
      BY DEF Queued, Pending
    <3>3. \A i \in Unread(c, "reply") : i \in DOMAIN Pending(client[c]) /\ IsReply(Pending(client[c])[i])
      BY <3>2 DEF Unread, IsReply
    <3>4. Unserved(c) = Newlines(client[c].wire)
      BY DEF Unserved, Newlines
    <3>5. history.answered[c] + Cardinality(Newlines(client[c].wire)) = history.asked[c]
      BY <3>1 DEF Asked
    <3> QED
      BY <3>1, <3>2, <3>3, <3>4, <3>5 DEF Numbered
  <2>2. RepliesInOrder
    BY <2>1 DEF RepliesInOrder
  <2>3. SuccessEarned
    BY <2>1 DEF SuccessEarned, Earned
  <2> QED
    BY <2>2, <2>3 DEF RepliesSound
<1> QED
  BY <1>1, Invariance, PTL

\* A subscriber was told last of each field what the server has published, and what the
\* server has published is what there is, unless a reconciliation is due or cannot be
\* (leme_ipc_diff, leme_ipc_reconcile, leme_ipc_invalidate).
THEOREM EventsHold == Spec => []EventsSound
<1>1. ASSUME IInv PROVE EventsSound
  <2>1. ASSUME NEW c \in server.clients, NEW f \in Fields, EventOf(f) \in client[c].events,
               server.snapshot[f] # NONE
        PROVE  history.told[c][f] = server.snapshot[f]
    BY <1>1, <2>1, ServedHere DEF Truthful
  <2>2. EventsTruthful
    BY <2>1 DEF EventsTruthful
  <2>3. NothingForgotten
    <3>1. Published(Whole) /\ Whole.server = server /\ Whole.client = client
      BY <1>1, Here
    <3>2. ~server.idle /\ ~server.locked /\ ~server.exclusive => server.now = server.snapshot
      BY <3>1 DEF Published
    <3> QED
      BY <2>1, <3>1, <3>2 DEF NothingForgotten, Listening
  <2> QED
    BY <2>2, <2>3 DEF EventsSound
<1> QED
  BY <1>1, Invariance, PTL

\* The events that wait are no more than before.
LEMMA HushedFewer ==
  ASSUME around \in Scenarios, NEW now \in Connections, NEW next, Hushed(now, next)
  PROVE  Cardinality(EventPlaces(Pending(next))) <= Cardinality(EventPlaces(Pending(now)))
<1> DEFINE q == Pending(now)
           before == EventPlaces(q)
<1>1. q \in Seq(Units)
  BY Typed
<1> HIDE DEF q
<1>2. Len(q) \in Nat /\ DOMAIN q = 1 .. Len(q)
  BY <1>1, LenProperties
<1>3. IsFiniteSet(before) /\ Cardinality(before) \in Nat
  <2>1. before \subseteq 1 .. Len(q)
    BY <1>2 DEF EventPlaces
  <2>2. IsFiniteSet(1 .. Len(q))
    BY <1>2, FS_Interval
  <2> HIDE DEF before
  <2> QED
    BY <2>1, <2>2, FS_Subset, FS_CardinalityType
<1>4. CASE next = Gone
  <2>1. Pending(Gone) = <<>>
    BY GoneFields DEF Pending
  <2>2. EventPlaces(Pending(next)) = {}
    BY <1>4, <2>1 DEF EventPlaces
  <2> QED
    BY <1>3, <2>2, FS_EmptySet DEF q
<1>5. CASE EventPlaces(Pending(next)) = before
  BY <1>3, <1>5 DEF q
<1>6. CASE q # <<>> /\ Pending(next) = Tail(q)
  <2> DEFINE after == EventPlaces(Tail(q))
             shift == [i \in after |-> i + 1]
  <2>1. Len(Tail(q)) = Len(q) - 1 /\ Tail(q) \in Seq(Units) /\ \A i \in 1 .. Len(Tail(q)) : Tail(q)[i] = q[i + 1]
    BY <1>1, <1>6, HeadTailProperties
  <2>2. DOMAIN Tail(q) = 1 .. Len(q) - 1
    BY <2>1, LenProperties
  <2>3. \A i \in after : i \in Nat /\ i + 1 \in before
    BY <1>2, <2>1, <2>2 DEF EventPlaces
  <2>4. shift \in Injection(after, before)
    BY <2>3 DEF Injection, IsInjective
  <2> HIDE DEF before, after, shift
  <2>5. Cardinality(after) <= Cardinality(before)
    BY <1>3, <2>4, FS_Injection
  <2> QED
    BY <1>6, <2>5 DEF before, after, q
<1> QED
  BY <1>4, <1>5, <1>6 DEF Hushed, q

\* Under the lock no command is carried out and no event is sent, whatever the clients
\* send and however they come and go (leme_ipc_client_command, leme_ipc_reconcile).
THEOREM LockIsQuiet == Spec => LockedQuiet
<1> DEFINE Quiet == server.locked /\ server'.locked =>
                      /\ history'.commands = history.commands
                      /\ \A c \in Clients : Cardinality(Unread(c, "event")') <= Cardinality(Unread(c, "event"))
<1>1. ASSUME IInv, Next PROVE Quiet
  <2>1. SUFFICES ASSUME server.locked, server'.locked, NEW c \in Clients
                 PROVE  /\ history'.commands = history.commands
                        /\ Cardinality(Unread(c, "event")') <= Cardinality(Unread(c, "event"))
    BY NextKeeps, <1>1
  <2>2. history'.commands = history.commands /\ Hushed(client[c], client'[c])
    BY <1>1, <2>1, NextKeeps
  <2>3. Unread(c, "event") = EventPlaces(Pending(client[c]))
    BY DEF Unread, Queued, EventPlaces, Pending
  <2>4. Unread(c, "event")' = EventPlaces(Pending(client'[c]))
    BY DEF Unread, Queued, EventPlaces, Pending
  <2>5. around \in Scenarios /\ client[c] \in Connections
    BY <1>1, Here, ClientHere
  <2>6. Cardinality(EventPlaces(Pending(client'[c]))) <= Cardinality(EventPlaces(Pending(client[c])))
    BY <2>2, <2>5, HushedFewer
  <2> QED
    BY <2>2, <2>3, <2>4, <2>6
<1>2. IInv /\ [Next]_vars => [Quiet]_vars
  BY <1>1
<1> QED
  BY <1>2, Invariance, PTL DEF Spec, LockedQuiet

=============================================================================
