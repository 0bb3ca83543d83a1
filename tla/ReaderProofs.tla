---------------------------- MODULE ReaderProofs ----------------------------
(***************************************************************************)
(* Every step of Reader keeps ReaderInv, for any answers of the server:    *)
(* what is left to read is a beginning of what the server meant to send,   *)
(* and what has been read is what came before it.  So a framed body        *)
(* without a flag is complete, and none exceeds --max-filesize.            *)
(***************************************************************************)
EXTENDS Reader, WireProofs

FinalHeads ==
  [u : {"head"}, st : {200, 204, 302, 417},
   fr : {"none", "length", "chunked", "close"}, n : Nat,
   flaw : HeaderFlaws \union {"chunk_size", "trailers", "not_http"},
   coding : {"none", "good", "bad", "deep"}]
InterimHeads == {InterimUnit(100), InterimUnit(103)}
Pieces == [u : {"data"}, i : Nat]
Sizes == [u : {"size"}, k : Nat]
ServerUnits == Plain \union InterimHeads \union FinalHeads \union Pieces \union Sizes

Begins(s, t) ==
  Len(s) <= Len(t) /\ \A i \in 1..Len(s) : s[i] = t[i]

(* A final header block on the stream is the one the server means, and     *)
(* only what belongs to it follows.                                        *)
Behind(units, i) == SubSeq(units, i + 1, Len(units))
Tells(units) ==
  \A i \in 1..Len(units) :
    units[i] \in FinalHeads =>
      units[i] = Lead(meant) /\ Begins(Behind(units, i), BodyUnitsOf(meant))

BodyPlaces == {"length", "close", "size", "decode", "end"}
Unstarted == head = None /\ body = <<>> /\ flags = {} /\ trailer = 0

ReaderTypes ==
  /\ opts \in OptionSpace
  /\ purpose \in {"answer", "rejected"}
  /\ at \in {"status"} \union BodyPlaces => inbox \in Seq(ServerUnits)
  /\ body \in Seq(ServerUnits)
  /\ trailer \in Nat
  /\ head = None \/ head \in FinalHeads

Limited == opts.cap # None /\ ~IsRedirect(head)

(* What of a chunked body has been read, and what may come.                *)
AtChunk ==
  \/ /\ head.n > 0 /\ body = <<>>
     /\ Begins(inbox, Chunk(1, InFirst(head.n)) \o LaterUnits(head.n, head.flaw))
  \/ /\ body = Contents(1, InFirst(head.n))
     /\ Begins(inbox, LaterUnits(head.n, head.flaw))
  \/ /\ body = Contents(1, head.n)
     /\ Begins(inbox, LastUnits(head.flaw))

AtLength ==
  /\ BodyMode(head) = "length"
  /\ purpose = "answer" =>
       /\ body = <<>>
       /\ Begins(inbox, Contents(1, head.n))
       /\ Limited => head.n <= opts.cap

AtSize ==
  /\ BodyMode(head) = "size"
  /\ purpose = "answer"
  /\ AtChunk
  /\ Limited => Len(body) <= opts.cap

(* Of a body that has been decoded, what was read was within the limit.    *)
Delivered ==
  FramedBody =>
    /\ flags = {} =>
         HoldsContents(body, IF at = "decode" THEN head.n ELSE WholeSize)
    /\ Limited => IF at # "decode" /\ Coded /\ body # <<>> THEN head.n <= opts.cap
                  ELSE DataIn(body) \subseteq 1..opts.cap

ReaderInv ==
  /\ ReaderTypes
  /\ at \notin BodyPlaces \union {"done"} => Unstarted
  /\ at = "status" => Tells(inbox)
  /\ at \in {"length", "close", "size", "decode"} => head \in FinalHeads
  /\ at = "length" => AtLength
  /\ at = "close" => BodyMode(head) = "close"
  /\ at = "size" => AtSize
  /\ at \in {"decode", "end"} \/ (at = "done" /\ error = "none")
       => (purpose = "answer" => Delivered)

----------------------------------------------------------------------------
(* The server's units: pieces of content, chunks, what follows them.       *)
LEMMA InServer ==
  /\ \A k \in PlainKinds : Unit(k) \in ServerUnits
  /\ \A i \in Nat : Content(i) \in ServerUnits /\ Content(i).u = "data"
  /\ \A k \in Nat : Size(k) \in ServerUnits /\ Size(k).u = "size" /\ Size(k).k = k
BY PlainUnit DEF ServerUnits, Content, Size, Pieces, Sizes

LEMMA FinalOnly ==
  ASSUME NEW x \in ServerUnits
  PROVE  /\ x \in FinalHeads <=> x.u = "head" /\ ~IsInterim(x)
         /\ x.u \notin {"head", "data", "size"} => x \in Plain
BY PlainKind DEF ServerUnits, Plain, PlainKinds, InterimHeads, FinalHeads, Pieces, Sizes,
                 IsInterim, InterimUnit, HeadUnit

LEMMA ContentsAre ==
  ASSUME NEW a \in Nat, NEW b \in Nat, 1 <= a, a <= b + 1
  PROVE  /\ Contents(a, b) \in Seq(ServerUnits)
         /\ Len(Contents(a, b)) = b - a + 1
         /\ \A i \in 1..(b - a + 1) : Contents(a, b)[i] = Content(a + i - 1)
<1> DEFINE m == b - a + 1
           c == [j \in 1..m |-> Content(a + j - 1)]
<1>1. m \in Nat
  OBVIOUS
<1>2. \A j \in 1..m : a + j - 1 \in Nat
  OBVIOUS
<1>3. c \in [1..m -> ServerUnits]
  BY <1>2, InServer
<1>4. c \in Seq(ServerUnits) /\ Len(c) = m
  BY <1>1, <1>3
<1> QED
  BY <1>4 DEF Contents

LEMMA ChunkIs ==
  ASSUME NEW a \in Nat, NEW b \in Nat, 1 <= a, a <= b
  PROVE  LET c == Chunk(a, b)
             k == b - a + 1
         IN  /\ c \in Seq(ServerUnits)
             /\ Len(c) = k + 2
             /\ c[1] = Size(k)
             /\ \A i \in 1..k : c[i + 1] = Content(a + i - 1)
<1> DEFINE k == b - a + 1
           p == <<Size(k)>>
           m == Contents(a, b)
           e == <<Unit("sep")>>
<1>1. k \in Nat /\ Size(k) \in ServerUnits /\ Unit("sep") \in ServerUnits
  BY InServer DEF PlainKinds
<1>2. /\ p \in Seq(ServerUnits) /\ Len(p) = 1 /\ p[1] = Size(k)
      /\ e \in Seq(ServerUnits) /\ Len(e) = 1
  BY <1>1
<1>3. /\ m \in Seq(ServerUnits) /\ Len(m) = k
      /\ \A i \in 1..k : m[i] = Content(a + i - 1)
  BY ContentsAre
<1> HIDE DEF p, m, e, k
<1> DEFINE pm == p \o m
<1>9. p \in Seq(ServerUnits) /\ m \in Seq(ServerUnits)
  BY <1>2, <1>3
<1>4. /\ pm \in Seq(ServerUnits)
      /\ Len(pm) = Len(p) + Len(m)
      /\ \A i \in 1..Len(p) : pm[i] = p[i]
      /\ \A i \in 1..Len(m) : pm[Len(p) + i] = m[i]
  BY <1>9, Joined
<1> HIDE DEF pm
<1>5. /\ pm \o e \in Seq(ServerUnits)
      /\ Len(pm \o e) = Len(pm) + Len(e)
      /\ \A i \in 1..Len(pm) : (pm \o e)[i] = pm[i]
  BY <1>2, <1>4, Joined
<1> DEFINE c == pm \o e
<1>6. Chunk(a, b) = c
  BY DEF Chunk, p, m, e, k, pm
<1> HIDE DEF c
<1>7. c[1] = Size(k) /\ c \in Seq(ServerUnits) /\ Len(c) = k + 2
  <2>1. Len(pm) = 1 + k /\ pm[1] = p[1]
    BY <1>1, <1>2, <1>3, <1>4
  <2>2. c[1] = pm[1] /\ Len(c) = Len(pm) + 1
    BY <1>1, <1>2, <1>5, <2>1 DEF c
  <2> QED
    BY <1>1, <1>2, <1>5, <2>1, <2>2 DEF c
<1>8. \A i \in 1..k : c[i + 1] = Content(a + i - 1)
  <2> TAKE i \in 1..k
  <2>1. 1 + i = i + 1 /\ i \in 1..Len(m) /\ 1 + i \in 1..Len(pm)
    BY <1>1, <1>2, <1>3, <1>4
  <2>2. pm[1 + i] = m[i]
    BY <1>2, <1>4, <2>1
  <2>3. c[1 + i] = pm[1 + i]
    BY <1>5, <2>1 DEF c
  <2> QED
    BY <1>3, <2>1, <2>2, <2>3
<1> QED
  BY <1>6, <1>7, <1>8 DEF k

----------------------------------------------------------------------------
(* A beginning of t \o u: of t, and behind it of u.                        *)
LEMMA BeginsSplit ==
  ASSUME NEW S, NEW s \in Seq(S), NEW t \in Seq(S), NEW u \in Seq(S),
         Begins(s, t \o u)
  PROVE  /\ \A i \in 1..Len(t) : i <= Len(s) => s[i] = t[i]
         /\ Begins(SubSeq(s, Len(t) + 1, Len(s)), u)
<1> DEFINE tu == t \o u
           r == SubSeq(s, Len(t) + 1, Len(s))
<1>1. /\ Len(tu) = Len(t) + Len(u)
      /\ \A i \in 1..Len(t) : tu[i] = t[i]
      /\ \A i \in 1..Len(u) : tu[Len(t) + i] = u[i]
  BY Joined
<1>2. Len(s) \in Nat /\ Len(t) \in Nat /\ Len(u) \in Nat
  BY LenProperties
<1>3. Len(s) <= Len(tu) /\ \A i \in 1..Len(s) : s[i] = tu[i]
  BY DEF Begins
<1> HIDE DEF tu
<1>4. /\ r \in Seq(S)
      /\ Len(r) = IF Len(t) <= Len(s) THEN Len(s) - Len(t) ELSE 0
      /\ \A i \in 1..Len(r) : Len(t) + i \in 1..Len(s) /\ r[i] = s[Len(t) + i]
  BY <1>2, Rest
<1> HIDE DEF r
<1>5. \A i \in 1..Len(t) : i <= Len(s) => s[i] = t[i]
  BY <1>1, <1>2, <1>3
<1>6. Len(r) <= Len(u) /\ Len(r) \in Nat
  BY <1>1, <1>2, <1>3, <1>4
<1>7. ASSUME NEW i \in 1..Len(r)
      PROVE  r[i] = u[i]
  <2>1. i \in 1..Len(u) /\ Len(t) + i \in 1..Len(s)
    BY <1>2, <1>4, <1>6
  <2>2. r[i] = s[Len(t) + i] /\ s[Len(t) + i] = tu[Len(t) + i]
    BY <1>3, <1>4, <2>1
  <2> QED
    BY <1>1, <2>1, <2>2
<1>8. Begins(r, u)
  BY <1>6, <1>7 DEF Begins
<1> QED
  BY <1>5, <1>8 DEF r

LEMMA BeginsEmpty ==
  ASSUME NEW t, Len(t) \in Nat
  PROVE  Begins(<<>>, t)
BY EmptySeq DEF Begins

(* A chunk at the beginning: its size, then, if they are all there, its    *)
(* contents, then what follows the chunk.                                  *)
LEMMA ChunkFirst ==
  ASSUME NEW a \in Nat, NEW b \in Nat, 1 <= a, a <= b,
         NEW s \in Seq(ServerUnits), NEW t \in Seq(ServerUnits), s # <<>>,
         Begins(s, Chunk(a, b) \o t)
  PROVE  LET k == b - a + 1
         IN  /\ s[1] = Size(k)
             /\ Len(s) > k => SubSeq(s, 2, k + 1) = Contents(a, b)
             /\ Begins(SubSeq(s, k + 3, Len(s)), t)
<1> DEFINE k == b - a + 1
           c == Chunk(a, b)
<1>1. /\ c \in Seq(ServerUnits) /\ Len(c) = k + 2 /\ c[1] = Size(k)
      /\ \A i \in 1..k : c[i + 1] = Content(a + i - 1)
  BY ChunkIs
<1>2. k \in Nat
  OBVIOUS
<1>3. /\ Contents(a, b) \in Seq(ServerUnits) /\ Len(Contents(a, b)) = k
      /\ \A i \in 1..k : Contents(a, b)[i] = Content(a + i - 1)
  BY ContentsAre
<1>4. Len(s) \in Nat /\ Len(s) >= 1 /\ \A i \in 1..Len(s) : s[i] \in ServerUnits
  BY LenProperties, EmptySeq, ElementOfSeq
<1> HIDE DEF k, c
<1>5. c \in Seq(ServerUnits) /\ Begins(s, c \o t)
  BY <1>1 DEF c
<1>6. /\ \A i \in 1..Len(c) : i <= Len(s) => s[i] = c[i]
      /\ Begins(SubSeq(s, Len(c) + 1, Len(s)), t)
  BY <1>5, BeginsSplit
<1>7. s[1] = Size(k)
  BY <1>1, <1>2, <1>4, <1>6
<1>8. Begins(SubSeq(s, k + 3, Len(s)), t)
  <2>1. Len(c) + 1 = k + 3
    BY <1>1, <1>2
  <2> QED
    BY <1>6, <2>1
<1>9. ASSUME Len(s) > k
      PROVE  SubSeq(s, 2, k + 1) = Contents(a, b)
  <2> DEFINE r == SubSeq(s, 2, k + 1)
  <2>1. \A i \in 2..(k + 1) : s[i] \in ServerUnits
    BY <1>2, <1>4, <1>9
  <2>2. k + 1 \in Int /\ 2 \in Int
    BY <1>2
  <2>3. /\ r \in Seq(ServerUnits)
        /\ Len(r) = IF 2 <= k + 1 THEN (k + 1) - 2 + 1 ELSE 0
        /\ \A i \in 1..((k + 1) - 2 + 1) : r[i] = s[2 + i - 1]
    BY <2>1, <2>2, SubSeqProperties
  <2> HIDE DEF r
  <2>4. Len(r) = k
    BY <1>2, <2>3
  <2>5. ASSUME NEW i \in 1..k
        PROVE  r[i] = Contents(a, b)[i]
    <3>1. /\ 2 + i - 1 = i + 1 /\ i \in 1..((k + 1) - 2 + 1)
          /\ i + 1 \in 1..(k + 2) /\ i + 1 <= Len(s)
      BY <1>2, <1>4, <1>9
    <3>2. r[i] = s[i + 1]
      BY <2>3, <3>1
    <3>3. s[i + 1] = c[i + 1]
      BY <1>1, <1>6, <3>1
    <3> QED
      BY <1>1, <1>3, <3>2, <3>3
  <2> QED
    BY <1>3, <2>3, <2>4, <2>5, SeqEqual DEF r
<1> QED
  BY <1>7, <1>8, <1>9 DEF k

(* The last chunk and what follows it.                                     *)
LEMMA LastIs ==
  ASSUME NEW flaw
  PROVE  LET l == LastUnits(flaw)
         IN  /\ l \in Seq(ServerUnits)
             /\ Len(l) \in {2, 3}
             /\ l[1].u = "zero"
             /\ \A i \in 1..Len(l) : l[i].u \in {"zero", "trailer", "blank"}
<1>1. /\ Unit("zero") \in ServerUnits /\ Unit("zero").u = "zero"
      /\ Unit("trailer") \in ServerUnits /\ Unit("trailer").u = "trailer"
      /\ Unit("blank") \in ServerUnits /\ Unit("blank").u = "blank"
  BY InServer, PlainUnit DEF PlainKinds
<1>2. CASE flaw = "trailers"
  <2>1. LastUnits(flaw) = <<Unit("zero"), Unit("trailer"), Unit("blank")>>
    BY <1>2 DEF LastUnits
  <2> QED
    BY <1>1, <2>1
<1>3. CASE flaw # "trailers"
  <2>1. LastUnits(flaw) = <<Unit("zero"), Unit("blank")>>
    BY <1>3 DEF LastUnits
  <2> QED
    BY <1>1, <2>1
<1> QED
  BY <1>2, <1>3

(* After the first chunk: a bad size line, a second chunk, or the last.    *)
LaterFirst(s, n, flaw) ==
  \/ s[1].u = "badsize"
  \/ n <= ChunkMax /\ Begins(s, LastUnits(flaw))
  \/ n > ChunkMax /\ Begins(s, Chunk(ChunkMax + 1, n) \o LastUnits(flaw))

LEMMA LaterIs ==
  ASSUME NEW n \in Nat, NEW flaw
  PROVE  /\ LaterUnits(n, flaw) \in Seq(ServerUnits)
         /\ \A s \in Seq(ServerUnits) :
              s # <<>> /\ Begins(s, LaterUnits(n, flaw)) => LaterFirst(s, n, flaw)
<1> DEFINE a == IF flaw = "chunk_size" THEN <<Unit("badsize")>> ELSE <<>>
           b == IF n <= ChunkMax THEN <<>> ELSE Chunk(ChunkMax + 1, n)
           l == LastUnits(flaw)
           ab == a \o b
<1>1. LaterUnits(n, flaw) = ab \o l
  BY DEF LaterUnits
<1>2. Unit("badsize") \in ServerUnits /\ Unit("badsize").u = "badsize"
  BY InServer, PlainUnit DEF PlainKinds
<1>3. a \in Seq(ServerUnits)
  BY <1>2, EmptySeq
<1>4. b \in Seq(ServerUnits)
  <2>1. CASE n <= ChunkMax
    BY <2>1, EmptySeq
  <2>2. CASE n > ChunkMax
    <3>1. ChunkMax + 1 \in Nat /\ 1 <= ChunkMax + 1 /\ ChunkMax + 1 <= n /\ ~(n <= ChunkMax)
      BY <2>2 DEF ChunkMax
    <3>2. Chunk(ChunkMax + 1, n) \in Seq(ServerUnits)
      BY <3>1, ChunkIs
    <3> QED
      BY <3>1, <3>2
  <2> QED
    BY <2>1, <2>2 DEF ChunkMax
<1>5. l \in Seq(ServerUnits)
  BY LastIs
<1> HIDE DEF l
<1>6. CASE flaw = "chunk_size"
  <2>1. a = <<Unit("badsize")>> /\ Len(a) = 1 /\ a[1] = Unit("badsize")
    BY <1>6
  <2> HIDE DEF a, b
  <2>2. /\ ab \in Seq(ServerUnits) /\ Len(ab) = Len(a) + Len(b)
        /\ \A i \in 1..Len(a) : ab[i] = a[i]
    BY <1>3, <1>4, Joined
  <2>3. Len(b) \in Nat /\ Len(l) \in Nat
    BY <1>4, <1>5, LenProperties
  <2> HIDE DEF ab
  <2>4. /\ ab \o l \in Seq(ServerUnits) /\ Len(ab \o l) = Len(ab) + Len(l)
        /\ \A i \in 1..Len(ab) : (ab \o l)[i] = ab[i]
    BY <1>5, <2>2, Joined
  <2>5. (ab \o l)[1] = Unit("badsize")
    BY <2>1, <2>2, <2>3, <2>4
  <2>6. ASSUME NEW s \in Seq(ServerUnits), s # <<>>, Begins(s, ab \o l)
        PROVE  s[1].u = "badsize"
    <3>1. Len(s) >= 1 /\ Len(s) \in Nat
      BY <2>6, EmptySeq, LenProperties
    <3>2. s[1] = (ab \o l)[1]
      BY <2>6, <3>1 DEF Begins
    <3> QED
      BY <1>2, <2>5, <3>2
  <2> QED
    BY <1>1, <2>4, <2>6 DEF LaterFirst
<1>7. CASE flaw # "chunk_size"
  <2>1. ab = b
    BY <1>4, <1>7, ConcatEmptySeq
  <2>2. CASE n <= ChunkMax
    <3>1. b = <<>>
      BY <2>2
    <3>2. b \o l = l
      BY <1>5, <3>1, ConcatEmptySeq
    <3> HIDE DEF b, ab
    <3> QED
      BY <1>1, <1>5, <2>1, <2>2, <3>2 DEF LaterFirst, l
  <2>3. CASE n > ChunkMax
    <3>1. b = Chunk(ChunkMax + 1, n)
      BY <2>3 DEF ChunkMax
    <3>2. Len(b) \in Nat
      BY <1>4, LenProperties
    <3> HIDE DEF b, ab
    <3>3. b \o l \in Seq(ServerUnits)
      BY <1>4, <1>5, Joined
    <3> QED
      BY <1>1, <2>1, <2>3, <3>1, <3>3 DEF LaterFirst, l
  <2> QED
    BY <2>2, <2>3 DEF ChunkMax
<1> QED
  BY <1>6, <1>7

----------------------------------------------------------------------------
(* The content of a body.                                                  *)
LEMMA Holds ==
  ASSUME NEW s \in Seq(ServerUnits), NEW n \in Nat, n <= Len(s),
         \A i \in 1..n : s[i] = Content(i),
         \A i \in 1..Len(s) : n < i => s[i].u # "data"
  PROVE  HoldsContents(s, n) /\ DataIn(s) = 1..n
<1>1. Len(s) \in Nat /\ DOMAIN s = 1..Len(s)
  BY LenProperties
<1>2. \A i \in 1..n : s[i].u = "data"
  BY InServer
<1>3. DataIn(s) = 1..n
  BY <1>1, <1>2 DEF DataIn
<1> QED
  BY <1>3 DEF HoldsContents

LEMMA DataBounded ==
  ASSUME NEW s \in Seq(ServerUnits), NEW m \in Nat, Len(s) <= m
  PROVE  DataIn(s) \subseteq 1..m
<1>1. Len(s) \in Nat /\ DOMAIN s = 1..Len(s)
  BY LenProperties
<1> QED
  BY <1>1 DEF DataIn

LEMMA NoData == DataIn(<<>>) = {}
<1>1. DOMAIN <<>> = {}
  BY EmptySeq
<1> QED
  BY <1>1 DEF DataIn

LEMMA FirstContents ==
  ASSUME NEW n \in Nat
  PROVE  /\ Contents(1, n) \in Seq(ServerUnits)
         /\ Len(Contents(1, n)) = n
         /\ \A i \in 1..n : Contents(1, n)[i] = Content(i)
<1>1. 1 \in Nat /\ 1 <= 1 /\ 1 <= n + 1
  OBVIOUS
<1>2. /\ Contents(1, n) \in Seq(ServerUnits)
      /\ Len(Contents(1, n)) = n - 1 + 1
      /\ \A i \in 1..(n - 1 + 1) : Contents(1, n)[i] = Content(1 + i - 1)
  BY <1>1, ContentsAre
<1>3. n - 1 + 1 = n /\ \A i \in 1..n : 1 + i - 1 = i
  OBVIOUS
<1> QED
  BY <1>2, <1>3

LEMMA NoContents == Contents(1, 0) = <<>>
BY FirstContents, EmptySeq

(* The first k of some units.                                              *)
LEMMA FirstOf ==
  ASSUME NEW S, NEW s \in Seq(S), NEW k \in Int, NEW t, t = SubSeq(s, 1, k),
         k <= Len(s)
  PROVE  /\ t \in Seq(S)
         /\ Len(t) = IF 1 <= k THEN k ELSE 0
         /\ \A i \in 1..Len(t) : i \in 1..Len(s) /\ t[i] = s[i]
<1>1. Len(s) \in Nat /\ \A i \in 1..Len(s) : s[i] \in S
  BY LenProperties, ElementOfSeq
<1>2. \A i \in 1..k : s[i] \in S
  BY <1>1
<1>3. /\ t \in Seq(S)
      /\ Len(t) = IF 1 <= k THEN k - 1 + 1 ELSE 0
      /\ \A i \in 1..(k - 1 + 1) : t[i] = s[1 + i - 1]
  BY <1>2, SubSeqProperties
<1> QED
  BY <1>1, <1>3

----------------------------------------------------------------------------
(* What is told of the unread units is told of what is left of them.       *)
LEMMA TellsRest ==
  ASSUME NEW units \in Seq(ServerUnits), NEW k \in Nat, Tells(units), NEW rest,
         rest = SubSeq(units, k + 1, Len(units))
  PROVE  rest \in Seq(ServerUnits) /\ Tells(rest)
<1>1. /\ rest \in Seq(ServerUnits)
      /\ Len(rest) = IF k <= Len(units) THEN Len(units) - k ELSE 0
      /\ \A i \in 1..Len(rest) : k + i \in 1..Len(units) /\ rest[i] = units[k + i]
  BY Rest
<1>2. Len(units) \in Nat
  BY LenProperties
<1>3. ASSUME NEW i \in 1..Len(rest), rest[i] \in FinalHeads
      PROVE  rest[i] = Lead(meant) /\ Begins(Behind(rest, i), BodyUnitsOf(meant))
  <2>1. k + i \in 1..Len(units) /\ rest[i] = units[k + i]
    BY <1>1
  <2>2. units[k + i] = Lead(meant) /\ Begins(Behind(units, k + i), BodyUnitsOf(meant))
    BY <1>3, <2>1 DEF Tells
  <2>3. Behind(rest, i) = Behind(units, k + i)
    <3> DEFINE p == Behind(rest, i)
               q == Behind(units, k + i)
    <3>0. i \in Nat /\ k + i \in Nat /\ i <= Len(rest) /\ k + i <= Len(units)
          /\ Len(rest) = Len(units) - k
      BY <1>1, <1>2, <2>1
    <3>1. /\ p \in Seq(ServerUnits)
          /\ Len(p) = IF i <= Len(rest) THEN Len(rest) - i ELSE 0
          /\ \A j \in 1..Len(p) : i + j \in 1..Len(rest) /\ p[j] = rest[i + j]
      BY <1>1, <3>0, Rest DEF Behind
    <3>2. /\ q \in Seq(ServerUnits)
          /\ Len(q) = IF k + i <= Len(units) THEN Len(units) - (k + i) ELSE 0
          /\ \A j \in 1..Len(q) :
               (k + i) + j \in 1..Len(units) /\ q[j] = units[(k + i) + j]
      BY <3>0, Rest DEF Behind
    <3> HIDE DEF p, q
    <3>3. Len(p) = Len(q)
      BY <1>2, <3>0, <3>1, <3>2
    <3>4. ASSUME NEW j \in 1..Len(p)
          PROVE  p[j] = q[j]
      <4>1. i + j \in 1..Len(rest) /\ p[j] = rest[i + j]
        BY <3>1
      <4>2. rest[i + j] = units[k + (i + j)]
        BY <1>1, <4>1
      <4>3. q[j] = units[(k + i) + j]
        BY <3>2, <3>3
      <4>4. k + (i + j) = (k + i) + j
        BY <3>0, <4>1
      <4> QED
        BY <4>1, <4>2, <4>3, <4>4
    <3> QED
      BY <3>1, <3>2, <3>3, <3>4, SeqEqual DEF p, q
  <2> QED
    BY <2>1, <2>2, <2>3
<1> QED
  BY <1>1, <1>3 DEF Tells

----------------------------------------------------------------------------
(* The steps before the body.                                              *)
LEMMA ReadNothingKeeps ==
  ASSUME ReaderInv, ReadNothing
  PROVE  ReaderInv'
<1>1. /\ at = "status" /\ at' \in {"end", "done"} /\ ReaderTypes /\ Unstarted
      /\ at' = "done" => error' # "none"
      /\ UNCHANGED <<opts, purpose, inbox, head, body, trailer, meant>>
  BY DEF ReadNothing, ReaderInv, Ends, Fails, BodyPlaces
<1>2. ReaderTypes'
  BY <1>1 DEF ReaderTypes, BodyPlaces
<1>3. ~FramedBody'
  BY <1>1 DEF Unstarted, FramedBody
<1> QED
  BY <1>1, <1>2, <1>3 DEF ReaderInv, BodyPlaces, Delivered

LEMMA ReadInterimKeeps ==
  ASSUME ReaderInv, ReadInterim
  PROVE  ReaderInv'
<1>1. /\ at = "status" /\ at' = "status" /\ ReaderTypes /\ Unstarted /\ Tells(inbox)
      /\ inbox' = SubSeq(inbox, 1 + 1, Len(inbox)) /\ inbox \in Seq(ServerUnits)
      /\ UNCHANGED <<opts, purpose, head, body, trailer, meant, flags>>
  BY DEF ReadInterim, ReaderInv, ReaderTypes, Skip, BodyPlaces
<1>2. inbox' \in Seq(ServerUnits) /\ Tells(inbox')
  BY <1>1, TellsRest
<1>3. Tells(inbox)'
  BY <1>1, <1>2 DEF Tells, Behind, Lead, BodyUnitsOf
<1>4. ReaderTypes' /\ Unstarted'
  BY <1>1, <1>2 DEF ReaderTypes, Unstarted
<1> QED
  BY <1>1, <1>3, <1>4 DEF ReaderInv, BodyPlaces

LEMMA ReadNotHttpKeeps ==
  ASSUME ReaderInv, ReadNotHttp
  PROVE  ReaderInv'
<1>1. /\ at = "status" /\ at' \in {"end", "done"} /\ ReaderTypes /\ Unstarted
      /\ inbox \in Seq(ServerUnits)
      /\ UNCHANGED <<opts, purpose, head, trailer, meant>>
  BY DEF ReadNotHttp, ReaderInv, ReaderTypes, Ends, Fails, BodyPlaces
<1>2. /\ at' = "done" => error' # "none"
      /\ inbox' \in {inbox, <<>>} /\ body' \in {inbox, body}
  BY DEF ReadNotHttp, Ends, Fails
<1>3. ReaderTypes'
  BY <1>1, <1>2, EmptySeq DEF ReaderTypes, BodyPlaces
<1>4. ~FramedBody'
  BY <1>1 DEF Unstarted, FramedBody
<1> QED
  BY <1>1, <1>2, <1>3, <1>4 DEF ReaderInv, BodyPlaces, Delivered

(* The header block: how the body will be read, or why it is not.          *)
HeadRead(h) ==
  \/ at' = "done" /\ error' # "none"
  \/ at' = "end" /\ (NoBody(h) \/ flags' # {})
  \/ at' = BodyMode(h) /\ flags' = flags /\ ~NoBody(h) /\ ~LengthExceeds(h)

LEMMA HeadGoesOn ==
  ASSUME ReadHead
  PROVE  HeadRead(inbox[1])
<1> DEFINE h == inbox[1]
<1>1. \/ Fails(HeadError(h)) /\ HeadError(h) # "none"
      \/ Ends(HeadFlags(h)) /\ HeadFlags(h) # {}
      \/ Ends({}) /\ NoBody(h)
      \/ Ends({"filesize"})
      \/ at' = BodyMode(h) /\ flags' = flags /\ ~NoBody(h) /\ ~LengthExceeds(h)
  BY DEF ReadHead
<1> HIDE DEF h
<1>2. HeadRead(h)
  BY <1>1 DEF HeadRead, Fails, Ends
<1> QED
  BY <1>2 DEF h

(* The units behind the header block are those of its body.                *)
BodyFollows(h, units) ==
  /\ h \in FinalHeads /\ units \in Seq(ServerUnits)
  /\ purpose = "answer" /\ ~NoBody(h) /\ BodyMode(h) = "length" =>
       Begins(units, Contents(1, h.n))
  /\ BodyMode(h) = "size" =>
       Begins(units, ChunkedUnits(h.n, h.flaw)) \/ NoBody(h)

LEMMA HeadIsMeant ==
  ASSUME ReaderInv, ReadHead
  PROVE  BodyFollows(inbox[1], inbox')
<1> DEFINE h == inbox[1]
<1>1. /\ inbox # <<>> /\ h.u = "head" /\ ~IsInterim(h) /\ inbox \in Seq(ServerUnits)
      /\ Tells(inbox) /\ inbox' = SubSeq(inbox, 1 + 1, Len(inbox))
  BY DEF ReadHead, ReaderInv, ReaderTypes, Skip
<1>2. Len(inbox) \in Nat /\ 1 \in 1..Len(inbox) /\ h \in ServerUnits
  BY <1>1, LenProperties, EmptySeq, ElementOfSeq
<1>3. inbox' \in Seq(ServerUnits)
  BY <1>1, Rest
<1>4. h \in FinalHeads
  BY <1>1, <1>2, FinalOnly
<1>5. h = Lead(meant) /\ Begins(Behind(inbox, 1), BodyUnitsOf(meant))
  BY <1>1, <1>2, <1>4 DEF Tells
<1>6. Begins(inbox', BodyUnitsOf(meant))
  BY <1>1, <1>5 DEF Behind
<1> HIDE DEF h
<1>7. /\ h.st = meant.st /\ h.fr = meant.fr /\ h.n = meant.n /\ h.flaw = meant.flaw
  <2>1. Lead(meant).u = "head"
    BY <1>1, <1>5
  <2>2. Lead(meant) = HeadUnit(meant.st, meant.fr, meant.n, meant.flaw, meant.coding)
    BY <2>1 DEF Lead, Unit
  <2> QED
    BY <1>5, <2>2 DEF HeadUnit
<1>8. ASSUME purpose = "answer", ~NoBody(h)
      PROVE  ~(opts.head \/ meant.st = 204)
  BY <1>7, <1>8 DEF NoBody, IsHead
<1>9. ASSUME purpose = "answer", ~NoBody(h), BodyMode(h) = "length"
      PROVE  Begins(inbox', Contents(1, h.n))
  <2>1. meant.fr = "length"
    BY <1>7, <1>9 DEF BodyMode
  <2>2. BodyUnitsOf(meant) = Contents(1, h.n)
    BY <1>7, <1>8, <1>9, <2>1 DEF BodyUnitsOf
  <2> QED
    BY <1>6, <2>2
<1>10. ASSUME ~NoBody(h), BodyMode(h) = "size"
       PROVE  Begins(inbox', ChunkedUnits(h.n, h.flaw))
  <2>1. meant.fr = "chunked" /\ purpose = "answer"
    BY <1>7, <1>10 DEF BodyMode, Raw, ReaderInv, ReaderTypes
  <2>2. BodyUnitsOf(meant) = ChunkedUnits(h.n, h.flaw)
    BY <1>7, <1>8, <1>10, <2>1 DEF BodyUnitsOf
  <2> QED
    BY <1>6, <2>2
<1> QED
  BY <1>3, <1>4, <1>9, <1>10 DEF BodyFollows, h

LEMMA ReadHeadKeeps ==
  ASSUME ReaderInv, ReadHead
  PROVE  ReaderInv'
<1>1. /\ at = "status" /\ ReaderTypes /\ Unstarted
      /\ head' = inbox[1]
      /\ UNCHANGED <<opts, purpose, body, trailer, meant>>
  BY DEF ReadHead, ReaderInv, BodyPlaces
<1>2. HeadRead(head') /\ BodyFollows(head', inbox')
  BY <1>1, HeadGoesOn, HeadIsMeant
<1>3. /\ head' \in FinalHeads /\ inbox' \in Seq(ServerUnits)
      /\ body' = <<>> /\ head'.n \in Nat
  <2>1. head' \in FinalHeads /\ inbox' \in Seq(ServerUnits) /\ body' = <<>>
    BY <1>1, <1>2 DEF BodyFollows, Unstarted
  <2> QED
    BY <2>1 DEF FinalHeads
<1>4. at' \in BodyPlaces \union {"done"}
  BY <1>2 DEF HeadRead, BodyMode, BodyPlaces
<1>5. ReaderTypes'
  BY <1>1, <1>3 DEF ReaderTypes
<1>6. /\ NoBody(head)' <=> NoBody(head')
      /\ BodyMode(head)' = BodyMode(head')
      /\ Limited' <=> opts.cap # None /\ ~IsRedirect(head')
  BY <1>1 DEF NoBody, IsHead, BodyMode, Raw, Limited, IsRedirect
<1>7. CASE at' = "done" /\ error' # "none"
  BY <1>1, <1>3, <1>5, <1>7 DEF ReaderInv, BodyPlaces
<1>8. CASE at' = "end" /\ (NoBody(head') \/ flags' # {})
  <2>1. Delivered'
    BY <1>3, <1>6, <1>8, NoData DEF Delivered, FramedBody
  <2> QED
    BY <1>3, <1>5, <1>8, <2>1 DEF ReaderInv, BodyPlaces
<1>9. CASE at' = BodyMode(head') /\ ~NoBody(head') /\ ~LengthExceeds(head')
  <2>1. CASE at' = "length"
    <3>1. BodyMode(head') = "length" /\ head'.fr = "length"
      BY <1>9, <2>1 DEF BodyMode
    <3>2. purpose = "answer" => Begins(inbox', Contents(1, head'.n))
      BY <1>2, <1>9, <3>1 DEF BodyFollows
    <3>3. ASSUME purpose = "answer", Limited'
          PROVE  head'.n <= opts'.cap
      <4>1. Cap = opts.cap /\ opts' = opts /\ opts.cap \in Nat \union {None}
        BY <1>1, <3>3 DEF Cap, ReaderTypes, OptionSpace
      <4>2. opts.cap # None /\ ~IsRedirect(head')
        BY <1>6, <3>3
      <4>3. ~(head'.n > opts.cap)
        BY <1>9, <3>1, <4>1, <4>2 DEF LengthExceeds
      <4> QED
        BY <1>3, <4>1, <4>2, <4>3
    <3>4. AtLength'
      BY <1>1, <1>3, <1>6, <3>1, <3>2, <3>3 DEF AtLength
    <3> QED
      BY <1>3, <1>5, <2>1, <3>4 DEF ReaderInv, BodyPlaces
  <2>2. CASE at' = "close"
    BY <1>3, <1>5, <1>6, <1>9, <2>2 DEF ReaderInv, BodyPlaces
  <2>3. CASE at' = "size"
    <3>1. Begins(inbox', ChunkedUnits(head'.n, head'.flaw))
      BY <1>2, <1>9, <2>3 DEF BodyFollows
    <3>2. AtChunk'
      <4>1. CASE head'.n = 0
        <5>1. ChunkedUnits(head'.n, head'.flaw) = LaterUnits(head'.n, head'.flaw)
          BY <4>1 DEF ChunkedUnits
        <5>2. InFirst(head'.n) = 0
          BY <4>1 DEF InFirst, ChunkMax
        <5>3. body' = Contents(1, InFirst(head'.n))
          BY <1>3, <5>2, NoContents
        <5> QED
          BY <3>1, <5>1, <5>3 DEF AtChunk
      <4>2. CASE head'.n # 0
        <5>1. ChunkedUnits(head'.n, head'.flaw) =
                Chunk(1, InFirst(head'.n)) \o LaterUnits(head'.n, head'.flaw)
          BY <4>2 DEF ChunkedUnits
        <5> QED
          BY <1>3, <3>1, <4>2, <5>1 DEF AtChunk
      <4> QED
        BY <4>1, <4>2
    <3>3. purpose' = "answer"
      BY <1>1, <1>9, <2>3 DEF BodyMode, Raw, ReaderTypes
    <3>4. Limited' => Len(body') <= opts.cap
      <4>1. opts.cap \in Nat \union {None} /\ Len(body') = 0
        BY <1>1, <1>3, EmptySeq DEF ReaderTypes, OptionSpace
      <4> QED
        BY <1>6, <4>1
    <3>5. AtSize'
      BY <1>1, <1>6, <1>9, <2>3, <3>2, <3>3, <3>4 DEF AtSize
    <3> QED
      BY <1>3, <1>5, <2>3, <3>5 DEF ReaderInv, BodyPlaces
  <2> QED
    BY <1>9, <2>1, <2>2, <2>3 DEF BodyMode
<1> QED
  BY <1>2, <1>7, <1>8, <1>9 DEF HeadRead

----------------------------------------------------------------------------
(* The body, read in full or with a flag.                                  *)
LEMMA BodyRead ==
  ASSUME ReaderInv, at \in {"length", "close", "size", "decode"},
         at' \in {"decode", "end"} \/ (at' = "done" /\ error' # "none"),
         inbox' \in Seq(ServerUnits), body' \in Seq(ServerUnits), trailer' \in Nat,
         purpose = "answer" /\ at' # "done" => Delivered',
         UNCHANGED <<opts, purpose, head>>
  PROVE  ReaderInv'
<1>1. head \in FinalHeads /\ ReaderTypes
  BY DEF ReaderInv
<1>2. ReaderTypes'
  BY <1>1 DEF ReaderTypes
<1> QED
  BY <1>1, <1>2 DEF ReaderInv, BodyPlaces

LEMMA ReadLengthKeeps ==
  ASSUME ReaderInv, ReadLength
  PROVE  ReaderInv'
<1> DEFINE n == head.n
           k == IF Len(inbox) < n THEN Len(inbox) ELSE n
<1>1. /\ at = "length" /\ AtLength /\ head \in FinalHeads
      /\ inbox \in Seq(ServerUnits) /\ opts \in OptionSpace /\ trailer \in Nat
      /\ UNCHANGED <<opts, purpose, head, trailer>>
  BY DEF ReadLength, ReaderInv, ReaderTypes, BodyPlaces
<1>2. n \in Nat /\ Len(inbox) \in Nat
  BY <1>1, LenProperties DEF FinalHeads
<1>3. k \in Nat /\ k <= Len(inbox) /\ k <= n
  BY <1>2
<1>4. body' = SubSeq(inbox, 1, k) /\ inbox' = SubSeq(inbox, k + 1, Len(inbox))
  BY DEF ReadLength, Taken, Skip
<1>5. /\ at' = "decode" \/ (at' = "done" /\ error' # "none")
      /\ at' = "decode" /\ flags' = {} => k = n
  <2>1. \/ k = n /\ at' = "decode"
        \/ at' = "decode" /\ flags' = flags \union {"partial"}
        \/ Fails("failed to read body")
    BY DEF ReadLength
  <2> HIDE DEF k, n
  <2> QED
    BY <2>1 DEF Fails
<1> HIDE DEF k
<1>6. inbox' \in Seq(ServerUnits)
  BY <1>1, <1>3, <1>4, Rest
<1>7. /\ body' \in Seq(ServerUnits) /\ Len(body') = k
      /\ \A i \in 1..Len(body') : i \in 1..Len(inbox) /\ body'[i] = inbox[i]
  BY <1>1, <1>3, <1>4, FirstOf
<1>8. ASSUME purpose = "answer", at' # "done"
      PROVE  Delivered'
  <2>1. Begins(inbox, Contents(1, n)) /\ (Limited => n <= opts.cap)
    BY <1>1, <1>8 DEF AtLength
  <2>2. Len(Contents(1, n)) = n /\ \A i \in 1..n : Contents(1, n)[i] = Content(i)
    BY <1>2, FirstContents
  <2>3. \A i \in 1..k : body'[i] = Content(i)
    BY <1>2, <1>3, <1>7, <2>1, <2>2 DEF Begins
  <2>4. k = n => HoldsContents(body', n)
    BY <1>2, <1>7, <2>3, Holds
  <2>5. ASSUME Limited
        PROVE  DataIn(body') \subseteq 1..opts.cap
    <3>1. opts.cap \in Nat /\ n <= opts.cap
      BY <1>1, <2>1, <2>5 DEF OptionSpace, Limited
    <3> QED
      BY <1>2, <1>3, <1>7, <3>1, DataBounded
  <2>6. Limited' <=> Limited
    BY <1>1 DEF Limited, IsRedirect
  <2>7. at' = "decode" => ((flags = {})' => HoldsContents(body', n))
    BY <1>5, <2>4
  <2> QED
    BY <1>1, <1>5, <1>8, <2>5, <2>6, <2>7 DEF Delivered
<1> QED
  BY <1>1, <1>5, <1>6, <1>7, <1>8, BodyRead

LEMMA ReadToEndKeeps ==
  ASSUME ReaderInv, ReadToEnd
  PROVE  ReaderInv'
<1>1. /\ at = "close" /\ BodyMode(head) = "close" /\ at' = "decode"
      /\ inbox \in Seq(ServerUnits) /\ trailer \in Nat
      /\ body' = inbox /\ inbox' = <<>>
      /\ UNCHANGED <<opts, purpose, head, trailer>>
  BY DEF ReadToEnd, ReaderInv, ReaderTypes, BodyPlaces
<1>2. BodyMode(head)' = "close"
  BY <1>1 DEF BodyMode, Raw
<1>3. Delivered'
  BY <1>2 DEF Delivered, FramedBody
<1> QED
  BY <1>1, <1>3, EmptySeq, BodyRead

LEMMA ReadSizeFailsKeeps ==
  ASSUME ReaderInv, ReadSizeFails
  PROVE  ReaderInv'
<1>1. /\ at = "size" /\ AtSize /\ at' = "decode"
      /\ inbox \in Seq(ServerUnits) /\ body \in Seq(ServerUnits) /\ trailer \in Nat
      /\ opts \in OptionSpace
      /\ flags' # {} /\ inbox' = SubSeq(inbox, 1 + 1, Len(inbox))
      /\ UNCHANGED <<opts, purpose, head, trailer, body>>
  BY DEF ReadSizeFails, ReaderInv, ReaderTypes, BodyPlaces, Skip
<1>2. inbox' \in Seq(ServerUnits)
  BY <1>1, Rest
<1>3. Limited' => DataIn(body') \subseteq 1..opts.cap
  BY <1>1, DataBounded DEF Limited, IsRedirect, AtSize, OptionSpace
<1>4. Delivered'
  BY <1>1, <1>3 DEF Delivered
<1> QED
  BY <1>1, <1>2, <1>4, BodyRead

LEMMA ContentsJoined ==
  ASSUME NEW a \in Nat, NEW b \in Nat, 1 <= a, a <= b
  PROVE  Contents(1, a - 1) \o Contents(a, b) = Contents(1, b)
<1> DEFINE s == Contents(1, a - 1)
           t == Contents(a, b)
           u == Contents(1, b)
           st == s \o t
<1>1. a - 1 \in Nat
  OBVIOUS
<1>2. /\ s \in Seq(ServerUnits) /\ Len(s) = a - 1
      /\ \A i \in 1..(a - 1) : s[i] = Content(i)
  BY <1>1, FirstContents
<1>3. /\ t \in Seq(ServerUnits) /\ Len(t) = b - a + 1
      /\ \A i \in 1..(b - a + 1) : t[i] = Content(a + i - 1)
  BY ContentsAre
<1>4. /\ u \in Seq(ServerUnits) /\ Len(u) = b
      /\ \A i \in 1..b : u[i] = Content(i)
  BY FirstContents
<1> HIDE DEF s, t, u
<1>5. s \in Seq(ServerUnits) /\ t \in Seq(ServerUnits)
  BY <1>2, <1>3
<1>6. /\ st \in Seq(ServerUnits) /\ Len(st) = Len(s) + Len(t)
      /\ \A i \in 1..Len(s) : st[i] = s[i]
      /\ \A i \in 1..Len(t) : st[Len(s) + i] = t[i]
  BY <1>5, Joined
<1> HIDE DEF st
<1>7. Len(st) = Len(u)
  BY <1>2, <1>3, <1>4, <1>6
<1>8. ASSUME NEW i \in 1..Len(st)
      PROVE  st[i] = u[i]
  <2>1. i \in 1..b /\ u[i] = Content(i)
    BY <1>4, <1>7
  <2>2. CASE i <= a - 1
    <3>1. i \in 1..(a - 1) /\ i \in 1..Len(s)
      BY <1>2, <2>1, <2>2
    <3> QED
      BY <1>2, <1>6, <2>1, <3>1
  <2>3. CASE i > a - 1
    <3> DEFINE j == i - (a - 1)
    <3>1. /\ j \in 1..(b - a + 1) /\ j \in 1..Len(t)
          /\ Len(s) + j = i /\ a + j - 1 = i
      BY <1>2, <1>3, <2>1, <2>3
    <3> HIDE DEF j
    <3>2. st[i] = t[j] /\ t[j] = Content(i)
      BY <1>3, <1>6, <3>1
    <3> QED
      BY <2>1, <3>2
  <2> QED
    BY <2>1, <2>2, <2>3
<1> QED
  BY <1>4, <1>6, <1>7, <1>8, SeqEqual DEF s, t, u, st

(* The chunk that comes next, and what comes after it.                     *)
NextChunk(a, b, t) ==
  /\ a \in Nat /\ b \in Nat /\ 1 <= a /\ a <= b
  /\ body = Contents(1, a - 1)
  /\ t \in Seq(ServerUnits)
  /\ Begins(inbox, Chunk(a, b) \o t)
  /\ \/ b = InFirst(head.n) /\ t = LaterUnits(head.n, head.flaw)
     \/ b = head.n /\ t = LastUnits(head.flaw)

LEMMA ChunkComes ==
  ASSUME AtChunk, head \in FinalHeads, inbox \in Seq(ServerUnits), inbox # <<>>,
         inbox[1].u = "size"
  PROVE  \E a, b, t : NextChunk(a, b, t)
<1> DEFINE n == head.n
           later == LaterUnits(n, head.flaw)
           last == LastUnits(head.flaw)
<1>1. n \in Nat
  BY DEF FinalHeads
<1>2. later \in Seq(ServerUnits) /\ last \in Seq(ServerUnits)
  BY <1>1, LaterIs, LastIs
<1>3. InFirst(n) \in Nat /\ (n > 0 => 1 <= InFirst(n)) /\ (n > ChunkMax => InFirst(n) = ChunkMax)
  BY <1>1 DEF InFirst, ChunkMax
<1>4. ~Begins(inbox, last)
  <2>1. Len(inbox) >= 1 /\ Len(inbox) \in Nat /\ last[1].u = "zero"
    BY EmptySeq, LenProperties, LastIs
  <2> QED
    BY <2>1 DEF Begins
<1> HIDE DEF n, later, last
<1>5. CASE n > 0 /\ body = <<>> /\ Begins(inbox, Chunk(1, InFirst(n)) \o later)
  <2>1. Contents(1, 1 - 1) = <<>>
    BY NoContents
  <2>2. NextChunk(1, InFirst(n), later)
    BY <1>2, <1>3, <1>5, <2>1 DEF NextChunk, n, later
  <2> QED
    BY <2>2
<1>6. CASE body = Contents(1, InFirst(n)) /\ Begins(inbox, later)
  <2>1. LaterFirst(inbox, n, head.flaw)
    BY <1>1, <1>6, LaterIs DEF later
  <2>2. n > ChunkMax /\ Begins(inbox, Chunk(ChunkMax + 1, n) \o last)
    BY <1>4, <2>1 DEF LaterFirst, last
  <2>3. /\ ChunkMax + 1 \in Nat /\ 1 <= ChunkMax + 1 /\ ChunkMax + 1 <= n
        /\ InFirst(n) = (ChunkMax + 1) - 1
    BY <1>1, <1>3, <2>2 DEF ChunkMax
  <2>4. NextChunk(ChunkMax + 1, n, last)
    BY <1>1, <1>2, <1>6, <2>2, <2>3 DEF NextChunk, n, last
  <2> QED
    BY <2>4
<1> QED
  BY <1>4, <1>5, <1>6 DEF AtChunk, n, later, last

LEMMA ReadChunkKeeps ==
  ASSUME ReaderInv, ReadChunk
  PROVE  ReaderInv'
<1> DEFINE k == inbox[1].k
           grown == body \o SubSeq(inbox, 2, k + 1)
           over == Cap # None /\ ~IsRedirect(head) /\ Len(grown) > Cap
<1>1. /\ at = "size" /\ AtSize /\ head \in FinalHeads
      /\ inbox \in Seq(ServerUnits) /\ body \in Seq(ServerUnits) /\ trailer \in Nat
      /\ opts \in OptionSpace /\ inbox # <<>> /\ inbox[1].u = "size"
      /\ UNCHANGED <<opts, purpose, head, trailer>>
  BY DEF ReadChunk, ReaderInv, ReaderTypes, BodyPlaces, FirstIs
<1>2. PICK a, b, t : NextChunk(a, b, t)
  BY <1>1, ChunkComes DEF AtSize
<1>3. /\ a \in Nat /\ b \in Nat /\ 1 <= a /\ a <= b /\ t \in Seq(ServerUnits)
      /\ Begins(inbox, Chunk(a, b) \o t) /\ body = Contents(1, a - 1)
  BY <1>2 DEF NextChunk
<1>4. /\ inbox[1] = Size(b - a + 1)
      /\ Len(inbox) > b - a + 1 => SubSeq(inbox, 2, (b - a + 1) + 1) = Contents(a, b)
      /\ Begins(SubSeq(inbox, (b - a + 1) + 3, Len(inbox)), t)
  BY <1>1, <1>3, ChunkFirst
<1>5. k = b - a + 1 /\ k \in Nat
  BY <1>3, <1>4 DEF Size
<1>6. Len(inbox) > k => grown = Contents(1, b)
  BY <1>3, <1>4, <1>5, ContentsJoined
<1>7. Contents(1, b) \in Seq(ServerUnits) /\ Len(Contents(1, b)) = b
  BY <1>3, FirstContents
<1>8. \/ /\ at' = "decode" /\ flags' # {} /\ body' = body /\ inbox' = <<>>
      \/ /\ Len(inbox) > k /\ over
         /\ at' = "decode" /\ flags' # {}
         /\ body' = SubSeq(grown, 1, Cap)
         /\ inbox' = SubSeq(inbox, (k + 1) + 1, Len(inbox))
      \/ /\ Len(inbox) > k /\ ~over
         /\ at' = at /\ flags' = flags
         /\ body' = grown
         /\ inbox' = SubSeq(inbox, (k + 2) + 1, Len(inbox))
  BY DEF ReadChunk, Skip
<1>9. purpose = "answer" /\ Cap = opts.cap /\ opts.cap \in Nat \union {None}
      /\ (Limited => Len(body) <= opts.cap) /\ BodyMode(head) = "size"
  BY <1>1 DEF AtSize, Cap, OptionSpace
<1>10. (Limited' <=> Limited) /\ (Limited <=> Cap # None /\ ~IsRedirect(head))
  BY <1>1, <1>9 DEF Limited, IsRedirect
<1> HIDE DEF k, grown
<1>11. CASE at' = "decode" /\ flags' # {} /\ body' = body /\ inbox' = <<>>
  <2>1. Limited' => DataIn(body') \subseteq 1..opts'.cap
    BY <1>1, <1>9, <1>10, <1>11, DataBounded DEF Limited
  <2>2. Delivered'
    BY <1>11, <2>1 DEF Delivered
  <2> QED
    BY <1>1, <1>11, <2>2, EmptySeq, BodyRead
<1>12. CASE /\ Len(inbox) > k /\ over
            /\ at' = "decode" /\ flags' # {}
            /\ body' = SubSeq(grown, 1, Cap)
            /\ inbox' = SubSeq(inbox, (k + 1) + 1, Len(inbox))
  <2>1. grown \in Seq(ServerUnits) /\ Cap \in Nat /\ Cap \in Int /\ Cap <= Len(grown)
    BY <1>3, <1>6, <1>7, <1>9, <1>12
  <2>2. body' \in Seq(ServerUnits) /\ Len(body') = IF 1 <= Cap THEN Cap ELSE 0
    BY <1>12, <2>1, FirstOf
  <2>3. DataIn(body') \subseteq 1..Cap
    <3>1. Len(body') <= Cap
      BY <2>1, <2>2
    <3> QED
      BY <2>1, <2>2, <3>1, DataBounded
  <2>4. Delivered'
    BY <1>1, <1>9, <1>12, <2>3 DEF Delivered
  <2>5. inbox' \in Seq(ServerUnits)
    <3>1. k + 1 \in Nat
      BY <1>5
    <3> QED
      BY <1>1, <1>12, <3>1, Rest
  <2> QED
    BY <1>1, <1>12, <2>2, <2>4, <2>5, BodyRead
<1>13. CASE /\ Len(inbox) > k /\ ~over
            /\ at' = at /\ flags' = flags
            /\ body' = grown
            /\ inbox' = SubSeq(inbox, (k + 2) + 1, Len(inbox))
  <2>1. body' = Contents(1, b) /\ body' \in Seq(ServerUnits) /\ Len(body') = b
    BY <1>6, <1>7, <1>13
  <2>2. inbox' \in Seq(ServerUnits)
    <3>1. k + 2 \in Nat
      BY <1>5
    <3> QED
      BY <1>1, <1>13, <3>1, Rest
  <2>3. Begins(inbox', t)
    <3>1. (k + 2) + 1 = (b - a + 1) + 3
      BY <1>3, <1>5
    <3> QED
      BY <1>4, <1>13, <3>1
  <2>4. AtChunk'
    BY <1>1, <1>2, <2>1, <2>3 DEF NextChunk, AtChunk
  <2>5. Limited' => Len(body') <= opts'.cap
    <3> SUFFICES ASSUME Limited
                 PROVE  Len(body') <= opts.cap
      BY <1>1, <1>10
    <3>1. Cap # None /\ ~IsRedirect(head) /\ opts.cap \in Nat
      BY <1>9, <1>10
    <3>2. ~(Len(body') > opts.cap)
      BY <1>9, <1>13, <3>1
    <3> QED
      BY <1>3, <2>1, <3>1, <3>2
  <2>6. AtSize'
    BY <1>1, <1>9, <2>4, <2>5 DEF AtSize, BodyMode, Raw
  <2>7. ReaderTypes'
    BY <1>1, <2>1, <2>2 DEF ReaderTypes, ReaderInv
  <2> QED
    BY <1>1, <1>13, <2>6, <2>7 DEF ReaderInv, BodyPlaces
<1> QED
  BY <1>8, <1>11, <1>12, <1>13

(* When the last chunk comes all the content has been read.                *)
LEMMA LastComes ==
  ASSUME AtChunk, head \in FinalHeads, inbox \in Seq(ServerUnits), inbox # <<>>,
         inbox[1].u = "zero"
  PROVE  body = Contents(1, head.n) /\ Begins(inbox, LastUnits(head.flaw))
<1> DEFINE n == head.n
           later == LaterUnits(n, head.flaw)
           last == LastUnits(head.flaw)
<1>1. n \in Nat
  BY DEF FinalHeads
<1>2. later \in Seq(ServerUnits) /\ last \in Seq(ServerUnits)
  BY <1>1, LaterIs, LastIs
<1> HIDE DEF n, later, last
<1>3. ASSUME NEW a \in Nat, NEW b \in Nat, 1 <= a, a <= b, NEW t \in Seq(ServerUnits),
             Begins(inbox, Chunk(a, b) \o t)
      PROVE  FALSE
  <2>1. inbox[1] = Size(b - a + 1)
    BY <1>3, ChunkFirst
  <2> QED
    BY <2>1 DEF Size
<1>4. CASE n > 0 /\ body = <<>> /\ Begins(inbox, Chunk(1, InFirst(n)) \o later)
  <2>1. InFirst(n) \in Nat /\ 1 <= InFirst(n) /\ 1 \in Nat /\ 1 <= 1
    BY <1>1, <1>4 DEF InFirst, ChunkMax
  <2> QED
    BY <1>2, <1>3, <1>4, <2>1
<1>5. CASE body = Contents(1, InFirst(n)) /\ Begins(inbox, later)
  <2>1. LaterFirst(inbox, n, head.flaw)
    BY <1>1, <1>5, LaterIs DEF later
  <2>2. CASE n <= ChunkMax /\ Begins(inbox, last)
    BY <1>5, <2>2 DEF InFirst, n, last
  <2>3. CASE n > ChunkMax /\ Begins(inbox, Chunk(ChunkMax + 1, n) \o last)
    <3>1. ChunkMax + 1 \in Nat /\ 1 <= ChunkMax + 1 /\ ChunkMax + 1 <= n
      BY <1>1, <2>3 DEF ChunkMax
    <3> QED
      BY <1>1, <1>2, <1>3, <2>3, <3>1
  <2> QED
    BY <2>1, <2>2, <2>3 DEF LaterFirst, last
<1> QED
  BY <1>4, <1>5 DEF AtChunk, n, later, last

LEMMA ReadTrailersKeeps ==
  ASSUME ReaderInv, ReadTrailers
  PROVE  ReaderInv'
<1> DEFINE n == head.n
           S == {i \in 1..(Len(inbox) + 1) : i > Len(inbox) \/ inbox[i].u = "blank"}
           last == Min(S)
           m == SubSeq(inbox, 2, last - 1)
<1>1. /\ at = "size" /\ AtSize /\ head \in FinalHeads /\ at' = "decode"
      /\ inbox \in Seq(ServerUnits) /\ body \in Seq(ServerUnits)
      /\ opts \in OptionSpace /\ inbox # <<>> /\ inbox[1].u = "zero"
      /\ UNCHANGED <<opts, purpose, head, flags>>
  BY DEF ReadTrailers, ReaderInv, ReaderTypes, BodyPlaces, FirstIs
<1>2. /\ trailer' = last - 2 /\ body' = body \o m
      /\ inbox' = SubSeq(inbox, last + 1, Len(inbox))
  BY DEF ReadTrailers, Skip
<1>3. body = Contents(1, n) /\ Begins(inbox, LastUnits(head.flaw)) /\ n \in Nat
  BY <1>1, LastComes DEF AtSize, FinalHeads
<1>4. /\ Len(inbox) \in Nat /\ Len(inbox) >= 1
      /\ \A i \in 1..Len(inbox) : inbox[i] \in ServerUnits
  BY <1>1, LenProperties, EmptySeq, ElementOfSeq
<1>5. last \in Nat /\ 2 <= last /\ last <= Len(inbox) + 1
  <2>1. S \subseteq Nat /\ Len(inbox) + 1 \in S
    BY <1>4
  <2>2. 1 \notin S /\ \A i \in S : i \in 1..(Len(inbox) + 1)
    BY <1>1, <1>4
  <2> HIDE DEF S
  <2>3. last \in S
    BY <2>1, LeastNatural
  <2> HIDE DEF last
  <2>4. last \in 1..(Len(inbox) + 1) /\ last # 1
    BY <2>2, <2>3
  <2> QED
    BY <1>4, <2>4
<1> HIDE DEF last
<1>6. /\ m \in Seq(ServerUnits)
      /\ \A i \in 1..Len(m) : m[i].u # "data"
  <2>1. \A i \in 2..(last - 1) : inbox[i] \in ServerUnits
    BY <1>4, <1>5
  <2>2. last - 1 \in Int /\ 2 \in Int
    BY <1>5
  <2>3. /\ m \in Seq(ServerUnits)
        /\ Len(m) = IF 2 <= last - 1 THEN (last - 1) - 2 + 1 ELSE 0
        /\ \A i \in 1..((last - 1) - 2 + 1) : m[i] = inbox[2 + i - 1]
    BY <2>1, <2>2, SubSeqProperties
  <2> HIDE DEF m
  <2>4. ASSUME NEW i \in 1..Len(m)
        PROVE  m[i].u # "data"
    <3>1. /\ i \in 1..((last - 1) - 2 + 1) /\ 2 + i - 1 = i + 1
          /\ i + 1 \in 1..Len(inbox)
      BY <1>4, <1>5, <2>3
    <3>2. m[i] = inbox[i + 1]
      BY <2>3, <3>1
    <3>3. /\ inbox[i + 1] = LastUnits(head.flaw)[i + 1]
          /\ i + 1 \in 1..Len(LastUnits(head.flaw))
      BY <1>3, <1>4, <3>1, LastIs DEF Begins
    <3>4. LastUnits(head.flaw)[i + 1].u \in {"zero", "trailer", "blank"}
      BY <3>3, LastIs
    <3> QED
      BY <3>2, <3>3, <3>4
  <2> QED
    BY <2>3, <2>4
<1> HIDE DEF m
<1>7. /\ body' \in Seq(ServerUnits)
      /\ Len(body') = Len(body) + Len(m)
      /\ \A i \in 1..Len(body) : body'[i] = body[i]
      /\ \A i \in 1..Len(m) : body'[Len(body) + i] = m[i]
  <2>1. body \in Seq(ServerUnits) /\ m \in Seq(ServerUnits)
    BY <1>1, <1>6
  <2>2. /\ body \o m \in Seq(ServerUnits)
        /\ Len(body \o m) = Len(body) + Len(m)
        /\ \A i \in 1..Len(body) : (body \o m)[i] = body[i]
        /\ \A i \in 1..Len(m) : (body \o m)[Len(body) + i] = m[i]
    BY <2>1, Joined
  <2> QED
    BY <1>2, <2>2
<1>8. Len(body) = n /\ \A i \in 1..n : body[i] = Content(i)
  BY <1>3, FirstContents
<1>9. HoldsContents(body', n) /\ DataIn(body') = 1..n
  <2>1. Len(m) \in Nat
    BY <1>6, LenProperties
  <2>2. n <= Len(body') /\ \A i \in 1..n : body'[i] = Content(i)
    BY <1>3, <1>7, <1>8, <2>1
  <2>3. ASSUME NEW i \in 1..Len(body'), n < i
        PROVE  body'[i].u # "data"
    <3>1. i - n \in 1..Len(m) /\ Len(body) + (i - n) = i
      BY <1>3, <1>7, <1>8, <2>1, <2>3
    <3> QED
      BY <1>6, <1>7, <3>1
  <2> QED
    BY <1>3, <1>7, <2>2, <2>3, Holds
<1>10. Limited' => DataIn(body') \subseteq 1..opts'.cap
  <2> SUFFICES ASSUME Limited
               PROVE  1..n \subseteq 1..opts.cap
    BY <1>1, <1>9 DEF Limited, IsRedirect
  <2>1. n <= opts.cap /\ opts.cap \in Nat
    BY <1>1, <1>8 DEF AtSize, Limited, OptionSpace
  <2> QED
    BY <1>3, <2>1
<1>11. Delivered'
  BY <1>1, <1>9, <1>10 DEF Delivered
<1>12. trailer' \in Nat /\ inbox' \in Seq(ServerUnits)
  BY <1>1, <1>2, <1>5, Rest
<1> QED
  BY <1>1, <1>7, <1>11, <1>12, BodyRead

LEMMA DecodeKeeps ==
  ASSUME ReaderInv, Decode
  PROVE  ReaderInv'
<1> DEFINE n == head.n
           g == Growth * n
           k == Len(body) - trailer
<1>1. /\ at = "decode" /\ head \in FinalHeads /\ at' = "end"
      /\ inbox \in Seq(ServerUnits) /\ body \in Seq(ServerUnits) /\ trailer \in Nat
      /\ purpose = "answer" => Delivered
      /\ UNCHANGED <<opts, purpose, head, inbox, trailer>>
  BY DEF Decode, ReaderInv, ReaderTypes, BodyPlaces, Ends
<1>2. n \in Nat /\ g \in Nat /\ Len(body) \in Nat
  <2>1. n \in Nat /\ Growth \in Nat
    BY <1>1, ReaderAssumption DEF FinalHeads
  <2>2. \A a, b \in Nat : a * b \in Nat
    OBVIOUS
  <2> QED
    BY <1>1, <2>1, <2>2, LenProperties
<1>3. FramedBody' <=> FramedBody
  BY <1>1 DEF FramedBody, NoBody, IsHead, BodyMode, Raw
<1>4. (Limited' <=> Limited) /\ (Coded' <=> Coded)
  BY <1>1 DEF Limited, IsRedirect, Coded, Decompress, Raw
<1>5. \/ /\ Coded /\ SubSeq(body, 1, k) = Contents(1, n)
         /\ body' = Contents(1, g) /\ flags' = flags
      \/ body' = <<>> /\ flags' # {}
      \/ ~Coded /\ body' = body /\ flags' = flags
  BY DEF Decode, Decodes, Ends
<1>6. CASE /\ Coded /\ SubSeq(body, 1, k) = Contents(1, n)
           /\ body' = Contents(1, g) /\ flags' = flags
  <2> DEFINE t == SubSeq(body, 1, k)
  <2>1. k \in Int /\ k <= Len(body)
    BY <1>1, <1>2
  <2> HIDE DEF k
  <2>2. /\ t \in Seq(ServerUnits)
        /\ \A i \in 1..Len(t) : i \in 1..Len(body) /\ t[i] = body[i]
    BY <1>1, <2>1, FirstOf
  <2>3. t = Contents(1, n)
    BY <1>6
  <2> HIDE DEF t
  <2>4. Len(t) = n /\ \A i \in 1..n : t[i] = Content(i)
    BY <1>2, <2>3, FirstContents
  <2>5. DataIn(t) = 1..n
    BY <1>2, <2>2, <2>4, Holds
  <2>6. DataIn(t) \subseteq DataIn(body)
    <3>1. DOMAIN t = 1..Len(t) /\ DOMAIN body = 1..Len(body)
      BY <1>1, <2>2, LenProperties
    <3> QED
      BY <2>2, <3>1 DEF DataIn
  <2>7. ASSUME purpose = "answer", FramedBody, Limited
        PROVE  n <= opts.cap
    <3>1. 1..n \subseteq 1..opts.cap /\ opts.cap \in Nat
      BY <1>1, <2>5, <2>6, <2>7 DEF Delivered, Limited, ReaderInv, ReaderTypes, OptionSpace
    <3> QED
      BY <1>2, <3>1
  <2>8. body' \in Seq(ServerUnits) /\ HoldsContents(body', g)
    <3> HIDE DEF g
    <3>1. /\ body' \in Seq(ServerUnits) /\ Len(body') = g
          /\ \A i \in 1..g : body'[i] = Content(i)
      BY <1>2, <1>6, FirstContents
    <3>2. \A i \in 1..Len(body') : g < i => body'[i].u # "data"
      BY <1>2, <3>1
    <3> QED
      BY <1>2, <3>1, <3>2, Holds
  <2>9. WholeSize' = g
    BY <1>1, <1>4, <1>6 DEF WholeSize
  <2>10. body' = <<>> => DataIn(body') = {}
    BY NoData
  <2> HIDE DEF g
  <2>11. purpose = "answer" => Delivered'
    BY <1>1, <1>3, <1>4, <1>6, <2>7, <2>8, <2>9, <2>10 DEF Delivered
  <2> QED
    BY <1>1, <2>8, <2>11, BodyRead
<1>7. CASE body' = <<>> /\ flags' # {}
  <2>1. Delivered'
    BY <1>7, NoData DEF Delivered
  <2> QED
    BY <1>1, <1>7, <2>1, EmptySeq, BodyRead
<1>8. CASE ~Coded /\ body' = body /\ flags' = flags
  <2>1. WholeSize' = n
    BY <1>1, <1>4, <1>8 DEF WholeSize
  <2>2. purpose = "answer" => Delivered'
    BY <1>1, <1>3, <1>4, <1>8, <2>1 DEF Delivered
  <2> QED
    BY <1>1, <1>8, <2>2, BodyRead
<1> QED
  BY <1>5, <1>6, <1>7, <1>8

LEMMA ReaderKeeps ==
  ASSUME ReaderInv, ReaderNext
  PROVE  ReaderInv'
BY ReadNothingKeeps, ReadInterimKeeps, ReadNotHttpKeeps, ReadHeadKeeps, ReadLengthKeeps,
   ReadToEndKeeps, ReadSizeFailsKeeps, ReadChunkKeeps, ReadTrailersKeeps, DecodeKeeps
DEF ReaderNext

----------------------------------------------------------------------------
(* What the server puts on the stream: interim header blocks, the lead of  *)
(* its answer, and units of which none is a header block.                  *)
ContentUnits == Plain \union Pieces \union Sizes

LEMMA ContentUnit ==
  /\ \A k \in PlainKinds : Unit(k) \in ContentUnits
  /\ \A i \in Nat : Content(i) \in ContentUnits /\ Size(i) \in ContentUnits
  /\ ContentUnits \subseteq ServerUnits
  /\ \A x \in ContentUnits : x \notin FinalHeads /\ x.u # "head"
BY PlainUnit, PlainKind
DEF ContentUnits, ServerUnits, Content, Size, Pieces, Sizes, FinalHeads, PlainKinds

LEMMA ContentsContent ==
  ASSUME NEW a \in Nat, NEW b \in Nat, 1 <= a, a <= b + 1
  PROVE  Contents(a, b) \in Seq(ContentUnits)
<1>1. /\ Contents(a, b) \in Seq(ServerUnits)
      /\ Len(Contents(a, b)) = b - a + 1
      /\ \A i \in 1..(b - a + 1) : Contents(a, b)[i] = Content(a + i - 1)
  BY ContentsAre
<1>2. \A i \in 1..(b - a + 1) : a + i - 1 \in Nat
  OBVIOUS
<1>3. \A i \in 1..Len(Contents(a, b)) : Contents(a, b)[i] \in ContentUnits
  BY <1>1, <1>2, ContentUnit
<1> QED
  BY <1>1, <1>3, SequenceTyped

LEMMA ChunkContent ==
  ASSUME NEW a \in Nat, NEW b \in Nat, 1 <= a, a <= b
  PROVE  Chunk(a, b) \in Seq(ContentUnits)
<1> DEFINE p == <<Size(b - a + 1)>>
           m == Contents(a, b)
           e == <<Unit("sep")>>
<1>1. b - a + 1 \in Nat
  OBVIOUS
<1>2. p \in Seq(ContentUnits) /\ e \in Seq(ContentUnits)
  BY <1>1, ContentUnit DEF PlainKinds
<1>3. m \in Seq(ContentUnits)
  BY ContentsContent
<1> HIDE DEF p, m, e
<1>4. p \o m \in Seq(ContentUnits)
  BY <1>2, <1>3, Joined
<1>5. (p \o m) \o e \in Seq(ContentUnits)
  BY <1>2, <1>4, Joined
<1> QED
  BY <1>5 DEF Chunk, p, m, e

LEMMA LaterContent ==
  ASSUME NEW n \in Nat, NEW flaw
  PROVE  LaterUnits(n, flaw) \in Seq(ContentUnits)
<1> DEFINE a == IF flaw = "chunk_size" THEN <<Unit("badsize")>> ELSE <<>>
           b == IF n <= ChunkMax THEN <<>> ELSE Chunk(ChunkMax + 1, n)
           l == LastUnits(flaw)
<1>1. /\ Unit("badsize") \in ContentUnits /\ Unit("zero") \in ContentUnits
      /\ Unit("trailer") \in ContentUnits /\ Unit("blank") \in ContentUnits
  BY ContentUnit DEF PlainKinds
<1>2. a \in Seq(ContentUnits)
  BY <1>1, EmptySeq
<1>3. b \in Seq(ContentUnits)
  <2>1. CASE n <= ChunkMax
    BY <2>1, EmptySeq
  <2>2. CASE n > ChunkMax
    <3>1. ChunkMax + 1 \in Nat /\ 1 <= ChunkMax + 1 /\ ChunkMax + 1 <= n /\ ~(n <= ChunkMax)
      BY <2>2 DEF ChunkMax
    <3>2. Chunk(ChunkMax + 1, n) \in Seq(ContentUnits)
      BY <3>1, ChunkContent
    <3> QED
      BY <3>1, <3>2
  <2> QED
    BY <2>1, <2>2 DEF ChunkMax
<1>4. l \in Seq(ContentUnits)
  BY <1>1 DEF LastUnits
<1> HIDE DEF a, b, l
<1>5. a \o b \in Seq(ContentUnits)
  BY <1>2, <1>3, Joined
<1>6. (a \o b) \o l \in Seq(ContentUnits)
  BY <1>4, <1>5, Joined
<1> QED
  BY <1>6 DEF LaterUnits, a, b, l

LEMMA BodyContent ==
  ASSUME NEW a \in AnswerSpace
  PROVE  BodyUnitsOf(a) \in Seq(ContentUnits)
<1>1. a.n \in Nat
  BY DEF AnswerSpace
<1>2. Contents(1, a.n) \in Seq(ContentUnits)
  <2>1. 1 \in Nat /\ 1 <= 1 /\ 1 <= a.n + 1
    BY <1>1
  <2> QED
    BY <1>1, <2>1, ContentsContent
<1>3. ChunkedUnits(a.n, a.flaw) \in Seq(ContentUnits)
  <2> DEFINE p == Chunk(1, InFirst(a.n))
             l == LaterUnits(a.n, a.flaw)
  <2>1. l \in Seq(ContentUnits)
    BY <1>1, LaterContent
  <2>2. CASE a.n = 0
    BY <2>1, <2>2 DEF ChunkedUnits
  <2>3. CASE a.n # 0
    <3>1. InFirst(a.n) \in Nat /\ 1 \in Nat /\ 1 <= 1 /\ 1 <= InFirst(a.n)
      BY <1>1, <2>3 DEF InFirst, ChunkMax
    <3>2. p \in Seq(ContentUnits)
      BY <3>1, ChunkContent
    <3> HIDE DEF p, l
    <3>3. p \o l \in Seq(ContentUnits)
      BY <2>1, <3>2, Joined
    <3> QED
      BY <2>3, <3>3 DEF ChunkedUnits, p, l
  <2> QED
    BY <2>2, <2>3
<1> QED
  BY <1>2, <1>3, EmptySeq DEF BodyUnitsOf

LEMMA LeadIs ==
  ASSUME NEW a \in AnswerSpace
  PROVE  /\ Lead(a) \in ServerUnits /\ ~IsInterim(Lead(a))
         /\ Lead(a) \in FinalHeads \/ Lead(a) = Unit("garbage")
<1>1. CASE a.flaw = "not_http"
  <2>1. Lead(a) = Unit("garbage") /\ Unit("garbage") \in ServerUnits
        /\ Unit("garbage").u = "garbage"
    BY <1>1, InServer, PlainUnit DEF Lead, PlainKinds
  <2> QED
    BY <2>1 DEF IsInterim
<1>2. CASE a.flaw # "not_http"
  <2>1. Lead(a) = HeadUnit(a.st, a.fr, a.n, a.flaw, a.coding)
    BY <1>2 DEF Lead
  <2>2. Lead(a) \in FinalHeads
    BY <2>1 DEF FinalHeads, HeadUnit, AnswerSpace
  <2> QED
    BY <2>2, FinalOnly DEF ServerUnits
<1> QED
  BY <1>1, <1>2

LEMMA AnswerIs ==
  ASSUME NEW a \in AnswerSpace
  PROVE  LET units == AnswerUnits(a)
             q == Len(a.interim)
             b == BodyUnitsOf(a)
         IN  /\ units \in Seq(ServerUnits) /\ q \in Nat
             /\ Len(units) = q + 1 + Len(b)
             /\ \A i \in 1..q : units[i] = InterimUnit(a.interim[i])
             /\ \A i \in 1..q : units[i] \in InterimHeads
             /\ units[q + 1] = Lead(a)
             /\ \A i \in 1..Len(b) : units[q + 1 + i] = b[i]
<1> DEFINE x == [i \in DOMAIN a.interim |-> InterimUnit(a.interim[i])]
           l == <<Lead(a)>>
           b == BodyUnitsOf(a)
           q == Len(a.interim)
<1>1. a.interim \in Seq({100, 103})
  BY DEF AnswerSpace
<1>2. q \in Nat /\ DOMAIN a.interim = 1..q /\ \A i \in 1..q : a.interim[i] \in {100, 103}
  BY <1>1, LenProperties, ElementOfSeq
<1>3. \A i \in 1..q : InterimUnit(a.interim[i]) \in InterimHeads
  BY <1>2 DEF InterimHeads
<1>4. x \in [1..q -> InterimHeads] /\ x = [i \in 1..q |-> InterimUnit(a.interim[i])]
  BY <1>2, <1>3
<1>5. x \in Seq(InterimHeads) /\ Len(x) = q
      /\ \A i \in 1..q : x[i] = InterimUnit(a.interim[i]) /\ x[i] \in InterimHeads
  BY <1>2, <1>3, <1>4, SeqDef
<1>6. x \in Seq(ServerUnits)
  BY <1>5, SeqMonotonic DEF ServerUnits
<1>7. l \in Seq(ServerUnits) /\ Len(l) = 1 /\ l[1] = Lead(a)
  BY LeadIs
<1>8. b \in Seq(ServerUnits)
  BY BodyContent, SeqMonotonic, ContentUnit
<1>9. Len(b) \in Nat
  BY <1>8, LenProperties
<1> HIDE DEF x, l, b, q
<1> DEFINE xl == x \o l
<1>17. l \in Seq(ServerUnits)
  BY <1>7
<1>10. xl \in Seq(ServerUnits) /\ Len(xl) = Len(x) + Len(l)
       /\ (\A i \in 1..Len(x) : xl[i] = x[i])
       /\ (\A i \in 1..Len(l) : xl[Len(x) + i] = l[i])
  BY <1>6, <1>17, Joined
<1> HIDE DEF xl
<1> DEFINE u == xl \o b
<1>11. xl \in Seq(ServerUnits)
  BY <1>10
<1>12. u \in Seq(ServerUnits) /\ Len(u) = Len(xl) + Len(b)
       /\ (\A i \in 1..Len(xl) : u[i] = xl[i])
       /\ (\A i \in 1..Len(b) : u[Len(xl) + i] = b[i])
  BY <1>8, <1>11, Joined
<1>13. AnswerUnits(a) = u
  BY DEF AnswerUnits, u, xl, x, l, b
<1> HIDE DEF u
<1>14. Len(xl) = q + 1
  BY <1>5, <1>7, <1>10
<1>15. \A i \in 1..q : u[i] = InterimUnit(a.interim[i]) /\ u[i] \in InterimHeads
  <2> TAKE i \in 1..q
  <2>1. i \in 1..Len(xl) /\ i \in 1..Len(x)
    BY <1>2, <1>5, <1>14
  <2> QED
    BY <1>5, <1>10, <1>12, <2>1
<1>16. u[q + 1] = Lead(a)
  <2>1. q + 1 \in 1..Len(xl) /\ 1 \in 1..Len(l) /\ Len(x) + 1 = q + 1
    BY <1>2, <1>5, <1>7, <1>14
  <2>2. xl[Len(x) + 1] = l[1]
    BY <1>10, <2>1
  <2>3. u[q + 1] = xl[q + 1]
    BY <1>12, <2>1
  <2> QED
    BY <1>7, <2>1, <2>2, <2>3
<1> QED
  BY <1>2, <1>12, <1>13, <1>14, <1>15, <1>16 DEF q, b

(* Behind units of which none is a final header block, what is sent of an  *)
(* answer is the only thing to be told of.                                 *)
Only(s, a) ==
  \A i \in 1..Len(s) :
    s[i] \in FinalHeads => s[i] = Lead(a) /\ Begins(Behind(s, i), BodyUnitsOf(a))

LEMMA SentOnly ==
  ASSUME NEW a \in AnswerSpace, NEW before \in Seq(ServerUnits),
         \A i \in 1..Len(before) : before[i] \notin FinalHeads
  PROVE  LET s == before \o SentUnits(a)
         IN  /\ s \in Seq(ServerUnits)
             /\ Only(s, a)
             /\ a.sent > Len(a.interim) => \E i \in 1..Len(s) : s[i] = Lead(a)
<1> DEFINE units == AnswerUnits(a)
           q == Len(a.interim)
           b == BodyUnitsOf(a)
           k == IF a.sent < Len(units) THEN a.sent ELSE Len(units)
           v == SubSeq(units, 1, k)
           s == before \o v
           d == Len(before)
<1>1. /\ units \in Seq(ServerUnits) /\ q \in Nat /\ Len(units) = q + 1 + Len(b)
      /\ \A i \in 1..q : units[i] \in InterimHeads
      /\ units[q + 1] = Lead(a)
      /\ \A i \in 1..Len(b) : units[q + 1 + i] = b[i]
  BY AnswerIs
<1>2. b \in Seq(ContentUnits) /\ Len(b) \in Nat /\ \A i \in 1..Len(b) : b[i] \notin FinalHeads
  BY BodyContent, LenProperties, ElementOfSeq, ContentUnit
<1>3. a.sent \in Nat /\ d \in Nat
  BY LenProperties DEF AnswerSpace
<1> HIDE DEF units, q, b, d
<1>4. k \in Nat /\ k \in Int /\ k <= Len(units) /\ (a.sent > q => k >= q + 1)
  BY <1>1, <1>2, <1>3
<1> HIDE DEF k
<1>5. /\ v \in Seq(ServerUnits)
      /\ Len(v) = IF 1 <= k THEN k ELSE 0
      /\ \A i \in 1..Len(v) : i \in 1..Len(units) /\ v[i] = units[i]
  BY <1>1, <1>4, FirstOf
<1>6. Len(v) = k
  BY <1>4, <1>5
<1>7. SentUnits(a) = v
  BY DEF SentUnits, v, k, units
<1> HIDE DEF v
<1>8. v \in Seq(ServerUnits)
  BY <1>5
<1>9. /\ s \in Seq(ServerUnits) /\ Len(s) = Len(before) + Len(v)
      /\ \A i \in 1..Len(before) : s[i] = before[i]
      /\ \A i \in 1..Len(v) : s[Len(before) + i] = v[i]
  BY <1>8, Joined
<1> HIDE DEF s
<1>10. Len(s) = d + k /\ \A j \in 1..k : s[d + j] = units[j]
  BY <1>5, <1>6, <1>9 DEF d
<1>11. ASSUME NEW i \in 1..Len(s), s[i] \in FinalHeads
       PROVE  i = d + (q + 1) /\ q + 1 <= k
  <2>1. i > d
    BY <1>3, <1>9, <1>11 DEF d
  <2> DEFINE j == i - d
  <2>2. j \in 1..k /\ i = d + j
    BY <1>3, <1>4, <1>10, <2>1
  <2> HIDE DEF j
  <2>3. units[j] \in FinalHeads
    BY <1>10, <1>11, <2>2
  <2>4. j \notin 1..q
    <3>1. \A x \in InterimHeads : x \notin FinalHeads
      BY DEF InterimHeads, InterimUnit, HeadUnit, FinalHeads
    <3> QED
      BY <1>1, <2>3, <3>1
  <2>5. ~(j > q + 1)
    <3> SUFFICES ASSUME j > q + 1
                 PROVE  FALSE
      OBVIOUS
    <3> DEFINE e == j - (q + 1)
    <3>1. e \in 1..Len(b) /\ q + 1 + e = j
      BY <1>1, <1>2, <1>4, <2>2
    <3> HIDE DEF e
    <3>2. units[j] = b[e]
      BY <1>1, <3>1
    <3> QED
      BY <1>2, <2>3, <3>1, <3>2
  <2>6. j = q + 1
    BY <1>1, <2>2, <2>4, <2>5
  <2> QED
    BY <1>4, <2>2, <2>6
<1>12. ASSUME q + 1 <= k
       PROVE  /\ d + (q + 1) \in 1..Len(s)
              /\ s[d + (q + 1)] = Lead(a)
              /\ Begins(Behind(s, d + (q + 1)), b)
  <2> DEFINE p == d + (q + 1)
             r == Behind(s, p)
  <2>1. p \in 1..Len(s) /\ p \in Nat /\ q + 1 \in 1..k
    BY <1>1, <1>3, <1>4, <1>10, <1>12
  <2>2. s[p] = Lead(a)
    BY <1>1, <1>10, <2>1
  <2>3. /\ r \in Seq(ServerUnits)
        /\ Len(r) = IF p <= Len(s) THEN Len(s) - p ELSE 0
        /\ \A j \in 1..Len(r) : p + j \in 1..Len(s) /\ r[j] = s[p + j]
    BY <1>9, <2>1, Rest DEF Behind
  <2>4. Len(r) = k - (q + 1) /\ Len(r) <= Len(b)
    BY <1>1, <1>2, <1>3, <1>4, <1>10, <2>1, <2>3
  <2> HIDE DEF r
  <2>5. ASSUME NEW j \in 1..Len(r)
        PROVE  r[j] = b[j]
    <3>1. /\ j \in 1..Len(b) /\ q + 1 + j \in 1..k
          /\ p + j = d + (q + 1 + j)
      BY <1>1, <1>2, <1>3, <1>4, <2>4
    <3>2. s[d + (q + 1 + j)] = units[q + 1 + j]
      BY <1>10, <3>1
    <3>3. units[q + 1 + j] = b[j]
      BY <1>1, <3>1
    <3>4. r[j] = s[p + j]
      BY <2>3
    <3> QED
      BY <3>1, <3>2, <3>3, <3>4
  <2> QED
    BY <2>1, <2>2, <2>4, <2>5 DEF Begins, r
<1>13. Only(s, a)
  <2> SUFFICES ASSUME NEW i \in 1..Len(s), s[i] \in FinalHeads
               PROVE  s[i] = Lead(a) /\ Begins(Behind(s, i), b)
    BY DEF Only, b
  <2>1. i = d + (q + 1) /\ q + 1 <= k
    BY <1>11
  <2> QED
    BY <1>12, <2>1
<1>14. a.sent > q => \E i \in 1..Len(s) : s[i] = Lead(a)
  BY <1>4, <1>12
<1> QED
  BY <1>7, <1>9, <1>13, <1>14 DEF s, q

(* An answer that begins with a 100 was meant to.                          *)
LEMMA SentFirst ==
  ASSUME NEW a \in AnswerSpace, SentUnits(a) # <<>>, SentUnits(a)[1] = InterimUnit(100)
  PROVE  a.interim # <<>> /\ a.interim[1] = 100
<1> DEFINE units == AnswerUnits(a)
           q == Len(a.interim)
           k == IF a.sent < Len(units) THEN a.sent ELSE Len(units)
<1>1. /\ units \in Seq(ServerUnits) /\ q \in Nat /\ Len(units) \in Nat
      /\ \A i \in 1..q : units[i] = InterimUnit(a.interim[i])
      /\ units[q + 1] = Lead(a)
  BY AnswerIs, LenProperties
<1>2. a.sent \in Nat /\ a.interim \in Seq({100, 103})
  BY DEF AnswerSpace
<1>3. k \in Nat /\ k \in Int /\ k <= Len(units)
  BY <1>1, <1>2
<1> DEFINE v == SubSeq(units, 1, k)
<1>4. SentUnits(a) = v
  BY DEF SentUnits
<1> HIDE DEF units, q, k
<1>5. /\ v \in Seq(ServerUnits)
      /\ \A i \in 1..Len(v) : i \in 1..Len(units) /\ v[i] = units[i]
  BY <1>1, <1>3, FirstOf
<1> HIDE DEF v
<1>6. units[1] = InterimUnit(100)
  BY <1>4, <1>5, EmptySeq, LenProperties
<1>7. q # 0
  <2> SUFFICES ASSUME q = 0
               PROVE  FALSE
    OBVIOUS
  <2>1. Lead(a) = InterimUnit(100)
    BY <1>1, <1>6
  <2>2. IsInterim(InterimUnit(100))
    BY DEF IsInterim, InterimUnit, HeadUnit
  <2> QED
    BY <2>1, <2>2, LeadIs
<1>8. InterimUnit(a.interim[1]) = InterimUnit(100)
  BY <1>1, <1>6, <1>7
<1> QED
  BY <1>2, <1>7, <1>8, EmptySeq DEF InterimUnit, HeadUnit, q
=============================================================================
