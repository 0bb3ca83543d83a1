---------------------------- MODULE TunnelProofs ----------------------------
(***************************************************************************)
(* Every step of Tunnel keeps TunnelInv, for any options and any replies   *)
(* of the proxy: which units are unread at which place of the CONNECT      *)
(* dialogue, which header blocks were kept, whether a drain has waited.    *)
(***************************************************************************)
EXTENDS Tunnel, WireProofs

ProxyHeads ==
  [u : {"head"}, st : {200, 403, 407}, ch : Seq({"basic", "digest", "ntlm", "t2"}),
   fr : {"none", "length", "chunked", "trailered", "closed"}]
ProxyUnits == Plain \union ProxyHeads

Reading == {"reply1", "reply2", "replyT1", "replyT3"}
Judging == {"drain1", "drop2", "type1", "dropT1", "type3", "verdict"}
ConnectPlaces == {"tunnel"} \union Reading \union Judging
SocksPlaces == {"socks", "socks_auth", "socks_request"}
TunnelPlaces == ConnectPlaces \union SocksPlaces
SocksVias == {"socks4", "socks4a", "socks5", "socks5h"}

(* At most one header block is unread, and nothing of an older reply       *)
(* stands before it if it comes first.                                     *)
OneHead(units) ==
  /\ units \in Seq(ProxyUnits)
  /\ \A i \in 2..Len(units) : units[1] \in ProxyHeads => units[i] \in Plain

TunnelTypes ==
  /\ opts \in OptionSets
  /\ tail \in {"open", "eof", "reset"}
  /\ heard \in Nat /\ mark \in Nat /\ connectResp \in 0..heard
  /\ pre \in BOOLEAN /\ offers \in BOOLEAN /\ waited \in BOOLEAN
  /\ reply \in ProxyHeads \union {NoStatus}
  /\ connects \in 0..4

(* The header blocks kept are those of all replies but the one in hand.    *)
Kept ==
  /\ Counts(acc, mark)
  /\ mark + Len(acc) <= heard
  /\ at \in {"tunnel", "tls"} \union Reading \union SocksPlaces
       => heard = mark + Len(acc)
  /\ at \in Judging =>
       heard = IF reply.st = 0 THEN mark + Len(acc) ELSE mark + Len(acc) + 1

Unread ==
  /\ at = "tunnel" => inbox = <<>> /\ tail = "open"
  /\ at = "reply1" => \E r \in ProxyReplies : inbox = ReplyUnits(r)
  /\ at = "drain1" => inbox = BodyUnits(reply.fr)
  /\ at = "reply2" =>
       inbox = <<>> \/ FirstIs({"head", "garbage"})
         \/ reply.fr \in {"trailered", "closed"}
  /\ at \in Reading => OneHead(inbox)
  /\ at \in Judging =>
       inbox \in Seq(ProxyUnits) /\ (reply.st # 0 => inbox \in Seq(Plain))
  /\ at \in SocksPlaces => inbox = <<>>
  /\ at = "tls" => inbox \in Seq(Plain)

Asked ==
  /\ at \in {"tunnel"} \union SocksPlaces => connects = 0
  /\ at \in {"reply1", "drain1"} => connects <= 1
  /\ at \in {"reply2", "drop2", "type1"} => connects <= 2
  /\ at \in {"replyT1", "dropT1", "type3"} => connects <= 3

(* No drain waits before the NTLM Type 1 message is sent.                  *)
Waits ==
  /\ at \in {"tunnel", "type3", "replyT1", "dropT1", "reply1", "drain1",
             "reply2", "drop2", "type1"} => ~waited
  /\ at = "type3" /\ Challenged /\ Deferred /\ offers => cred = "type1"
  /\ at = "dropT1" \/ at = "replyT1" => cred = "type1"
  /\ waited => opts.auth = "ntlm" \/ cred \in {"type1", "type3"}

Routed ==
  /\ at \in ConnectPlaces => opts.via = "tunnel"
  /\ at \in SocksPlaces => opts.via \in SocksVias
  /\ at \in {"socks_auth", "socks_request"} => opts.via \in {"socks5", "socks5h"}
  /\ at = "tls" /\ opts.via \in SocksVias /\ opts.host = "unknown"
       => told = "host" \/ opts.via = "socks4"

TunnelInv == TunnelTypes /\ Kept /\ Unread /\ Asked /\ Waits /\ Routed

----------------------------------------------------------------------------
(* What the proxy sends.                                                   *)
LEMMA BodyPlain ==
  ASSUME NEW fr \in {"none", "length", "chunked", "trailered", "closed"}
  PROVE  BodyUnits(fr) \in Seq(Plain)
<1>1. /\ Unit("data") \in Plain /\ Unit("size") \in Plain /\ Unit("sep") \in Plain
      /\ Unit("zero") \in Plain /\ Unit("blank") \in Plain
      /\ Unit("trailer") \in Plain
  BY PlainUnit DEF PlainKinds
<1>2. CASE fr = "none"
  BY <1>2, EmptySeq DEF BodyUnits
<1>3. CASE fr \in {"length", "closed"}
  BY <1>1, <1>3 DEF BodyUnits
<1>4. CASE fr = "chunked"
  BY <1>1, <1>4 DEF BodyUnits
<1>5. CASE fr = "trailered"
  BY <1>1, <1>5 DEF BodyUnits
<1> QED
  BY <1>2, <1>3, <1>4, <1>5

LEMMA NotBoth ==
  ASSUME NEW x \in ProxyUnits
  PROVE  /\ x \in Plain <=> x \notin ProxyHeads
         /\ x \in ProxyHeads <=> x.u = "head"
         /\ x \in Plain => x.u \in PlainKinds
BY DEF ProxyUnits, ProxyHeads, Plain, PlainKinds

LEMMA PlainIsProxy ==
  ASSUME NEW s \in Seq(Plain)
  PROVE  s \in Seq(ProxyUnits) /\ OneHead(s)
<1>1. s \in Seq(ProxyUnits)
  BY SeqMonotonic DEF ProxyUnits
<1>2. \A i \in 2..Len(s) : s[i] \in Plain
  BY LenProperties, ElementOfSeq
<1> QED
  BY <1>1, <1>2 DEF OneHead

(* A reply is nothing, a line that is no HTTP, or a head and its body.     *)
LEMMA ReplyShape ==
  ASSUME NEW r \in ProxyReplies
  PROVE  LET units == ReplyUnits(r)
         IN  /\ OneHead(units)
             /\ \/ units = <<>>
                \/ Len(units) = 1 /\ units[1].u = "garbage" /\ units[1] \in Plain
                \/ /\ Len(units) >= 1
                   /\ units[1] \in ProxyHeads
                   /\ SubSeq(units, 2, Len(units)) = BodyUnits(units[1].fr)
                   /\ units[1].fr \in {"none", "length", "chunked",
                                      "trailered", "closed"}
<1> DEFINE units == ReplyUnits(r)
<1>1. /\ r.st \in {0, NotHttp, 200, 403, 407}
      /\ r.ch \in Seq({"basic", "digest", "ntlm", "t2"})
      /\ r.fr \in {"none", "length", "chunked", "trailered", "closed"}
  BY TunnelAssumption DEF Replies
<1>2. CASE r.st = 0
  <2>1. units = <<>> /\ <<>> \in Seq(Plain)
    BY <1>2, EmptySeq DEF ReplyUnits, NotHttp
  <2> QED
    BY <2>1, PlainIsProxy
<1>3. CASE r.st = NotHttp
  <2>1. units = <<Unit("garbage")>> /\ Unit("garbage") \in Plain
    BY <1>3, PlainUnit DEF ReplyUnits, NotHttp, PlainKinds
  <2>2. units \in Seq(Plain) /\ Len(units) = 1 /\ units[1] = Unit("garbage")
    BY <2>1
  <2> QED
    BY <2>1, <2>2, PlainIsProxy, PlainUnit DEF PlainKinds
<1>4. CASE r.st \in {200, 403, 407}
  <2> DEFINE h == [u |-> "head", st |-> r.st, ch |-> r.ch, fr |-> r.fr]
             b == BodyUnits(r.fr)
  <2>1. units = <<h>> \o b
    BY <1>4 DEF ReplyUnits, NotHttp
  <2>2. h \in ProxyHeads /\ h.fr = r.fr
    BY <1>1, <1>4 DEF ProxyHeads
  <2>3. b \in Seq(Plain) /\ b \in Seq(ProxyUnits)
    BY <1>1, BodyPlain, PlainIsProxy
  <2> HIDE DEF h, b, units
  <2>4. <<h>> \in Seq(ProxyUnits) /\ Len(<<h>>) = 1 /\ <<h>>[1] = h
    BY <2>2 DEF ProxyUnits
  <2>5. /\ units \in Seq(ProxyUnits)
        /\ Len(units) = 1 + Len(b)
        /\ \A i \in 1..(1 + Len(b)) : units[i] = IF i <= 1 THEN <<h>>[i] ELSE b[i - 1]
    BY <2>1, <2>3, <2>4, ConcatProperties
  <2>6. Len(b) \in Nat /\ \A i \in 1..Len(b) : b[i] \in Plain
    BY <2>3, LenProperties, ElementOfSeq
  <2>7. units[1] = h /\ \A i \in 2..Len(units) : units[i] \in Plain
    BY <2>4, <2>5, <2>6
  <2>8. SubSeq(units, 2, Len(units)) = b
    <3> DEFINE t == SubSeq(units, 2, Len(units))
    <3>1. /\ t \in Seq(ProxyUnits) /\ Len(t) = Len(b)
          /\ \A i \in 1..Len(t) : t[i] = units[1 + i] /\ 1 + i \in 1..Len(units)
      BY <2>5, <2>6, Rest
    <3> HIDE DEF t
    <3>2. \A i \in 1..Len(t) : t[i] = b[i]
      BY <2>5, <2>6, <3>1
    <3> QED
      BY <2>3, <3>1, <3>2, SeqEqual DEF t
  <2> QED
    BY <1>1, <2>2, <2>5, <2>6, <2>7, <2>8 DEF OneHead, b, units, h
<1> QED
  BY <1>1, <1>2, <1>3, <1>4

LEMMA ReplyBehind ==
  ASSUME NEW rest \in Seq(Plain), NEW r \in ProxyReplies
  PROVE  OneHead(rest \o ReplyUnits(r))
<1> DEFINE s == rest \o ReplyUnits(r)
<1>1. OneHead(ReplyUnits(r)) /\ ReplyUnits(r) \in Seq(ProxyUnits)
  BY ReplyShape DEF OneHead
<1>2. rest \in Seq(ProxyUnits)
  BY PlainIsProxy
<1>3. CASE rest = <<>>
  BY <1>1, <1>3, ConcatEmptySeq
<1>4. CASE rest # <<>>
  <2>1. Len(rest) \in Nat \ {0} /\ rest[1] \in Plain
    BY <1>4, EmptySeq, ElementOfSeq
  <2>2. Len(ReplyUnits(r)) \in Nat
    BY <1>1, LenProperties
  <2>3. s \in Seq(ProxyUnits) /\ s[1] = rest[1]
    BY <1>1, <1>2, <2>1, <2>2, ConcatProperties
  <2> QED
    BY <2>1, <2>3, NotBoth DEF OneHead, ProxyUnits
<1> QED
  BY <1>3, <1>4

----------------------------------------------------------------------------
(* Draining the body that belongs to the reply never waits, and leaves     *)
(* nothing but the line after chunk trailers.                              *)
LEMMA LeastLine ==
  ASSUME NEW units, Len(units) \in Nat, 4 <= Len(units), units[1].u = "size",
         units[4].u = "zero"
  PROVE  Min({i \in SizeLines(units) : NoSize(units, i)}) = 4
<1> DEFINE S == {i \in SizeLines(units) : NoSize(units, i)}
<1>1. 4 \in S
  <2>1. 4 = 3 * 1 + 1 /\ 1 \in 0..Len(units)
    OBVIOUS
  <2>2. 4 \in SizeLines(units)
    BY <2>1 DEF SizeLines
  <2> QED
    BY <2>2 DEF NoSize
<1>2. ASSUME NEW i \in S
      PROVE  4 <= i /\ i \in Nat
  <2>1. PICK j \in 0..Len(units) : i = 3 * j + 1
    BY DEF SizeLines
  <2>2. i # 1
    BY <2>1 DEF NoSize
  <2> QED
    BY <2>1, <2>2
<1> HIDE DEF S
<1>3. Min(S) = CHOOSE x \in S : \A y \in S : x <= y
  BY DEF Min
<1>4. Min(S) \in S /\ \A y \in S : Min(S) <= y
  BY <1>1, <1>2, <1>3
<1>5. Min(S) = 4
  BY <1>1, <1>2, <1>4
<1> QED
  BY <1>5 DEF S

LEMMA ChunksEndAt ==
  ASSUME NEW units, Len(units) \in Nat, 4 < Len(units), units[1].u = "size",
         units[4].u = "zero"
  PROVE  ChunksEnd(units) = [gone |-> 5, short |-> FALSE]
<1> DEFINE end == Min({i \in SizeLines(units) : NoSize(units, i)})
<1>1. end = 4
  BY LeastLine
<1>2. ASSUME NEW n \in Nat, 4 < n
      PROVE  ~(4 > n) /\ 4 # n /\ 4 + 1 = 5
  BY <1>2
<1>3. /\ ~(4 > Len(units)) /\ 4 # Len(units) /\ 4 < Len(units) /\ 4 + 1 = 5
      /\ units[4].u \in {"zero", "data"}
  BY <1>2, Zenon
<1> HIDE DEF end
<1>4. ChunksEnd(units) = [gone |-> end + 1, short |-> FALSE]
  BY <1>1, <1>3 DEF ChunksEnd, end
<1> QED
  BY <1>1, <1>3, <1>4

LEMMA DrainedAt ==
  ASSUME NEW units, NEW k \in Nat, DrainEnd(units) = [gone |-> k, short |-> FALSE]
  PROVE  Drained(units) = SubSeq(units, k + 1, Len(units)) /\ ~DrainWaits(units)
BY DEF Drained, DrainWaits

LEMMA DrainsItsBody ==
  ASSUME reply.fr \in {"none", "length", "chunked", "trailered", "closed"}
  PROVE  LET units == BodyUnits(reply.fr)
         IN  /\ ~DrainWaits(units)
             /\ Drained(units) = CASE reply.fr = "trailered" -> <<Unit("blank")>>
                                  [] reply.fr = "closed" -> <<Unit("data")>>
                                  [] OTHER -> <<>>
<1>1. CASE reply.fr = "none"
  <2>1. BodyUnits(reply.fr) = <<>> /\ DrainEnd(<<>>) = [gone |-> 0, short |-> FALSE]
    BY <1>1 DEF BodyUnits, DrainEnd
  <2> QED
    BY <1>1, <2>1, EmptyRest, DrainedAt
<1>2. CASE reply.fr = "length"
  <2> DEFINE units == <<Unit("data")>>
  <2>1. BodyUnits(reply.fr) = units
    BY <1>2 DEF BodyUnits
  <2>2. units # <<>> /\ Len(units) = 1
    OBVIOUS
  <2>3. DrainEnd(units) = [gone |-> 1, short |-> FALSE]
    BY <1>2, <2>2 DEF DrainEnd
  <2>4. SubSeq(units, 1 + 1, 1) = <<>>
    BY SubSeqEmpty
  <2> HIDE DEF units
  <2> QED
    BY <1>2, <2>1, <2>2, <2>3, <2>4, DrainedAt
<1>3. CASE reply.fr = "chunked"
  <2> DEFINE units == <<Unit("size"), Unit("data"), Unit("sep"), Unit("zero"),
                        Unit("blank")>>
  <2>1. BodyUnits(reply.fr) = units
    BY <1>3 DEF BodyUnits
  <2>2. Len(units) = 5 /\ Len(units) \in Nat /\ 4 < Len(units) /\ units[1].u = "size" /\ units[4].u = "zero"
    BY DEF Unit
  <2>3. SubSeq(units, 5 + 1, 5) = <<>>
    BY SubSeqEmpty
  <2> HIDE DEF units
  <2>4. DrainEnd(units) = ChunksEnd(units)
    BY <1>3 DEF DrainEnd
  <2>5. ChunksEnd(units) = [gone |-> 5, short |-> FALSE]
    BY <2>2, ChunksEndAt
  <2> QED
    BY <1>3, <2>1, <2>2, <2>3, <2>4, <2>5, DrainedAt
<1>4. CASE reply.fr = "trailered"
  <2> DEFINE units == <<Unit("size"), Unit("data"), Unit("sep"), Unit("zero"),
                        Unit("trailer"), Unit("blank")>>
  <2>1. BodyUnits(reply.fr) = units
    BY <1>4 DEF BodyUnits
  <2>2. Len(units) = 6 /\ Len(units) \in Nat /\ 4 < Len(units) /\ units[1].u = "size" /\ units[4].u = "zero"
    BY DEF Unit
  <2>3. SubSeq(units, 5 + 1, 6) = <<Unit("blank")>>
    <3> DEFINE t == SubSeq(units, 5 + 1, 6)
    <3>1. Unit("blank") \in Plain /\ units[6] = Unit("blank")
      BY PlainUnit DEF PlainKinds
    <3>2. \A i \in (5 + 1)..6 : units[i] \in Plain
      BY <3>1
    <3> HIDE DEF units
    <3>3. t \in Seq(Plain) /\ Len(t) = 1 /\ t[1] = units[6]
      BY <3>2, SubSeqProperties
    <3> HIDE DEF t
    <3>4. <<Unit("blank")>> \in Seq(Plain) /\ Len(<<Unit("blank")>>) = 1
      BY <3>1
    <3>5. \A i \in 1..Len(t) : t[i] = <<Unit("blank")>>[i]
      BY <3>1, <3>3
    <3> QED
      BY <3>3, <3>4, <3>5, SeqEqual DEF t
  <2> HIDE DEF units
  <2>4. DrainEnd(units) = ChunksEnd(units)
    BY <1>4 DEF DrainEnd
  <2>5. ChunksEnd(units) = [gone |-> 5, short |-> FALSE]
    BY <2>2, ChunksEndAt
  <2> QED
    BY <1>4, <2>1, <2>2, <2>3, <2>4, <2>5, DrainedAt
<1>5. CASE reply.fr = "closed"
  <2> DEFINE units == <<Unit("data")>>
  <2>1. BodyUnits(reply.fr) = units /\ Len(units) = 1
    BY <1>5 DEF BodyUnits
  <2>2. DrainEnd(units) = [gone |-> 0, short |-> FALSE]
    BY <1>5 DEF DrainEnd
  <2>3. SubSeq(units, 0 + 1, 1) = units
    <3> DEFINE t == SubSeq(units, 0 + 1, 1)
    <3>1. Unit("data") \in Plain /\ units[1] = Unit("data")
      BY PlainUnit DEF PlainKinds
    <3>2. \A i \in (0 + 1)..1 : units[i] \in Plain
      BY <3>1
    <3>3. units \in Seq(Plain) /\ Len(units) = 1
      BY <3>1
    <3> HIDE DEF units
    <3>4. t \in Seq(Plain) /\ Len(t) = 1 /\ t[1] = units[1]
      BY <3>2, SubSeqProperties
    <3> HIDE DEF t
    <3>5. \A i \in 1..Len(t) : t[i] = units[i]
      BY <3>4
    <3> QED
      BY <3>3, <3>4, <3>5, SeqEqual DEF t
  <2> HIDE DEF units
  <2>4. Drained(units) = units /\ ~DrainWaits(units)
    BY <2>1, <2>2, <2>3, DrainedAt
  <2> QED
    BY <1>5, <2>1, <2>4 DEF units
<1> QED
  BY <1>1, <1>2, <1>3, <1>4, <1>5

----------------------------------------------------------------------------
(* The two things done over and over: sending a CONNECT, reading a reply.  *)
Sent(c, rest, next) ==
  /\ cred' = c
  /\ connects' = connects + 1
  /\ tail' \in {"open", "eof", "reset"}
  /\ at' = next \/ at' = "done"
  /\ OneHead(inbox')
  /\ tail = "open" =>
       at' = next /\ \E r \in ProxyReplies : inbox' = rest \o ReplyUnits(r)
  /\ tail # "open" => inbox' = rest

LEMMA Sends ==
  ASSUME NEW c, NEW rest \in Seq(Plain), NEW next \in Reading, TunnelTypes,
         SendConnect(c, rest, next)
  PROVE  Sent(c, rest, next)
<1>1. CASE tail = "open"
  <2>1. PICK r \in ProxyReplies :
          /\ at' = next /\ inbox' = rest \o ReplyUnits(r) /\ tail' = r.after
    BY <1>1 DEF SendConnect
  <2>2. r.after \in {"open", "eof", "reset"} /\ OneHead(rest \o ReplyUnits(r))
    BY ReplyBehind, TunnelAssumption DEF Replies
  <2> QED
    BY <1>1, <2>1, <2>2 DEF SendConnect, Sent
<1>2. CASE tail # "open"
  BY <1>2, PlainIsProxy DEF SendConnect, Fails, TunnelTypes, Sent
<1> QED
  BY <1>1, <1>2

ReadsHead(next) ==
  /\ at' = next
  /\ inbox # <<>> /\ inbox[1].u = "head"
  /\ reply' = inbox[1] /\ reply' \in ProxyHeads
  /\ inbox' = SubSeq(inbox, 2, Len(inbox)) /\ inbox' \in Seq(Plain)
  /\ heard' = heard + 1

ReadsNothing(next) ==
  /\ at' = next
  /\ inbox = <<>> \/ FirstIs({"sep", "blank"})
  /\ reply' = NoStatus
  /\ inbox' = SubSeq(inbox, 2, Len(inbox)) /\ inbox' \in Seq(ProxyUnits)
  /\ heard' = heard

ReadsBadly == at' = "done" /\ UNCHANGED <<reply, heard, inbox>>

LEMMA Reads ==
  ASSUME NEW next \in Judging, OneHead(inbox), ReadReply(next)
  PROVE  ReadsHead(next) \/ ReadsNothing(next) \/ ReadsBadly
<1> DEFINE t == SubSeq(inbox, 2, Len(inbox))
<1>1. /\ t \in Seq(ProxyUnits)
      /\ \A i \in 1..Len(t) : 1 + i \in 2..Len(inbox) /\ t[i] = inbox[1 + i]
  <2>1. inbox \in Seq(ProxyUnits) /\ t = SubSeq(inbox, 1 + 1, Len(inbox))
    BY DEF OneHead
  <2> HIDE DEF t
  <2>2. /\ t \in Seq(ProxyUnits)
        /\ \A i \in 1..Len(t) : 1 + i \in 1..Len(inbox) /\ t[i] = inbox[1 + i]
    BY <2>1, Rest
  <2>3. Len(t) \in Nat
    BY <2>2, LenProperties
  <2> QED
    BY <2>2, <2>3
<1>2. Skip(1) => inbox' = t
  BY DEF Skip
<1>3. CASE FirstIs({"head"}) /\ reply' = inbox[1] /\ heard' = heard + 1
           /\ Skip(1) /\ at' = next
  <2>1. inbox # <<>> /\ inbox[1].u = "head"
    BY <1>3 DEF FirstIs
  <2>2. inbox[1] \in ProxyHeads
    <3>1. inbox[1] \in ProxyUnits
      BY <2>1, EmptySeq, ElementOfSeq DEF OneHead
    <3> QED
      BY <2>1, <3>1, NotBoth
  <2>3. t \in Seq(Plain)
    <3> HIDE DEF t
    <3> QED
      BY <1>1, <2>2, SequenceTyped DEF OneHead
  <2> QED
    BY <1>2, <1>3, <2>1, <2>2, <2>3 DEF ReadsHead
<1>4. CASE (FirstIs({"sep", "blank"}) \/ (inbox = <<>> /\ tail = "eof"))
           /\ reply' = NoStatus /\ Skip(1) /\ at' = next
           /\ UNCHANGED <<heard, error>>
  BY <1>1, <1>2, <1>4 DEF ReadsNothing
<1>5. CASE at' = "done" /\ UNCHANGED <<reply, heard, inbox>>
  BY <1>5 DEF ReadsBadly
<1> QED
  BY <1>3, <1>4, <1>5, Zenon DEF ReadReply, Fails

----------------------------------------------------------------------------
(* Reading a reply, as a step: what is known wherever it leads.            *)
ReadOn(next) ==
  /\ TunnelTypes' /\ Kept'
  /\ at' = next \/ at' = "done"
  /\ at' = next => inbox' \in Seq(ProxyUnits)
  /\ at' = next /\ reply'.st # 0 => inbox' \in Seq(Plain)

LEMMA ReadsOn ==
  ASSUME NEW next \in Judging, TunnelInv, at \in Reading, ReadReply(next),
         UNCHANGED <<opts, tail, acc, mark, connectResp, pre, offers, connects,
                     waited>>
  PROVE  ReadOn(next)
<1>1. TunnelTypes /\ Kept /\ OneHead(inbox)
  BY DEF TunnelInv, Unread
<1>2. heard = mark + Len(acc) /\ Len(acc) \in Nat /\ mark \in Nat
  BY <1>1, CountsBetween DEF Kept, TunnelTypes, Reading
<1>3. next \notin {"done", "tunnel", "tls"} \union Reading \union SocksPlaces
  BY DEF Judging, Reading, SocksPlaces
<1>4. CASE ReadsHead(next)
  <2>1. reply'.st # 0 /\ reply' \in ProxyHeads /\ heard' = heard + 1 /\ at' = next
    BY <1>4 DEF ReadsHead, ProxyHeads
  <2>2. TunnelTypes'
    BY <1>1, <2>1 DEF TunnelTypes
  <2>3. Kept'
    BY <1>1, <1>2, <1>3, <2>1 DEF Kept
  <2>4. inbox' \in Seq(Plain) /\ inbox' \in Seq(ProxyUnits)
    BY <1>4, PlainIsProxy DEF ReadsHead
  <2> QED
    BY <2>1, <2>2, <2>3, <2>4 DEF ReadOn
<1>5. CASE ReadsNothing(next)
  <2>1. reply'.st = 0 /\ reply' = NoStatus /\ heard' = heard /\ at' = next
    BY <1>5 DEF ReadsNothing, NoStatus
  <2>2. TunnelTypes'
    BY <1>1, <2>1 DEF TunnelTypes
  <2>3. Kept'
    BY <1>1, <1>2, <1>3, <2>1 DEF Kept
  <2> QED
    BY <1>5, <2>1, <2>2, <2>3 DEF ReadsNothing, ReadOn
<1>6. CASE ReadsBadly
  <2>1. at' = "done" /\ reply' = reply /\ heard' = heard
    BY <1>6 DEF ReadsBadly
  <2>2. "done" \notin {"tunnel", "tls"} \union Reading \union SocksPlaces \union Judging
    BY DEF Reading, SocksPlaces, Judging
  <2>3. TunnelTypes'
    BY <1>1, <2>1 DEF TunnelTypes
  <2>4. Kept'
    BY <1>1, <1>2, <2>1, <2>2 DEF Kept
  <2> QED
    BY <1>3, <2>1, <2>3, <2>4 DEF ReadOn
<1> QED
  BY <1>1, <1>4, <1>5, <1>6, Reads

(* Sending a CONNECT when the reply in hand, if any, has been kept.        *)
SentOn(next) ==
  /\ TunnelTypes' /\ Kept'
  /\ at' = next \/ at' = "done"
  /\ OneHead(inbox')

LEMMA SendsOn ==
  ASSUME NEW c, NEW rest \in Seq(Plain), NEW next \in Reading, TunnelInv,
         SendConnect(c, rest, next), connects <= 3,
         \/ acc' = acc /\ at = "tunnel"
         \/ acc' = Append(acc, heard) /\ at \in Judging /\ reply.st # 0,
         waited' \in BOOLEAN, offers' \in BOOLEAN,
         UNCHANGED <<opts, heard, reply, mark, connectResp, pre>>
  PROVE  SentOn(next)
<1>1. TunnelTypes /\ Kept
  BY DEF TunnelInv
<1>2. Len(acc) \in Nat /\ mark \in Nat /\ Counts(acc, mark)
  BY <1>1, CountsBetween DEF Kept, TunnelTypes
<1>3. /\ connects' = connects + 1 /\ tail' \in {"open", "eof", "reset"}
      /\ at' = next \/ at' = "done"
      /\ OneHead(inbox')
  BY <1>1, Sends DEF Sent
<1>4. TunnelTypes'
  BY <1>1, <1>3 DEF TunnelTypes
<1>5. Counts(acc', mark) /\ heard = mark + Len(acc')
  <2>1. CASE acc' = acc /\ at = "tunnel"
    BY <1>1, <1>2, <2>1 DEF Kept
  <2>2. CASE acc' = Append(acc, heard) /\ at \in Judging /\ reply.st # 0
    <3>1. heard = mark + Len(acc) + 1
      BY <1>1, <2>2 DEF Kept
    <3> QED
      BY <1>2, <2>2, <3>1, CountsOn
  <2> QED
    BY <2>1, <2>2
<1>6. at' \notin Judging
  BY <1>3 DEF Judging, Reading
<1>7. Kept'
  BY <1>1, <1>2, <1>5, <1>6 DEF Kept, TunnelTypes
<1> QED
  BY <1>3, <1>4, <1>7 DEF SentOn

(* Where no reader is and no reply is awaited, little is asked.            *)
Places == Reading \union Judging \union SocksPlaces \union {"tunnel", "tls"}

LEMMA Elsewhere ==
  ASSUME at' \notin Places, waited' => opts'.auth = "ntlm" \/ cred' \in {"type1", "type3"}
  PROVE  Unread' /\ Asked' /\ Waits' /\ Routed'
<1>1. Unread' /\ Asked'
  BY DEF Places, Unread, Asked, Reading, Judging, SocksPlaces
<1>2. Waits' /\ Routed'
  BY DEF Places, Waits, Routed, Reading, Judging, SocksPlaces, ConnectPlaces
<1> QED
  BY <1>1, <1>2

LEMMA KeptOn ==
  ASSUME Kept, at \in Judging, at' \in Judging, UNCHANGED <<heard, reply, acc, mark>>
  PROVE  Kept'
BY DEF Kept, Judging, Reading, SocksPlaces

LEMMA ConnectFirstKeeps ==
  ASSUME TunnelInv, ConnectFirst
  PROVE  TunnelInv'
<1>1. /\ at = "tunnel" /\ inbox = <<>> /\ tail = "open" /\ connects = 0 /\ ~waited
      /\ opts.via = "tunnel"
  BY DEF TunnelInv, ConnectFirst, Unread, Asked, Waits, Routed, ConnectPlaces
<1>2. inbox \in Seq(Plain) /\ "reply1" \in Reading
  BY <1>1, EmptySeq DEF Reading
<1>3. /\ SendConnect(FirstCredentials, inbox, "reply1") /\ connects <= 3
      /\ acc' = acc /\ waited' \in BOOLEAN /\ offers' \in BOOLEAN /\ TunnelTypes
      /\ UNCHANGED <<opts, heard, reply, mark, connectResp, pre>>
  BY <1>1 DEF ConnectFirst, TunnelInv, TunnelTypes
<1>4. SentOn("reply1")
  BY <1>1, <1>2, <1>3, SendsOn
<1>5. /\ connects' = connects + 1 /\ at' = "reply1"
      /\ \E r \in ProxyReplies : inbox' = inbox \o ReplyUnits(r)
  <2>1. Sent(FirstCredentials, inbox, "reply1")
    BY <1>2, <1>3, Sends
  <2> QED
    BY <1>1, <2>1 DEF Sent
<1>6. \E r \in ProxyReplies : inbox' = ReplyUnits(r)
  BY <1>1, <1>5, ReplyShape, ConcatEmptySeq DEF OneHead
<1>7. Unread' /\ Asked'
  BY <1>1, <1>4, <1>5, <1>6
  DEF SentOn, Unread, Asked, Reading, Judging, SocksPlaces
<1>8. Waits' /\ Routed'
  BY <1>1, <1>5 DEF ConnectFirst, Waits, Routed, Reading, Judging, SocksPlaces,
                     ConnectPlaces
<1> QED
  BY <1>4, <1>7, <1>8 DEF SentOn, TunnelInv

LEMMA ReadFirstKeeps ==
  ASSUME TunnelInv, ReadFirst
  PROVE  TunnelInv'
<1>1. /\ at = "reply1" /\ connects <= 1 /\ ~waited /\ opts.via = "tunnel"
      /\ OneHead(inbox) /\ ReadReply("drain1")
  BY DEF TunnelInv, ReadFirst, Unread, Asked, Waits, Routed, ConnectPlaces, Reading
<1>2. /\ "drain1" \in Judging /\ at \in Reading
      /\ UNCHANGED <<opts, tail, acc, mark, connectResp, pre, offers, connects, waited>>
  BY <1>1 DEF ReadFirst, Judging, Reading
<1>3. ReadOn("drain1")
  BY <1>1, <1>2, ReadsOn
<1>4. CASE at' = "done"
  <2>1. at' \notin Places /\ ~waited'
    BY <1>1, <1>4 DEF ReadFirst, Places, Reading, Judging, SocksPlaces
  <2> QED
    BY <1>3, <2>1, Elsewhere DEF TunnelInv, ReadOn
<1>5. CASE at' = "drain1"
  <2>1. inbox' = BodyUnits(reply'.fr)
    <3>1. PICK r \in ProxyReplies : inbox = ReplyUnits(r)
      BY <1>1 DEF TunnelInv, Unread
    <3>2. CASE ReadsHead("drain1")
      <4>1. inbox # <<>> /\ inbox[1].u = "head" /\ reply' = inbox[1]
            /\ inbox' = SubSeq(inbox, 2, Len(inbox))
        BY <3>2 DEF ReadsHead
      <4> QED
        BY <3>1, <4>1, ReplyShape
    <3>3. CASE ReadsNothing("drain1")
      <4>1. /\ inbox = <<>> \/ (inbox # <<>> /\ inbox[1].u \in {"sep", "blank"})
            /\ reply' = NoStatus /\ inbox' = SubSeq(inbox, 2, Len(inbox))
        BY <3>3 DEF ReadsNothing, FirstIs
      <4>2. inbox = <<>>
        BY <3>1, <4>1, ReplyShape, NotBoth DEF ProxyUnits
      <4>3. inbox' = <<>>
        BY <4>1, <4>2, EmptyRest
      <4> QED
        BY <4>1, <4>3 DEF NoStatus, BodyUnits
    <3> QED
      BY <1>1, <1>2, <1>5, <3>2, <3>3, Reads DEF ReadsBadly
  <2>2. Unread' /\ Asked'
    BY <1>1, <1>3, <1>5, <2>1 DEF ReadFirst, ReadOn, Unread, Asked, Reading, Judging,
                                 SocksPlaces
  <2>3. Waits' /\ Routed'
    BY <1>1, <1>5 DEF ReadFirst, Waits, Routed, Reading, Judging, SocksPlaces,
                      ConnectPlaces
  <2> QED
    BY <1>3, <2>2, <2>3 DEF TunnelInv, ReadOn
<1> QED
  BY <1>3, <1>4, <1>5 DEF ReadOn

(* The drain of the first reply is that of its own body.                   *)
LEMMA FirstDrain ==
  ASSUME TunnelInv, at = "drain1"
  PROVE  /\ ~DrainWaits(inbox)
         /\ \A rest \in Dropped(Drained(inbox)) :
              rest \in Seq(Plain)
              /\ (reply.fr \notin {"trailered", "closed"} => rest = <<>>)
<1>1. /\ inbox = BodyUnits(reply.fr)
      /\ reply.fr \in {"none", "length", "chunked", "trailered", "closed"}
  BY DEF TunnelInv, Unread, TunnelTypes, ProxyHeads, NoStatus
<1>2. /\ ~DrainWaits(inbox)
      /\ Drained(inbox) = CASE reply.fr = "trailered" -> <<Unit("blank")>>
                           [] reply.fr = "closed" -> <<Unit("data")>>
                           [] OTHER -> <<>>
  BY <1>1, DrainsItsBody
<1>3. Unit("blank") \in Plain /\ Unit("data") \in Plain
  BY PlainUnit DEF PlainKinds
<1>4. Drained(inbox) \in Seq(Plain)
  BY <1>2, <1>3
<1>5. ASSUME NEW rest \in Dropped(Drained(inbox)) PROVE rest \in Seq(Plain)
  BY <1>4, <1>5, RestOfDropped
<1> QED
  BY <1>2, <1>5, NothingDropped

LEMMA DigestRetryKeeps ==
  ASSUME TunnelInv, DigestRetry
  PROVE  TunnelInv'
<1>1. /\ at = "drain1" /\ connects <= 1 /\ ~waited /\ opts.via = "tunnel"
      /\ reply.st = 407 /\ TunnelTypes
  BY DEF TunnelInv, DigestRetry, Asked, Waits, Routed, ConnectPlaces, Judging, Challenged
<1>2. /\ at \in Judging /\ reply.st # 0 /\ "reply2" \in Reading
  BY <1>1 DEF Judging, Reading
<1>3. PICK rest \in Dropped(Drained(inbox)) : SendConnect("digest", rest, "reply2")
  BY DEF DigestRetry
<1>4. /\ rest \in Seq(Plain) /\ (reply.fr \notin {"trailered", "closed"} => rest = <<>>)
      /\ ~DrainWaits(inbox)
  BY <1>1, FirstDrain
<1>5. Sent("digest", rest, "reply2")
  BY <1>1, <1>2, <1>3, <1>4, Sends
<1>6. ~waited' /\ waited' \in BOOLEAN
  BY <1>1, <1>4 DEF DigestRetry
<1>7. SentOn("reply2")
  <2>1. /\ acc' = Append(acc, heard) /\ offers' \in BOOLEAN /\ connects <= 3
        /\ UNCHANGED <<opts, heard, reply, mark, connectResp, pre>>
    BY <1>1 DEF DigestRetry, TunnelTypes
  <2> QED
    BY <1>1, <1>2, <1>3, <1>4, <1>6, <2>1, SendsOn
<1>8. CASE at' = "done"
  <2>1. at' \notin Places
    BY <1>8 DEF Places, Reading, Judging, SocksPlaces
  <2> QED
    BY <1>6, <1>7, <2>1, Elsewhere DEF SentOn, TunnelInv
<1>9. CASE at' = "reply2"
  <2>1. inbox' = <<>> \/ FirstIs({"head", "garbage"})'
        \/ reply'.fr \in {"trailered", "closed"}
    <3>1. CASE reply.fr \in {"trailered", "closed"}
      BY <3>1 DEF DigestRetry
    <3>2. CASE rest = <<>> /\ tail # "open"
      <4>1. inbox' = rest
        BY <1>5, <3>2 DEF Sent
      <4> QED
        BY <3>2, <4>1
    <3>3. CASE rest = <<>> /\ tail = "open"
      <4>1. PICK r \in ProxyReplies : inbox' = rest \o ReplyUnits(r)
        BY <1>5, <3>3 DEF Sent
      <4>2. inbox' = ReplyUnits(r)
        BY <3>3, <4>1, ReplyShape, ConcatEmptySeq DEF OneHead
      <4> QED
        BY <4>2, ReplyShape, EmptySeq, NotBoth DEF FirstIs, ProxyUnits
    <3> QED
      BY <1>4, <3>1, <3>2, <3>3
  <2>2. connects' <= 2
    <3>1. connects' = connects + 1
      BY <1>5 DEF Sent
    <3> QED
      BY <1>1, <3>1 DEF TunnelTypes
  <2>3. Unread' /\ Asked'
    BY <1>7, <1>9, <2>1, <2>2
    DEF SentOn, Unread, Asked, Reading, Judging, SocksPlaces
  <2>4. Waits' /\ Routed'
    BY <1>1, <1>6, <1>9 DEF DigestRetry, Waits, Routed, Reading, Judging, SocksPlaces,
                            ConnectPlaces
  <2> QED
    BY <1>7, <2>3, <2>4 DEF SentOn, TunnelInv
<1> QED
  BY <1>7, <1>8, <1>9 DEF SentOn

LEMMA DrainFirstKeeps ==
  ASSUME TunnelInv, DrainFirst
  PROVE  TunnelInv'
<1>1. /\ at = "drain1" /\ connects <= 1 /\ ~waited /\ opts.via = "tunnel"
      /\ at' = "type1" /\ at \in Judging /\ at' \in Judging
      /\ inbox' \in Dropped(Drained(inbox))
  BY DEF TunnelInv, DrainFirst, Asked, Waits, Routed, ConnectPlaces, Judging
<1>2. ~DrainWaits(inbox) /\ inbox' \in Seq(Plain)
  BY <1>1, FirstDrain
<1>3. /\ ~waited' /\ waited' \in BOOLEAN /\ TunnelTypes /\ Kept
      /\ UNCHANGED <<opts, tail, heard, reply, acc, mark, connectResp, pre, offers,
                     connects>>
  BY <1>1, <1>2 DEF DrainFirst, TunnelInv
<1>4. TunnelTypes'
  BY <1>3 DEF TunnelTypes
<1>5. Kept'
  BY <1>1, <1>3, KeptOn
<1>6. Unread' /\ Asked'
  BY <1>1, <1>2, <1>3, PlainIsProxy
  DEF TunnelTypes, Unread, Asked, Reading, Judging, SocksPlaces
<1>7. Waits' /\ Routed'
  BY <1>1, <1>3 DEF Waits, Routed, Reading, Judging, SocksPlaces, ConnectPlaces
<1> QED
  BY <1>4, <1>5, <1>6, <1>7 DEF TunnelInv

(* The three places where a reader is dropped and nothing else happens.    *)
LEMMA DropKeeps ==
  ASSUME TunnelInv, KeepFirst \/ DropSecond \/ DropType1
  PROVE  TunnelInv'
<1>1. /\ at \in {"drain1", "drop2", "dropT1"} /\ at \in Judging /\ at' \in Judging
      /\ at' = IF at = "dropT1" THEN "type3" ELSE "type1"
      /\ inbox' \in Dropped(inbox)
      /\ TunnelTypes /\ Kept /\ Waits /\ Asked /\ Routed
      /\ inbox \in Seq(ProxyUnits) /\ (reply.st # 0 => inbox \in Seq(Plain))
  BY DEF TunnelInv, KeepFirst, DropSecond, DropType1, Judging, Unread
<1>2. UNCHANGED <<opts, tail, heard, reply, acc, mark, connectResp, pre, offers,
                  connects, waited, cred>>
  BY DEF KeepFirst, DropSecond, DropType1
<1>3. TunnelTypes'
  BY <1>1, <1>2 DEF TunnelTypes
<1>4. Kept'
  BY <1>1, <1>2, KeptOn
<1>5. inbox' \in Seq(ProxyUnits) /\ (reply'.st # 0 => inbox' \in Seq(Plain))
  BY <1>1, <1>2, RestOfDropped
<1>6. Unread' /\ Asked'
  BY <1>1, <1>2, <1>5 DEF TunnelTypes, Unread, Asked, Reading, Judging, SocksPlaces
<1>7. Waits'
  BY <1>1, <1>2 DEF Waits, Challenged, Deferred, HasUser
<1>8. Routed'
  BY <1>1, <1>2 DEF Routed, Reading, Judging, SocksPlaces, ConnectPlaces
<1> QED
  BY <1>3, <1>4, <1>6, <1>7, <1>8 DEF TunnelInv

(* The three replies after the first.                                      *)
LEMMA ReadKeeps ==
  ASSUME TunnelInv, ReadDigest \/ ReadType1 \/ ReadType3
  PROVE  TunnelInv'
<1> DEFINE next == CASE at = "reply2" -> "drop2"
                     [] at = "replyT1" -> "dropT1"
                     [] OTHER -> "verdict"
<1>1. /\ at \in {"reply2", "replyT1", "replyT3"} /\ at \in Reading
      /\ Waits /\ Asked /\ Routed /\ TunnelTypes
  BY DEF TunnelInv, ReadDigest, ReadType1, ReadType3, Reading
<1>2. UNCHANGED <<opts, tail, acc, mark, connectResp, pre, offers, connects,
                  waited, cred>>
  BY DEF ReadDigest, ReadType1, ReadType3
<1>3. \/ at = "reply2" /\ next = "drop2" /\ ReadReply("drop2")
      \/ at = "replyT1" /\ next = "dropT1" /\ ReadReply("dropT1")
      \/ at = "replyT3" /\ next = "verdict" /\ ReadReply("verdict")
  BY DEF ReadDigest, ReadType1, ReadType3
<1> HIDE DEF next
<1>4. next \in Judging /\ ReadReply(next) /\ next \in {"drop2", "dropT1", "verdict"}
  BY <1>3 DEF Judging
<1>5. ReadOn(next)
  BY <1>1, <1>2, <1>4, ReadsOn
<1>6. at' = next \/ at' = "done"
  BY <1>5 DEF ReadOn
<1>7. Unread' /\ Asked'
  BY <1>1, <1>2, <1>3, <1>4, <1>5 DEF ReadOn, Unread, Asked, Reading, Judging,
                                      SocksPlaces
<1>8. Waits'
  BY <1>1, <1>2, <1>3, <1>6 DEF Waits, Challenged, Deferred, HasUser
<1>9. Routed'
  BY <1>1, <1>2, <1>3, <1>6 DEF Routed, Reading, Judging, SocksPlaces, ConnectPlaces
<1> QED
  BY <1>5, <1>7, <1>8, <1>9 DEF TunnelInv, ReadOn

LEMMA NtlmType1Keeps ==
  ASSUME TunnelInv, NtlmType1
  PROVE  TunnelInv'
<1>1. /\ at = "type1" /\ at \in Judging /\ connects <= 2 /\ ~waited
      /\ opts.via = "tunnel" /\ TunnelTypes /\ Kept
      /\ inbox \in Seq(ProxyUnits) /\ (reply.st # 0 => inbox \in Seq(Plain))
  BY DEF TunnelInv, NtlmType1, Unread, Asked, Waits, Routed, ConnectPlaces, Judging
<1>2. /\ offers' = OffersNtlm /\ offers' \in BOOLEAN
      /\ UNCHANGED <<opts, heard, reply, mark, connectResp, pre, waited>>
  BY DEF NtlmType1, OffersNtlm
<1>3. CASE StartsNtlm
  <2>1. reply.st = 407 /\ inbox \in Seq(Plain) /\ "replyT1" \in Reading
    BY <1>1, <1>3 DEF StartsNtlm, Challenged, Reading
  <2>2. SendConnect("type1", inbox, "replyT1") /\ acc' = Append(acc, heard)
    BY <1>3 DEF NtlmType1
  <2>3. connects <= 3 /\ waited' \in BOOLEAN /\ reply.st # 0 /\ ~waited'
    BY <1>1, <1>2, <2>1 DEF TunnelTypes
  <2>4. SentOn("replyT1")
    BY <1>1, <1>2, <2>1, <2>2, <2>3, SendsOn
  <2>5. Sent("type1", inbox, "replyT1")
    BY <1>1, <2>1, <2>2, Sends
  <2>6. cred' = "type1" /\ connects' <= 3 /\ (at' = "replyT1" \/ at' = "done")
    BY <1>1, <2>5 DEF Sent, TunnelTypes
  <2>7. Unread' /\ Asked'
    BY <2>4, <2>6 DEF SentOn, Unread, Asked, Reading, Judging, SocksPlaces
  <2>8. Waits' /\ Routed'
    BY <1>1, <1>2, <2>3, <2>6
    DEF Waits, Routed, Reading, Judging, SocksPlaces, ConnectPlaces
  <2> QED
    BY <2>4, <2>7, <2>8 DEF SentOn, TunnelInv
<1>4. CASE ~StartsNtlm
  <2>1. at' = "type3" /\ UNCHANGED <<acc, cred, connects, inbox, tail>>
    BY <1>4 DEF NtlmType1
  <2>2. TunnelTypes'
    BY <1>1, <1>2, <2>1 DEF TunnelTypes
  <2>3. at' \in Judging
    BY <2>1 DEF Judging
  <2>4. Kept'
    BY <1>1, <1>2, <2>1, <2>3, KeptOn
  <2>5. Unread' /\ Asked'
    BY <1>1, <1>2, <2>1 DEF Unread, Asked, Reading, Judging, SocksPlaces, TunnelTypes
  <2>6. ~(Challenged /\ Deferred /\ offers)'
    BY <1>2, <1>4 DEF StartsNtlm, Challenged, Deferred, HasUser
  <2>7. Waits' /\ Routed'
    BY <1>1, <1>2, <2>1, <2>6
    DEF Waits, Routed, Reading, Judging, SocksPlaces, ConnectPlaces
  <2> QED
    BY <2>2, <2>4, <2>5, <2>7 DEF TunnelInv
<1> QED
  BY <1>3, <1>4

(* A drain of anything plain leaves something plain.                       *)
LEMMA DrainsSome ==
  ASSUME NEW s \in Seq(Plain)
  PROVE  DrainEnd(s).gone \in Nat
<1>1. Len(s) \in Nat
  BY LenProperties
<1> DEFINE lines == {i \in SizeLines(s) : NoSize(s, i)}
           end == Min(lines)
<1>2. end \in Nat
  <2>1. lines \subseteq Nat
    BY DEF SizeLines
  <2>2. 3 * Len(s) + 1 \in SizeLines(s)
    BY <1>1 DEF SizeLines
  <2>3. NoSize(s, 3 * Len(s) + 1)
    BY <1>1 DEF NoSize
  <2>4. lines # {}
    BY <2>2, <2>3
  <2> HIDE DEF lines
  <2> QED
    BY <2>1, <2>4, LeastNatural
<1>3. end + 1 \in Nat
  BY <1>2
<1> HIDE DEF end
<1>4. ChunksEnd(s).gone \in {end, end + 1, Len(s)}
  BY Zenon DEF ChunksEnd, end
<1>5. ChunksEnd(s).gone \in Nat
  BY <1>1, <1>2, <1>3, <1>4
<1>6. CASE reply.fr \in {"none", "closed"}
  <2>1. DrainEnd(s) = [gone |-> 0, short |-> FALSE]
    BY <1>6 DEF DrainEnd
  <2> QED
    BY <2>1
<1>7. CASE reply.fr = "length"
  <2>1. DrainEnd(s) = [gone |-> IF s = <<>> THEN 0 ELSE 1, short |-> s = <<>>]
    BY <1>7 DEF DrainEnd
  <2> QED
    BY <2>1
<1>8. CASE reply.fr \notin {"none", "length", "closed"}
  <2>1. DrainEnd(s) = ChunksEnd(s)
    BY <1>8, Zenon DEF DrainEnd
  <2> QED
    BY <1>5, <2>1
<1> QED
  BY <1>6, <1>7, <1>8

LEMMA DrainedPlain ==
  ASSUME NEW s \in Seq(Plain), NEW rest \in Dropped(Drained(s))
  PROVE  rest \in Seq(Plain)
<1>1. DrainEnd(s).gone \in Nat
  BY DrainsSome
<1>2. Drained(s) \in Seq(Plain)
  BY <1>1, Rest DEF Drained
<1> QED
  BY <1>2, RestOfDropped

LEMMA NtlmType3Keeps ==
  ASSUME TunnelInv, NtlmType3
  PROVE  TunnelInv'
<1>1. /\ at = "type3" /\ at \in Judging /\ connects <= 3 /\ opts.via = "tunnel"
      /\ TunnelTypes /\ Kept /\ GoesOnNtlm
      /\ reply.st # 0 => inbox \in Seq(Plain)
  BY DEF TunnelInv, NtlmType3, Unread, Asked, Routed, ConnectPlaces, Judging
<1>2. reply.st # 0 /\ inbox \in Seq(Plain) /\ "replyT3" \in Reading
  BY <1>1 DEF GoesOnNtlm, Challenged, Reading
<1>3. opts.auth = "ntlm" \/ cred = "type1"
  BY <1>1 DEF TunnelInv, Waits, GoesOnNtlm
<1>4. /\ waited' \in BOOLEAN
      /\ UNCHANGED <<opts, heard, reply, mark, connectResp, pre, offers>>
  BY <1>1 DEF NtlmType3, TunnelTypes, DrainWaits
<1>5. CASE opts.user = "long"
  <2>1. at' = "done" /\ UNCHANGED <<acc, cred, connects, inbox, tail>>
    BY <1>5 DEF NtlmType3, Fails
  <2>2. TunnelTypes'
    BY <1>1, <1>4, <2>1 DEF TunnelTypes
  <2>3. Kept'
    BY <1>1, <1>4, <2>1 DEF Kept, Judging, Reading, SocksPlaces
  <2>4. at' \notin Places
    BY <2>1 DEF Places, Reading, Judging, SocksPlaces
  <2>5. opts'.auth = "ntlm" \/ cred' \in {"type1", "type3"}
    BY <1>3, <1>4, <2>1
  <2> QED
    BY <2>2, <2>3, <2>4, <2>5, Elsewhere DEF TunnelInv
<1>6. CASE opts.user # "long"
  <2>1. acc' = Append(acc, heard) /\ connects <= 3
    BY <1>1, <1>6 DEF NtlmType3
  <2>2. PICK rest \in Dropped(Drained(inbox)) : SendConnect("type3", rest, "replyT3")
    BY <1>6 DEF NtlmType3
  <2>3. rest \in Seq(Plain)
    BY <1>2, <2>2, DrainedPlain
  <2>4. offers' \in BOOLEAN
    BY <1>1, <1>4 DEF TunnelTypes
  <2>5. SentOn("replyT3")
    BY <1>1, <1>2, <1>4, <2>1, <2>2, <2>3, <2>4, SendsOn
  <2>6. Sent("type3", rest, "replyT3")
    BY <1>1, <1>2, <2>2, <2>3, Sends
  <2>7. cred' = "type3" /\ (at' = "replyT3" \/ at' = "done")
    BY <2>6 DEF Sent
  <2>8. Unread' /\ Asked'
    BY <2>5, <2>7 DEF SentOn, Unread, Asked, Reading, Judging, SocksPlaces
  <2>9. Waits' /\ Routed'
    BY <1>1, <1>4, <2>7
    DEF Waits, Routed, Reading, Judging, SocksPlaces, ConnectPlaces
  <2> QED
    BY <2>5, <2>8, <2>9 DEF SentOn, TunnelInv
<1> QED
  BY <1>5, <1>6

LEMMA NoType3Keeps ==
  ASSUME TunnelInv, NoType3
  PROVE  TunnelInv'
<1>1. /\ at = "type3" /\ at \in Judging /\ at' = "verdict" /\ at' \in Judging
      /\ opts.via = "tunnel" /\ TunnelTypes /\ Kept /\ Waits
      /\ inbox \in Seq(ProxyUnits) /\ (reply.st # 0 => inbox \in Seq(Plain))
  BY DEF TunnelInv, NoType3, Unread, Routed, ConnectPlaces, Judging
<1>2. UNCHANGED <<opts, inbox, tail, heard, reply, acc, mark, connectResp, pre, offers,
                  connects, waited, cred>>
  BY DEF NoType3, tvars
<1>3. TunnelTypes'
  BY <1>1, <1>2 DEF TunnelTypes
<1>4. Kept'
  BY <1>1, <1>2, KeptOn
<1>5. Unread' /\ Asked'
  BY <1>1, <1>2 DEF Unread, Asked, Reading, Judging, SocksPlaces
<1>6. Waits' /\ Routed'
  BY <1>1, <1>2 DEF Waits, Routed, Reading, Judging, SocksPlaces, ConnectPlaces
<1> QED
  BY <1>3, <1>4, <1>5, <1>6 DEF TunnelInv

LEMMA EstablishedKeeps ==
  ASSUME TunnelInv, Established
  PROVE  TunnelInv'
<1>1. /\ at = "verdict" /\ at \in Judging /\ at' = "tls" /\ reply.st = 200
      /\ opts.via = "tunnel" /\ TunnelTypes /\ Kept /\ Waits
      /\ inbox \in Seq(Plain) /\ inbox' \in Dropped(inbox)
      /\ acc' = Append(acc, heard) /\ connectResp' = heard
  BY DEF TunnelInv, Established, Unread, Routed, ConnectPlaces, Judging
<1>2. UNCHANGED <<opts, tail, heard, reply, mark, pre, offers, connects, waited, cred>>
  BY DEF Established
<1>3. TunnelTypes'
  BY <1>1, <1>2 DEF TunnelTypes
<1>4. mark \in Nat /\ heard = mark + Len(acc) + 1 /\ Counts(acc, mark)
  BY <1>1 DEF Kept, TunnelTypes
<1>5. Counts(acc', mark) /\ Len(acc') = Len(acc) + 1 /\ Len(acc) \in Nat
  BY <1>1, <1>4, CountsOn, CountsBetween
<1>6. Kept'
  BY <1>1, <1>2, <1>4, <1>5 DEF Kept, Reading, Judging, SocksPlaces
<1>7. inbox' \in Seq(Plain)
  BY <1>1, RestOfDropped
<1>8. Unread' /\ Asked'
  BY <1>1, <1>7 DEF Unread, Asked, Reading, Judging, SocksPlaces
<1>9. Waits' /\ Routed'
  BY <1>1, <1>2 DEF Waits, Routed, Reading, Judging, SocksPlaces, ConnectPlaces, SocksVias
<1> QED
  BY <1>3, <1>6, <1>8, <1>9 DEF TunnelInv

LEMMA RefusedKeeps ==
  ASSUME TunnelInv, Refused
  PROVE  TunnelInv'
<1>1. /\ at = "verdict" /\ at' \in {"connect", "done"} /\ TunnelTypes /\ Kept /\ Waits
      /\ connectResp' \in 0..heard /\ pre' \in BOOLEAN
      /\ UNCHANGED <<opts, tail, heard, reply, acc, mark, offers, connects, waited, cred>>
  <2>1. at' \in {"connect", "done"}
    BY DEF Refused, Fails
  <2>2. pre' = TRUE \/ pre' = pre
    BY DEF Refused
  <2>3. connectResp' = 0 \/ connectResp' = heard
    BY DEF Refused
  <2>4. pre' \in BOOLEAN
    BY <2>2, Zenon DEF TunnelInv, TunnelTypes
  <2>5. connectResp' \in 0..heard
    BY <2>3 DEF TunnelInv, TunnelTypes
  <2> QED
    BY <2>1, <2>4, <2>5, Zenon DEF TunnelInv, Refused
<1>2. TunnelTypes'
  BY <1>1 DEF TunnelTypes
<1>3. Kept'
  BY <1>1 DEF Kept, Reading, Judging, SocksPlaces
<1>4. at' \notin Places /\ (waited' => opts'.auth = "ntlm" \/ cred' \in {"type1", "type3"})
  BY <1>1 DEF Places, Reading, Judging, SocksPlaces, Waits
<1> QED
  BY <1>2, <1>3, <1>4, Elsewhere DEF TunnelInv

----------------------------------------------------------------------------
(* The SOCKS handshake: what it was told matters only when it ends well.   *)
LEMMA SocksKeeps ==
  ASSUME TunnelInv, at \in SocksPlaces,
         at' \in {"socks_auth", "socks_request", "tls", "done"},
         at' \in {"socks_auth", "socks_request"} => opts.via \in {"socks5", "socks5h"},
         at' = "tls" /\ opts.host = "unknown" => told' = "host" \/ opts.via = "socks4",
         UNCHANGED <<opts, inbox, tail, heard, reply, acc, mark, connectResp, pre,
                     offers, cred, connects, waited>>
  PROVE  TunnelInv'
<1>1. /\ TunnelTypes /\ Kept /\ Waits /\ inbox = <<>> /\ connects = 0
      /\ opts.via \in SocksVias
  BY DEF TunnelInv, Unread, Asked, Routed
<1>2. TunnelTypes'
  BY <1>1 DEF TunnelTypes
<1>3. Kept'
  BY <1>1 DEF Kept, Reading, Judging, SocksPlaces
<1>4. inbox' \in Seq(Plain)
  BY <1>1, EmptySeq
<1>5. Unread' /\ Asked'
  BY <1>1, <1>4 DEF Unread, Asked, Reading, Judging, SocksPlaces
<1>6. Waits' /\ Routed'
  BY <1>1 DEF Waits, Routed, Reading, Judging, SocksPlaces, ConnectPlaces
<1> QED
  BY <1>2, <1>3, <1>5, <1>6 DEF TunnelInv

LEMMA Socks4Keeps ==
  ASSUME TunnelInv, Socks4
  PROVE  TunnelInv'
<1>1. /\ at = "socks" /\ at' \in {"tls", "done"}
      /\ UNCHANGED <<opts, inbox, tail, heard, reply, acc, mark, connectResp, pre,
                     offers, cred, connects, waited>>
  BY DEF Socks4, SocksStep, Fails
<1>2. at' = "tls" => opts.user # "long"
  BY DEF Socks4, SocksStep, Fails
<1>3. opts.via = "socks4a" /\ opts.user # "long" => told' = "host"
  BY DEF Socks4
<1>4. opts.via \in {"socks4", "socks4a"}
  BY DEF Socks4
<1> QED
  BY <1>1, <1>2, <1>3, <1>4, SocksKeeps DEF SocksPlaces

LEMMA Socks5Keeps ==
  ASSUME TunnelInv, Socks5Greet \/ Socks5Auth
  PROVE  TunnelInv'
<1>1. /\ at \in {"socks", "socks_auth"} /\ at' \in {"socks_auth", "socks_request", "done"}
      /\ UNCHANGED <<opts, inbox, tail, heard, reply, acc, mark, connectResp, pre,
                     offers, cred, connects, waited>>
  BY DEF Socks5Greet, Socks5Auth, SocksStep, Fails
<1>2. opts.via \in {"socks5", "socks5h"}
  BY DEF TunnelInv, Routed, Socks5Greet, Socks5Auth, SocksStep
<1> QED
  BY <1>1, <1>2, SocksKeeps DEF SocksPlaces

LEMMA Socks5RequestKeeps ==
  ASSUME TunnelInv, Socks5Request
  PROVE  TunnelInv'
<1>1. /\ at = "socks_request" /\ at' \in {"tls", "done"}
      /\ UNCHANGED <<opts, inbox, tail, heard, reply, acc, mark, connectResp, pre,
                     offers, cred, connects, waited>>
  BY DEF Socks5Request, SocksStep, Fails
<1>2. at' = "tls" /\ opts.host = "unknown" => told' = "host"
  BY DEF Socks5Request, SocksStep, Fails
<1> QED
  BY <1>1, <1>2, SocksKeeps DEF SocksPlaces

----------------------------------------------------------------------------
LEMMA TunnelKeeps ==
  ASSUME TunnelInv, TunnelNext
  PROVE  TunnelInv'
BY ConnectFirstKeeps, ReadFirstKeeps, DigestRetryKeeps, DrainFirstKeeps, DropKeeps,
   ReadKeeps, NtlmType1Keeps, NtlmType3Keeps, NoType3Keeps, EstablishedKeeps,
   RefusedKeeps, Socks4Keeps, Socks5Keeps, Socks5RequestKeeps
DEF TunnelNext
=============================================================================
