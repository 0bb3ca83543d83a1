--------------------------- MODULE DialogueProofs ---------------------------
(***************************************************************************)
(* Theorems about Dialogue, for any options, any replies of the proxy and  *)
(* any answers of the server.  TunnelInv and ReaderInv hold throughout:    *)
(* what Dialogue itself puts on a stream, and takes from it, is what they  *)
(* expect.  To them it adds which header blocks are kept where, and who    *)
(* waits for whom in the Expect dialogue.                                  *)
(***************************************************************************)
EXTENDS Dialogue, TunnelProofs, ReaderProofs

ReaderPlaces == {"status"} \union BodyPlaces

----------------------------------------------------------------------------
(* What a step of Tunnel and a step of Reader leave alone.                 *)
TunnelMoves ==
  /\ at \in TunnelPlaces
  /\ at' \in TunnelPlaces \union {"connect", "tls", "done"}
  /\ at' # "done" => error' = error
  /\ UNCHANGED <<opts, armed, round>>

LEMMA TunnelStep ==
  ASSUME TunnelNext
  PROVE  TunnelMoves
<1>1. CASE ReadFirst \/ ReadDigest \/ ReadType1 \/ ReadType3
  BY <1>1 DEF ReadFirst, ReadDigest, ReadType1, ReadType3, ReadReply, Fails, TunnelMoves,
              TunnelPlaces, ConnectPlaces, Reading, Judging
<1>2. CASE ConnectFirst \/ NtlmType1
  BY <1>2 DEF ConnectFirst, NtlmType1, SendConnect, Fails, TunnelMoves,
              TunnelPlaces, ConnectPlaces, Reading, Judging
<1>3. CASE DigestRetry \/ NtlmType3
  BY <1>3 DEF DigestRetry, NtlmType3, SendConnect, Fails, TunnelMoves,
              TunnelPlaces, ConnectPlaces, Reading, Judging
<1>4. CASE DrainFirst \/ KeepFirst \/ DropSecond \/ DropType1 \/ NoType3
  BY <1>4 DEF DrainFirst, KeepFirst, DropSecond, DropType1, NoType3, TunnelMoves,
              TunnelPlaces, ConnectPlaces, Judging
<1>5. CASE Established \/ Refused
  BY <1>5 DEF Established, Refused, Fails, TunnelMoves, TunnelPlaces, ConnectPlaces,
              Judging
<1>6. CASE Socks4 \/ Socks5Greet \/ Socks5Auth
  BY <1>6 DEF Socks4, Socks5Greet, Socks5Auth, SocksStep, Fails, TunnelMoves,
              TunnelPlaces, SocksPlaces
<1>7. CASE Socks5Request
  BY <1>7 DEF Socks5Request, SocksStep, Fails, TunnelMoves, TunnelPlaces, SocksPlaces
<1> QED
  BY <1>1, <1>2, <1>3, <1>4, <1>5, <1>6, <1>7 DEF TunnelNext

HeadsAdvance ==
  \/ UNCHANGED <<heard, heads>>
  \/ heard' = heard + 1 /\ heads' = Append(heads, heard + 1)

ReaderMoves ==
  /\ at \in ReaderPlaces /\ at # "end"
  /\ at' \in BodyPlaces \union {"status", "done"}
  /\ at' # "done" => error' = error
  /\ at' = "done" => error' # "none"
  /\ HeadsAdvance
  /\ UNCHANGED <<opts, armed, round, tail, purpose, meant>>

LEMMA ReaderStep ==
  ASSUME ReaderNext
  PROVE  ReaderMoves
<1>1. CASE ReadNothing
  BY <1>1 DEF ReadNothing, Fails, Ends, ReaderMoves, HeadsAdvance, ReaderPlaces, BodyPlaces
<1>2. CASE ReadInterim \/ ReadNotHttp
  BY <1>2 DEF ReadInterim, ReadNotHttp, Fails, Ends, ReaderMoves, HeadsAdvance, ReaderPlaces,
              BodyPlaces
<1>3. CASE ReadHead
  BY <1>3 DEF ReadHead, Fails, Ends, BodyMode, ReaderMoves, HeadsAdvance, ReaderPlaces,
              BodyPlaces
<1>4. CASE ReadLength \/ ReadToEnd \/ ReadSizeFails
  BY <1>4 DEF ReadLength, ReadToEnd, ReadSizeFails, Fails, ReaderMoves, HeadsAdvance,
              ReaderPlaces, BodyPlaces
<1>5. CASE ReadChunk \/ ReadTrailers
  BY <1>5 DEF ReadChunk, ReadTrailers, ReaderMoves, HeadsAdvance, ReaderPlaces, BodyPlaces
<1>6. CASE Decode
  BY <1>6 DEF Decode, Ends, ReaderMoves, HeadsAdvance, ReaderPlaces, BodyPlaces
<1> QED
  BY <1>1, <1>2, <1>3, <1>4, <1>5, <1>6 DEF ReaderNext

----------------------------------------------------------------------------
(* What the server sends, if it answers.                                   *)
ServerTells(before) ==
  \/ tail # "open" /\ inbox' = before /\ UNCHANGED <<tail, meant, answered>>
  \/ \E a \in AnswerSpace :
       /\ inbox' = before \o SentUnits(a)
       /\ tail' = a.after /\ tail' \in {"open", "eof", "reset"}
       /\ meant' = a
       /\ answered' = TRUE

LEMMA ServerGives ==
  ASSUME NEW before, opts \in OptionSets, ServerAnswers(before)
  PROVE  ServerTells(before)
<1>1. CASE tail # "open"
  BY <1>1 DEF ServerAnswers, ServerTells
<1>2. CASE tail = "open"
  <2>1. PICK a \in Answers[opts.answers] :
          /\ inbox' = before \o SentUnits(a) /\ tail' = a.after
          /\ meant' = a /\ answered' = TRUE
    BY <1>2 DEF ServerAnswers
  <2>2. a \in AnswerSpace
    BY <2>1, ReaderAssumption
  <2>3. a.after \in {"open", "eof", "reset"}
    BY <2>2 DEF AnswerSpace
  <2> QED
    BY <2>1, <2>2, <2>3 DEF ServerTells
<1> QED
  BY <1>1, <1>2

LEMMA TunnelInvInit ==
  ASSUME Init
  PROVE  TunnelInv
<1>1. at = "connect" /\ ~waited
  BY DEF Init, TunnelInit
<1>2. TunnelTypes
  <2>1. pre \in BOOLEAN /\ offers \in BOOLEAN /\ waited \in BOOLEAN
    BY Zenon DEF Init, TunnelInit
  <2>2. /\ opts \in OptionSets /\ tail \in {"open", "eof", "reset"}
        /\ heard = 0 /\ mark = 0 /\ connectResp = 0 /\ connects = 0
        /\ reply = NoStatus
    BY DEF Init, TunnelInit
  <2> QED
    BY <2>1, <2>2 DEF TunnelTypes
<1>3. Kept
  BY <1>1, CountsEmpty, EmptySeq
  DEF Init, TunnelInit, Kept, Reading, Judging, SocksPlaces
<1>4. Unread /\ Asked /\ Waits /\ Routed
  BY <1>1 DEF Unread, Asked, Waits, Routed, Reading, Judging, SocksPlaces,
              ConnectPlaces
<1> QED
  BY <1>2, <1>3, <1>4 DEF TunnelInv

(* Outside Tunnel only the place and the number of blocks heard change.    *)
LEMMA TunnelRests ==
  ASSUME TunnelInv, at' \notin Places, heard' \in Nat, heard <= heard',
         tail' \in {"open", "eof", "reset"}, pre' \in BOOLEAN,
         UNCHANGED <<opts, mark, connectResp, offers, waited, reply, acc, connects, cred>>
  PROVE  TunnelInv'
<1>1. TunnelTypes /\ Kept /\ Waits
  BY DEF TunnelInv
<1>2. TunnelTypes'
  BY <1>1 DEF TunnelTypes
<1>3. Len(acc) \in Nat /\ mark \in Nat /\ heard \in Nat
  BY <1>1, CountsBetween DEF Kept, TunnelTypes
<1>4. Kept'
  BY <1>1, <1>3 DEF Kept, Places, Reading, Judging, SocksPlaces
<1>5. waited' => opts'.auth = "ntlm" \/ cred' \in {"type1", "type3"}
  BY <1>1 DEF Waits
<1> QED
  BY <1>2, <1>4, <1>5, Elsewhere DEF TunnelInv

LEMMA ConnectStarts ==
  ASSUME TunnelInv, Connect
  PROVE  TunnelInv'
<1>1. /\ at = "connect" /\ heard \in Nat /\ opts \in OptionSets
      /\ connectResp \in 0..heard /\ pre \in BOOLEAN
  BY DEF TunnelInv, TunnelTypes, Connect
<1>2. /\ inbox' = <<>> /\ tail' = "open" /\ acc' = <<>> /\ mark' = heard
      /\ reply' = NoStatus /\ offers' = FALSE /\ cred' = "none" /\ connects' = 0
      /\ waited' = FALSE /\ UNCHANGED <<opts, heard, connectResp, pre>>
  BY DEF Connect
<1>3. opts.via \in {"direct", "unix", "tunnel"} \union SocksVias
  BY <1>1, WireAssumption DEF OptionSpace, SocksVias
<1>4. \/ at' = "send"
      \/ at' = "tls" /\ opts.via = "direct"
      \/ at' = "tunnel" /\ opts.via = "tunnel"
      \/ at' = "socks" /\ opts.via \in SocksVias
  BY <1>3 DEF Connect, Tunnels, SocksVias
<1>5. TunnelTypes'
  <2>1. pre' \in BOOLEAN /\ offers' \in BOOLEAN /\ waited' \in BOOLEAN
    BY <1>1, <1>2, Zenon
  <2>2. /\ opts' \in OptionSets /\ tail' \in {"open", "eof", "reset"}
        /\ heard' \in Nat /\ mark' \in Nat /\ connectResp' \in 0..heard'
        /\ connects' \in 0..4 /\ reply' = NoStatus
    BY <1>1, <1>2
  <2> QED
    BY <2>1, <2>2 DEF TunnelTypes
<1>6. Kept'
  BY <1>1, <1>2, <1>4, CountsEmpty, EmptySeq
  DEF Kept, Reading, Judging, SocksPlaces
<1>7. Unread' /\ Asked'
  BY <1>2, <1>4, EmptySeq DEF Unread, Asked, Reading, Judging, SocksPlaces
<1>8. Waits' /\ Routed'
  BY <1>2, <1>4 DEF Waits, Routed, Reading, Judging, SocksPlaces, ConnectPlaces, SocksVias
<1> QED
  BY <1>5, <1>6, <1>7, <1>8 DEF TunnelInv

LEMMA DialogueRests ==
  ASSUME TunnelInv, DialogueNext
  PROVE  TunnelInv'
<1>1. CASE Connect
  BY <1>1, ConnectStarts
<1>2. CASE ~Connect
  <2>1. at' \notin Places
    BY <1>2 DEF DialogueNext, Tls, SendAll, SendHeaders, WaitTimesOut, WaitContinues,
                WaitAnswered, WaitUnclear, WaitBreaks, Reconnect, Return, SendBody,
                Fails, Places, Reading, Judging, SocksPlaces
  <2>2. heard' = heard \/ heard' = heard + 1
    BY <1>2 DEF DialogueNext, Tls, SendAll, SendHeaders,
                WaitTimesOut, WaitContinues, WaitAnswered, WaitUnclear, WaitBreaks,
                Reconnect, Return
  <2>3. UNCHANGED <<opts, mark, connectResp, offers, waited, reply, acc, connects, cred>>
    BY <1>2 DEF DialogueNext, Tls, SendAll, SendHeaders, WaitTimesOut, WaitContinues,
                WaitAnswered, WaitUnclear, WaitBreaks, Reconnect, Return, tvars
  <2>4. tail' \in {"open", "eof", "reset"}
    <3>1. opts \in OptionSets /\ tail \in {"open", "eof", "reset"}
      BY DEF TunnelInv, TunnelTypes
    <3>2. CASE UNCHANGED tail
      BY <3>1, <3>2
    <3>3. CASE \E before : ServerAnswers(before)
      BY <3>1, <3>3, ServerGives DEF ServerTells
    <3>4. CASE (SendHeaders /\ tail' = "eof") \/ (SendHeaders /\ tail' = "reset")
      BY <3>4
    <3>5. UNCHANGED tail \/ (\E before : ServerAnswers(before))
            \/ (SendHeaders /\ tail' = "eof") \/ (SendHeaders /\ tail' = "reset")
      <4>1. CASE SendHeaders
        BY <4>1, Zenon DEF SendHeaders
      <4>2. CASE SendAll
        BY <4>2, Zenon DEF SendAll
      <4>3. CASE WaitTimesOut \/ WaitContinues \/ WaitUnclear
        BY <4>3, Zenon DEF WaitTimesOut, WaitContinues, WaitUnclear, SendBody
      <4> QED
        BY <1>2, <4>1, <4>2, <4>3
        DEF DialogueNext, Tls, WaitAnswered, WaitBreaks, Reconnect, Return
    <3> QED
      BY <3>2, <3>3, <3>4, <3>5
  <2>5. pre' \in BOOLEAN
    <3>1. pre \in BOOLEAN
      BY DEF TunnelInv, TunnelTypes
    <3>2. pre' = pre \/ pre' = FALSE
      BY <1>2 DEF DialogueNext, Tls, SendAll, SendHeaders, WaitTimesOut, WaitContinues,
                WaitAnswered, WaitUnclear, WaitBreaks, Reconnect, Return, tvars
    <3> QED
      BY <3>1, <3>2, Zenon
  <2>6. heard \in Nat
    BY DEF TunnelInv, TunnelTypes
  <2> QED
    BY <2>1, <2>2, <2>3, <2>4, <2>5, <2>6, TunnelRests
<1> QED
  BY <1>1, <1>2 DEF DialogueNext

LEMMA ReaderRests ==
  ASSUME TunnelInv, ReaderMoves, UNCHANGED tvars
  PROVE  TunnelInv'
<1>1. at' \notin Places
  BY DEF ReaderMoves, BodyPlaces, Places, Reading, Judging, SocksPlaces
<1>2. heard \in Nat /\ tail \in {"open", "eof", "reset"} /\ pre \in BOOLEAN
  BY DEF TunnelInv, TunnelTypes
<1>3. heard' \in Nat /\ heard <= heard'
  BY <1>2 DEF ReaderMoves, HeadsAdvance
<1>4. /\ tail' = tail /\ pre' = pre
      /\ UNCHANGED <<opts, mark, connectResp, offers, waited, reply, acc, connects, cred>>
  BY DEF ReaderMoves, tvars
<1> QED
  BY <1>1, <1>2, <1>3, <1>4, TunnelRests

LEMMA TunnelStays ==
  ASSUME TunnelInv, UNCHANGED vars
  PROVE  TunnelInv'
<1>1. TunnelTypes' /\ Kept'
  BY DEF TunnelInv, TunnelTypes, Kept, vars, tvars
<1>2. Unread' /\ Asked'
  BY DEF TunnelInv, Unread, FirstIs, Asked, vars, tvars
<1>3. Waits' /\ Routed'
  BY DEF TunnelInv, Waits, Challenged, Deferred, HasUser, Routed, vars, tvars
<1> QED
  BY <1>1, <1>2, <1>3 DEF TunnelInv

(* TunnelInv is an invariant of the whole dialogue.                        *)
THEOREM TunnelHolds == Spec => []TunnelInv
<1>1. TunnelInv /\ [Next]_vars => TunnelInv'
  BY TunnelKeeps, ReaderStep, ReaderRests, DialogueRests, TunnelStays DEF Next
<1> QED
  BY <1>1, TunnelInvInit, PTL DEF Spec

(* The reply to a CONNECT in the Digest dialogue is read from its first    *)
(* byte, unless the 407 before it had chunk trailers or a body that only   *)
(* the end of the connection delimits: the drain leaves those.             *)
THEOREM DigestReplyInPlace == Spec => []DigestKeepsItsPlace
<1>1. TunnelInv => DigestKeepsItsPlace
  BY DEF TunnelInv, Unread, DigestKeepsItsPlace
<1> QED
  BY <1>1, TunnelHolds, PTL

(* No drain of a 407 waits for bytes that do not come, except on the way   *)
(* to an NTLM Type 3 message.                                              *)
THEOREM DrainsWaitOnlyForNtlm == Spec => []WaitsOnlyForNtlm
<1>1. TunnelInv => WaitsOnlyForNtlm
  BY DEF TunnelInv, Waits, WaitsOnlyForNtlm
<1> QED
  BY <1>1, TunnelHolds, PTL

(* A host this machine cannot resolve reaches the SOCKS proxy by its name. *)
THEOREM UnknownNamesReachTheProxy == Spec => []NamesReachTheProxy
<1>1. Init => NamesReachTheProxy
  BY DEF Init, NamesReachTheProxy
<1>2. TunnelInv /\ NamesReachTheProxy /\ [Next]_vars => NamesReachTheProxy'
  <2> SUFFICES ASSUME TunnelInv, NamesReachTheProxy, [Next]_vars
               PROVE  NamesReachTheProxy'
    OBVIOUS
  <2>1. CASE Connect
    <3>1. opts' = opts /\ (at' = "send" => opts.via \notin SocksVias)
      <4>1. opts.via \in {"direct", "unix", "tunnel"} \union SocksVias
        BY WireAssumption DEF TunnelInv, TunnelTypes, OptionSpace, SocksVias
      <4> QED
        BY <2>1, <4>1 DEF Connect, Tunnels, SocksVias
    <3> QED
      BY <3>1 DEF NamesReachTheProxy, Socks, SocksVias
  <2>2. CASE Tls
    BY <2>2 DEF TunnelInv, Routed, Tls, tvars, NamesReachTheProxy, Socks, SocksVias
  <2>3. CASE DialogueNext /\ ~Connect /\ ~Tls
    <3>1. at' # "send"
      BY <2>3 DEF DialogueNext, SendAll, SendHeaders, WaitTimesOut, WaitContinues,
                  WaitAnswered, WaitUnclear, WaitBreaks, Reconnect, Return, SendBody,
                  Fails
    <3> QED
      BY <3>1 DEF NamesReachTheProxy
  <2>4. CASE TunnelNext
    <3>1. at' # "send"
      BY <2>4, TunnelStep DEF TunnelMoves, TunnelPlaces, ConnectPlaces, SocksPlaces,
                              Reading, Judging
    <3> QED
      BY <3>1 DEF NamesReachTheProxy
  <2>5. CASE ReaderNext
    BY <2>5, ReaderStep DEF ReaderMoves, BodyPlaces, NamesReachTheProxy
  <2>6. CASE UNCHANGED vars
    BY <2>6 DEF vars, tvars, NamesReachTheProxy, Socks
  <2> QED
    BY <2>1, <2>2, <2>3, <2>4, <2>5, <2>6 DEF Next
<1> QED
  BY <1>1, <1>2, TunnelHolds, PTL DEF Spec

----------------------------------------------------------------------------
(* What is on the stream before read_response is called: what a proxy left *)
(* there, then what the server sends, of which only its answer is a final  *)
(* header block.                                                           *)
NoFinal(units) == \A i \in 1..Len(units) : units[i] \notin FinalHeads

OnStream ==
  /\ at = "send" => inbox \in Seq(Plain)
  /\ at = "wait" =>
       /\ inbox \in Seq(ServerUnits) /\ Tells(inbox)
       /\ ~answered => NoFinal(inbox)

StreamInv == ReaderInv /\ OnStream

LEMMA PlainOnly ==
  ASSUME NEW s \in Seq(Plain)
  PROVE  s \in Seq(ServerUnits) /\ NoFinal(s)
<1>1. s \in Seq(ServerUnits)
  BY SeqMonotonic DEF ServerUnits
<1>2. \A i \in 1..Len(s) : s[i] \in Plain
  BY LenProperties, ElementOfSeq
<1> QED
  BY <1>1, <1>2, ContentUnit DEF NoFinal, ContentUnits

LEMMA NoFinalJoined ==
  ASSUME NEW s \in Seq(ServerUnits), NEW t \in Seq(ServerUnits), NoFinal(s), NoFinal(t)
  PROVE  s \o t \in Seq(ServerUnits) /\ NoFinal(s \o t)
<1> DEFINE st == s \o t
<1>1. /\ st \in Seq(ServerUnits) /\ Len(st) = Len(s) + Len(t)
      /\ \A i \in 1..Len(s) : st[i] = s[i]
      /\ \A i \in 1..Len(t) : st[Len(s) + i] = t[i]
  BY Joined
<1>2. Len(s) \in Nat /\ Len(t) \in Nat
  BY LenProperties
<1> HIDE DEF st
<1>3. ASSUME NEW i \in 1..Len(st)
      PROVE  st[i] \notin FinalHeads
  <2>1. CASE i <= Len(s)
    BY <1>1, <1>2, <2>1 DEF NoFinal
  <2>2. CASE i > Len(s)
    <3>1. i - Len(s) \in 1..Len(t) /\ Len(s) + (i - Len(s)) = i
      BY <1>1, <1>2, <2>2
    <3>2. st[i] = t[i - Len(s)]
      BY <1>1, <3>1
    <3> QED
      BY <3>1, <3>2 DEF NoFinal
  <2> QED
    BY <1>1, <1>2, <2>1, <2>2
<1> QED
  BY <1>1, <1>3 DEF NoFinal, st

LEMMA NoFinalTells ==
  ASSUME NEW s, NoFinal(s)
  PROVE  Tells(s)
BY DEF NoFinal, Tells

LEMMA NoFinalRest ==
  ASSUME NEW s \in Seq(ServerUnits), NoFinal(s), NEW k \in Nat, NEW t,
         t = SubSeq(s, k + 1, Len(s))
  PROVE  t \in Seq(ServerUnits) /\ NoFinal(t)
<1>1. /\ t \in Seq(ServerUnits)
      /\ \A i \in 1..Len(t) : k + i \in 1..Len(s) /\ t[i] = s[k + i]
  BY Rest
<1> QED
  BY <1>1 DEF NoFinal

(* An answer behind units of which none is a final header block.           *)
LEMMA AnswerTells ==
  ASSUME NEW before \in Seq(ServerUnits), NoFinal(before), ServerTells(before),
         UNCHANGED opts
  PROVE  inbox' \in Seq(ServerUnits) /\ Tells(inbox)'
<1>1. CASE inbox' = before
  BY <1>1 DEF NoFinal, Tells
<1>2. CASE \E a \in AnswerSpace : inbox' = before \o SentUnits(a) /\ meant' = a
  <2>1. PICK a \in AnswerSpace : inbox' = before \o SentUnits(a) /\ meant' = a
    BY <1>2
  <2>2. inbox' \in Seq(ServerUnits) /\ Only(inbox', a)
    BY <2>1, SentOnly DEF NoFinal
  <2>3. BodyUnitsOf(meant)' = BodyUnitsOf(a) /\ Lead(meant)' = Lead(a)
    BY <2>1 DEF BodyUnitsOf
  <2> QED
    BY <2>2, <2>3 DEF Only, Tells
<1> QED
  BY <1>1, <1>2 DEF ServerTells

LEMMA InterimsAre ==
  ASSUME NEW r \in DOMAIN Interims
  PROVE  Interims[r] \in Seq(ServerUnits) /\ NoFinal(Interims[r])
<1>1. /\ Continue \in ServerUnits /\ Continue \notin FinalHeads
      /\ Hint \in ServerUnits /\ Hint \notin FinalHeads
  BY DEF Continue, Hint, ServerUnits, InterimHeads, FinalHeads, InterimUnit, HeadUnit
<1>2. \A k \in PlainKinds : Unit(k) \in ServerUnits /\ Unit(k) \notin FinalHeads
  BY InServer, ContentUnit
<1>3. r \in {"silence", "continue", "hint", "hint_continue", "stub", "garbage"}
  BY DEF Interims
<1>4. CASE r = "silence"
  BY <1>4, EmptySeq DEF Interims, NoFinal
<1>5. CASE r = "continue" \/ r = "hint"
  BY <1>1, <1>5 DEF Interims, NoFinal
<1>6. CASE r = "hint_continue"
  BY <1>1, <1>6 DEF Interims, NoFinal
<1> DEFINE x == Unit("stub")
           y == Unit("rest")
           z == Unit("garbage")
<1>7. /\ x \in ServerUnits /\ x \notin FinalHeads
      /\ y \in ServerUnits /\ y \notin FinalHeads
      /\ z \in ServerUnits /\ z \notin FinalHeads
  BY <1>2 DEF PlainKinds
<1> HIDE DEF x, y, z
<1>8. Interims["stub"] = <<x, y>> /\ Interims["garbage"] = <<z>>
  BY DEF Interims, x, y, z
<1>9. CASE r = "stub"
  <2> DEFINE w == <<x, y>>
  <2>1. w \in Seq(ServerUnits) /\ Len(w) = 2 /\ w[1] = x /\ w[2] = y
    BY <1>7
  <2> HIDE DEF w
  <2>2. NoFinal(w)
    BY <1>7, <2>1 DEF NoFinal
  <2> QED
    BY <1>8, <1>9, <2>1, <2>2 DEF w
<1>10. CASE r = "garbage"
  BY <1>7, <1>8, <1>10 DEF NoFinal
<1> QED
  BY <1>3, <1>4, <1>5, <1>6, <1>9, <1>10

----------------------------------------------------------------------------
(* Reading begins, and it has not begun.                                   *)
LEMMA ReadingBegins ==
  ASSUME ReaderInv, at \in {"send", "wait"}, at' = "status",
         inbox' \in Seq(ServerUnits), Tells(inbox)', purpose' \in {"answer", "rejected"},
         UNCHANGED <<opts, head, body, trailer, flags>>
  PROVE  StreamInv'
<1>1. ReaderTypes /\ Unstarted
  BY DEF ReaderInv, BodyPlaces
<1>2. ReaderTypes' /\ Unstarted'
  BY <1>1 DEF ReaderTypes, Unstarted
<1> QED
  BY <1>2 DEF StreamInv, ReaderInv, OnStream, BodyPlaces

LEMMA NotYetReading ==
  ASSUME ReaderInv, at \notin BodyPlaces \union {"done"}, at' \notin ReaderPlaces,
         UNCHANGED <<opts, purpose, head, body, trailer, flags>>
  PROVE  ReaderInv'
<1>1. ReaderTypes /\ Unstarted
  BY DEF ReaderInv
<1>2. ReaderTypes' /\ Unstarted'
  BY <1>1 DEF ReaderTypes, Unstarted, ReaderPlaces
<1>3. Delivered'
  BY <1>2 DEF Delivered, FramedBody, Unstarted
<1> QED
  BY <1>2, <1>3 DEF ReaderInv, ReaderPlaces, BodyPlaces

LEMMA StreamInvInit ==
  ASSUME Init
  PROVE  StreamInv
<1>1. at = "connect" /\ opts \in OptionSpace /\ purpose = "answer"
  BY WireAssumption DEF Init, ReaderInit
<1>2. Unstarted
  BY DEF Init, ReaderInit, Unstarted
<1>3. ReaderTypes
  BY <1>1, <1>2, EmptySeq DEF ReaderTypes, BodyPlaces, Unstarted
<1> QED
  BY <1>1, <1>2, <1>3 DEF StreamInv, OnStream, ReaderInv, BodyPlaces

LEMMA StreamTunnel ==
  ASSUME StreamInv, TunnelNext, UNCHANGED <<rvars, dvars>>
  PROVE  StreamInv'
<1>1. at \in TunnelPlaces /\ at' \in TunnelPlaces \union {"connect", "tls", "done"}
      /\ opts' = opts
  BY TunnelStep DEF TunnelMoves
<1>2. /\ at \notin BodyPlaces \union {"done"} /\ at' \notin ReaderPlaces
      /\ at' # "send" /\ at' # "wait"
  BY <1>1 DEF TunnelPlaces, ConnectPlaces, SocksPlaces, Reading, Judging, BodyPlaces,
              ReaderPlaces
<1>3. ReaderInv'
  BY <1>1, <1>2, NotYetReading DEF StreamInv, rvars
<1> QED
  BY <1>2, <1>3 DEF StreamInv, OnStream

LEMMA StreamReader ==
  ASSUME StreamInv, ReaderNext
  PROVE  StreamInv'
<1>1. at' # "send" /\ at' # "wait"
  BY ReaderStep DEF ReaderMoves, BodyPlaces
<1> QED
  BY <1>1, ReaderKeeps DEF StreamInv, OnStream

(* The body goes out: a server that has not answered may do so now.        *)
LEMMA BodySent ==
  ASSUME StreamInv, TunnelInv, at = "wait", NEW left \in Seq(ServerUnits), Tells(left),
         ~answered => NoFinal(left), SendBody(left, "status"),
         UNCHANGED <<opts, purpose, head, body, trailer, flags>>
  PROVE  StreamInv'
<1>1. opts \in OptionSets /\ purpose \in {"answer", "rejected"} /\ ReaderInv
  BY DEF StreamInv, ReaderInv, ReaderTypes, TunnelInv, TunnelTypes
<1>2. CASE at' = "done"
  <2>1. at' \notin ReaderPlaces /\ at \notin BodyPlaces \union {"done"}
    BY <1>2 DEF ReaderPlaces, BodyPlaces
  <2> QED
    BY <1>1, <1>2, <2>1, NotYetReading DEF StreamInv, OnStream
<1>3. CASE at' = "status"
  <2>1. inbox' \in Seq(ServerUnits) /\ Tells(inbox)'
    <3>1. CASE inbox' = left /\ UNCHANGED meant
      BY <3>1 DEF Tells, BodyUnitsOf
    <3>2. CASE ~answered /\ ServerAnswers(left)
      BY <1>1, <3>2, ServerGives, AnswerTells
    <3> QED
      BY <1>3, <3>1, <3>2 DEF SendBody, Fails
  <2> QED
    BY <1>1, <1>3, <2>1, ReadingBegins
<1> QED
  BY <1>2, <1>3 DEF SendBody, Fails

(* What is left on the stream when the body goes out.                      *)
LEMMA WaitLeaves ==
  ASSUME StreamInv, WaitTimesOut \/ WaitContinues \/ WaitUnclear
  PROVE  \E left \in Seq(ServerUnits) :
           /\ Tells(left)
           /\ ~answered => NoFinal(left)
           /\ SendBody(left, "status")
<1>1. /\ at = "wait" /\ inbox \in Seq(ServerUnits) /\ Tells(inbox)
      /\ ~answered => NoFinal(inbox)
      /\ UNCHANGED <<opts, purpose, head, body, trailer, flags>>
  BY DEF StreamInv, OnStream, WaitTimesOut, WaitContinues, WaitUnclear
<1>2. ASSUME NEW k \in Nat, NEW left, left = SubSeq(inbox, k + 1, Len(inbox))
      PROVE  /\ left \in Seq(ServerUnits) /\ Tells(left)
             /\ ~answered => NoFinal(left)
  BY <1>1, <1>2, TellsRest, NoFinalRest
<1>3. ASSUME inbox # <<>>
      PROVE  Tail(inbox) = SubSeq(inbox, 1 + 1, Len(inbox)) /\ Tail(inbox) \in Seq(ServerUnits)
  BY <1>1, <1>3, HeadTailProperties, TailIsSubSeq
<1>4. CASE WaitUnclear
  BY <1>1, <1>4 DEF WaitUnclear
<1>5. CASE WaitTimesOut
  <2>1. CASE FirstIs({"stub"})
    <3>1. Tail(inbox) = SubSeq(inbox, 1 + 1, Len(inbox))
      BY <1>3, <2>1 DEF FirstIs
    <3>2. SendBody(Tail(inbox), "status")
      BY <1>5, <2>1 DEF WaitTimesOut
    <3> QED
      BY <1>2, <3>1, <3>2
  <2>2. CASE ~FirstIs({"stub"})
    BY <1>1, <1>5, <2>2 DEF WaitTimesOut
  <2> QED
    BY <2>1, <2>2
<1>6. CASE WaitContinues
  <2>1. inbox # <<>>
    BY <1>6 DEF WaitContinues
  <2>2. PICK left \in Dropped(Tail(inbox)) : SendBody(left, "status")
    BY <1>6 DEF WaitContinues
  <2>3. PICK k \in 0..Len(Tail(inbox)) : left = SubSeq(Tail(inbox), k + 1, Len(Tail(inbox)))
    BY <2>2 DEF Dropped
  <2>4. /\ Tail(inbox) \in Seq(ServerUnits) /\ Tells(Tail(inbox))
        /\ ~answered => NoFinal(Tail(inbox))
    BY <1>2, <1>3, <2>1
  <2>5. k \in Nat
    BY <2>3
  <2>6. left \in Seq(ServerUnits) /\ Tells(left) /\ (~answered => NoFinal(left))
    BY <2>3, <2>4, <2>5, TellsRest, NoFinalRest
  <2> QED
    BY <2>2, <2>6
<1> QED
  BY <1>4, <1>5, <1>6

LEMMA StreamWait ==
  ASSUME StreamInv, TunnelInv, WaitTimesOut \/ WaitContinues \/ WaitUnclear
  PROVE  StreamInv'
<1>1. /\ at = "wait" /\ UNCHANGED <<opts, purpose, head, body, trailer, flags>>
  BY DEF WaitTimesOut, WaitContinues, WaitUnclear
<1>2. PICK left \in Seq(ServerUnits) :
        /\ Tells(left)
        /\ ~answered => NoFinal(left)
        /\ SendBody(left, "status")
  BY WaitLeaves
<1> QED
  BY <1>1, <1>2, BodySent

LEMMA StreamSendHeaders ==
  ASSUME StreamInv, TunnelInv, SendHeaders
  PROVE  StreamInv'
<1>1. /\ at = "send" /\ at' = "wait" /\ inbox \in Seq(Plain) /\ opts \in OptionSets
      /\ UNCHANGED <<opts, purpose, head, body, trailer, flags>>
  BY DEF StreamInv, OnStream, SendHeaders, TunnelInv, TunnelTypes
<1>2. inbox \in Seq(ServerUnits) /\ NoFinal(inbox)
  BY <1>1, PlainOnly
<1>3. ReaderInv'
  BY <1>1, NotYetReading DEF StreamInv, BodyPlaces, ReaderPlaces
<1>4. ASSUME inbox' \in Seq(ServerUnits), NoFinal(inbox')
      PROVE  OnStream'
  BY <1>1, <1>4 DEF OnStream, Tells, NoFinal
<1>5. ASSUME NEW before \in Seq(ServerUnits), NoFinal(before), ServerAnswers(before)
      PROVE  OnStream'
  <2>1. ServerTells(before)
    BY <1>1, <1>5, ServerGives
  <2>2. inbox' \in Seq(ServerUnits) /\ Tells(inbox)'
    BY <1>1, <1>5, <2>1, AnswerTells
  <2>3. inbox' = before \/ answered'
    BY <2>1 DEF ServerTells
  <2> QED
    BY <1>1, <1>4, <1>5, <2>2, <2>3 DEF OnStream
<1>6. CASE reaction' \in DOMAIN Interims /\ inbox' = inbox \o Interims[reaction']
  <2>1. Interims[reaction'] \in Seq(ServerUnits) /\ NoFinal(Interims[reaction'])
    BY <1>6, InterimsAre
  <2>2. inbox' \in Seq(ServerUnits) /\ NoFinal(inbox')
    BY <1>2, <1>6, <2>1, NoFinalJoined
  <2> QED
    BY <1>3, <1>4, <2>2 DEF StreamInv
<1>7. CASE inbox' = inbox
  BY <1>2, <1>3, <1>4, <1>7 DEF StreamInv
<1>8. CASE ServerAnswers(inbox)
  BY <1>2, <1>3, <1>5, <1>8 DEF StreamInv
<1>9. CASE ServerAnswers(Append(inbox, Continue))
  <2>1. Append(inbox, Continue) \in Seq(ServerUnits) /\ NoFinal(Append(inbox, Continue))
    <3>1. <<Continue>> \in Seq(ServerUnits) /\ NoFinal(<<Continue>>)
      <4>1. "continue" \in DOMAIN Interims /\ Interims["continue"] = <<Continue>>
        BY DEF Interims
      <4> QED
        BY <4>1, InterimsAre
    <3>2. Continue \in ServerUnits
      BY DEF Continue, ServerUnits, InterimHeads
    <3>3. Append(inbox, Continue) = inbox \o <<Continue>>
      BY <1>2, <3>2, AppendIsConcat
    <3> QED
      BY <1>2, <3>1, <3>3, NoFinalJoined
  <2> QED
    BY <1>3, <1>5, <1>9, <2>1 DEF StreamInv
<1> QED
  BY <1>6, <1>7, <1>8, <1>9 DEF SendHeaders

LEMMA StreamSendAll ==
  ASSUME StreamInv, TunnelInv, SendAll
  PROVE  StreamInv'
<1>1. /\ at = "send" /\ at' = "status" /\ inbox \in Seq(Plain) /\ opts \in OptionSets
      /\ purpose' \in {"answer", "rejected"} /\ ReaderInv
      /\ UNCHANGED <<opts, purpose, head, body, trailer, flags>>
  BY DEF StreamInv, ReaderInv, ReaderTypes, OnStream, SendAll, TunnelInv, TunnelTypes
<1>2. inbox \in Seq(ServerUnits) /\ NoFinal(inbox)
  BY <1>1, PlainOnly
<1>3. CASE ServerAnswers(inbox)
  BY <1>1, <1>2, <1>3, ServerGives, AnswerTells, ReadingBegins
<1>4. CASE inbox' = inbox
  <2>1. inbox' \in Seq(ServerUnits) /\ Tells(inbox)'
    BY <1>2, <1>4 DEF Tells, NoFinal
  <2> QED
    BY <1>1, <2>1, ReadingBegins
<1> QED
  BY <1>3, <1>4 DEF SendAll

LEMMA StreamWaitAnswered ==
  ASSUME StreamInv, WaitAnswered
  PROVE  StreamInv'
<1>1. /\ at = "wait" /\ at' = "status" /\ inbox \in Seq(ServerUnits) /\ Tells(inbox)
      /\ purpose' \in {"answer", "rejected"} /\ ReaderInv
      /\ UNCHANGED <<opts, inbox, meant, head, body, trailer, flags>>
  BY DEF StreamInv, OnStream, WaitAnswered
<1>2. inbox' \in Seq(ServerUnits) /\ Tells(inbox)'
  BY <1>1 DEF Tells, BodyUnitsOf
<1> QED
  BY <1>1, <1>2, ReadingBegins

LEMMA StreamConnects ==
  ASSUME StreamInv, TunnelInv, Connect \/ Tls \/ WaitBreaks
  PROVE  StreamInv'
<1>1. /\ at \in {"connect", "tls", "wait"} /\ at' # "wait"
      /\ UNCHANGED <<opts, purpose, head, body, trailer, flags>>
  BY DEF Connect, Tls, WaitBreaks, Fails, rvars
<1>2. /\ at \notin BodyPlaces \union {"done"} /\ at' \notin ReaderPlaces
      /\ at' = "send" => inbox' \in Seq(Plain)
  <2>1. CASE Connect
    BY <2>1, EmptySeq DEF Connect, BodyPlaces, ReaderPlaces
  <2>2. CASE Tls
    BY <2>2 DEF Tls, Fails, TunnelInv, Unread, BodyPlaces, ReaderPlaces
  <2>3. CASE WaitBreaks
    BY <2>3 DEF WaitBreaks, Fails, BodyPlaces, ReaderPlaces
  <2> QED
    BY <2>1, <2>2, <2>3
<1>3. ReaderInv'
  BY <1>1, <1>2, NotYetReading DEF StreamInv
<1> QED
  BY <1>1, <1>2, <1>3 DEF StreamInv, OnStream

LEMMA StreamEnds ==
  ASSUME StreamInv, Reconnect \/ Return
  PROVE  StreamInv'
<1>1. ReaderTypes /\ at = "end"
  BY DEF StreamInv, ReaderInv, Reconnect, Return
<1>2. CASE Reconnect
  <2>1. at' = "connect" /\ Unstarted' /\ ReaderTypes'
    BY <1>1, <1>2, EmptySeq DEF Reconnect, Unstarted, ReaderTypes, BodyPlaces
  <2> QED
    BY <2>1 DEF StreamInv, OnStream, ReaderInv, BodyPlaces
<1>3. CASE Return
  <2>1. /\ at' = "done" /\ purpose = "answer" /\ Delivered
        /\ UNCHANGED <<opts, purpose, head, body, trailer, flags>>
    BY <1>1, <1>3 DEF Return, StreamInv, ReaderInv, rvars
  <2>2. /\ FramedBody' <=> FramedBody
        /\ Limited' <=> Limited
        /\ Coded' <=> Coded
        /\ WholeSize' = WholeSize
    BY <2>1 DEF FramedBody, NoBody, IsHead, BodyMode, Raw, Limited, IsRedirect, Coded,
                Decompress, WholeSize
  <2>3. ReaderTypes' /\ Delivered'
    BY <1>1, <2>1, <2>2 DEF ReaderTypes, BodyPlaces, Delivered
  <2> QED
    BY <2>1, <2>3 DEF StreamInv, OnStream, ReaderInv, BodyPlaces
<1> QED
  BY <1>2, <1>3

LEMMA StreamStays ==
  ASSUME StreamInv, UNCHANGED vars
  PROVE  StreamInv'
<1>1. UNCHANGED <<at, opts, purpose, inbox, head, body, trailer, flags, meant, error,
                  answered>>
  BY DEF vars, rvars, dvars
<1>2. /\ Limited' <=> Limited
      /\ FramedBody' <=> FramedBody
      /\ BodyMode(head)' = BodyMode(head)
      /\ Coded' <=> Coded
      /\ WholeSize' = WholeSize
  BY <1>1 DEF Limited, IsRedirect, FramedBody, NoBody, IsHead, BodyMode, Raw, Coded,
              Decompress, WholeSize
<1>3. ReaderTypes' = ReaderTypes /\ Unstarted' = Unstarted /\ Tells(inbox)' = Tells(inbox)
  BY <1>1 DEF ReaderTypes, Unstarted, Tells, BodyUnitsOf
<1>4. AtLength' = AtLength /\ AtSize' = AtSize /\ Delivered' = Delivered
  BY <1>1, <1>2 DEF AtLength, AtSize, AtChunk, Delivered
<1> QED
  BY <1>1, <1>2, <1>3, <1>4 DEF StreamInv, OnStream, ReaderInv

(* ReaderInv, and what it needs to begin with, hold throughout.            *)
THEOREM StreamHolds == Spec => []StreamInv
<1>1. StreamInv /\ TunnelInv /\ [Next]_vars => StreamInv'
  BY StreamTunnel, StreamReader, StreamConnects, StreamSendAll, StreamSendHeaders,
     StreamWait, StreamWaitAnswered, StreamEnds, StreamStays
  DEF Next, DialogueNext
<1> QED
  BY <1>1, StreamInvInit, TunnelHolds, PTL DEF Spec

----------------------------------------------------------------------------
(* Whose response is read, whether the body has gone out, what the server  *)
(* meant.                                                                  *)
DialoguePlaces ==
  TunnelPlaces \union ReaderPlaces \union {"connect", "tls", "send", "wait", "done"}

Placed ==
  /\ at \in DialoguePlaces
  /\ round \in {1, 2}
  /\ armed \in BOOLEAN /\ interim \in BOOLEAN
  /\ answered \in BOOLEAN /\ bodySent \in BOOLEAN
  /\ at \in ReaderPlaces \/ (at = "done" /\ error # "none") \/ purpose = "answer"
  /\ at \in TunnelPlaces \union {"tls", "send"} => ~bodySent /\ ~answered
  /\ at = "wait" => ~bodySent
  /\ at # "done" => error = "none"
  /\ answered /\ at \in ReaderPlaces \union {"send", "wait"} => meant \in AnswerSpace

LEMMA PlacedInit ==
  ASSUME Init
  PROVE  Placed
<1>1. at = "connect" /\ round = 1 /\ purpose = "answer" /\ error = "none"
  BY DEF Init, ReaderInit
<1>2. armed \in BOOLEAN /\ interim \in BOOLEAN /\ answered \in BOOLEAN /\ bodySent \in BOOLEAN
  BY Zenon DEF Init, ReaderInit
<1> QED
  BY <1>1, <1>2 DEF Placed, DialoguePlaces, TunnelPlaces, ConnectPlaces, SocksPlaces,
                    Reading, Judging, ReaderPlaces, BodyPlaces

LEMMA PlacedTunnel ==
  ASSUME Placed, TunnelNext, UNCHANGED <<rvars, dvars>>
  PROVE  Placed'
<1>1. /\ at \in TunnelPlaces /\ at' \in TunnelPlaces \union {"connect", "tls", "done"}
      /\ UNCHANGED <<armed, round>>
      /\ at' # "done" => error' = error
  BY TunnelStep DEF TunnelMoves
<1>2. UNCHANGED <<purpose, meant, interim, answered, bodySent>>
  BY DEF rvars, dvars
<1>3. at \notin ReaderPlaces /\ at # "done" /\ at' \notin ReaderPlaces \union {"send", "wait"}
  BY <1>1 DEF TunnelPlaces, ConnectPlaces, SocksPlaces, Reading, Judging, ReaderPlaces,
              BodyPlaces
<1> QED
  BY <1>1, <1>2, <1>3 DEF Placed, DialoguePlaces

LEMMA PlacedReader ==
  ASSUME Placed, ReaderNext, UNCHANGED <<tvars, dvars>>
  PROVE  Placed'
<1>1. ReaderMoves /\ UNCHANGED <<answered, bodySent>>
  BY ReaderStep DEF dvars
<1>2. interim' = interim \/ interim' = TRUE
  BY DEF ReaderNext, ReadNothing, ReadInterim, ReadNotHttp, ReadHead, ReadLength,
         ReadToEnd, ReadSizeFails, ReadChunk, ReadTrailers, Decode
<1>3. interim' \in BOOLEAN
  BY <1>2, Zenon DEF Placed
<1>4. /\ at \in ReaderPlaces /\ at # "done" /\ at' \in ReaderPlaces \union {"done"}
      /\ at' \notin TunnelPlaces \union {"tls", "send", "wait"}
      /\ at' = "done" => error' # "none"
      /\ at' # "done" => error' = error
      /\ UNCHANGED <<armed, round, meant>>
  BY <1>1 DEF ReaderMoves, ReaderPlaces, BodyPlaces, TunnelPlaces, ConnectPlaces,
              SocksPlaces, Reading, Judging
<1> QED
  BY <1>1, <1>3, <1>4 DEF Placed, DialoguePlaces

LEMMA PlacedConnects ==
  ASSUME TunnelInv, Placed, Connect \/ Tls \/ WaitBreaks
  PROVE  Placed'
<1>1. /\ at \in {"connect", "tls", "wait"} /\ UNCHANGED <<round, interim, purpose, meant>>
      /\ purpose = "answer"
  BY DEF Connect, Tls, WaitBreaks, rvars, Placed, ReaderPlaces, BodyPlaces
<1>2. at' \in {"send", "tls", "tunnel", "socks", "done"}
  BY DEF Connect, Tls, WaitBreaks, Fails
<1>3. at' # "done" => ~answered' /\ ~bodySent' /\ error' = error
  BY DEF Connect, Tls, WaitBreaks, Fails, Placed, dvars
<1>4. armed' \in BOOLEAN /\ answered' \in BOOLEAN /\ bodySent' \in BOOLEAN
  <2>1. CASE Connect
    BY <2>1, Zenon DEF Connect
  <2>2. CASE Tls \/ WaitBreaks
    BY <2>2, Zenon DEF Tls, WaitBreaks, Placed, dvars
  <2> QED
    BY <2>1, <2>2
<1> QED
  BY <1>1, <1>2, <1>3, <1>4
  DEF Placed, DialoguePlaces, TunnelPlaces, ConnectPlaces, SocksPlaces, ReaderPlaces,
      BodyPlaces, Reading, Judging

LEMMA PlacedSends ==
  ASSUME TunnelInv, Placed, SendAll \/ SendHeaders
  PROVE  Placed'
<1>1. /\ at = "send" /\ at' \in {"status", "wait"} /\ opts \in OptionSets
      /\ UNCHANGED <<round, interim, purpose, armed, error>>
      /\ purpose = "answer" /\ ~answered
  BY DEF SendAll, SendHeaders, Placed, ReaderPlaces, BodyPlaces, TunnelInv, TunnelTypes
<1>2. UNCHANGED <<meant, answered>> \/ (meant' \in AnswerSpace /\ answered')
  <2>1. ASSUME NEW before, ServerAnswers(before)
        PROVE  UNCHANGED <<meant, answered>> \/ (meant' \in AnswerSpace /\ answered')
    BY <1>1, <2>1, ServerGives DEF ServerTells
  <2> QED
    BY <2>1, Zenon DEF SendAll, SendHeaders
<1>3. answered' \in BOOLEAN /\ (at' = "wait" => ~bodySent') /\ bodySent' \in BOOLEAN
  <2>1. bodySent' = bodySent \/ bodySent' \in BOOLEAN
    BY DEF SendAll, SendHeaders, HoldsBody
  <2>2. at' = "wait" => ~bodySent'
    BY DEF SendAll, SendHeaders, Placed
  <2>3. answered' = answered \/ answered' = TRUE
    <3>1. ASSUME NEW before, ServerAnswers(before)
          PROVE  answered' = answered \/ answered' = TRUE
      BY <1>1, <3>1, ServerGives DEF ServerTells
    <3> QED
      BY <3>1, Zenon DEF SendAll, SendHeaders
  <2> QED
    BY <2>1, <2>2, <2>3, Zenon DEF Placed
<1> QED
  BY <1>1, <1>2, <1>3 DEF Placed, DialoguePlaces, TunnelPlaces, ConnectPlaces,
     SocksPlaces, ReaderPlaces, BodyPlaces, Reading, Judging

LEMMA PlacedWaits ==
  ASSUME TunnelInv, Placed, WaitTimesOut \/ WaitContinues \/ WaitUnclear \/ WaitAnswered
  PROVE  Placed'
<1>1. /\ at = "wait" /\ opts \in OptionSets /\ ~bodySent
      /\ UNCHANGED <<round, interim>> /\ armed' = FALSE
  BY DEF WaitTimesOut, WaitContinues, WaitUnclear, WaitAnswered, Placed, TunnelInv,
         TunnelTypes
<1>2. CASE WaitAnswered
  <2>1. at' = "status" /\ UNCHANGED <<meant, answered, bodySent, error>>
    BY <1>2 DEF WaitAnswered, dvars
  <2> QED
    BY <1>1, <2>1 DEF Placed, DialoguePlaces, TunnelPlaces, ConnectPlaces,
       SocksPlaces, ReaderPlaces, BodyPlaces, Reading, Judging
<1>3. CASE WaitTimesOut \/ WaitContinues \/ WaitUnclear
  <2>1. PICK left : SendBody(left, "status")
    BY <1>3, Zenon DEF WaitTimesOut, WaitContinues, WaitUnclear
  <2>2. /\ at' \in {"status", "done"} /\ purpose' = purpose /\ purpose = "answer"
        /\ at' # "done" => error' = error
    BY <1>1, <1>3, <2>1
    DEF SendBody, Fails, WaitTimesOut, WaitContinues, WaitUnclear, Placed, ReaderPlaces,
        BodyPlaces
  <2>3. \/ UNCHANGED <<meant, answered>>
        \/ meant' \in AnswerSpace /\ answered' = TRUE
    <3>1. CASE ServerAnswers(left)
      BY <1>1, <3>1, ServerGives DEF ServerTells
    <3> QED
      BY <2>1, <3>1, Zenon DEF SendBody
  <2>4. bodySent' = bodySent \/ bodySent' = TRUE
    BY <2>1, Zenon DEF SendBody
  <2>5. answered' \in BOOLEAN /\ bodySent' \in BOOLEAN
    BY <2>3, <2>4, Zenon DEF Placed
  <2> QED
    BY <1>1, <2>2, <2>3, <2>5 DEF Placed, DialoguePlaces, TunnelPlaces, ConnectPlaces,
       SocksPlaces, ReaderPlaces, BodyPlaces, Reading, Judging
<1> QED
  BY <1>2, <1>3

LEMMA PlacedEnds ==
  ASSUME Placed, Reconnect \/ Return
  PROVE  Placed'
<1>1. /\ at' \in {"connect", "done"} /\ purpose' = "answer" /\ round' \in {1, 2}
      /\ UNCHANGED <<armed, answered, bodySent, error>> /\ at # "done"
  BY DEF Reconnect, Return, Placed, rvars
<1>2. interim' = interim \/ interim' = FALSE
  BY DEF Reconnect, Return, rvars
<1>3. interim' \in BOOLEAN
  BY <1>2, Zenon DEF Placed
<1> QED
  BY <1>1, <1>3 DEF Placed, DialoguePlaces, TunnelPlaces, ConnectPlaces,
       SocksPlaces, ReaderPlaces, BodyPlaces, Reading, Judging

(* The request is where it is for one reason: nothing of body or answer    *)
(* before it is sent, and an answer once the server has given it.          *)
THEOREM PlacedHolds == Spec => []Placed
<1>1. Placed /\ UNCHANGED vars => Placed'
  BY DEF Placed, vars, rvars, dvars
<1>2. Placed /\ TunnelInv /\ [Next]_vars => Placed'
  BY <1>1, PlacedTunnel, PlacedReader, PlacedConnects, PlacedSends, PlacedWaits,
     PlacedEnds
  DEF Next, DialogueNext
<1> QED
  BY <1>2, PlacedInit, TunnelHolds, PTL DEF Spec

(* A response returned without any sign of an error, whose header block    *)
(* told where its body ends, has all of that body.                         *)
THEOREM CleanMeansComplete == Spec => []CleanIsComplete
<1>1. StreamInv /\ Placed => CleanIsComplete
  BY DEF StreamInv, ReaderInv, Delivered, Placed, CleanIsComplete, Returned, ReaderPlaces,
         BodyPlaces
<1> QED
  BY <1>1, StreamHolds, PlacedHolds, PTL

(* --max-filesize bounds the content of a framed response as the server    *)
(* sent it: not its trailers, nor what coded content decodes to.           *)
THEOREM BodyStaysWithinCap == Spec => []BodyWithinCap
<1>1. StreamInv /\ Placed => BodyWithinCap
  BY DEF StreamInv, ReaderInv, Delivered, Limited, Placed, BodyWithinCap, Returned,
         ReaderPlaces, BodyPlaces
<1> QED
  BY <1>1, StreamHolds, PlacedHolds, PTL

----------------------------------------------------------------------------
(* Who waits for whom in the Expect dialogue: what lies on the stream when *)
(* the first answer to the headers is judged, and what is still owed when  *)
(* the status line is read.                                                *)
Hints == reaction \in {"hint", "hint_continue"}
OnlyInterims == \A i \in 1..Len(inbox) : IsInterim(inbox[i])
TimerKept == armed = (opts.via # "unix")

Judged ==
  at = "wait" =>
    /\ round = 1 /\ opts.expect # "no"
    /\ inbox # <<>> /\ inbox[1] = Continue => reaction = "continue" \/ CameWith100
    /\ inbox # <<>> /\ inbox[1].u = "head" /\ inbox[1] # Continue =>
         \/ reaction = "answer" /\ answered
         \/ Hints /\ tail = "open" /\ OnlyInterims
    /\ answered <=> reaction \in {"continue_answer", "answer"}

Timed == at \in TunnelPlaces \union {"tls", "send"} => TimerKept

Owed ==
  at = "status" =>
    \/ answered
    \/ tail # "open"
    \/ Hints /\ round = 1
    \/ round = 2 /\ opts.expect = "user" /\ TimerKept

Excused ==
  \/ round = 1 /\ reaction = "answer"
  \/ round = 2 /\ opts.expect = "user"

Stuck ==
  round = 1 /\ at = "status" /\ ~armed /\ tail = "open" /\ Hints /\ OnlyInterims

Omitted ==
  (at \in ReaderPlaces \/ Returned) /\ opts.expect # "no" /\ ~bodySent =>
    Excused \/ Stuck

LeadComes == \E i \in 1..Len(inbox) : inbox[i] = Lead(meant)

Arrives ==
  answered /\ at \in {"wait", "status"} =>
    \/ CameWith100 /\ round = 1
    \/ meant.sent <= Len(meant.interim)
    \/ LeadComes

Leads == Judged /\ Timed /\ Owed /\ Omitted /\ Arrives

(* At a place outside the Expect dialogue and the response.                *)
LEMMA LeadsElsewhere ==
  ASSUME at' \notin ReaderPlaces \union {"wait"}, (Returned)' => Omitted', Timed'
  PROVE  Leads'
BY DEF Leads, Judged, Owed, Omitted, Arrives, ReaderPlaces

LEMMA LeadsInit ==
  ASSUME Init
  PROVE  Leads
BY DEF Init, Leads, Judged, Timed, Owed, Omitted, Arrives, ReaderPlaces, BodyPlaces,
       TunnelPlaces, ConnectPlaces, SocksPlaces, Reading, Judging, Returned

LEMMA LeadsTunnel ==
  ASSUME Leads, TunnelNext
  PROVE  Leads'
<1>1. /\ at \in TunnelPlaces /\ at' \in TunnelPlaces \union {"connect", "tls", "done"}
      /\ UNCHANGED <<opts, armed>>
  BY TunnelStep DEF TunnelMoves
<1>2. at' = "done" => error' # "none"
  BY DEF TunnelNext, ConnectFirst, ReadFirst, DigestRetry, DrainFirst, KeepFirst,
         ReadDigest, DropSecond, NtlmType1, ReadType1, DropType1, NtlmType3, NoType3,
         ReadType3, Established, Refused, Socks4, Socks5Greet, Socks5Auth, Socks5Request,
         SendConnect, ReadReply, SocksStep, Fails
<1>3. at' \notin ReaderPlaces \union {"wait"} /\ Timed' /\ ~Returned'
  BY <1>1, <1>2 DEF Leads, Timed, TimerKept, TunnelPlaces, ConnectPlaces, SocksPlaces, Reading,
                    Judging, ReaderPlaces, BodyPlaces, Returned
<1> QED
  BY <1>3, LeadsElsewhere

LEMMA LeadsConnects ==
  ASSUME Leads, Connect \/ Tls \/ WaitBreaks \/ Reconnect
  PROVE  Leads'
<1>1. /\ at' \in {"send", "tls", "tunnel", "socks", "done", "connect"}
      /\ at' = "done" => error' # "none"
  BY DEF Connect, Tls, WaitBreaks, Reconnect, Fails
<1>2. at' \notin {"done", "connect"} => TimerKept'
  <2>1. CASE Connect
    BY <2>1 DEF Connect, TimerKept
  <2>2. CASE Tls
    BY <2>2 DEF Tls, TimerKept, Leads, Timed
  <2>3. CASE WaitBreaks \/ Reconnect
    BY <2>3 DEF WaitBreaks, Reconnect, Fails
  <2> QED
    BY <2>1, <2>2, <2>3
<1>3. at' \notin ReaderPlaces \union {"wait"} /\ Timed' /\ ~Returned'
  BY <1>1, <1>2 DEF Timed, TunnelPlaces, ConnectPlaces, SocksPlaces, Reading,
                    Judging, ReaderPlaces, BodyPlaces, Returned
<1> QED
  BY <1>3, LeadsElsewhere

LEMMA LeadsReturn ==
  ASSUME Leads, Return
  PROVE  Leads'
<1>1. /\ at = "end" /\ at' = "done" /\ UNCHANGED <<opts, error, round, reaction, bodySent>>
  BY DEF Return
<1>2. Omitted'
  BY <1>1 DEF Leads, Omitted, Excused, Stuck, ReaderPlaces, BodyPlaces
<1> QED
  BY <1>1, <1>2, LeadsElsewhere
  DEF Timed, TunnelPlaces, ConnectPlaces, SocksPlaces, Reading, Judging, ReaderPlaces, BodyPlaces

----------------------------------------------------------------------------
(* Only an interim response leads from the status line back to it.         *)
LEMMA StaysAtStatus ==
  ASSUME ReaderNext, at' = "status"
  PROVE  at = "status" /\ ReadInterim
<1>1. at' \in {"end", "done"} \/ ~ReadNothing
  BY DEF ReadNothing, Ends, Fails
<1>2. at' \in {"end", "done"} \/ ~ReadNotHttp
  BY DEF ReadNotHttp, Ends, Fails
<1>3. at' \in {"end", "done", "size", "length", "close"} \/ ~ReadHead
  BY DEF ReadHead, Ends, Fails, BodyMode
<1> QED
  BY <1>1, <1>2, <1>3
  DEF ReaderNext, ReadInterim, ReadLength, ReadToEnd, ReadSizeFails, ReadChunk,
      ReadTrailers, Decode, Ends, Fails

(* With nothing but interim responses on a stream that stays open, and no  *)
(* timeout, nothing else is read.                                          *)
LEMMA StuckStays ==
  ASSUME Stuck, ReaderNext, inbox \in Seq(ServerUnits)
  PROVE  ReadInterim
<1>1. at = "status" /\ ~armed /\ tail = "open" /\ OnlyInterims
  BY DEF Stuck
<1>2. inbox # <<>> => IsInterim(inbox[1])
  <2>1. inbox # <<>> => 1 \in 1..Len(inbox)
    BY EmptySeq, LenProperties
  <2> QED
    BY <1>1, <2>1 DEF OnlyInterims
<1>3. ~ReadNothing
  BY <1>1 DEF ReadNothing
<1>4. ~ReadNotHttp /\ ~ReadHead
  BY <1>2 DEF ReadNotHttp, ReadHead, IsInterim
<1>5. ~ReadLength /\ ~ReadToEnd /\ ~ReadSizeFails /\ ~ReadChunk /\ ~ReadTrailers /\ ~Decode
  BY <1>1 DEF ReadLength, ReadToEnd, ReadSizeFails, ReadChunk, ReadTrailers, Decode
<1> QED
  BY <1>3, <1>4, <1>5 DEF ReaderNext

(* What an interim response leaves behind.                                 *)
LEMMA InterimGone ==
  ASSUME ReadInterim, inbox \in Seq(ServerUnits)
  PROVE  /\ OnlyInterims => OnlyInterims'
         /\ meant \in AnswerSpace /\ LeadComes => LeadComes'
<1>1. /\ inbox # <<>> /\ IsInterim(inbox[1]) /\ inbox' = SubSeq(inbox, 1 + 1, Len(inbox))
      /\ UNCHANGED <<opts, meant>>
  BY DEF ReadInterim, Skip
<1>2. /\ Len(inbox) \in Nat /\ Len(inbox) >= 1
      /\ Len(inbox') = Len(inbox) - 1
      /\ \A i \in 1..Len(inbox') : 1 + i \in 1..Len(inbox) /\ inbox'[i] = inbox[1 + i]
  <2>1. Len(inbox) \in Nat /\ Len(inbox) >= 1
    BY <1>1, EmptySeq, LenProperties
  <2>2. 1 \in Nat
    OBVIOUS
  <2> QED
    BY <1>1, <2>1, <2>2, Rest
<1>3. OnlyInterims => OnlyInterims'
  BY <1>2 DEF OnlyInterims, IsInterim
<1>4. ASSUME meant \in AnswerSpace, LeadComes
      PROVE  LeadComes'
  <2>1. PICK i \in 1..Len(inbox) : inbox[i] = Lead(meant)
    BY <1>4 DEF LeadComes
  <2>2. i # 1
    BY <1>1, <1>4, <2>1, LeadIs
  <2>3. i - 1 \in 1..Len(inbox') /\ inbox'[i - 1] = inbox[i]
    <3>1. i - 1 \in 1..Len(inbox') /\ 1 + (i - 1) = i
      BY <1>2, <2>1, <2>2
    <3> QED
      BY <1>2, <3>1
  <2>4. Lead(meant)' = Lead(meant)
    BY <1>1 DEF Lead
  <2> QED
    BY <2>1, <2>3, <2>4 DEF LeadComes
<1> QED
  BY <1>3, <1>4

LEMMA LeadsReader ==
  ASSUME Leads, StreamInv, Placed, ReaderNext, UNCHANGED dvars
  PROVE  Leads'
<1>1. /\ at \in ReaderPlaces /\ at' \in ReaderPlaces \union {"done"}
      /\ at' = "done" => error' # "none"
      /\ UNCHANGED <<opts, armed, round, tail, meant, reaction, answered, bodySent>>
  BY ReaderStep DEF ReaderMoves, dvars, ReaderPlaces, BodyPlaces
<1>2. /\ at' # "wait" /\ at' \notin TunnelPlaces \union {"tls", "send"} /\ ~Returned'
      /\ inbox \in Seq(ServerUnits)
  BY <1>1 DEF ReaderPlaces, BodyPlaces, TunnelPlaces, ConnectPlaces, SocksPlaces, Reading,
              Judging, Returned, StreamInv, ReaderInv, ReaderTypes
<1>3. Stuck => ReadInterim /\ Stuck'
  <2>1. Stuck => ReadInterim
    BY <1>2, StuckStays
  <2>2. ReadInterim /\ OnlyInterims => OnlyInterims' /\ at' = at
    BY <1>2, InterimGone DEF ReadInterim
  <2> QED
    BY <1>1, <2>1, <2>2 DEF Stuck, Hints
<1>4. Omitted'
  BY <1>1, <1>2, <1>3 DEF Leads, Omitted, Excused
<1>5. Owed' /\ Arrives'
  <2>1. CASE at' = "status"
    <3>1. at = "status" /\ ReadInterim
      BY <2>1, StaysAtStatus
    <3>2. answered => meant \in AnswerSpace
      BY <1>1 DEF Placed
    <3>3. answered /\ LeadComes => LeadComes'
      BY <1>2, <3>1, <3>2, InterimGone
    <3>4. Owed'
      BY <1>1, <3>1 DEF Leads, Owed, Hints, TimerKept
    <3>5. CameWith100' <=> CameWith100
      BY <1>1 DEF CameWith100
    <3> QED
      BY <1>1, <3>1, <3>3, <3>4, <3>5 DEF Leads, Arrives
  <2>2. CASE at' # "status"
    BY <1>2, <2>2 DEF Owed, Arrives
  <2> QED
    BY <2>1, <2>2
<1> QED
  BY <1>2, <1>4, <1>5 DEF Leads, Judged, Timed

----------------------------------------------------------------------------
(* The server answers behind units of which none is a final header block.  *)
LEMMA AnswerArrives ==
  ASSUME NEW before \in Seq(ServerUnits), NoFinal(before), ServerTells(before),
         UNCHANGED opts
  PROVE  \/ tail # "open" /\ UNCHANGED <<tail, meant, answered>> /\ inbox' = before
         \/ /\ answered'
            /\ meant'.sent <= Len(meant'.interim) \/ LeadComes'
            /\ \E a \in AnswerSpace : meant' = a /\ inbox' = before \o SentUnits(a)
<1>1. CASE tail # "open" /\ inbox' = before /\ UNCHANGED <<tail, meant, answered>>
  BY <1>1
<1>2. CASE ~(tail # "open" /\ inbox' = before /\ UNCHANGED <<tail, meant, answered>>)
  <2>1. PICK a \in AnswerSpace :
          inbox' = before \o SentUnits(a) /\ meant' = a /\ answered' = TRUE
    BY <1>2 DEF ServerTells
  <2>2. a.sent > Len(a.interim) => \E i \in 1..Len(inbox') : inbox'[i] = Lead(a)
    BY <2>1, SentOnly DEF NoFinal
  <2>3. Lead(meant)' = Lead(a)
    BY <2>1 DEF Lead
  <2>4. a.sent \in Nat /\ Len(a.interim) \in Nat
    BY LenProperties DEF AnswerSpace
  <2>5. meant'.sent <= Len(meant'.interim) \/ LeadComes'
    BY <2>1, <2>2, <2>3, <2>4 DEF LeadComes
  <2> QED
    BY <2>1, <2>5
<1> QED
  BY <1>1, <1>2

LEMMA LeadsSendAll ==
  ASSUME Leads, StreamInv, TunnelInv, Placed, SendAll
  PROVE  Leads'
<1>1. /\ at = "send" /\ at' = "status" /\ opts \in OptionSets
      /\ UNCHANGED <<opts, armed, round, reaction>>
      /\ inbox \in Seq(ServerUnits) /\ NoFinal(inbox) /\ ~answered /\ TimerKept
  BY PlainOnly DEF SendAll, StreamInv, OnStream, TunnelInv, TunnelTypes, Placed, Leads, Timed
<1>2. round \in {1, 2} /\ opts.expect \in {"no", "auto", "user"}
  BY <1>1, WireAssumption DEF Placed, OptionSpace
<1>3. HoldsBody => round = 2 /\ opts.expect = "user"
  BY <1>2 DEF SendAll, HoldsBody
<1>4. ~HoldsBody => bodySent'
  BY DEF SendAll
<1>5. Owed' /\ Arrives'
  <2>1. CASE ServerAnswers(inbox)
    <3>1. ServerTells(inbox)
      BY <1>1, <2>1, ServerGives
    <3> QED
      BY <1>1, <3>1, AnswerArrives DEF Owed, Arrives
  <2>2. CASE HoldsBody /\ UNCHANGED <<inbox, tail, meant, answered>>
    BY <1>1, <1>3, <2>2 DEF Owed, Arrives, TimerKept
  <2> QED
    BY <2>1, <2>2 DEF SendAll
<1>6. Omitted'
  BY <1>1, <1>3, <1>4 DEF Omitted, Excused
<1>7. Judged' /\ Timed'
  BY <1>1 DEF Judged, Timed, TunnelPlaces, ConnectPlaces, SocksPlaces, Reading, Judging
<1> QED
  BY <1>5, <1>6, <1>7 DEF Leads

(* What an interim response or a stub that comes first tells.              *)
LEMMA InterimsFirst ==
  ASSUME NEW r \in DOMAIN Interims, Interims[r] # <<>>
  PROVE  /\ Interims[r][1] = Continue => r = "continue"
         /\ Interims[r][1].u = "head" /\ Interims[r][1] # Continue =>
              /\ r \in {"hint", "hint_continue"}
              /\ \A i \in 1..Len(Interims[r]) : IsInterim(Interims[r][i])
<1>1. /\ Continue.u = "head" /\ Continue.st = 100 /\ IsInterim(Continue)
      /\ Hint.u = "head" /\ Hint.st = 103 /\ IsInterim(Hint)
  BY DEF Continue, Hint, InterimUnit, HeadUnit, IsInterim
<1>2. Unit("stub").u = "stub" /\ Unit("garbage").u = "garbage"
  BY DEF Unit
<1>3. r \in {"silence", "continue", "hint", "hint_continue", "stub", "garbage"}
  BY DEF Interims
<1>4. CASE r = "silence" \/ r = "continue"
  BY <1>4 DEF Interims
<1>5. CASE r = "hint"
  <2>1. Interims[r] = <<Hint>>
    BY <1>5 DEF Interims
  <2>2. Len(Interims[r]) = 1 /\ Interims[r][1] = Hint
    BY <2>1
  <2> QED
    BY <1>1, <1>5, <2>2
<1>6. CASE r = "hint_continue"
  <2>1. Interims[r] = <<Hint, Continue>>
    BY <1>6 DEF Interims
  <2>2. Len(Interims[r]) = 2 /\ Interims[r][1] = Hint /\ Interims[r][2] = Continue
    BY <2>1
  <2> QED
    BY <1>1, <1>6, <2>2
<1>7. CASE r = "stub"
  <2>1. Interims[r][1] = Unit("stub")
    BY <1>7 DEF Interims
  <2> QED
    BY <1>1, <1>2, <2>1
<1>8. CASE r = "garbage"
  <2>1. Interims[r][1] = Unit("garbage")
    BY <1>8 DEF Interims
  <2> QED
    BY <1>1, <1>2, <2>1
<1> QED
  BY <1>3, <1>4, <1>5, <1>6, <1>7, <1>8

(* Behind units a proxy left, the first one is no header block.            *)
LEMMA FirstBehind ==
  ASSUME NEW s \in Seq(Plain), NEW t \in Seq(ServerUnits)
  PROVE  LET st == s \o t
         IN  \/ s = <<>> /\ st = t
             \/ st # <<>> /\ st[1].u # "head" /\ st[1] # Continue
<1> DEFINE st == s \o t
<1>1. s \in Seq(ServerUnits)
  BY PlainOnly
<1>2. CASE s = <<>>
  BY <1>2, ConcatEmptySeq
<1>3. CASE s # <<>>
  <2>1. 1 \in 1..Len(s) /\ Len(s) \in Nat /\ Len(t) \in Nat
    BY <1>1, <1>3, EmptySeq, LenProperties
  <2>2. s[1] \in Plain
    BY <2>1, ElementOfSeq
  <2>3. /\ st \in Seq(ServerUnits) /\ Len(st) = Len(s) + Len(t)
        /\ st[1] = s[1]
    BY <1>1, <2>1, Joined
  <2>4. st # <<>>
    BY <2>1, <2>3, EmptySeq
  <2>5. s[1].u # "head" /\ Continue.u = "head"
    BY <2>2, PlainKind DEF PlainKinds, Continue, InterimUnit, HeadUnit
  <2> QED
    BY <2>3, <2>4, <2>5
<1> QED
  BY <1>2, <1>3

LEMMA SentTyped ==
  ASSUME NEW a \in AnswerSpace
  PROVE  SentUnits(a) \in Seq(ServerUnits)
<1> DEFINE units == AnswerUnits(a)
           k == IF a.sent < Len(units) THEN a.sent ELSE Len(units)
<1>1. units \in Seq(ServerUnits) /\ Len(units) \in Nat /\ a.sent \in Nat
  BY AnswerIs, LenProperties DEF AnswerSpace
<1>2. k \in Int /\ k <= Len(units)
  BY <1>1
<1>3. SentUnits(a) = SubSeq(units, 1, k)
  BY DEF SentUnits
<1> HIDE DEF units, k
<1> QED
  BY <1>1, <1>2, <1>3, FirstOf

LEMMA BehindAppended ==
  ASSUME NEW s \in Seq(Plain), NEW x \in ServerUnits, NEW t \in Seq(ServerUnits)
  PROVE  LET st == Append(s, x) \o t
         IN  st # <<>> /\ (st[1] = x \/ st[1].u # "head")
<1> DEFINE sx == Append(s, x)
           st == sx \o t
<1>1. s \in Seq(ServerUnits) /\ Len(s) \in Nat /\ Len(t) \in Nat
  BY PlainOnly, LenProperties
<1>2. /\ sx \in Seq(ServerUnits) /\ Len(sx) = Len(s) + 1
      /\ \A i \in 1..Len(s) : sx[i] = s[i]
      /\ sx[Len(s) + 1] = x
  BY <1>1, AppendProperties
<1> HIDE DEF sx
<1>3. /\ st \in Seq(ServerUnits) /\ Len(st) = Len(sx) + Len(t)
      /\ \A i \in 1..Len(sx) : st[i] = sx[i]
  BY <1>2, Joined
<1>4. st # <<>> /\ st[1] = sx[1]
  BY <1>1, <1>2, <1>3, EmptySeq
<1>5. CASE Len(s) = 0
  <2>1. Len(s) + 1 = 1
    BY <1>5
  <2> QED
    BY <1>2, <1>4, <2>1
<1>6. CASE Len(s) # 0
  <2>1. 1 \in 1..Len(s) /\ sx[1] = s[1]
    BY <1>1, <1>2, <1>6
  <2>2. s[1] \in Plain
    BY <2>1, ElementOfSeq
  <2>3. s[1].u # "head"
    BY <2>2, PlainKind DEF PlainKinds
  <2> QED
    BY <1>4, <2>1, <2>3
<1> QED
  BY <1>5, <1>6

LEMMA LeadsSendHeaders ==
  ASSUME Leads, StreamInv, TunnelInv, Placed, SendHeaders
  PROVE  Leads'
<1>1. /\ at = "send" /\ at' = "wait" /\ opts \in OptionSets
      /\ UNCHANGED <<opts, armed, round>> /\ round = 1 /\ opts.expect # "no"
      /\ inbox \in Seq(Plain) /\ ~answered
  BY DEF SendHeaders, StreamInv, OnStream, TunnelInv, TunnelTypes, Placed, HoldsBody
<1>2. inbox \in Seq(ServerUnits) /\ NoFinal(inbox)
  BY <1>1, PlainOnly
<1>3. <<>> \in Seq(ServerUnits) /\ inbox \o <<>> = inbox
  BY <1>1, EmptySeq, ConcatEmptySeq
<1>4. Judged' /\ Arrives' => Leads'
  BY <1>1 DEF Leads, Timed, Owed, Omitted, ReaderPlaces, BodyPlaces, Returned, TunnelPlaces,
              ConnectPlaces, SocksPlaces, Reading, Judging
<1>5. CASE /\ tail = "open" /\ reaction' \in DOMAIN Interims
           /\ inbox' = inbox \o Interims[reaction'] /\ UNCHANGED <<tail, meant, answered>>
  <2> DEFINE r == reaction'
  <2>1. r \in DOMAIN Interims /\ Interims[r] \in Seq(ServerUnits)
    BY <1>5, InterimsAre
  <2>2. Arrives' /\ ~answered'
    BY <1>1, <1>5 DEF Arrives
  <2>5. r \notin {"continue_answer", "answer"}
    BY <2>1 DEF Interims
  <2>3. CASE inbox = <<>> /\ inbox' = Interims[r]
    <3>1. /\ inbox' # <<>> /\ inbox'[1] = Continue => r = "continue"
          /\ inbox' # <<>> /\ inbox'[1].u = "head" /\ inbox'[1] # Continue =>
               r \in {"hint", "hint_continue"} /\ OnlyInterims'
      BY <2>1, <2>3, InterimsFirst DEF OnlyInterims, IsInterim
    <3> QED
      BY <1>1, <1>4, <1>5, <2>2, <2>5, <3>1 DEF Judged, Hints
  <2>4. CASE inbox'[1].u # "head" /\ inbox'[1] # Continue
    BY <1>1, <1>4, <2>2, <2>4, <2>5 DEF Judged
  <2> QED
    BY <1>1, <1>5, <2>1, <2>3, <2>4, FirstBehind
<1>6. CASE reaction' \in {"eof", "reset"} /\ UNCHANGED <<inbox, meant, answered>>
  <2>1. inbox' = <<>> \/ (inbox'[1].u # "head" /\ inbox'[1] # Continue)
    BY <1>1, <1>3, <1>6, FirstBehind
  <2> QED
    BY <1>1, <1>4, <1>6, <2>1 DEF Judged, Arrives
<1>7. CASE /\ tail = "open" /\ reaction' = "continue_answer"
           /\ ServerAnswers(Append(inbox, Continue))
  <2>1. PICK a \in AnswerSpace :
          inbox' = Append(inbox, Continue) \o SentUnits(a) /\ answered' = TRUE
    BY <1>1, <1>7, ServerGives DEF ServerTells
  <2>2. Continue \in ServerUnits /\ SentUnits(a) \in Seq(ServerUnits)
    BY SentTyped DEF Continue, ServerUnits, InterimHeads
  <2>3. inbox' # <<>> /\ inbox'[1] # Continue => inbox'[1].u # "head"
    BY <1>1, <1>2, <2>1, <2>2, BehindAppended
  <2>4. CameWith100'
    BY <1>7 DEF CameWith100
  <2>5. answered' /\ reaction' = "continue_answer"
    BY <1>7, <2>1
  <2> QED
    BY <1>1, <1>4, <2>3, <2>4, <2>5 DEF Judged, Arrives
<1>8. CASE tail = "open" /\ reaction' = "answer" /\ ServerAnswers(inbox)
  <2>1. ServerTells(inbox) /\ reaction' = "answer"
    BY <1>1, <1>8, ServerGives
  <2>2. PICK a \in AnswerSpace :
          /\ answered' /\ meant' = a
          /\ meant'.sent <= Len(meant'.interim) \/ LeadComes'
          /\ inbox' = inbox \o SentUnits(a)
    BY <1>1, <1>2, <1>8, <2>1, AnswerArrives
  <2>3. SentUnits(a) \in Seq(ServerUnits)
    BY SentTyped
  <2>4. inbox' # <<>> /\ inbox'[1] = Continue => CameWith100'
    <3>1. CASE inbox = <<>> /\ inbox' = SentUnits(a)
      <4>1. inbox' # <<>> /\ inbox'[1] = Continue => a.interim # <<>> /\ a.interim[1] = 100
        BY <3>1, SentFirst DEF Continue
      <4>2. reaction' = "answer" /\ meant' = a
        BY <2>1, <2>2
      <4> QED
        BY <4>1, <4>2 DEF CameWith100
    <3>2. CASE inbox' # <<>> /\ inbox'[1] # Continue
      BY <3>2
    <3> QED
      BY <1>1, <2>2, <2>3, <3>1, <3>2, FirstBehind
  <2>5. Judged'
    <3>1. round' = 1 /\ opts'.expect # "no" /\ reaction' = "answer" /\ answered'
      <4>1. round' = 1 /\ opts'.expect # "no"
        BY <1>1
      <4>2. reaction' = "answer" /\ answered'
        BY <2>1, <2>2
      <4> QED
        BY <4>1, <4>2
    <3> QED
      BY <2>4, <3>1 DEF Judged
  <2> QED
    BY <1>4, <2>2, <2>5 DEF Arrives
<1> QED
  BY <1>1, <1>5, <1>6, <1>7, <1>8 DEF SendHeaders

LEMMA LeadsWaitAnswered ==
  ASSUME Leads, WaitAnswered
  PROVE  Leads'
<1>1. /\ at = "wait" /\ inbox # <<>> /\ inbox[1].u = "head" /\ inbox[1] # Continue
      /\ at' = "status" /\ armed' = FALSE
      /\ UNCHANGED <<opts, inbox, tail, round, meant, reaction, answered, bodySent>>
  BY DEF WaitAnswered, dvars
<1>2. /\ round = 1
      /\ (reaction = "answer" /\ answered) \/ (Hints /\ tail = "open" /\ OnlyInterims)
  BY <1>1 DEF Leads, Judged
<1>3. Owed'
  BY <1>1, <1>2 DEF Owed, Hints
<1>4. Excused' \/ Stuck'
  BY <1>1, <1>2 DEF Excused, Stuck, Hints, OnlyInterims, IsInterim
<1>5. Arrives'
  <2>1. /\ LeadComes => LeadComes'
        /\ CameWith100 => CameWith100'
    BY <1>1 DEF LeadComes, CameWith100, Lead
  <2> QED
    BY <1>1, <2>1 DEF Leads, Arrives
<1> QED
  BY <1>1, <1>3, <1>4, <1>5
  DEF Leads, Judged, Timed, Omitted, TunnelPlaces, ConnectPlaces, SocksPlaces, Reading, Judging

LEMMA LeadsBody ==
  ASSUME Leads, TunnelInv, at = "wait",
         NEW left \in Seq(ServerUnits), ~answered => NoFinal(left),
         answered => CameWith100 \/ (LeadComes => \E i \in 1..Len(left) : left[i] = Lead(meant)),
         SendBody(left, "status"), UNCHANGED <<opts, round, reaction>>
  PROVE  Leads'
<1>1. opts \in OptionSets /\ round = 1
  BY DEF TunnelInv, TunnelTypes, Leads, Judged
<1>2. CASE at' = "status" /\ bodySent' = TRUE /\ answered
           /\ inbox' = left /\ UNCHANGED <<tail, meant, answered>>
  <2>1. CameWith100 => CameWith100'
    BY <1>2 DEF CameWith100
  <2>2. ASSUME ~CameWith100, LeadComes
        PROVE  LeadComes'
    <3>1. PICK i \in 1..Len(left) : left[i] = Lead(meant)
      BY <1>2, <2>2
    <3>2. Lead(meant)' = Lead(meant)
      BY <1>2 DEF Lead
    <3> QED
      BY <1>2, <3>1, <3>2 DEF LeadComes
  <2>3. Arrives'
    BY <1>1, <1>2, <2>1, <2>2 DEF Leads, Arrives
  <2> QED
    BY <1>2, <2>3 DEF Leads, Judged, Timed, Owed, Omitted, TunnelPlaces, ConnectPlaces,
                      SocksPlaces, Reading, Judging
<1>3. CASE at' = "status" /\ bodySent' = TRUE /\ ~answered /\ ServerAnswers(left)
  <2>1. ServerTells(left)
    BY <1>1, <1>3, ServerGives
  <2>2. Owed' /\ Arrives'
    BY <1>3, <2>1, AnswerArrives DEF Owed, Arrives
  <2> QED
    BY <1>3, <2>2 DEF Leads, Judged, Timed, Omitted, TunnelPlaces, ConnectPlaces,
                      SocksPlaces, Reading, Judging
<1>4. CASE Fails("failed to send request body")
  <2>1. at' = "done" /\ ~Returned'
    BY <1>4 DEF Fails, Returned
  <2> QED
    BY <2>1, LeadsElsewhere DEF ReaderPlaces, BodyPlaces, Timed, TunnelPlaces, ConnectPlaces,
                                SocksPlaces, Reading, Judging
<1> QED
  BY <1>2, <1>3, <1>4 DEF SendBody

LEMMA LeadsWait ==
  ASSUME Leads, StreamInv, TunnelInv, Placed, WaitTimesOut \/ WaitContinues \/ WaitUnclear
  PROVE  Leads'
<1>1. /\ at = "wait" /\ inbox \in Seq(ServerUnits)
      /\ ~answered => NoFinal(inbox)
      /\ answered => meant \in AnswerSpace
      /\ UNCHANGED <<opts, round, reaction>>
  BY DEF StreamInv, OnStream, Placed, WaitTimesOut, WaitContinues, WaitUnclear
<1>2. ASSUME inbox # <<>>
      PROVE  /\ Tail(inbox) = SubSeq(inbox, 1 + 1, Len(inbox))
             /\ Tail(inbox) \in Seq(ServerUnits) /\ 1 \in Nat
  BY <1>1, <1>2, HeadTailProperties, TailIsSubSeq
<1>3. ASSUME SendBody(inbox, "status")
      PROVE  Leads'
  BY <1>1, <1>3, LeadsBody DEF LeadComes
<1>4. CASE WaitUnclear
  BY <1>3, <1>4 DEF WaitUnclear
<1>5. CASE WaitTimesOut
  <2>1. CASE ~FirstIs({"stub"})
    BY <1>3, <1>5, <2>1 DEF WaitTimesOut
  <2>2. CASE FirstIs({"stub"})
    <3>1. inbox # <<>> /\ inbox[1].u = "stub"
      BY <2>2 DEF FirstIs
    <3> DEFINE left == Tail(inbox)
    <3>2. left \in Seq(ServerUnits) /\ (~answered => NoFinal(left))
      BY <1>1, <1>2, <3>1, NoFinalRest
    <3>3. SendBody(left, "status")
      BY <1>5, <2>2 DEF WaitTimesOut
    <3>4. ASSUME answered, LeadComes
          PROVE  \E i \in 1..Len(left) : left[i] = Lead(meant)
      <4>1. PICK i \in 1..Len(inbox) : inbox[i] = Lead(meant)
        BY <3>4 DEF LeadComes
      <4>2. Lead(meant).u \in {"head", "garbage"}
        BY <1>1, <3>4, LeadIs DEF FinalHeads, Unit
      <4>3. i # 1
        BY <3>1, <4>1, <4>2
      <4>4. /\ Len(inbox) \in Nat
            /\ Len(left) = IF 1 <= Len(inbox) THEN Len(inbox) - 1 ELSE 0
            /\ \A j \in 1..Len(left) : 1 + j \in 1..Len(inbox) /\ left[j] = inbox[1 + j]
        BY <1>1, <1>2, <3>1, Rest, LenProperties
      <4>5. i - 1 \in 1..Len(left) /\ 1 + (i - 1) = i
        BY <4>1, <4>3, <4>4
      <4> QED
        BY <4>1, <4>4, <4>5
    <3> HIDE DEF left
    <3> QED
      BY <1>1, <3>2, <3>3, <3>4, LeadsBody
  <2> QED
    BY <2>1, <2>2
<1>6. CASE WaitContinues
  <2>1. inbox # <<>> /\ inbox[1] = Continue
    BY <1>6 DEF WaitContinues
  <2>2. PICK left \in Dropped(Tail(inbox)) : SendBody(left, "status")
    BY <1>6 DEF WaitContinues
  <2>3. PICK k \in 0..Len(Tail(inbox)) : left = SubSeq(Tail(inbox), k + 1, Len(Tail(inbox)))
    BY <2>2 DEF Dropped
  <2>4. Tail(inbox) \in Seq(ServerUnits) /\ (~answered => NoFinal(Tail(inbox)))
    BY <1>1, <1>2, <2>1, NoFinalRest
  <2>5. k \in Nat
    BY <2>3
  <2>6. left \in Seq(ServerUnits)
    BY <2>3, <2>4, <2>5, Rest
  <2>7. ~answered => NoFinal(left)
    BY <2>3, <2>4, <2>5, NoFinalRest
  <2>8. answered => CameWith100
    BY <1>1, <2>1 DEF Leads, Judged
  <2> QED
    BY <1>1, <2>2, <2>6, <2>7, <2>8, LeadsBody
<1> QED
  BY <1>4, <1>5, <1>6

LEMMA LeadsStays ==
  ASSUME Leads, UNCHANGED vars
  PROVE  Leads'
<1>1. UNCHANGED <<at, opts, inbox, tail, armed, round, meant, error, reaction, answered, bodySent>>
  BY DEF vars, rvars, dvars
<1>2. /\ LeadComes' <=> LeadComes
      /\ OnlyInterims' <=> OnlyInterims
      /\ CameWith100' <=> CameWith100
  BY <1>1 DEF LeadComes, OnlyInterims, CameWith100, Lead, IsInterim
<1>3. Judged' /\ Timed' /\ Owed'
  BY <1>1, <1>2 DEF Leads, Judged, Timed, Owed, Hints, TimerKept
<1>4. Omitted' /\ Arrives'
  BY <1>1, <1>2 DEF Leads, Omitted, Excused, Stuck, Hints, Returned, Arrives
<1> QED
  BY <1>3, <1>4 DEF Leads

(* What is on the stream, who has spoken and what timer runs, at each      *)
(* place of the Expect dialogue, is as Leads says.                         *)
THEOREM LeadsHold == Spec => []Leads
<1>1. Leads /\ TunnelInv /\ StreamInv /\ Placed /\ [Next]_vars => Leads'
  BY LeadsTunnel, LeadsReader, LeadsConnects, LeadsReturn, LeadsSendAll, LeadsSendHeaders,
     LeadsWait, LeadsWaitAnswered, LeadsStays
  DEF Next, DialogueNext
<1> QED
  BY <1>1, LeadsInit, TunnelHolds, StreamHolds, PlacedHolds, PTL DEF Spec

(* Client and server wait for each other without end only after another    *)
(* interim response than the 100 that was due, or over a Unix socket after *)
(* a 417 to the user's own Expect header.                                  *)
THEOREM MutualWaitsAfterHints == Spec => []MutualWaitOnlyAfterHint
<1>1. Leads /\ TunnelInv => MutualWaitOnlyAfterHint
  BY DEF Leads, Owed, Hints, TimerKept, MutualWaitOnlyAfterHint, Silent
<1> QED
  BY <1>1, LeadsHold, TunnelHolds, PTL

(* A response is returned although the body never went out only when the   *)
(* server chose to answer without it, or the user's own Expect header held *)
(* it back once more after a 417.                                          *)
THEOREM BodyOmittedByAnswer == Spec => []BodyOmittedOnlyByAnswer
<1>1. Leads => BodyOmittedOnlyByAnswer
  BY DEF Leads, Omitted, Excused, Stuck, Returned, BodyOmittedOnlyByAnswer
<1> QED
  BY <1>1, LeadsHold, PTL

(* A status line that has come is never waited for, except when it came in *)
(* the same read as the 100.                                               *)
THEOREM AnswersLostWith100 == Spec => []AnswerLostOnlyWith100
<1>1. Leads => AnswerLostOnlyWith100
  <2> SUFFICES ASSUME Leads, inbox = <<>>
               PROVE  ~LeadComes
    BY DEF Leads, Arrives, AnswerLostOnlyWith100
  <2> QED
    BY EmptySeq DEF LeadComes
<1> QED
  BY <1>1, LeadsHold, PTL

----------------------------------------------------------------------------
(* Where each header block heard was kept: those of the CONNECT dialogue,  *)
(* those of the response being read, and those of the first round.         *)
Early == TunnelPlaces \union {"connect", "tls"}
Asking == {"send", "wait"}
Start == mark + Len(acc)
First == heard - Len(heads)
Before == IF at = "connect" THEN heard ELSE mark

Shelved ==
  /\ saved \in [1..2 -> Seq(Nat)]
  /\ at \in Early => heads = <<>> /\ saved[round] = <<>>
  /\ at \in Asking => heads = <<>> /\ heard = Start
  /\ at \in Asking \union ReaderPlaces => saved[round] = acc
  /\ at \in ReaderPlaces => Counts(heads, First) /\ First \in {Start} \union Released
  /\ purpose = "rejected" => round = 1
  /\ round = 1 => saved[2] = <<>> /\ rejected = <<>>
  /\ round = 2 => Between(rejected, 0, Before) /\ Between(saved[1] \o rejected, 0, Before)

(* The blocks shown are in order, and none of the last connection missing. *)
Complete ==
  (mark + 1)..heard \subseteq
     ToSet(out) \union Released \union (IF opts.suppress THEN ToSet(acc) ELSE {})

Ordered ==
  /\ Returned => Between(out, 0, heard) /\ Complete
  /\ ~Returned => out = <<>>

ShelvedInv == Shelved /\ Ordered

LEMMA InOrder ==
  ASSUME ShelvedInv
  PROVE  HeadsInOrder
<1> SUFFICES ASSUME Returned
             PROVE  HeadsInOrder
  BY DEF HeadsInOrder
<1>1. Between(out, 0, heard) /\ Complete
  BY DEF ShelvedInv, Ordered
<1>2. DOMAIN out = 1..Len(out)
  BY <1>1, LenProperties DEF Between
<1>3. \A i, j \in DOMAIN out : i < j => out[i] < out[j]
  BY <1>1, <1>2 DEF Between
<1> QED
  BY <1>1, <1>3 DEF HeadsInOrder, Complete

LEMMA ShelvedInit ==
  ASSUME Init
  PROVE  ShelvedInv
<1>1. /\ at = "connect" /\ round = 1 /\ purpose = "answer" /\ heads = <<>>
      /\ rejected = <<>> /\ out = <<>> /\ saved = <<<<>>, <<>>>>
  BY DEF Init, ReaderInit
<1>2. <<>> \in Seq(Nat)
  BY EmptySeq
<1>3. saved \in [1..2 -> Seq(Nat)] /\ saved[1] = <<>> /\ saved[2] = <<>>
  <2>1. \A e \in Seq(Nat) : /\ <<e, e>> \in [1..2 -> Seq(Nat)]
                          /\ <<e, e>>[1] = e /\ <<e, e>>[2] = e
    OBVIOUS
  <2> QED
    BY <1>1, <1>2, <2>1
<1>4. ~Returned /\ at \in Early /\ at \notin Asking \union ReaderPlaces
  BY <1>1 DEF Returned, Early, Asking, ReaderPlaces, BodyPlaces
<1>5. Shelved
  BY <1>1, <1>3, <1>4 DEF Shelved
<1>6. Ordered
  BY <1>1, <1>4 DEF Ordered
<1> QED
  BY <1>5, <1>6 DEF ShelvedInv

(* Numbers that Kept gives.                                                *)
LEMMA Heard ==
  ASSUME TunnelInv
  PROVE  /\ heard \in Nat /\ mark \in Nat /\ Len(acc) \in Nat /\ Start \in Nat
         /\ Start = mark + Len(acc) /\ mark <= Start /\ Start <= heard
         /\ acc \in Seq(Nat) /\ Counts(acc, mark) /\ Between(acc, mark, Start)
<1>1. Counts(acc, mark) /\ mark + Len(acc) <= heard /\ heard \in Nat /\ mark \in Nat
  BY DEF TunnelInv, TunnelTypes, Kept
<1>2. Len(acc) \in Nat /\ Between(acc, mark, mark + Len(acc)) /\ acc \in Seq(Nat)
  BY <1>1, CountsBetween DEF Counts
<1> QED
  BY <1>1, <1>2 DEF Start

LEMMA ShelvedTunnel ==
  ASSUME ShelvedInv, TunnelInv, TunnelInv', TunnelNext, UNCHANGED <<rvars, dvars>>
  PROVE  ShelvedInv'
<1>1. /\ at \in TunnelPlaces /\ at' \in TunnelPlaces \union {"connect", "tls", "done"}
      /\ UNCHANGED <<opts, round>>
  BY TunnelStep DEF TunnelMoves
<1>2. UNCHANGED <<purpose, heads, saved, rejected, out>>
  BY DEF rvars, dvars
<1>3. at' = "done" => error' # "none"
  BY DEF TunnelNext, ConnectFirst, ReadFirst, DigestRetry, DrainFirst, KeepFirst,
         ReadDigest, DropSecond, NtlmType1, ReadType1, DropType1, NtlmType3, NoType3,
         ReadType3, Established, Refused, Socks4, Socks5Greet, Socks5Auth, Socks5Request,
         SendConnect, ReadReply, SocksStep, Fails
<1>4. /\ at \in Early /\ at # "connect" /\ ~Returned /\ ~Returned'
      /\ at' \in Early \union {"done"} /\ at' \notin Asking \union ReaderPlaces
  BY <1>1, <1>3 DEF Early, Asking, ReaderPlaces, BodyPlaces, TunnelPlaces, ConnectPlaces,
                    SocksPlaces, Reading, Judging, Returned
<1>5. Ordered'
  BY <1>2, <1>4 DEF ShelvedInv, Ordered
<1>6. mark' = mark
  BY DEF TunnelNext, ConnectFirst, ReadFirst, DigestRetry, DrainFirst, KeepFirst,
         ReadDigest, DropSecond, NtlmType1, ReadType1, DropType1, NtlmType3, NoType3,
         ReadType3, Established, Refused, Socks4, Socks5Greet, Socks5Auth, Socks5Request,
         SocksStep, tvars
<1>7. Before \in Nat /\ Before' \in Nat /\ Before <= Before'
  <2>1. mark \in Nat /\ heard' \in Nat /\ mark' <= heard'
    <3>1. (heard \in Nat /\ mark \in Nat /\ Len(acc) \in Nat /\ mark + Len(acc) <= heard)'
      BY Heard DEF TunnelInv, TunnelTypes, Kept, Counts
    <3> QED
      BY <1>6, <3>1
  <2> QED
    BY <1>4, <1>6, <2>1 DEF Before
<1>8. ASSUME round = 2
      PROVE  Between(rejected, 0, Before)' /\ Between(saved[1] \o rejected, 0, Before)'
  <2>1. Between(rejected, 0, Before) /\ Between(saved[1] \o rejected, 0, Before)
    BY <1>8 DEF ShelvedInv, Shelved
  <2>2. Between(rejected, 0, Before') /\ Between(saved[1] \o rejected, 0, Before')
    BY <1>7, <2>1, BetweenWider
  <2> QED
    BY <1>2, <2>2
<1>9. Shelved'
  BY <1>1, <1>2, <1>4, <1>8 DEF ShelvedInv, Shelved
<1> QED
  BY <1>5, <1>9 DEF ShelvedInv

(* Append puts the next block behind those before.                         *)
LEMMA CountsNext ==
  ASSUME heard \in Nat, Counts(heads, First), First \in Nat, HeadsAdvance
  PROVE  Counts(heads', First') /\ First' = First
<1>1. heads \in Seq(Nat) /\ Len(heads) \in Nat
  BY LenProperties DEF Counts
<1>2. CASE UNCHANGED <<heard, heads>>
  BY <1>2 DEF First
<1>3. CASE heard' = heard + 1 /\ heads' = Append(heads, heard + 1)
  <2>1. heard + 1 = First + Len(heads) + 1
    BY <1>1 DEF First
  <2>2. Counts(heads', First) /\ Len(heads') = Len(heads) + 1
    BY <1>3, <2>1, CountsOn
  <2>3. First' = First
    BY <1>1, <1>3, <2>2 DEF First
  <2> QED
    BY <2>2, <2>3
<1> QED
  BY <1>2, <1>3 DEF HeadsAdvance

LEMMA FirstIsNatural ==
  ASSUME TunnelInv, First \in {Start} \union Released
  PROVE  First \in Nat /\ Start <= First /\ First <= Start + 1
BY Heard DEF Released

LEMMA ShelvedReader ==
  ASSUME ShelvedInv, TunnelInv, ReaderNext, UNCHANGED <<tvars, dvars>>
  PROVE  ShelvedInv'
<1>1. /\ at \in ReaderPlaces /\ at # "end"
      /\ at' \in ReaderPlaces \union {"done"}
      /\ at' = "done" => error' # "none"
      /\ HeadsAdvance /\ UNCHANGED <<opts, round, purpose, meant>>
  BY ReaderStep DEF ReaderMoves, ReaderPlaces, BodyPlaces
<1>2. UNCHANGED <<mark, acc, reaction, bodySent, saved, rejected, out>>
  BY DEF tvars, dvars
<1>3. /\ at' \notin Early \union Asking /\ at # "connect" /\ at' # "connect"
      /\ ~Returned /\ ~Returned'
  BY <1>1 DEF Early, Asking, ReaderPlaces, BodyPlaces, TunnelPlaces, ConnectPlaces,
              SocksPlaces, Reading, Judging, Returned
<1>4. Ordered'
  BY <1>2, <1>3 DEF ShelvedInv, Ordered
<1>5. Released' = Released /\ Start' = Start /\ Before' = Before
  BY <1>1, <1>2, <1>3 DEF Released, CameWith100, Start, Before
<1>6. Counts(heads, First)' /\ First' = First
  <2>1. Counts(heads, First) /\ First \in {Start} \union Released
    BY <1>1 DEF ShelvedInv, Shelved
  <2> QED
    BY <1>1, <2>1, FirstIsNatural, CountsNext, Heard
<1>7. Shelved'
  BY <1>1, <1>2, <1>3, <1>5, <1>6 DEF ShelvedInv, Shelved
<1> QED
  BY <1>4, <1>7 DEF ShelvedInv

LEMMA ShelvedConnect ==
  ASSUME ShelvedInv, TunnelInv, Placed, Connect
  PROVE  ShelvedInv'
<1>1. /\ at = "connect" /\ at' \in {"send", "tls", "tunnel", "socks"}
      /\ acc' = <<>> /\ mark' = heard
      /\ UNCHANGED <<heard, heads, round, purpose, saved, rejected, out>>
  BY DEF Connect, rvars
<1>2. /\ at \in Early /\ at' \in Early \union {"send"} /\ at' \notin ReaderPlaces
      /\ ~Returned /\ ~Returned' /\ at' # "connect"
      /\ at' \notin Early => at' \in Asking
  BY <1>1 DEF Early, Asking, ReaderPlaces, BodyPlaces, TunnelPlaces, ConnectPlaces,
              SocksPlaces, Reading, Judging, Returned
<1>3. Ordered'
  BY <1>1, <1>2 DEF ShelvedInv, Ordered
<1>4. Start' = heard' /\ Before' = Before
  BY <1>1, <1>2, Heard, EmptySeq DEF Start, Before
<1>5. Shelved'
  BY <1>1, <1>2, <1>4 DEF ShelvedInv, Shelved
<1> QED
  BY <1>3, <1>5 DEF ShelvedInv

LEMMA ShelvedTls ==
  ASSUME ShelvedInv, TunnelInv, Placed, Tls
  PROVE  ShelvedInv'
<1>1. /\ at = "tls" /\ saved' = [saved EXCEPT ![round] = acc]
      /\ at' = "send" \/ (at' = "done" /\ error' # "none")
      /\ UNCHANGED <<heard, mark, acc, heads, round, purpose, rejected, out>>
  BY DEF Tls, Fails, tvars, rvars
<1>2. /\ at \in Early /\ ~Returned /\ ~Returned' /\ at' \notin Early \union ReaderPlaces
      /\ at' # "connect"
  BY <1>1 DEF Early, ReaderPlaces, BodyPlaces, TunnelPlaces, ConnectPlaces,
              SocksPlaces, Reading, Judging, Returned
<1>3. round \in 1..2 /\ acc \in Seq(Nat) /\ saved \in [1..2 -> Seq(Nat)]
  BY Heard DEF Placed, ShelvedInv, Shelved
<1>4. /\ saved' \in [1..2 -> Seq(Nat)] /\ saved'[round] = acc
      /\ round = 1 => saved'[2] = saved[2]
      /\ round = 2 => saved'[1] = saved[1]
  BY <1>1, <1>3
<1>5. Ordered'
  BY <1>1, <1>2 DEF ShelvedInv, Ordered
<1>6. heard = Start /\ Start' = Start /\ Before' = Before
  BY <1>1, <1>2 DEF TunnelInv, Kept, Start, Before
<1>7. Shelved'
  BY <1>1, <1>2, <1>4, <1>6 DEF ShelvedInv, Shelved
<1> QED
  BY <1>5, <1>7 DEF ShelvedInv

(* Reading begins, with at most the 100 before it that released the body.  *)
LEMMA ShelvedBegins ==
  ASSUME ShelvedInv, TunnelInv, Placed, at \in Asking, at' = "status",
         heard' \in Nat, heard' \in {Start} \union Released',
         purpose' = "rejected" => round = 1,
         UNCHANGED <<mark, acc, heads, round, saved, rejected, out>>
  PROVE  ShelvedInv'
<1>1. /\ at' \in ReaderPlaces /\ at' \notin Early \union Asking
      /\ at # "connect" /\ at' # "connect" /\ ~Returned /\ ~Returned'
  BY DEF Early, Asking, ReaderPlaces, BodyPlaces, TunnelPlaces, ConnectPlaces,
         SocksPlaces, Reading, Judging, Returned
<1>2. Ordered'
  BY <1>1 DEF ShelvedInv, Ordered
<1>3. Start' = Start /\ Before' = Before
  BY <1>1 DEF Start, Before
<1>4. heads = <<>> /\ saved[round] = acc /\ saved \in [1..2 -> Seq(Nat)]
  BY DEF ShelvedInv, Shelved
<1>5. First' = heard' /\ Counts(heads, First)'
  <2>1. heads' = <<>> /\ Len(heads') = 0
    BY <1>4, EmptySeq
  <2>2. First' = heard'
    <3>1. \A h, n \in Nat : n = 0 => h - n = h
      OBVIOUS
    <3>2. First' = heard' - Len(heads')
      BY DEF First
    <3> QED
      BY <2>1, <3>1, <3>2
  <2>3. Counts(<<>>, First')
    BY CountsEmpty
  <2> QED
    BY <2>1, <2>2, <2>3
<1>6. Shelved'
  BY <1>1, <1>3, <1>4, <1>5 DEF ShelvedInv, Shelved
<1> QED
  BY <1>2, <1>6 DEF ShelvedInv

LEMMA ShelvedBreaks ==
  ASSUME ShelvedInv, at \in Asking, at' = "done", error' # "none",
         UNCHANGED <<mark, purpose, round, saved, rejected, out>>
  PROVE  ShelvedInv'
<1>1. /\ at' \notin Early \union Asking \union ReaderPlaces
      /\ at # "connect" /\ at' # "connect" /\ ~Returned /\ ~Returned'
  BY DEF Early, Asking, ReaderPlaces, BodyPlaces, TunnelPlaces, ConnectPlaces,
         SocksPlaces, Reading, Judging, Returned
<1>2. Before' = Before
  BY <1>1 DEF Before
<1>3. Shelved' /\ Ordered'
  BY <1>1, <1>2 DEF ShelvedInv, Shelved, Ordered
<1> QED
  BY <1>3 DEF ShelvedInv

LEMMA ShelvedSends ==
  ASSUME ShelvedInv, TunnelInv, Placed, SendAll \/ SendHeaders
  PROVE  ShelvedInv'
<1>1. /\ at = "send" /\ at \in Asking
      /\ UNCHANGED <<heard, mark, acc, heads, purpose, round, saved, rejected, out>>
      /\ purpose = "rejected" => round = 1
      /\ heard = Start /\ heard \in Nat
  BY Heard DEF SendAll, SendHeaders, tvars, Asking, ShelvedInv, Shelved
<1>2. CASE SendAll
  <2>1. at' = "status"
    BY <1>2 DEF SendAll
  <2> QED
    BY <1>1, <2>1, ShelvedBegins
<1>3. CASE SendHeaders
  <2>1. at' = "wait"
    BY <1>3 DEF SendHeaders
  <2>2. /\ at' \in Asking /\ at' \notin Early \union ReaderPlaces
        /\ at # "connect" /\ at' # "connect" /\ ~Returned /\ ~Returned'
    BY <1>1, <2>1 DEF Early, Asking, ReaderPlaces, BodyPlaces, TunnelPlaces, ConnectPlaces,
         SocksPlaces, Reading, Judging, Returned
  <2>3. Before' = Before /\ Start' = Start
    BY <1>1, <2>2 DEF Before, Start
  <2>4. Shelved' /\ Ordered'
    BY <1>1, <2>2, <2>3 DEF ShelvedInv, Shelved, Ordered
  <2> QED
    BY <2>4 DEF ShelvedInv
<1> QED
  BY <1>2, <1>3

LEMMA ShelvedWaits ==
  ASSUME ShelvedInv, TunnelInv, Placed, Leads,
         WaitTimesOut \/ WaitContinues \/ WaitAnswered \/ WaitUnclear \/ WaitBreaks
  PROVE  ShelvedInv'
<1>1. /\ at = "wait" /\ at \in Asking /\ round = 1
      /\ UNCHANGED <<mark, acc, heads, round, saved, rejected, out, reaction>>
      /\ heard = Start /\ heard \in Nat
  BY Heard DEF WaitTimesOut, WaitContinues, WaitAnswered, WaitUnclear, WaitBreaks,
               tvars, rvars, dvars, Asking, ShelvedInv, Shelved, Leads, Judged
<1>2. CASE WaitAnswered
  <2>1. at' = "status" /\ heard' = heard
    BY <1>2 DEF WaitAnswered
  <2> QED
    BY <1>1, <2>1, ShelvedBegins
<1>3. CASE WaitBreaks
  <2>1. at' = "done" /\ error' # "none" /\ purpose' = purpose
    BY <1>3 DEF WaitBreaks, Fails, rvars
  <2> QED
    BY <1>1, <2>1, ShelvedBreaks
<1>4. CASE WaitTimesOut \/ WaitContinues \/ WaitUnclear
  <2>1. PICK left : SendBody(left, "status")
    BY <1>4, Zenon DEF WaitTimesOut, WaitContinues, WaitUnclear
  <2>2. purpose' = purpose
    BY <1>4 DEF WaitTimesOut, WaitContinues, WaitUnclear
  <2>3. CASE Fails("failed to send request body")
    BY <1>1, <2>2, <2>3, ShelvedBreaks DEF Fails
  <2>4. CASE ~Fails("failed to send request body")
    <3>1. at' = "status" /\ bodySent' = TRUE
      BY <2>1, <2>4 DEF SendBody
    <3>2. CASE ~WaitContinues
      <4>1. heard' = heard
        BY <1>4, <3>2 DEF WaitTimesOut, WaitUnclear
      <4> QED
        BY <1>1, <3>1, <4>1, ShelvedBegins
    <3>3. CASE WaitContinues
      <4>1. heard' = heard + 1 /\ inbox # <<>> /\ inbox[1] = Continue
        BY <3>3 DEF WaitContinues
      <4>2. reaction = "continue" \/ CameWith100
        BY <1>1, <4>1 DEF Leads, Judged
      <4>3. reaction = "answer" => answered
        BY <1>1 DEF Leads, Judged
      <4>4. answered => meant' = meant
        BY <2>1, <2>4 DEF SendBody
      <4>5. reaction' = "continue" \/ CameWith100'
        BY <1>1, <4>2, <4>3, <4>4 DEF CameWith100
      <4>6. heard' \in Released'
        BY <1>1, <3>1, <4>1, <4>5 DEF Released, Start
      <4> QED
        BY <1>1, <3>1, <4>1, <4>6, ShelvedBegins
    <3> QED
      BY <3>2, <3>3
  <2> QED
    BY <2>3, <2>4
<1> QED
  BY <1>2, <1>3, <1>4

LEMMA ShelvedReconnect ==
  ASSUME ShelvedInv, TunnelInv, Placed, Reconnect
  PROVE  ShelvedInv'
<1>1. /\ at = "end" /\ at' = "connect" /\ purpose = "rejected" /\ purpose' = "answer"
      /\ rejected' = heads /\ heads' = <<>> /\ round' = 2
      /\ UNCHANGED <<heard, saved, out>>
  BY DEF Reconnect
<1>2. /\ at \in ReaderPlaces /\ at' \in Early /\ at' \notin Asking \union ReaderPlaces
      /\ ~Returned /\ ~Returned'
  BY <1>1 DEF Early, Asking, ReaderPlaces, BodyPlaces, TunnelPlaces, ConnectPlaces,
         SocksPlaces, Reading, Judging, Returned
<1>3. /\ round = 1 /\ saved[1] = acc /\ saved[2] = <<>> /\ saved \in [1..2 -> Seq(Nat)]
      /\ Counts(heads, First) /\ First \in {Start} \union Released
  BY <1>1, <1>2 DEF ShelvedInv, Shelved
<1>4. /\ First \in Nat /\ Start <= First /\ Len(heads) \in Nat
      /\ Between(heads, First, First + Len(heads))
  BY <1>3, FirstIsNatural, CountsBetween
<1>5. /\ heard \in Nat /\ mark \in Nat /\ Start \in Nat /\ mark <= Start
      /\ Between(acc, mark, Start) /\ First + Len(heads) = heard
  BY <1>4, Heard DEF First
<1>6. Between(heads, Start, heard)
  BY <1>4, <1>5, BetweenWider
<1>7. Between(acc \o heads, mark, heard)
  BY <1>4, <1>5, <1>6, BetweenJoined
<1>8. Between(heads, 0, heard) /\ Between(acc \o heads, 0, heard)
  <2>1. 0 \in Nat /\ 0 <= mark /\ 0 <= Start /\ heard <= heard
    BY <1>5
  <2>2. Between(heads, 0, heard)
    BY <1>5, <1>6, <2>1, BetweenWider
  <2>3. Between(acc \o heads, 0, heard)
    BY <1>5, <1>7, <2>1, BetweenWider
  <2> QED
    BY <2>2, <2>3
<1>9. Before' = heard
  BY <1>1 DEF Before
<1>10. Shelved'
  BY <1>1, <1>2, <1>3, <1>8, <1>9 DEF Shelved
<1>11. Ordered'
  BY <1>1, <1>2 DEF ShelvedInv, Ordered
<1> QED
  BY <1>10, <1>11 DEF ShelvedInv

(* What is shown of the CONNECT dialogue: all of it or nothing.            *)
LEMMA ShownIs ==
  ASSUME NEW r
  PROVE  /\ Shown(r) = <<>> \/ Shown(r) = saved[r]
         /\ ~opts.suppress => Shown(r) = saved[r]
BY DEF Shown

LEMMA InJoined ==
  ASSUME NEW s \in Seq(Nat), NEW t \in Seq(Nat)
  PROVE  ToSet(s) \union ToSet(t) \subseteq ToSet(s \o t)
<1> DEFINE st == s \o t
<1>1. /\ st \in Seq(Nat) /\ Len(st) = Len(s) + Len(t)
      /\ \A i \in 1..Len(s) : st[i] = s[i]
      /\ \A i \in 1..Len(t) : st[Len(s) + i] = t[i]
  BY Joined
<1>2. Len(s) \in Nat /\ Len(t) \in Nat
  BY LenProperties
<1> HIDE DEF st
<1>3. /\ DOMAIN s = 1..Len(s) /\ DOMAIN t = 1..Len(t) /\ DOMAIN st = 1..Len(st)
  BY <1>1, LenProperties
<1>4. \A i \in 1..Len(s) : i \in 1..Len(st)
  BY <1>1, <1>2
<1>5. \A i \in 1..Len(t) : Len(s) + i \in 1..Len(st)
  BY <1>1, <1>2
<1>6. \A i \in DOMAIN s : \E j \in DOMAIN st : st[j] = s[i]
  BY <1>1, <1>3, <1>4
<1>7. \A i \in DOMAIN t : \E j \in DOMAIN st : st[j] = t[i]
  BY <1>1, <1>3, <1>5
<1> QED
  BY <1>6, <1>7 DEF ToSet, st

LEMMA InCounted ==
  ASSUME NEW s, NEW m \in Nat, Counts(s, m), NEW n \in Nat, m < n, n <= m + Len(s)
  PROVE  n \in ToSet(s)
<1>1. Len(s) \in Nat /\ DOMAIN s = 1..Len(s)
  BY LenProperties DEF Counts
<1>2. n - m \in 1..Len(s) /\ m + (n - m) = n
  BY <1>1
<1>3. s[n - m] = n
  BY <1>2 DEF Counts
<1> QED
  BY <1>1, <1>2, <1>3 DEF ToSet

(* Both rounds, put together in order.                                     *)
LEMMA ReturnsInOrder ==
  ASSUME ShelvedInv, TunnelInv, Placed, Return
  PROVE  Between(out', 0, heard)
<1>1. /\ at = "end" /\ at \in ReaderPlaces /\ round \in {1, 2}
      /\ out' = Shown(1) \o rejected \o Shown(2) \o heads
  BY DEF Return, ReaderPlaces, BodyPlaces, Placed
<1>2. /\ saved[round] = acc /\ Counts(heads, First) /\ First \in {Start} \union Released
  BY <1>1 DEF ShelvedInv, Shelved
<1>3. /\ First \in Nat /\ Start <= First /\ Len(heads) \in Nat
      /\ Between(heads, First, First + Len(heads))
  BY <1>2, FirstIsNatural, CountsBetween
<1>4. /\ heard \in Nat /\ mark \in Nat /\ Start \in Nat /\ mark <= Start
      /\ Between(acc, mark, Start) /\ First + Len(heads) = heard /\ Start <= heard
      /\ 0 \in Nat /\ 0 <= mark
  BY <1>3, Heard DEF First
<1>5. Between(heads, Start, heard)
  BY <1>3, <1>4, BetweenWider
<1> DEFINE front == Shown(1) \o rejected
           whole == front \o Shown(2)
<1>6. Between(whole, 0, Start)
  <2>1. CASE round = 1
    <3>1. rejected = <<>> /\ saved[2] = <<>> /\ Shown(2) = <<>>
      BY <2>1, ShownIs DEF ShelvedInv, Shelved
    <3>2. Between(Shown(1), mark, Start)
      BY <1>2, <1>4, <2>1, ShownIs, BetweenEmpty
    <3>3. Between(Shown(1), 0, Start)
      <4>1. Start <= Start
        BY <1>4
      <4> QED
        BY <1>4, <3>2, <4>1, BetweenWider
    <3>4. Shown(1) \in Seq(Nat)
      BY <3>2 DEF Between
    <3>5. whole = Shown(1)
      BY <3>1, <3>4, ConcatEmptySeq
    <3> QED
      BY <3>3, <3>5
  <2>2. CASE round = 2
    <3>1. Before = mark
      BY <1>1 DEF Before
    <3>2. Between(rejected, 0, mark) /\ Between(saved[1] \o rejected, 0, mark)
      BY <2>2, <3>1 DEF ShelvedInv, Shelved
    <3>3. rejected \in Seq(Nat)
      BY <3>2 DEF Between
    <3>4. <<>> \o rejected = rejected
      BY <3>3, ConcatEmptySeq
    <3>5. Between(front, 0, mark)
      <4>1. CASE Shown(1) = <<>>
        BY <3>2, <3>4, <4>1
      <4>2. CASE Shown(1) = saved[1]
        BY <3>2, <4>2
      <4> QED
        BY <4>1, <4>2, ShownIs
    <3>6. Between(Shown(2), mark, Start)
      BY <1>2, <1>4, <2>2, ShownIs, BetweenEmpty
    <3> HIDE DEF front
    <3> QED
      BY <1>4, <3>5, <3>6, BetweenJoined
  <2> QED
    BY <1>1, <2>1, <2>2
<1>7. out' = whole \o heads
  BY <1>1
<1> HIDE DEF whole
<1> QED
  BY <1>4, <1>5, <1>6, <1>7, BetweenJoined

(* ... and with none of the last connection missing.                       *)
LEMMA ReturnsComplete ==
  ASSUME ShelvedInv, TunnelInv, Placed, Return
  PROVE  Complete'
<1>1. /\ at = "end" /\ at \in ReaderPlaces /\ round \in {1, 2}
      /\ out' = Shown(1) \o rejected \o Shown(2) \o heads
      /\ UNCHANGED <<opts, heard, mark, acc, round, reaction, bodySent, meant>>
  BY DEF Return, ReaderPlaces, BodyPlaces, Placed, tvars, rvars
<1>2. /\ saved[round] = acc /\ Counts(heads, First) /\ First \in {Start} \union Released
      /\ saved \in [1..2 -> Seq(Nat)]
  BY <1>1 DEF ShelvedInv, Shelved
<1>3. /\ First \in Nat /\ Start <= First /\ First <= Start + 1 /\ Len(heads) \in Nat
      /\ heard \in Nat /\ mark \in Nat /\ Start \in Nat /\ Start = mark + Len(acc)
      /\ First + Len(heads) = heard /\ heads \in Seq(Nat) /\ Counts(acc, mark)
  BY <1>2, FirstIsNatural, Heard, LenProperties DEF First, Counts
<1>4. Released' = Released
  BY <1>1 DEF Released, CameWith100
<1>5. rejected \in Seq(Nat)
  BY <1>1, EmptySeq DEF ShelvedInv, Shelved, Between
<1>6. Shown(1) \in Seq(Nat) /\ Shown(2) \in Seq(Nat)
  <2>1. saved[1] \in Seq(Nat) /\ saved[2] \in Seq(Nat) /\ <<>> \in Seq(Nat)
    BY <1>2, EmptySeq
  <2>2. /\ Shown(1) = <<>> \/ Shown(1) = saved[1]
        /\ Shown(2) = <<>> \/ Shown(2) = saved[2]
    BY ShownIs
  <2> QED
    BY <2>1, <2>2
<1> DEFINE front == Shown(1) \o rejected
           whole == front \o Shown(2)
<1>7. front \in Seq(Nat) /\ ToSet(Shown(1)) \subseteq ToSet(front)
  BY <1>5, <1>6, InJoined, Joined
<1> HIDE DEF front
<1>8. /\ whole \in Seq(Nat) /\ ToSet(front) \subseteq ToSet(whole)
      /\ ToSet(Shown(2)) \subseteq ToSet(whole)
  BY <1>6, <1>7, InJoined, Joined
<1>9. out' = whole \o heads
  BY <1>1 DEF front
<1> HIDE DEF whole
<1>10. ToSet(whole) \subseteq ToSet(out') /\ ToSet(heads) \subseteq ToSet(out')
  BY <1>3, <1>8, <1>9, InJoined
<1>11. ~opts.suppress => ToSet(acc) \subseteq ToSet(out')
  <2>1. ~opts.suppress => Shown(round) = acc
    BY <1>2, ShownIs
  <2> QED
    BY <1>1, <1>7, <1>8, <1>10, <2>1
<1>12. ASSUME NEW n \in (mark + 1)..heard
       PROVE  n \in ToSet(out') \union Released
                      \union (IF opts.suppress THEN ToSet(acc) ELSE {})
  <2>1. n \in Nat /\ mark < n /\ n <= heard
    BY <1>3
  <2>2. CASE n <= Start
    <3>1. n \in ToSet(acc)
      BY <1>3, <2>1, <2>2, InCounted
    <3> QED
      BY <1>11, <3>1
  <2>3. CASE First < n
    <3>1. n \in ToSet(heads)
      BY <1>2, <1>3, <2>1, <2>3, InCounted
    <3> QED
      BY <1>10, <3>1
  <2>4. CASE Start < n /\ n <= First
    BY <1>2, <1>3, <2>1, <2>4
  <2> QED
    BY <1>3, <2>1, <2>2, <2>3, <2>4
<1> QED
  BY <1>1, <1>4, <1>12 DEF Complete

LEMMA ShelvedReturn ==
  ASSUME ShelvedInv, TunnelInv, Placed, Return
  PROVE  ShelvedInv'
<1>1. /\ at = "end" /\ at' = "done" /\ purpose = "answer"
      /\ UNCHANGED <<heard, mark, purpose, round, error, saved, rejected>>
  BY DEF Return, tvars, rvars
<1>2. /\ at' \notin Early \union Asking \union ReaderPlaces
      /\ at # "connect" /\ at' # "connect"
  BY <1>1 DEF Early, Asking, ReaderPlaces, BodyPlaces, TunnelPlaces, ConnectPlaces,
         SocksPlaces, Reading, Judging
<1>3. Before' = Before
  BY <1>1, <1>2 DEF Before
<1>4. Shelved'
  BY <1>1, <1>2, <1>3 DEF ShelvedInv, Shelved
<1>5. Returned'
  BY <1>1 DEF Returned, Placed
<1>6. Between(out', 0, heard') /\ Complete'
  BY <1>1, ReturnsInOrder, ReturnsComplete
<1>7. Ordered'
  BY <1>5, <1>6 DEF Ordered
<1> QED
  BY <1>4, <1>7 DEF ShelvedInv

LEMMA ShelvedStays ==
  ASSUME ShelvedInv, UNCHANGED vars
  PROVE  ShelvedInv'
<1>1. /\ UNCHANGED <<at, opts, heard, mark, acc, heads, round, purpose, error, reaction, meant>>
      /\ UNCHANGED <<bodySent, saved, rejected, out>>
  BY DEF vars, tvars, rvars, dvars
<1>2. /\ Released' = Released /\ Start' = Start /\ First' = First /\ Before' = Before
      /\ Complete' = Complete
  BY <1>1 DEF Released, CameWith100, Start, First, Before, Complete
<1>3. Shelved' /\ Ordered'
  BY <1>1, <1>2 DEF ShelvedInv, Shelved, Ordered, Returned
<1> QED
  BY <1>3 DEF ShelvedInv

(* Every header block heard is kept in the place it is shown from.         *)
THEOREM ShelvedHolds == Spec => []ShelvedInv
<1>1. TunnelInv /\ StreamInv /\ Placed /\ Leads /\ ShelvedInv /\ TunnelInv' /\ [Next]_vars
        => ShelvedInv'
  BY ShelvedTunnel, ShelvedReader, ShelvedConnect, ShelvedTls, ShelvedSends, ShelvedWaits,
     ShelvedReconnect, ShelvedReturn, ShelvedStays
  DEF Next, DialogueNext
<1> QED
  BY <1>1, ShelvedInit, TunnelHolds, StreamHolds, PlacedHolds, LeadsHold, PTL DEF Spec

(* The header blocks of a response are shown in the order they were read,  *)
(* none twice and none of the last connection missing, but for the 100     *)
(* that released the body and what --suppress-connect-headers leaves out.  *)
THEOREM HeadsShownInOrder == Spec => []HeadsInOrder
BY InOrder, ShelvedHolds, PTL

----------------------------------------------------------------------------
(* The kinds of the units on the stream, wherever the program is, and the  *)
(* bounds of the header blocks read.                                       *)
AnyUnits == ProxyUnits \union ServerUnits

Typed == inbox \in Seq(AnyUnits) /\ Between(heads, 0, heard)

LEMMA AnyOf ==
  /\ \A s \in Seq(ProxyUnits) : s \in Seq(AnyUnits)
  /\ \A s \in Seq(ServerUnits) : s \in Seq(AnyUnits)
  /\ \A s \in Seq(Plain) : s \in Seq(AnyUnits)
  /\ <<>> \in Seq(AnyUnits)
<1>1. /\ ProxyUnits \subseteq AnyUnits /\ ServerUnits \subseteq AnyUnits
      /\ Plain \subseteq AnyUnits
  BY DEF AnyUnits, ServerUnits
<1> HIDE DEF AnyUnits
<1> QED
  BY <1>1, SeqMonotonic, EmptySeq

LEMMA UnitsHaveKinds ==
  ASSUME NEW x \in AnyUnits
  PROVE  x.u \in UnitKinds
<1>1. CASE x \in ProxyUnits
  BY <1>1, NotBoth DEF PlainKinds, UnitKinds
<1>2. CASE x \in ServerUnits
  BY <1>2, PlainKind DEF ServerUnits, PlainKinds, UnitKinds, InterimHeads, InterimUnit,
     HeadUnit, FinalHeads, Pieces, Sizes
<1> QED
  BY <1>1, <1>2 DEF AnyUnits

(* A Tunnel step that fails leaves what it had not read.                   *)
LEMMA TunnelLeaves ==
  ASSUME TunnelInv, TunnelInv', TunnelNext, inbox \in Seq(AnyUnits)
  PROVE  inbox' \in Seq(AnyUnits)
<1>1. /\ at \in TunnelPlaces
      /\ at' \in TunnelPlaces \union {"connect", "tls", "done"}
  BY TunnelStep DEF TunnelMoves
<1>2. CASE at' \in TunnelPlaces \union {"tls"}
  <2>1. /\ at' = "tunnel" => inbox' = <<>>
        /\ at' \in Reading => inbox' \in Seq(ProxyUnits)
        /\ at' \in Judging => inbox' \in Seq(ProxyUnits)
        /\ at' \in SocksPlaces => inbox' = <<>>
        /\ at' = "tls" => inbox' \in Seq(Plain)
    BY DEF TunnelInv, Unread, OneHead
  <2> QED
    BY <1>2, <2>1, AnyOf DEF TunnelPlaces, ConnectPlaces
<1>3. CASE at' \in {"connect", "done"}
  <2>1. CASE ReadFirst \/ ReadDigest \/ ReadType1 \/ ReadType3
    <3>1. inbox' = inbox
      BY <1>3, <2>1 DEF ReadFirst, ReadDigest, ReadType1, ReadType3, ReadReply
    <3> QED
      BY <3>1
  <2>2. CASE ConnectFirst \/ NtlmType1
    <3>1. \/ SendConnect(FirstCredentials, inbox, "reply1")
          \/ SendConnect("type1", inbox, "replyT1")
      <4>1. ConnectFirst => SendConnect(FirstCredentials, inbox, "reply1")
        BY DEF ConnectFirst
      <4>2. NtlmType1 /\ StartsNtlm => SendConnect("type1", inbox, "replyT1")
        BY DEF NtlmType1
      <4>3. NtlmType1 /\ ~StartsNtlm => at' = "type3"
        BY DEF NtlmType1
      <4> QED
        BY <1>3, <2>2, <4>1, <4>2, <4>3
    <3>2. inbox' = inbox
      BY <1>3, <3>1 DEF SendConnect
    <3> QED
      BY <3>2
  <2>3. CASE DigestRetry \/ NtlmType3
    <3>1. /\ at \in Judging /\ reply.st # 0
      <4>1. DigestRetry => at = "drain1" /\ Challenged
        BY DEF DigestRetry
      <4>2. NtlmType3 => at = "type3" /\ Challenged
        BY DEF NtlmType3, GoesOnNtlm
      <4>3. Challenged => reply.st # 0
        BY DEF Challenged
      <4> QED
        BY <2>3, <4>1, <4>2, <4>3 DEF Judging
    <3>2. inbox \in Seq(Plain)
      BY <3>1 DEF TunnelInv, Unread
    <3>3. inbox' = inbox \/ \E rest \in Dropped(Drained(inbox)) : inbox' = rest
      <4>1. CASE DigestRetry
        <5>1. PICK rest \in Dropped(Drained(inbox)) : SendConnect("digest", rest, "reply2")
          BY <4>1 DEF DigestRetry
        <5>2. inbox' = rest
          BY <1>3, <5>1 DEF SendConnect
        <5> QED
          BY <5>2
      <4>2. CASE NtlmType3 /\ opts.user = "long"
        BY <4>2 DEF NtlmType3
      <4>3. CASE NtlmType3 /\ opts.user # "long"
        <5>1. PICK rest \in Dropped(Drained(inbox)) : SendConnect("type3", rest, "replyT3")
          BY <4>3 DEF NtlmType3
        <5>2. inbox' = rest
          BY <1>3, <5>1 DEF SendConnect
        <5> QED
          BY <5>2
      <4> QED
        BY <2>3, <4>1, <4>2, <4>3
    <3> QED
      BY <3>2, <3>3, DrainedPlain, AnyOf
  <2>4. CASE DrainFirst \/ KeepFirst \/ DropSecond \/ DropType1 \/ NoType3 \/ Established
    BY <1>3, <2>4 DEF DrainFirst, KeepFirst, DropSecond, DropType1, NoType3, Established
  <2>5. CASE Refused \/ Socks4 \/ Socks5Greet \/ Socks5Auth \/ Socks5Request
    <3>1. inbox' = inbox
      BY <2>5 DEF Refused, Socks4, Socks5Greet, Socks5Auth, Socks5Request, SocksStep
    <3> QED
      BY <3>1
  <2> QED
    BY <2>1, <2>2, <2>3, <2>4, <2>5 DEF TunnelNext
<1> QED
  BY <1>1, <1>2, <1>3

(* So does Reader.                                                         *)
LEMMA ReaderLeaves ==
  ASSUME StreamInv, StreamInv', ReaderNext, inbox \in Seq(AnyUnits)
  PROVE  inbox' \in Seq(AnyUnits)
<1>1. at' \in ReaderPlaces \union {"done"}
  BY ReaderStep DEF ReaderMoves, ReaderPlaces, BodyPlaces
<1>2. CASE at' \in ReaderPlaces
  BY <1>2, AnyOf DEF StreamInv, ReaderInv, ReaderTypes, ReaderPlaces
<1>3. CASE at' = "done"
  <2>1. inbox' = inbox \/ \E k \in Nat : inbox' = SubSeq(inbox, k + 1, Len(inbox))
    <3>1. CASE ReadNothing \/ ReadNotHttp
      BY <1>3, <3>1 DEF ReadNothing, ReadNotHttp, Ends
    <3>2. CASE ReadHead
      BY <3>2 DEF ReadHead, Skip
    <3>3. CASE ReadLength
      <4>1. /\ inbox' = SubSeq(inbox, (IF Len(inbox) < head.n THEN Len(inbox) ELSE head.n) + 1, Len(inbox))
            /\ at = "length"
        BY <3>3 DEF ReadLength, Skip
      <4>2. head.n \in Nat /\ Len(inbox) \in Nat
        BY <4>1, LenProperties DEF StreamInv, ReaderInv, FinalHeads
      <4> QED
        BY <4>1, <4>2
    <3>4. CASE ~ReadNothing /\ ~ReadNotHttp /\ ~ReadHead /\ ~ReadLength
      BY <1>3, <3>4 DEF ReaderNext, ReadInterim, ReadToEnd, ReadSizeFails, ReadChunk,
                        ReadTrailers, Decode, Ends
    <3> QED
      BY <3>1, <3>2, <3>3, <3>4
  <2> QED
    BY <2>1, Rest
<1> QED
  BY <1>1, <1>2, <1>3

LEMMA DialogueLeaves ==
  ASSUME TunnelInv, StreamInv, StreamInv', Placed, Leads, DialogueNext,
         inbox \in Seq(AnyUnits)
  PROVE  inbox' \in Seq(AnyUnits)
<1>1. CASE Connect \/ Tls \/ WaitAnswered \/ WaitBreaks \/ Reconnect \/ Return
  <2>1. inbox' = <<>> \/ inbox' = inbox
    BY <1>1 DEF Connect, Tls, WaitAnswered, WaitBreaks, Reconnect, Return
  <2> QED
    BY <2>1, AnyOf
<1>2. CASE SendAll \/ SendHeaders
  <2>1. at' = "status" \/ at' = "wait"
    BY <1>2 DEF SendAll, SendHeaders
  <2> QED
    BY <2>1, AnyOf DEF StreamInv, OnStream, ReaderInv, ReaderTypes
<1>3. CASE WaitTimesOut \/ WaitContinues \/ WaitUnclear
  <2>1. PICK left : SendBody(left, "status") /\ left \in Seq(ServerUnits)
    BY <1>3, WaitLeaves
  <2>2. at' = "status" \/ inbox' = left
    BY <2>1 DEF SendBody
  <2> QED
    BY <2>1, <2>2, AnyOf DEF StreamInv, ReaderInv, ReaderTypes
<1> QED
  BY <1>1, <1>2, <1>3 DEF DialogueNext

(* The blocks of a response are among those heard.                         *)
LEMMA HeadsBounded ==
  ASSUME heard \in Nat, Between(heads, 0, heard),
         \/ HeadsAdvance
         \/ heard' = heard + 1 /\ heads' = heads
         \/ heads' = <<>>
  PROVE  Between(heads, 0, heard)'
<1>1. /\ heads \in Seq(Nat) /\ Len(heads) \in Nat
      /\ \A i \in 1..Len(heads) : heads[i] \in Nat
  BY LenProperties, ElementOfSeq DEF Between
<1>2. 0 \in Nat /\ 0 <= 0 /\ heard + 1 \in Nat /\ heard <= heard + 1
  OBVIOUS
<1>3. CASE heads' = <<>>
  BY <1>3, BetweenEmpty
<1>4. CASE UNCHANGED <<heard, heads>>
  BY <1>4
<1>5. CASE heard' = heard + 1 /\ heads' = heads
  BY <1>2, <1>5, BetweenWider
<1>6. CASE heard' = heard + 1 /\ heads' = Append(heads, heard + 1)
  <2> DEFINE n == heard + 1
             l == <<n>>
  <2>1. n \in Nat /\ heard < n /\ heard <= n /\ n <= n
    OBVIOUS
  <2> HIDE DEF n
  <2>2. l \in Seq(Nat) /\ Len(l) = 1 /\ l[1] = n /\ Append(heads, n) = heads \o l
    BY <1>1, <2>1, AppendIsConcat
  <2> HIDE DEF l
  <2>3. Between(l, heard, n)
    BY <2>1, <2>2 DEF Between
  <2>4. Between(heads \o l, 0, n)
    BY <1>2, <2>1, <2>3, BetweenJoined
  <2> QED
    BY <1>6, <2>2, <2>4 DEF n
<1> QED
  BY <1>3, <1>4, <1>5, <1>6 DEF HeadsAdvance

LEMMA TypedKeeps ==
  ASSUME Typed, TunnelInv, TunnelInv', StreamInv, StreamInv', Placed, Leads, [Next]_vars
  PROVE  Typed'
<1>1. heard \in Nat /\ Between(heads, 0, heard) /\ inbox \in Seq(AnyUnits)
  BY Heard DEF Typed
<1>2. CASE TunnelNext /\ UNCHANGED <<rvars, dvars>>
  <2>1. heads' = heads
    BY <1>2 DEF rvars
  <2>2. heard' = heard \/ heard' = heard + 1
    BY <1>2 DEF TunnelNext, ConnectFirst, ReadFirst, DigestRetry, DrainFirst, KeepFirst,
         ReadDigest, DropSecond, NtlmType1, ReadType1, DropType1, NtlmType3, NoType3,
         ReadType3, Established, Refused, Socks4, Socks5Greet, Socks5Auth, Socks5Request,
         SocksStep, ReadReply
  <2>3. Between(heads, 0, heard)'
    BY <1>1, <2>1, <2>2, HeadsBounded DEF HeadsAdvance
  <2> QED
    BY <1>1, <1>2, <2>3, TunnelLeaves DEF Typed
<1>3. CASE ReaderNext
  <2>1. Between(heads, 0, heard)'
    BY <1>1, <1>3, ReaderStep, HeadsBounded DEF ReaderMoves
  <2> QED
    BY <1>1, <1>3, <2>1, ReaderLeaves DEF Typed
<1>4. CASE DialogueNext
  <2>1. heads' = heads \/ heads' = <<>>
    BY <1>4 DEF DialogueNext, Connect, Tls, SendAll, SendHeaders, WaitTimesOut, WaitContinues,
                WaitAnswered, WaitUnclear, WaitBreaks, Reconnect, Return, rvars
  <2>2. heard' = heard \/ heard' = heard + 1
    BY <1>4 DEF DialogueNext, Connect, Tls, SendAll, SendHeaders, WaitTimesOut, WaitContinues,
                WaitAnswered, WaitUnclear, WaitBreaks, Reconnect, Return
  <2>3. Between(heads, 0, heard)'
    BY <1>1, <2>1, <2>2, HeadsBounded DEF HeadsAdvance
  <2> QED
    BY <1>1, <1>4, <2>3, DialogueLeaves DEF Typed
<1>5. CASE UNCHANGED vars
  BY <1>5 DEF Typed, vars, rvars
<1> QED
  BY <1>2, <1>3, <1>4, <1>5 DEF Next

(* What is unread is of the kinds the peers send, and the header blocks of  *)
(* a response are among those heard, in whatever step the request is.      *)
THEOREM TypedHolds == Spec => []Typed
<1>1. Init => Typed
  BY AnyOf, BetweenEmpty DEF Init, ReaderInit, Typed
<1> QED
  BY <1>1, TypedKeeps, TunnelHolds, StreamHolds, PlacedHolds, LeadsHold, PTL DEF Spec

LEMMA InBounds ==
  ASSUME NEW s, NEW lo \in Nat, NEW hi \in Nat, Between(s, lo, hi), hi <= heard, heard \in Nat
  PROVE  \A i \in DOMAIN s : s[i] \in 1..heard
<1>1. DOMAIN s = 1..Len(s) /\ \A i \in 1..Len(s) : s[i] \in Nat
  BY LenProperties, ElementOfSeq DEF Between
<1> QED
  BY <1>1 DEF Between

LEMMA AllTyped ==
  ASSUME TunnelInv, StreamInv, Placed, ShelvedInv, Typed
  PROVE  DialogueTypeOK
<1>1. /\ opts \in OptionSets /\ tail \in {"open", "eof", "reset"} /\ connects \in 0..4
      /\ heard \in Nat /\ mark <= heard /\ connectResp <= heard
      /\ mark \in Nat /\ Between(acc, mark, Start) /\ Start <= heard /\ Start \in Nat
  BY Heard DEF TunnelInv, TunnelTypes
<1>2. at \in {"connect", "tunnel", "reply1", "drain1", "reply2", "drop2",
             "type1", "replyT1", "dropT1", "type3", "replyT3", "verdict",
             "socks", "socks_auth", "socks_request", "tls", "send", "wait",
             "status", "length", "close", "size", "decode", "end", "done"}
  BY DEF Placed, DialoguePlaces, TunnelPlaces, ConnectPlaces, SocksPlaces, Reading, Judging,
         ReaderPlaces, BodyPlaces
<1>3. \A i \in DOMAIN inbox : inbox[i].u \in UnitKinds
  <2>1. DOMAIN inbox = 1..Len(inbox) /\ \A i \in 1..Len(inbox) : inbox[i] \in AnyUnits
    BY LenProperties, ElementOfSeq DEF Typed
  <2> QED
    BY <2>1, UnitsHaveKinds
<1>4. {armed, pre, offers, waited, interim, answered, bodySent} \subseteq BOOLEAN
  BY Zenon DEF Placed, TunnelInv, TunnelTypes
<1>5. round \in {1, 2} /\ purpose \in {"answer", "rejected"}
  BY DEF Placed, StreamInv, ReaderInv, ReaderTypes
<1>6. head = None \/ head.st \in {200, 204, 302, 417}
  BY DEF StreamInv, ReaderInv, ReaderTypes, FinalHeads
<1>7. /\ \A i \in DOMAIN acc : acc[i] \in 1..heard
      /\ \A i \in DOMAIN heads : heads[i] \in 1..heard
  BY <1>1, InBounds DEF Typed
<1>8. \A i \in DOMAIN out : out[i] \in 1..heard
  <2>1. Between(out, 0, heard)
    BY BetweenEmpty DEF ShelvedInv, Ordered
  <2> QED
    BY <1>1, <2>1, InBounds
<1>9. \A i \in DOMAIN rejected : rejected[i] \in 1..heard
  <2>1. \E b \in Nat : b <= heard /\ Between(rejected, 0, b)
    <3>1. CASE round = 1
      BY <1>1, <3>1, BetweenEmpty DEF ShelvedInv, Shelved
    <3>2. CASE round = 2
      BY <1>1, <3>2 DEF ShelvedInv, Shelved, Before
    <3> QED
      BY <1>5, <3>1, <3>2
  <2> QED
    BY <1>1, <2>1, InBounds
<1>10. \A s \in {acc, heads, rejected, out} : \A i \in DOMAIN s : s[i] \in 1..heard
  BY <1>7, <1>8, <1>9
<1> QED
  BY <1>1, <1>2, <1>3, <1>4, <1>5, <1>6, <1>10 DEF DialogueTypeOK

(* Every variable has a value of its kind.                                 *)
THEOREM DialogueTypesHold == Spec => []DialogueTypeOK
BY AllTyped, TunnelHolds, StreamHolds, PlacedHolds, ShelvedHolds, TypedHolds, PTL
=============================================================================
