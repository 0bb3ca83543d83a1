------------------------------ MODULE Dialogue ------------------------------
(***************************************************************************)
(* One call of execute_request_inner (src/request.rs) on fresh             *)
(* connections, from connect() to the response: Tunnel, then TLS, then the *)
(* request, with the Expect: 100-continue dialogue when build_request asks *)
(* for it, and Reader for the response; a 417 starts all of it again on a  *)
(* second connection.                                                      *)
(***************************************************************************)
EXTENDS Tunnel, Reader

VARIABLES
  reaction,   \* history: what the server did on getting the headers
  answered,   \* history: the server has given its final answer
  bodySent,   \* history: the request body went out on this connection
  saved,      \* saved[r]: connect_response of round r
  rejected,   \* headers_417
  out         \* header_bytes of the response returned

dvars == <<reaction, answered, bodySent, saved, rejected, out>>
vars == <<opts, at, inbox, tail, armed, heard, round, error, tvars, rvars, dvars>>

Init ==
  /\ opts \in OptionSets
  /\ at = "connect"
  /\ inbox = <<>>
  /\ tail = "open"
  /\ armed = FALSE
  /\ heard = 0
  /\ error = "none"
  /\ TunnelInit
  /\ ReaderInit
  /\ round = 1
  /\ reaction = "none"
  /\ answered = FALSE
  /\ bodySent = FALSE
  /\ saved = <<<<>>, <<>>>>
  /\ rejected = <<>>
  /\ out = <<>>

----------------------------------------------------------------------------
(* connect(): a new stream with its read timeout, except over a Unix       *)
(* socket, which is used as it is.                                         *)
Tunnels == opts.via = "tunnel"

Connect ==
  /\ at = "connect"
  /\ at' = CASE opts.via = "unix" -> "send"
             [] opts.via = "direct" -> "tls"
             [] Tunnels -> "tunnel"
             [] OTHER -> "socks"
  /\ armed' = (opts.via # "unix")
  /\ inbox' = <<>>
  /\ tail' = "open"
  /\ acc' = <<>>
  /\ mark' = heard
  /\ reply' = NoStatus
  /\ offers' = FALSE
  /\ cred' = "none"
  /\ connects' = 0
  /\ waited' = FALSE
  /\ told' = "nothing"
  /\ bodySent' = FALSE
  /\ answered' = FALSE
  /\ UNCHANGED <<opts, heard, error, connectResp, pre, rvars, round,
                 reaction, saved, rejected, out>>

(* TLS needs a stream that is open and carries nothing else.               *)
Tls ==
  /\ at = "tls"
  /\ saved' = [saved EXCEPT ![round] = acc]
  /\ \/ /\ opts.https => inbox = <<>> /\ tail = "open"
        /\ at' = "send"
        /\ error' = error
     \/ /\ opts.https
        /\ Fails("TLS handshake failed")
  /\ UNCHANGED <<opts, inbox, tail, armed, heard, tvars, rvars, round,
                 reaction, answered, bodySent, rejected, out>>

----------------------------------------------------------------------------
(* The server's final answer, put on the stream when it has what it waits  *)
(* for.  It may also have gone away.                                       *)
ServerAnswers(before) ==
  IF tail # "open"
  THEN inbox' = before /\ UNCHANGED <<tail, meant, answered>>
  ELSE \E a \in Answers[opts.answers] :
         /\ inbox' = before \o SentUnits(a)
         /\ tail' = a.after
         /\ meant' = a
         /\ answered' = TRUE

(* build_request holds the body back: for a body it deems large, unless    *)
(* the user gave an Expect header, or because the user asked for it.  The  *)
(* second round adds an empty Expect header to those of the user.          *)
HoldsAgain == opts.expect # "no"

HoldsBody ==
  \/ opts.expect = "auto" /\ round = 1
  \/ opts.expect = "user"

(* The whole request in one write.  After a 417 the part held back is      *)
(* dropped, and a server that was promised a body keeps waiting for it.    *)
SendAll ==
  /\ at = "send"
  /\ ~HoldsBody \/ round = 2
  /\ at' = "status"
  /\ bodySent' = ~HoldsBody
  /\ \/ ServerAnswers(inbox)
     \/ /\ HoldsBody
        /\ UNCHANGED <<inbox, tail, meant, answered>>
  /\ UNCHANGED <<opts, armed, heard, error, tvars, purpose, interim, head,
                 body, trailer, flags, heads, round, reaction, saved,
                 rejected, out>>

(* Only the headers; the server may say nothing, say 100 (and go on to     *)
(* answer at once), send another interim response, answer, begin a status  *)
(* line and pause in the middle of it, send something that is none, close  *)
(* or break off.                                                           *)
Continue == InterimUnit(100)
Hint == InterimUnit(103)
Interims ==
  [silence       |-> <<>>,
   continue      |-> <<Continue>>,
   hint          |-> <<Hint>>,
   hint_continue |-> <<Hint, Continue>>,
   stub          |-> <<Unit("stub"), Unit("rest")>>,
   garbage       |-> <<Unit("garbage")>>]

SendHeaders ==
  /\ at = "send"
  /\ HoldsBody /\ round = 1
  /\ at' = "wait"
  /\ \/ /\ tail = "open"
        /\ reaction' \in DOMAIN Interims
        /\ inbox' = inbox \o Interims[reaction']
        /\ UNCHANGED <<tail, meant, answered>>
     \/ /\ reaction' \in {"eof", "reset"}
        /\ tail' = IF tail = "open" THEN reaction' ELSE tail
        /\ UNCHANGED <<inbox, meant, answered>>
     \/ /\ tail = "open"
        /\ reaction' = "continue_answer"
        /\ ServerAnswers(Append(inbox, Continue))
     \/ /\ tail = "open"
        /\ reaction' = "answer"
        /\ ServerAnswers(inbox)
  /\ UNCHANGED <<opts, armed, heard, error, tvars, purpose, interim, head,
                 body, trailer, flags, heads, round, bodySent, saved,
                 rejected, out>>

(* The body, and what a server does that has not answered yet.  A stream   *)
(* that is closed may refuse it.                                           *)
SendBody(left, next) ==
  \/ /\ at' = next
     /\ bodySent' = TRUE
     /\ error' = error
     /\ IF answered THEN inbox' = left /\ UNCHANGED <<tail, meant, answered>>
                    ELSE ServerAnswers(left)
  \/ /\ tail # "open"
     /\ Fails("failed to send request body")
     /\ inbox' = left
     /\ UNCHANGED <<bodySent, tail, meant, answered>>

(* One second without twelve bytes: the body goes out unasked, and what    *)
(* was read of a status line is gone.                                      *)
ForgetsPeeked ==
  /\ at = "wait"
  /\ inbox = <<>> => tail = "open"
  /\ armed' = FALSE
  /\ SendBody(SubSeq(inbox, 2, Len(inbox)), "status")
  /\ UNCHANGED <<opts, heard, tvars, purpose, interim, head, body, trailer,
                 flags, heads, round, reaction, saved, rejected, out>>

WaitTimesOut ==
  /\ at = "wait"
  /\ inbox = <<>> => tail = "open"
  /\ armed' = FALSE
  /\ SendBody(IF FirstIs({"stub"}) THEN Tail(inbox) ELSE inbox, "status")
  /\ UNCHANGED <<opts, heard, tvars, purpose, interim, head, body, trailer,
                 flags, heads, round, reaction, saved, rejected, out>>

(* 100: it is read in pieces of up to 512 bytes, and what comes with it is *)
(* lost.                                                                   *)
WaitContinues ==
  /\ at = "wait"
  /\ inbox # <<>> /\ inbox[1] = Continue
  /\ armed' = FALSE
  /\ heard' = heard + 1
  /\ \E left \in Dropped(Tail(inbox)) : SendBody(left, "status")
  /\ UNCHANGED <<opts, tvars, purpose, interim, head, body, trailer, flags,
                 heads, round, reaction, saved, rejected, out>>

(* Any other status is taken for an answer: no body is sent, and the       *)
(* response is read; a 417 with settings of its own.                       *)
WaitAnswered ==
  /\ at = "wait"
  /\ inbox # <<>> /\ inbox[1].u = "head" /\ inbox[1] # Continue
  /\ armed' = FALSE
  /\ at' = "status"
  /\ purpose' = IF inbox[1].st = 417 THEN "rejected" ELSE "answer"
  /\ UNCHANGED <<opts, inbox, tail, heard, round, error, tvars, meant, interim,
                 head, body, trailer, flags, heads, dvars>>

(* Something else, or the end of the stream: the body goes out.            *)
WaitUnclear ==
  /\ at = "wait"
  /\ \/ inbox = <<>> /\ tail = "eof"
     \/ FirstIs({"garbage"})
  /\ armed' = FALSE
  /\ SendBody(inbox, "status")
  /\ UNCHANGED <<opts, heard, tvars, purpose, interim, head, body, trailer,
                 flags, heads, round, reaction, saved, rejected, out>>

WaitBreaks ==
  /\ at = "wait"
  /\ inbox = <<>> /\ tail = "reset"
  /\ Fails("failed to read 100-continue response")
  /\ UNCHANGED <<opts, inbox, tail, armed, heard, round, tvars, rvars, dvars>>

----------------------------------------------------------------------------
(* After a 417 the connection is dropped, connect() is called again and    *)
(* the request rebuilt.                                                    *)
Reconnect ==
  /\ at = "end"
  /\ purpose = "rejected"
  /\ at' = "connect"
  /\ rejected' = heads
  /\ round' = 2
  /\ pre' = FALSE
  /\ purpose' = "answer"
  /\ meant' = None
  /\ interim' = FALSE
  /\ head' = None
  /\ body' = <<>>
  /\ trailer' = 0
  /\ flags' = {}
  /\ heads' = <<>>
  /\ UNCHANGED <<opts, inbox, tail, armed, heard, error, reply, acc, mark,
                 connectResp, offers, cred, connects, waited, told, reaction,
                 answered, bodySent, saved, out>>

(* The response is returned with the header blocks of the CONNECT and 417  *)
(* replies in front; --suppress-connect-headers leaves the former out, but *)
(* not when a final answer came instead of a 100.                          *)
AnsweredEarly == round = 1 /\ HoldsBody /\ ~bodySent
ShownUnless(r) == IF opts.suppress \/ AnsweredEarly THEN <<>> ELSE saved[r]
Shown(r) == IF opts.suppress /\ ~AnsweredEarly THEN <<>> ELSE saved[r]

Return ==
  /\ at = "end"
  /\ purpose = "answer"
  /\ at' = "done"
  /\ out' = Shown(1) \o rejected \o Shown(2) \o heads
  /\ UNCHANGED <<opts, inbox, tail, armed, heard, error, tvars, rvars, round,
                 reaction, answered, bodySent, saved, rejected>>

DialogueNext ==
  \/ Connect \/ Tls \/ SendAll \/ SendHeaders \/ WaitTimesOut
  \/ WaitContinues \/ WaitAnswered \/ WaitUnclear \/ WaitBreaks
  \/ Reconnect \/ Return

Next ==
  \/ TunnelNext /\ UNCHANGED <<rvars, dvars>>
  \/ ReaderNext /\ UNCHANGED <<tvars, dvars>>
  \/ DialogueNext

Spec == Init /\ [][Next]_vars /\ WF_vars(Next)
----------------------------------------------------------------------------
Socks == opts.via \in {"socks4", "socks4a", "socks5", "socks5h"}
UnitKinds ==
  {"head", "data", "size", "sep", "zero", "trailer", "blank", "garbage",
   "badsize", "stub", "rest"}

(* Every variable has a value of its kind: places of the program, blocks   *)
(* counted up to the last one heard, and content in the body.              *)
DialogueTypeOK ==
  /\ opts \in OptionSets
  /\ at \in {"connect", "tunnel", "reply1", "drain1", "reply2", "drop2",
             "type1", "replyT1", "dropT1", "type3", "replyT3", "verdict",
             "socks", "socks_auth", "socks_request", "tls", "send", "wait",
             "status", "length", "close", "size", "decode", "end", "done"}
  /\ \A i \in DOMAIN inbox : inbox[i].u \in UnitKinds
  /\ tail \in {"open", "eof", "reset"}
  /\ {armed, pre, offers, waited, interim, answered, bodySent} \subseteq BOOLEAN
  /\ round \in {1, 2} /\ mark <= heard /\ connectResp <= heard
  /\ \A s \in {acc, heads, rejected, out} : \A i \in DOMAIN s : s[i] \in 1..heard
  /\ connects \in 0..4
  /\ head = None \/ head.st \in {200, 204, 302, 417}
  /\ purpose \in {"answer", "rejected"}

(* In the Digest dialogue the reply to the second CONNECT is read from its *)
(* first byte, although the first had a body: a proxy that answers         *)
(* correctly is not taken for one that does not speak HTTP, nor for one    *)
(* that said nothing.  Two kinds of body are excepted: the drain leaves    *)
(* the line after chunk trailers, and all of a body that goes up to the    *)
(* end of the connection.  The NTLM branches, which leave a body           *)
(* undrained, are not covered.                                             *)
DigestKeepsItsPlace ==
  at = "reply2" =>
    \/ inbox = <<>>
    \/ FirstIs({"head", "garbage"})
    \/ reply.fr \in {"trailered", "closed"}

(* Draining a 407 waits for bytes that do not come (for as long as the     *)
(* read timeout lasts) only on the way to an NTLM Type 3 message, where    *)
(* the body has been drained before.                                       *)
WaitsOnlyForNtlm ==
  waited => opts.auth = "ntlm" \/ cred \in {"type1", "type3"}

(* A host this machine cannot resolve is left to the proxy under its name; *)
(* only SOCKS4 lets the handshake succeed on an address that is none.      *)
NamesReachTheProxy ==
  at = "send" /\ Socks /\ opts.host = "unknown" =>
    told = "host" \/ opts.via = "socks4"

(* A response returned without any sign of an error, whose header block    *)
(* told where its body ends, has all of that body: a stream that ends,     *)
(* breaks or falls silent inside a framed body never passes for success.   *)
Returned == at = "done" /\ error = "none"

CleanIsComplete ==
  Returned /\ flags = {} /\ FramedBody => HoldsContents(body, WholeSize)

(* --max-filesize bounds the content of a framed response, redirects       *)
(* apart, wherever between or inside chunks the limit falls.  It is the    *)
(* content as the server sent it: of a body that was decoded, the coded    *)
(* content had to be within the limit, and what it decodes to may exceed   *)
(* it; the trailers appended to a chunked body are not counted either.     *)
BodyWithinCap ==
  Returned /\ FramedBody /\ opts.cap # None /\ ~IsRedirect(head)
    => IF Coded /\ body # <<>> THEN head.n <= opts.cap
       ELSE DataIn(body) \subseteq 1..opts.cap

(* The header blocks of a response are shown in the order they were read,  *)
(* none twice and, of those read on the connection that answered, none     *)
(* missing: but for the 100 that released the body, and for those of the   *)
(* CONNECT dialogue under --suppress-connect-headers.                      *)
CameWith100 ==
  \/ reaction = "continue_answer"
  \/ reaction = "answer" /\ meant.interim # <<>> /\ meant.interim[1] = 100

Released ==
  IF round = 1 /\ bodySent /\ (reaction = "continue" \/ CameWith100)
  THEN {mark + Len(acc) + 1} ELSE {}

HeadsInOrder ==
  Returned =>
    /\ \A i, j \in DOMAIN out : i < j => out[i] < out[j]
    /\ (mark + 1)..heard \subseteq
         ToSet(out) \union Released
           \union (IF opts.suppress THEN ToSet(acc) ELSE {})

(* Client and server wait for each other, the one without a timeout for an *)
(* answer and the other for the body, only if another interim response     *)
(* came where the 100 was expected (it is taken for the answer), or if the *)
(* user's own Expect header holds the body back again after a 417 on a     *)
(* socket that never had a timeout.                                        *)
MutualWaitOnlyAfterHint ==
  at = "status" /\ Silent /\ ~armed /\ ~answered =>
    \/ reaction \in {"hint", "hint_continue"}
    \/ round = 2 /\ opts.expect = "user" /\ opts.via = "unix"

(* A response is returned although the body never went out only when the   *)
(* server chose to answer without it, or after a 417 to an Expect header   *)
(* of the user, which the second request carries again.                    *)
BodyOmittedOnlyByAnswer ==
  Returned /\ opts.expect # "no" /\ ~bodySent =>
    \/ reaction = "answer" /\ round = 1
    \/ round = 2 /\ opts.expect = "user"

(* The status line of a server that has answered is never waited for,      *)
(* except when the answer came in the same read as its 100, whose surplus  *)
(* is dropped.                                                             *)
AnswerLostOnlyWith100 ==
  answered /\ at = "status" /\ inbox = <<>> =>
    \/ CameWith100 /\ round = 1
    \/ meant.sent <= Len(meant.interim)

(* Nor is more waited for of an answer that is there in full: without a    *)
(* timeout that would be for ever.  Again an answer that came with its 100 *)
(* is excepted, and so is a chunked body that is read raw, up to the end   *)
(* of the connection: under --raw, and that of every 417.                  *)
HasNextChunk ==
  \/ FirstIs({"size"}) /\ inbox[1].k + 1 < Len(inbox)
  \/ FirstIs({"zero"}) /\ \E i \in DOMAIN inbox : inbox[i].u = "blank"
  \/ FirstIs({"badsize", "blank", "sep"})

WantsMore ==
  \/ at = "length" /\ Len(inbox) < head.n
  \/ at = "size" /\ ~HasNextChunk
  \/ at = "close"

AnsweredInFull ==
  /\ answered
  /\ Len(AnswerUnits(meant)) <= meant.sent
  /\ at = "close" => head.fr = "chunked"

FullAnswerSuffices ==
  WantsMore /\ AnsweredInFull /\ tail = "open" /\ ~armed =>
    \/ CameWith100 /\ round = 1
    \/ at = "close" /\ Raw

(* Every call comes to an end whatever the peer sends or leaves unsent, as *)
(* long as the socket has its read timeout: not in the Expect dialogue,    *)
(* which removes it, nor over a Unix socket.                               *)
ReadsAreTimed == opts.expect = "no" /\ opts.via # "unix"
CallEnds == ReadsAreTimed ~> at = "done"
=============================================================================
