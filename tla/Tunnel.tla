------------------------------- MODULE Tunnel -------------------------------
(***************************************************************************)
(* What connect() of src/connection.rs does between the TCP connection and *)
(* TLS: the SOCKS handshake (socks_handshake), or the CONNECT dialogue     *)
(* with its 407 retries on the same connection, whose replies are read     *)
(* through BufReaders that are dropped between two of them; and the retry  *)
(* of the whole connect() in execute_request_inner (src/request.rs).  The  *)
(* proxy answers each CONNECT as it likes.                                 *)
(***************************************************************************)
EXTENDS Wire

CONSTANTS
  ProxyReplies   \* what a proxy may do when it gets a CONNECT

(* ch: the schemes of the Proxy-Authenticate headers in order, "t2" being  *)
(* an NTLM challenge; fr: how its body is framed ("closed": it goes up to  *)
(* the end of the connection); status 0 stands for no reply at all,        *)
(* NotHttp for a line that is not HTTP.                                    *)
NotHttp == 999
Replies ==
  {r \in [st    : {0, NotHttp, 200, 403, 407},
          ch    : Seq({"basic", "digest", "ntlm", "t2"}),
          fr    : {"none", "length", "chunked", "trailered", "closed"},
          after : {"open", "eof", "reset"}] :
     r.fr = "closed" => r.after # "open"}

ASSUME TunnelAssumption == ProxyReplies \subseteq Replies

VARIABLES
  reply,        \* the last reply read: status_code, response_bytes, saw_te, ...
  acc,          \* accumulated_connect_headers, as numbers of header blocks
  mark,         \* heard when this connect() began
  connectResp,  \* CONNECT_RESP: the number of the block stashed there, 0 if none
  pre,          \* connect_proxy_digest_authorization is set (retry_opts)
  offers,       \* connect_offers_ntlm
  cred,         \* the credentials of the last CONNECT
  connects,     \* the CONNECT requests of this connect()
  waited,       \* history: in this connect() a drain ran into the read timeout
  told          \* what the SOCKS proxy was asked to connect to

tvars == <<reply, acc, mark, connectResp, pre, offers, cred, connects,
           waited, told>>

NoStatus == [u |-> "head", st |-> 0, ch |-> <<>>, fr |-> "none"]

TunnelInit ==
  /\ reply = NoStatus
  /\ acc = <<>>
  /\ mark = 0
  /\ connectResp = 0
  /\ pre = FALSE
  /\ offers = FALSE
  /\ cred = "none"
  /\ connects = 0
  /\ waited = FALSE
  /\ told = "nothing"

----------------------------------------------------------------------------
(* The proxy's side.                                                       *)
BodyUnits(fr) ==
  CASE fr = "none" -> <<>>
    [] fr \in {"length", "closed"} -> <<Unit("data")>>
    [] fr = "chunked" -> <<Unit("size"), Unit("data"), Unit("sep"),
                           Unit("zero"), Unit("blank")>>
    [] fr = "trailered" -> <<Unit("size"), Unit("data"), Unit("sep"),
                             Unit("zero"), Unit("trailer"), Unit("blank")>>

ReplyUnits(r) ==
  CASE r.st = 0 -> <<>>
    [] r.st = NotHttp -> <<Unit("garbage")>>
    [] OTHER -> <<[u |-> "head", st |-> r.st, ch |-> r.ch, fr |-> r.fr]>>
                \o BodyUnits(r.fr)

(* A CONNECT goes out while rest is what is left unread; a proxy that has  *)
(* closed does not answer, and the write itself may fail.                  *)
SendConnect(c, rest, next) ==
  /\ cred' = c
  /\ connects' = connects + 1
  /\ \/ /\ tail = "open"
        /\ at' = next
        /\ error' = error
        /\ \E r \in ProxyReplies :
             /\ inbox' = rest \o ReplyUnits(r)
             /\ tail' = r.after
     \/ /\ tail # "open"
        /\ \/ at' = next /\ error' = error
           \/ Fails("failed to send CONNECT")
        /\ inbox' = rest
        /\ tail' = tail

----------------------------------------------------------------------------
(* read_connect_response.  An empty line, or the end of the stream, ends   *)
(* the headers, even before a status line: the status is then 0.           *)
ReadReply(next) ==
  \/ /\ FirstIs({"head"})
     /\ reply' = inbox[1]
     /\ heard' = heard + 1
     /\ Skip(1)
     /\ at' = next
     /\ error' = error
  \/ /\ FirstIs({"sep", "blank"}) \/ (inbox = <<>> /\ tail = "eof")
     /\ reply' = NoStatus
     /\ Skip(1)
     /\ at' = next
     /\ UNCHANGED <<heard, error>>
  \/ /\ FirstIs({"garbage", "data", "size", "zero", "trailer"})
     /\ Fails("invalid_connect_response")
     /\ UNCHANGED <<reply, heard, inbox>>
  \/ /\ inbox = <<>>
     /\ tail # "eof"
     /\ Fails("failed to read CONNECT response")
     /\ UNCHANGED <<reply, heard, inbox>>

(* Draining the body of a 407: how many units go, and whether the drain    *)
(* waits for bytes the proxy will not send before the next CONNECT.  In a  *)
(* chunked body lines are read as chunk sizes until the last chunk, after  *)
(* which one line is taken, or until something that is none.  A body with  *)
(* neither a length nor chunks is left where it is.                        *)
SizeLines(units) == {3 * j + 1 : j \in 0..Len(units)}
NoSize(units, i) == i > Len(units) \/ units[i].u # "size"

ChunksEnd(units) ==
  LET last == Min({i \in SizeLines(units) : NoSize(units, i)})
  IN  CASE last > Len(units) -> [gone |-> Len(units), short |-> TRUE]
        [] last = Len(units) /\ units[last].u \in {"zero", "data"} ->
             [gone |-> last, short |-> TRUE]
        [] last < Len(units) /\ units[last].u \in {"zero", "data"} ->
             [gone |-> last + 1, short |-> FALSE]
        [] OTHER -> [gone |-> last, short |-> FALSE]

LengthOnly(units) ==
  IF reply.fr = "length" /\ units # <<>> THEN [gone |-> 1, short |-> FALSE]
                                        ELSE [gone |-> 0, short |-> FALSE]
DrainToEnd(units) == [gone |-> Len(units), short |-> reply.fr # "none"]

DrainEnd(units) ==
  CASE reply.fr \in {"none", "closed"} -> [gone |-> 0, short |-> FALSE]
    [] reply.fr = "length" ->
         [gone |-> IF units = <<>> THEN 0 ELSE 1, short |-> units = <<>>]
    [] OTHER -> ChunksEnd(units)

(* A timeout, or the end of the stream, ends a drain without an error.     *)
Drained(units) == SubSeq(units, DrainEnd(units).gone + 1, Len(units))
DrainWaits(units) == tail = "open" /\ DrainEnd(units).short

HasUser == opts.user # "none"
HasColon == opts.user \in {"good", "long"}
Deferred == opts.auth = "any" /\ ~pre
FirstChallenge == IF reply.ch = <<>> THEN None ELSE reply.ch[1]
Challenged == reply.st = 407 /\ HasUser

----------------------------------------------------------------------------
(* The first CONNECT: NTLM Type 1, a Digest computed before, or Basic.     *)
FirstCredentials ==
  IF opts.auth = "ntlm" /\ HasUser THEN "type1"
  ELSE IF pre THEN "digest"
  ELSE IF opts.auth = "basic" /\ HasUser THEN "basic"
  ELSE "none"

ConnectFirst ==
  /\ at = "tunnel"
  /\ SendConnect(FirstCredentials, inbox, "reply1")
  /\ UNCHANGED <<opts, armed, heard, round, reply, acc, mark, connectResp, pre,
                 offers, waited, told>>

ReadFirst ==
  /\ at = "reply1"
  /\ ReadReply("drain1")
  /\ UNCHANGED <<opts, tail, armed, round, acc, mark, connectResp, pre, offers,
                 cred, connects, waited, told>>

(* After a 407 the body is drained, and CONNECT sent again when the first  *)
(* Proxy-Authenticate header is a Digest challenge that can be answered;   *)
(* any other reply is left as it is and the reader dropped.                *)
AnswersDigest == FirstChallenge = "digest" /\ HasColon

DigestRetry ==
  /\ at = "drain1"
  /\ Challenged /\ ~pre /\ AnswersDigest
  /\ acc' = Append(acc, heard)
  /\ waited' = (waited \/ DrainWaits(inbox))
  /\ \E rest \in Dropped(Drained(inbox)) :
       SendConnect("digest", rest, "reply2")
  /\ UNCHANGED <<opts, armed, heard, round, reply, mark, connectResp, pre, offers,
                 told>>

DrainFirst ==
  /\ at = "drain1"
  /\ Challenged /\ ~pre /\ ~AnswersDigest
  /\ at' = "type1"
  /\ waited' = (waited \/ DrainWaits(inbox))
  /\ inbox' \in Dropped(Drained(inbox))
  /\ UNCHANGED <<opts, tail, armed, heard, round, error, reply, acc, mark,
                 connectResp, pre, offers, cred, connects, told>>

KeepFirst ==
  /\ at = "drain1"
  /\ ~(Challenged /\ ~pre)
  /\ at' = "type1"
  /\ inbox' \in Dropped(inbox)
  /\ UNCHANGED <<opts, tail, armed, heard, round, error, reply, acc, mark,
                 connectResp, pre, offers, cred, connects, waited, told>>

ReadDigest ==
  /\ at = "reply2"
  /\ ReadReply("drop2")
  /\ UNCHANGED <<opts, tail, armed, round, acc, mark, connectResp, pre, offers,
                 cred, connects, waited, told>>

DropSecond ==
  /\ at = "drop2"
  /\ at' = "type1"
  /\ inbox' \in Dropped(inbox)
  /\ UNCHANGED <<opts, tail, armed, heard, round, error, reply, acc, mark,
                 connectResp, pre, offers, cred, connects, waited, told>>

(* --proxy-anyauth and NTLM offered: Type 1, without a drain.              *)
OffersNtlm == \E i \in DOMAIN reply.ch : reply.ch[i] = "ntlm"
StartsNtlm == Challenged /\ Deferred /\ OffersNtlm

NtlmType1 ==
  /\ at = "type1"
  /\ offers' = OffersNtlm
  /\ IF StartsNtlm
     THEN /\ acc' = Append(acc, heard)
          /\ SendConnect("type1", inbox, "replyT1")
     ELSE /\ at' = "type3"
          /\ UNCHANGED <<acc, cred, connects, inbox, tail, error>>
  /\ UNCHANGED <<opts, armed, heard, round, reply, mark, connectResp, pre, waited,
                 told>>

ReadType1 ==
  /\ at = "replyT1"
  /\ ReadReply("dropT1")
  /\ UNCHANGED <<opts, tail, armed, round, acc, mark, connectResp, pre, offers,
                 cred, connects, waited, told>>

DropType1 ==
  /\ at = "dropT1"
  /\ at' = "type3"
  /\ inbox' \in Dropped(inbox)
  /\ UNCHANGED <<opts, tail, armed, heard, round, error, reply, acc, mark,
                 connectResp, pre, offers, cred, connects, waited, told>>

(* A Type 2 challenge: the body is drained through a new reader, whatever  *)
(* became of it before, and Type 3 sent on the same connection.            *)
GoesOnNtlm ==
  /\ Challenged
  /\ opts.auth = "ntlm" \/ (Deferred /\ offers)
  /\ FirstChallenge = "t2" /\ HasColon

NtlmType3 ==
  /\ at = "type3"
  /\ GoesOnNtlm
  /\ waited' = (waited \/ DrainWaits(inbox))
  /\ IF opts.user = "long"
     THEN /\ Fails("too large NTLM credentials")
          /\ UNCHANGED <<acc, cred, connects, inbox, tail>>
     ELSE /\ acc' = Append(acc, heard)
          /\ \E rest \in Dropped(Drained(inbox)) :
               SendConnect("type3", rest, "replyT3")
  /\ UNCHANGED <<opts, armed, heard, round, reply, mark, connectResp, pre, offers,
                 told>>

NoType3 ==
  /\ at = "type3"
  /\ ~GoesOnNtlm
  /\ at' = "verdict"
  /\ UNCHANGED <<opts, inbox, tail, armed, heard, round, error, tvars>>

ReadType3 ==
  /\ at = "replyT3"
  /\ ReadReply("verdict")
  /\ UNCHANGED <<opts, tail, armed, round, acc, mark, connectResp, pre, offers,
                 cred, connects, waited, told>>

(* The last reader is dropped here too.                                    *)
Established ==
  /\ at = "verdict"
  /\ reply.st = 200
  /\ at' = "tls"
  /\ connectResp' = heard
  /\ acc' = Append(acc, heard)
  /\ inbox' \in Dropped(inbox)
  /\ UNCHANGED <<opts, tail, armed, heard, round, error, reply, mark, pre, offers,
                 cred, connects, waited, told>>

(* execute_request_inner: after a 407 any Digest challenge among the       *)
(* headers stashed in CONNECT_RESP is answered by a second connect(), with *)
(* the Authorization computed beforehand; any other refusal is returned,   *)
(* and every refusal of the connect() that follows a 417.                  *)
RetriesConnect ==
  /\ reply.st = 407
  /\ HasColon /\ ~pre /\ round = 1
  /\ \E i \in DOMAIN reply.ch : reply.ch[i] = "digest"

Refused ==
  /\ at = "verdict"
  /\ reply.st # 200
  /\ connectResp' = IF reply = NoStatus THEN 0 ELSE heard
  /\ IF RetriesConnect
     THEN at' = "connect" /\ pre' = TRUE /\ error' = error
     ELSE Fails("CONNECT tunnel failed") /\ pre' = pre
  /\ UNCHANGED <<opts, inbox, tail, armed, heard, round, reply, acc, mark, offers,
                 cred, connects, waited, told>>

----------------------------------------------------------------------------
(* socks_handshake.  One step per answer the proxy owes: s is what it      *)
(* says, "short" an answer that does not come in full.                     *)
SocksStep(a, s, next, failure) ==
  /\ at = a
  /\ IF s = "ok" THEN at' = next /\ error' = error ELSE Fails(failure)
  /\ UNCHANGED <<opts, inbox, tail, armed, heard, round, reply, acc, mark,
                 connectResp, pre, offers, cred, connects, waited>>

(* SOCKS4 resolves the host here, and sends the marker address 0.0.0.1     *)
(* when that fails; SOCKS4a always sends the marker and then the name.  A  *)
(* user name is cut at its colon.                                          *)
Socks4 ==
  /\ opts.via \in {"socks4", "socks4a"}
  /\ \/ /\ opts.user = "long"
        /\ SocksStep("socks", "refused", "tls", "too large SOCKS4 username")
        /\ told' = told
     \/ /\ opts.user # "long"
        /\ \E s \in {"ok", "refused", "short"} :
             SocksStep("socks", s, "tls", "SOCKS4")
        /\ told' = IF opts.via = "socks4a" THEN "host"
                   ELSE IF opts.host \in {"unknown", "long"} THEN "marker"
                   ELSE "address"

(* SOCKS5: the method is whatever the proxy chooses, offered or not.       *)
Socks5Greet ==
  /\ opts.via \in {"socks5", "socks5h"}
  /\ \/ SocksStep("socks", "ok", "socks_request", "none")
     \/ SocksStep("socks", "ok", "socks_auth", "none")
     \/ \E f \in {"SOCKS5 wrong protocol version", "SOCKS5 method read",
                   "SOCKS5 no acceptable auth method",
                   "SOCKS5 unknown auth method"} :
          SocksStep("socks", "refused", "socks_auth", f)
  /\ told' = told

(* Without a colon in --proxy-user both fields of the sub-negotiation are  *)
(* empty.                                                                  *)
Socks5Auth ==
  /\ \/ /\ opts.user = "long"
        /\ SocksStep("socks_auth", "refused", "socks_request",
                     "too large SOCKS5 username/password")
     \/ /\ opts.user # "long"
        /\ \E s \in {"ok", "refused"} :
             SocksStep("socks_auth", s, "socks_request",
                       "SOCKS5 authentication failed")
  /\ told' = told

(* SOCKS5 sends an address, resolved here for a name; SOCKS5h the name.    *)
FallsBackToMarker ==
  /\ \E s \in {"ok", "refused"} :
       SocksStep("socks_request", s, "tls", "SOCKS5 connect failed")
  /\ told' = IF opts.host \in {"unknown", "long"} THEN "marker"
             ELSE IF opts.via = "socks5h" THEN "host"
             ELSE "address"

Socks5Request ==
  LET Sends(what) ==
        /\ \E s \in {"ok", "refused"} :
             SocksStep("socks_request", s, "tls", "SOCKS5 connect failed")
        /\ told' = what
      Gives(e) ==
        /\ SocksStep("socks_request", "refused", "tls", e)
        /\ told' = told
      ByName == opts.via = "socks5h"
  IN  \/ opts.host = "address" /\ Sends("address")
      \/ opts.host = "name" /\ Sends(IF ByName THEN "host" ELSE "address")
      \/ opts.host = "long" /\ ByName /\ Gives("socks5_long_host")
      \/ opts.host = "unknown" /\ ByName /\ Sends("host")
      \/ /\ opts.host \in {"long", "unknown"} /\ ~ByName
         /\ Gives("SOCKS5 cannot resolve")

TunnelNext ==
  \/ ConnectFirst \/ ReadFirst \/ DigestRetry \/ DrainFirst \/ KeepFirst
  \/ ReadDigest \/ DropSecond \/ NtlmType1 \/ ReadType1 \/ DropType1
  \/ NtlmType3 \/ NoType3 \/ ReadType3 \/ Established \/ Refused
  \/ Socks4 \/ Socks5Greet \/ Socks5Auth \/ Socks5Request
=============================================================================
