------------------------------ MODULE ConnPool ------------------------------
(***************************************************************************)
(* The single-slot keep-alive pool of the client and the request that is   *)
(* carried over it: connect() of src/connection.rs, execute_request() and  *)
(* execute_request_inner() of src/request.rs, against servers that may     *)
(* close a connection at any moment.                                       *)
(*                                                                         *)
(* One call of execute_request is Begin, then (a connect action, Send, one *)
(* read action) once or twice, once more after a 417, then a return to     *)
(* "idle".  The blocking points of the code are the step boundaries: that  *)
(* is where a server can act.  A transfer here is one request on the wire; *)
(* redirects and retries after a 401 are further transfers.                *)
(***************************************************************************)
EXTENDS Naturals

CONSTANTS
  None,          \* the absent option, key or connection (a model value)
  Origins,       \* origin servers, one value per host:port
  HttpProxies,   \* HTTP proxies
  SocksProxies,  \* SOCKS proxies
  UnixSocket,    \* the --unix-socket path, or None; one for the whole process
  ProxyTunnel,   \* --proxytunnel; one for the whole process
  MaxTime,       \* whether --max-time is given; one for the whole process
  Configs,       \* the per-request options the command line may give
  ReplyKinds,    \* the kinds of reply the servers give
  MaxTransfers   \* bound: requests per run

Proxies   == HttpProxies \union SocksProxies
Endpoints == Origins \union Proxies \union ({UnixSocket} \ {None})

(* The options of a request that the pool looks at.  origin is the URL's   *)
(* host:port; connectTo and resolve are the endpoints the first matching   *)
(* --connect-to and --resolve entries send it to; expectBody says that the *)
(* request takes the Expect: 100-continue path.                            *)
ConfigSpace ==
  [origin     : Origins,
   scheme     : {"http", "https"},
   proxy      : Proxies \union {None},
   connectTo  : Origins \union {None},
   resolve    : Origins \union {None},
   userClose  : BOOLEAN,
   expectBody : BOOLEAN]

(* The replies a server can give, told apart by what the client does with  *)
(* the connection afterwards (read_response, src/response.rs):             *)
(*   framed        complete, HTTP/1.1, connection kept                     *)
(*   close         complete, with Connection: close                        *)
(*   http10        HTTP/1.0 with a body, no Connection: keep-alive         *)
(*   http10ka      HTTP/1.0 with a body and Connection: keep-alive         *)
(*   http10nobody  HTTP/1.0, no keep-alive, to a HEAD or with 204 or 304   *)
(*   http10kanobody  the same with Connection: keep-alive                  *)
(*   eof           body delimited by the end of the connection             *)
(*   bailed        read_response returned before the body was read         *)
(*   flagged       recv_error, partial_file, timed_out, or status 0        *)
AllReplyKinds ==
  {"framed", "close", "http10", "http10ka", "http10nobody",
   "http10kanobody", "eof", "bailed", "flagged"}

ASSUME ConnPoolAssumption ==
  /\ None \notin Origins \union Proxies
  /\ Configs \subseteq ConfigSpace
  /\ Configs # {}
  /\ ReplyKinds \subseteq AllReplyKinds
  /\ ProxyTunnel \in BOOLEAN
  /\ MaxTime \in BOOLEAN
  /\ MaxTransfers \in Nat

----------------------------------------------------------------------------
(* Routing and pool keys. *)

HasConnectTo(c) == c.connectTo # None

(* connect(): an HTTP CONNECT tunnel is set up.                            *)
UsesTunnel(c) ==
  /\ c.proxy \in HttpProxies
  /\ ProxyTunnel \/ c.scheme = "https" \/ HasConnectTo(c)

(* execute_request_inner(): the connection is saved as a tunnel.           *)
SavesAsTunnel(c) ==
  /\ c.proxy # None
  /\ ProxyTunnel \/ c.scheme = "https"

Keys == [host : Origins \union Proxies, isProxy : BOOLEAN]

\* Mutant of KeyOf: the test for a proxy is forgotten.
KeyOfProxyOnly(c, tunnelled) ==
  IF ~tunnelled
  THEN [host |-> c.proxy,  isProxy |-> TRUE]
  ELSE [host |-> c.origin, isProxy |-> FALSE]

KeyOf(c, tunnelled) ==
  IF c.proxy # None /\ ~tunnelled
  THEN [host |-> c.proxy,  isProxy |-> TRUE]
  ELSE [host |-> c.origin, isProxy |-> FALSE]

TakeKey(c) == KeyOf(c, UsesTunnel(c))
SaveKey(c) == KeyOf(c, SavesAsTunnel(c))

(* The endpoint a fresh connection for c ends at: where the bytes of the   *)
(* request arrive.  For a plain HTTP proxy that is the proxy; a CONNECT    *)
(* tunnel ends at the --connect-to target or the origin, a SOCKS tunnel at *)
(* the origin; --resolve is looked up for the host connected to.           *)
Destination(c) ==
  IF c.scheme = "http" /\ UnixSocket # None THEN UnixSocket
  ELSE IF UsesTunnel(c) THEN IF HasConnectTo(c) THEN c.connectTo ELSE c.origin
  ELSE IF c.proxy \in SocksProxies THEN c.origin
  ELSE IF c.proxy \in HttpProxies THEN c.proxy
  ELSE IF HasConnectTo(c) THEN c.connectTo
  ELSE IF c.resolve # None THEN c.resolve
  ELSE c.origin

----------------------------------------------------------------------------
VARIABLES
  pool,          \* CONN_POOL: None or the saved entry
  cur,           \* the connection the current attempt uses, or None
  source,        \* POOL_REUSED: "pool" when connect() source, else "new"
  version,       \* POOL_REUSED_HTTP10: "1.0" when the request is downgraded
  req,           \* the options of the current or last request
  pc,            \* where execute_request is
  tries,         \* 1 in the first execute_request_inner call, 2 in the second
  err,           \* the error an attempt ended with, or "none"
  outcome,       \* what execute_request returned: "none", "answered", "failed"
  pooledSends,   \* history: times the request reached a live server on a
                 \* reused connection
  freshSends,    \* history: the same, on new connections
  reached,       \* history: the endpoints it was sent to
  rejected,      \* whether a 417 made this call open a second connection
  answers,       \* history: the request the reply read answers, "own" or
                 \* "earlier"
  transfers      \* how many requests were begun

vars == <<pool, cur, source, version, req, pc, tries, err, outcome,
          pooledSends, freshSends, reached, rejected, answers, transfers>>
sent == <<pooledSends, freshSends, reached, rejected>>

(* A connection: where it ends, how it was made, whether the server still  *)
(* holds it open, whether bytes of an earlier reply are still to be read   *)
(* from it, and the last reply's kind.                                     *)
Conns ==
  [end    : Endpoints,
   via    : {"direct", "proxy", "tunnel", "socks", "unix"},
   server : {"open", "closed"},
   unread : {"nothing", "leftover"},
   last   : AllReplyKinds \union {"none"}]

Versions == {"1.1", "1.0"}

Entries ==
  [key : Keys, version : Versions, usedResolve : BOOLEAN, conn : Conns]

Errors == {"none", "connect", "send", "empty", "statusline", "reset", "other"}

TypeOK ==
  /\ pool \in Entries \union {None}
  /\ cur \in Conns \union {None}
  /\ source \in {"pool", "new"}
  /\ version \in Versions
  /\ req \in Configs
  /\ pc \in {"idle", "connect", "send", "read", "settle"}
  /\ tries \in 1..2
  /\ err \in Errors
  /\ outcome \in {"none", "answered", "failed"}
  /\ pooledSends \in 0..2
  /\ freshSends \in 0..2
  /\ reached \subseteq Endpoints
  /\ rejected \in BOOLEAN
  /\ answers \in {"none", "own", "earlier"}
  /\ transfers \in 0..MaxTransfers

Init ==
  /\ pool = None
  /\ cur = None
  /\ source = "new"
  /\ version = "1.1"
  /\ req \in Configs
  /\ pc = "idle"
  /\ tries = 1
  /\ err = "none"
  /\ outcome = "none"
  /\ pooledSends = 0
  /\ freshSends = 0
  /\ reached = {}
  /\ rejected = FALSE
  /\ answers = "none"
  /\ transfers = 0

----------------------------------------------------------------------------
(* perform() calls execute_request for a request with options c.           *)
Begin(c) ==
  /\ pc = "idle"
  /\ transfers < MaxTransfers
  /\ transfers' = transfers + 1
  /\ req' = c
  /\ pc' = "connect"
  /\ tries' = 1
  /\ err' = "none"
  /\ outcome' = "none"
  /\ pooledSends' = 0
  /\ freshSends' = 0
  /\ reached' = {}
  /\ rejected' = FALSE
  /\ answers' = "none"
  /\ UNCHANGED <<pool, cur, source, version>>

\* Mutant of PoolMatches: any entry will do.
PoolMatchesAnyKey(c) == c.scheme = "http" /\ UnixSocket = None /\ pool # None

(* connect(): the pooled connection matches.  Only plain http looks at the *)
(* pool, and not when --unix-socket is given.                              *)
PoolMatches(c) ==
  /\ c.scheme = "http"
  /\ UnixSocket = None
  /\ pool # None
  /\ pool.key = TakeKey(c)
  /\ ~(pool.usedResolve /\ HasConnectTo(c) /\ c.resolve = None)

ConnectFromPool ==
  /\ pc = "connect"
  /\ PoolMatches(req)
  /\ cur' = pool.conn
  /\ source' = "pool"
  /\ version' = pool.version
  /\ pool' = None
  /\ pc' = "send"
  /\ UNCHANGED <<req, tries, err, outcome, sent, answers, transfers>>

Via(c) ==
  IF c.scheme = "http" /\ UnixSocket # None THEN "unix"
  ELSE IF UsesTunnel(c) THEN "tunnel"
  ELSE IF c.proxy \in SocksProxies THEN "socks"
  ELSE IF c.proxy \in HttpProxies THEN "proxy"
  ELSE "direct"

FreshConn(c) ==
  [end    |-> Destination(c),
   via    |-> Via(c),
   server |-> "open",
   unread |-> "nothing",
   last   |-> "none"]

\* Mutant of ConnectFresh: the HTTP/1.0 flag of the last reuse is not reset.
ConnectFreshKeepsVersion ==
  /\ pc = "connect"
  /\ ~PoolMatches(req)
  /\ cur' = FreshConn(req)
  /\ source' = "new"
  /\ pc' = "send"
  /\ UNCHANGED <<pool, version, req, tries, err, outcome, sent, answers,
                 transfers>>

(* connect(): no usable entry.  A mismatching entry stays in the pool.     *)
ConnectFresh ==
  /\ pc = "connect"
  /\ ~PoolMatches(req)
  /\ cur' = FreshConn(req)
  /\ source' = "new"
  /\ version' = "1.1"
  /\ pc' = "send"
  /\ UNCHANGED <<pool, req, tries, err, outcome, sent, answers, transfers>>

ConnectFails ==
  /\ pc = "connect"
  /\ ~PoolMatches(req)
  /\ source' = "new"
  /\ version' = "1.1"
  /\ err' = "connect"
  /\ pc' = "settle"
  /\ UNCHANGED <<pool, cur, req, tries, outcome, sent, answers, transfers>>

(* The timeouts connect() arms on a TCP stream: always one for reads, one  *)
(* for writes only with --max-time.  A Unix socket has none, and the       *)
(* Expect path removes that for reads until a 417 brings a second stream.  *)
ReadTimed  == cur.via # "unix" /\ (req.expectBody => rejected)
WriteTimed == cur.via # "unix" /\ MaxTime

(* The request is written: all of it, or on the Expect path its head,      *)
(* which is what the server sees before it may reject it.  On a connection *)
(* the server has closed the write may fail, or vanish into the kernel's   *)
(* buffer; one that an open server does not take may time out.             *)
Send ==
  /\ pc = "send"
  /\ cur.server = "open"
  /\ pooledSends' = IF source = "pool" THEN pooledSends + 1 ELSE pooledSends
  /\ freshSends' = IF source = "pool" THEN freshSends ELSE freshSends + 1
  /\ reached' = reached \union {cur.end}
  /\ pc' = "read"
  /\ UNCHANGED <<pool, cur, source, version, req, tries, err, outcome,
                 rejected, answers, transfers>>

SendIntoClosed ==
  /\ pc = "send"
  /\ cur.server = "closed"
  /\ pc' = "read"
  /\ UNCHANGED <<pool, cur, source, version, req, tries, err, outcome,
                 sent, answers, transfers>>

(* An attempt that ends in an error drops its connection.                  *)
AttemptFails(e) ==
  /\ err' = e
  /\ cur' = None
  /\ pc' = "settle"
  /\ UNCHANGED <<pool, source, version, req, tries, outcome, sent,
                 answers, transfers>>

SendFails ==
  /\ pc = "send"
  /\ cur.server = "closed"
  /\ AttemptFails("send")

SendTimesOut ==
  /\ pc = "send"
  /\ cur.server = "open"
  /\ WriteTimed
  /\ AttemptFails("send")

----------------------------------------------------------------------------
(* read_response().  Bytes left over from an earlier reply come first.     *)

(* The server closed, or closes now, without a full status line or header  *)
(* block: end of file, a reset, or another read error.                     *)
ReadEnds ==
  /\ pc = "read"
  /\ cur.unread = "nothing"
  /\ \E e \in {"empty", "reset", "other"} : AttemptFails(e)

(* Nothing arrives before the read timeout, where there is one.            *)
ReadTimesOut ==
  /\ pc = "read"
  /\ cur.server = "open"
  /\ cur.unread = "nothing"
  /\ ReadTimed
  /\ AttemptFails("statusline")

(* Leftover bytes that do not start with HTTP/ are refused on a reused     *)
(* connection.                                                             *)
ReadLeftoverRefused ==
  /\ pc = "read"
  /\ cur.unread = "leftover"
  /\ AttemptFails("other")

(* The response's half of pool_ok.  The early returns of read_response,    *)
(* that for a reply without a body among them, build their Response with   *)
(* http10_response false.                                                  *)
Http10Response(k) == k \in {"http10", "http10ka"}
KeepAlive(k)      == k \in {"http10ka", "http10kanobody"}

\* Mutant of PoolOk: the error flags of the response are not looked at.
PoolOkDamaged(c, k) ==
  /\ k # "close"
  /\ ~c.userClose
  /\ ~Http10Response(k) \/ KeepAlive(k)
  /\ c.scheme = "http"
  /\ ~c.expectBody

PoolOk(c, k) ==
  /\ k # "close"
  /\ ~c.userClose
  /\ ~Http10Response(k) \/ KeepAlive(k)
  /\ c.scheme = "http"
  /\ k # "flagged"
  /\ ~c.expectBody

Entry(c, k, conn) ==
  [key         |-> SaveKey(c),
   version     |-> IF Http10Response(k) THEN "1.0" ELSE "1.1",
   usedResolve |-> c.resolve # None,
   conn        |-> conn]

(* A reply of kind k was read and the connection is left as conn: it goes  *)
(* into the pool or is dropped, and execute_request returns.               *)
Finish(k, conn) ==
  /\ pool' = IF PoolOk(req, k) THEN Entry(req, k, conn) ELSE pool
  /\ cur' = None
  /\ outcome' = "answered"
  /\ pc' = "idle"
  /\ UNCHANGED <<source, version, req, tries, err, sent, transfers>>

(* What a reply of kind k leaves behind: a closed connection after a reply *)
(* that its end delimits or from an HTTP/1.0 server that was not asked to  *)
(* keep it; perhaps unread bytes after an early return or a damaged body.  *)
ServerAfter(k) ==
  IF k \in {"eof", "http10", "http10nobody"} THEN "closed" ELSE "open"

UnreadAfter(k) ==
  IF k \in {"bailed", "flagged"} THEN {"nothing", "leftover"} ELSE {"nothing"}

ReadReply(k) ==
  /\ pc = "read"
  /\ cur.server = "open"
  /\ cur.unread = "nothing"
  /\ answers' = "own"
  /\ \E u \in UnreadAfter(k) :
       Finish(k, [cur EXCEPT !.last = k, !.server = ServerAfter(k),
                             !.unread = u])

(* The Expect path got a 417, or leftover bytes that read as one: the      *)
(* connection is dropped and the request is sent again on another, without *)
(* Expect.  What the second one is answered is the reply, a 417 too.       *)
Rejected ==
  /\ pc = "read"
  /\ req.expectBody
  /\ ~rejected
  /\ cur.server = "open" \/ cur.unread = "leftover"
  /\ rejected' = TRUE
  /\ cur' = None
  /\ pc' = "connect"
  /\ UNCHANGED <<pool, source, version, req, tries, err, outcome,
                 pooledSends, freshSends, reached, answers, transfers>>

(* Leftover bytes that do look like a response head are taken for the      *)
(* reply.                                                                  *)
ReadLeftover ==
  /\ pc = "read"
  /\ cur.unread = "leftover"
  /\ answers' = "earlier"
  /\ \E u \in {"nothing", "leftover"} :
       Finish("framed", [cur EXCEPT !.unread = u, !.last = "framed"])

----------------------------------------------------------------------------
(* execute_request(): what it does with an attempt that failed.            *)
IsStalePoolError(e) == e \in {"empty", "statusline", "send", "reset"}

\* Mutants of MayRetry: no bound on the attempts; only an empty reply counts;
\* a refused connection is tried again.
MayRetryUnbounded == IsStalePoolError(err)
MayRetryEmptyOnly == tries = 1 /\ source = "pool" /\ err = "empty"
MayRetryConnect ==
  err = "connect" \/ (tries = 1 /\ source = "pool" /\ IsStalePoolError(err))

MayRetry == tries = 1 /\ source = "pool" /\ IsStalePoolError(err)

RetryFresh ==
  /\ pc = "settle"
  /\ MayRetry
  /\ pool' = None
  /\ source' = "new"
  /\ tries' = 2
  /\ err' = "none"
  /\ pc' = "connect"
  /\ UNCHANGED <<cur, version, req, outcome, sent, answers, transfers>>

ReturnError ==
  /\ pc = "settle"
  /\ ~MayRetry
  /\ outcome' = "failed"
  /\ pc' = "idle"
  /\ UNCHANGED <<pool, cur, source, version, req, tries, err, sent,
                 answers, transfers>>

(* The servers: an idle pooled connection, or one taken but not yet        *)
(* written to, is closed from the other side.                              *)
ServerClosesIdle ==
  /\ pool # None
  /\ pool.conn.server = "open"
  /\ pool' = [pool EXCEPT !.conn.server = "closed"]
  /\ UNCHANGED <<cur, source, version, req, pc, tries, err, outcome,
                 sent, answers, transfers>>

ServerClosesTaken ==
  /\ pc = "send"
  /\ cur.server = "open"
  /\ cur' = [cur EXCEPT !.server = "closed"]
  /\ UNCHANGED <<pool, source, version, req, pc, tries, err, outcome,
                 sent, answers, transfers>>

Client ==
  \/ ConnectFromPool
  \/ ConnectFresh
  \/ ConnectFails
  \/ Send
  \/ SendIntoClosed
  \/ SendFails
  \/ SendTimesOut
  \/ ReadEnds
  \/ ReadTimesOut
  \/ ReadLeftoverRefused
  \/ \E k \in ReplyKinds : ReadReply(k)
  \/ Rejected
  \/ ReadLeftover
  \/ RetryFresh
  \/ ReturnError

Next ==
  \/ \E c \in Configs : Begin(c)
  \/ Client
  \/ ServerClosesIdle
  \/ ServerClosesTaken

(* The steps that need nothing of a server that holds its connection open: *)
(* a connect attempt ends, by the kernel's timeout or that for reads, which *)
(* holds for a proxy's handshake too; a closed connection and a timeout    *)
(* end a read or a write; leftover bytes are there already.                *)
Unaided ==
  \/ ConnectFromPool
  \/ ConnectFresh
  \/ ConnectFails
  \/ SendIntoClosed
  \/ SendFails
  \/ SendTimesOut
  \/ ReadEnds /\ cur.server = "closed"
  \/ ReadTimesOut
  \/ ReadLeftoverRefused
  \/ ReadLeftover
  \/ RetryFresh
  \/ ReturnError

(* The client is one thread that never yields: it takes the steps that are *)
(* its own.  No server has to take a request, to answer or to close.       *)
Spec == Init /\ [][Next]_vars /\ WF_vars(Unaided)
----------------------------------------------------------------------------
(* Properties. *)

(* The command line gives each origin one route, uses no SOCKS proxy, and  *)
(* no --connect-to for an origin that is reached through a proxy.  What    *)
(* the pool key records then determines where a saved connection ends.     *)
RoutedByOrigin ==
  /\ \A c, d \in Configs :
       c.origin = d.origin =>
         /\ c.proxy = d.proxy
         /\ c.connectTo = d.connectTo
         /\ c.resolve = d.resolve
  /\ \A c \in Configs :
       /\ c.proxy \notin SocksProxies
       /\ c.proxy # None => ~HasConnectTo(c)

(* A request goes out only on a connection that ends where a connection    *)
(* made for it would end: reuse never sends a request to another server    *)
(* (the key comparison of connect() against the key saved by               *)
(* execute_request_inner()).                                               *)
RightDestination ==
  /\ reached \subseteq {Destination(req)}
  /\ pc \in {"send", "read"} => cur.end = Destination(req)

(* The transparent retry of execute_request() never repeats a request that *)
(* went out on a new connection, and repeats one from a reused connection  *)
(* at most once; only a 417 on the Expect path has it sent on a second new *)
(* connection, and that once.                                              *)
OncePerConnectionKind ==
  pooledSends <= 1 /\ freshSends <= IF rejected THEN 2 ELSE 1

(* A failure that only says that a pooled connection had died never        *)
(* reaches the caller: execute_request() has then tried a new one.         *)
StaleErrorHidden ==
  pc = "idle" /\ outcome = "failed" /\ IsStalePoolError(err) => source = "new"

(* The request line is downgraded to HTTP/1.0 exactly when the last reply  *)
(* on the connection it goes out on was a kept-alive HTTP/1.0 one whose    *)
(* body was read: the thread-local flag of connect() is never left over    *)
(* from another request.  A kept-alive HTTP/1.0 reply without a body, or   *)
(* one given up early, leaves the connection marked as HTTP/1.1.           *)
Http10Pinned ==
  pc \in {"send", "read"} => (version = "1.0" <=> cur.last = "http10ka")

(* No connection with unread bytes of an earlier reply is in the pool.     *)
PooledClean == pool # None => pool.conn.unread = "nothing"

(* The reply a request gets is the answer to it, never what an earlier     *)
(* reply left on the connection.                                           *)
AnswerIsOwn == answers # "earlier"

(* Where nothing bounds the client's wait for a server that holds its      *)
(* connection open: a write without --max-time or over a Unix socket, and  *)
(* a read over a Unix socket or on the Expect path before a 417.           *)
Blocked ==
  \/ pc = "send" /\ cur.server = "open" /\ ~WriteTimed
  \/ pc = "read" /\ cur.server = "open" /\ cur.unread = "nothing" /\ ~ReadTimed

(* execute_request() returns, whatever servers do whose replies end, unless *)
(* it stays for ever in a wait that has no timeout.                        *)
CallsReturn == <>[]Blocked \/ (pc # "idle" ~> pc = "idle")

(* The pool is invisible: execute_request() delivers and answers as        *)
(* Exchange says.                                                          *)
Exch == INSTANCE Exchange WITH
  Jobs      <- Configs,
  Target    <- [c \in Configs |-> Destination(c)],
  Expecting <- {c \in Configs : c.expectBody},
  phase     <- IF pc = "idle" THEN "idle" ELSE "busy",
  job       <- req,
  sends     <- pooledSends + freshSends

ImplementsExchange == Exch!Spec

(* What the comments of the code say of the pool, and the code does not do *)
(* (see the findings).                                                     *)

(* connection.rs: after the handshake a SOCKS stream is a tunnel to the    *)
(* host and port of the URL.                                               *)
SocksStreamToUrlHost ==
  pc = "send" /\ cur.via = "socks" => cur.end = req.origin

(* request.rs: the second try is for a server that had already closed the  *)
(* connection, so that no server is sent the same request twice.           *)
ResentOnlyIfUndelivered == pooledSends + freshSends <= 1
=============================================================================
