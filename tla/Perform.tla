------------------------------ MODULE Perform ------------------------------
(***************************************************************************)
(* The request loop of perform() in src/request.rs: one URL is requested,  *)
(* the challenges of the server (401) and of the proxy (407) are answered, *)
(* and redirects are followed, until a response or an error is returned.   *)
(*                                                                         *)
(* Every call of execute_request is a step of its own, which the servers   *)
(* answer with any reply of Replies or with an error; between two calls    *)
(* the control goes through the stages of the loop body in their order.    *)
(***************************************************************************)
EXTENDS Naturals, Sequences, FiniteSets

CONSTANTS
  None,       \* no credentials, challenge, proxy, response or location
  Blank,      \* an empty Location
  Malformed,  \* a Location that is not a URL
  Refused,    \* a Location with a scheme --proto-redir does not allow
  Origins,    \* scheme, host and port of the URLs
  FirstUrls,  \* the URLs of the command line
  OptionSets, \* the option combinations to consider
  Replies     \* the replies of the servers and of the proxy

(* User credentials: the origin they are meant for, and whether they have  *)
(* a password (a colon).                                                   *)
Credentials == [origin : Origins, password : BOOLEAN]

(* A URL: its origin and its userinfo.                                     *)
Urls == [origin : Origins, userinfo : Credentials \union {None}]

(* scheme is --basic (the default), --digest, --ntlm or --anyauth; proxy   *)
(* says whether there is an HTTP proxy with --proxy-user, and with which   *)
(* of --proxy-basic, --proxy-anyauth and its like ("ask"), --proxy-ntlm;   *)
(* body is -d, -F, -T file or -T -; custom are the -H lines that matter.   *)
OptionSpace ==
  [scheme    : {"basic", "digest", "ntlm", "anyauth"},
   user      : Credentials \union {None},
   fromCli   : BOOLEAN,
   bearer    : Origins \union {None},
   proxy     : {None, "basic", "ask", "ntlm"},
   body      : {"none", "data", "form", "file", "stdin"},
   custom    : SUBSET {"host", "cookie", "authorization"},
   keepPost  : BOOLEAN,
   trusted   : BOOLEAN,
   netrc     : SUBSET Origins,
   location  : BOOLEAN,
   maxRedirs : Nat]

(* offers are the schemes of WWW-Authenticate (401) or Proxy-Authenticate  *)
(* (407): "stale" is Digest with stale=true, "ntlm" a bare NTLM, "type2"   *)
(* an NTLM with a Type 2 message. location is the resolved Location.       *)
ReplySpace ==
  [status   : {200, 302, 303, 307, 401, 404, 407},
   offers   : SUBSET {"basic", "digest", "stale", "ntlm", "type2"},
   closing  : BOOLEAN,
   http10   : BOOLEAN,
   location : Urls \union {None, Blank, Malformed, Refused}]

ASSUME PerformAssumption ==
  /\ FirstUrls \subseteq Urls
  /\ OptionSets \subseteq OptionSpace
  /\ Replies \subseteq ReplySpace
  /\ None \notin Origins \union Nat \union Credentials
                \union [nonce : Nat, whose : Origins]
  /\ "none" \notin {Malformed, Refused}
  /\ None \notin {"basic", "ask", "ntlm"}

(* Credentials are marked with the origin they are for: -u and a bearer    *)
(* token are for the URL of the command line, userinfo for its own URL.    *)
ASSUME OwnerAssumption ==
  /\ \A c \in OptionSets, u \in FirstUrls :
       /\ c.user # None => c.user.origin = u.origin
       /\ c.bearer # None => c.bearer = u.origin
  /\ \A u \in FirstUrls \union {r.location : r \in Replies} :
       u \in Urls /\ u.userinfo # None => u.userinfo.origin = u.origin

VARIABLES
  opts,      \* perform()'s own copy of the options
  url,       \* current_url
  pc,        \* the stage of the loop body
  resp,      \* the response in hand
  asked,     \* did_proxy_auth_retry
  redirects, \* redirects followed
  chain,     \* redirect_headers: the replies whose header blocks it holds
  result,    \* what perform() returned
  stdin,     \* has standard input been read to its end?
  wire,      \* history: the last request sent for this URL
  replies,   \* history: how many replies were read
  digests,   \* history: the nonces and counts of the Digest headers sent
  offered,   \* history: the redirects after which Basic was offered
  visited    \* history: the origins requests were sent to

history == <<wire, replies, digests, offered, visited>>
vars == <<opts, url, pc, resp, asked, redirects, chain, result, stdin, history>>

(* The options perform() starts from, with the fields it changes.          *)
Started(c) ==
  [scheme     |-> c.scheme,     user      |-> c.user,
   fromCli    |-> c.fromCli,    bearer    |-> c.bearer,
   proxy      |-> c.proxy,      body      |-> c.body,
   custom     |-> c.custom,     keepPost  |-> c.keepPost,
   trusted    |-> c.trusted,    netrc     |-> c.netrc,
   location   |-> c.location,   maxRedirs |-> c.maxRedirs,
   deferAuth  |-> c.scheme # "basic",
   emptyProbe |-> c.scheme \in {"digest", "ntlm"},
   noBasic    |-> FALSE,
   ntlm       |-> c.scheme = "ntlm",
   ntlmAuth   |-> None,
   ntlmDone   |-> FALSE,
   digest     |-> None,
   challenge  |-> None,
   nc         |-> 0,
   deferProxy |-> c.proxy = "ask",
   proxyNtlm  |-> c.proxy = "ntlm",
   proxyAuth  |-> None,
   proxyDone  |-> FALSE]

NoRequest ==
  [origin |-> None, auth |-> [scheme |-> "none"], proxyAuth |-> "none",
   body |-> "none", custom |-> {}]

Init ==
  /\ \E c \in OptionSets : opts = Started(c)
  /\ url \in FirstUrls
  /\ pc = "request"
  /\ resp = None
  /\ asked = FALSE
  /\ redirects = 0
  /\ chain = <<>>
  /\ result = "none"
  /\ stdin = "unread"
  /\ wire = NoRequest
  /\ replies = 0
  /\ digests = {}
  /\ offered = {}
  /\ visited = {}

----------------------------------------------------------------------------
(* build_request(): the header lines and the body that depend on the state *)
(* of the authentication.                                                  *)

Creds(o) == IF o.user # None THEN o.user ELSE url.userinfo

HasPassword(o) == Creds(o) # None /\ Creds(o).password

AuthOf(o) ==
  IF o.ntlmAuth # None THEN [scheme |-> "type3", whose |-> o.ntlmAuth]
  ELSE IF o.ntlm /\ ~o.ntlmDone /\ Creds(o) # None THEN
         [scheme |-> "type1", whose |-> Creds(o).origin]
  ELSE IF o.digest # None THEN
         [scheme |-> "digest", whose |-> o.digest.whose,
          nonce |-> o.digest.nonce, nc |-> 1]
  ELSE IF o.challenge # None /\ HasPassword(o) THEN
         [scheme |-> "digest", whose |-> Creds(o).origin,
          nonce |-> o.challenge, nc |-> o.nc]
  ELSE IF o.bearer # None THEN [scheme |-> "bearer", whose |-> o.bearer]
  ELSE IF Creds(o) # None /\ ~o.deferAuth /\ ~o.noBasic /\ ~o.ntlm THEN
         [scheme |-> "basic", whose |-> Creds(o).origin]
  ELSE [scheme |-> "none"]

ProxyAuthOf(o) ==
  IF o.proxyAuth # None THEN o.proxyAuth
  ELSE IF o.proxyNtlm /\ ~o.proxyDone THEN "type1"
  ELSE IF o.proxy # None /\ ~o.deferProxy /\ ~o.proxyNtlm THEN "basic"
  ELSE "none"

(* The body waits for the challenge: only Content-Length: 0 is sent.       *)
ProbesEmpty(o) ==
  \/ /\ o.deferAuth
     /\ o.emptyProbe
     /\ o.digest = None
     /\ o.body \in {"data", "file", "stdin"}
  \/ o.ntlm /\ ~o.ntlmDone /\ o.ntlmAuth = None
  \/ o.proxyNtlm /\ ~o.proxyDone /\ o.proxyAuth = None

BodyOf(o) ==
  IF o.body = "none" THEN "none"
  ELSE IF ProbesEmpty(o) \/ (o.body = "stdin" /\ stdin = "read") THEN "empty"
  ELSE "full"

Request(o) ==
  [origin    |-> url.origin,
   auth      |-> AuthOf(o),
   proxyAuth |-> ProxyAuthOf(o),
   body      |-> BodyOf(o),
   custom    |-> o.custom]

----------------------------------------------------------------------------
(* execute_request(): the request built from o goes out, and a reply comes *)
(* back or the call fails, which ends perform().                           *)

Sends(o) ==
  /\ wire' = Request(o)
  /\ digests' = IF AuthOf(o).scheme = "digest"
                THEN digests \union {[nonce |-> AuthOf(o).nonce,
                                      nc    |-> AuthOf(o).nc]}
                ELSE digests
  /\ visited' = visited \union {url.origin}
  /\ stdin' = IF o.body = "stdin" /\ BodyOf(o) = "full" THEN "read" ELSE stdin

(* Only a proxy answers 407.                                               *)
RepliesTo(o) == {r \in Replies : r.status = 407 => o.proxy # None}

Answered(o, r) ==
  /\ Sends(o)
  /\ resp' = r
  /\ replies' = replies + 1
  /\ offered' = IF r.status = 401 /\ "basic" \in r.offers
                THEN offered \union {redirects} ELSE offered
  /\ UNCHANGED <<url, redirects, result>>

Fails(o) ==
  /\ Sends(o)
  /\ result' = "error"
  /\ pc' = "done"
  /\ UNCHANGED <<opts, url, resp, asked, redirects, replies, offered>>

(* A call after which the options are o and the loop goes on at stage next.*)
Call(o, next) ==
  \/ /\ \E r \in RepliesTo(o) : Answered(o, r)
     /\ opts' = o
     /\ pc' = next
     /\ UNCHANGED asked
  \/ Fails(o)

(* The header block of the response in hand is kept for --include.         *)
KeepHead == chain' = Append(chain, replies)

(* perform() returns the response in hand, with redirect_headers or, when  *)
(* it gives up in the middle of an authentication, without.                *)
Exit(why) ==
  /\ result' = why
  /\ pc' = "done"
  /\ UNCHANGED <<url, resp, asked, redirects, stdin, history>>

Return(why) == Exit(why) /\ UNCHANGED chain
GiveUp(why) == Exit(why) /\ chain' = <<>>

(* Userinfo of the URL becomes the user, unless -u was given or it would   *)
(* replace a password by none.                                             *)
Lifted(o) ==
  LET ui == url.userinfo IN
  IF /\ ui # None
     /\ ~o.fromCli
     /\ o.user = None \/ ui.password \/ ~o.user.password
  THEN [o EXCEPT !.user = ui]
  ELSE o

Larger(a, b) == IF a > b THEN a ELSE b

(* Mutant: the count stays at the one after the retry.                     *)
CountedOnce(o) ==
  IF o.challenge # None /\ o.digest = None THEN [o EXCEPT !.nc = 2] ELSE o

(* The nonce count of a stored challenge goes up once it was used.         *)
Counted(o) ==
  IF o.challenge # None /\ o.digest = None
  THEN [o EXCEPT !.nc = Larger(o.nc + 1, 2)]
  ELSE o

(* The first request for a URL.                                            *)
FirstRequest ==
  /\ pc = "request"
  /\ LET o == Lifted(opts) IN
       \/ /\ \E r \in RepliesTo(o) : Answered(o, r)
          /\ opts' = Counted(o)
          /\ pc' = "site"
          /\ UNCHANGED asked
       \/ Fails(o)
  /\ UNCHANGED chain

----------------------------------------------------------------------------
(* The stages of the loop body.                                            *)

Offers(status, scheme) == resp.status = status /\ scheme \in resp.offers
OffersNtlm(status)   == Offers(status, "ntlm") \/ Offers(status, "type2")
OffersDigest(status) == Offers(status, "digest") \/ Offers(status, "stale")
OffersBasic(status)  == Offers(status, "basic")

SiteChallenged ==
  /\ resp.status = 401
  /\ Creds(opts) # None
  /\ opts.deferAuth \/ (opts.ntlm /\ opts.ntlmAuth = None)

(* NTLM is chosen when it was asked for or is offered without Digest.      *)
ChoosesNtlm == opts.ntlm \/ (OffersNtlm(401) /\ ~OffersDigest(401))
NtlmTurn == ChoosesNtlm /\ opts.ntlmAuth = None

Type2Usable == Offers(401, "type2") /\ HasPassword(opts)

WithType3(o) == [o EXCEPT !.ntlmAuth = Creds(o).origin]

(* After the Type 3 the connection is authenticated.                       *)
NtlmSettled(o, r) ==
  IF r.status # 401 THEN [o EXCEPT !.ntlmDone = TRUE, !.ntlmAuth = None] ELSE o

DigestDue == OffersDigest(401) /\ HasPassword(opts)

StaleDue == Offers(401, "stale") /\ opts.digest # None /\ HasPassword(opts)

(* Mutant: --data is forgotten among the bodies.                           *)
ProbeAcceptedUpload ==
  /\ resp.status = 200
  /\ opts.deferAuth
  /\ opts.emptyProbe
  /\ opts.body \in {"file", "stdin"}
  /\ opts.digest = None
  /\ opts.ntlmAuth = None

ProbeAccepted ==
  /\ resp.status = 200
  /\ opts.deferAuth
  /\ opts.emptyProbe
  /\ opts.body \in {"data", "file", "stdin"}
  /\ opts.digest = None
  /\ opts.ntlmAuth = None

ProxyType3Due ==
  /\ Offers(407, "type2")
  /\ opts.proxyNtlm
  /\ opts.proxyAuth = None

SwitchesToNtlm == OffersNtlm(407) /\ ~OffersDigest(407) /\ ~opts.proxyNtlm

ProxyAsks ==
  /\ opts.deferProxy
  /\ OffersDigest(407) \/ OffersBasic(407) \/ SwitchesToNtlm

(* The if statements of the loop body in their order, the nested ones      *)
(* included, and whether each has something to do in the current state.    *)
Stages ==
  <<"site", "type1", "digest", "stale", "probe", "proxyNtlm", "proxySite",
    "proxy", "proxyType1", "proxyBasic", "again", "redirect">>

Due(stage) ==
  CASE stage = "site"       -> SiteChallenged
    [] stage = "type1"      -> pc = "type1" /\ Type2Usable
    [] stage = "digest"     -> /\ pc \in {"type1", "digest"}
                               /\ DigestDue \/ OffersBasic(401)
    [] stage = "stale"      -> StaleDue
    [] stage = "probe"      -> ProbeAccepted
    [] stage = "proxyNtlm"  -> ProxyType3Due
    [] stage = "proxySite"  -> pc = "proxySite" /\ DigestDue
    [] stage = "proxy"      -> ProxyAsks
    [] stage = "proxyType1" -> pc = "proxyType1" /\ Offers(407, "type2")
    [] stage = "proxyBasic" -> /\ pc \in {"proxyType1", "proxyBasic"}
                               /\ OffersBasic(407)
    [] stage = "again"      -> asked /\ opts.deferAuth /\ DigestDue
    [] stage = "redirect"   -> TRUE

(* The control, which is at stage pc, gets to this stage before any other  *)
(* that has something to do.                                               *)
At(stage) ==
  /\ pc \notin {"request", "done"}
  /\ Due(stage)
  /\ \E i, j \in DOMAIN Stages :
       /\ pc = Stages[i]
       /\ stage = Stages[j]
       /\ i <= j
       /\ \A k \in i..j-1 : ~Due(Stages[k])

----------------------------------------------------------------------------
(* 401: the challenges of the server.                                      *)

SiteType3 ==
  /\ At("site")
  /\ NtlmTurn
  /\ Type2Usable
  /\ ~resp.closing /\ ~resp.http10
  /\ KeepHead
  /\ LET o == WithType3([opts EXCEPT !.ntlm = TRUE, !.deferAuth = FALSE]) IN
       \/ \E r \in RepliesTo(o) :
            /\ Answered(o, r)
            /\ opts' = NtlmSettled(o, r)
            /\ pc' = "digest"
            /\ UNCHANGED asked
       \/ Fails(o)

(* The credentials or the Type 2 message are over the limit.               *)
SiteTooLarge ==
  /\ \/ At("site") /\ NtlmTurn /\ Offers(401, "type2")
     \/ At("type1")
  /\ GiveUp("tooLarge")
  /\ UNCHANGED opts

SiteType1 ==
  /\ At("site")
  /\ NtlmTurn
  /\ ~Type2Usable
  /\ OffersNtlm(401)
  /\ KeepHead
  /\ Call([opts EXCEPT !.ntlm = TRUE, !.deferAuth = FALSE], "type1")

SiteType1Answered ==
  /\ At("type1")
  /\ KeepHead
  /\ Call(WithType3(opts), "digest")

(* Mutant: the challenge is looked at again, on a connection that closes.   *)
SiteNoNtlmAgain ==
  /\ At("site")
  /\ \/ ~NtlmTurn
     \/ ~OffersNtlm(401)
     \/ Type2Usable /\ (resp.closing \/ resp.http10)
  /\ opts' = [opts EXCEPT !.ntlm = ChoosesNtlm]
  /\ pc' = IF resp.closing THEN "site" ELSE "digest"
  /\ UNCHANGED <<url, resp, asked, redirects, chain, result, stdin, history>>

(* No NTLM message is due, or the connection it would be bound to closes.  *)
SiteNoNtlm ==
  /\ At("site")
  /\ \/ ~NtlmTurn
     \/ ~OffersNtlm(401)
     \/ Type2Usable /\ (resp.closing \/ resp.http10)
  /\ opts' = [opts EXCEPT !.ntlm = ChoosesNtlm]
  /\ pc' = "digest"
  /\ UNCHANGED <<url, resp, asked, redirects, chain, result, stdin, history>>

(* The one-shot Digest header that answers the challenge in hand.          *)
WithDigest(o) ==
  [o EXCEPT !.digest = [nonce |-> replies, whose |-> Creds(o).origin]]

(* The same, with the challenge stored for the requests after this one.    *)
WithChallenge(o) ==
  [WithDigest(o) EXCEPT !.deferAuth = FALSE, !.challenge = replies, !.nc = 2]

SiteDigest ==
  /\ At("digest")
  /\ DigestDue
  /\ ~(resp.http10 /\ opts.body = "stdin")
  /\ KeepHead
  /\ Call(WithChallenge(opts), "stale")

(* The server closes without a reply to the retry: the 401 stays in hand,  *)
(* with its status set to 0 and its header block already kept.             *)
SiteDigestGotNothing ==
  /\ At("digest")
  /\ DigestDue
  /\ ~(resp.http10 /\ opts.body = "stdin")
  /\ KeepHead
  /\ Sends(WithChallenge(opts))
  /\ opts' = WithChallenge(opts)
  /\ resp' = [resp EXCEPT !.status = 0]
  /\ pc' = "stale"
  /\ UNCHANGED <<url, asked, redirects, result, replies, offered>>

(* Standard input cannot be sent a second time without chunks.             *)
SiteDigestNoReplay ==
  /\ At("digest")
  /\ DigestDue
  /\ resp.http10 /\ opts.body = "stdin"
  /\ GiveUp("noReplay")
  /\ UNCHANGED opts

SiteBasic ==
  /\ At("digest")
  /\ ~DigestDue
  /\ KeepHead
  /\ Call([opts EXCEPT !.deferAuth = FALSE], "stale")

(* RFC 2617 stale=true: one more try with the fresh nonce.                 *)
StaleRetry ==
  /\ At("stale")
  /\ KeepHead
  /\ Call(WithDigest(opts), "probe")

(* The empty probe was accepted without a challenge: now the body goes     *)
(* out, without authentication.                                            *)
ProbeRetry ==
  /\ At("probe")
  /\ KeepHead
  /\ LET o == [opts EXCEPT !.deferAuth = FALSE, !.emptyProbe = FALSE]
         q == [o EXCEPT !.noBasic = TRUE, !.ntlmDone = opts.ntlmDone \/ opts.ntlm]
     IN  \/ /\ \E r \in RepliesTo(o) : Answered(q, r)
            /\ opts' = o
            /\ pc' = "proxyNtlm"
            /\ UNCHANGED asked
         \/ Fails(q)

----------------------------------------------------------------------------
(* 407: the challenges of the proxy.                                       *)

ProxySettled(o, r) ==
  IF r.status # 407 THEN [o EXCEPT !.proxyAuth = None, !.proxyDone = TRUE] ELSE o

(* A call with Proxy-Authorization: NTLM and the Type 3 message.           *)
ProxyType3Call(next) ==
  LET o == [opts EXCEPT !.proxyAuth = "type3"] IN
  \/ /\ \E r \in RepliesTo(o) : Answered(o, r) /\ opts' = ProxySettled(o, r)
     /\ pc' = next
  \/ Fails(o)

ProxyNtlm ==
  /\ At("proxyNtlm")
  /\ KeepHead
  /\ ProxyType3Call("proxySite")
  /\ UNCHANGED asked

ProxyTooLarge ==
  /\ At("proxyNtlm") \/ At("proxyType1")
  /\ GiveUp("tooLarge")
  /\ UNCHANGED opts

(* Behind the authenticated proxy the server has a challenge of its own.   *)
ProxySiteDigest ==
  /\ At("proxySite")
  /\ KeepHead
  /\ Call(WithChallenge(opts), "proxy")

(* A call that did_proxy_auth_retry is true after.                         *)
AskedCall(o, next) ==
  \/ /\ \E r \in RepliesTo(o) : Answered(o, r)
     /\ opts' = o
     /\ asked' = TRUE
     /\ pc' = next
  \/ Fails(o)

(* --proxy-anyauth, and only NTLM on offer: Type 1, then Type 3.           *)
ProxyType1 ==
  /\ At("proxy")
  /\ SwitchesToNtlm
  /\ KeepHead
  /\ AskedCall([opts EXCEPT !.proxyNtlm = TRUE, !.deferProxy = FALSE],
               "proxyType1")

ProxyType1Answered ==
  /\ At("proxyType1")
  /\ KeepHead
  /\ ProxyType3Call("proxyBasic")
  /\ UNCHANGED asked

ProxyDigest ==
  /\ At("proxy")
  /\ OffersDigest(407)
  /\ KeepHead
  /\ AskedCall([opts EXCEPT !.deferProxy = FALSE, !.proxyAuth = "digest"],
               "again")

ProxyBasic ==
  /\ \/ At("proxy") /\ ~OffersDigest(407) /\ ~SwitchesToNtlm
     \/ At("proxyBasic")
  /\ KeepHead
  /\ AskedCall([opts EXCEPT !.deferProxy = FALSE], "again")

(* After the proxy, the server: its Digest challenge is answered, and not  *)
(* stored.                                                                 *)
SiteAgain ==
  /\ At("again")
  /\ KeepHead
  /\ Call([WithDigest(opts) EXCEPT !.deferAuth = FALSE], "redirect")

----------------------------------------------------------------------------
(* 3xx: redirects.                                                         *)

Redirected == opts.location /\ resp.status \in {302, 303, 307}

Finish ==
  /\ At("redirect")
  /\ \/ ~Redirected
     \/ redirects < opts.maxRedirs /\ resp.location \in {None, Blank}
  /\ Return("ok")
  /\ UNCHANGED opts

RedirectCapped ==
  /\ At("redirect")
  /\ Redirected
  /\ redirects >= opts.maxRedirs
  /\ Return("maxRedirects")
  /\ UNCHANGED opts

(* Mutant: one redirect too many.                                          *)
FollowsOneMore ==
  /\ At("redirect")
  /\ Redirected
  /\ redirects <= opts.maxRedirs
  /\ resp.location \notin {None, Blank}

Follows ==
  /\ At("redirect")
  /\ Redirected
  /\ redirects < opts.maxRedirs
  /\ resp.location \notin {None, Blank}

(* Mutant: the header block is left in redirect_headers.                   *)
RedirectRefusedTwice ==
  /\ Follows
  /\ resp.location \in {Malformed, Refused}
  /\ Exit(resp.location)
  /\ KeepHead
  /\ UNCHANGED opts

(* The target cannot be parsed, or --proto-redir does not allow its        *)
(* scheme. The header block was kept and is taken out again.               *)
RedirectRefused ==
  /\ Follows
  /\ resp.location \in {Malformed, Refused}
  /\ Return(resp.location)
  /\ UNCHANGED opts

(* A POST becomes a GET on 301, 302 and 303, a PUT on 303.                 *)
Converted(o) ==
  LET isPost == o.body \in {"data", "form"}
      isPut  == o.body \in {"file", "stdin"}
  IN  IF \/ resp.status = 302 /\ isPost /\ ~o.keepPost
         \/ resp.status = 303 /\ (isPut \/ (isPost /\ ~o.keepPost))
      THEN [o EXCEPT !.body = "none"]
      ELSE o

RedirectStdin ==
  /\ Follows
  /\ resp.location \in Urls
  /\ Converted(opts).body = "stdin"
  /\ opts' = Converted(opts)
  /\ Return("uploadFailed")

(* Mutant: the bearer token is not dropped.                                *)
StrippedOfUser(o, target) ==
  [o EXCEPT !.custom = @ \ {"host", "cookie", "authorization"},
            !.user = IF o.trusted THEN @ ELSE None]

(* Another origin gets neither the custom Host and Cookie nor, without     *)
(* --location-trusted, any credentials; --netrc may know some for it.      *)
Stripped(o, target) ==
  LET p == [o EXCEPT !.custom = @ \ {"host", "cookie"}]
      q == IF ~o.trusted
           THEN [p EXCEPT !.custom = @ \ {"authorization"}, !.user = None,
                          !.bearer = None]
           ELSE IF o.user = None /\ target.userinfo = None
           THEN [p EXCEPT !.user = url.userinfo]
           ELSE p
  IN  IF q.user = None /\ target.origin \in o.netrc
      THEN [q EXCEPT !.user = [origin |-> target.origin, password |-> TRUE]]
      ELSE q

CrossOrigin(o, target) ==
  IF target.origin # url.origin THEN Stripped(o, target) ELSE o

(* Mutant: --anyauth does not ask the new server.                          *)
RearmedStillSure(o) ==
  [o EXCEPT !.digest = None, !.ntlm = IF o.scheme = "anyauth" THEN FALSE ELSE @]

(* The header that answered one challenge is dropped; the state of an NTLM *)
(* connection goes with the connection; --anyauth starts again.            *)
Rearmed(o) ==
  LET p == [o EXCEPT !.digest = None]
      q == IF resp.closing \/ resp.http10
           THEN [p EXCEPT !.ntlmAuth = None, !.ntlmDone = FALSE,
                          !.proxyAuth = IF @ = "type3" THEN None ELSE @,
                          !.proxyDone = FALSE]
           ELSE p
  IN  IF o.scheme = "anyauth"
      THEN [q EXCEPT !.ntlm = FALSE, !.deferAuth = TRUE]
      ELSE q

FollowRedirect ==
  /\ Follows
  /\ resp.location \in Urls
  /\ Converted(opts).body # "stdin"
  /\ opts' = Rearmed(CrossOrigin(Converted(opts), resp.location))
  /\ url' = resp.location
  /\ redirects' = redirects + 1
  /\ KeepHead
  /\ pc' = "request"
  /\ asked' = FALSE
  /\ resp' = None
  /\ wire' = NoRequest
  /\ UNCHANGED <<result, stdin, replies, digests, offered, visited>>

Next ==
  \/ FirstRequest
  \/ SiteType3 \/ SiteTooLarge \/ SiteType1 \/ SiteType1Answered \/ SiteNoNtlm
  \/ SiteDigest \/ SiteDigestGotNothing \/ SiteDigestNoReplay \/ SiteBasic
  \/ StaleRetry \/ ProbeRetry
  \/ ProxyNtlm \/ ProxyTooLarge \/ ProxySiteDigest \/ ProxyType1
  \/ ProxyType1Answered \/ ProxyDigest \/ ProxyBasic \/ SiteAgain
  \/ Finish \/ RedirectCapped \/ RedirectRefused \/ RedirectStdin
  \/ FollowRedirect

(* perform() is sequential, and every execute_request returns (ConnPool).  *)
Spec == Init /\ [][Next]_vars /\ WF_vars(Next)
----------------------------------------------------------------------------
(* Properties. *)

OptsType ==
  /\ opts.user \in Credentials \union {None}
  /\ opts.bearer \in Origins \union {None}
  /\ opts.body \in {"none", "data", "form", "file", "stdin"}
  /\ opts.ntlmAuth \in Origins \union {None}
  /\ opts.digest \in [nonce : 1..replies, whose : Origins] \union {None}
  /\ opts.challenge \in 1..replies \union {None}
  /\ opts.proxyAuth \in {None, "type3", "digest"}
  /\ {opts.deferAuth, opts.emptyProbe, opts.noBasic, opts.ntlm, opts.ntlmDone,
      opts.deferProxy, opts.proxyNtlm, opts.proxyDone} \subseteq BOOLEAN

TypeOK ==
  /\ OptsType
  /\ url \in Urls
  /\ pc \in {"request", "site", "type1", "digest", "stale", "probe",
            "proxyNtlm", "proxySite", "proxy", "proxyType1", "proxyBasic",
            "again", "redirect", "done"}
  /\ redirects \in 0..opts.maxRedirs
  /\ result \in {"none", "ok", "error", "tooLarge", "noReplay",
                "uploadFailed", "maxRedirects", Malformed, Refused}
  /\ (result = "none") = (pc # "done")

(* --include shows the header block of every reply read, in order and once *)
(* each: those in redirect_headers and that of the response returned, the  *)
(* ways out of the loop that return a redirect response included. Not so   *)
(* when it gives up an authentication: those blocks are lost.              *)
EveryHeadOnce ==
  result \notin {"none", "error", "tooLarge", "noReplay"} =>
    chain \o (IF resp.status = 0 THEN <<>> ELSE <<replies>>)
      = [i \in 1..replies |-> i]

(* Across redirects, -u, netrc, URL and bearer credentials go only to the  *)
(* origin they are for, and custom Host, Cookie and Authorization lines    *)
(* never follow to a second origin, unless --location-trusted was given    *)
(* (for all but Host and Cookie). An NTLM Type 3 is not covered.           *)
CredentialsStayHome ==
  /\ wire.auth.scheme \in {"basic", "digest", "bearer", "type1"} /\ ~opts.trusted
       => wire.auth.whose = wire.origin
  /\ Cardinality(visited) > 1 =>
       wire.custom \subseteq IF opts.trusted THEN {"authorization"} ELSE {}

(* A server may refuse a Digest header whose count it has seen: with       *)
(* --digest, no proxy and no turn to NTLM, the counts for one nonce go up  *)
(* from request to request, through retries and redirects.                 *)
NonceCountsGrow ==
  [][/\ replies' # replies
     /\ wire'.auth.scheme = "digest"
     /\ opts.scheme = "digest"
     /\ ~opts.ntlm
     /\ opts.proxy = None
     => \A d \in digests :
          d.nonce = wire'.auth.nonce => d.nc < wire'.auth.nc]_vars

(* With --anyauth a password goes out in the clear only after the server   *)
(* asked for Basic, and after a redirect the client asks again.            *)
AnyauthAsksFirst ==
  opts.scheme = "anyauth" /\ wire.auth.scheme = "basic" => redirects \in offered

(* A request with a body that goes straight to the server, without NTLM,   *)
(* and ends in success has had its body sent with the last request: the    *)
(* empty probe of --digest is never the end of it.  Behind a proxy that    *)
(* asks for credentials it may be, since the stage that sends the body is  *)
(* then behind; with NTLM it may be as well (EveryBodyArrives below), and  *)
(* standard input once read is not read a second time; so those three are  *)
(* left out.                                                               *)
BodyArrives ==
  /\ result = "ok"
  /\ resp.status = 200
  /\ opts.body \in {"data", "form", "file"}
  /\ ~opts.ntlm
  /\ opts.proxy = None
  => wire.body = "full"

(* perform() returns: redirects are capped and each challenge is answered  *)
(* a bounded number of times.                                              *)
Returns == <>(pc = "done")

(* What comments say of the loop, and the code does not do.                *)

(* build_request(): with --anyauth, --digest and --ntlm no Basic goes out  *)
(* before the server has asked for it.                                     *)
BasicOnlyIfOffered ==
  opts.scheme # "basic" /\ wire.auth.scheme = "basic" => offered # {}

(* perform(): after an empty probe that the server accepted, the body is   *)
(* sent.                                                                   *)
EveryBodyArrives ==
  result = "ok" /\ resp.status = 200 /\ opts.body # "none" => wire.body = "full"
=============================================================================
