--------------------------- MODULE PerformProofs ---------------------------
(***************************************************************************)
(* Theorems about Perform, for any origins, options, replies and number of *)
(* redirects: its type correctness, where credentials go, what --anyauth   *)
(* waits for, which header blocks are kept, that a body arrives, and how   *)
(* the counts of Digest go up.                                             *)
(***************************************************************************)
EXTENDS Perform, FiniteSetTheorems, SequenceTheorems, TLAPS

(* perform()'s copy of the options, as a record.                           *)
FullOptions ==
  [scheme     : {"basic", "digest", "ntlm", "anyauth"},
   user       : Credentials \union {None},
   fromCli    : BOOLEAN,
   bearer     : Origins \union {None},
   proxy      : {None, "basic", "ask", "ntlm"},
   body       : {"none", "data", "form", "file", "stdin"},
   custom     : SUBSET {"host", "cookie", "authorization"},
   keepPost   : BOOLEAN,
   trusted    : BOOLEAN,
   netrc      : SUBSET Origins,
   location   : BOOLEAN,
   maxRedirs  : Nat,
   deferAuth  : BOOLEAN,
   emptyProbe : BOOLEAN,
   noBasic    : BOOLEAN,
   ntlm       : BOOLEAN,
   ntlmAuth   : Origins \union {None},
   ntlmDone   : BOOLEAN,
   digest     : [nonce : Nat, whose : Origins] \union {None},
   challenge  : Nat \union {None},
   nc         : Nat,
   deferProxy : BOOLEAN,
   proxyNtlm  : BOOLEAN,
   proxyAuth  : {None, "type3", "digest"},
   proxyDone  : BOOLEAN]

Middle ==
  {"site", "type1", "digest", "stale", "probe", "proxyNtlm", "proxySite",
   "proxy", "proxyType1", "proxyBasic", "again", "redirect"}

(* A challenge came with one of the replies read.                          *)
Nonces(o) ==
  /\ o.digest # None => o.digest.nonce \in 1..replies
  /\ o.challenge # None => o.challenge \in 1..replies

(* Without --location-trusted all credentials are for the current origin.  *)
Home(o) ==
  ~o.trusted =>
    /\ o.user # None => o.user.origin = url.origin
    /\ o.bearer # None => o.bearer = url.origin
    /\ o.digest # None => o.digest.whose = url.origin

(* Away from the first origin the custom lines are gone.                   *)
Clean(o) ==
  ~(visited \subseteq {url.origin}) =>
    o.custom \subseteq IF o.trusted THEN {"authorization"} ELSE {}

(* --anyauth: what keeps Basic from being sent until it was offered.       *)
Sure(o) ==
  /\ o.scheme = "anyauth" =>
       o.deferAuth \/ o.ntlm \/ o.digest # None \/ redirects \in offered
  /\ o.emptyProbe => o.scheme \in {"digest", "ntlm"}

(* Options that a request may be built from.                               *)
Fit(o) ==
  o \in FullOptions /\ Nonces(o) /\ Home(o) /\ Clean(o) /\ Sure(o)

(* ... and that come from those of the call.                               *)
Kin(o) ==
  o.trusted = opts.trusted /\ o.scheme = opts.scheme /\ o.maxRedirs = opts.maxRedirs

UrlHome == url.userinfo # None => url.userinfo.origin = url.origin

(* The response in hand: it is one of Replies, but for the status 0.       *)
InHandSpace ==
  [status   : {0, 200, 302, 303, 307, 401, 404, 407},
   offers   : SUBSET {"basic", "digest", "stale", "ntlm", "type2"},
   closing  : BOOLEAN,
   http10   : BOOLEAN,
   location : Urls \union {None, Blank, Malformed, Refused}]

InHand ==
  pc \in Middle =>
    /\ replies \in Nat \ {0}
    /\ resp \in InHandSpace
    /\ resp.location \in {r.location : r \in Replies}
    /\ resp.status = 401 /\ "basic" \in resp.offers => redirects \in offered

(* The header blocks kept are those of all replies but the one in hand.    *)
Upto(n) == [i \in 1..n |-> i]
Kept ==
  /\ pc = "request" => chain = Upto(replies)
  /\ pc \in Middle =>
       chain = IF resp.status = 0 THEN Upto(replies) ELSE Upto(replies - 1)

Control ==
  /\ url \in Urls
  /\ pc \in Middle \union {"request", "done"}
  /\ redirects \in 0..opts.maxRedirs
  /\ replies \in Nat
  /\ result \in {"none", "ok", "error", "tooLarge", "noReplay",
                "uploadFailed", "maxRedirects", Malformed, Refused}
  /\ (result = "none") = (pc # "done")

PerformInv ==
  /\ Fit(opts)
  /\ Control
  /\ UrlHome
  /\ InHand
  /\ Kept
  /\ EveryHeadOnce
  /\ CredentialsStayHome
  /\ AnyauthAsksFirst

----------------------------------------------------------------------------
LEMMA InvTypeOK == PerformInv => TypeOK
  BY DEF PerformInv, Fit, FullOptions, Nonces, Control, Middle, TypeOK, OptsType

LEMMA CredsFit ==
  ASSUME NEW o, PerformInv, Fit(o), Creds(o) # None
  PROVE  /\ Creds(o) \in Credentials
         /\ ~o.trusted => Creds(o).origin = url.origin
<1>1. CASE o.user # None
  BY <1>1 DEF Creds, Fit, FullOptions, Home
<1>2. CASE o.user = None
  BY <1>2 DEF Creds, PerformInv, Control, Urls, UrlHome
<1> QED
  BY <1>1, <1>2

(* What a request says of itself when it is built from options that fit.   *)
LEMMA RequestFit ==
  ASSUME NEW o, PerformInv, Fit(o)
  PROVE  /\ AuthOf(o).scheme \in {"basic", "digest", "bearer", "type1"} /\ ~o.trusted
              => AuthOf(o).whose = url.origin
         /\ AuthOf(o).scheme = "basic" /\ o.scheme = "anyauth" => redirects \in offered
<1>1. o.digest # None /\ ~o.trusted => o.digest.whose = url.origin
  BY DEF Fit, Home
<1>2. o.bearer # None /\ ~o.trusted => o.bearer = url.origin
  BY DEF Fit, Home
<1>3. Creds(o) # None /\ ~o.trusted => Creds(o).origin = url.origin
  BY CredsFit
<1>4. AuthOf(o).scheme \in {"basic", "digest", "bearer", "type1"} /\ ~o.trusted
              => AuthOf(o).whose = url.origin
  BY <1>1, <1>2, <1>3 DEF AuthOf, HasPassword
<1>5. AuthOf(o).scheme = "basic" => o.digest = None /\ ~o.deferAuth /\ ~o.ntlm
  BY DEF AuthOf
<1> QED
  BY <1>4, <1>5 DEF Fit, Sure

LEMMA OneOrigin ==
  ASSUME NEW S, NEW a, S \subseteq {a}
  PROVE  ~(Cardinality(S) > 1)
<1>1. S = {} \/ S = {a}
  OBVIOUS
<1>2. Cardinality({}) = 0 /\ Cardinality({a}) = 1
  BY FS_EmptySet, FS_Singleton
<1> QED
  BY <1>1, <1>2

(* A request built from options that fit keeps both promises.              *)
LEMMA SentFit ==
  ASSUME NEW o, PerformInv, Fit(o), Kin(o), Kin(opts'), Sends(o),
         redirects' = redirects, offered \subseteq offered'
  PROVE  CredentialsStayHome' /\ AnyauthAsksFirst'
<1>1. wire' = Request(o) /\ visited' = visited \union {url.origin}
  BY DEF Sends
<1>2. /\ wire'.auth = AuthOf(o) /\ wire'.origin = url.origin
      /\ wire'.custom = o.custom
  BY <1>1 DEF Request
<1>3. opts'.trusted = o.trusted /\ opts'.scheme = o.scheme
  BY DEF Kin
<1>4. Cardinality(visited') > 1 => ~(visited \subseteq {url.origin})
  <2> SUFFICES ASSUME visited \subseteq {url.origin}
               PROVE  ~(Cardinality(visited') > 1)
    OBVIOUS
  <2>1. visited' \subseteq {url.origin}
    BY <1>1
  <2> QED
    BY <2>1, OneOrigin
<1>5. CredentialsStayHome'
  BY <1>2, <1>3, <1>4, RequestFit DEF CredentialsStayHome, Fit, Clean
<1>6. AnyauthAsksFirst'
  BY <1>2, <1>3, RequestFit DEF AnyauthAsksFirst
<1> QED
  BY <1>5, <1>6

(* A call that is answered.                                                *)
LEMMA AnsweredInv ==
  ASSUME NEW o, NEW r, PerformInv, Fit(o), Kin(o), Fit(opts'), Kin(opts'),
         r \in RepliesTo(o), Answered(o, r), pc \in Middle \union {"request"},
         pc' \in Middle, chain' = Upto(replies)
  PROVE  PerformInv'
<1>1. /\ Sends(o) /\ resp' = r /\ replies' = replies + 1 /\ url' = url
      /\ redirects' = redirects /\ result' = result
      /\ visited' = visited \union {url.origin}
      /\ offered' = IF r.status = 401 /\ "basic" \in r.offers
                    THEN offered \union {redirects} ELSE offered
  BY DEF Answered, Sends
<1>2. /\ r \in Replies
      /\ r.status \in {200, 302, 303, 307, 401, 404, 407}
      /\ r \in InHandSpace
  BY PerformAssumption DEF RepliesTo, ReplySpace, InHandSpace
<1>3. replies \in Nat
  BY DEF PerformInv, Control
<1>4. Fit(opts)'
  <2>1. opts' \in FullOptions
    BY DEF Fit
  <2>2. Nonces(opts)'
    BY <1>1, <1>3 DEF Fit, Nonces
  <2>3. Home(opts)' /\ Clean(opts)'
    BY <1>1 DEF Fit, Home, Clean
  <2>4. Sure(opts)'
    BY <1>1 DEF Fit, Sure
  <2> QED
    BY <2>1, <2>2, <2>3, <2>4 DEF Fit
<1>5. pc # "done" /\ result = "none"
  BY DEF PerformInv, Control, Middle
<1>6. Control'
  BY <1>1, <1>3, <1>5 DEF PerformInv, Control, Kin, Middle
<1>7. UrlHome'
  BY <1>1 DEF PerformInv, UrlHome
<1>8. InHand'
  BY <1>1, <1>2, <1>3 DEF InHand
<1>9. Kept'
  BY <1>1, <1>2, <1>3 DEF Kept, Middle
<1>10. EveryHeadOnce'
  BY <1>1, <1>5 DEF EveryHeadOnce
<1>11. CredentialsStayHome' /\ AnyauthAsksFirst'
  BY <1>1, SentFit
<1> QED
  BY <1>4, <1>6, <1>7, <1>8, <1>9, <1>10, <1>11 DEF PerformInv

(* A call that fails.                                                      *)
LEMMA FailsInv ==
  ASSUME NEW o, PerformInv, Fit(o), Kin(o), Fails(o)
  PROVE  PerformInv'
<1>1. /\ Sends(o) /\ result' = "error" /\ pc' = "done" /\ opts' = opts
      /\ url' = url /\ resp' = resp /\ redirects' = redirects
      /\ replies' = replies /\ offered' = offered
      /\ visited' = visited \union {url.origin}
  BY DEF Fails, Sends
<1>2. Fit(opts)'
  BY <1>1 DEF PerformInv, Fit, Nonces, Home, Clean, Sure
<1>3. Control' /\ UrlHome'
  BY <1>1 DEF PerformInv, Control, UrlHome
<1>4. InHand' /\ Kept' /\ EveryHeadOnce'
  BY <1>1 DEF InHand, Kept, EveryHeadOnce, Middle
<1>5. CredentialsStayHome' /\ AnyauthAsksFirst'
  BY <1>1, SentFit DEF Kin
<1> QED
  BY <1>2, <1>3, <1>4, <1>5 DEF PerformInv
----------------------------------------------------------------------------
(* The control.                                                            *)
LEMMA AtMiddle ==
  ASSUME NEW s, PerformInv, At(s)
  PROVE  pc \in Middle /\ Due(s)
  BY DEF At, PerformInv, Control

(* The response in hand has a status where its header block is kept.       *)
LEMMA Heard ==
  ASSUME PerformInv, pc \in Middle, resp.status # 0, KeepHead
  PROVE  chain' = Upto(replies)
<1>1. chain = Upto(replies - 1) /\ replies \in Nat \ {0}
  BY DEF PerformInv, Kept, InHand
<1>2. Append(Upto(replies - 1), replies) = Upto(replies)
  <2>1. Upto(replies - 1) \in Seq(Nat) /\ Len(Upto(replies - 1)) = replies - 1
    BY <1>1 DEF Upto
  <2> QED
    BY <1>1, <2>1 DEF Upto
<1> QED
  BY <1>1, <1>2 DEF KeepHead

LEMMA CallInv ==
  ASSUME NEW o, NEW next \in Middle, PerformInv, pc \in Middle, resp.status # 0,
         Fit(o), Kin(o), KeepHead, Call(o, next)
  PROVE  PerformInv'
<1>1. chain' = Upto(replies)
  BY Heard
<1>2. CASE \E r \in RepliesTo(o) : Answered(o, r) /\ opts' = o /\ pc' = next
  BY <1>1, <1>2, AnsweredInv
<1>3. CASE Fails(o)
  BY <1>3, FailsInv
<1> QED
  BY <1>2, <1>3 DEF Call

(* A way out that keeps the header blocks, or drops them and says why.     *)
LEMMA ExitInv ==
  ASSUME NEW why, PerformInv, pc \in Middle, Exit(why), Fit(opts'), Kin(opts'),
         why \in {"ok", "tooLarge", "noReplay", "uploadFailed", "maxRedirects",
                  Malformed, Refused},
         chain' = chain \/ why \in {"tooLarge", "noReplay"}
  PROVE  PerformInv'
<1>1. /\ result' = why /\ pc' = "done" /\ url' = url /\ resp' = resp
      /\ redirects' = redirects /\ replies' = replies /\ wire' = wire
      /\ offered' = offered /\ visited' = visited
  BY DEF Exit, history
<1>2. why # "none"
  BY PerformAssumption
<1>3. Fit(opts)'
  BY <1>1 DEF Fit, Nonces, Home, Clean, Sure
<1>4. Control' /\ UrlHome'
  BY <1>1, <1>2 DEF PerformInv, Control, UrlHome, Kin
<1>5. InHand' /\ Kept'
  BY <1>1 DEF InHand, Kept, Middle
<1>6. EveryHeadOnce'
  <2> SUFFICES ASSUME why \notin {"tooLarge", "noReplay"}
               PROVE  chain \o (IF resp.status = 0 THEN <<>> ELSE <<replies>>)
                        = Upto(replies)
    BY <1>1 DEF EveryHeadOnce, Upto
  <2>1. /\ chain = IF resp.status = 0 THEN Upto(replies) ELSE Upto(replies - 1)
        /\ replies \in Nat \ {0}
    BY DEF PerformInv, Kept, InHand
  <2>2. Upto(replies) \o <<>> = Upto(replies)
    BY <2>1 DEF Upto
  <2>3. Upto(replies - 1) \o <<replies>> = Upto(replies)
    BY <2>1 DEF Upto
  <2> QED
    BY <2>1, <2>2, <2>3
<1>7. CredentialsStayHome' /\ AnyauthAsksFirst'
  BY <1>1 DEF PerformInv, CredentialsStayHome, AnyauthAsksFirst, Kin
<1> QED
  BY <1>3, <1>4, <1>5, <1>6, <1>7 DEF PerformInv
----------------------------------------------------------------------------
(* Each change of the options leaves them fit.                             *)
LEMMA OptsFit == PerformInv => Fit(opts) /\ Kin(opts)
  BY DEF PerformInv, Kin

LEMMA LiftedFit == PerformInv => Fit(Lifted(opts)) /\ Kin(Lifted(opts))
<1> SUFFICES ASSUME PerformInv
             PROVE  Fit(Lifted(opts)) /\ Kin(Lifted(opts))
  OBVIOUS
<1> DEFINE p == [opts EXCEPT !.user = url.userinfo]
<1>1. CASE url.userinfo = None
  BY <1>1, OptsFit DEF Lifted
<1>2. CASE url.userinfo # None
  <2>1. url.userinfo \in Credentials /\ url.userinfo.origin = url.origin
    BY <1>2 DEF PerformInv, Control, Urls, UrlHome
  <2>2. p \in FullOptions
    BY <2>1 DEF PerformInv, Fit, FullOptions
  <2>3. Fit(p)
    BY <2>1, <2>2 DEF PerformInv, Fit, FullOptions, Nonces, Home, Clean, Sure
  <2>4. Kin(p)
    BY DEF PerformInv, Fit, FullOptions, Kin
  <2> QED
    BY <2>3, <2>4, OptsFit DEF Lifted
<1> QED
  BY <1>1, <1>2

LEMMA CountedFit ==
  ASSUME NEW o, Fit(o), Kin(o)
  PROVE  Fit(Counted(o)) /\ Kin(Counted(o))
<1> DEFINE p == [o EXCEPT !.nc = Larger(o.nc + 1, 2)]
<1>1. p \in FullOptions
  BY DEF Fit, FullOptions, Larger
<1>2. Fit(p) /\ Kin(p)
  BY <1>1 DEF Fit, FullOptions, Nonces, Home, Clean, Sure, Kin
<1> QED
  BY <1>2 DEF Counted

(* NTLM takes the place of asking.                                         *)
LEMMA NtlmFit ==
  ASSUME PerformInv
  PROVE  LET o == [opts EXCEPT !.ntlm = TRUE, !.deferAuth = FALSE]
         IN  Fit(o) /\ Kin(o) /\ Creds(o) = Creds(opts)
<1> DEFINE p == [opts EXCEPT !.ntlm = TRUE, !.deferAuth = FALSE]
<1>1. p \in FullOptions /\ Creds(p) = Creds(opts)
  BY DEF PerformInv, Fit, FullOptions, Creds
<1>2. Fit(p)
  BY <1>1 DEF PerformInv, Fit, FullOptions, Nonces, Home, Clean, Sure
<1>3. Kin(p)
  BY DEF PerformInv, Fit, FullOptions, Kin
<1> QED
  BY <1>1, <1>2, <1>3

LEMMA Type3Fit ==
  ASSUME NEW o, PerformInv, Fit(o), Kin(o), Creds(o) # None
  PROVE  Fit(WithType3(o)) /\ Kin(WithType3(o))
<1>1. Creds(o).origin \in Origins
  BY CredsFit DEF Credentials
<1>2. WithType3(o) \in FullOptions
  BY <1>1 DEF Fit, FullOptions, WithType3
<1> QED
  BY <1>2 DEF Fit, FullOptions, Nonces, Home, Clean, Sure, Kin, WithType3

LEMMA NtlmSettledFit ==
  ASSUME NEW o, NEW r, Fit(o), Kin(o)
  PROVE  Fit(NtlmSettled(o, r)) /\ Kin(NtlmSettled(o, r))
<1> DEFINE p == [o EXCEPT !.ntlmDone = TRUE, !.ntlmAuth = None]
<1>1. p \in FullOptions
  BY DEF Fit, FullOptions
<1>2. Fit(p)
  BY <1>1 DEF Fit, FullOptions, Nonces, Home, Clean, Sure
<1>3. Kin(p)
  BY DEF Fit, FullOptions, Kin
<1> QED
  BY <1>2, <1>3 DEF NtlmSettled

(* A Digest header is for the server that asked.                           *)
LEMMA DigestFit ==
  ASSUME NEW o, PerformInv, pc \in Middle, Fit(o), Kin(o), Creds(o) # None
  PROVE  /\ Fit(WithDigest(o)) /\ Kin(WithDigest(o))
         /\ WithDigest(o).digest # None
<1> DEFINE d == [nonce |-> replies, whose |-> Creds(o).origin]
<1>1. /\ replies \in Nat \ {0}
      /\ d \in [nonce : Nat, whose : Origins]
      /\ ~o.trusted => d.whose = url.origin
  BY CredsFit DEF PerformInv, InHand, Credentials
<1>2. d # None
  BY <1>1, PerformAssumption
<1>3. /\ WithDigest(o) \in FullOptions
      /\ WithDigest(o).digest = d
  BY <1>1 DEF Fit, FullOptions, WithDigest
<1>4. Fit(WithDigest(o))
  BY <1>1, <1>2, <1>3 DEF Fit, FullOptions, Nonces, Home, Clean, Sure, WithDigest
<1> QED
  BY <1>2, <1>3, <1>4 DEF Fit, FullOptions, Kin, WithDigest

LEMMA ChallengeFit ==
  ASSUME NEW o, PerformInv, pc \in Middle, Fit(o), Kin(o), Creds(o) # None
  PROVE  Fit(WithChallenge(o)) /\ Kin(WithChallenge(o))
<1> DEFINE q == WithDigest(o)
<1>1. Fit(q) /\ Kin(q) /\ q.digest # None /\ replies \in Nat \ {0}
  BY DigestFit DEF PerformInv, InHand
<1>2. WithChallenge(o) = [q EXCEPT !.deferAuth = FALSE, !.challenge = replies, !.nc = 2]
  BY DEF WithChallenge
<1> HIDE DEF q
<1>3. WithChallenge(o) \in FullOptions
  <2>1. q \in FullOptions /\ replies \in Nat
    BY <1>1 DEF Fit
  <2>2. [q EXCEPT !.deferAuth = FALSE, !.challenge = replies, !.nc = 2]
          \in FullOptions
    BY <2>1 DEF FullOptions
  <2> QED
    BY <2>2, <1>2
<1>4. Fit(WithChallenge(o))
  BY <1>1, <1>2, <1>3 DEF Fit, FullOptions, Nonces, Home, Clean, Sure
<1> QED
  BY <1>1, <1>2, <1>4 DEF Fit, FullOptions, Kin

LEMMA ProxySettledFit ==
  ASSUME NEW o, NEW r, Fit(o), Kin(o)
  PROVE  Fit(ProxySettled(o, r)) /\ Kin(ProxySettled(o, r))
<1> DEFINE p == [o EXCEPT !.proxyAuth = None, !.proxyDone = TRUE]
<1>1. p \in FullOptions
  BY DEF Fit, FullOptions
<1>2. Fit(p)
  BY <1>1 DEF Fit, FullOptions, Nonces, Home, Clean, Sure
<1>3. Kin(p)
  BY DEF Fit, FullOptions, Kin
<1> QED
  BY <1>2, <1>3 DEF ProxySettled

(* The proxy's fields bear on none of this.                                *)
LEMMA ProxyFit ==
  ASSUME PerformInv, NEW n \in BOOLEAN, NEW d \in BOOLEAN,
         NEW a \in {None, "type3", "digest"}
  PROVE  LET o == [opts EXCEPT !.proxyNtlm = n, !.deferProxy = d, !.proxyAuth = a]
         IN  Fit(o) /\ Kin(o)
<1> DEFINE p == [opts EXCEPT !.proxyNtlm = n, !.deferProxy = d, !.proxyAuth = a]
<1>1. p \in FullOptions
  BY DEF PerformInv, Fit, FullOptions
<1>2. Fit(p)
  BY <1>1 DEF PerformInv, Fit, FullOptions, Nonces, Home, Clean, Sure
<1>3. Kin(p)
  BY DEF PerformInv, Fit, FullOptions, Kin
<1> QED
  BY <1>2, <1>3
----------------------------------------------------------------------------
(* The options after a redirect.                                           *)
LEMMA ConvertedFit == PerformInv => Fit(Converted(opts)) /\ Kin(Converted(opts))
<1> SUFFICES ASSUME PerformInv
             PROVE  Fit(Converted(opts)) /\ Kin(Converted(opts))
  OBVIOUS
<1> DEFINE p == [opts EXCEPT !.body = "none"]
<1>1. p \in FullOptions
  BY DEF PerformInv, Fit, FullOptions
<1>2. Fit(p)
  BY <1>1 DEF PerformInv, Fit, FullOptions, Nonces, Home, Clean, Sure
<1>3. Kin(p)
  BY DEF PerformInv, Fit, FullOptions, Kin
<1> QED
  BY <1>2, <1>3, OptsFit DEF Converted

(* What options must satisfy to be used for a request to the target.       *)
Portable(o, target) ==
  /\ o \in FullOptions
  /\ Kin(o)
  /\ ~o.trusted =>
       /\ o.user # None => o.user.origin = target.origin
       /\ o.bearer # None => o.bearer = target.origin
  /\ ~(visited \subseteq {target.origin}) =>
       o.custom \subseteq IF o.trusted THEN {"authorization"} ELSE {}
  /\ o.challenge # None => o.challenge \in 1..replies
  /\ o.emptyProbe => o.scheme \in {"digest", "ntlm"}

LEMMA StrippedPortable ==
  ASSUME NEW o, NEW target \in Urls, PerformInv, Fit(o), Kin(o)
  PROVE  Portable(Stripped(o, target), target)
<1> DEFINE p == [o EXCEPT !.custom = @ \ {"host", "cookie"}]
           a == [p EXCEPT !.custom = @ \ {"authorization"}, !.user = None,
                          !.bearer = None]
           b == [p EXCEPT !.user = url.userinfo]
           q == IF ~o.trusted THEN a
                ELSE IF o.user = None /\ target.userinfo = None THEN b ELSE p
           n == [origin |-> target.origin, password |-> TRUE]
           s == [q EXCEPT !.user = n]
<1>0. /\ url.userinfo \in Credentials \union {None}
      /\ target.origin \in Origins
  BY DEF PerformInv, Control, Urls
<1>1. /\ p \in FullOptions
      /\ p.custom \subseteq {"authorization"}
      /\ p.trusted = o.trusted /\ p.scheme = o.scheme
      /\ p.maxRedirs = o.maxRedirs
      /\ p.challenge = o.challenge /\ p.emptyProbe = o.emptyProbe
  BY DEF Fit, FullOptions
<1> HIDE DEF p
<1>2. /\ a \in FullOptions /\ b \in FullOptions
      /\ a.custom = {} /\ b.custom = p.custom
      /\ a.user = None /\ a.bearer = None
      /\ \A x \in {a, b} :
           /\ x.trusted = o.trusted /\ x.scheme = o.scheme
           /\ x.maxRedirs = o.maxRedirs
           /\ x.challenge = o.challenge /\ x.emptyProbe = o.emptyProbe
  BY <1>0, <1>1 DEF FullOptions
<1> HIDE DEF a, b
<1>3. Portable(q, target)
  BY <1>1, <1>2 DEF Portable, Fit, Nonces, Sure, Kin
<1> HIDE DEF q
<1>4. n \in Credentials /\ n.origin = target.origin
  BY <1>0 DEF Credentials
<1> HIDE DEF n
<1>5. s \in FullOptions
  BY <1>3, <1>4 DEF Portable, FullOptions
<1>6. Portable(s, target)
  BY <1>3, <1>4, <1>5 DEF Portable, FullOptions, Kin
<1>7. Stripped(o, target) = IF q.user = None /\ target.origin \in o.netrc THEN s ELSE q
  BY DEF Stripped, q, a, b, p, s, n
<1> QED
  BY <1>3, <1>6, <1>7

LEMMA CrossOriginPortable ==
  ASSUME NEW o, NEW target \in Urls, PerformInv, Fit(o), Kin(o)
  PROVE  Portable(CrossOrigin(o, target), target)
<1>1. CASE target.origin # url.origin
  BY <1>1, StrippedPortable DEF CrossOrigin
<1>2. CASE target.origin = url.origin
  BY <1>2 DEF CrossOrigin, Portable, Fit, Nonces, Home, Clean, Sure
<1> QED
  BY <1>1, <1>2

LEMMA RearmedPortable ==
  ASSUME NEW o, NEW target, Portable(o, target)
  PROVE  /\ Portable(Rearmed(o), target)
         /\ Rearmed(o).digest = None
         /\ Rearmed(o).scheme = "anyauth" => Rearmed(o).deferAuth
<1> DEFINE p == [o EXCEPT !.digest = None]
           c == [p EXCEPT !.ntlmAuth = None, !.ntlmDone = FALSE,
                          !.proxyAuth = IF @ = "type3" THEN None ELSE @,
                          !.proxyDone = FALSE]
           q == IF resp.closing \/ resp.http10 THEN c ELSE p
           z == [q EXCEPT !.ntlm = FALSE, !.deferAuth = TRUE]
<1>1. p \in FullOptions /\ p.digest = None
  BY DEF Portable, FullOptions
<1>2. Portable(p, target)
  BY <1>1 DEF Portable, FullOptions, Kin
<1> HIDE DEF p
<1>3. c \in FullOptions /\ c.digest = None
  <2> DEFINE w == IF p.proxyAuth = "type3" THEN None ELSE p.proxyAuth
  <2>1. w \in {None, "type3", "digest"}
    BY <1>1 DEF FullOptions
  <2>2. c = [p EXCEPT !.ntlmAuth = None, !.ntlmDone = FALSE,
                      !.proxyAuth = w, !.proxyDone = FALSE]
    OBVIOUS
  <2> HIDE DEF w, c
  <2>3. [p EXCEPT !.ntlmAuth = None, !.ntlmDone = FALSE, !.proxyAuth = w,
                  !.proxyDone = FALSE] \in FullOptions
    <3>1. p \in FullOptions
      BY <1>1
    <3> QED
      BY <3>1, <2>1 DEF FullOptions
  <2>4. c \in FullOptions
    BY <2>2, <2>3
  <2>5. c.digest = p.digest
    BY <1>1, <2>2 DEF FullOptions
  <2> QED
    BY <1>1, <2>4, <2>5
<1>4. Portable(c, target)
  BY <1>2, <1>3 DEF Portable, FullOptions, Kin
<1> HIDE DEF c
<1>5. Portable(q, target) /\ q.digest = None
  BY <1>1, <1>2, <1>3, <1>4
<1>6. q.scheme = o.scheme
  BY <1>5 DEF Portable, Kin
<1> HIDE DEF q
<1>7. z \in FullOptions /\ z.digest = None /\ z.deferAuth
  <2>1. q \in FullOptions
    BY <1>5 DEF Portable
  <2>2. z \in FullOptions
    BY <2>1 DEF FullOptions
  <2>3. z.digest = q.digest /\ z.deferAuth
    BY <2>1 DEF FullOptions
  <2> QED
    BY <1>5, <2>2, <2>3
<1>8. Portable(z, target)
  BY <1>5, <1>7 DEF Portable, FullOptions, Kin
<1>9. Rearmed(o) = IF o.scheme = "anyauth" THEN z ELSE q
  BY DEF Rearmed, q, c, p
<1> HIDE DEF z
<1> QED
  BY <1>5, <1>6, <1>7, <1>8, <1>9
----------------------------------------------------------------------------
(* The steps, one by one.                                                  *)
LEMMA FirstRequestInv == PerformInv /\ FirstRequest => PerformInv'
<1> SUFFICES ASSUME PerformInv, FirstRequest
             PROVE  PerformInv'
  OBVIOUS
<1> DEFINE o == Lifted(opts)
<1>1. Fit(o) /\ Kin(o) /\ Fit(Counted(o)) /\ Kin(Counted(o))
  BY LiftedFit, CountedFit
<1> HIDE DEF o
<1>2. pc = "request" /\ chain' = Upto(replies)
  BY DEF FirstRequest, PerformInv, Kept
<1>3. CASE \E r \in RepliesTo(o) :
             Answered(o, r) /\ opts' = Counted(o) /\ pc' = "site"
  BY <1>1, <1>2, <1>3, AnsweredInv DEF Middle
<1>4. CASE Fails(o)
  BY <1>1, <1>4, FailsInv
<1> QED
  BY <1>3, <1>4 DEF FirstRequest, o

LEMMA SiteType3Inv == PerformInv /\ SiteType3 => PerformInv'
<1> SUFFICES ASSUME PerformInv, SiteType3
             PROVE  PerformInv'
  OBVIOUS
<1> DEFINE p == [opts EXCEPT !.ntlm = TRUE, !.deferAuth = FALSE]
           o == WithType3(p)
<1>1. pc \in Middle /\ resp.status = 401 /\ Creds(opts) # None
  BY AtMiddle DEF SiteType3, Type2Usable, Offers, HasPassword
<1>2. Fit(p) /\ Kin(p) /\ Creds(p) # None
  BY <1>1, NtlmFit
<1> HIDE DEF p
<1>3. Fit(o) /\ Kin(o)
  BY <1>2, Type3Fit
<1> HIDE DEF o
<1>4. chain' = Upto(replies)
  BY <1>1, Heard DEF SiteType3
<1>5. ASSUME NEW r \in RepliesTo(o), Answered(o, r), opts' = NtlmSettled(o, r),
             pc' = "digest"
      PROVE  PerformInv'
  <2>1. Fit(opts') /\ Kin(opts')
    BY <1>3, <1>5, NtlmSettledFit
  <2> QED
    BY <1>1, <1>3, <1>4, <1>5, <2>1, AnsweredInv DEF Middle
<1>6. CASE Fails(o)
  BY <1>3, <1>6, FailsInv
<1> QED
  BY <1>5, <1>6 DEF SiteType3, o, p

LEMMA SiteType1Inv == PerformInv /\ SiteType1 => PerformInv'
<1> SUFFICES ASSUME PerformInv, SiteType1
             PROVE  PerformInv'
  OBVIOUS
<1>1. pc \in Middle /\ resp.status = 401
  BY AtMiddle DEF SiteType1, OffersNtlm, Offers
<1> QED
  BY <1>1, NtlmFit, CallInv DEF SiteType1, Middle

LEMMA SiteType1AnsweredInv == PerformInv /\ SiteType1Answered => PerformInv'
<1> SUFFICES ASSUME PerformInv, SiteType1Answered
             PROVE  PerformInv'
  OBVIOUS
<1>1. pc \in Middle /\ Due("type1")
  BY AtMiddle DEF SiteType1Answered
<1>2. resp.status = 401 /\ Creds(opts) # None
  BY <1>1 DEF Due, Type2Usable, Offers, HasPassword
<1>3. Fit(WithType3(opts)) /\ Kin(WithType3(opts))
  BY <1>2, OptsFit, Type3Fit
<1> QED
  BY <1>1, <1>2, <1>3, CallInv DEF SiteType1Answered, Middle

LEMMA SiteNoNtlmInv == PerformInv /\ SiteNoNtlm => PerformInv'
<1> SUFFICES ASSUME PerformInv, SiteNoNtlm
             PROVE  PerformInv'
  OBVIOUS
<1> DEFINE p == [opts EXCEPT !.ntlm = ChoosesNtlm]
<1>1. /\ pc \in Middle /\ pc' = "digest" /\ opts' = p
      /\ url' = url /\ resp' = resp /\ redirects' = redirects /\ chain' = chain
      /\ result' = result /\ wire' = wire /\ replies' = replies
      /\ offered' = offered /\ visited' = visited
  BY AtMiddle DEF SiteNoNtlm, history
<1>2. ChoosesNtlm \in BOOLEAN /\ (opts.ntlm => ChoosesNtlm)
  BY DEF ChoosesNtlm
<1>3. p \in FullOptions
  BY <1>2 DEF PerformInv, Fit, FullOptions
<1>4. Fit(p)
  BY <1>2, <1>3 DEF PerformInv, Fit, FullOptions, Nonces, Home, Clean, Sure
<1>5. Kin(p)
  BY DEF PerformInv, Fit, FullOptions, Kin
<1> HIDE DEF p
<1>6. Fit(opts)'
  BY <1>1, <1>4 DEF Fit, Nonces, Home, Clean, Sure
<1>7. Control' /\ UrlHome' /\ InHand' /\ Kept' /\ EveryHeadOnce'
  BY <1>1, <1>5 DEF PerformInv, Control, UrlHome, InHand, Kept, EveryHeadOnce,
                    Kin, Middle
<1>8. CredentialsStayHome' /\ AnyauthAsksFirst'
  BY <1>1, <1>5 DEF PerformInv, CredentialsStayHome, AnyauthAsksFirst, Kin
<1> QED
  BY <1>6, <1>7, <1>8 DEF PerformInv

LEMMA SiteDigestInv == PerformInv /\ SiteDigest => PerformInv'
<1> SUFFICES ASSUME PerformInv, SiteDigest
             PROVE  PerformInv'
  OBVIOUS
<1>1. pc \in Middle /\ resp.status = 401 /\ Creds(opts) # None
  BY AtMiddle DEF SiteDigest, DigestDue, OffersDigest, Offers, HasPassword
<1>2. Fit(WithChallenge(opts)) /\ Kin(WithChallenge(opts))
  BY <1>1, OptsFit, ChallengeFit
<1> QED
  BY <1>1, <1>2, CallInv DEF SiteDigest, Middle

(* No reply: the response in hand is the 401 without its status.           *)
LEMMA SiteDigestGotNothingInv == PerformInv /\ SiteDigestGotNothing => PerformInv'
<1> SUFFICES ASSUME PerformInv, SiteDigestGotNothing
             PROVE  PerformInv'
  OBVIOUS
<1> DEFINE o == WithChallenge(opts)
<1>1. pc \in Middle /\ resp.status = 401 /\ Creds(opts) # None
  BY AtMiddle DEF SiteDigestGotNothing, DigestDue, OffersDigest, Offers, HasPassword
<1>2. Fit(o) /\ Kin(o)
  BY <1>1, OptsFit, ChallengeFit
<1> HIDE DEF o
<1>3. /\ Sends(o) /\ opts' = o /\ resp' = [resp EXCEPT !.status = 0]
      /\ pc' = "stale" /\ url' = url /\ redirects' = redirects
      /\ result' = result /\ replies' = replies /\ offered' = offered
      /\ visited' = visited \union {url.origin}
  BY DEF SiteDigestGotNothing, Sends, o
<1>4. chain' = Upto(replies)
  BY <1>1, Heard DEF SiteDigestGotNothing
<1>5. resp' \in InHandSpace /\ resp'.status = 0 /\ resp'.location = resp.location
  BY <1>1, <1>3 DEF PerformInv, InHand, InHandSpace
<1>6. Fit(opts)'
  BY <1>2, <1>3 DEF Fit, Nonces, Home, Clean, Sure
<1>7. Control' /\ UrlHome'
  BY <1>1, <1>2, <1>3 DEF PerformInv, Control, UrlHome, Kin, Middle
<1>8. InHand' /\ Kept'
  BY <1>1, <1>3, <1>4, <1>5 DEF PerformInv, InHand, Kept, Middle
<1>9. EveryHeadOnce'
  BY <1>1, <1>3 DEF PerformInv, Control, EveryHeadOnce, Middle
<1>10. CredentialsStayHome' /\ AnyauthAsksFirst'
  BY <1>2, <1>3, SentFit
<1> QED
  BY <1>6, <1>7, <1>8, <1>9, <1>10 DEF PerformInv

LEMMA SiteBasicInv == PerformInv /\ SiteBasic => PerformInv'
<1> SUFFICES ASSUME PerformInv, SiteBasic
             PROVE  PerformInv'
  OBVIOUS
<1> DEFINE p == [opts EXCEPT !.deferAuth = FALSE]
<1>1. pc \in Middle /\ Due("digest")
  BY AtMiddle DEF SiteBasic
<1>2. resp.status = 401 /\ "basic" \in resp.offers
  BY <1>1 DEF SiteBasic, Due, OffersBasic, Offers
<1>3. redirects \in offered
  BY <1>1, <1>2 DEF PerformInv, InHand
<1>4. p \in FullOptions
  BY DEF PerformInv, Fit, FullOptions
<1>5. Fit(p)
  BY <1>3, <1>4 DEF PerformInv, Fit, FullOptions, Nonces, Home, Clean, Sure
<1>6. Kin(p)
  BY DEF PerformInv, Fit, FullOptions, Kin
<1> QED
  BY <1>1, <1>2, <1>5, <1>6, CallInv DEF SiteBasic, Middle

LEMMA StaleRetryInv == PerformInv /\ StaleRetry => PerformInv'
<1> SUFFICES ASSUME PerformInv, StaleRetry
             PROVE  PerformInv'
  OBVIOUS
<1>1. pc \in Middle /\ Due("stale")
  BY AtMiddle DEF StaleRetry
<1>2. resp.status = 401 /\ Creds(opts) # None
  BY <1>1 DEF Due, StaleDue, Offers, HasPassword
<1>3. Fit(WithDigest(opts)) /\ Kin(WithDigest(opts))
  BY <1>1, <1>2, OptsFit, DigestFit
<1> QED
  BY <1>1, <1>2, <1>3, CallInv DEF StaleRetry, Middle

LEMMA ProbeRetryInv == PerformInv /\ ProbeRetry => PerformInv'
<1> SUFFICES ASSUME PerformInv, ProbeRetry
             PROVE  PerformInv'
  OBVIOUS
<1> DEFINE o == [opts EXCEPT !.deferAuth = FALSE, !.emptyProbe = FALSE]
           q == [o EXCEPT !.noBasic = TRUE, !.ntlmDone = opts.ntlmDone \/ opts.ntlm]
<1>1. pc \in Middle /\ Due("probe")
  BY AtMiddle DEF ProbeRetry
<1>2. resp.status = 200 /\ opts.emptyProbe
  BY <1>1 DEF Due, ProbeAccepted
<1>3. opts.scheme # "anyauth"
  BY <1>2 DEF PerformInv, Fit, Sure
<1>4. o \in FullOptions
  BY DEF PerformInv, Fit, FullOptions
<1>5. Fit(o) /\ Kin(o)
  <2>1. Fit(o)
    BY <1>3, <1>4 DEF PerformInv, Fit, FullOptions, Nonces, Home, Clean, Sure
  <2>2. Kin(o)
    BY DEF PerformInv, Fit, FullOptions, Kin
  <2> QED
    BY <2>1, <2>2
<1> HIDE DEF o
<1>6. q \in FullOptions
  <2>1. \A b \in BOOLEAN : [o EXCEPT !.noBasic = TRUE, !.ntlmDone = b] \in FullOptions
    BY <1>4 DEF FullOptions
  <2> QED
    BY <2>1
<1>7. Fit(q) /\ Kin(q)
  <2>1. Fit(q)
    BY <1>5, <1>6 DEF Fit, FullOptions, Nonces, Home, Clean, Sure
  <2>2. Kin(q)
    BY <1>4, <1>5 DEF FullOptions, Kin
  <2> QED
    BY <2>1, <2>2
<1> HIDE DEF q
<1>8. chain' = Upto(replies)
  BY <1>1, <1>2, Heard DEF ProbeRetry
<1>9. CASE \E r \in RepliesTo(o) : Answered(q, r) /\ opts' = o /\ pc' = "proxyNtlm"
  <2>1. PICK r \in RepliesTo(o) : Answered(q, r)
    BY <1>9
  <2>2. r \in RepliesTo(q)
    <3>1. q.proxy = o.proxy
      BY <1>4 DEF q, FullOptions
    <3> QED
      BY <3>1 DEF RepliesTo
  <2> QED
    BY <1>1, <1>5, <1>7, <1>8, <1>9, <2>1, <2>2, AnsweredInv DEF Middle
<1>10. CASE Fails(q)
  BY <1>7, <1>10, FailsInv
<1> QED
  BY <1>9, <1>10 DEF ProbeRetry, q, o

(* A Proxy-Authorization with a Type 3 message.                            *)
LEMMA ProxyType3Inv ==
  ASSUME NEW next \in Middle, PerformInv, pc \in Middle, resp.status # 0, KeepHead,
         ProxyType3Call(next)
  PROVE  PerformInv'
<1> DEFINE o == [opts EXCEPT !.proxyAuth = "type3"]
<1>1. o \in FullOptions
  BY DEF PerformInv, Fit, FullOptions
<1>2. Fit(o) /\ Kin(o)
  <2>1. Fit(o)
    BY <1>1 DEF PerformInv, Fit, FullOptions, Nonces, Home, Clean, Sure
  <2>2. Kin(o)
    BY DEF PerformInv, Fit, FullOptions, Kin
  <2> QED
    BY <2>1, <2>2
<1> HIDE DEF o
<1>3. chain' = Upto(replies)
  BY Heard
<1>4. ASSUME NEW r \in RepliesTo(o), Answered(o, r), opts' = ProxySettled(o, r),
             pc' = next
      PROVE  PerformInv'
  <2>1. Fit(opts') /\ Kin(opts')
    BY <1>2, <1>4, ProxySettledFit
  <2> QED
    BY <1>2, <1>3, <1>4, <2>1, AnsweredInv
<1>5. CASE Fails(o)
  BY <1>2, <1>5, FailsInv
<1> QED
  BY <1>4, <1>5 DEF ProxyType3Call, o

LEMMA AskedInv ==
  ASSUME NEW o, NEW next \in Middle, PerformInv, pc \in Middle, resp.status # 0,
         Fit(o), Kin(o), KeepHead, AskedCall(o, next)
  PROVE  PerformInv'
<1>1. chain' = Upto(replies)
  BY Heard
<1>2. CASE \E r \in RepliesTo(o) : Answered(o, r) /\ opts' = o /\ pc' = next
  BY <1>1, <1>2, AnsweredInv
<1>3. CASE Fails(o)
  BY <1>3, FailsInv
<1> QED
  BY <1>2, <1>3 DEF AskedCall

(* A challenge of the proxy is in hand.                                    *)
LEMMA ProxyChallenge ==
  ASSUME PerformInv, NEW s \in {"proxyNtlm", "proxy", "proxyType1", "proxyBasic"},
         At(s)
  PROVE  pc \in Middle /\ resp.status = 407
  BY AtMiddle DEF Due, ProxyType3Due, ProxyAsks, SwitchesToNtlm, OffersNtlm,
                  OffersDigest, OffersBasic, Offers

LEMMA ProxyInv ==
  PerformInv /\ (ProxyNtlm \/ ProxyType1 \/ ProxyType1Answered \/ ProxyDigest
                  \/ ProxyBasic) => PerformInv'
<1> SUFFICES ASSUME PerformInv
             PROVE  ProxyNtlm \/ ProxyType1 \/ ProxyType1Answered \/ ProxyDigest
                      \/ ProxyBasic => PerformInv'
  OBVIOUS
<1>0. /\ opts.proxyNtlm \in BOOLEAN /\ opts.deferProxy \in BOOLEAN
      /\ opts.proxyAuth \in {None, "type3", "digest"}
      /\ opts \in FullOptions
  BY DEF PerformInv, Fit, FullOptions
<1>1. CASE ProxyNtlm
  BY <1>1, ProxyChallenge, ProxyType3Inv DEF ProxyNtlm, Middle
<1>2. CASE ProxyType1Answered
  BY <1>2, ProxyChallenge, ProxyType3Inv DEF ProxyType1Answered, Middle
<1>3. CASE ProxyType1
  <2> DEFINE o == [opts EXCEPT !.proxyNtlm = TRUE, !.deferProxy = FALSE]
  <2>1. o = [opts EXCEPT !.proxyNtlm = TRUE, !.deferProxy = FALSE,
                         !.proxyAuth = opts.proxyAuth]
    BY <1>0 DEF FullOptions
  <2>2. Fit(o) /\ Kin(o)
    BY <1>0, <2>1, ProxyFit
  <2> HIDE DEF o
  <2>3. AskedCall(o, "proxyType1")
    BY <1>3 DEF ProxyType1, o
  <2> QED
    BY <1>3, <2>2, <2>3, ProxyChallenge, AskedInv DEF ProxyType1, Middle
<1>4. CASE ProxyDigest
  <2> DEFINE o == [opts EXCEPT !.deferProxy = FALSE, !.proxyAuth = "digest"]
  <2>1. o = [opts EXCEPT !.proxyNtlm = opts.proxyNtlm, !.deferProxy = FALSE,
                         !.proxyAuth = "digest"]
    BY <1>0 DEF FullOptions
  <2>2. Fit(o) /\ Kin(o)
    BY <1>0, <2>1, ProxyFit
  <2> HIDE DEF o
  <2>3. AskedCall(o, "again")
    BY <1>4 DEF ProxyDigest, o
  <2> QED
    BY <1>4, <2>2, <2>3, ProxyChallenge, AskedInv DEF ProxyDigest, Middle
<1>5. CASE ProxyBasic
  <2> DEFINE o == [opts EXCEPT !.deferProxy = FALSE]
  <2>1. o = [opts EXCEPT !.proxyNtlm = opts.proxyNtlm, !.deferProxy = FALSE,
                         !.proxyAuth = opts.proxyAuth]
    BY <1>0 DEF FullOptions
  <2>2. Fit(o) /\ Kin(o)
    BY <1>0, <2>1, ProxyFit
  <2> HIDE DEF o
  <2>3. AskedCall(o, "again")
    BY <1>5 DEF ProxyBasic, o
  <2> QED
    BY <1>5, <2>2, <2>3, ProxyChallenge, AskedInv DEF ProxyBasic, Middle
<1> QED
  BY <1>1, <1>2, <1>3, <1>4, <1>5

LEMMA ProxySiteDigestInv == PerformInv /\ ProxySiteDigest => PerformInv'
<1> SUFFICES ASSUME PerformInv, ProxySiteDigest
             PROVE  PerformInv'
  OBVIOUS
<1>1. pc \in Middle /\ Due("proxySite")
  BY AtMiddle DEF ProxySiteDigest
<1>2. resp.status = 401 /\ Creds(opts) # None
  BY <1>1 DEF Due, DigestDue, OffersDigest, Offers, HasPassword
<1>3. Fit(WithChallenge(opts)) /\ Kin(WithChallenge(opts))
  BY <1>1, <1>2, OptsFit, ChallengeFit
<1> QED
  BY <1>1, <1>2, <1>3, CallInv DEF ProxySiteDigest, Middle

LEMMA SiteAgainInv == PerformInv /\ SiteAgain => PerformInv'
<1> SUFFICES ASSUME PerformInv, SiteAgain
             PROVE  PerformInv'
  OBVIOUS
<1> DEFINE q == WithDigest(opts)
           o == [q EXCEPT !.deferAuth = FALSE]
<1>1. pc \in Middle /\ Due("again")
  BY AtMiddle DEF SiteAgain
<1>2. resp.status = 401 /\ Creds(opts) # None
  BY <1>1 DEF Due, DigestDue, OffersDigest, Offers, HasPassword
<1>3. Fit(q) /\ Kin(q) /\ q.digest # None
  BY <1>1, <1>2, OptsFit, DigestFit
<1> HIDE DEF q
<1>4. q \in FullOptions
  BY <1>3 DEF Fit
<1>5. o \in FullOptions
  BY <1>4 DEF FullOptions
<1>6. Fit(o)
  BY <1>3, <1>5 DEF Fit, FullOptions, Nonces, Home, Clean, Sure
<1>7. Kin(o)
  BY <1>3, <1>4 DEF FullOptions, Kin
<1> HIDE DEF o
<1>8. Call(o, "redirect") /\ KeepHead
  BY DEF SiteAgain, o, q
<1> QED
  BY <1>1, <1>2, <1>6, <1>7, <1>8, CallInv DEF Middle

LEMMA ExitsInv ==
  PerformInv /\ (SiteTooLarge \/ SiteDigestNoReplay \/ ProxyTooLarge \/ Finish
                  \/ RedirectCapped \/ RedirectRefused) => PerformInv'
<1> SUFFICES ASSUME PerformInv
             PROVE  SiteTooLarge \/ SiteDigestNoReplay \/ ProxyTooLarge \/ Finish
                      \/ RedirectCapped \/ RedirectRefused => PerformInv'
  OBVIOUS
<1>1. CASE SiteTooLarge
  BY <1>1, AtMiddle, OptsFit, ExitInv DEF SiteTooLarge, GiveUp
<1>2. CASE SiteDigestNoReplay
  BY <1>2, AtMiddle, OptsFit, ExitInv DEF SiteDigestNoReplay, GiveUp
<1>3. CASE ProxyTooLarge
  BY <1>3, AtMiddle, OptsFit, ExitInv DEF ProxyTooLarge, GiveUp
<1>4. CASE Finish
  BY <1>4, AtMiddle, OptsFit, ExitInv DEF Finish, Return
<1>5. CASE RedirectCapped
  BY <1>5, AtMiddle, OptsFit, ExitInv DEF RedirectCapped, Return
<1>6. CASE RedirectRefused
  BY <1>6, AtMiddle, OptsFit, ExitInv DEF RedirectRefused, Follows, Return
<1> QED
  BY <1>1, <1>2, <1>3, <1>4, <1>5, <1>6

LEMMA RedirectStdinInv == PerformInv /\ RedirectStdin => PerformInv'
<1> SUFFICES ASSUME PerformInv, RedirectStdin
             PROVE  PerformInv'
  OBVIOUS
<1>1. pc \in Middle
  BY AtMiddle DEF RedirectStdin, Follows
<1>2. Fit(opts') /\ Kin(opts')
  BY ConvertedFit DEF RedirectStdin
<1> QED
  BY <1>1, <1>2, ExitInv DEF RedirectStdin, Return

LEMMA FollowRedirectInv == PerformInv /\ FollowRedirect => PerformInv'
<1> SUFFICES ASSUME PerformInv, FollowRedirect
             PROVE  PerformInv'
  OBVIOUS
<1> DEFINE t == resp.location
           x == CrossOrigin(Converted(opts), t)
<1>1. /\ pc \in Middle /\ resp.status # 0 /\ redirects < opts.maxRedirs
      /\ t \in Urls
  BY AtMiddle DEF FollowRedirect, Follows, Redirected
<1>2. /\ opts' = Rearmed(x) /\ url' = t /\ redirects' = redirects + 1
      /\ pc' = "request" /\ wire' = NoRequest /\ result' = result
      /\ replies' = replies /\ offered' = offered /\ visited' = visited
  BY DEF FollowRedirect
<1>3. t \in {r.location : r \in Replies}
  BY <1>1 DEF PerformInv, InHand
<1>4. Portable(x, t)
  BY <1>1, ConvertedFit, CrossOriginPortable
<1> HIDE DEF t, x
<1>5. /\ Portable(opts', t) /\ opts'.digest = None
      /\ opts'.scheme = "anyauth" => opts'.deferAuth
  BY <1>2, <1>4, RearmedPortable
<1>6. Fit(opts)'
  BY <1>2, <1>5 DEF Fit, Nonces, Home, Clean, Sure, Portable
<1>7. UrlHome'
  BY <1>1, <1>2, <1>3, OwnerAssumption DEF UrlHome
<1>8. Control'
  <2>1. opts'.maxRedirs = opts.maxRedirs /\ opts.maxRedirs \in Nat
    BY <1>5 DEF Portable, Kin, PerformInv, Fit, FullOptions
  <2> QED
    BY <1>1, <1>2, <2>1 DEF PerformInv, Control, Middle
<1>9. chain' = Upto(replies)
  BY <1>1, Heard DEF FollowRedirect
<1>10. InHand' /\ Kept'
  BY <1>2, <1>9 DEF InHand, Kept, Middle
<1>11. EveryHeadOnce'
  BY <1>1, <1>2 DEF PerformInv, Control, EveryHeadOnce, Middle
<1>12. CredentialsStayHome' /\ AnyauthAsksFirst'
  BY <1>2 DEF CredentialsStayHome, AnyauthAsksFirst, NoRequest
<1> QED
  BY <1>6, <1>7, <1>8, <1>10, <1>11, <1>12 DEF PerformInv

----------------------------------------------------------------------------
(* The invariant holds at the start, and every step keeps it.              *)
LEMMA InitInv == Init => PerformInv
<1> SUFFICES ASSUME Init
             PROVE  PerformInv
  OBVIOUS
<1>1. PICK c \in OptionSets : opts = Started(c)
  BY DEF Init
<1>2. /\ c \in OptionSpace /\ url \in Urls /\ url \in FirstUrls
      /\ pc = "request" /\ redirects = 0 /\ chain = <<>> /\ result = "none"
      /\ wire = NoRequest /\ replies = 0 /\ offered = {} /\ visited = {}
  BY PerformAssumption DEF Init
<1>3. Started(c) \in FullOptions
  BY <1>2 DEF OptionSpace, Started, FullOptions
<1>4. Fit(opts)
  BY <1>1, <1>2, <1>3, OwnerAssumption
     DEF Fit, Nonces, Home, Clean, Sure, Started, OptionSpace
<1>5. Control /\ UrlHome
  BY <1>1, <1>2, OwnerAssumption DEF Control, UrlHome, Started, OptionSpace
<1>6. InHand /\ Kept /\ EveryHeadOnce
  BY <1>2 DEF InHand, Kept, Upto, EveryHeadOnce, Middle
<1>7. CredentialsStayHome /\ AnyauthAsksFirst
  BY <1>2 DEF CredentialsStayHome, AnyauthAsksFirst, NoRequest
<1> QED
  BY <1>4, <1>5, <1>6, <1>7 DEF PerformInv

LEMMA StepInv == PerformInv /\ [Next]_vars => PerformInv'
<1> SUFFICES ASSUME PerformInv, [Next]_vars
             PROVE  PerformInv'
  OBVIOUS
<1>1. CASE Next
  BY <1>1, FirstRequestInv, SiteType3Inv, SiteType1Inv, SiteType1AnsweredInv,
     SiteNoNtlmInv, SiteDigestInv, SiteDigestGotNothingInv, SiteBasicInv,
     StaleRetryInv, ProbeRetryInv, ProxyInv, ProxySiteDigestInv, SiteAgainInv,
     ExitsInv, RedirectStdinInv, FollowRedirectInv
     DEF Next
<1>2. CASE UNCHANGED vars
  <2>1. /\ opts' = opts /\ url' = url /\ pc' = pc /\ resp' = resp
        /\ redirects' = redirects /\ chain' = chain /\ result' = result
        /\ wire' = wire /\ replies' = replies /\ offered' = offered
        /\ visited' = visited
    BY <1>2 DEF vars, history
  <2>2. Fit(opts)'
    BY <2>1 DEF PerformInv, Fit, Nonces, Home, Clean, Sure
  <2>3. Control' /\ UrlHome' /\ InHand' /\ Kept'
    BY <2>1 DEF PerformInv, Control, UrlHome, InHand, Kept
  <2>4. EveryHeadOnce'
    BY <2>1 DEF PerformInv, EveryHeadOnce
  <2>5. CredentialsStayHome' /\ AnyauthAsksFirst'
    BY <2>1 DEF PerformInv, CredentialsStayHome, AnyauthAsksFirst
  <2> QED
    BY <2>2, <2>3, <2>4, <2>5 DEF PerformInv
<1> QED
  BY <1>1, <1>2

LEMMA InvHolds == Spec => []PerformInv
  BY InitInv, StepInv, PTL DEF Spec

(* The copy of the options that perform() works on, the response in hand   *)
(* and the counters keep their types, and no more redirects are followed   *)
(* than --max-redirs allows.                                               *)
THEOREM PerformTypeCorrect == Spec => []TypeOK
  BY InvHolds, InvTypeOK, PTL

(* Through any chain of challenges, retries and redirects, credentials go  *)
(* only to the origin they are for, and custom Host, Cookie and            *)
(* Authorization lines to no second origin, unless --location-trusted.     *)
THEOREM CredentialsAreKept == Spec => []CredentialsStayHome
<1>1. PerformInv => CredentialsStayHome
  BY DEF PerformInv
<1> QED
  BY <1>1, InvHolds, PTL

(* --anyauth sends no password in the clear before the server it talks to  *)
(* has offered Basic, whatever an earlier server of the chain offered.     *)
THEOREM AnyauthIsPatient == Spec => []AnyauthAsksFirst
<1>1. PerformInv => AnyauthAsksFirst
  BY DEF PerformInv
<1> QED
  BY <1>1, InvHolds, PTL

(* The header blocks perform() returns are those of all replies it read,   *)
(* in order and once each, whichever branches appended them, unless the    *)
(* call fails or gives up an authentication.                               *)
THEOREM NoHeadLostOrRepeated == Spec => []EveryHeadOnce
<1>1. PerformInv => EveryHeadOnce
  BY DEF PerformInv
<1> QED
  BY <1>1, InvHolds, PTL

----------------------------------------------------------------------------
(* BodyArrives.  A request without its body is a probe that stage "probe"  *)
(* has still before it, so the loop cannot get past that stage with a 200. *)
Sound(o) ==
  /\ o.proxyNtlm => o.proxy # None
  /\ o.ntlmAuth # None /\ ~o.ntlm => o.scheme = "anyauth"

Probing(o) ==
  o.deferAuth /\ o.emptyProbe /\ o.digest = None /\ o.body \in {"data", "file"}

HasBody(o) ==
  ~o.ntlm /\ o.proxy = None /\ o.body \in {"data", "form", "file"}

Early == {"site", "type1", "digest", "stale", "probe"}

Awaited ==
  pc \in Middle /\ HasBody(opts) /\ wire.body # "full" =>
    pc \in Early /\ Probing(opts)

BodyInv ==
  /\ Sound(opts)
  /\ pc = "type1" => opts.ntlm
  /\ pc \in Middle /\ resp.status = 407 => opts.proxy # None
  /\ Awaited
  /\ BodyArrives

LEMMA SentBody ==
  ASSUME NEW o, Sends(o), Sound(o), HasBody(o)
  PROVE  wire'.body = "full" \/ Probing(o)
<1>1. wire'.body = BodyOf(o)
  BY DEF Sends, Request
<1> QED
  BY <1>1 DEF BodyOf, ProbesEmpty, Sound, HasBody, Probing

LEMMA AnsweredBody ==
  ASSUME NEW o, NEW r \in RepliesTo(o), Answered(o, r), PerformInv, BodyInv,
         pc \in Middle \union {"request"}, pc' \in Middle,
         Sound(o), Sound(opts'), opts'.proxy = o.proxy, opts'.body = o.body,
         opts'.ntlm = o.ntlm, pc' = "type1" => o.ntlm,
         HasBody(o) /\ Probing(o) => pc' \in Early /\ Probing(opts')
  PROVE  BodyInv'
<1>1. Sends(o) /\ resp' = r /\ result' = result
  BY DEF Answered
<1>2. result = "none"
  BY DEF PerformInv, Control, Middle
<1>3. Awaited'
  BY <1>1, SentBody DEF Awaited, HasBody
<1>4. r.status = 407 => o.proxy # None
  BY DEF RepliesTo
<1>5. BodyArrives'
  BY <1>1, <1>2 DEF BodyArrives
<1> QED
  BY <1>1, <1>3, <1>4, <1>5 DEF BodyInv, Sound

LEMMA FailsBody ==
  ASSUME NEW o, Fails(o), BodyInv
  PROVE  BodyInv'
<1>1. pc' = "done" /\ result' = "error" /\ opts' = opts
  BY DEF Fails
<1> QED
  BY <1>1 DEF BodyInv, Sound, Awaited, BodyArrives, Middle

LEMMA CallBody ==
  ASSUME NEW o, NEW next \in Middle, Call(o, next) \/ AskedCall(o, next),
         PerformInv, BodyInv, pc \in Middle,
         Sound(o), next = "type1" => o.ntlm,
         HasBody(o) /\ Probing(o) => next \in Early
  PROVE  BodyInv'
<1>1. CASE \E r \in RepliesTo(o) : Answered(o, r) /\ opts' = o /\ pc' = next
  BY <1>1, AnsweredBody
<1>2. CASE Fails(o)
  BY <1>2, FailsBody
<1> QED
  BY <1>1, <1>2 DEF Call, AskedCall

LEMMA FirstRequestBody == PerformInv /\ BodyInv /\ FirstRequest => BodyInv'
<1> SUFFICES ASSUME PerformInv, BodyInv, FirstRequest
             PROVE  BodyInv'
  OBVIOUS
<1> DEFINE o == Lifted(opts)
           q == Counted(o)
<1>0. o \in FullOptions
  BY LiftedFit DEF Fit
<1>1. Sound(o)
  BY DEF PerformInv, Fit, FullOptions, BodyInv, Sound, Lifted
<1> HIDE DEF o
<1>2. /\ q.proxy = o.proxy /\ q.body = o.body /\ q.ntlm = o.ntlm
      /\ q.proxyNtlm = o.proxyNtlm /\ q.ntlmAuth = o.ntlmAuth
      /\ q.scheme = o.scheme /\ q.deferAuth = o.deferAuth
      /\ q.emptyProbe = o.emptyProbe /\ q.digest = o.digest
  BY <1>0 DEF FullOptions, Counted
<1>3. Sound(q) /\ (Probing(o) => Probing(q))
  BY <1>1, <1>2 DEF Sound, Probing
<1>4. pc = "request"
  BY DEF FirstRequest
<1>5. ASSUME NEW r \in RepliesTo(o), Answered(o, r), opts' = q, pc' = "site"
      PROVE  BodyInv'
  BY <1>1, <1>2, <1>3, <1>4, <1>5, AnsweredBody DEF Middle, Early
<1>6. CASE Fails(o)
  BY <1>6, FailsBody
<1> QED
  BY <1>5, <1>6 DEF FirstRequest, o, q

LEMMA SiteType3Body == PerformInv /\ BodyInv /\ SiteType3 => BodyInv'
<1> SUFFICES ASSUME PerformInv, BodyInv, SiteType3
             PROVE  BodyInv'
  OBVIOUS
<1> DEFINE p == [opts EXCEPT !.ntlm = TRUE, !.deferAuth = FALSE]
           o == WithType3(p)
<1>1. pc \in Middle /\ opts \in FullOptions /\ Sound(opts)
  BY AtMiddle DEF SiteType3, PerformInv, Fit, BodyInv
<1>2. p \in FullOptions /\ p.ntlm /\ p.proxyNtlm = opts.proxyNtlm /\ p.proxy = opts.proxy
  BY <1>1 DEF FullOptions
<1> HIDE DEF p
<1>3. o.ntlm /\ o.proxyNtlm = p.proxyNtlm /\ o.proxy = p.proxy /\ o.ntlm = p.ntlm
  BY <1>2 DEF FullOptions, WithType3
<1>4. Sound(o) /\ ~HasBody(o)
  BY <1>1, <1>2, <1>3 DEF Sound, HasBody
<1>5. ASSUME NEW r \in RepliesTo(o), Answered(o, r), opts' = NtlmSettled(o, r),
             pc' = "digest"
      PROVE  BodyInv'
  <2>1. /\ opts'.proxy = o.proxy /\ opts'.body = o.body /\ opts'.ntlm = o.ntlm
        /\ opts'.proxyNtlm = o.proxyNtlm
    BY <1>2, <1>5 DEF NtlmSettled, WithType3, FullOptions
  <2>2. Sound(opts')
    BY <1>3, <1>4, <2>1 DEF Sound
  <2> HIDE DEF o
  <2> QED
    BY <1>1, <1>3, <1>4, <1>5, <2>1, <2>2, AnsweredBody DEF Middle
<1>6. CASE Fails(o)
  BY <1>6, FailsBody
<1> QED
  BY <1>5, <1>6 DEF SiteType3, p

LEMMA SiteNoNtlmBody == PerformInv /\ BodyInv /\ SiteNoNtlm => BodyInv'
<1> SUFFICES ASSUME PerformInv, BodyInv, SiteNoNtlm
             PROVE  BodyInv'
  OBVIOUS
<1>1. /\ pc \in Middle /\ pc' = "digest" /\ opts' = [opts EXCEPT !.ntlm = ChoosesNtlm]
      /\ resp' = resp /\ result' = result /\ wire' = wire
      /\ opts \in FullOptions /\ result = "none"
  BY AtMiddle DEF SiteNoNtlm, history, PerformInv, Fit, Control, Middle
<1>2. opts.ntlm => ChoosesNtlm
  BY DEF ChoosesNtlm
<1>3. /\ opts'.ntlm = ChoosesNtlm
      /\ opts'.proxyNtlm = opts.proxyNtlm /\ opts'.proxy = opts.proxy
      /\ opts'.ntlmAuth = opts.ntlmAuth /\ opts'.scheme = opts.scheme
      /\ opts'.deferAuth = opts.deferAuth /\ opts'.emptyProbe = opts.emptyProbe
      /\ opts'.digest = opts.digest /\ opts'.body = opts.body
  BY <1>1 DEF FullOptions
<1>4. Sound(opts')
  BY <1>2, <1>3 DEF BodyInv, Sound
<1>5. HasBody(opts') => HasBody(opts)
  BY <1>2, <1>3 DEF HasBody
<1>6. Probing(opts) => Probing(opts')
  BY <1>3 DEF Probing
<1>7. Awaited'
  BY <1>1, <1>5, <1>6 DEF BodyInv, Awaited, HasBody, Probing, Early
<1>8. BodyArrives'
  BY <1>1 DEF BodyArrives
<1> QED
  BY <1>1, <1>3, <1>4, <1>7, <1>8 DEF BodyInv, Sound

(* The calls whose options neither probe nor wait for NTLM.                *)
LEMMA SiteCallsBody ==
  PerformInv /\ BodyInv /\ (SiteType1 \/ SiteType1Answered \/ SiteDigest
    \/ SiteBasic \/ StaleRetry \/ ProxySiteDigest \/ SiteAgain) => BodyInv'
<1> SUFFICES ASSUME PerformInv, BodyInv
             PROVE  SiteType1 \/ SiteType1Answered \/ SiteDigest \/ SiteBasic
                      \/ StaleRetry \/ ProxySiteDigest \/ SiteAgain => BodyInv'
  OBVIOUS
<1>1. opts \in FullOptions /\ Sound(opts)
  BY DEF PerformInv, Fit, BodyInv
<1> DEFINE p == [opts EXCEPT !.ntlm = TRUE, !.deferAuth = FALSE]
           b == [opts EXCEPT !.deferAuth = FALSE]
           t == WithType3(opts)
           d == WithDigest(opts)
           c == WithChallenge(opts)
           e == [d EXCEPT !.deferAuth = FALSE]
<1>2. Sound(p) /\ p.ntlm /\ ~HasBody(p)
  BY <1>1 DEF FullOptions, Sound, HasBody
<1>3. Sound(b) /\ ~Probing(b)
  BY <1>1 DEF FullOptions, Sound, Probing
<1>4. t.ntlm = opts.ntlm /\ t.proxyNtlm = opts.proxyNtlm /\ t.proxy = opts.proxy
  BY <1>1 DEF FullOptions, WithType3
<1>5. Sound(d) /\ DOMAIN d = DOMAIN opts
  BY <1>1 DEF FullOptions, Sound, WithDigest
<1>6. Sound(c) /\ ~c.deferAuth
  BY <1>1 DEF FullOptions, Sound, WithChallenge, WithDigest
<1>7. Sound(e) /\ ~e.deferAuth
  BY <1>1 DEF FullOptions, Sound, WithDigest
<1> HIDE DEF p, b, t, c, e
<1>8. CASE SiteType1
  <2>1. pc \in Middle /\ Call(p, "type1")
    BY <1>8, AtMiddle DEF SiteType1, p
  <2> QED
    BY <1>2, <2>1, CallBody DEF Middle
<1>9. CASE SiteType1Answered
  <2>1. pc \in Middle /\ At("type1") /\ Call(t, "digest")
    BY <1>9, AtMiddle DEF SiteType1Answered, t
  <2>2. pc = "type1"
    BY <2>1, AtMiddle DEF Due
  <2>3. Sound(t) /\ ~HasBody(t)
    BY <1>1, <1>4, <2>2 DEF BodyInv, Sound, HasBody
  <2> QED
    BY <2>1, <2>3, CallBody DEF Middle
<1>10. CASE SiteDigest
  <2>1. pc \in Middle /\ Call(c, "stale")
    BY <1>10, AtMiddle DEF SiteDigest, c
  <2> QED
    BY <1>6, <2>1, CallBody DEF Middle, Probing
<1>11. CASE SiteBasic
  <2>1. pc \in Middle /\ Call(b, "stale")
    BY <1>11, AtMiddle DEF SiteBasic, b
  <2> QED
    BY <1>3, <2>1, CallBody DEF Middle
<1>12. CASE StaleRetry
  <2>1. pc \in Middle /\ Call(d, "probe")
    BY <1>12, AtMiddle DEF StaleRetry
  <2> HIDE DEF d
  <2> QED
    BY <1>5, <2>1, CallBody DEF Middle, Early
<1>13. CASE ProxySiteDigest
  <2>1. pc \in Middle /\ Call(c, "proxy")
    BY <1>13, AtMiddle DEF ProxySiteDigest, c
  <2> QED
    BY <1>6, <2>1, CallBody DEF Middle, Probing
<1>14. CASE SiteAgain
  <2>1. pc \in Middle /\ Call(e, "redirect")
    BY <1>14, AtMiddle DEF SiteAgain, e, d
  <2> QED
    BY <1>7, <2>1, CallBody DEF Middle, Probing
<1> QED
  BY <1>8, <1>9, <1>10, <1>11, <1>12, <1>13, <1>14

LEMMA SiteDigestGotNothingBody ==
  PerformInv /\ BodyInv /\ SiteDigestGotNothing => BodyInv'
<1> SUFFICES ASSUME PerformInv, BodyInv, SiteDigestGotNothing
             PROVE  BodyInv'
  OBVIOUS
<1> DEFINE c == WithChallenge(opts)
<1>1. opts \in FullOptions /\ Sound(opts)
  BY DEF PerformInv, Fit, BodyInv
<1>2. Sound(c) /\ ~c.deferAuth
  BY <1>1 DEF FullOptions, Sound, WithChallenge, WithDigest
<1> HIDE DEF c
<1>3. /\ pc \in Middle /\ Sends(c) /\ opts' = c /\ resp' = [resp EXCEPT !.status = 0]
      /\ pc' = "stale" /\ result' = result
  BY AtMiddle DEF SiteDigestGotNothing, c
<1>4. resp'.status = 0 /\ result = "none"
  BY <1>3 DEF PerformInv, InHand, InHandSpace, Control, Middle
<1>5. Awaited'
  BY <1>2, <1>3, SentBody DEF Awaited, HasBody, Probing
<1>6. BodyArrives'
  BY <1>3, <1>4 DEF BodyArrives
<1> QED
  BY <1>2, <1>3, <1>4, <1>5, <1>6 DEF BodyInv, Sound

LEMMA ProbeRetryBody == PerformInv /\ BodyInv /\ ProbeRetry => BodyInv'
<1> SUFFICES ASSUME PerformInv, BodyInv, ProbeRetry
             PROVE  BodyInv'
  OBVIOUS
<1> DEFINE o == [opts EXCEPT !.deferAuth = FALSE, !.emptyProbe = FALSE]
           q == [o EXCEPT !.noBasic = TRUE, !.ntlmDone = opts.ntlmDone \/ opts.ntlm]
<1>1. pc \in Middle /\ opts \in FullOptions /\ Sound(opts)
  BY AtMiddle DEF ProbeRetry, PerformInv, Fit, BodyInv
<1>2. o \in FullOptions /\ Sound(o)
  <2>1. o \in FullOptions
    BY <1>1 DEF FullOptions
  <2>2. Sound(o)
    BY <1>1 DEF FullOptions, Sound
  <2> QED
    BY <2>1, <2>2
<1>3. o.deferAuth = FALSE
  BY <1>1 DEF FullOptions
<1> HIDE DEF o
<1>4. /\ q.proxy = o.proxy /\ q.body = o.body /\ q.ntlm = o.ntlm
      /\ q.proxyNtlm = o.proxyNtlm /\ q.ntlmAuth = o.ntlmAuth
      /\ q.scheme = o.scheme /\ q.deferAuth = o.deferAuth
  BY <1>2 DEF FullOptions
<1> HIDE DEF q
<1>5. Sound(q) /\ ~Probing(q)
  BY <1>2, <1>3, <1>4 DEF Sound, Probing
<1>6. ASSUME NEW r \in RepliesTo(o), Answered(q, r), opts' = o, pc' = "proxyNtlm"
      PROVE  BodyInv'
  <2>1. r \in RepliesTo(q)
    BY <1>4, <1>6 DEF RepliesTo
  <2> QED
    BY <1>1, <1>2, <1>4, <1>5, <1>6, <2>1, AnsweredBody DEF Middle
<1>7. CASE Fails(q)
  BY <1>7, FailsBody
<1> QED
  BY <1>6, <1>7 DEF ProbeRetry, q, o

(* Behind a proxy nothing is claimed; only a proxy answers 407.            *)
LEMMA ProxyBody ==
  PerformInv /\ BodyInv /\ (ProxyNtlm \/ ProxyType1 \/ ProxyType1Answered
    \/ ProxyDigest \/ ProxyBasic) => BodyInv'
<1> SUFFICES ASSUME PerformInv, BodyInv
             PROVE  ProxyNtlm \/ ProxyType1 \/ ProxyType1Answered \/ ProxyDigest
                      \/ ProxyBasic => BodyInv'
  OBVIOUS
<1>1. opts \in FullOptions /\ Sound(opts)
  BY DEF PerformInv, Fit, BodyInv
<1>2. ASSUME NEW s \in {"proxyNtlm", "proxy", "proxyType1", "proxyBasic"}, At(s)
      PROVE  pc \in Middle /\ opts.proxy # None
  BY <1>2, ProxyChallenge DEF BodyInv
<1> DEFINE t == [opts EXCEPT !.proxyAuth = "type3"]
           n == [opts EXCEPT !.proxyNtlm = TRUE, !.deferProxy = FALSE]
           d == [opts EXCEPT !.deferProxy = FALSE, !.proxyAuth = "digest"]
           b == [opts EXCEPT !.deferProxy = FALSE]
<1>3. t \in FullOptions /\ t.proxy = opts.proxy /\ Sound(t)
  BY <1>1 DEF FullOptions, Sound
<1>4. /\ n.proxy = opts.proxy /\ d.proxy = opts.proxy /\ b.proxy = opts.proxy
      /\ opts.proxy # None => Sound(n) /\ Sound(d) /\ Sound(b)
  BY <1>1 DEF FullOptions, Sound
<1> HIDE DEF t, n, d, b
<1>5. ASSUME NEW next \in Middle, next # "type1", ProxyType3Call(next),
             pc \in Middle, opts.proxy # None
      PROVE  BodyInv'
  <2>1. ASSUME NEW r \in RepliesTo(t), Answered(t, r), opts' = ProxySettled(t, r),
               pc' = next
        PROVE  BodyInv'
    <3>1. /\ opts'.proxy = t.proxy /\ opts'.body = t.body /\ opts'.ntlm = t.ntlm
          /\ opts'.proxyNtlm = t.proxyNtlm /\ opts'.ntlmAuth = t.ntlmAuth
          /\ opts'.scheme = t.scheme
      BY <1>3, <2>1 DEF ProxySettled, FullOptions
    <3>2. Sound(opts')
      BY <1>3, <3>1 DEF Sound
    <3> QED
      BY <1>3, <1>5, <2>1, <3>1, <3>2, AnsweredBody DEF HasBody
  <2>2. CASE Fails(t)
    BY <2>2, FailsBody
  <2> QED
    BY <1>5, <2>1, <2>2 DEF ProxyType3Call, t
<1>6. CASE ProxyNtlm
  BY <1>2, <1>5, <1>6 DEF ProxyNtlm, Middle
<1>7. CASE ProxyType1Answered
  BY <1>2, <1>5, <1>7 DEF ProxyType1Answered, Middle
<1>8. CASE ProxyType1
  <2>1. AskedCall(n, "proxyType1") /\ pc \in Middle /\ opts.proxy # None
    BY <1>2, <1>8 DEF ProxyType1, n
  <2> QED
    BY <1>4, <2>1, CallBody DEF Middle, HasBody
<1>9. CASE ProxyDigest
  <2>1. AskedCall(d, "again") /\ pc \in Middle /\ opts.proxy # None
    BY <1>2, <1>9 DEF ProxyDigest, d
  <2> QED
    BY <1>4, <2>1, CallBody DEF Middle, HasBody
<1>10. CASE ProxyBasic
  <2>1. AskedCall(b, "again") /\ pc \in Middle /\ opts.proxy # None
    BY <1>2, <1>10 DEF ProxyBasic, b
  <2> QED
    BY <1>4, <2>1, CallBody DEF Middle, HasBody
<1> QED
  BY <1>6, <1>7, <1>8, <1>9, <1>10

(* The loop gets to its end with a 200 only past stage "probe".            *)
LEMMA PastTheProbe ==
  ASSUME PerformInv, BodyInv, At("redirect"), resp.status = 200, HasBody(opts)
  PROVE  wire.body = "full"
<1> SUFFICES ASSUME wire.body # "full"
             PROVE  FALSE
  OBVIOUS
<1>1. pc \in Middle /\ pc \in Early /\ Probing(opts)
  BY AtMiddle DEF BodyInv, Awaited
<1>2. opts.ntlmAuth = None
  BY <1>1 DEF BodyInv, Sound, HasBody, Probing, PerformInv, Fit, Sure
<1>3. Due("probe")
  BY <1>1, <1>2 DEF Due, ProbeAccepted, Probing
<1>4. PICK i, j \in DOMAIN Stages :
         /\ pc = Stages[i]
         /\ Stages[j] = "redirect"
         /\ \A k \in i..j-1 : ~Due(Stages[k])
  BY DEF At
<1>5. i \in 1..5 /\ j = 12
  BY <1>1, <1>4 DEF Stages, Early
<1>6. Stages[5] = "probe" /\ 5 \in i..j-1
  BY <1>5 DEF Stages
<1> QED
  BY <1>3, <1>4, <1>6

LEMMA ExitsBody ==
  PerformInv /\ BodyInv /\ (SiteTooLarge \/ SiteDigestNoReplay \/ ProxyTooLarge
    \/ Finish \/ RedirectCapped \/ RedirectRefused \/ RedirectStdin) => BodyInv'
<1> SUFFICES ASSUME PerformInv, BodyInv
             PROVE  SiteTooLarge \/ SiteDigestNoReplay \/ ProxyTooLarge \/ Finish
                      \/ RedirectCapped \/ RedirectRefused \/ RedirectStdin
                    => BodyInv'
  OBVIOUS
<1>1. ASSUME NEW why, Exit(why), Sound(opts'), why # "ok" \/ resp.status # 200
      PROVE  BodyInv'
  <2>1. pc' = "done" /\ result' = why /\ resp' = resp
    BY <1>1 DEF Exit
  <2> QED
    BY <1>1, <2>1 DEF BodyInv, Sound, Awaited, BodyArrives, Middle
<1>2. Sound(opts)
  BY DEF BodyInv
<1>3. CASE SiteTooLarge
  BY <1>1, <1>2, <1>3 DEF SiteTooLarge, GiveUp
<1>4. CASE SiteDigestNoReplay
  BY <1>1, <1>2, <1>4 DEF SiteDigestNoReplay, GiveUp
<1>5. CASE ProxyTooLarge
  BY <1>1, <1>2, <1>5 DEF ProxyTooLarge, GiveUp
<1>6. CASE RedirectCapped
  BY <1>1, <1>2, <1>6 DEF RedirectCapped, Return
<1>7. CASE RedirectRefused
  BY <1>1, <1>2, <1>7 DEF RedirectRefused, Follows, Redirected, Return
<1>8. CASE RedirectStdin
  <2>1. opts' = Converted(opts) /\ Exit("uploadFailed") /\ opts \in FullOptions
    BY <1>8 DEF RedirectStdin, Return, PerformInv, Fit
  <2>2. Sound(opts')
    BY <1>2, <2>1 DEF Converted, FullOptions, Sound
  <2> QED
    BY <1>1, <2>1, <2>2
<1>9. CASE Finish
  <2>1. /\ At("redirect") /\ pc' = "done" /\ opts' = opts /\ resp' = resp
        /\ wire' = wire /\ pc' \notin Middle \union {"type1"}
    BY <1>9 DEF Finish, Return, Exit, history, Middle
  <2>2. BodyArrives'
    BY <2>1, PastTheProbe DEF BodyArrives, HasBody
  <2> QED
    BY <1>2, <2>1, <2>2 DEF BodyInv, Sound, Awaited
<1> QED
  BY <1>3, <1>4, <1>5, <1>6, <1>7, <1>8, <1>9

LEMMA FollowRedirectBody == PerformInv /\ BodyInv /\ FollowRedirect => BodyInv'
<1> SUFFICES ASSUME PerformInv, BodyInv, FollowRedirect
             PROVE  BodyInv'
  OBVIOUS
<1> DEFINE t == resp.location
           c == Converted(opts)
           x == CrossOrigin(c, t)
<1>1. /\ pc \in Middle /\ t \in Urls /\ opts' = Rearmed(x) /\ pc' = "request"
      /\ result' = result
  BY AtMiddle DEF FollowRedirect, Follows
<1>2. result = "none"
  BY <1>1 DEF PerformInv, Control, Middle
<1>3. Sound(c) /\ Fit(c) /\ Kin(c)
  <2>1. opts \in FullOptions /\ Sound(opts)
    BY DEF PerformInv, Fit, BodyInv
  <2>2. Sound(c)
    BY <2>1 DEF FullOptions, Sound, Converted
  <2> QED
    BY <2>2, ConvertedFit
<1> HIDE DEF t, c
<1>4. x \in FullOptions
  BY <1>1, <1>3, CrossOriginPortable DEF Portable
<1>5. /\ x.proxyNtlm = c.proxyNtlm /\ x.proxy = c.proxy /\ x.ntlmAuth = c.ntlmAuth
      /\ x.ntlm = c.ntlm /\ x.scheme = c.scheme
  <2>1. c \in FullOptions
    BY <1>3 DEF Fit
  <2> QED
    BY <2>1 DEF FullOptions, CrossOrigin, Stripped
<1>6. Sound(x)
  BY <1>3, <1>5 DEF Sound
<1> HIDE DEF x
<1>7. Sound(Rearmed(x))
  BY <1>4, <1>6 DEF Rearmed, FullOptions, Sound
<1> QED
  BY <1>1, <1>2, <1>7 DEF BodyInv, Sound, Awaited, BodyArrives, Middle

LEMMA BodyHolds == Spec => []BodyInv
<1>1. Init => BodyInv
  <2> SUFFICES ASSUME Init
               PROVE  BodyInv
    OBVIOUS
  <2>1. PICK c \in OptionSets : opts = Started(c)
    BY DEF Init
  <2> QED
    BY <2>1, PerformAssumption
       DEF Init, Started, BodyInv, Sound, Awaited, BodyArrives, Middle, OptionSpace
<1>2. PerformInv /\ BodyInv /\ [Next]_vars => BodyInv'
  <2> SUFFICES ASSUME PerformInv, BodyInv, [Next]_vars
               PROVE  BodyInv'
    OBVIOUS
  <2>1. CASE Next
    BY <2>1, FirstRequestBody, SiteType3Body, SiteNoNtlmBody, SiteCallsBody,
       SiteDigestGotNothingBody, ProbeRetryBody, ProxyBody, ExitsBody,
       FollowRedirectBody
       DEF Next
  <2>2. CASE UNCHANGED vars
    <3>1. /\ opts' = opts /\ pc' = pc /\ resp' = resp /\ result' = result
          /\ wire' = wire
      BY <2>2 DEF vars, history
    <3> QED
      BY <3>1 DEF BodyInv, Sound, Awaited, BodyArrives, HasBody, Probing
  <2> QED
    BY <2>1, <2>2
<1> QED
  BY <1>1, <1>2, InvHolds, PTL DEF Spec

(* A request with a body other than standard input that ends in success,   *)
(* without NTLM and without a proxy, has had its body sent last: there the *)
(* empty probe of --digest is always followed by the body.                 *)
THEOREM BodiesAreSent == Spec => []BodyArrives
<1>1. BodyInv => BodyArrives
  BY DEF BodyInv
<1> QED
  BY <1>1, BodyHolds, PTL

----------------------------------------------------------------------------
(* NonceCountsGrow. It is about calls that only know Digest: these go      *)
(* straight down the stages of the server's challenges.                    *)
DigestOnly(o) == o.scheme = "digest" /\ ~o.ntlm /\ o.proxy = None

Straight == {"request", "site", "digest", "stale", "probe", "proxyNtlm"}

(* A count for this nonce is above all that were sent with it.             *)
Above(nonce, nc) == \A d \in digests : d.nonce = nonce => d.nc < nc

(* No nonce is from a reply still to come, and the stored challenge has a  *)
(* count that was not used with it.                                        *)
Counts ==
  /\ \A d \in digests : d.nonce \in 0..replies /\ d.nc \in Nat
  /\ Above(opts.challenge, opts.nc)

(* The nonce of the challenge in hand was not used, nor stored.            *)
Unused ==
  pc \in Middle /\ resp.status # 0 =>
    /\ \A d \in digests : d.nonce # replies
    /\ opts.challenge # replies

Counting ==
  DigestOnly(opts) /\ pc # "done" =>
    /\ pc \in Straight
    /\ ~asked
    /\ pc \in {"request", "site", "digest"} => opts.digest = None
    /\ pc = "digest" \/ opts.deferAuth => opts.challenge = None
    /\ Counts
    /\ Unused

(* What NonceCountsGrow says of a step.                                    *)
Grows ==
  /\ replies' # replies
  /\ wire'.auth.scheme = "digest"
  /\ DigestOnly(opts)
  => Above(wire'.auth.nonce, wire'.auth.nc)

(* With no Digest header prepared and no challenge stored none is sent.    *)
LEMMA NoDigest ==
  ASSUME NEW o, o.digest = None, o.challenge = None
  PROVE  AuthOf(o).scheme # "digest"
  BY DEF AuthOf

(* An answered call that sends no Digest header, or one whose count is new *)
(* for its nonce and below the count kept for that nonce.                  *)
LEMMA AnsweredGrows ==
  ASSUME NEW o, NEW r, Answered(o, r), PerformInv, Counts, pc' \in Straight,
         ~asked', opts' \in FullOptions,
         opts'.challenge # None => opts'.challenge \in 1..replies,
         pc' \in {"request", "site", "digest"} => opts'.digest = None,
         pc' = "digest" \/ opts'.deferAuth => opts'.challenge = None,
         Above(opts'.challenge, opts'.nc),
         AuthOf(o).scheme = "digest" =>
           /\ AuthOf(o).nonce \in 1..replies /\ AuthOf(o).nc \in Nat
           /\ Above(AuthOf(o).nonce, AuthOf(o).nc)
           /\ AuthOf(o).nonce = opts'.challenge => AuthOf(o).nc < opts'.nc
  PROVE  Counting' /\ Grows
<1> DEFINE a == AuthOf(o)
<1>1. /\ wire'.auth = a /\ replies' = replies + 1 /\ replies \in Nat
      /\ digests' = IF a.scheme = "digest"
                    THEN digests \union {[nonce |-> a.nonce, nc |-> a.nc]}
                    ELSE digests
  BY DEF Answered, Sends, Request, PerformInv, Control
<1> HIDE DEF a
<1>2. Grows
  BY <1>1 DEF Grows, a
<1>3. ASSUME NEW d \in digests'
      PROVE  /\ d.nonce \in 0..replies /\ d.nc \in Nat
             /\ d.nonce = opts'.challenge => d.nc < opts'.nc
  <2>1. CASE d \in digests
    BY <2>1 DEF Counts, Above
  <2>2. CASE d \notin digests
    BY <1>1, <1>3, <2>2 DEF a
  <2> QED
    BY <2>1, <2>2
<1>4. opts'.challenge # replies + 1
  BY <1>1, PerformAssumption
<1>5. Counts'
  BY <1>1, <1>3 DEF Counts, Above
<1>6. Unused'
  BY <1>1, <1>3, <1>4 DEF Unused
<1> QED
  BY <1>2, <1>5, <1>6 DEF Counting

(* A call that fails sends no reply and is the end.                        *)
LEMMA FailsGrows ==
  ASSUME NEW o, Fails(o)
  PROVE  Counting' /\ Grows
  BY DEF Fails, Counting, Grows

(* NTLM, a proxy or another scheme stay once they are there.               *)
Stays(o) ==
  /\ o.scheme = opts.scheme /\ o.proxy = opts.proxy
  /\ opts.ntlm => o.ntlm \/ o.scheme = "anyauth"

LEMMA OnlyBefore ==
  PerformInv /\ Next /\ DigestOnly(opts') => DigestOnly(opts)
<1> SUFFICES ASSUME PerformInv, Next
             PROVE  Stays(opts')
  BY DEF Stays, DigestOnly
<1>1. opts \in FullOptions
  BY DEF PerformInv, Fit
<1>3. Stays(opts)
  BY DEF Stays
<1>4. ASSUME NEW o, NEW next, Call(o, next) \/ AskedCall(o, next) \/ Fails(o),
             Stays(o)
      PROVE  Stays(opts')
  BY <1>3, <1>4 DEF Call, AskedCall, Fails
<1>5. CASE FirstRequest
  <2>1. Stays(Counted(Lifted(opts)))
    <3>1. Lifted(opts) \in FullOptions /\ Stays(Lifted(opts))
      BY <1>1, LiftedFit DEF Fit, FullOptions, Stays, Lifted
    <3> QED
      BY <3>1 DEF FullOptions, Stays, Counted
  <2> QED
    BY <1>3, <1>5, <2>1 DEF FirstRequest, Fails
<1>6. CASE SiteType3
  <2> DEFINE p == [opts EXCEPT !.ntlm = TRUE, !.deferAuth = FALSE]
             o == WithType3(p)
  <2>1. p \in FullOptions /\ Stays(p) /\ p.ntlm
    BY <1>1 DEF FullOptions, Stays
  <2> HIDE DEF p
  <2>2. ASSUME NEW r
        PROVE  Stays(NtlmSettled(o, r))
    BY <2>1 DEF FullOptions, Stays, WithType3, NtlmSettled
  <2> QED
    BY <1>3, <1>6, <2>2 DEF SiteType3, Fails, p
<1>7. CASE SiteType1 \/ SiteType1Answered
  <2>1. /\ Stays([opts EXCEPT !.ntlm = TRUE, !.deferAuth = FALSE])
        /\ Stays(WithType3(opts))
    BY <1>1 DEF FullOptions, Stays, WithType3
  <2> QED
    BY <1>4, <1>7, <2>1 DEF SiteType1, SiteType1Answered
<1>8. CASE SiteNoNtlm
  BY <1>1, <1>8 DEF SiteNoNtlm, ChoosesNtlm, FullOptions, Stays
<1>9. Stays(WithDigest(opts)) /\ Stays(WithChallenge(opts))
  BY <1>1 DEF FullOptions, Stays, WithDigest, WithChallenge
<1>10. Stays([opts EXCEPT !.deferAuth = FALSE])
  BY <1>1 DEF FullOptions, Stays
<1>11. Stays([WithDigest(opts) EXCEPT !.deferAuth = FALSE])
  BY <1>1 DEF FullOptions, Stays, WithDigest
<1>12. CASE SiteDigest \/ SiteDigestGotNothing \/ SiteBasic \/ StaleRetry
             \/ ProxySiteDigest \/ SiteAgain
  <2> QED
    BY <1>4, <1>9, <1>10, <1>11, <1>12 DEF SiteDigest, SiteDigestGotNothing,
       SiteBasic, StaleRetry, ProxySiteDigest, SiteAgain
<1>13. CASE ProbeRetry
  <2>1. Stays([opts EXCEPT !.deferAuth = FALSE, !.emptyProbe = FALSE])
    BY <1>1 DEF FullOptions, Stays
  <2> QED
    BY <1>3, <1>13, <2>1 DEF ProbeRetry, Fails
<1>14. CASE ProxyNtlm \/ ProxyType1Answered
  <2> DEFINE o == [opts EXCEPT !.proxyAuth = "type3"]
  <2>1. ASSUME NEW r
        PROVE  Stays(ProxySettled(o, r))
    <3>1. o \in FullOptions /\ Stays(o)
      BY <1>1 DEF FullOptions, Stays
    <3> HIDE DEF o
    <3> QED
      BY <3>1 DEF FullOptions, Stays, ProxySettled
  <2> QED
    BY <1>3, <1>14, <2>1 DEF ProxyNtlm, ProxyType1Answered, ProxyType3Call, Fails
<1>15. CASE ProxyType1 \/ ProxyDigest \/ ProxyBasic
  <2>1. /\ Stays([opts EXCEPT !.proxyNtlm = TRUE, !.deferProxy = FALSE])
        /\ Stays([opts EXCEPT !.deferProxy = FALSE, !.proxyAuth = "digest"])
        /\ Stays([opts EXCEPT !.deferProxy = FALSE])
    BY <1>1 DEF FullOptions, Stays
  <2> QED
    BY <1>4, <1>15, <2>1 DEF ProxyType1, ProxyDigest, ProxyBasic
<1>16. CASE SiteTooLarge \/ SiteDigestNoReplay \/ ProxyTooLarge \/ Finish
             \/ RedirectCapped \/ RedirectRefused
  BY <1>3, <1>16 DEF SiteTooLarge, SiteDigestNoReplay, ProxyTooLarge, Finish,
     RedirectCapped, RedirectRefused
<1>17. Stays(Converted(opts)) /\ Converted(opts) \in FullOptions
  BY <1>1 DEF FullOptions, Stays, Converted
<1>18. CASE RedirectStdin
  BY <1>17, <1>18 DEF RedirectStdin
<1>19. CASE FollowRedirect
  <2> DEFINE c == Converted(opts)
             x == CrossOrigin(c, resp.location)
  <2>1. x \in FullOptions
    BY <1>19, ConvertedFit, CrossOriginPortable DEF FollowRedirect, Portable
  <2>2. Stays(x)
    <3> HIDE DEF c
    <3> QED
      BY <1>17 DEF FullOptions, Stays, CrossOrigin, Stripped, c
  <2> HIDE DEF x
  <2>3. Stays(Rearmed(x))
    BY <2>1, <2>2 DEF FullOptions, Stays, Rearmed
  <2> QED
    BY <1>19, <2>3 DEF FollowRedirect, x, c
<1> QED
  BY <1>3, <1>5, <1>6, <1>7, <1>8, <1>9, <1>10, <1>11, <1>12, <1>13,
     <1>14, <1>15, <1>16, <1>17, <1>18, <1>19 DEF Next

(* A call that only knows Digest sends it from four places.                *)
LEMMA FirstRequestGrows ==
  PerformInv /\ Counting /\ DigestOnly(opts) /\ FirstRequest => Counting' /\ Grows
<1> SUFFICES ASSUME PerformInv, Counting, DigestOnly(opts), FirstRequest
             PROVE  Counting' /\ Grows
  OBVIOUS
<1> DEFINE o == Lifted(opts)
           q == Counted(o)
<1>1. /\ pc = "request" /\ ~asked /\ opts.digest = None /\ Counts
      /\ opts.deferAuth => opts.challenge = None
  BY DEF FirstRequest, Counting
<1>2. /\ o \in FullOptions /\ Nonces(o) /\ q \in FullOptions /\ Nonces(q)
  BY LiftedFit, CountedFit DEF Fit
<1>3. /\ o.digest = None /\ o.challenge = opts.challenge /\ o.nc = opts.nc
      /\ o.deferAuth = opts.deferAuth
  BY <1>1 DEF PerformInv, Fit, FullOptions, Lifted
<1> HIDE DEF o
<1>4. /\ q.digest = None /\ q.challenge = o.challenge
      /\ q.deferAuth = o.deferAuth
      /\ o.challenge # None => q.nc > o.nc
  BY <1>2, <1>3 DEF Counted, FullOptions, Larger
<1>5. ASSUME NEW r, Answered(o, r), opts' = q, pc' = "site", asked' = asked
      PROVE  Counting' /\ Grows
  <2>1. AuthOf(o).scheme = "digest" =>
          /\ o.challenge # None
          /\ AuthOf(o).nonce = o.challenge /\ AuthOf(o).nc = o.nc
    BY <1>3 DEF AuthOf
  <2>2. Above(o.challenge, o.nc)
    BY <1>1, <1>3 DEF Counts
  <2>3. Above(q.challenge, q.nc)
    <3>1. \A d \in digests : d.nonce \in Nat /\ d.nc \in Nat
      BY <1>1 DEF Counts, PerformInv, Control
    <3>2. CASE o.challenge = None
      BY <1>4, <3>1, <3>2, PerformAssumption DEF Above
    <3>3. CASE o.challenge # None
      <4>1. o.nc \in Nat /\ q.nc \in Nat
        BY <1>2 DEF FullOptions
      <4> HIDE DEF q
      <4> QED
        BY <1>4, <2>2, <3>1, <3>3, <4>1 DEF Above
    <3> QED
      BY <3>2, <3>3
  <2>4. /\ opts' \in FullOptions /\ o.nc \in Nat /\ q.nc \in Nat
        /\ opts'.challenge # None => opts'.challenge \in 1..replies
        /\ o.challenge # None => o.challenge \in 1..replies
    BY <1>2, <1>5 DEF FullOptions, Nonces
  <2> HIDE DEF q
  <2>5. AuthOf(o).scheme = "digest" =>
          /\ AuthOf(o).nonce \in 1..replies /\ AuthOf(o).nc \in Nat
          /\ Above(AuthOf(o).nonce, AuthOf(o).nc)
          /\ AuthOf(o).nonce = opts'.challenge => AuthOf(o).nc < opts'.nc
    BY <1>4, <1>5, <2>1, <2>2, <2>4
  <2> QED
    BY <1>1, <1>3, <1>4, <1>5, <2>3, <2>4, <2>5, AnsweredGrows DEF Straight
<1>6. CASE Fails(o)
  BY <1>6, FailsGrows
<1> QED
  BY <1>5, <1>6 DEF FirstRequest, o, q

(* Where the control must be for a stage of the server's challenges.       *)
LEMMA StraightAhead ==
  ASSUME Counting, DigestOnly(opts), PerformInv, BodyInv, NEW s, At(s)
  PROVE  /\ pc \in Middle /\ Due(s) /\ Counts /\ ~asked
         /\ s # "type1" /\ s # "proxySite" /\ s # "again"
         /\ s \notin {"proxyNtlm", "proxy", "proxyType1", "proxyBasic"}
         /\ s = "site" => pc = "site"
         /\ s = "digest" => pc = "digest"
<1>1. pc \in Middle /\ Due(s)
  BY AtMiddle
<1>2. pc \in Straight /\ ~asked /\ Counts
  BY <1>1 DEF Counting, Middle
<1>3. s = "site" => pc = "site"
  <2> SUFFICES ASSUME s = "site"
               PROVE  pc = "site"
    OBVIOUS
  <2>1. PICK i, j \in DOMAIN Stages : pc = Stages[i] /\ Stages[j] = "site" /\ i <= j
    BY DEF At
  <2>2. i \in 1..12 /\ j \in 1..12
    BY DEF Stages
  <2>3. j = 1
    BY <2>1, <2>2 DEF Stages
  <2> QED
    BY <2>1, <2>2, <2>3 DEF Stages
<1>4. s # "type1" /\ s # "proxySite" /\ s # "again"
  BY <1>1, <1>2 DEF Due, Straight
<1>5. s = "digest" => pc = "digest"
  BY <1>1, <1>2 DEF Due, Straight
<1>6. s \notin {"proxyNtlm", "proxy", "proxyType1", "proxyBasic"}
  BY ProxyChallenge DEF BodyInv, DigestOnly
<1> QED
  BY <1>1, <1>2, <1>3, <1>4, <1>5, <1>6

(* The answers to a challenge: a header for its nonce, which is new.       *)
LEMMA SiteDigestGrows ==
  ASSUME PerformInv, BodyInv, Counting, DigestOnly(opts),
         SiteDigest \/ SiteDigestGotNothing
  PROVE  Counting' /\ Grows
<1> DEFINE o == WithChallenge(opts)
<1>1. At("digest") /\ DigestDue /\ opts \in FullOptions
  BY DEF SiteDigest, SiteDigestGotNothing, PerformInv, Fit
<1>2. pc = "digest" /\ pc \in Middle /\ Counts /\ ~asked
  BY <1>1, StraightAhead
<1>3. /\ Creds(opts) # None /\ resp.status # 0 /\ replies \in Nat \ {0}
      /\ opts.ntlmAuth = None
  BY <1>1, <1>2 DEF DigestDue, HasPassword, OffersDigest, Offers, PerformInv, InHand,
     BodyInv, Sound, DigestOnly
<1>4. /\ o \in FullOptions /\ ~o.deferAuth /\ o.challenge = replies /\ o.nc = 2
      /\ o.digest = [nonce |-> replies, whose |-> Creds(opts).origin]
      /\ o.ntlmAuth = opts.ntlmAuth /\ o.ntlm = opts.ntlm
  <2>1. WithChallenge(opts) \in FullOptions
    BY <1>2, <1>3, ChallengeFit, OptsFit DEF Fit
  <2> QED
    BY <1>1, <2>1 DEF FullOptions, WithChallenge, WithDigest
<1>5. \A d \in digests : d.nonce # replies
  BY <1>2, <1>3 DEF Counting, Unused
<1> HIDE DEF o
<1>6. /\ AuthOf(o).scheme = "digest"
      /\ AuthOf(o).nonce = replies /\ AuthOf(o).nc = 1
  <2>1. o.ntlmAuth = None /\ ~o.ntlm
    BY <1>3, <1>4 DEF DigestOnly
  <2>2. o.digest # None
    <3>1. Creds(opts).origin \in Origins
      BY <1>3, CredsFit, OptsFit DEF Credentials
    <3>2. o.digest \in [nonce : Nat, whose : Origins]
      BY <1>3, <1>4, <3>1
    <3> QED
      BY <3>2, PerformAssumption
  <2> QED
    BY <1>4, <2>1, <2>2 DEF AuthOf
<1>7. Above(replies, 1) /\ Above(o.challenge, o.nc)
  BY <1>4, <1>5 DEF Above
<1>8. CASE SiteDigest
  <2>1. Call(o, "stale")
    BY <1>8 DEF SiteDigest, o
  <2>2. ASSUME NEW r, Answered(o, r), opts' = o, pc' = "stale", asked' = asked
        PROVE  Counting' /\ Grows
    BY <1>2, <1>3, <1>4, <1>6, <1>7, <2>2, AnsweredGrows DEF Straight
  <2> QED
    BY <2>1, <2>2, FailsGrows DEF Call
<1>9. CASE SiteDigestGotNothing
  <2>1. /\ Sends(o) /\ opts' = o /\ resp' = [resp EXCEPT !.status = 0]
        /\ pc' = "stale" /\ asked' = asked /\ replies' = replies
    BY <1>9 DEF SiteDigestGotNothing, o
  <2>2. digests' = digests \union {[nonce |-> replies, nc |-> 1]}
    BY <1>6, <2>1 DEF Sends
  <2>3. resp'.status = 0
    BY <1>2, <2>1 DEF PerformInv, InHand, InHandSpace
  <2>4. Counts'
    BY <1>2, <1>3, <1>4, <1>5, <2>1, <2>2 DEF Counts, Above
  <2> QED
    BY <1>2, <1>4, <2>1, <2>3, <2>4 DEF Counting, Grows, Unused, Straight
<1> QED
  BY <1>8, <1>9

LEMMA StaleRetryGrows ==
  ASSUME PerformInv, BodyInv, Counting, DigestOnly(opts), StaleRetry
  PROVE  Counting' /\ Grows
<1> DEFINE o == WithDigest(opts)
<1>1. At("stale") /\ Call(o, "probe") /\ opts \in FullOptions
  BY DEF StaleRetry, PerformInv, Fit
<1>2. pc \in Middle /\ Due("stale") /\ Counts /\ ~asked /\ pc # "done"
  BY <1>1, StraightAhead DEF Middle
<1>3. /\ Creds(opts) # None /\ resp.status # 0 /\ replies \in Nat \ {0}
      /\ opts.ntlmAuth = None
  BY <1>2 DEF Due, StaleDue, HasPassword, Offers, PerformInv, InHand, BodyInv,
     Sound, DigestOnly
<1>4. /\ o \in FullOptions /\ Nonces(o) /\ o.digest # None
      /\ o.digest = [nonce |-> replies, whose |-> Creds(opts).origin]
      /\ o.challenge = opts.challenge /\ o.nc = opts.nc
      /\ o.deferAuth = opts.deferAuth
      /\ o.ntlmAuth = None /\ ~o.ntlm
  <2>1. Fit(o) /\ o.digest # None
    BY <1>2, <1>3, DigestFit, OptsFit
  <2> QED
    BY <1>1, <1>3, <2>1 DEF FullOptions, Fit, WithDigest, DigestOnly
<1>5. /\ \A d \in digests : d.nonce # replies
      /\ opts.challenge # replies
      /\ opts.deferAuth => opts.challenge = None
  BY <1>2, <1>3 DEF Counting, Unused
<1> HIDE DEF o
<1>6. /\ AuthOf(o).scheme = "digest"
      /\ AuthOf(o).nonce = replies /\ AuthOf(o).nc = 1
  BY <1>4 DEF AuthOf
<1>7. Above(replies, 1) /\ Above(o.challenge, o.nc)
  BY <1>2, <1>4, <1>5 DEF Above, Counts
<1>8. o.challenge # None => o.challenge \in 1..replies
  BY <1>4 DEF Nonces
<1>9. ASSUME NEW r, Answered(o, r), opts' = o, pc' = "probe", asked' = asked
      PROVE  Counting' /\ Grows
  BY <1>2, <1>3, <1>4, <1>5, <1>6, <1>7, <1>8, <1>9, AnsweredGrows DEF Straight
<1> QED
  BY <1>1, <1>9, FailsGrows DEF Call

(* The calls before a challenge was stored, and the turn to NTLM.          *)
LEMMA PlainGrows ==
  ASSUME NEW o, NEW r, Answered(o, r), PerformInv, Counts, ~asked',
         o.digest = None, o.challenge = None, opts' \in FullOptions,
         pc' \in Straight, opts'.digest = None, opts'.challenge = None
  PROVE  Counting' /\ Grows
<1>1. Above(None, opts'.nc)
  BY PerformAssumption DEF Above, Counts, PerformInv, Control
<1> QED
  BY <1>1, NoDigest, AnsweredGrows

LEMMA TurnGrows ==
  ASSUME NEW o, NEW r, Answered(o, r), ~DigestOnly(opts'),
         o.digest = None, o.challenge = None
  PROVE  Counting' /\ Grows
<1>1. wire'.auth.scheme # "digest"
  BY NoDigest DEF Answered, Sends, Request
<1> QED
  BY <1>1 DEF Counting, Grows

LEMMA SiteCallsGrow ==
  ASSUME PerformInv, BodyInv, Counting, DigestOnly(opts),
         SiteType3 \/ SiteType1 \/ SiteNoNtlm \/ SiteBasic \/ ProbeRetry
  PROVE  Counting' /\ Grows
<1>1. opts \in FullOptions /\ opts.scheme = "digest" /\ ~opts.ntlm
  BY DEF PerformInv, Fit, DigestOnly
<1>2. ASSUME At("site")
      PROVE  /\ pc = "site" /\ Counts /\ ~asked
             /\ opts.deferAuth /\ opts.digest = None /\ opts.challenge = None
  <2>1. pc = "site" /\ Counts /\ ~asked /\ Due("site")
    BY <1>2, StraightAhead
  <2>2. opts.deferAuth
    BY <1>1, <2>1 DEF Due, SiteChallenged
  <2> QED
    BY <2>1, <2>2 DEF Counting
<1> DEFINE p == [opts EXCEPT !.ntlm = TRUE, !.deferAuth = FALSE]
<1>3. /\ p \in FullOptions /\ p.ntlm
      /\ p.digest = opts.digest /\ p.challenge = opts.challenge
  BY <1>1 DEF FullOptions
<1> HIDE DEF p
<1>4. CASE SiteType3
  <2> DEFINE o == WithType3(p)
  <2>1. At("site")
    BY <1>4 DEF SiteType3
  <2>2. o.digest = p.digest /\ o.challenge = p.challenge
    BY <1>3 DEF FullOptions, WithType3
  <2>3. ASSUME NEW r
        PROVE  NtlmSettled(o, r).ntlm
    BY <1>3 DEF FullOptions, WithType3, NtlmSettled
  <2> HIDE DEF o
  <2>4. ASSUME NEW r, Answered(o, r), opts' = NtlmSettled(o, r)
        PROVE  Counting' /\ Grows
    BY <1>2, <1>3, <2>1, <2>2, <2>3, <2>4, TurnGrows DEF DigestOnly
  <2> QED
    BY <1>4, <2>4, FailsGrows DEF SiteType3, o, p
<1>5. CASE SiteType1
  <2>1. At("site") /\ Call(p, "type1")
    BY <1>5 DEF SiteType1, p
  <2>2. ASSUME NEW r, Answered(p, r), opts' = p
        PROVE  Counting' /\ Grows
    BY <1>2, <1>3, <2>1, <2>2, TurnGrows DEF DigestOnly
  <2> QED
    BY <2>1, <2>2, FailsGrows DEF Call
<1>6. CASE SiteNoNtlm
  <2>1. /\ At("site") /\ pc' = "digest" /\ asked' = asked /\ resp' = resp
        /\ replies' = replies /\ digests' = digests
        /\ opts' = [opts EXCEPT !.ntlm = ChoosesNtlm]
    BY <1>6 DEF SiteNoNtlm, history
  <2>2. /\ opts'.digest = opts.digest /\ opts'.challenge = opts.challenge
        /\ opts'.nc = opts.nc
    BY <1>1, <2>1 DEF FullOptions
  <2>3. Counts' /\ Unused
    BY <1>2, <2>1, <2>2 DEF Counts, Above, Counting
  <2>4. Unused'
    BY <1>2, <2>1, <2>2, <2>3 DEF Unused, Middle
  <2> QED
    BY <1>2, <2>1, <2>2, <2>3, <2>4 DEF Counting, Grows, Straight
<1>7. CASE SiteBasic
  <2> DEFINE o == [opts EXCEPT !.deferAuth = FALSE]
  <2>1. At("digest") /\ Call(o, "stale")
    BY <1>7 DEF SiteBasic
  <2>2. /\ opts.digest = None /\ opts.challenge = None /\ Counts /\ ~asked
    <3>1. pc = "digest" /\ Counts /\ ~asked
      BY <2>1, StraightAhead
    <3> QED
      BY <3>1 DEF Counting
  <2>3. o \in FullOptions /\ o.digest = None /\ o.challenge = None
    BY <1>1, <2>2 DEF FullOptions
  <2> HIDE DEF o
  <2>4. ASSUME NEW r, Answered(o, r), opts' = o, pc' = "stale", asked' = asked
        PROVE  Counting' /\ Grows
    BY <2>2, <2>3, <2>4, PlainGrows DEF Straight
  <2> QED
    BY <2>1, <2>4, FailsGrows DEF Call
<1>8. CASE ProbeRetry
  <2> DEFINE o == [opts EXCEPT !.deferAuth = FALSE, !.emptyProbe = FALSE]
             q == [o EXCEPT !.noBasic = TRUE, !.ntlmDone = opts.ntlmDone \/ opts.ntlm]
  <2>1. At("probe")
    BY <1>8 DEF ProbeRetry
  <2>2. opts.digest = None /\ opts.challenge = None /\ Counts /\ ~asked
    <3>1. pc \in Middle /\ Due("probe") /\ Counts /\ ~asked
      BY <2>1, StraightAhead
    <3> QED
      BY <3>1 DEF Due, ProbeAccepted, Counting, Middle
  <2>3. o \in FullOptions /\ o.digest = None /\ o.challenge = None
    BY <1>1, <2>2 DEF FullOptions
  <2> HIDE DEF o
  <2>4. q.digest = None /\ q.challenge = None
    BY <2>3 DEF FullOptions
  <2> HIDE DEF q
  <2>5. ASSUME NEW r, Answered(q, r), opts' = o, pc' = "proxyNtlm", asked' = asked
        PROVE  Counting' /\ Grows
    BY <2>2, <2>3, <2>4, <2>5, PlainGrows DEF Straight
  <2> QED
    BY <1>8, <2>5, FailsGrows DEF ProbeRetry, o, q
<1> QED
  BY <1>4, <1>5, <1>6, <1>7, <1>8

LEMMA FollowRedirectGrows ==
  ASSUME PerformInv, BodyInv, Counting, DigestOnly(opts), FollowRedirect
  PROVE  Counting' /\ Grows
<1> DEFINE c == Converted(opts)
           x == CrossOrigin(c, resp.location)
<1>1. /\ At("redirect") /\ resp.location \in Urls /\ opts' = Rearmed(x)
      /\ pc' = "request" /\ ~asked' /\ replies' = replies /\ digests' = digests
  BY DEF FollowRedirect, Follows
<1>2. /\ Counts /\ pc # "done"
      /\ opts.deferAuth => opts.challenge = None
  BY <1>1, StraightAhead DEF Counting, Middle
<1>3. c \in FullOptions /\ x \in FullOptions
  BY <1>1, ConvertedFit, CrossOriginPortable DEF Portable, Fit
<1> DEFINE Same(o) ==
             /\ o.challenge = opts.challenge /\ o.nc = opts.nc
             /\ o.deferAuth = opts.deferAuth /\ o.scheme = opts.scheme
<1>4. Same(c)
  BY DEF PerformInv, Fit, FullOptions, Converted
<1> HIDE DEF c
<1>5. Same(x)
  BY <1>3, <1>4 DEF FullOptions, CrossOrigin, Stripped
<1> HIDE DEF x
<1>6. Same(opts') /\ opts'.digest = None
  BY <1>1, <1>3, <1>5 DEF FullOptions, Rearmed, DigestOnly
<1>7. Counts'
  BY <1>1, <1>2, <1>6 DEF Counts, Above
<1> QED
  BY <1>1, <1>2, <1>6, <1>7 DEF Counting, Grows, Unused, Straight, Middle

LEMMA CountingStep ==
  PerformInv /\ BodyInv /\ Counting /\ [Next]_vars => Counting' /\ [Grows]_vars
<1> SUFFICES ASSUME PerformInv, BodyInv, Counting, [Next]_vars
             PROVE  Counting' /\ [Grows]_vars
  OBVIOUS
<1>1. CASE Next /\ ~DigestOnly(opts)
  BY <1>1, OnlyBefore DEF Counting, Grows
<1>2. CASE Next /\ DigestOnly(opts)
  <2>1. CASE SiteTooLarge \/ SiteDigestNoReplay \/ ProxyTooLarge \/ Finish
               \/ RedirectCapped \/ RedirectRefused \/ RedirectStdin
    BY <2>1 DEF SiteTooLarge, SiteDigestNoReplay, ProxyTooLarge, Finish,
       RedirectCapped, RedirectRefused, RedirectStdin, GiveUp, Return, Exit,
       history, Counting, Grows
  <2>2. ~(SiteType1Answered \/ ProxyNtlm \/ ProxySiteDigest \/ ProxyType1
            \/ ProxyType1Answered \/ ProxyDigest \/ ProxyBasic \/ SiteAgain)
    BY <1>2, StraightAhead DEF SiteType1Answered, ProxyNtlm, ProxySiteDigest,
       ProxyType1, ProxyType1Answered, ProxyDigest, ProxyBasic, SiteAgain
  <2> QED
    BY <1>2, <2>1, <2>2, FirstRequestGrows, SiteCallsGrow, SiteDigestGrows,
       StaleRetryGrows, FollowRedirectGrows DEF Next
<1>3. CASE UNCHANGED vars
  <2>1. /\ opts' = opts /\ pc' = pc /\ resp' = resp /\ asked' = asked
        /\ replies' = replies /\ digests' = digests
    BY <1>3 DEF vars, history
  <2>2. Counts <=> Counts'
    BY <2>1 DEF Counts, Above
  <2>3. Unused <=> Unused'
    BY <2>1 DEF Unused
  <2> QED
    BY <1>3, <2>1, <2>2, <2>3 DEF Counting
<1> QED
  BY <1>1, <1>2, <1>3

(* A call that only knows Digest never sends a nonce with a count it has   *)
(* used, through retries, stale nonces, lost replies and redirects.        *)
THEOREM CountsGrow == Spec => NonceCountsGrow
<1>1. Init => Counting
  <2> SUFFICES ASSUME Init
               PROVE  Counting
    OBVIOUS
  <2>1. PICK c \in OptionSets : opts = Started(c)
    BY DEF Init
  <2> QED
    BY <2>1 DEF Init, Started, Counting, Counts, Above, Unused, Straight, Middle
<1>2. [Grows]_vars =>
        [/\ replies' # replies
         /\ wire'.auth.scheme = "digest"
         /\ opts.scheme = "digest"
         /\ ~opts.ntlm
         /\ opts.proxy = None
         => \A d \in digests :
              d.nonce = wire'.auth.nonce => d.nc < wire'.auth.nc]_vars
  BY DEF Grows, DigestOnly, Above
<1> QED
  BY <1>1, <1>2, CountingStep, InvHolds, BodyHolds, PTL DEF Spec, NonceCountsGrow
=============================================================================
