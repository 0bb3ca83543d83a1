------------------------------ MODULE Session ------------------------------
(***************************************************************************)
(* What main() of src/main.rs carries from one URL to the next: the        *)
(* cookies in memory, those a reply deleted, the cookie files, and the     *)
(* HSTS and Alt-Svc caches with their write-back at the end; and what      *)
(* perform() of src/request.rs does with cookies within one call, on its   *)
(* own copy of the options: in a retry with credentials and in redirects.  *)
(***************************************************************************)
EXTENDS Cookies

CONSTANTS
  OptionSets,    \* the option combinations to consider
  Urls,          \* the URLs of the command line and of redirects
  Replies,       \* what a server may answer
  MaxRedirs      \* --max-redirs

Labels == Seq(STRING) \ {<<>>}

(* text: how the URL is written: "full", http:// or https:// and a host    *)
(* that ends at a slash, a colon or the end; "query", with a ? or a #      *)
(* right after the host, or a third slash before it; "bare", without       *)
(* http:// in front (no scheme, or http:/ with one slash), which parse_url *)
(* takes for http all the same.                                            *)
UrlSpace ==
  [host : Labels, https : BOOLEAN, path : {p \in Labels : p[1] = "/"},
   text : {"full", "query", "bare"}]

\* by: the host that set the cookie; <<>> for those of a file.
Cookie ==
  [dom : [at : Labels, sub : BOOLEAN], path : Seq(STRING), secure : BOOLEAN,
   name : STRING, by : Seq(STRING), expires : Nat]
HstsEntry == [sub : BOOLEAN, host : Labels]
AltEntry == [host : Labels, alt : STRING]

(* engine: -b or -c given as a word of its own (attached, as in -cjar,     *)
(* neither sets cookie_engine); jar: no -c, a file of its own, or the file *)
(* of -b; hosts: the Host header given for each URL, in order; file, hsts  *)
(* and alts: what the files hold at the start.                             *)
OptionSpace ==
  [engine : BOOLEAN, jar : {"none", "own", "same"}, junk : BOOLEAN,
   hosts : Seq(Labels \union {None}), file : Seq({c \in Cookie : c.by = <<>>}),
   hsts : Seq(HstsEntry), alts : Seq(AltEntry)]

SetCookieSpace ==
  [name : STRING, domain : Labels \union {None}, path : Seq(STRING) \union {None},
   secure : BOOLEAN, age : {"session", "later", "gone"}]

ReplySpace ==
  [st : {200, 302, 401, 404}, cookies : Seq(SetCookieSpace),
   to : Urls \union {None}, sts : [sub : BOOLEAN] \union {None},
   alt : STRING \union {None}]

ASSUME SessionAssumption ==
  /\ OptionSets \subseteq OptionSpace
  /\ Urls \subseteq UrlSpace
  /\ Replies \subseteq ReplySpace
  /\ \A r \in Replies : r.st = 302 <=> r.to \in Urls
  /\ MaxRedirs \in Nat

VARIABLES
  opts,      \* the options
  at,        \* "next", "request", "reply" or "done"
  n,         \* the number of URLs begun
  url,       \* the URL requested, or to be requested
  custom,    \* the Host header of the call
  mem,       \* memory_cookies of the call
  retried,   \* the request of this hop was sent again with credentials
  redirects, \* the redirects followed
  sent,      \* what the last request carried
  memory,    \* memory_cookies of main()
  deleted,   \* deleted_cookies
  file,      \* the content of the -b file
  jar,       \* the content of the -c file
  now,       \* the clock
  hsts,      \* hsts_entries
  learned,   \* hsts_learned_any
  alts,      \* alt_svc_entries and alt_svc_learned
  owed,      \* history: the cookies the final replies have set and not taken back
  gone,      \* history: the keys they have deleted and not set again
  full       \* history: the domains that have been at MaxPerDomain

callvars == <<url, custom, mem, retried, redirects>>
mainvars == <<memory, deleted, file, jar, hsts, learned, alts, owed, gone, full>>
vars == <<opts, at, n, callvars, sent, mainvars, now>>

StartTime == 2
Nowhere == [host |-> <<>>, https |-> FALSE, path |-> <<>>, text |-> "full"]

Init ==
  /\ opts \in OptionSets
  /\ at = "next"
  /\ n = 0
  /\ url = Nowhere
  /\ custom = None
  /\ mem = <<>>
  /\ retried = FALSE
  /\ redirects = 0
  /\ sent = {}
  /\ memory = <<>>
  /\ deleted = {}
  /\ file = opts.file
  /\ jar = <<>>
  /\ now = StartTime
  /\ hsts = opts.hsts
  /\ learned = FALSE
  /\ alts = opts.alts
  /\ owed = {}
  /\ gone = {}
  /\ full = {}

(* The call returns: its copy of the options is dropped.                   *)
CallOver ==
  /\ at' = "next"
  /\ url' = Nowhere
  /\ custom' = None
  /\ mem' = <<>>
  /\ retried' = FALSE
  /\ redirects' = 0
  /\ sent' = {}

MaxUrls == Len(opts.hosts)
MainHost == Last(opts.hosts)   \* --next clears the headers: those of the last group
Logical(u, c) == IF c = None THEN u.host ELSE c

----------------------------------------------------------------------------
(* The next URL: http is made https by the HSTS entries loaded at the      *)
(* start, where main() finds http:// and the host in the URL's text; the   *)
(* call gets a copy of the options.                                        *)
CoveredBy(entries, host) ==
  \E e \in ToSet(entries) :
    host = e.host \/ (e.sub /\ Covers(e.host, host))
Upgraded(u) ==
  [u EXCEPT !.https = u.https \/ (u.text = "full" /\ CoveredBy(opts.hsts, u.host))]

NextUrl ==
  /\ at = "next"
  /\ n < MaxUrls
  /\ n' = n + 1
  /\ \E u \in Urls : url' = Upgraded(u)
  /\ custom' = opts.hosts[n + 1]
  /\ mem' = memory
  /\ retried' = FALSE
  /\ redirects' = 0
  /\ at' = "request"
  /\ UNCHANGED <<opts, sent, mainvars, now>>

(* build_request; Secure cookies also go to a loopback Host in the clear.  *)
Request ==
  /\ at = "request"
  /\ LET host == Logical(url, custom)
     IN  sent' = Carried(file, mem, deleted, host, url.path,
                         url.https \/ IsLoopback(host), opts.junk, now)
  /\ at' = "reply"
  /\ UNCHANGED <<opts, n, callvars, mainvars, now>>

(* The first reply of a hop is absorbed by absorb_response_cookies, the    *)
(* one that leads on by perform()'s own rule, the first by both if it does.*)
TakesFirst(l, r) ==
  IF opts.engine /\ ~retried
  THEN Absorbed(l, r.cookies, url, Logical(url, custom), now, "segment") ELSE l
TakesLast(l, r) ==
  IF opts.engine
  THEN Absorbed(l, r.cookies, url, Logical(url, custom), now, "name") ELSE l

Retry ==
  /\ at = "reply"
  /\ ~retried
  /\ \E r \in Replies : r.st = 401 /\ mem' = TakesFirst(mem, r)
  /\ retried' = TRUE
  /\ at' = "request"
  /\ UNCHANGED <<opts, n, url, custom, redirects, sent, mainvars, now>>

(* A redirect to another host or scheme drops the custom Host header; its  *)
(* URL is not upgraded.                                                    *)
Redirect ==
  /\ at = "reply"
  /\ redirects < MaxRedirs
  /\ \E r \in Replies :
       /\ r.st = 302
       /\ mem' = TakesLast(TakesFirst(mem, r), r)
       /\ url' = r.to
       /\ custom' = IF <<r.to.host, r.to.https>> = <<url.host, url.https>>
                    THEN custom ELSE None
  /\ retried' = FALSE
  /\ redirects' = redirects + 1
  /\ at' = "request"
  /\ UNCHANGED <<opts, n, sent, mainvars, now>>

----------------------------------------------------------------------------
(* What main() does with the reply it gets: Alt-Svc and HSTS are learned,  *)
(* the jar is written, then the cookies are taken over: those of this      *)
(* reply only, under the Host header of the last group of options.  The    *)
(* call's own list of cookies is gone.                                     *)
IsFinal(r) ==
  CASE r.st = 401 -> retried
    [] r.st = 302 -> redirects = MaxRedirs
    [] OTHER -> TRUE

LearnAlt(entries, r) ==
  LET e == [host |-> url.host, alt |-> r.alt]
  IN  IF r.st \in {200, 302} /\ r.alt # None /\ e \notin ToSet(entries)
      THEN Append(entries, e) ELSE entries

RestartHsts(entries, r) == <<[sub |-> r.sts.sub, host |-> url.host]>>
LearnHsts(entries, r) ==
  LET e == [sub |-> r.sts.sub, host |-> url.host]
      same == {i \in DOMAIN entries : entries[i].host = url.host}
  IN  IF same = {} THEN Append(entries, e)
      ELSE [entries EXCEPT ![Least(same)] = e]
TellsHsts(r) == r.st = 200 /\ r.sts # None

SavesJar(r) ==
  LET content == Jar(file, memory, r.cookies, url, Logical(url, MainHost), now)
  IN  /\ file' = IF opts.jar = "same" THEN content ELSE file
      /\ jar' = IF opts.jar = "own" THEN content ELSE jar

(* History: the final replies' last word on each cookie.                   *)
Names(r) ==
  LET c == [i \in DOMAIN r.cookies |->
              Parsed(r.cookies[i], url, Logical(url, MainHost), now)]
      in == {i \in DOMAIN c : Accepted(r.cookies[i], url, Logical(url, MainHost))}
  IN  {c[i] : i \in {k \in in : \A j \in in : j > k => ~SameKey(c[j], c[k])}}
Key(c) == [dom |-> c.dom, path |-> c.path, name |-> c.name]
AtLimit(list) ==
  {c.dom : c \in {d \in ToSet(list) : CountIn(list, d.dom) >= MaxPerDomain}}

Final ==
  /\ at = "reply"
  /\ \E r \in Replies :
       /\ IsFinal(r)
       /\ alts' = LearnAlt(alts, r)
       /\ hsts' = IF TellsHsts(r) THEN LearnHsts(hsts, r) ELSE hsts
       /\ learned' = (learned \/ TellsHsts(r))
       /\ SavesJar(r)
       /\ memory' = IF opts.engine
                    THEN Absorbed(memory, r.cookies, url,
                                  Logical(url, MainHost), now, "never")
                    ELSE memory
       /\ deleted' = IF opts.engine
                     THEN deleted \union
                            Deletions(r.cookies, url, Logical(url, MainHost), now)
                     ELSE deleted
       /\ owed' = {c \in owed : \A d \in Names(r) : ~SameKey(c, d)}
                    \union {d \in Names(r) : ~Expired(d, now)}
       /\ gone' = (gone \ {Key(d) : d \in Names(r)})
                    \union {Key(d) : d \in {e \in Names(r) : Expired(e, now)}}
       /\ full' = full \union
            UNION {AtLimit(Absorbed(memory, SubSeq(r.cookies, 1, i), url,
                                    Logical(url, MainHost), now, "never")) :
                     i \in 0..Len(r.cookies)}
  /\ CallOver
  /\ UNCHANGED <<opts, n, now>>

(* The call fails: whatever it received is forgotten.                      *)
Fail ==
  /\ at \in {"request", "reply"}
  /\ CallOver
  /\ UNCHANGED <<opts, n, mainvars, now>>

(* Cookies expire while the program runs.                                  *)
MaxTime == StartTime + Lifetime
Tick ==
  /\ at = "next"
  /\ now < MaxTime
  /\ now' = now + 1
  /\ UNCHANGED <<opts, at, n, callvars, sent, mainvars>>

(* After the last URL the caches are written back, HSTS only if it         *)
(* learned; a file that is not rewritten is as it was at the start.        *)
Finish ==
  /\ at = "next"
  /\ n = MaxUrls
  /\ at' = "done"
  /\ hsts' = IF learned THEN hsts ELSE opts.hsts
  /\ UNCHANGED <<opts, n, callvars, sent, memory, deleted, file, jar, learned,
                 alts, owed, gone, full, now>>

Next ==
  \/ NextUrl \/ Request \/ Retry \/ Redirect \/ Final \/ Fail \/ Tick \/ Finish

Spec == Init /\ [][Next]_vars

----------------------------------------------------------------------------
(* Every variable has a value of its kind; in particular every cookie kept *)
(* has a domain, none is there twice, and no domain has more than it may.  *)
Keepable(list) ==
  /\ \A c \in ToSet(list) : c.dom.at # <<>>
  /\ \A i, j \in DOMAIN list : SameKey(list[i], list[j]) => i = j
  /\ \A c \in ToSet(list) : CountIn(list, c.dom) <= MaxPerDomain

SessionTypeOK ==
  /\ opts \in OptionSets
  /\ at \in {"next", "request", "reply", "done"}
  /\ n \in 0..MaxUrls /\ redirects \in 0..MaxRedirs
  /\ now \in StartTime..MaxTime
  /\ {retried, learned} \subseteq BOOLEAN
  /\ Keepable(mem) /\ Keepable(memory) /\ Keepable(jar)
  /\ opts.jar = "same" => Keepable(file) \/ file = opts.file
  /\ \A s \in sent : s.from \in {"file", "memory"}

(* No server is sent a cookie that a server outside the cookie's domain    *)
(* has set, through redirects, retries, the cookie files and the URLs that *)
(* follow, as long as no Host header is given: main() takes the cookies of *)
(* every reply for those of the last group's Host header.                  *)
CookiesStayInTheirDomain ==
  at = "reply" /\ (\A i \in DOMAIN opts.hosts : opts.hosts[i] = None) =>
    \A s \in sent :
      s.cookie.by # Nowhere.host =>
        Covers(s.cookie.dom.at, s.cookie.by) /\ Covers(s.cookie.dom.at, url.host)

(* A reply that came in the clear from a server elsewhere takes no Secure  *)
(* cookie away from the call it belongs to, nor from the jar written for   *)
(* it (when no -b file has taken the room).  A cookie whose Path attribute *)
(* is empty or begins with no slash has no such protection, nor has any in *)
(* main()'s own list, from which the next URL is served.                   *)
SecureOnes(list) == {c \in ToSet(list) : c.secure /\ StartsWithSlash(c.path)}
InTheClear ==
  /\ at = "reply"
  /\ ~url.https
  /\ ~IsLoopback(Logical(url, custom)) /\ ~IsLoopback(Logical(url, MainHost))
PlainNeverOverridesSecure ==
  [][InTheClear =>
       /\ at' = "request" => SecureOnes(mem) \subseteq ToSet(mem')
       /\ jar' # jar /\ opts.file = <<>> =>
            {c \in SecureOnes(memory) : ~Expired(c, now)} \subseteq ToSet(jar')]_vars

(* A cookie that the final reply of an earlier URL deleted, and none has   *)
(* set since, is not sent again, whether it was in memory, in a file, or   *)
(* in both: unless the cookie engine is off, or a reply of the same call   *)
(* has just set it.                                                        *)
FirstOfCall == redirects = 0 /\ ~retried
DeletedStaysDeleted ==
  at = "reply" /\ opts.engine =>
    \A s \in sent :
      Key(s.cookie) \in gone => s.from = "memory" /\ ~FirstOfCall

(* What the final replies have set is sent with the first request of every *)
(* later URL it fits, until it expires or is replaced or deleted; only a   *)
(* domain that has been at its limit may lose cookies.                     *)
RememberedAcrossUrls ==
  at = "reply" /\ FirstOfCall /\ opts.engine =>
    LET host == Logical(url, custom)
    IN  \A c \in owed :
          /\ Usable(c, url.https \/ IsLoopback(host), opts.junk, now)
          /\ Fits(c, host, url.path)
          /\ c.dom \notin full
          => \E s \in sent : s.cookie = c

(* A host that the HSTS file covers is asked in the clear only where a     *)
(* redirect leads there, or the URL's text hides the scheme or the host    *)
(* from main(), which looks for http:// and takes what follows up to a     *)
(* slash for the host; and the write-back keeps every host and every       *)
(* alternative service that was loaded, none twice.                        *)
CachesHold ==
  /\ at \in {"request", "reply"} /\ ~url.https /\ CoveredBy(opts.hsts, url.host)
       => redirects > 0 \/ url.text # "full"
  /\ at = "done" =>
       /\ \A e \in ToSet(opts.hsts) :
            \E d \in ToSet(hsts) : d.host = e.host /\ (learned \/ d = e)
       /\ IsPrefix(opts.alts, alts)
       /\ \A i, j \in DOMAIN alts :
            alts[i] = alts[j] => i = j \/ {i, j} \subseteq DOMAIN opts.alts
=============================================================================
