------------------------------ MODULE Cookies ------------------------------
(***************************************************************************)
(* The cookie rules of src/cookie.rs and src/request.rs as operators: what *)
(* a Set-Cookie header becomes (parse_set_cookie_ex), which cookie takes   *)
(* the place of which, the three ways a list of cookies absorbs a          *)
(* response, what the jar holds (save_cookie_jar) and which cookies a      *)
(* request carries (build_cookie_header).                                  *)
(*                                                                         *)
(* A host is the sequence of its labels from the last to the first, so a   *)
(* domain covers the hosts it is a prefix of; a path is the sequence of    *)
(* its slashes and of the pieces between them.                             *)
(***************************************************************************)
EXTENDS Naturals, Sequences, FiniteSets, SequencesExt

CONSTANTS
  None,           \* no Domain attribute, no Path attribute, no custom Host
  MaxPerDomain,   \* cookies kept per domain: 50
  FileMax         \* cookies taken from a file per domain: 150

ASSUME CookiesAssumption == MaxPerDomain \in Nat \ {0} /\ FileMax \in Nat \ {0}

Covers(domain, host) == IsPrefix(domain, host)
IsIp(host) == host[1] = "127.0.0.1"
IsLoopback(host) == host[1] \in {"localhost", "127.0.0.1"}
Root == <<"/">>

----------------------------------------------------------------------------
(* Paths: the directory of a request's path; path_matches; and the first   *)
(* segment of a path, within which a cookie that is not Secure must not    *)
(* overlay a Secure one (secure_path_overlay: a test of prefixes of the    *)
(* text, so /ab lies within /a; a path without a slash has no segment).    *)
LaterSlashes(path) == {i \in 2..Len(path) : path[i] = "/"}
Least(S) == CHOOSE i \in S : \A j \in S : i <= j
Greatest(S) == CHOOSE i \in S : \A j \in S : i >= j

DefaultPath(path) ==
  IF LaterSlashes(path) = {} THEN Root
  ELSE SubSeq(path, 1, Greatest(LaterSlashes(path)) - 1)

Trimmed(path) ==
  IF Len(path) > 1 /\ Last(path) = "/" THEN Front(path) ELSE path

PathMatches(path, cookiePath) ==
  \/ cookiePath \in {<<>>, path}
  \/ /\ IsPrefix(cookiePath, path)
     /\ Last(cookiePath) = "/" \/ path[Len(cookiePath) + 1] = "/"

FirstSegment(path) ==
  IF LaterSlashes(path) = {} THEN path
  ELSE SubSeq(path, 1, Least(LaterSlashes(path)) - 1)
StartsWithSlash(path) == path # <<>> /\ path[1] = "/"
Overlays(old, new) ==
  StartsWithSlash(old.path) /\ IsPrefix(FirstSegment(old.path), new.path)

(* domain_matches: a domain written with a dot covers its subdomains.      *)
DomainMatches(host, dom) ==
  IF dom.sub THEN Covers(dom.at, host) ELSE host = dom.at

----------------------------------------------------------------------------
(* A Set-Cookie header sc received by url (host is the Host header it was  *)
(* asked under): the domain it may claim, if any; its path; whether the    *)
(* rules for name prefixes and for Secure let it in.  expires is 0 for a   *)
(* session cookie and 1 for one that is to be deleted.                     *)
AnyDomain(sc, host) ==
  IF sc.domain = None THEN [at |-> host, sub |-> FALSE]
                      ELSE [at |-> sc.domain, sub |-> TRUE]

ClaimedDomain(sc, host) ==
  IF sc.domain = None \/ (IsIp(host) /\ sc.domain = host)
  THEN [at |-> host, sub |-> FALSE]
  ELSE IF /\ ~IsIp(host) /\ Covers(sc.domain, host)
          /\ Len(sc.domain) > 1 \/ sc.domain = <<"localhost">>
  THEN [at |-> sc.domain, sub |-> TRUE]
  ELSE None

PathOf(sc, url) ==
  Trimmed(IF sc.path = None THEN DefaultPath(url.path) ELSE sc.path)

Accepted(sc, url, host) ==
  /\ ClaimedDomain(sc, host) # None
  /\ sc.name = "__Secure-id" => sc.secure
  /\ sc.name = "__Host-id" =>
       sc.secure /\ sc.domain = None /\ PathOf(sc, url) = Root
  /\ sc.secure => url.https \/ IsLoopback(host)

Lifetime == 1
Parsed(sc, url, host, now) ==
  [dom |-> ClaimedDomain(sc, host), path |-> PathOf(sc, url),
   secure |-> sc.secure, name |-> sc.name, by |-> url.host,
   expires |-> CASE sc.age = "session" -> 0
                 [] sc.age = "gone" -> 1
                 [] OTHER -> now + Lifetime]

Expired(c, now) == c.expires > 0 /\ c.expires <= now

----------------------------------------------------------------------------
\* The cookies of a list that are in S, in their order.
Retained(list, S) ==
  LET kept[i \in 0..Len(list)] ==
        IF i = 0 THEN <<>>
        ELSE IF list[i] \in S THEN Append(kept[i - 1], list[i]) ELSE kept[i - 1]
  IN  kept[Len(list)]

(* A cookie replaces the one of the same domain (dot included), path and   *)
(* name, so a list has no two like that; an expired one only removes it,   *)
(* and one too many is dropped.                                            *)
SameKey(c, d) == c.dom = d.dom /\ c.path = d.path /\ c.name = d.name
WithoutName(list, c) ==
  Retained(list, {d \in ToSet(list) : ~(c.dom = d.dom /\ c.name = d.name)})
AllOf(list, c) == list
Without(list, c) == Retained(list, {d \in ToSet(list) : ~SameKey(c, d)})
CountIn(list, dom) == Cardinality({d \in ToSet(list) : d.dom = dom})

Store(list, c, now) ==
  LET others == Without(list, c)
  IN  IF Expired(c, now) \/ CountIn(others, c.dom) >= MaxPerDomain
      THEN others ELSE Append(others, c)

(* When a cookie that is not Secure and came over plain http is refused:   *)
(* because of a Secure one of its name and domain within the same first    *)
(* segment (absorb_response_cookies, save_cookie_jar), because of any      *)
(* Secure one of its name (perform), or never (main).                      *)
BySegment(list, c) ==
  \E d \in ToSet(list) :
    d.secure /\ d.name = c.name /\ d.dom.at = c.dom.at /\ Overlays(d, c)
Never(list, c) == FALSE
ByName(list, c) == \E d \in ToSet(list) : d.secure /\ d.name = c.name

\* The three rules by the place that uses them; main() has none.
Refused(rule, list, c) ==
  \/ rule = "segment" /\ BySegment(list, c)
  \/ rule = "name" /\ ByName(list, c)

Taken(list, sc, url, host, now, rule) ==
  LET c == Parsed(sc, url, host, now)
  IN  IF \/ ~Accepted(sc, url, host)
         \/ ~url.https /\ ~c.secure /\ Refused(rule, list, c)
      THEN list ELSE Store(list, c, now)

Absorbed(list, headers, url, host, now, rule) ==
  LET after[i \in 0..Len(headers)] ==
        IF i = 0 THEN list
        ELSE Taken(after[i - 1], headers[i], url, host, now, rule)
  IN  after[Len(headers)]

(* main() remembers which cookies were deleted, without the dot of their   *)
(* domain, so that those of a file are skipped as well.                    *)
DeletionKey(c) == [at |-> c.dom.at, path |-> Trimmed(c.path), name |-> c.name]
NoDeletions(headers, url, host, now) == {}
Deletions(headers, url, host, now) ==
  {DeletionKey(Parsed(sc, url, host, now)) :
     sc \in {h \in ToSet(headers) : Accepted(h, url, host) /\ h.age = "gone"}}

(* save_cookie_jar: the -b file, then what main() remembers, then the      *)
(* response; the newest first.                                             *)
Stored(cookies, now) ==
  LET after[i \in 0..Len(cookies)] ==
        IF i = 0 THEN <<>> ELSE Store(after[i - 1], cookies[i], now)
  IN  after[Len(cookies)]

Jar(file, memory, headers, url, host, now) ==
  Reverse(Absorbed(Stored(file \o memory, now), headers, url, host, now, "segment"))

----------------------------------------------------------------------------
(* build_cookie_header: the lines of the file that are not deleted, at     *)
(* most FileMax per domain, then those in memory; a line is left out when  *)
(* it is expired, a junked session cookie, Secure on a plain request, or   *)
(* for another host or path.  What is sent is told apart by its source.    *)
Usable(c, secureRequest, junk, now) ==
  /\ ~(c.expires = 0 /\ junk)
  /\ ~Expired(c, now)
  /\ c.secure => secureRequest

Fits(c, host, path) == DomainMatches(host, c.dom) /\ PathMatches(path, c.path)

FirstPerDomain(lines) ==
  {lines[i] : i \in {k \in DOMAIN lines :
     Cardinality({j \in 1..(k - 1) : lines[j].dom.at = lines[k].dom.at})
       < FileMax}}

Carried(file, memory, deleted, host, path, secureRequest, junk, now) ==
  LET Use(c) == Usable(c, secureRequest, junk, now)
      kept == Retained(file, {c \in ToSet(file) : DeletionKey(c) \notin deleted /\ Use(c)})
      chosen == {c \in FirstPerDomain(kept) : Fits(c, host, path)}
      recalled == {c \in ToSet(memory) : Use(c) /\ Fits(c, host, path)}
  IN  {[cookie |-> c, from |-> "file"] : c \in chosen}
        \union {[cookie |-> c, from |-> "memory"] : c \in recalled}
=============================================================================
