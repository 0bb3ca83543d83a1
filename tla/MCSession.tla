----------------------------- MODULE MCSession -----------------------------
(* Instances of Session for TLC. *)
EXTENDS Session

Example == <<"com", "example">>
Www == <<"com", "example", "www">>
Other == <<"org", "other">>
Local == <<"localhost">>
Ip == <<"127.0.0.1">>

DirA == <<"/", "a">>
FileInA == <<"/", "a", "/", "x">>
DirAb == <<"/", "a", "b">>

Url(host, https, path) ==
  [host |-> host, https |-> https, path |-> path, text |-> "full"]
MCUrls ==
  {Url(Www, TRUE, Root), Url(Www, FALSE, FileInA),
   [Url(Example, FALSE, DirA) EXCEPT !.text = "bare"],
   Url(Other, FALSE, Root), Url(Local, FALSE, DirAb)}

SetCookie(name) ==
  [name |-> name, domain |-> None, path |-> None, secure |-> FALSE,
   age |-> "session"]
Sid == SetCookie("sid")
Plain == [Sid EXCEPT !.path = Root]
Secure == [Sid EXCEPT !.path = Root, !.secure = TRUE, !.age = "later"]
SecureA == [Secure EXCEPT !.path = FileInA]
PlainA == [Sid EXCEPT !.path = DirA]
Shared == [Sid EXCEPT !.domain = Example, !.path = <<"/", "a", "/">>]
Delete == [Plain EXCEPT !.age = "gone"]
DeleteShared == [Shared EXCEPT !.age = "gone"]
Extra == [SetCookie("extra") EXCEPT !.path = Root, !.age = "later"]
Third == [SetCookie("third") EXCEPT !.path = Root]
HostBound == [SetCookie("__Host-id") EXCEPT !.secure = TRUE, !.path = Root]
HostBoundBadly == [HostBound EXCEPT !.path = DirA]
SecureBound == [SetCookie("__Secure-id") EXCEPT !.path = Root]
SecureBare == [Secure EXCEPT !.path = <<>>]
Bare == [Sid EXCEPT !.path = <<>>]
Foreign == [Plain EXCEPT !.domain = Other]
TopLevel == [Plain EXCEPT !.domain = <<"com">>]

Reply(st, cookies) ==
  [st |-> st, cookies |-> cookies, to |-> None, sts |-> None, alt |-> None]
Single == {Sid, Plain, Secure, PlainA, Shared, Delete, DeleteShared}
MCReplies ==
  {Reply(200, <<c>>) : c \in Single} \union
  {Reply(200, <<HostBound, HostBoundBadly>>), Reply(200, <<SecureBound, Foreign, SecureBare>>),
   Reply(404, <<SecureA, TopLevel>>),
   Reply(200, <<Extra, Third, Plain>>), Reply(200, <<Plain, Delete>>),
   Reply(401, <<Secure>>),
   Reply(401, <<Plain, Bare>>)} \union
  {[Reply(200, <<>>) EXCEPT !.sts = [sub |-> s], !.alt = "h"] : s \in BOOLEAN} \union
  {[Reply(302, <<c>>) EXCEPT !.to = u, !.alt = "h"] :
     c \in {Plain, Delete},
     u \in {Url(Www, FALSE, FileInA), Url(Other, FALSE, Root)}}

----------------------------------------------------------------------------
Line(host, sub, path, secure, name) ==
  [dom |-> [at |-> host, sub |-> sub], path |-> path, secure |-> secure,
   name |-> name, by |-> <<>>, expires |-> 0]

NoFile ==
  [engine |-> TRUE, jar |-> "own", junk |-> FALSE, hosts |-> <<None, None>>,
   file |-> <<>>, hsts |-> <<>>, alts |-> <<>>]
Filled ==
  [NoFile EXCEPT !.file = <<Line(Www, FALSE, Root, FALSE, "sid"),
                            Line(Example, TRUE, DirA, FALSE, "sid"),
                            Line(Example, TRUE, Root, FALSE, "extra"),
                            Line(Example, TRUE, Root, FALSE, "third")>>]

MCOptions ==
  {[NoFile EXCEPT !.hosts = <<None, None, None>>],
   [Filled EXCEPT !.engine = FALSE],
   Filled, [Filled EXCEPT !.jar = "same"], [Filled EXCEPT !.junk = TRUE],
   [NoFile EXCEPT !.hosts = <<Ip, Ip>>],
   [NoFile EXCEPT !.hosts = <<Www, Local>>],
   [NoFile EXCEPT !.jar = "none",
                  !.hsts = <<[sub |-> TRUE, host |-> Example],
                             [sub |-> FALSE, host |-> Other]>>,
                  !.alts = <<[host |-> Www, alt |-> "h"]>>]}
=============================================================================
