----------------------------- MODULE MCPerform -----------------------------
(* Instances of Perform for TLC. *)
EXTENDS Perform

CONSTANTS A, B   \* two origins

For(o) == [origin |-> o, password |-> TRUE]
NameFor(o) == [origin |-> o, password |-> FALSE]
Url(o, ui) == [origin |-> o, userinfo |-> ui]

\* -u with one of the schemes, and nothing else.
Plain(s) ==
  [scheme |-> s, user |-> For(A), fromCli |-> TRUE, bearer |-> None,
   proxy |-> None, body |-> "none", custom |-> {}, keepPost |-> FALSE,
   trusted |-> FALSE, netrc |-> {}, location |-> TRUE, maxRedirs |-> 2]

Schemes == {"basic", "digest", "ntlm", "anyauth"}

(* Every scheme with and without a body, and each option that bears on the *)
(* credentials in the schemes where it matters.                            *)
SiteOptions ==
  {Plain("basic"), Plain("digest"),
   [Plain("ntlm") EXCEPT !.maxRedirs = 1],
   [Plain("anyauth") EXCEPT !.maxRedirs = 1]} \union
  {[Plain(s) EXCEPT !.body = "data", !.maxRedirs = 1] : s \in Schemes} \union
  {[Plain("digest") EXCEPT !.body = "file", !.maxRedirs = 1],
   [Plain("digest") EXCEPT !.body = "stdin", !.maxRedirs = 1],
   [Plain("ntlm") EXCEPT !.body = "form", !.maxRedirs = 1],
   [Plain("basic") EXCEPT !.custom = {"host", "cookie", "authorization"}],
   [Plain("basic") EXCEPT !.trusted = TRUE, !.custom = {"host", "authorization"}],
   [Plain("basic") EXCEPT !.bearer = A],
   [Plain("basic") EXCEPT !.fromCli = FALSE, !.netrc = {A, B}],
   [Plain("digest") EXCEPT !.user = None, !.fromCli = FALSE, !.maxRedirs = 1],
   [Plain("digest") EXCEPT !.user = None, !.fromCli = FALSE, !.trusted = TRUE,
                           !.maxRedirs = 1],
   [Plain("basic") EXCEPT !.body = "data", !.keepPost = TRUE],
   [Plain("basic") EXCEPT !.location = FALSE]}

ProxyOptions ==
  {[Plain("basic") EXCEPT !.proxy = "basic", !.maxRedirs = 1],
   [Plain("digest") EXCEPT !.proxy = "ask", !.body = "data", !.maxRedirs = 1],
   [Plain("basic") EXCEPT !.proxy = "ask", !.maxRedirs = 1],
   [Plain("digest") EXCEPT !.proxy = "ntlm", !.maxRedirs = 1]}

MCOptions == SiteOptions \union ProxyOptions

Reply(status, offers, location) ==
  [status |-> status, offers |-> offers, closing |-> FALSE, http10 |-> FALSE,
   location |-> location]

Challenges ==
  {Reply(status, offers, None) :
     status \in {401, 407},
     offers \in {{"basic"}, {"digest", "basic", "ntlm"}, {"ntlm"}, {"type2"}}}

MCReplies ==
  Challenges \union
  {Reply(200, {}, None),
   Reply(401, {"stale"}, None),
   [Reply(401, {"digest"}, None) EXCEPT !.http10 = TRUE],
   [Reply(401, {"type2"}, None) EXCEPT !.closing = TRUE],
   Reply(302, {}, Url(A, None)),
   Reply(302, {}, Url(B, NameFor(B))),
   [Reply(303, {}, Url(B, None)) EXCEPT !.closing = TRUE],
   Reply(307, {}, Url(B, For(B))),
   Reply(302, {}, Blank), Reply(302, {}, Malformed), Reply(303, {}, Refused)}

MCUrls == {Url(A, None), Url(A, For(A))}

\* Options of the findings.
DigestOptions == {[Plain("digest") EXCEPT !.body = "data"]}
BodyOptions == {[Plain("ntlm") EXCEPT !.body = "form"]}
=============================================================================
