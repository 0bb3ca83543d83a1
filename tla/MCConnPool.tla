---------------------------- MODULE MCConnPool ----------------------------
(* Instances of ConnPool for TLC. *)
EXTENDS ConnPool

CONSTANTS A, B, C, P, S   \* three origins, an HTTP and a SOCKS proxy

\* A plain http request for origin o.
Plain(o) ==
  [origin |-> o, scheme |-> "http", proxy |-> None, connectTo |-> None,
   resolve |-> None, userClose |-> FALSE, expectBody |-> FALSE]

\* Every kind of route, mixed as --next allows.
MixedConfigs ==
  {Plain(A), Plain(B),
   [Plain(A) EXCEPT !.proxy = P],
   [Plain(B) EXCEPT !.proxy = P],
   [Plain(A) EXCEPT !.proxy = P, !.connectTo = C],
   [Plain(A) EXCEPT !.proxy = S],
   [Plain(A) EXCEPT !.connectTo = B],
   [Plain(A) EXCEPT !.resolve = C],
   [Plain(A) EXCEPT !.userClose = TRUE],
   [Plain(A) EXCEPT !.expectBody = TRUE],
   [Plain(A) EXCEPT !.scheme = "https"],
   [Plain(B) EXCEPT !.scheme = "https", !.proxy = P]}

\* One route per origin: A through the proxy, B redirected, C resolved to A.
RoutedConfigs ==
  {[Plain(A) EXCEPT !.proxy = P],
   [Plain(A) EXCEPT !.proxy = P, !.scheme = "https"],
   [Plain(B) EXCEPT !.connectTo = A],
   [Plain(C) EXCEPT !.resolve = A],
   [Plain(B) EXCEPT !.connectTo = A, !.expectBody = TRUE]}

\* Routes of the findings.
SocksConfigs == {[Plain(A) EXCEPT !.proxy = S], [Plain(B) EXCEPT !.proxy = S]}
PlainConfigs == {Plain(A), Plain(B)}

MCOrigins == {A, B, C}
CleanReplies == AllReplyKinds \ {"bailed"}
KeptReplies == {"framed", "http10ka", "http10kanobody"}
=============================================================================
