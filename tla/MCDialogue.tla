----------------------------- MODULE MCDialogue -----------------------------
(* Instances of Dialogue for TLC: each group of options with the answers    *)
(* and replies that bear on it.                                            *)
EXTENDS Dialogue

Usual ==
  [via |-> "direct", https |-> FALSE, host |-> "name", user |-> "none",
   auth |-> "basic", expect |-> "no", suppress |-> FALSE, head |-> FALSE,
   raw |-> FALSE, compressed |-> FALSE, http09 |-> FALSE, cap |-> None,
   answers |-> "one"]

TunnelOptions ==
  {[Usual EXCEPT !.via = "tunnel", !.user = u, !.auth = a, !.https = s,
                 !.suppress = ~s] :
     u \in {"none", "nocolon", "good"}, a \in {"basic", "any", "ntlm"},
     s \in BOOLEAN} \union
  {[Usual EXCEPT !.via = "tunnel", !.user = "long", !.auth = a] :
     a \in {"any", "ntlm"}}

SocksOptions ==
  {[Usual EXCEPT !.via = v, !.host = h, !.user = u] :
     v \in {"socks4", "socks4a", "socks5", "socks5h"},
     h \in {"name", "address", "long", "unknown"},
     u \in {"none", "nocolon", "good", "long"}}

ExpectOptions ==
  {[Usual EXCEPT !.via = v, !.expect = e] :
     v \in {"direct", "unix"}, e \in {"auto", "user"}} \union
  {[Usual EXCEPT !.via = "unix"]} \union
  {[Usual EXCEPT !.via = "tunnel", !.user = "good", !.auth = "any",
                 !.expect = e, !.suppress = s] :
     e \in {"auto", "user"}, s \in BOOLEAN}

ReaderOptions ==
  LET Plain(f) == [Usual EXCEPT !.answers = f]
  IN  {Plain("flawed"), [Plain("flawed") EXCEPT !.raw = TRUE],
       [Plain("flawed") EXCEPT !.http09 = TRUE, !.head = TRUE],
       [Plain("flawed") EXCEPT !.http09 = TRUE],
       [Plain("flawed") EXCEPT !.cap = 1, !.compressed = TRUE]} \union
      {[Plain(f) EXCEPT !.raw = r, !.cap = k] :
         f \in {"lengths", "closes", "chunks", "trailers"}, r \in BOOLEAN,
         k \in {None, 1, 2}} \union
      {[Plain("coded") EXCEPT !.raw = r, !.compressed = TRUE] : r \in BOOLEAN} \union
      {[Plain("coded") EXCEPT !.cap = k, !.compressed = TRUE] : k \in {1, 2}} \union
      {[Plain(f) EXCEPT !.via = "unix"] :
         f \in {"lengths", "chunks", "trailers"}} \union
      {[Plain("trailers") EXCEPT !.compressed = TRUE],
       [Plain("lengths") EXCEPT !.head = TRUE],
       [Plain("lengths") EXCEPT !.head = TRUE, !.via = "unix"]}

MCOptions == TunnelOptions \union SocksOptions \union ExpectOptions
               \union ReaderOptions

----------------------------------------------------------------------------
ProxyReply(st, ch, fr, after) == [st |-> st, ch |-> ch, fr |-> fr, after |-> after]

MCProxyReplies ==
  {ProxyReply(200, <<>>, "none", a) : a \in {"open", "eof"}} \union
  {ProxyReply(200, <<>>, "length", "open"), ProxyReply(0, <<>>, "none", "eof"),
   ProxyReply(0, <<>>, "none", "open"), ProxyReply(NotHttp, <<>>, "none", "open"),
   ProxyReply(403, <<>>, "length", "open"),
   ProxyReply(407, <<"basic">>, "none", "eof")} \union
  {ProxyReply(407, ch, fr, "open") :
     ch \in {<<"digest">>, <<"basic", "digest">>, <<"ntlm">>, <<"t2">>,
             <<"digest", "ntlm">>},
     fr \in {"none", "length", "chunked", "trailered"}} \union
  {ProxyReply(407, <<"digest">>, "closed", a) : a \in {"eof", "reset"}}

----------------------------------------------------------------------------
MCGrowth == 2

Plenty == 20   \* more units than any answer here has

Answer(st, fr, n) ==
  [interim |-> <<>>, st |-> st, fr |-> fr, n |-> n, flaw |-> "none",
   coding |-> "none", sent |-> Plenty, after |-> "open"]

OneAnswers ==
  {Answer(200, "length", 1), [Answer(200, "length", 1) EXCEPT !.interim = <<100>>],
   Answer(417, "length", 1), Answer(417, "chunked", 1),
   [Answer(200, "none", 0) EXCEPT !.after = "eof"]}

(* Every framing, cut after every number of units, with each end; the same *)
(* for coded content, which is not told apart from other content before    *)
(* the end.                                                                *)
Pieces == 3
Cut(a, longest) ==
  {[a EXCEPT !.sent = k, !.after = e] :
     k \in 0..longest, e \in {"open", "eof", "reset"}}
Cuts(answers, longest) ==
  {c \in UNION {Cut(a, longest) : a \in answers} : c.sent > 0 \/ c.after # "open"}

Headed(fr, st, before) ==
  {[Answer(st, fr, n) EXCEPT !.interim = before] : n \in 0..Pieces}
Lengths == Cuts(Headed("length", 200, <<>>) \union Headed("length", 302, <<>>),
                Pieces + 1)
Closes == Cuts(Headed("close", 200, <<103>>) \union {Answer(204, "none", 0)},
               Pieces + 2)
Chunks == Cuts(Headed("chunked", 200, <<>>) \union Headed("chunked", 302, <<>>),
               Pieces + 7)
Trailers == Cuts({[a EXCEPT !.flaw = "trailers"] :
                    a \in Headed("chunked", 200, <<103>>)}, Pieces + 9)
CodedAnswers == Cuts({[Answer(200, fr, 2) EXCEPT !.coding = c] :
                 fr \in {"length", "chunked", "close"},
                 c \in {"good", "bad", "deep"}}, 7)

(* Every flaw, with the statuses and framings it is checked against.       *)
Flawed ==
  {[Answer(st, fr, 2) EXCEPT !.flaw = f, !.interim = i, !.after = e] :
     st \in {200, 302}, fr \in {"length", "chunked", "close"},
     f \in HeaderFlaws, i \in {<<>>, <<103>>}, e \in {"open", "eof"}} \union
  {[Answer(200, "chunked", 3) EXCEPT !.flaw = "chunk_size", !.after = e] :
     e \in {"open", "eof"}} \union
  {[Answer(200, "close", 2) EXCEPT !.flaw = "not_http", !.interim = i, !.after = e] :
     i \in {<<>>, <<103>>}, e \in {"open", "eof", "reset"}}

MCAnswers ==
  [one |-> OneAnswers, lengths |-> Lengths, closes |-> Closes, chunks |-> Chunks,
   trailers |-> Trailers, coded |-> CodedAnswers, flawed |-> Flawed]
=============================================================================
