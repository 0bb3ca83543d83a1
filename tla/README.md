# Models of oxidized-curl

oxidized-curl is a command-line HTTP client with curl's interface: one thread,
blocking sockets, no event loop. What is hard about it is not parallelism inside
the process but state that outlives a request (the kept-alive connection, the
authentication state, the credentials, the output collected so far), against
servers that may answer with anything and close a connection at any moment.
These modules model that state and check what the code does with it.

Paths below are relative to the repository; line numbers are in `PROJECT.json`,
which maps every definition to the lines it stands for.

## The system

| Part | State | Operations | Talks to | Modelled |
|---|---|---|---|---|
| URL and retry loop, `main()` (`src/main.rs`) | URL index, attempt, `retry_prefix`, kept response, `exit_code` | next URL, attempt, sleep, write, stop | calls `perform()`; writes files and standard output | `Transfers` |
| Request loop, `perform()` (`src/request.rs`) | its copy of the options, `current_url`, `redirect_headers`, `redirects` | first request, answers to 401 and 407, probe, redirect, return | calls `execute_request()` in every branch | `Perform` |
| Request execution, `execute_request()` (`src/request.rs`) | attempt, error of the attempt | send, read, retry once, save the connection | `connect()`, the pool, `read_response()` | `ConnPool`, promise in `Exchange` |
| Pool and `connect()` (`src/connection.rs`) | thread-locals `CONN_POOL`, `POOL_REUSED`, `POOL_REUSED_HTTP10`, `CONNECT_RESP` | take, open, fail | `execute_request()` reads the flags and saves the entry | `ConnPool` (except `CONNECT_RESP`) |
| Response reader (`src/response.rs`) | the buffered reader | status line, headers, body by length, chunks or end of file | reads the connection; its flags decide on pooling and retry | `Reader`; as kinds of reply in `ConnPool` |
| CONNECT tunnel (`src/connection.rs`) | the 407 dialogue, `CONNECT_RESP` | CONNECT, Digest and NTLM answers, draining | before the request, inside `connect()` | `Tunnel`, with the call around it in `Dialogue` |
| SOCKS handshake (`src/connection.rs`) | none that lasts | greet, authenticate, ask for the host | before the request, inside `connect()` | `Tunnel` |
| Expect: 100-continue (`src/request.rs`) | headers sent, body held back | wait, send body, retry after 417 | in place of the plain send | `Dialogue` |
| Cookies (`src/cookie.rs`, `src/request.rs`, `src/main.rs`) | `memory_cookies`, `deleted_cookies`, the file | absorb, expire, limit, select for a request | `perform()` and `main()` absorb, `build_request` selects | rules in `Cookies`, state in `Session` |
| HSTS, Alt-Svc (`src/main.rs`) | entries loaded and learned | upgrade or reroute a URL, write back | before and after each `perform()` | `Session` |
| Options, config files (`src/args.rs`, `src/options.rs`) | the option record, snapshots for `--next` | parse | before everything else | start states only |
| URLs and globs (`src/url.rs`), variables (`src/variables.rs`), write-out (`src/format.rs`), netrc (`src/netrc.rs`), NTLM messages (`src/ntlm.rs`), TLS (`src/tls.rs`), body building (`src/request.rs`) | none that lasts | pure functions or set-up | called by the parts above | not modelled |

What makes each part correct, in short: the output of a URL holds what the
options say and the exit code tells the truth (`main`); credentials, bodies and
heads end up where they belong and the loop stops (`perform`); a request goes to
the right server, is not repeated without reason, and its answer is its own (`execute_request`,
pool); both sides agree on where a reply ends (reader, CONNECT, Expect); a cookie
set is a cookie sent, to its own site only (cookies). The hazards behind these,
with the lines where they bite, are listed in `PROJECT.json`.

## The modules

### ConnPool, Exchange, MCConnPool

`ConnPool` has the pool slot, the two thread-local flags (`source` for
`POOL_REUSED`, `version` for `POOL_REUSED_HTTP10`) and one call of
`execute_request` at a time. The step boundaries are the points where the code
blocks, because that is where a server can act:

| Action | Code |
|---|---|
| `Begin` | `perform()` calls `execute_request` |
| `ConnectFromPool`, `ConnectFresh`, `ConnectFails` | `connect()`: key comparison, take, or open |
| `Send`, `SendIntoClosed`, `SendFails`, `SendTimesOut` | writing the request; a write to a closed connection fails or is lost, one to a server that takes nothing times out where there is a write timeout |
| `ReadReply(k)`, `ReadLeftover`, `ReadEnds`, `ReadTimesOut`, `ReadLeftoverRefused` | `read_response` and, after a reply, the decision of `execute_request_inner` to pool the connection (`Finish`) |
| `Rejected` | a 417 on the Expect path: the connection is dropped, and the request sent on a second new one |
| `RetryFresh`, `ReturnError` | the `match` of `execute_request` |
| `ServerClosesIdle`, `ServerClosesTaken` | the environment |

A request is a record of what routing looks at (`ConfigSpace`). A reply is one
of nine kinds that tell apart what the client does with the connection next;
`Http10Response` and `PoolOk` are `http10_response` and `pool_ok`, which a reply
without a body (`"http10kanobody"`) passes with the flag false. `ReadTimed` and
`WriteTimed` say where the code waits with a timeout: reads on TCP until the Expect
path removes it, writes only with `--max-time`, neither on a Unix socket. A connection
records where it ends, whether the server still holds it open and whether bytes
of an earlier reply are unread. `TakeKey` is the key `connect()` computes and
`SaveKey` the one `execute_request_inner` computes: they differ in the code, and
so here. Variables after `outcome` are history that only properties read.

`Exchange` is what the caller may rely on: the request goes to the endpoint its
options designate and nowhere else, at most twice, and once more after a 417 to
one of the jobs in `Expecting`; an answer comes only after that. It promises
nothing about time: `CallsReturn` does. `ImplementsExchange` maps `pc` to its phase
and the send counters to its count.

### Transfers, MCTransfers

The `for` over the URLs and the retry loop in it; one `perform()` is one step
with any reply or error. `AttemptReply` is the `Ok` arm with its three ways out
(`FinalReply`, `ReplyOverBudget`, `ReplyRetried`), `AttemptError` the `Err` arm,
`Sleep` the test and the wait at the top of the loop, `Emit` everything from the
end of the loop to the next URL. Output is a sequence of chunks, a part ("head"
or "body") with the attempt it is from; a file is what the last write left in
it. A status is one of four classes, and a flaw one of the flags of the
response that `--retry-all-errors`, the exit code and `skip_body` look at: a partial
or malformed body, a reply refused after its head, a redirect not followed, a body
up to the end of the connection that timed out or broke.

### Perform, MCPerform

The loop body of `perform()` is a sequence of `if` statements, most with a call
of `execute_request` in them. `pc` is the stage the control has reached;
`Due(s)` says whether the `if` of stage s would be taken, and `At(s)` that the
control gets to s before any other due stage. Every call is a step
(`Answered`, `Fails`) in which the servers give any reply of `Replies`. `Started`
are the options as the command line leaves them, under the names they have in
the model:

| Model | Code |
|---|---|
| `deferAuth`, `emptyProbe`, `noBasic` | `defer_auth`, `auth_probe_empty_upload`, `no_basic` |
| `ntlm`, `ntlmAuth`, `ntlmDone` | `ntlm`, `ntlm_authorization`, `ntlm_done` |
| `digest`, `challenge`, `nc` | `digest_authorization`, `digest_challenge_state`, `digest_nc` |
| `deferProxy`, `proxyNtlm`, `proxyAuth`, `proxyDone` | `defer_proxy_auth`, `proxy_ntlm`, `proxy_authorization` and `proxy_ntlm_authorization`, `proxy_ntlm_done` |
| `chain`, `asked` | `redirect_headers`, `did_proxy_auth_retry` |

A nonce is the number of the reply it came with, a head the number of its reply,
and credentials know the origin they are meant for: that is what lets a
property say that they stayed there.

### Wire, Tunnel, Reader, Dialogue, MCDialogue

`Dialogue` is one call of `execute_request` on connections of its own, seen from
the bytes: how the client finds its way through what comes in. `Wire` has the
state the parts share: `inbox`, the units that arrived and were not read; `tail`,
what follows them (more may come, the end, a reset); whether the socket has a
read timeout (`armed`); and how many header blocks were read. A unit is what the
code takes or leaves as a whole: a header block, a chunk-size line, a piece of
content, the line after a chunk. The peer puts its units there at once when it
has got what it waits for, and the client's reads are steps. A `BufReader`
dropped with bytes in it (`Dropped`) loses any prefix of what is unread, because
how much it had taken depends on how the bytes arrived.

| Module | State | Actions and the code |
|---|---|---|
| `Tunnel` | `reply`, `acc` (`accumulated_connect_headers`), `connectResp` (`CONNECT_RESP`), `pre` (Digest prepared by the caller), `offers` (`connect_offers_ntlm`) | `ConnectFirst`, `DigestRetry`, `NtlmType1`, `NtlmType3` send a CONNECT; `ReadFirst` and its like are `read_connect_response`; `Drain...`, `Drop...` what happens to the 407's body and reader; `Established`, `Refused` the end of the dialogue, with the second `connect()` of `execute_request_inner`; `Socks4`, `Socks5Greet`, `Socks5Auth`, `Socks5Request` are `socks_handshake` |
| `Reader` | `interim`, `head`, `body`, `trailer`, `flags` (the error fields of `Response`), `heads` (`header_bytes`) | `read_response` from the status line to the decoded body: interim responses, HTTP/0.9, the checks of the header block in their order, the three framings (`read_chunked_body` among them); decoded content is `Growth` times as long as coded |
| `Dialogue` | `round` (1, or 2 after a 417), `saved` (`connect_response`), `rejected` (`headers_417`), `out`; history of what the server did | `Connect`, `Tls`, `SendAll`; the 100-continue wait: `SendHeaders`, `WaitContinues`, `WaitAnswered`, `WaitTimesOut`, `WaitUnclear`, `WaitBreaks`; `Reconnect`; `Return` |

### Cookies, Session, MCSession

`Cookies` has the rules as operators, without state: what a `Set-Cookie` header
becomes, the key under which a cookie replaces another, the limits, the jar, the
cookies a request carries. A host is the sequence of its labels from the last to
the first and a path the sequence of its slashes and pieces, so the prefix tests
of the code are `IsPrefix`. `Absorbed` takes the rule by which a cookie in the
clear may not push out a Secure one: the code has three, by first path segment
(`absorb_response_cookies`, `save_cookie_jar`), by name (`perform()`), none
(`main()`).

`UrlSpace` keeps how a URL is written, because `--hsts` looks at its text.
`Session` has what `main()` carries from one URL to the next (`memory`,
`deleted`, `file`, `jar`, `hsts`, `learned`, `alts`) and the copy a call works
on (`mem`). `NextUrl` upgrades the URL by the HSTS entries of the start and
copies the options; `Request` is the cookie part of `build_request`; `Retry` and
`Redirect` are replies that `perform()` goes on from; `Final` is the reply
`main()` gets: caches learned, jar written, cookies taken over; `Fail` a call
that ends in an error; `Tick` lets cookies expire; `Finish` writes the caches.

### The proof modules

Theorems about each part, for every value of its constants: `ConnPoolProofs`,
`TransfersProofs`, `PerformProofs` and `SessionProofs` about the module of the same
name, `DialogueProofs` about `Dialogue` and the parts it is made of. `WireProofs`
(lemmas about units on a stream), `TunnelProofs` and `ReaderProofs` (what every
step of `Tunnel` and of `Reader` keeps) are what `DialogueProofs` stands on.

## The runs

| Run | Shows | Bounds |
|---|---|---|
| `conn_pool_mixed` | `OncePerConnectionKind`, `StaleErrorHidden`, `Http10Pinned`, `CallsReturn` for every route and every reply, with and without `--max-time` | 3 requests, 12 routes, 9 kinds of reply; 66,510 states |
| `conn_pool_routed` | `RightDestination`, `AnswerIsOwn`, `ImplementsExchange`, with one route per origin and bodies read to their end | 3 requests, 5 routes; 6,775 states |
| `transfers_retry` | `WrittenOnceInOrder`, `FileHoldsLastOnly`, `StdoutHasEveryReply`, `AttemptsWithinBudget`, `FailureIsReported`, `Ends` | 2 URLs, 2 retries, steps of 0 or 1 s, Retry-After absent or 4 s, budgets 3 and 5 s, every flaw; 1,051,685 states |
| `dialogue` | `DigestKeepsItsPlace`, `WaitsOnlyForNtlm`, `NamesReachTheProxy`, `CleanIsComplete`, `BodyWithinCap`, `HeadsInOrder`, `MutualWaitOnlyAfterHint`, `BodyOmittedOnlyByAnswer`, `AnswerLostOnlyWith100`, `FullAnswerSuffices`, `CallEnds` | every CONNECT and SOCKS option, both reasons for Expect, every framing with up to 3 pieces of content in chunks of up to 2, cut after every unit and then open, ended or reset, caps 1 and 2, coded content twice as long when decoded, every defect of a header block; 329,894 states |
| `session` | `CookiesStayInTheirDomain`, `PlainNeverOverridesSecure`, `DeletedStaysDeleted`, `RememberedAcrossUrls`, `CachesHold` | 2 or 3 URLs of 5, 1 redirect, 2 cookies per domain in memory and 2 from a file, paths below, beside and without a leading slash, a lifetime of 1 tick, 8 settings of files, jars, Host headers and caches, one of the URLs without a scheme; 1,121,946 states |
| `perform_loop` | `EveryHeadOnce`, `CredentialsStayHome`, `AnyauthAsksFirst`, `BodyArrives`, `NonceCountsGrow`, `Returns` | 2 origins, up to 2 redirects, the option combinations of `MCOptions`; 535,672 states |

Why the bounds are enough: the pool holds one entry and a request depends on the
past only through it and the two flags, so a request that fills the pool, one
that takes from it and one after that meet every situation; two origins, one to
be mistaken for the other, and two redirects, one away and one back, are what
the rules for credentials can tell apart; two retries give a first, a middle and
a last attempt, and the second URL starts from whatever the first left. Three
pieces in chunks of two give a full and a partial chunk, and with a cap of 1 or 2
the limit falls inside the first chunk, at its end and inside the second; a
dialogue has at most four CONNECTs and two rounds, all of which occur. A domain
that may keep two cookies is full with the second, so the third meets the limit;
a cookie set by the first URL can be sent, replaced or deleted in the second and
its absence be seen in the third.

`CHECK_DEADLOCK FALSE` is given because each program run is finite: the last
request, URL or `perform()` is over.

### Findings

Six runs show that a comment says other than the code does. Each checks the
property the comment states, and TLC finds the code's counterexample.

| Run | The comment | What happens |
|---|---|---|
| `find_socks_reuse` | a SOCKS stream is a tunnel to the URL's host | the pool key of a SOCKS request is the proxy, so a request for B goes into the tunnel to A |
| `find_unread_pooled` | a connection whose reader bailed out early is not saved | `pool_ok` does not see a chunked body given up at `--max-filesize`; the next request reads the rest of that reply |
| `find_resend` | the retry is for a connection the server has closed | a read timeout counts as closed: the request is delivered twice |
| `find_retry_duplicate` | `retry_prefix` has the attempts before the final output | when later attempts fail, or the budget ends the loop before the next one, the kept response is written from both |
| `find_basic_unasked` | with `--digest` no Basic before a challenge | after an accepted probe and a redirect Basic is sent unasked |
| `find_body_lost` | after an accepted probe the body is sent | not for `-F` with `--ntlm` |

Where such a divergence would break one of the passing properties, the property
or its run excludes it in so many words: `conn_pool_routed` has no SOCKS proxy
and no `"bailed"` reply, `Http10Pinned` speaks of replies whose body was read,
`BodyArrives` leaves out NTLM, proxies and standard input (which is read once),
`NonceCountsGrow` is
about `--digest` without a proxy (other paths reuse the stored challenge with
the same count, and so does the resend of `execute_request()` on a dead pooled
connection, which `Perform` does not see), `WrittenOnceInOrder` lets the response
kept from `retry_prefix` follow once more, `FailureIsReported` takes a timeout
without `--max-time` and a broken body of unknown length for success,
`DigestKeepsItsPlace` excepts the two bodies the drain leaves, `EveryHeadOnce` leaves out giving up an authentication, and
`CredentialsStayHome` says nothing of an NTLM Type 3 message. The properties of
`dialogue` and `session` name their exceptions the same way; the next list says
where they come from.

### What the other properties exclude

These come from modelling and from reading. The models have them, and a property that would be
false because of one says so in its comment.

* Pool: a kept-alive HTTP/1.0 reply to HEAD, or one of 204 or 304, is returned before
  `http10_response` is set, so its connection is reused with HTTP/1.1, although the
  comment on the field (`src/connection.rs`) says the next request is downgraded
  (`Http10Pinned` speaks of replies whose body was read).
* Probe: when a proxy asks for credentials before the server has seen the empty
  probe of `--digest`, the stage that sends the body is behind and the probe is the
  end of it (`BodyArrives` leaves proxies out).

* Expect: an interim response other than 100, where 100 was expected, is taken for
  the final answer; the body is then never sent while the server waits for it
  (`MutualWaitOnlyAfterHint`). After a 417 to a user's own Expect header, the
  second request holds the body back once more and drops it
  (`BodyOmittedOnlyByAnswer`). The wait removes the read timeout (`CallEnds`
  leaves Expect out). The reader of the wait drops what came with the 100
  (`AnswerLostOnlyWith100`), and what it had read of a status line when its time runs
  out is lost too: the reader finds the rest of that line; a 417 in chunks is read raw, up to the end of the
  connection and without a timeout, so a server that keeps it open is waited for
  for ever (`FullAnswerSuffices` names it, and `--raw`). A final answer in place of the 100 is shown with the
  CONNECT header blocks, `--suppress-connect-headers` or not (`AnsweredEarly`).
* CONNECT: the body of a 407 is drained twice on the NTLM path, which waits for
  the read timeout (`WaitsOnlyForNtlm`: only once a Type 1 or Type 3 message is the
  credential sent, or NTLM was asked for); the line after chunk trailers is left,
  and the next reply read from it has no status, and a body that only the end of the
  connection delimits is not drained and read as the next reply
  (`DigestKeepsItsPlace`); a second
  `connect()` starts without the header blocks of the first (`HeadsInOrder` speaks
  of the connection that answered).
* Reader: a stream that ends inside the header block, breaks in a body without a
  length, or ends among the trailers is not flagged, and such a body is not held to
  `--max-filesize` (`CleanIsComplete` and `BodyWithinCap` are about framed bodies).
  `--max-filesize` is tested before the content is decoded, and trailers are appended
  to the body uncounted: `BodyWithinCap` bounds the content as it was sent.
* SOCKS4 sends the marker address 0.0.0.1 without a name when the host cannot be
  resolved (`NamesReachTheProxy`).
* Cookies: `main()` takes over the cookies of a call's last reply only, although
  comments in `src/args.rs` and `src/request.rs` speak of all; it reads the Host
  header from the last `--next` group and applies it to replies of other hosts
  (`CookiesStayInTheirDomain` asks for runs without one); its rule has no
  protection for Secure cookies (`PlainNeverOverridesSecure` is about the other
  two), and neither of the others has one for a Secure cookie whose Path attribute
  is empty or begins with no slash (`secure_path_overlay` finds no segment in it);
  a domain that is at its limit after any of the headers of a reply, even if a
  later header deletes a cookie again, has dropped what came in between
  (`RememberedAcrossUrls` speaks of the domains that never were); with `-cjar` in one word no cookie is taken over (`engine`).
* HSTS: what a reply teaches does not count before the next start, redirects
  are not upgraded, and neither is a URL whose text does not begin with `http://`
  and a host that ends at a slash or a colon: `example.com` without a scheme is asked
  over http, and so is `http://host?query`, whose query is taken into the host
  (`CachesHold`).
* Exit code: 28 for a body that timed out is given only with `--max-time`, although
  the comment on `timed_out` (`src/response.rs`) knows no such condition: without,
  half a body of unknown length ends with 0 (`FailureIsReported`). `skip_body` leaves the body of a redirect not followed unwritten
  (`SkipsBody`), so `FileHoldsLastOnly` and `StdoutHasEveryReply` leave such a body out.

## Fairness

`ConnPool`, `Transfers`, `Perform` and `Dialogue` have weak fairness of the
client's steps, which is one thread that never yields, so an enabled step of it is
eventually taken. A blocking call is a step that is enabled only when the peer has
done its part or a timeout is armed. `connect()` arms one for reads on a TCP
connection, `--max-time` or 60 seconds; one for writes only with `--max-time`; none
on a Unix socket; and the Expect path removes the one for reads.

* `ConnPool` has this in `ReadTimed` and `WriteTimed`. Weak fairness is of the steps
  that need nothing of the server (`Unaided`). A reply is read in one step, which
  assumes that a reply that begins also ends. So `CallsReturn` says that a call returns or stays for ever in a wait without a
  timeout (`Blocked`), and not more: for a plain request over TCP with `--max-time`
  nothing is `Blocked`, and a server that takes no bytes can hold any other.
* In `Dialogue` the read timeout is state (`armed`): a read on a silent stream has a
  step only while it is true, and `CallEnds` speaks of the calls in which it stays
  so. Where it does not, `FullAnswerSuffices` says that a server that has answered in
  full is not waited for. Writes do not block there: of a server that takes no
  bytes `Dialogue` says nothing.
* `Transfers` assumes that `perform()` returns, which `Perform` checks (`Returns`),
  assuming in turn that `execute_request()` does; `CallsReturn` and `CallEnds` say
  when that is so.

`Exchange` and `Session` have safety properties only and no fairness.

## What is proved

Every invariant that a passing run checks, but for `FullAnswerSuffices`, is proved
for all values of the constants, and so are the action properties `NonceCountsGrow`
and `PlainNeverOverridesSecure`, and `PooledClean`, on which `AnswerIsOwn` rests;
where the run itself excludes something (`conn_pool_routed`), under a condition that
says so.

`ConnPoolProofs`, for any sets of origins, proxies, options and replies and any
number of requests:

* `TypeCorrect`, `NoSecondFreshSend`, `DeadPoolNeverReported`: the invariants
  `TypeOK`, `OncePerConnectionKind` and `StaleErrorHidden`. Neither of the last two
  is inductive: that no further fresh send can happen depends on which attempt
  sent what, and on whether a 417 has come. `RetryInv` adds `HoldsConn` (an attempt that sends or reads holds a
  connection, of the right type) and `SendsByAttempt` (which of the two counters
  may be non-zero in which attempt and at which `pc`).
* `ReuseKeepsDestination`: under `RoutedByOrigin` (each origin has one route, no
  SOCKS proxy, no `--connect-to` for an origin behind a proxy) a request goes
  only where its options say. The invariant adds `PoolRoutes`: a pooled
  connection ends where every request that its key matches wants to go. The
  heart of it is the lemma `KeyDeterminesDestination`, that the key saved by one
  function and the key compared by the other agree on the endpoint; without
  `RoutedByOrigin` it is false, as `find_socks_reuse` shows.
* `DowngradeFollowsConnection` (`Http10Pinned`): the flag says of the connection in
  hand what the pool entry said of it, and the entry what `http10_response` said of
  the last reply on it.
* `OnlyCleanPooled` and `RepliesMatchRequests` (`PooledClean`, `AnswerIsOwn`), when
  no reply is of kind `"bailed"`: the connection in hand is clean until a reply of
  another kind is read, and those are not saved.
* `PoolImplementsExchange`: with both conditions every step is a step of
  `Exchange` or a stutter, which `conn_pool_routed` checks too.

`TransfersProofs`, for any number of URLs, retries and seconds: `TransfersInv`
says how the output that is still to be written relates to the replies received:
`PrefixInv` (the prefix is in order and of attempts before the present one, or none
after the response kept if that was added to it),
`RepliesInv` (standard output misses at most the body of the response kept),
`RewoundInv` (the prefix is empty when a rewindable file gets a good last reply),
`OutputInv` (nothing is written yet for the URL in the loop or for later ones).
From it follow `WrittenOnceInOrder`, `FileHoldsLastOnly`, `StdoutHasEveryReply`,
`AttemptsWithinBudget` and `FailureIsReported`.

`PerformProofs`, for any origins, replies and number of redirects:

* `PerformTypeCorrect`, `CredentialsAreKept`, `AnyauthIsPatient`,
  `NoHeadLostOrRepeated`. What a request carries follows from the options it is
  built from, so the invariant is about them: `Fit` has `Home` (without
  `--location-trusted` all credentials in the options are for the current origin),
  `Clean` (away from the first origin the custom lines are gone) and `Sure`
  (`--anyauth` is asking, has turned to NTLM, holds a Digest answer, or has been
  offered Basic at this redirect). One lemma says that a request from fit options
  keeps the promises, one per change of the options that they stay fit; `Portable`
  is what a redirect must leave of them for the target. `Kept` says which header
  blocks `redirect_headers` has.
* `BodiesAreSent`: the invariant `Awaited` says that when the last request had no
  body, stage `probe` is still ahead and its condition holds, so the loop cannot
  reach its end with a 200. It needs that no proxy is used: the stage of the 407
  comes after the probe's.
* `CountsGrow` (`NonceCountsGrow`): a call that only knows Digest goes `Straight`
  down the stages of the server's challenges. `Counting` says that no nonce sent is
  from a reply still to come, that the count kept with the stored challenge is above
  all that went out with it (`Counts`), and that the nonce of the challenge in hand
  was neither sent nor stored (`Unused`). Since the challenge is asked for only
  while none is stored, the counts 1 of a one-shot header and 2 of the challenge it
  leaves behind are always the first for their nonce.

`DialogueProofs`, for any options, proxy replies and answers, with bodies of any
length and any number of interim responses. The client's steps come from three modules,
so the invariants do too, and each is shown to survive the steps of the other two:

* `TunnelHolds`: `TunnelInv` says for each place of the CONNECT and SOCKS dialogue
  what is unread (`Unread`: between replies nothing, at a verdict only the plain
  units of a body), which header blocks `acc` has (`Kept`), how many CONNECTs went
  out (`Asked`), when a drain can have waited (`Waits`) and which name was told
  (`Routed`). `DigestReplyInPlace`, `DrainsWaitOnlyForNtlm` and
  `UnknownNamesReachTheProxy` follow.
* `StreamHolds`: what is left to read is a beginning of what the server meant to
  send, and what has been read is what came before it (`ReaderInv`; `AtChunk` is the
  loop invariant of `read_chunked_body`), and before the reader starts only the
  server's answer is a final header block on the stream (`OnStream`). With
  `PlacedHolds` (which place can have which purpose, error and body sent) it gives
  `CleanMeansComplete` and `BodyStaysWithinCap`: for any length and any cap, not
  only the three pieces and caps 1 and 2 of the run.
* `LeadsHold`: in the Expect dialogue, what lies on the stream when the first answer
  is judged (`Judged`), whether the timer runs (`Timed`), what is owed when the
  status line is read (`Owed`), why a body can still be unsent (`Omitted`), and
  that the head of a complete answer is on the stream unless it came with the 100
  (`Arrives`). `MutualWaitsAfterHints`, `BodyOmittedByAnswer` and
  `AnswersLostWith100` follow. They are not inductive: whether client and server
  wait for each other is decided at `"wait"` and shows at `"status"`.
* `ShelvedHolds`: `connect_response`, `headers_417` and `header_bytes` share the
  blocks heard without overlap and in order (`Shelved`), also across the second
  connection after a 417; hence `HeadsShownInOrder`.
* `TypedHolds` and `DialogueTypesHold`.

`SessionProofs`, for any options, URLs, replies, limits and lists of cookies:

* The first part is about the functions that take in a list item by item
  (`Retained`, `Absorbed`, `Stored`). The induction theorems of the library cannot
  be used, so induction is stated for sets: `StepByStep` (a set of naturals with 0
  and, after each member, the next one), proved from a least counterexample
  (`LeastOf`). `AbsorbedSteps` then says what each header does, `LastWord` that after
  a reply the last header for a key has decided, `TakenUnlessFull` that it is only
  refused for a domain at its limit, `StoredKeeps` what the jar retains.
* `SessionTyped`, `SessionTypesHold`: no list has two cookies of one key or more than
  the limit of a domain. The invariant `Typed` needs the types of paths and domains
  (`PathOfIsPath`, `ClaimedFacts`).
* `CookiesStayInTheirDomainHolds`: `InDomain`, every cookie in memory, file, jar and
  call was set by a host that its domain covers; that it is sent to none other is
  the lemma `FitsInDomain`.
* `DeletedStaysDeletedHolds`, `RememberedAcrossUrlsHolds`: `Kept` relates the two
  histories to the lists. `Answering` (what was sent is what the lists gave),
  `Fresh` (the first request of a call has main()'s memory), `Forgotten` (what is
  gone is in `deleted` and not in memory) and `Remembered` (what is owed is in
  memory, or its domain has been at the limit).
* `CachesHoldAlways`: `Caches`, by a case on what a final reply teaches.
* `PlainNeverOverridesSecureHolds`: an action property; `AbsorbedSparesSecure` follows
  a Secure cookie through the headers of a plain reply under both rules, and
  `FileKept` ties `file` to the options where the jar is another file.

Two of these proofs changed the model. `RememberedAcrossUrls` did not hold for
replies that fill a domain and empty it again, since `full` looked only at the end
of a reply; it now records every prefix. And `Overlays` called a path without a
leading slash an overlay, where `secure_path_overlay` returns false; this showed as a
step of `PlainNeverOverridesSecure` that could not be proved, and the property now
says which cookies the code does not protect.

The assumptions are those the modules state and TLC evaluates in every run:
`ConnPoolAssumption`, `TransfersAssumption`, `PerformAssumption`, `CookiesAssumption`
(the limits are positive), `SessionAssumption` (a reply is a redirect if and only if
it has a URL to go to) and those of `Tunnel` and `Reader` say what the constants
range over; `OwnerAssumption` says what "the origin credentials are for" means at the
start (`-u` and a bearer token: the URL's; userinfo: its own URL's).

Model-checked only: liveness (`CallsReturn`, `Ends`, `Returns`, `CallEnds`), which is
out of the prover's reach, and `FullAnswerSuffices`, whose proof would need a lemma
about the lengths of the units of a chunked body. The runs
of the findings show a counterexample and prove nothing.

## Not modelled

* Bytes: parsing and formatting of messages, encodings, hashes, the layout of
  multipart bodies. The models start from what a message says.
* TLS: an external library, and https connections are never pooled.
* The referer and the choice of a proxy from the environment in `perform()`: they
  do not influence the branches that `Perform` has.
* `Perform` and `Session` are not composed: the branches of `perform()` do not look
  at cookies, and where a cookie goes depends on redirects and retries only, which
  `Session` has.
* Cookies: dates, quoting, files in header format, the order and length of the
  Cookie header, `-b name=value` (sent to every host).
* `%{http_connect}`: `CONNECT_RESP` is kept in `Tunnel` as far as one call.
* In `main()`: resume, conditional requests, ETag files, `--dump-header`,
  `--write-out`, expiry of HSTS entries, the route an Alt-Svc entry gives a request.
* Parsing of options, config files, URLs and globs, variables, netrc: pure functions
  over text whose results are where the models start.

## Plan

1. An abstract specification of `Session`, a store with one value for each key that
   a reply sets or deletes, and a proof that `Session` implements it for domains
   below the limit; one of `Dialogue`, a call that delivers the answer or says why
   not.
2. `Transfers`: per-URL options of `--next`, resume and ETag files, with the proofs
   extended to them.
3. A property for NTLM across connections and one for what giving up an
   authentication should show, the two hazards without one that `Perform` already
   has the state for, and their proofs.
