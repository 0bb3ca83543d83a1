----------------------------- MODULE Transfers -----------------------------
(***************************************************************************)
(* The URL loop of main() in src/main.rs: each URL is performed, retried   *)
(* under --retry, and its output is written; --fail-early and a fatal      *)
(* protocol error end the loop.  perform() is one step with any result.    *)
(***************************************************************************)
EXTENDS Naturals, Sequences, SequencesExt

CONSTANTS
  None,         \* no response yet, no budget, no Retry-After
  Urls,         \* the number of URLs on the command line
  OptionSets,   \* the option combinations to consider
  Statuses,     \* the statuses the servers answer with
  Flaws,        \* what may be wrong with a reply
  Errors,       \* the errors perform() may return
  Durations,    \* how many seconds a perform(), or the loop itself, may take
  RetryAfters   \* the Retry-After values of a reply, or None

(* The options the loop looks at: --retry, --retry-all-errors,             *)
(* --retry-max-time, --fail ("drop") or --fail-with-body ("keep"),         *)
(* --fail-early, --include, --max-time, and where the output goes.         *)
OptionSpace ==
  [retry     : Nat,
   allErrors : BOOLEAN,
   budget    : Nat \union {None},
   fail      : {"no", "drop", "keep"},
   failEarly : BOOLEAN,
   include   : BOOLEAN,
   maxTime   : BOOLEAN,
   dest      : {"stdout", "file"}]

(* "ok" is below 400, "gone" another 4xx, "busy" a 5xx or 429, "interim" a *)
(* status 0: only a 1xx was read.  The flaws are flags of the Response:    *)
(*   partial    partial_file: the framing shows that the body was cut off  *)
(*   malformed  recv_error: a bad chunk                                    *)
(*   weird      weird_server_reply: refused after its head                 *)
(*   redirect   a redirect not followed: too many, blocked or malformed    *)
(*   timeout    timed_out: a body up to the end of the connection, during  *)
(*              which the read timed out                                   *)
(*   broken     such a body that ended with another read error: no flag    *)
AllFlaws == {"none", "partial", "malformed", "weird", "redirect", "timeout",
             "broken"}

Replies ==
  {r \in [status : Statuses, flaw : Flaws, retryAfter : RetryAfters] :
     r.status = "interim" => r.flaw = "none"}

ASSUME TransfersAssumption ==
  /\ Urls \in Nat \ {0}
  /\ OptionSets \subseteq OptionSpace
  /\ Statuses \subseteq {"ok", "gone", "busy", "interim"}
  /\ Flaws \subseteq AllFlaws
  /\ Errors \subseteq {"unsupported", "connect"}
  /\ Durations \subseteq Nat
  /\ RetryAfters \subseteq Nat \union {None}
  /\ None \notin Nat \union [attempt : Nat, reply : Replies]

VARIABLES
  opts,      \* the options, fixed when the program starts
  pc,        \* "next", "attempt", "sleep", "emit" or "done"
  url,       \* url_idx, counted from 1; 0 before the loop
  attempt,   \* the loop variable of the retry loop
  elapsed,   \* seconds since retry_start; kept only under a budget
  delay,     \* next_delay_secs
  resp,      \* the response kept, with the attempt that got it, or None
  lastErr,   \* last_err
  prefix,    \* retry_prefix
  exitCode,  \* exit_code
  output,    \* output[u]: what was written for URL u
  got        \* history: the attempts of the current URL that got a reply

vars == <<opts, pc, url, attempt, elapsed, delay, resp, lastErr, prefix,
          exitCode, output, got>>

(* Output is a sequence of chunks: a part of the reply to one attempt.     *)
Chunk(part, n) == [part |-> part, attempt |-> n]

Init ==
  /\ opts \in OptionSets
  /\ pc = "next"
  /\ url = 0
  /\ attempt = 0
  /\ elapsed = 0
  /\ delay = 0
  /\ resp = None
  /\ lastErr = "none"
  /\ prefix = <<>>
  /\ exitCode = 0
  /\ output = [u \in 1..Urls |-> <<>>]
  /\ got = {}

----------------------------------------------------------------------------
NextUrl ==
  /\ pc = "next"
  /\ url < Urls
  /\ url' = url + 1
  /\ attempt' = 0
  /\ elapsed' = 0
  /\ delay' = 0
  /\ resp' = None
  /\ lastErr' = "none"
  /\ prefix' = <<>>
  /\ exitCode' = 0
  /\ got' = {}
  /\ pc' = "attempt"
  /\ UNCHANGED <<opts, output>>

IsHttpError(r) == r.status \in {"gone", "busy"}

(* Worth another attempt, with --retry-all-errors also when flawed.        *)
IsTransient(r) ==
  \/ r.status = "busy"
  \/ /\ opts.allErrors
     /\ r.flaw \in {"partial", "malformed", "weird", "timeout"}

\* Mutant of Retryable: the bound of --retry is forgotten.
RetryableUnbounded(r) == IsTransient(r)

Retryable(r) == attempt < opts.retry /\ IsTransient(r)

Backoff == (attempt + 1) * 2

ProposedDelay(r) == IF r.retryAfter = None THEN Backoff ELSE r.retryAfter

\* Mutant of OverBudget: the coming wait is not counted.
OverBudgetNow(now, wait) == opts.budget # None /\ now > opts.budget

OverBudget(now, wait) == opts.budget # None /\ now + wait > opts.budget

Clock(t, d) == IF opts.budget = None THEN t ELSE t + d

(* What one attempt adds to retry_prefix.                                  *)
Accumulated(r) ==
  (IF opts.include THEN <<Chunk("head", attempt)>> ELSE <<>>)
    \o (IF IsHttpError(r) /\ opts.fail = "drop" THEN <<>>
        ELSE <<Chunk("body", attempt)>>)

Kept(r) == [attempt |-> attempt, reply |-> r]

\* Mutants of FinalReply: retry_prefix is never dropped; it is dropped for any
\* destination.
FinalReplyKeeps(r) ==
  /\ ~Retryable(r)
  /\ resp' = Kept(r)
  /\ pc' = "emit"
  /\ UNCHANGED <<attempt, delay, prefix>>

FinalReplyDrops(r) ==
  /\ ~Retryable(r)
  /\ resp' = Kept(r)
  /\ prefix' = IF opts.fail = "no" /\ ~IsHttpError(r) THEN <<>> ELSE prefix
  /\ pc' = "emit"
  /\ UNCHANGED <<attempt, delay>>

(* perform() returned a response that is not retried: the loop ends.  The  *)
(* failed attempts' output goes when the destination can be rewound.       *)
FinalReply(r) ==
  /\ ~Retryable(r)
  /\ resp' = Kept(r)
  /\ prefix' = IF opts.fail = "no" /\ ~IsHttpError(r) /\ opts.dest = "file"
               THEN <<>> ELSE prefix
  /\ pc' = "emit"
  /\ UNCHANGED <<attempt, delay>>

(* The delay would pass --retry-max-time: the response stands alone.       *)
ReplyOverBudget(r, now) ==
  /\ Retryable(r)
  /\ OverBudget(now, ProposedDelay(r))
  /\ resp' = Kept(r)
  /\ pc' = "emit"
  /\ UNCHANGED <<attempt, delay, prefix>>

ReplyRetried(r, now) ==
  /\ Retryable(r)
  /\ ~OverBudget(now, ProposedDelay(r))
  /\ resp' = Kept(r)
  /\ prefix' = prefix \o Accumulated(r)
  /\ delay' = ProposedDelay(r)
  /\ attempt' = attempt + 1
  /\ pc' = "sleep"

AttemptReply ==
  /\ pc = "attempt"
  /\ \E r \in Replies, d \in Durations :
       LET now == Clock(elapsed, d) IN
       /\ elapsed' = now
       /\ \/ FinalReply(r)
          \/ ReplyOverBudget(r, now)
          \/ ReplyRetried(r, now)
  /\ got' = got \union {attempt}
  /\ UNCHANGED <<opts, url, lastErr, exitCode, output>>

\* Mutant of AttemptError: an attempt that failed is not counted.
AttemptErrorUncounted ==
  /\ pc = "attempt"
  /\ \E e \in Errors : lastErr' = e
  /\ delay' = Backoff
  /\ pc' = IF attempt = opts.retry THEN "emit" ELSE "sleep"
  /\ UNCHANGED <<opts, url, attempt, elapsed, resp, prefix, exitCode, output,
                 got>>

(* perform() returned an error; any error is retried.                      *)
AttemptError ==
  /\ pc = "attempt"
  /\ \E e \in Errors, d \in Durations :
       /\ lastErr' = e
       /\ elapsed' = Clock(elapsed, d)
  /\ delay' = Backoff
  /\ \/ /\ attempt = opts.retry
        /\ pc' = "emit"
        /\ UNCHANGED attempt
     \/ /\ attempt < opts.retry
        /\ attempt' = attempt + 1
        /\ pc' = "sleep"
  /\ UNCHANGED <<opts, url, resp, prefix, exitCode, output, got>>

(* The top of the loop for the next attempt.                               *)
Sleep ==
  /\ pc = "sleep"
  /\ \E d \in Durations :
       LET now == Clock(elapsed, d) IN
       \/ /\ OverBudget(now, delay)
          /\ elapsed' = now
          /\ pc' = "emit"
       \/ /\ ~OverBudget(now, delay)
          /\ elapsed' = Clock(now, delay)
          /\ pc' = "attempt"
  /\ UNCHANGED <<opts, url, attempt, delay, resp, lastErr, prefix, exitCode,
                 output, got>>

----------------------------------------------------------------------------
(* The exit codes of the flaws; 47 stands for the 1 and the 3 of a redirect *)
(* that was blocked or malformed too.                                      *)
FlawExit(f) ==
  CASE f = "partial"               -> 18
    [] f = "malformed"             -> 56
    [] f = "weird"                 -> 8
    [] f = "redirect"              -> 47
    [] f = "timeout" /\ opts.maxTime -> 28
    [] OTHER                       -> 0

\* Mutant of ReplyExit: a flawed reply is a success.
ReplyExitFlawless(r) ==
  IF IsHttpError(r) /\ opts.fail # "no" THEN 22
  ELSE IF r.status = "interim" THEN 52
  ELSE 0

ReplyExit(r) ==
  IF IsHttpError(r) /\ opts.fail # "no" THEN 22
  ELSE IF r.status = "interim" THEN 52
  ELSE FlawExit(r.flaw)

ErrorExit(e) == IF e = "unsupported" THEN 1 ELSE 7

(* skip_body: the body is not written after --fail, a reply refused after  *)
(* its head, or a redirect that was not followed.                          *)
SkipsBody(r) ==
  \/ IsHttpError(r) /\ opts.fail = "drop"
  \/ r.flaw \in {"weird", "redirect"}

\* Mutant of Written: the last head is written before retry_prefix.
WrittenHeadFirst(k) ==
  (IF opts.include THEN <<Chunk("head", k.attempt)>> ELSE <<>>)
    \o prefix \o <<Chunk("body", k.attempt)>>

(* What is written for a response.  A file without --include gets only the *)
(* last body; every other destination gets retry_prefix first.             *)
Written(k) ==
  LET head == IF opts.include THEN <<Chunk("head", k.attempt)>> ELSE <<>>
      body == IF SkipsBody(k.reply) THEN <<>> ELSE <<Chunk("body", k.attempt)>>
      kept == IF opts.dest = "file" /\ ~opts.include THEN <<>> ELSE prefix
  IN  kept \o head \o body

\* Mutant of LoopEnds: --fail-early is forgotten.
LoopEndsLate(code) == url = Urls

(* The end of the loop body: --fail-early, then a fatal protocol error on  *)
(* the first URL.                                                          *)
LoopEnds(code) ==
  \/ opts.failEarly /\ code # 0
  \/ url = 1 /\ code = 1 /\ resp = None /\ lastErr = "unsupported"
  \/ url = Urls

Emit ==
  /\ pc = "emit"
  /\ LET code == IF resp # None THEN ReplyExit(resp.reply)
                 ELSE ErrorExit(lastErr) IN
       /\ exitCode' = code
       /\ pc' = IF LoopEnds(code) THEN "done" ELSE "next"
  /\ output' = IF resp # None THEN [output EXCEPT ![url] = Written(resp)]
               ELSE output
  /\ UNCHANGED <<opts, url, attempt, elapsed, delay, resp, lastErr, prefix,
                 got>>

Next ==
  \/ NextUrl
  \/ AttemptReply
  \/ AttemptError
  \/ Sleep
  \/ Emit

(* The loop is sequential code and perform() returns.                      *)
Spec == Init /\ [][Next]_vars /\ WF_vars(Next)
----------------------------------------------------------------------------
(* Properties. *)

Emitted == pc \in {"next", "done"} /\ url > 0

AttemptsIn(chunks, parts) ==
  {chunks[i].attempt : i \in {j \in DOMAIN chunks : chunks[j].part \in parts}}

TypeOK ==
  /\ opts \in OptionSets
  /\ pc \in {"next", "attempt", "sleep", "emit", "done"}
  /\ url \in 0..Urls
  /\ attempt \in 0..opts.retry
  /\ elapsed \in Nat
  /\ delay \in Nat
  /\ resp \in [attempt : 0..opts.retry, reply : Replies] \union {None}
  /\ lastErr \in Errors \union {"none"}
  /\ \A i \in DOMAIN prefix :
       prefix[i] \in [part : {"head", "body"}, attempt : 0..opts.retry]
  /\ exitCode \in {0, 1, 7, 8, 18, 22, 28, 47, 52, 56}
  /\ got \subseteq 0..opts.retry

(* The retry loop was left with a response that it had already added to    *)
(* retry_prefix: by the budget test before a sleep, or by attempts after   *)
(* it that got no reply.                                                   *)
KeptFromPrefix == resp # None /\ resp.attempt # attempt

Precedes(c, d) ==
  \/ c.attempt < d.attempt
  \/ c.attempt = d.attempt /\ c.part = "head" /\ d.part = "body"

(* What is written for a URL holds each part of each reply once, in the    *)
(* order received: retry_prefix and the final response neither overlap nor *)
(* cross.  The one exception is a response the loop had already added to   *)
(* retry_prefix when it was left: its parts follow once more at the end    *)
(* (see NothingWrittenTwice).                                              *)
WrittenOnceInOrder ==
  Emitted /\ resp # None =>
    LET out == output[url] IN
    \A i, j \in DOMAIN out :
      i < j => \/ Precedes(out[i], out[j])
               \/ /\ KeptFromPrefix
                  /\ out[i].attempt <= resp.attempt
                  /\ out[j].attempt = resp.attempt

(* A file that a successful last attempt was written to, without --fail,   *)
(* holds its body, unless that is not to be written, and nothing of the    *)
(* failed attempts before it (tests 197 and 198).                          *)
FileHoldsLastOnly ==
  /\ Emitted
  /\ opts.dest = "file"
  /\ opts.fail = "no"
  /\ resp # None
  /\ ~IsHttpError(resp.reply)
  /\ ~KeptFromPrefix
  /\ opts.budget = None
  => /\ AttemptsIn(output[url], {"head", "body"}) \subseteq {attempt}
     /\ ~SkipsBody(resp.reply) => AttemptsIn(output[url], {"body"}) = {attempt}

(* Standard output cannot be rewound: it has every reply of every attempt, *)
(* whatever made the retry loop end (test 197), but for the last one when  *)
(* its body is not to be written.                                          *)
StdoutHasEveryReply ==
  Emitted /\ opts.dest = "stdout" /\ opts.fail # "drop" =>
    LET written == AttemptsIn(output[url], {"body"}) IN
    /\ written \subseteq got
    /\ \A a \in got \ written : resp.attempt = a /\ SkipsBody(resp.reply)

(* --retry-max-time: no attempt after the first starts past the budget.    *)
AttemptsWithinBudget ==
  pc = "attempt" /\ attempt > 0 /\ opts.budget # None => elapsed <= opts.budget

(* A reply that is no failure for the exit code: --fail does not reject    *)
(* it, it is no mere 1xx, and nothing shows that it is not whole.  A body  *)
(* up to the end of the connection passes as whole after a read error, and *)
(* without --max-time after a read timeout too.                            *)
Acceptable(r) ==
  /\ r.status # "interim"
  /\ IsHttpError(r) => opts.fail = "no"
  /\ \/ r.flaw \in {"none", "broken"}
     \/ r.flaw = "timeout" /\ ~opts.maxTime

(* The process exit code: 0 only when the last URL tried got a reply and   *)
(* the one kept is acceptable; a URL that never got a reply is never       *)
(* reported as success, and --fail-early leaves no later URL tried.        *)
FailureIsReported ==
  Emitted => /\ exitCode = 0 => got # {} /\ Acceptable(resp.reply)
             /\ exitCode # 0 /\ opts.failEarly => pc = "done"
             /\ pc = "done" /\ url < Urls =>
                  exitCode # 0 /\ \A u \in url+1..Urls : output[u] = <<>>

(* The loop ends: the attempts of each URL are bounded by --retry.         *)
Ends == <>(pc = "done")

(* What a comment of the code says, and the code does not do (see the      *)
(* findings).                                                              *)

(* The comment on retry_prefix: it holds the attempts before the final     *)
(* output, so nothing is written twice.                                    *)
NothingWrittenTwice == Emitted => IsInjective(output[url])
=============================================================================
