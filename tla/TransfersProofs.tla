-------------------------- MODULE TransfersProofs --------------------------
(***************************************************************************)
(* Theorems about Transfers, for any number of URLs, any bound on the      *)
(* retries, any budget and any delays: the invariants of the run, from one *)
(* inductive invariant.                                                    *)
(***************************************************************************)
EXTENDS Transfers, SequenceTheorems, TLAPS

Chunks == [part : {"head", "body"}, attempt : Nat]

----------------------------------------------------------------------------
(* Sequences of chunks, and what appending the output of an attempt does.  *)

InOrder(s) ==
  \A i, j \in DOMAIN s :
    i < j => Precedes(s[i], s[j])

AllBefore(s, n) == \A i \in DOMAIN s : s[i].attempt < n
AllOf(s, n) == \A i \in DOMAIN s : s[i].attempt = n

(* The attempts found in two outputs, one after the other.                 *)
LEMMA AttemptsInConcat ==
  ASSUME NEW s \in Seq(Chunks), NEW t \in Seq(Chunks), NEW parts
  PROVE  AttemptsIn(s \o t, parts) = AttemptsIn(s, parts) \union AttemptsIn(t, parts)
<1> DEFINE st == s \o t
<1>1. /\ Len(s) \in Nat /\ DOMAIN s = 1..Len(s)
      /\ Len(t) \in Nat /\ DOMAIN t = 1..Len(t)
  BY LenProperties
<1>2. /\ DOMAIN st = 1..(Len(s) + Len(t))
      /\ \A i \in 1..(Len(s) + Len(t)) :
           st[i] = IF i <= Len(s) THEN s[i] ELSE t[i - Len(s)]
  BY ConcatProperties, LenProperties
<1>3. \A i \in DOMAIN s : i \in DOMAIN st /\ st[i] = s[i]
  BY <1>1, <1>2
<1>4. \A i \in DOMAIN t : Len(s) + i \in DOMAIN st /\ st[Len(s) + i] = t[i]
  BY <1>1, <1>2
<1>5. \A i \in DOMAIN st : \/ i \in DOMAIN s /\ st[i] = s[i]
                           \/ i - Len(s) \in DOMAIN t /\ st[i] = t[i - Len(s)]
  BY <1>1, <1>2
<1> HIDE DEF st
<1>6. AttemptsIn(st, parts) \subseteq AttemptsIn(s, parts) \union AttemptsIn(t, parts)
  BY <1>5 DEF AttemptsIn
<1>7. AttemptsIn(s, parts) \subseteq AttemptsIn(st, parts)
  BY <1>3 DEF AttemptsIn
<1>8. AttemptsIn(t, parts) \subseteq AttemptsIn(st, parts)
  BY <1>4 DEF AttemptsIn
<1> QED
  BY <1>6, <1>7, <1>8 DEF st

(* The output of attempt n goes after that of earlier attempts.            *)
LEMMA OrderExtends ==
  ASSUME NEW s \in Seq(Chunks), NEW t \in Seq(Chunks), NEW n \in Nat,
         InOrder(s), AllBefore(s, n), InOrder(t), AllOf(t, n)
  PROVE  InOrder(s \o t) /\ AllBefore(s \o t, n + 1)
<1> DEFINE st == s \o t
<1>1. /\ Len(s) \in Nat /\ DOMAIN s = 1..Len(s)
      /\ Len(t) \in Nat /\ DOMAIN t = 1..Len(t)
  BY LenProperties
<1>2. /\ DOMAIN st = 1..(Len(s) + Len(t))
      /\ \A i \in 1..(Len(s) + Len(t)) :
           st[i] = IF i <= Len(s) THEN s[i] ELSE t[i - Len(s)]
  BY ConcatProperties, LenProperties
<1>3. \A i \in DOMAIN s : s[i].attempt \in Nat
  <2>1. \A i \in DOMAIN s : s[i] \in Chunks
    BY <1>1, ElementOfSeq
  <2> QED
    BY <2>1 DEF Chunks
<1>4. \A i \in DOMAIN st :
        \/ i \in DOMAIN s /\ st[i] = s[i] /\ st[i].attempt < n
        \/ i > Len(s) /\ i - Len(s) \in DOMAIN t /\ st[i] = t[i - Len(s)]
           /\ st[i].attempt = n
  BY <1>1, <1>2 DEF AllBefore, AllOf
<1>5. AllBefore(st, n + 1)
  BY <1>1, <1>3, <1>4 DEF AllBefore
<1>6. ASSUME NEW i \in DOMAIN st, NEW j \in DOMAIN st, i < j
      PROVE  Precedes(st[i], st[j])
  <2>1. i \in Nat /\ j \in Nat
    BY <1>1, <1>2
  <2>2. CASE i \in DOMAIN s /\ st[i] = s[i] /\ j \in DOMAIN s /\ st[j] = s[j]
    BY <1>6, <2>2 DEF InOrder
  <2>3. CASE st[i].attempt < n /\ st[j].attempt = n
    BY <2>3 DEF Precedes
  <2>4. CASE /\ i > Len(s) /\ i - Len(s) \in DOMAIN t /\ st[i] = t[i - Len(s)]
             /\ j > Len(s) /\ j - Len(s) \in DOMAIN t /\ st[j] = t[j - Len(s)]
    <3>1. i - Len(s) < j - Len(s)
      BY <1>1, <1>6, <2>1
    <3> QED
      BY <2>4, <3>1 DEF InOrder
  <2>5. ~(i > Len(s) /\ j \in DOMAIN s)
    BY <1>1, <1>6, <2>1
  <2> QED
    BY <1>4, <2>2, <2>3, <2>4, <2>5
<1>7. InOrder(st)
  BY <1>6 DEF InOrder
<1> QED
  BY <1>5, <1>7

(* Parts of attempt n that s may have already: in order, or once more.     *)
LEMMA OrderRepeats ==
  ASSUME NEW s \in Seq(Chunks), NEW t \in Seq(Chunks), NEW n \in Nat,
         InOrder(s), AllBefore(s, n + 1), InOrder(t), AllOf(t, n)
  PROVE  LET st == s \o t IN
         \A i, j \in DOMAIN st :
           i < j => \/ Precedes(st[i], st[j])
                    \/ st[i].attempt <= n /\ st[j].attempt = n
<1> DEFINE st == s \o t
<1>1. /\ Len(s) \in Nat /\ DOMAIN s = 1..Len(s)
      /\ Len(t) \in Nat /\ DOMAIN t = 1..Len(t)
  BY LenProperties
<1>2. /\ DOMAIN st = 1..(Len(s) + Len(t))
      /\ \A i \in 1..(Len(s) + Len(t)) :
           st[i] = IF i <= Len(s) THEN s[i] ELSE t[i - Len(s)]
  BY ConcatProperties, LenProperties
<1>3. \A i \in DOMAIN s : s[i].attempt \in Nat
  <2>1. \A i \in DOMAIN s : s[i] \in Chunks
    BY <1>1, ElementOfSeq
  <2> QED
    BY <2>1 DEF Chunks
<1>4. \A i \in DOMAIN st :
        \/ i \in DOMAIN s /\ st[i] = s[i] /\ st[i].attempt <= n
        \/ i > Len(s) /\ i - Len(s) \in DOMAIN t /\ st[i] = t[i - Len(s)]
           /\ st[i].attempt = n
  BY <1>1, <1>2, <1>3 DEF AllBefore, AllOf
<1>5. ASSUME NEW i \in DOMAIN st, NEW j \in DOMAIN st, i < j
      PROVE  \/ Precedes(st[i], st[j])
             \/ st[i].attempt <= n /\ st[j].attempt = n
  <2>1. i \in Nat /\ j \in Nat
    BY <1>1, <1>2
  <2>2. CASE i \in DOMAIN s /\ st[i] = s[i] /\ j \in DOMAIN s /\ st[j] = s[j]
    BY <1>5, <2>2 DEF InOrder
  <2>3. CASE st[i].attempt <= n /\ st[j].attempt = n
    BY <2>3
  <2>4. st[i].attempt = n => st[i].attempt <= n
    OBVIOUS
  <2>5. ~(i > Len(s) /\ j \in DOMAIN s)
    BY <1>1, <1>5, <2>1
  <2> QED
    BY <1>4, <2>2, <2>3, <2>4, <2>5
<1> QED
  BY <1>5 DEF st

(* A head and a body of one attempt, either or both left out.              *)
HeadPart(h, n) == IF h THEN <<Chunk("head", n)>> ELSE <<>>
BodyPart(b, n) == IF b THEN <<Chunk("body", n)>> ELSE <<>>
Parts(h, b, n) == HeadPart(h, n) \o BodyPart(b, n)

LEMMA PartsOfAttempt ==
  ASSUME NEW h \in BOOLEAN, NEW b \in BOOLEAN, NEW n \in Nat
  PROVE  /\ Parts(h, b, n) \in Seq(Chunks)
         /\ InOrder(Parts(h, b, n))
         /\ AllOf(Parts(h, b, n), n)
         /\ AttemptsIn(Parts(h, b, n), {"body"}) = IF b THEN {n} ELSE {}
         /\ AttemptsIn(Parts(h, b, n), {"head", "body"}) =
              IF h \/ b THEN {n} ELSE {}
<1> DEFINE head == Chunk("head", n)
           body == Chunk("body", n)
           t == Parts(h, b, n)
<1>1. /\ head \in Chunks /\ head.attempt = n /\ head.part = "head"
      /\ body \in Chunks /\ body.attempt = n /\ body.part = "body"
  BY DEF Chunk, Chunks
<1>2. CASE h /\ b
  <2>1. t = <<head>> \o <<body>>
    BY <1>2 DEF Parts, HeadPart, BodyPart
  <2> HIDE DEF head, body, t
  <2>2. t \in Seq(Chunks) /\ DOMAIN t = 1..2 /\ t[1] = head /\ t[2] = body
    BY <1>1, <2>1
  <2>3. InOrder(t) /\ AllOf(t, n)
    BY <1>1, <2>2 DEF InOrder, AllOf, Precedes
  <2>4. AttemptsIn(t, {"body"}) = {n} /\ AttemptsIn(t, {"head", "body"}) = {n}
    BY <1>1, <2>2 DEF AttemptsIn
  <2> QED
    BY <1>2, <2>2, <2>3, <2>4 DEF t
<1>3. CASE h /\ ~b
  <2>1. t = <<head>> \o <<>>
    BY <1>3 DEF Parts, HeadPart, BodyPart
  <2> HIDE DEF head, body, t
  <2>2. t \in Seq(Chunks) /\ DOMAIN t = 1..1 /\ t[1] = head
    BY <1>1, <2>1
  <2>3. InOrder(t) /\ AllOf(t, n)
    BY <1>1, <2>2 DEF InOrder, AllOf, Precedes
  <2>4. AttemptsIn(t, {"body"}) = {} /\ AttemptsIn(t, {"head", "body"}) = {n}
    BY <1>1, <2>2 DEF AttemptsIn
  <2> QED
    BY <1>3, <2>2, <2>3, <2>4 DEF t
<1>4. CASE ~h /\ b
  <2>1. t = <<>> \o <<body>>
    BY <1>4 DEF Parts, HeadPart, BodyPart
  <2> HIDE DEF head, body, t
  <2>2. t \in Seq(Chunks) /\ DOMAIN t = 1..1 /\ t[1] = body
    BY <1>1, <2>1
  <2>3. InOrder(t) /\ AllOf(t, n)
    BY <1>1, <2>2 DEF InOrder, AllOf, Precedes
  <2>4. AttemptsIn(t, {"body"}) = {n} /\ AttemptsIn(t, {"head", "body"}) = {n}
    BY <1>1, <2>2 DEF AttemptsIn
  <2> QED
    BY <1>4, <2>2, <2>3, <2>4 DEF t
<1>5. CASE ~h /\ ~b
  <2>1. t = <<>> \o <<>>
    BY <1>5 DEF Parts, HeadPart, BodyPart
  <2> HIDE DEF head, body, t
  <2>2. t \in Seq(Chunks) /\ DOMAIN t = {}
    BY <1>1, <2>1
  <2> QED
    BY <1>5, <2>2 DEF InOrder, AllOf, AttemptsIn, t
<1> QED
  BY <1>2, <1>3, <1>4, <1>5

----------------------------------------------------------------------------
(* The inductive invariant.                                                *)

InLoop == pc \in {"attempt", "sleep", "emit"}

(* What TypeOK leaves open: the sequences, and that a URL has been begun.  *)
Typed ==
  /\ prefix \in Seq(Chunks)
  /\ output \in [1..Urls -> Seq(Chunks)]
  /\ InLoop => url \in 1..Urls

(* retry_prefix has, in order, output of attempts before the current one;  *)
(* the response kept is older too until the loop ends, and if it is older  *)
(* then, nothing was added after it.                                       *)
PrefixInv ==
  /\ InOrder(prefix)
  /\ AllBefore(prefix, attempt)
  /\ pc \in {"attempt", "sleep"} /\ resp # None => resp.attempt < attempt
  /\ KeptFromPrefix => AllBefore(prefix, resp.attempt + 1)

(* A response is kept as soon as there is one, and standard output misses  *)
(* at most the body of the response kept.                                  *)
KeptBody == IF resp = None THEN {} ELSE {resp.attempt}

RepliesInv ==
  InLoop =>
    /\ resp = None => got = {}
    /\ resp # None => resp.attempt \in got
    /\ opts.dest = "stdout" /\ opts.fail # "drop" =>
         /\ pc # "emit" => AttemptsIn(prefix, {"body"}) = got
         /\ pc = "emit" => AttemptsIn(prefix, {"body"}) \union KeptBody = got

(* A file that can be rewound has been when a last reply is good.          *)
RewoundInv ==
  /\ pc = "emit"
  /\ opts.dest = "file"
  /\ opts.fail = "no"
  /\ resp # None
  /\ ~IsHttpError(resp.reply)
  /\ resp.attempt = attempt
  /\ opts.budget = None
  => prefix = <<>>

(* Nothing has been written for URLs not yet reached.                      *)
OutputInv ==
  \A u \in 1..Urls : u > url \/ (u = url /\ InLoop) => output[u] = <<>>

Results ==
  WrittenOnceInOrder /\ FileHoldsLastOnly /\ StdoutHasEveryReply
    /\ FailureIsReported

TransfersInv ==
  TypeOK /\ Typed /\ PrefixInv /\ RepliesInv /\ RewoundInv /\ OutputInv
    /\ AttemptsWithinBudget /\ Results

LEMMA NoResultsYet == ~Emitted => Results
  BY DEF Results, WrittenOnceInOrder, FileHoldsLastOnly, StdoutHasEveryReply,
         FailureIsReported

LEMMA OptsType ==
  ASSUME TypeOK
  PROVE  /\ opts \in OptionSpace
         /\ opts.retry \in Nat
         /\ opts.budget \in Nat \union {None}
         /\ opts.include \in BOOLEAN
         /\ Durations \subseteq Nat /\ RetryAfters \subseteq Nat \union {None}
  BY TransfersAssumption DEF TypeOK, OptionSpace

LEMMA EmptyOutput ==
  /\ <<>> \in Seq(Chunks)
  /\ InOrder(<<>>)
  /\ \A n : AllBefore(<<>>, n)
  /\ \A parts : AttemptsIn(<<>>, parts) = {}
<1>1. <<>> \in Seq(Chunks) /\ DOMAIN <<>> = {}
  BY EmptySeq, LenProperties
<1> QED
  BY <1>1 DEF InOrder, AllBefore, AttemptsIn

LEMMA InitInv == Init => TransfersInv
<1> SUFFICES ASSUME Init PROVE TransfersInv
  OBVIOUS
<1>1. opts \in OptionSpace /\ opts.retry \in Nat /\ Urls \in Nat
  BY TransfersAssumption DEF Init, OptionSpace
<1>2. DOMAIN prefix = {}
  BY DEF Init
<1>3. TypeOK
  BY <1>1, <1>2 DEF Init, TypeOK
<1>4. Typed
  BY EmptyOutput DEF Init, Typed, InLoop
<1>5. PrefixInv
  BY EmptyOutput DEF Init, PrefixInv, KeptFromPrefix
<1>6. RepliesInv /\ RewoundInv
  BY DEF Init, RepliesInv, RewoundInv, InLoop
<1>7. OutputInv
  BY DEF Init, OutputInv
<1>8. AttemptsWithinBudget
  BY DEF Init, AttemptsWithinBudget
<1>9. Results
  BY NoResultsYet DEF Init, Emitted
<1> QED
  BY <1>3, <1>4, <1>5, <1>6, <1>7, <1>8, <1>9 DEF TransfersInv

(* The properties of results are about the end of a URL: a step that stays *)
(* in the loop has nothing to show for them.                               *)
LEMMA NoResultsNext ==
  ASSUME pc' \in {"attempt", "sleep", "emit"} PROVE Results'
  BY DEF Results, WrittenOnceInOrder, FileHoldsLastOnly, StdoutHasEveryReply,
         FailureIsReported, Emitted

LEMMA NextUrlInv == TransfersInv /\ NextUrl => TransfersInv'
<1> SUFFICES ASSUME TransfersInv, NextUrl PROVE TransfersInv'
  OBVIOUS
<1> USE DEF TransfersInv, NextUrl
<1>1. opts.retry \in Nat /\ Urls \in Nat /\ url \in 0..Urls
  BY OptsType, TransfersAssumption DEF TypeOK
<1>2. DOMAIN prefix' = {}
  OBVIOUS
<1>3. TypeOK'
  BY <1>1, <1>2 DEF TypeOK
<1>4. Typed'
  BY <1>1, EmptyOutput DEF Typed, InLoop
<1>5. PrefixInv'
  BY EmptyOutput DEF PrefixInv, KeptFromPrefix
<1>6. RepliesInv' /\ RewoundInv'
  BY EmptyOutput DEF RepliesInv, RewoundInv, InLoop
<1>7. OutputInv'
  BY <1>1 DEF OutputInv, InLoop
<1>8. AttemptsWithinBudget'
  BY DEF AttemptsWithinBudget
<1>9. Results'
  BY NoResultsNext
<1> QED
  BY <1>3, <1>4, <1>5, <1>6, <1>7, <1>8, <1>9

(* The clock, the waits and the output of a reply are what they should be. *)
LEMMA ClockType ==
  ASSUME NEW t \in Nat, NEW d \in Nat
  PROVE  Clock(t, d) \in Nat
  BY DEF Clock

LEMMA DelayType ==
  ASSUME TypeOK, NEW r \in Replies
  PROVE  ProposedDelay(r) \in Nat /\ Backoff \in Nat
<1>1. r.retryAfter \in Nat \union {None} /\ attempt \in Nat
  BY OptsType DEF TypeOK, Replies
<1> QED
  BY <1>1 DEF ProposedDelay, Backoff

LEMMA AccumulatedIs ==
  ASSUME TypeOK, NEW r \in Replies
  PROVE  /\ Accumulated(r) \in Seq(Chunks)
         /\ InOrder(Accumulated(r))
         /\ AllOf(Accumulated(r), attempt)
         /\ opts.fail # "drop" =>
              AttemptsIn(Accumulated(r), {"body"}) = {attempt}
<1> DEFINE b == ~(IsHttpError(r) /\ opts.fail = "drop")
<1>1. opts.include \in BOOLEAN /\ attempt \in Nat /\ b \in BOOLEAN
  BY OptsType DEF TypeOK
<1>2. Accumulated(r) = Parts(opts.include, b, attempt)
  BY DEF Accumulated, Parts, HeadPart, BodyPart
<1>3. opts.fail # "drop" => b
  OBVIOUS
<1> HIDE DEF b
<1>4. LET t == Parts(opts.include, b, attempt)
      IN  /\ t \in Seq(Chunks) /\ InOrder(t) /\ AllOf(t, attempt)
          /\ AttemptsIn(t, {"body"}) = IF b THEN {attempt} ELSE {}
  BY <1>1, PartsOfAttempt
<1> QED
  BY <1>2, <1>3, <1>4

LEMMA PrefixType ==
  ASSUME NEW s \in Seq(Chunks), NEW n \in Nat, NEW m \in Nat, n <= m,
         AllBefore(s, n)
  PROVE  \A i \in DOMAIN s : s[i] \in [part : {"head", "body"}, attempt : 0..m]
<1> SUFFICES ASSUME NEW i \in DOMAIN s
             PROVE  s[i] \in [part : {"head", "body"}, attempt : 0..m]
  OBVIOUS
<1>1. s[i] \in Chunks
  BY LenProperties, ElementOfSeq
<1>2. s[i].attempt \in 0..m
  BY <1>1 DEF AllBefore, Chunks
<1> QED
  BY <1>1, <1>2 DEF Chunks

LEMMA AttemptReplyInv == TransfersInv /\ AttemptReply => TransfersInv'
<1> SUFFICES ASSUME TransfersInv, AttemptReply PROVE TransfersInv'
  OBVIOUS
<1> USE DEF TransfersInv
<1>1. PICK r \in Replies, d \in Durations :
        /\ elapsed' = Clock(elapsed, d)
        /\ \/ FinalReply(r)
           \/ ReplyOverBudget(r, Clock(elapsed, d))
           \/ ReplyRetried(r, Clock(elapsed, d))
  BY DEF AttemptReply
<1>2. /\ pc = "attempt" /\ got' = got \union {attempt}
      /\ UNCHANGED <<opts, url, lastErr, exitCode, output>>
  BY DEF AttemptReply
<1>3. /\ pc' \in {"emit", "sleep"}
      /\ resp' = Kept(r)
      /\ resp'.attempt = attempt /\ resp'.reply = r
  BY <1>1 DEF FinalReply, ReplyOverBudget, ReplyRetried, Kept
<1>4. resp' # None
  BY <1>3, OptsType, TransfersAssumption DEF Kept, TypeOK
<1>5. elapsed' \in Nat /\ delay' \in Nat
  BY <1>1, OptsType, ClockType, DelayType
  DEF TypeOK, FinalReply, ReplyOverBudget, ReplyRetried
<1>6. attempt \in 0..opts.retry /\ opts.retry \in Nat /\ attempt \in Nat
  BY OptsType DEF TypeOK
<1>7. prefix' \in Seq(Chunks) /\ InOrder(prefix') /\ AllBefore(prefix', attempt')
  <2>1. CASE prefix' \in {prefix, <<>>} /\ attempt' = attempt
    BY <2>1, EmptyOutput DEF Typed, PrefixInv
  <2>2. CASE ReplyRetried(r, elapsed')
    BY <1>6, <2>2, AccumulatedIs, OrderExtends, ConcatProperties
    DEF ReplyRetried, Typed, PrefixInv
  <2> QED
    BY <1>1, <2>1, <2>2 DEF FinalReply, ReplyOverBudget
<1>8. attempt' \in 0..opts.retry
  BY <1>1, <1>6 DEF FinalReply, ReplyOverBudget, ReplyRetried, Retryable
<1>9. TypeOK'
  <2>1. resp' \in [attempt : 0..opts.retry, reply : Replies]
    BY <1>3, <1>6 DEF Kept
  <2>2. got' \subseteq 0..opts.retry
    BY <1>2, <1>6 DEF TypeOK
  <2>3. \A i \in DOMAIN prefix' :
          prefix'[i] \in [part : {"head", "body"}, attempt : 0..opts.retry]
    BY <1>6, <1>7, <1>8, PrefixType
  <2> QED
    BY <1>2, <1>3, <1>5, <1>8, <2>1, <2>2, <2>3 DEF TypeOK
<1>10. Typed'
  BY <1>2, <1>3, <1>7 DEF Typed, InLoop
<1>11. PrefixInv'
  <2>1. \/ attempt' = attempt /\ pc' = "emit"
        \/ attempt' = attempt + 1
    BY <1>1 DEF FinalReply, ReplyOverBudget, ReplyRetried
  <2>2. pc' = "sleep" => attempt' = attempt + 1
    BY <1>1 DEF FinalReply, ReplyOverBudget, ReplyRetried
  <2> QED
    BY <1>3, <1>6, <1>7, <2>1, <2>2 DEF PrefixInv, KeptFromPrefix
<1>12. RepliesInv'
  <2>1. CASE opts.dest = "stdout" /\ opts.fail # "drop"
    <3>1. AttemptsIn(prefix, {"body"}) = got
      BY <1>2, <2>1 DEF RepliesInv, InLoop
    <3>2. pc' = "emit" => prefix' = prefix
      BY <1>1, <2>1 DEF FinalReply, ReplyOverBudget, ReplyRetried
    <3>3. pc' = "sleep" => AttemptsIn(prefix', {"body"}) = got'
      <4>1. pc' = "sleep" => prefix' = prefix \o Accumulated(r)
        BY <1>1 DEF FinalReply, ReplyOverBudget, ReplyRetried
      <4>2. /\ prefix \in Seq(Chunks) /\ Accumulated(r) \in Seq(Chunks)
            /\ AttemptsIn(Accumulated(r), {"body"}) = {attempt}
        BY <2>1, AccumulatedIs DEF Typed
      <4>3. AttemptsIn(prefix \o Accumulated(r), {"body"}) = got \union {attempt}
        BY <3>1, <4>2, AttemptsInConcat
      <4> QED
        BY <1>2, <4>1, <4>3
    <3>4. KeptBody' = {attempt}
      BY <1>3, <1>4 DEF KeptBody
    <3> QED
      BY <1>2, <1>3, <1>4, <3>1, <3>2, <3>3, <3>4 DEF RepliesInv
  <2>2. CASE ~(opts.dest = "stdout" /\ opts.fail # "drop")
    BY <1>2, <1>3, <1>4, <2>2 DEF RepliesInv
  <2> QED
    BY <2>1, <2>2
<1>13. RewoundInv'
  BY <1>1, <1>2, <1>3, <1>6
  DEF RewoundInv, FinalReply, ReplyOverBudget, ReplyRetried, OverBudget
<1>14. OutputInv'
  BY <1>2, <1>3 DEF OutputInv, InLoop
<1>15. AttemptsWithinBudget'
  BY <1>3 DEF AttemptsWithinBudget
<1>16. Results'
  BY <1>3, NoResultsNext
<1> QED
  BY <1>9, <1>10, <1>11, <1>12, <1>13, <1>14, <1>15, <1>16

LEMMA AttemptErrorInv == TransfersInv /\ AttemptError => TransfersInv'
<1> SUFFICES ASSUME TransfersInv, AttemptError PROVE TransfersInv'
  OBVIOUS
<1> USE DEF TransfersInv
<1>1. PICK e \in Errors, d \in Durations :
        lastErr' = e /\ elapsed' = Clock(elapsed, d)
  BY DEF AttemptError
<1>2. /\ pc = "attempt" /\ delay' = Backoff
      /\ UNCHANGED <<opts, url, resp, prefix, exitCode, output, got>>
  BY DEF AttemptError
<1>3. \/ pc' = "emit" /\ attempt' = attempt
      \/ pc' = "sleep" /\ attempt' = attempt + 1 /\ attempt < opts.retry
  BY DEF AttemptError
<1>4. attempt \in 0..opts.retry /\ opts.retry \in Nat
  BY OptsType DEF TypeOK
<1>5. elapsed' \in Nat /\ delay' \in Nat
  <2>1. elapsed' \in Nat
    BY <1>1, OptsType, ClockType DEF TypeOK
  <2>2. delay' \in Nat
    BY <1>2, <1>4 DEF Backoff
  <2> QED
    BY <2>1, <2>2
<1>6. TypeOK'
  BY <1>1, <1>2, <1>3, <1>4, <1>5 DEF TypeOK
<1>7. Typed'
  BY <1>2, <1>3 DEF Typed, InLoop
<1>8. PrefixInv'
  <2>1. \A i \in DOMAIN prefix : prefix[i].attempt \in Nat
    BY DEF TypeOK
  <2>2. AllBefore(prefix, attempt')
    BY <1>3, <1>4, <2>1 DEF PrefixInv, AllBefore
  <2>3. resp # None => resp.attempt \in Nat
    BY DEF TypeOK
  <2>4. KeptFromPrefix' => KeptFromPrefix
    BY <1>2, <1>4, <2>3 DEF PrefixInv, KeptFromPrefix
  <2>5. KeptFromPrefix' => AllBefore(prefix, resp.attempt + 1)
    BY <2>4 DEF PrefixInv
  <2> QED
    BY <1>2, <1>3, <1>4, <2>2, <2>3, <2>5 DEF PrefixInv
<1>9. RepliesInv'
  BY <1>2, <1>3 DEF RepliesInv, InLoop, KeptBody
<1>10. RewoundInv'
  <2>1. resp # None => resp.attempt \in Nat /\ resp.attempt < attempt
    BY <1>2 DEF PrefixInv, TypeOK
  <2> QED
    BY <1>2, <1>3, <1>4, <2>1 DEF RewoundInv
<1>11. OutputInv'
  BY <1>2, <1>3 DEF OutputInv, InLoop
<1>12. AttemptsWithinBudget'
  BY <1>3 DEF AttemptsWithinBudget
<1>13. Results'
  BY <1>3, NoResultsNext
<1> QED
  BY <1>6, <1>7, <1>8, <1>9, <1>10, <1>11, <1>12, <1>13

LEMMA SleepInv == TransfersInv /\ Sleep => TransfersInv'
<1> SUFFICES ASSUME TransfersInv, Sleep PROVE TransfersInv'
  OBVIOUS
<1> USE DEF TransfersInv
<1>1. PICK d \in Durations :
        LET now == Clock(elapsed, d) IN
        \/ OverBudget(now, delay) /\ elapsed' = now /\ pc' = "emit"
        \/ ~OverBudget(now, delay) /\ elapsed' = Clock(now, delay)
           /\ pc' = "attempt"
  BY DEF Sleep
<1>2. /\ pc = "sleep"
      /\ UNCHANGED <<opts, url, attempt, delay, resp, lastErr, prefix, exitCode,
                     output, got>>
  BY DEF Sleep
<1>3. elapsed \in Nat /\ delay \in Nat /\ Clock(elapsed, d) \in Nat
  BY OptsType, ClockType DEF TypeOK
<1>4. elapsed' \in Nat
  BY <1>1, <1>3, ClockType
<1>5. TypeOK'
  BY <1>1, <1>2, <1>4 DEF TypeOK
<1>6. Typed'
  BY <1>1, <1>2 DEF Typed, InLoop
<1>7. PrefixInv'
  BY <1>1, <1>2 DEF PrefixInv, KeptFromPrefix
<1>8. RepliesInv'
  BY <1>1, <1>2 DEF RepliesInv, InLoop, KeptBody
<1>9. RewoundInv'
  BY <1>1, <1>2 DEF RewoundInv, OverBudget
<1>10. OutputInv'
  BY <1>1, <1>2 DEF OutputInv, InLoop
<1>11. AttemptsWithinBudget'
  BY <1>1, <1>2, <1>3, OptsType DEF AttemptsWithinBudget, OverBudget, Clock
<1>12. Results'
  BY <1>1, NoResultsNext
<1> QED
  BY <1>5, <1>6, <1>7, <1>8, <1>9, <1>10, <1>11, <1>12

(* What is written for a response: some of retry_prefix, then its parts.   *)
KeepsPrefix == ~(opts.dest = "file" /\ ~opts.include)
HasBody(r) == ~SkipsBody(r)

LEMMA WrittenIs ==
  ASSUME TypeOK, Typed, resp # None
  PROVE  LET kept == IF KeepsPrefix THEN prefix ELSE <<>>
             t == Parts(opts.include, HasBody(resp.reply), resp.attempt)
         IN  /\ Written(resp) = kept \o t
             /\ kept \in Seq(Chunks) /\ t \in Seq(Chunks)
             /\ Written(resp) \in Seq(Chunks)
             /\ InOrder(t) /\ AllOf(t, resp.attempt)
             /\ AttemptsIn(t, {"body"}) =
                  IF HasBody(resp.reply) THEN {resp.attempt} ELSE {}
             /\ AttemptsIn(t, {"head", "body"}) =
                  IF opts.include \/ HasBody(resp.reply)
                  THEN {resp.attempt} ELSE {}
<1> DEFINE kept == IF KeepsPrefix THEN prefix ELSE <<>>
           b == HasBody(resp.reply)
           n == resp.attempt
           head == HeadPart(opts.include, n)
           body == BodyPart(b, n)
           t == Parts(opts.include, b, n)
<1>1. n \in Nat /\ b \in BOOLEAN /\ opts.include \in BOOLEAN
  BY OptsType DEF TypeOK, HasBody
<1>2. kept \in Seq(Chunks)
  BY EmptyOutput DEF Typed
<1>3. head \in Seq(Chunks) /\ body \in Seq(Chunks)
  <2>1. Chunk("head", n) \in Chunks /\ Chunk("body", n) \in Chunks
    BY <1>1 DEF Chunk, Chunks
  <2>2. <<Chunk("head", n)>> \in Seq(Chunks) /\ <<Chunk("body", n)>> \in Seq(Chunks)
    BY <2>1
  <2> QED
    BY <2>2, EmptyOutput DEF HeadPart, BodyPart
<1>4. Written(resp) = (kept \o head) \o body
  BY DEF Written, KeepsPrefix, HasBody, HeadPart, BodyPart
<1>5. t = head \o body
  BY DEF Parts
<1>6. /\ t \in Seq(Chunks) /\ InOrder(t) /\ AllOf(t, n)
      /\ AttemptsIn(t, {"body"}) = IF b THEN {n} ELSE {}
      /\ AttemptsIn(t, {"head", "body"}) = IF opts.include \/ b THEN {n} ELSE {}
  <2> HIDE DEF b, n
  <2> QED
    BY <1>1, PartsOfAttempt
<1> HIDE DEF kept, head, body, t, b, n
<1>7. Written(resp) = kept \o t /\ Written(resp) \in Seq(Chunks)
  BY <1>2, <1>3, <1>4, <1>5, <1>6, ConcatAssociative, ConcatProperties
<1> QED
  BY <1>2, <1>6, <1>7 DEF kept, t, b, n

LEMMA ReplyExits ==
  ASSUME NEW r \in Replies
  PROVE  /\ ReplyExit(r) \in {0, 8, 18, 22, 28, 47, 52, 56}
         /\ ReplyExit(r) = 0 => Acceptable(r)
<1>1. r.flaw \in AllFlaws
  BY TransfersAssumption DEF Replies
<1>2. FlawExit(r.flaw) \in {0, 8, 18, 28, 47, 56}
  BY <1>1 DEF AllFlaws, FlawExit
<1>3. FlawExit(r.flaw) = 0 =>
        \/ r.flaw \in {"none", "broken"}
        \/ r.flaw = "timeout" /\ ~opts.maxTime
  BY <1>1 DEF AllFlaws, FlawExit
<1> QED
  BY <1>2, <1>3 DEF ReplyExit, Acceptable

LEMMA ErrorExits ==
  ASSUME NEW e PROVE ErrorExit(e) \in {1, 7}
BY DEF ErrorExit

LEMMA EmitInv == TransfersInv /\ Emit => TransfersInv'
<1> SUFFICES ASSUME TransfersInv, Emit PROVE TransfersInv'
  OBVIOUS
<1> USE DEF TransfersInv
<1> DEFINE code == IF resp # None THEN ReplyExit(resp.reply)
                   ELSE ErrorExit(lastErr)
<1>1. /\ pc = "emit" /\ exitCode' = code
      /\ pc' = IF LoopEnds(code) THEN "done" ELSE "next"
      /\ output' = IF resp # None THEN [output EXCEPT ![url] = Written(resp)]
                   ELSE output
      /\ UNCHANGED <<opts, url, attempt, elapsed, delay, resp, lastErr, prefix, got>>
  BY DEF Emit
<1>2. url \in 1..Urls /\ Urls \in Nat /\ output[url] = <<>>
  BY <1>1, TransfersAssumption DEF Typed, OutputInv, InLoop
<1>3. /\ code \in {0, 1, 7, 8, 18, 22, 28, 47, 52, 56}
      /\ code = 0 => resp # None /\ Acceptable(resp.reply)
  <2>1. CASE resp = None
    <3>1. code = ErrorExit(lastErr)
      BY <2>1
    <3> QED
      BY <2>1, <3>1, ErrorExits
  <2>2. CASE resp # None
    <3>1. code = ReplyExit(resp.reply) /\ resp.reply \in Replies
      BY <2>2 DEF TypeOK
    <3> HIDE DEF code
    <3>2. code \in {0, 8, 18, 22, 28, 47, 52, 56}
      BY <3>1, ReplyExits
    <3>3. code = 0 => Acceptable(resp.reply)
      BY <3>1, ReplyExits
    <3> QED
      BY <2>2, <3>2, <3>3
  <2> QED
    BY <2>1, <2>2
<1>4. /\ resp # None => output'[url] = Written(resp)
      /\ resp = None => output'[url] = <<>>
      /\ \A u \in 1..Urls : u # url => output'[u] = output[u]
      /\ output' \in [1..Urls -> Seq(Chunks)]
  BY <1>1, <1>2, WrittenIs DEF Typed
<1> HIDE DEF code
<1>5. pc' \in {"next", "done"}
  BY <1>1
<1>6. TypeOK'
  BY <1>1, <1>3, <1>5 DEF TypeOK
<1>7. Typed' /\ RepliesInv' /\ RewoundInv'
  BY <1>1, <1>4, <1>5 DEF Typed, RepliesInv, RewoundInv, InLoop
<1>8. PrefixInv'
  BY <1>1, <1>5 DEF PrefixInv, KeptFromPrefix
<1>9. OutputInv'
  BY <1>1, <1>2, <1>4, <1>5 DEF OutputInv, InLoop
<1>10. AttemptsWithinBudget'
  BY <1>5 DEF AttemptsWithinBudget
<1> DEFINE kept == IF KeepsPrefix THEN prefix ELSE <<>>
           t == Parts(opts.include, HasBody(resp.reply), resp.attempt)
<1>11. resp # None =>
         /\ output'[url] = kept \o t
         /\ kept \in Seq(Chunks) /\ t \in Seq(Chunks)
         /\ InOrder(t) /\ AllOf(t, resp.attempt)
         /\ AttemptsIn(t, {"body"}) =
              IF HasBody(resp.reply) THEN {resp.attempt} ELSE {}
         /\ AttemptsIn(t, {"head", "body"}) =
              IF opts.include \/ HasBody(resp.reply)
              THEN {resp.attempt} ELSE {}
  BY <1>4, WrittenIs
<1>12. InOrder(kept) /\ AllBefore(kept, attempt) /\ attempt \in Nat
  BY EmptyOutput, OptsType DEF PrefixInv, TypeOK
<1> HIDE DEF t
<1>13. WrittenOnceInOrder'
  <2> SUFFICES ASSUME resp # None,
                      NEW i \in DOMAIN output'[url], NEW j \in DOMAIN output'[url],
                      i < j
               PROVE  LET out == output'[url] IN
                      \/ Precedes(out[i], out[j])
                      \/ /\ KeptFromPrefix
                         /\ out[i].attempt <= resp.attempt
                         /\ out[j].attempt = resp.attempt
    BY <1>1 DEF WrittenOnceInOrder, KeptFromPrefix
  <2>1. CASE resp.attempt = attempt
    <3> HIDE DEF kept
    <3>1. InOrder(output'[url])
      BY <1>11, <1>12, <2>1, OrderExtends
    <3> QED
      BY <3>1 DEF InOrder
  <2>2. CASE resp.attempt # attempt
    <3>1. AllBefore(kept, resp.attempt + 1) /\ resp.attempt \in Nat
      BY <2>2, EmptyOutput DEF PrefixInv, KeptFromPrefix, TypeOK
    <3> HIDE DEF kept
    <3>2. KeptFromPrefix
      BY <2>2 DEF KeptFromPrefix
    <3> QED
      BY <1>11, <1>12, <3>1, <3>2, OrderRepeats
  <2> QED
    BY <2>1, <2>2
<1>14. FileHoldsLastOnly'
  <2> SUFFICES ASSUME opts.dest = "file", opts.fail = "no", resp # None,
                      ~IsHttpError(resp.reply), resp.attempt = attempt,
                      opts.budget = None
               PROVE  LET out == output'[url] IN
                      /\ AttemptsIn(out, {"head", "body"}) \subseteq {attempt}
                      /\ ~SkipsBody(resp.reply) =>
                           AttemptsIn(out, {"body"}) = {attempt}
    BY <1>1 DEF FileHoldsLastOnly, Emitted, IsHttpError, SkipsBody, KeptFromPrefix
  <2>1. kept = <<>>
    BY <1>1 DEF RewoundInv
  <2>2. output'[url] = t
    BY <1>11, <2>1, ConcatEmptySeq
  <2> QED
    BY <1>11, <2>2 DEF HasBody
<1>15. StdoutHasEveryReply'
  <2> SUFFICES ASSUME opts.dest = "stdout", opts.fail # "drop"
               PROVE  LET written == AttemptsIn(output'[url], {"body"}) IN
                      /\ written \subseteq got
                      /\ \A a \in got \ written :
                           resp.attempt = a /\ SkipsBody(resp.reply)
    BY <1>1 DEF StdoutHasEveryReply, Emitted, SkipsBody, IsHttpError
  <2>1. AttemptsIn(prefix, {"body"}) \union KeptBody = got
    BY <1>1 DEF RepliesInv, InLoop
  <2>2. CASE resp = None
    BY <1>1, <1>4, <2>2, EmptyOutput DEF RepliesInv, InLoop
  <2>3. CASE resp # None
    <3>1. kept = prefix
      BY DEF KeepsPrefix
    <3>2. AttemptsIn(prefix \o t, {"body"}) =
            AttemptsIn(prefix, {"body"}) \union AttemptsIn(t, {"body"})
      <4>1. prefix \in Seq(Chunks) /\ t \in Seq(Chunks)
        BY <1>11, <2>3 DEF Typed
      <4> QED
        BY <4>1, AttemptsInConcat
    <3>3. /\ KeptBody = {resp.attempt}
          /\ AttemptsIn(t, {"body"}) =
               IF SkipsBody(resp.reply) THEN {} ELSE {resp.attempt}
      BY <1>11, <2>3 DEF KeptBody, HasBody
    <3>4. AttemptsIn(output'[url], {"body"}) =
            AttemptsIn(prefix, {"body"}) \union AttemptsIn(t, {"body"})
      BY <1>11, <2>3, <3>1, <3>2
    <3> QED
      BY <2>1, <3>3, <3>4
  <2> QED
    BY <2>2, <2>3
<1>16. FailureIsReported'
  <2>1. code = 0 => got # {} /\ Acceptable(resp.reply)
    BY <1>1, <1>3 DEF RepliesInv, InLoop
  <2>2. code # 0 /\ opts.failEarly => pc' = "done"
    BY <1>1 DEF LoopEnds
  <2>3. pc' = "done" /\ url < Urls => code # 0
    BY <1>1, <1>2 DEF LoopEnds
  <2>4. \A u \in url + 1..Urls : output'[u] = <<>>
    BY <1>2, <1>4 DEF OutputInv
  <2> QED
    BY <1>1, <2>1, <2>2, <2>3, <2>4
    DEF FailureIsReported, Acceptable, IsHttpError
<1> QED
  BY <1>6, <1>7, <1>8, <1>9, <1>10, <1>13, <1>14, <1>15, <1>16 DEF Results

LEMMA StutterInv == TransfersInv /\ UNCHANGED vars => TransfersInv'
<1> SUFFICES ASSUME TransfersInv, UNCHANGED vars PROVE TransfersInv'
  OBVIOUS
<1> USE DEF TransfersInv, vars
<1>1. TypeOK' /\ Typed' /\ PrefixInv'
  BY DEF TypeOK, Typed, PrefixInv, InLoop, KeptFromPrefix
<1>2. RepliesInv' /\ RewoundInv' /\ OutputInv'
  BY DEF RepliesInv, KeptBody, RewoundInv, OutputInv, InLoop
<1>3. AttemptsWithinBudget' /\ Results'
  BY DEF AttemptsWithinBudget, Results, WrittenOnceInOrder, FileHoldsLastOnly,
         StdoutHasEveryReply, FailureIsReported, Emitted, KeptFromPrefix,
         Acceptable, IsHttpError, SkipsBody
<1> QED
  BY <1>1, <1>2, <1>3

LEMMA TransfersInvAlways == Spec => []TransfersInv
<1>1. TransfersInv /\ [Next]_vars => TransfersInv'
  BY NextUrlInv, AttemptReplyInv, AttemptErrorInv, SleepInv, EmitInv, StutterInv
  DEF Next
<1> QED
  BY <1>1, InitInv, PTL DEF Spec

----------------------------------------------------------------------------
(* The theorems, one for each invariant of the run.                        *)

(* Every variable keeps its type; in particular the attempts never exceed  *)
(* --retry.                                                                *)
THEOREM TransfersTypeCorrect == Spec => []TypeOK
<1>1. TransfersInv => TypeOK
  BY DEF TransfersInv
<1> QED
  BY <1>1, TransfersInvAlways, PTL

(* retry_prefix and the response written after it neither overlap nor      *)
(* cross: each part of each attempt comes once, in the order received, but *)
(* for a response that was in retry_prefix when the loop was left.         *)
THEOREM OutputInOrder == Spec => []WrittenOnceInOrder
<1>1. TransfersInv => WrittenOnceInOrder
  BY DEF TransfersInv, Results
<1> QED
  BY <1>1, TransfersInvAlways, PTL

(* A file that a good last attempt was written to holds only that attempt. *)
THEOREM RewoundFileIsClean == Spec => []FileHoldsLastOnly
<1>1. TransfersInv => FileHoldsLastOnly
  BY DEF TransfersInv, Results
<1> QED
  BY <1>1, TransfersInvAlways, PTL

(* Standard output has the body of every reply, however the loop ended,    *)
(* but for a last one whose body is not to be written.                     *)
THEOREM StdoutIsComplete == Spec => []StdoutHasEveryReply
<1>1. TransfersInv => StdoutHasEveryReply
  BY DEF TransfersInv, Results
<1> QED
  BY <1>1, TransfersInvAlways, PTL

(* No attempt but the first starts after --retry-max-time.                 *)
THEOREM BudgetRespected == Spec => []AttemptsWithinBudget
<1>1. TransfersInv => AttemptsWithinBudget
  BY DEF TransfersInv
<1> QED
  BY <1>1, TransfersInvAlways, PTL

(* Exit 0 is for an acceptable reply to the last URL tried; --fail-early   *)
(* and a fatal error leave nothing written for the URLs after them.        *)
THEOREM ExitCodeTellsTruth == Spec => []FailureIsReported
<1>1. TransfersInv => FailureIsReported
  BY DEF TransfersInv, Results
<1> QED
  BY <1>1, TransfersInvAlways, PTL
=============================================================================
