------------------------------- MODULE Reader -------------------------------
(***************************************************************************)
(* read_response and read_chunked_body of src/response.rs on a fresh       *)
(* connection: the interim responses, the header block and its defects,    *)
(* the body by Content-Length, in chunks or to the end of the stream, and  *)
(* its decoding.  A stream may end, break or fall silent after any unit.   *)
(***************************************************************************)
EXTENDS Wire

CONSTANTS
  Answers,       \* Answers[f]: what a server of family f may answer
  Growth         \* how many pieces a piece of coded content decodes to

(* An answer: the interim statuses before it, the final status, the        *)
(* framing its headers announce, how many pieces of content it has, a flaw *)
(* of its headers or chunks, its content coding, how many of its units are *)
(* sent, and what happens after them.  Headers cut off by the end of the   *)
(* stream are read like complete ones: framed as far as they arrived.      *)
HeaderFlaws ==
  {"none", "version", "code", "nul", "nocolon", "long_line", "too_many",
   "too_large", "te_order", "te_unasked", "te_stack", "locations", "lengths",
   "length_text", "length_huge"}

AnswerSpace ==
  [interim : Seq({100, 103}),
   st      : {200, 204, 302, 417},
   fr      : {"none", "length", "chunked", "close"},
   n       : Nat,
   flaw    : HeaderFlaws \union {"chunk_size", "trailers", "not_http"},
   coding  : {"none", "good", "bad", "deep"},
   sent    : Nat,
   after   : {"open", "eof", "reset"}]

ASSUME ReaderAssumption ==
  /\ \A o \in OptionSets :
       o.answers \in DOMAIN Answers /\ Answers[o.answers] \subseteq AnswerSpace
  /\ Growth \in Nat

VARIABLES
  purpose,   \* whose response is read: "answer", or "rejected" for a 417
  meant,     \* history: the answer the server gives, None before
  interim,   \* saw_interim
  head,      \* the final header block read, None before
  body,      \* the body so far
  trailer,   \* how many trailers were read
  flags,     \* the fields of Response that tell of an error
  heads      \* header_bytes, as numbers of header blocks

rvars == <<purpose, meant, interim, head, body, trailer, flags, heads>>

ReaderInit ==
  /\ purpose = "answer"
  /\ meant = None
  /\ interim = FALSE
  /\ head = None
  /\ body = <<>>
  /\ trailer = 0
  /\ flags = {}
  /\ heads = <<>>

(* What read_response is called with: a 417 is read raw, not as an answer  *)
(* to HEAD, not decoded and without a limit.                               *)
IsHead == purpose = "answer" /\ opts.head
Raw == purpose = "rejected" \/ opts.raw
Decompress == purpose = "answer" /\ opts.compressed
Cap == IF purpose = "rejected" THEN None ELSE opts.cap

----------------------------------------------------------------------------
(* The server's side: the units of an answer.                              *)
Content(i) == [u |-> "data", i |-> i]
Size(k) == [u |-> "size", k |-> k]
Contents(a, b) == [j \in 1..(b - a + 1) |-> Content(a + j - 1)]

ChunkMax == 2
Chunk(a, b) == <<Size(b - a + 1)>> \o Contents(a, b) \o <<Unit("sep")>>

InFirst(n) == IF n <= ChunkMax THEN n ELSE ChunkMax

LastUnits(flaw) ==
  IF flaw = "trailers" THEN <<Unit("zero"), Unit("trailer"), Unit("blank")>>
                       ELSE <<Unit("zero"), Unit("blank")>>

LaterUnits(n, flaw) ==
  (IF flaw = "chunk_size" THEN <<Unit("badsize")>> ELSE <<>>)
  \o (IF n <= ChunkMax THEN <<>> ELSE Chunk(ChunkMax + 1, n))
  \o LastUnits(flaw)

ChunkedUnits(n, flaw) ==
  IF n = 0 THEN LaterUnits(n, flaw)
           ELSE Chunk(1, InFirst(n)) \o LaterUnits(n, flaw)

HeadUnit(st, fr, n, flaw, coding) ==
  [u |-> "head", st |-> st, fr |-> fr, n |-> n, flaw |-> flaw,
   coding |-> coding]
InterimUnit(st) == HeadUnit(st, "none", 0, "none", "none")

Lead(a) ==
  IF a.flaw = "not_http" THEN Unit("garbage")
                         ELSE HeadUnit(a.st, a.fr, a.n, a.flaw, a.coding)
BodyUnitsOf(a) ==
  IF opts.head \/ a.st = 204 THEN <<>>
  ELSE IF a.fr = "chunked" THEN ChunkedUnits(a.n, a.flaw)
  ELSE Contents(1, a.n)

AnswerUnits(a) ==
  [i \in DOMAIN a.interim |-> InterimUnit(a.interim[i])]
  \o <<Lead(a)>> \o BodyUnitsOf(a)

SentUnits(a) ==
  LET units == AnswerUnits(a)
  IN  SubSeq(units, 1, IF a.sent < Len(units) THEN a.sent ELSE Len(units))

----------------------------------------------------------------------------
Ends(fs) ==
  /\ at' = "end"
  /\ flags' = flags \union fs
  /\ error' = error

(* The status line.  Nothing at all is an error, unless an interim         *)
(* response came before; without a timeout the reader waits.               *)
ReadNothing ==
  /\ at = "status"
  /\ inbox = <<>>
  /\ \/ tail = "eof" /\ interim /\ Ends({})
     \/ /\ \/ tail = "eof" /\ ~interim /\ Fails("empty reply from server")
           \/ tail = "reset" /\ Fails("recv_error")
           \/ tail = "open" /\ armed /\ Fails("failed to read status line")
        /\ flags' = flags
  /\ UNCHANGED <<opts, inbox, tail, armed, heard, round, purpose, meant, interim,
                 head, body, trailer, heads>>

OnlyContinue(u) == u.u = "head" /\ u.st = 100
IsInterim(u) == u.u = "head" /\ u.st \in 100..199

ReadInterim ==
  /\ at = "status"
  /\ inbox # <<>> /\ IsInterim(inbox[1])
  /\ interim' = TRUE
  /\ heard' = heard + 1
  /\ heads' = Append(heads, heard + 1)
  /\ Skip(1)
  /\ UNCHANGED <<opts, at, tail, armed, round, error, purpose, meant, head, body,
                 trailer, flags>>

(* HTTP/0.9: a line that is no status line begins a body, if that is       *)
(* allowed, no interim response came first and the request was not HEAD.   *)
ReadNotHttp ==
  /\ at = "status"
  /\ inbox # <<>> /\ inbox[1].u # "head"
  /\ IF interim \/ ~opts.http09 \/ IsHead
     THEN /\ Fails(IF interim THEN "weird_server_reply: after interim"
                   ELSE IF ~opts.http09 THEN "unsupported protocol"
                   ELSE "weird_server_reply: body for HEAD")
          /\ UNCHANGED <<inbox, body, flags>>
     ELSE /\ tail # "open" \/ armed
          /\ Ends({})
          /\ body' = inbox
          /\ inbox' = <<>>
  /\ UNCHANGED <<opts, tail, armed, heard, round, purpose, meant, interim, head,
                 trailer, heads>>

(* What the header block says of itself, in the order of the checks: an    *)
(* error, a response with a flag, or how to read the body.                 *)
HeadError(h) ==
  IF h.flaw = "version" THEN "weird_server_reply: unsupported protocol"
  ELSE IF h.flaw = "code" THEN "invalid status code"
  ELSE IF h.flaw = "long_line" THEN "too large response header line"
  ELSE IF h.flaw = "too_many" THEN "too many response headers"
  ELSE "none"

\* Mutant of NoBody: the body of a reply to HEAD is read.
NoBodyStatus(h) == h.st \in {204, 304}

NoBody(h) == IsHead \/ h.st \in {204, 304}

EncodingFlags(h) ==
  IF h.flaw = "te_stack" /\ Raw THEN {"bad_encoding", "too_many"}
  ELSE IF h.flaw = "te_order" \/ (h.flaw \in {"te_unasked", "te_stack"} /\ ~Raw)
    THEN {"bad_encoding"}
  ELSE {}

HeadFlags(h) ==
  IF h.flaw \in {"nul", "nocolon"} THEN {"weird"}
  ELSE IF h.flaw = "too_large" THEN {"header_size"}
  ELSE IF NoBody(h) THEN {}
  ELSE IF h.flaw \in {"locations", "lengths", "length_text"} THEN {"weird"}
  ELSE EncodingFlags(h)

(* --max-filesize against Content-Length, a huge one included; not for     *)
(* redirects.                                                              *)
IsRedirect(h) == h.st \in 300..399
ExceedsByMore(h) ==
  Cap # None /\ ~IsRedirect(h) /\ h.fr = "length" /\ h.n > Cap + 1

LengthExceeds(h) ==
  /\ Cap # None /\ ~IsRedirect(h)
  /\ h.flaw = "length_huge" \/ (h.fr = "length" /\ h.n > Cap)

BodyMode(h) ==
  IF h.fr = "chunked" /\ ~Raw THEN "size"
  ELSE IF h.fr = "length" /\ h.flaw # "length_huge" THEN "length"
  ELSE "close"

ReadHead ==
  /\ at = "status"
  /\ inbox # <<>> /\ inbox[1].u = "head" /\ ~IsInterim(inbox[1])
  /\ LET h == inbox[1]
     IN  /\ head' = h
         /\ IF HeadError(h) # "none" THEN Fails(HeadError(h)) /\ flags' = flags
            ELSE IF HeadFlags(h) # {} THEN Ends(HeadFlags(h))
            ELSE IF NoBody(h) THEN Ends({})
            ELSE IF LengthExceeds(h) THEN Ends({"filesize"})
            ELSE at' = BodyMode(h) /\ UNCHANGED <<error, flags>>
  /\ heard' = heard + 1
  /\ heads' = Append(heads, heard + 1)
  /\ Skip(1)
  /\ UNCHANGED <<opts, tail, armed, round, purpose, meant, interim, body, trailer>>

----------------------------------------------------------------------------
Taken(k) == SubSeq(inbox, 1, k)

(* Content-Length: up to that many pieces; the end of the stream makes the *)
(* response partial, an error or a timeout fails the call.                 *)
ReadLength ==
  /\ at = "length"
  /\ LET k == IF Len(inbox) < head.n THEN Len(inbox) ELSE head.n
     IN  /\ body' = Taken(k)
         /\ Skip(k)
         /\ \/ k = head.n /\ at' = "decode" /\ UNCHANGED <<error, flags>>
            \/ /\ k < head.n /\ tail = "eof"
               /\ at' = "decode"
               /\ flags' = flags \union {"partial"}
               /\ error' = error
            \/ /\ k < head.n /\ (tail = "reset" \/ (tail = "open" /\ armed))
               /\ Fails("failed to read body")
               /\ flags' = flags
  /\ UNCHANGED <<opts, tail, armed, heard, round, purpose, meant, interim, head,
                 trailer, heads>>

(* To the end of the stream: only a timeout is told apart from the end.    *)
WaitsForEnd ==
  /\ at = "close"
  /\ tail # "open"
  /\ body' = inbox
  /\ inbox' = <<>>
  /\ at' = "decode"
  /\ UNCHANGED <<opts, tail, armed, heard, round, error, purpose, meant, interim,
                 head, trailer, flags, heads>>

ReadToEnd ==
  /\ at = "close"
  /\ tail # "open" \/ armed
  /\ body' = inbox
  /\ inbox' = <<>>
  /\ at' = "decode"
  /\ flags' = IF tail = "open" THEN flags \union {"timed_out"} ELSE flags
  /\ UNCHANGED <<opts, tail, armed, heard, round, error, purpose, meant, interim,
                 head, trailer, heads>>

(* The next chunk-size line: the stream may be over, the line may be bad.  *)
SizeEndsBody ==
  /\ at = "size"
  /\ \/ inbox = <<>> /\ (tail # "open" \/ armed)
     \/ FirstIs({"badsize", "blank", "sep"})
  /\ at' = "decode"
  /\ Skip(1)
  /\ UNCHANGED <<opts, tail, armed, heard, round, error, purpose, meant, interim,
                 head, body, trailer, flags, heads>>

ReadSizeFails ==
  /\ at = "size"
  /\ \/ inbox = <<>> /\ (tail # "open" \/ armed)
     \/ FirstIs({"badsize", "blank", "sep"})
  /\ at' = "decode"
  /\ flags' = flags \union {IF inbox = <<>> THEN "partial" ELSE "recv"}
  /\ Skip(1)
  /\ UNCHANGED <<opts, tail, armed, heard, round, error, purpose, meant, interim,
                 head, body, trailer, heads>>

(* A chunk is kept in full or not at all; --max-filesize cuts the body     *)
(* after the chunk that passed it.  The line after the chunk is skipped.   *)
ReadChunk ==
  /\ at = "size"
  /\ FirstIs({"size"})
  /\ LET k == inbox[1].k
         whole == Len(inbox) > k
         grown == body \o SubSeq(inbox, 2, k + 1)
         over == Cap # None /\ ~IsRedirect(head) /\ Len(grown) > Cap
     IN  /\ whole \/ tail # "open" \/ armed
         /\ \/ /\ ~whole
               /\ at' = "decode"
               /\ flags' = flags \union {"partial"}
               /\ body' = body
               /\ inbox' = <<>>
            \/ /\ whole /\ over
               /\ at' = "decode"
               /\ flags' = flags \union {"filesize"}
               /\ body' = SubSeq(grown, 1, Cap)
               /\ Skip(k + 1)
            \/ /\ whole /\ ~over
               /\ Len(inbox) > k + 1 \/ tail # "open" \/ armed
               /\ at' = at
               /\ flags' = flags
               /\ body' = grown
               /\ Skip(k + 2)
  /\ UNCHANGED <<opts, tail, armed, heard, round, error, purpose, meant, interim,
                 head, trailer, heads>>

(* The last chunk: trailers to the blank line or the end of the stream,    *)
(* which is no error here; they are appended to the body.                  *)
ReadTrailers ==
  /\ at = "size"
  /\ FirstIs({"zero"})
  /\ LET last == Min({i \in 1..(Len(inbox) + 1) :
                        i > Len(inbox) \/ inbox[i].u = "blank"})
     IN  /\ last <= Len(inbox) \/ tail # "open" \/ armed
         /\ trailer' = last - 2
         /\ body' = body \o SubSeq(inbox, 2, last - 1)
         /\ Skip(last)
  /\ at' = "decode"
  /\ UNCHANGED <<opts, tail, armed, heard, round, error, purpose, meant, interim,
                 head, flags, heads>>

(* Content-Encoding, under --compressed: a body that does not decode, or   *)
(* one in too many layers, is given up.  A coded body decodes only when it *)
(* is there in full; what follows the coded stream is dropped.  The limit  *)
(* of --max-filesize has been tested before, and is not tested again.      *)
Coded == Decompress /\ ~Raw /\ head.coding # "none"

Decodes ==
  /\ head.coding = "good"
  /\ SubSeq(body, 1, Len(body) - trailer) = Contents(1, head.n)

Decode ==
  /\ at = "decode"
  /\ IF Coded
     THEN IF Decodes
          THEN /\ body' = Contents(1, Growth * head.n)
               /\ Ends({})
          ELSE /\ body' = <<>>
               /\ Ends({"bad_encoding"}
                       \union (IF head.coding = "deep" THEN {"too_many"} ELSE {}))
     ELSE Ends({}) /\ body' = body
  /\ UNCHANGED <<opts, inbox, tail, armed, heard, round, purpose, meant, interim,
                 head, trailer, heads>>

ReaderNext ==
  \/ ReadNothing \/ ReadInterim \/ ReadNotHttp \/ ReadHead
  \/ ReadLength \/ ReadToEnd \/ ReadSizeFails \/ ReadChunk \/ ReadTrailers
  \/ Decode

----------------------------------------------------------------------------
(* A body whose header block tells where it ends, and what it should hold. *)
FramedBody ==
  /\ head # None
  /\ ~NoBody(head)
  /\ BodyMode(head) \in {"length", "size"}

(* How many pieces of content a body has when all is well.                 *)
WholeSize == IF Coded THEN Growth * head.n ELSE head.n

DataIn(units) == {i \in DOMAIN units : units[i].u = "data"}
HoldsContents(units, n) ==
  /\ DataIn(units) = 1..n
  /\ \A i \in 1..n : units[i] = Content(i)
=============================================================================
