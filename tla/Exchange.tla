------------------------------ MODULE Exchange ------------------------------
(***************************************************************************)
(* What execute_request (src/request.rs) promises its caller, whatever the *)
(* connection pool does underneath: a request goes only to the server its  *)
(* options designate, it goes there once or, when the first connection was *)
(* found dead, twice, once more when it asked with Expect: 100-continue    *)
(* and was rejected, and an answer comes only after the request has        *)
(* reached that server.  ConnPool implements this specification.           *)
(***************************************************************************)
EXTENDS Naturals

CONSTANTS
  Jobs,        \* the transfers the caller may ask for
  Target,      \* Target[j]: the endpoint job j designates
  Expecting    \* the jobs sent with Expect: 100-continue

VARIABLES
  phase,       \* "idle" between two calls, "busy" during one
  job,         \* the job of the current or last call
  sends,       \* how many times its request went out
  reached,     \* the endpoints it went to
  rejected,    \* whether the server refused its Expect
  outcome      \* "none" before the end, then "answered" or "failed"

evars == <<phase, job, sends, reached, rejected, outcome>>

Init ==
  /\ phase = "idle"
  /\ job \in Jobs
  /\ sends = 0
  /\ reached = {}
  /\ rejected = FALSE
  /\ outcome = "none"

Start(j) ==
  /\ phase = "idle"
  /\ phase' = "busy"
  /\ job' = j
  /\ sends' = 0
  /\ reached' = {}
  /\ rejected' = FALSE
  /\ outcome' = "none"

Deliver ==
  /\ phase = "busy"
  /\ sends < IF rejected THEN 3 ELSE 2
  /\ sends' = sends + 1
  /\ reached' = reached \union {Target[job]}
  /\ UNCHANGED <<phase, job, rejected, outcome>>

Reject ==
  /\ phase = "busy"
  /\ job \in Expecting
  /\ Target[job] \in reached
  /\ ~rejected
  /\ rejected' = TRUE
  /\ UNCHANGED <<phase, job, sends, reached, outcome>>

Answer ==
  /\ phase = "busy"
  /\ Target[job] \in reached
  /\ phase' = "idle"
  /\ outcome' = "answered"
  /\ UNCHANGED <<job, sends, reached, rejected>>

Fail ==
  /\ phase = "busy"
  /\ phase' = "idle"
  /\ outcome' = "failed"
  /\ UNCHANGED <<job, sends, reached, rejected>>

Next ==
  \/ \E j \in Jobs : Start(j)
  \/ Deliver
  \/ Reject
  \/ Answer
  \/ Fail

(* Nothing is promised about time: a call may wait for its server for ever *)
(* (see CallsReturn of ConnPool).                                          *)
Spec == Init /\ [][Next]_evars
=============================================================================
