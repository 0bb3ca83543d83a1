-------------------------------- MODULE Wire --------------------------------
(***************************************************************************)
(* One connection as the client sees it: the units the peer has sent and   *)
(* that nobody has read (a unit is a header block, a chunk-size line, a    *)
(* piece of content, ...), and what follows the last of them.  Tunnel,     *)
(* Reader and Dialogue read from it.                                       *)
(***************************************************************************)
EXTENDS Naturals, Sequences, SequencesExt, FiniteSetsExt

CONSTANTS
  None,         \* no limit, no head, no challenge
  OptionSets    \* the option combinations to consider

(* via: how connect() reaches the server; host: the kind of host a SOCKS   *)
(* request names; user: --proxy-user (without a colon, complete, or too    *)
(* long); auth: --proxy-basic, --proxy-anyauth or --proxy-digest, and      *)
(* --proxy-ntlm; expect: whether build_request asks for the 100-continue   *)
(* dialogue by itself or because of a user header; cap: --max-filesize;    *)
(* answers: the family of answers the server chooses from.                 *)
OptionSpace ==
  [via      : {"direct", "unix", "tunnel", "socks4", "socks4a", "socks5",
               "socks5h"},
   https    : BOOLEAN,
   host     : {"name", "address", "long", "unknown"},
   user     : {"none", "nocolon", "good", "long"},
   auth     : {"basic", "any", "ntlm"},
   expect   : {"no", "auto", "user"},
   suppress : BOOLEAN,
   head     : BOOLEAN,
   raw      : BOOLEAN,
   compressed : BOOLEAN,
   http09   : BOOLEAN,
   cap      : Nat \union {None},
   answers  : STRING]

ASSUME WireAssumption ==
  /\ OptionSets \subseteq OptionSpace
  /\ None \notin Nat

VARIABLES
  opts,    \* the options of the call
  at,      \* where the program is
  inbox,   \* the units sent by the peer and not yet read
  tail,    \* after them: "open" (it waits for us, or says nothing), "eof", "reset"
  armed,   \* a read timeout is set on the socket
  heard,   \* how many header blocks have been read; the last one is number heard
  round,   \* which connection of the call: 1, or 2 after a 417
  error    \* the Err returned, or "none"

Skip(k) == inbox' = SubSeq(inbox, k + 1, Len(inbox))

(* A BufReader dropped with bytes in it takes them along: how many depends *)
(* on what had arrived at its last read.                                   *)
Dropped(units) == {SubSeq(units, k + 1, Len(units)) : k \in 0..Len(units)}

Fails(e) ==
  /\ at' = "done"
  /\ error' = e

(* Nothing is left to read and nothing can come but the end of a wait.     *)
Silent == inbox = <<>> /\ tail = "open"

Unit(u) == [u |-> u]
FirstIs(kinds) == inbox # <<>> /\ inbox[1].u \in kinds
=============================================================================
