-------------------------- MODULE ConnPoolProofs --------------------------
(***************************************************************************)
(* Theorems about ConnPool, for every set of options, servers and replies. *)
(***************************************************************************)
EXTENDS ConnPool, TLAPS

----------------------------------------------------------------------------
(* The operators the actions are built from return well-typed values.      *)

(* Every request has an endpoint to go to.                                 *)
LEMMA DestinationType ==
  ASSUME NEW c \in Configs
  PROVE  Destination(c) \in Endpoints
<1>1. c \in ConfigSpace
  BY ConnPoolAssumption
<1> QED
  BY <1>1 DEF ConfigSpace, Destination, Endpoints, Proxies, UsesTunnel,
              HasConnectTo

(* A new connection is a connection.                                       *)
LEMMA FreshConnType ==
  ASSUME NEW c \in Configs
  PROVE  FreshConn(c) \in Conns
<1>1. c \in ConfigSpace
  BY ConnPoolAssumption
<1>2. Via(c) \in {"direct", "proxy", "tunnel", "socks", "unix"}
  BY DEF Via
<1>3. (c.resolve # None /\ ~HasConnectTo(c) /\ c.proxy = None) \in BOOLEAN
  OBVIOUS
<1> QED
  BY <1>1, <1>2, <1>3, DestinationType
  DEF FreshConn, Conns, ConfigSpace, AllReplyKinds

(* What a reply leaves of a connection is a connection.                    *)
LEMMA AfterReplyType ==
  ASSUME cur \in Conns, NEW k \in AllReplyKinds, NEW u \in UnreadAfter(k)
  PROVE  [cur EXCEPT !.last = k, !.server = ServerAfter(k), !.unread = u]
           \in Conns
<1>1. u \in {"nothing", "leftover"} /\ ServerAfter(k) \in {"open", "closed"}
  BY DEF UnreadAfter, ServerAfter
<1> QED
  BY <1>1 DEF Conns

(* What execute_request_inner saves is a pool entry that holds conn.       *)
LEMMA EntryType ==
  ASSUME NEW c \in Configs, NEW k \in AllReplyKinds, NEW conn \in Conns
  PROVE  Entry(c, k, conn) \in Entries
<1>1. c \in ConfigSpace
  BY ConnPoolAssumption
<1>2. SaveKey(c) \in Keys
  BY <1>1 DEF ConfigSpace, SaveKey, KeyOf, Keys, Proxies
<1> QED
  BY <1>2 DEF Entry, Entries, Versions

----------------------------------------------------------------------------
(* While an attempt holds a connection it holds one of the pool's or a     *)
(* fresh one, never None.                                                  *)
HoldsConn == pc \in {"send", "read"} => cur \in Conns

(* How often the request went out, by the state of execute_request: not at *)
(* all before the first write, then only on the kind of connection the     *)
(* attempt uses; the second attempt finds the pool empty and is fresh, and *)
(* so is the connection after a 417.                                       *)
SendsByAttempt ==
  /\ pooledSends \in 0..1 /\ freshSends \in 0..2
  /\ ~rejected => freshSends <= 1
  /\ tries = 1 /\ ~rejected /\ pc \in {"connect", "send"} =>
       pooledSends = 0 /\ freshSends = 0
  /\ tries = 1 /\ ~rejected /\ pc \in {"read", "settle"} /\ source = "pool" =>
       freshSends = 0
  /\ tries = 2 /\ pc # "idle" => source = "new" /\ pool = None
  /\ tries = 2 /\ ~rejected /\ pc \in {"connect", "send"} => freshSends = 0
  /\ rejected /\ pc \in {"connect", "send"} => freshSends <= 1
  /\ rejected /\ pc \in {"send", "read", "settle"} => source = "new"

(* Once an attempt has looked at the pool, the pool holds nothing for its  *)
(* request, and still holds nothing for it when a 417 makes it look again. *)
MatchSpent ==
  pc \in {"send", "read", "settle"} \/ (rejected /\ pc = "connect") =>
    ~PoolMatches(req)

LEMMA MatchSpentNext == TypeOK /\ MatchSpent /\ [Next]_vars => MatchSpent'
<1> SUFFICES ASSUME TypeOK, MatchSpent, [Next]_vars PROVE MatchSpent'
  OBVIOUS
<1>1. ASSUME NEW c \in Configs, Begin(c) PROVE MatchSpent'
  BY <1>1 DEF Begin, MatchSpent
<1>2. CASE ConnectFromPool
  BY <1>2 DEF ConnectFromPool, MatchSpent, PoolMatches
<1>3. CASE ConnectFresh \/ ConnectFails
  BY <1>3 DEF ConnectFresh, ConnectFails, MatchSpent, PoolMatches
<1>4. CASE Send \/ SendIntoClosed
  BY <1>4 DEF Send, SendIntoClosed, sent, MatchSpent, PoolMatches
<1>5. CASE SendFails \/ SendTimesOut \/ ReadEnds \/ ReadTimesOut
             \/ ReadLeftoverRefused
  BY <1>5 DEF SendFails, SendTimesOut, ReadEnds, ReadTimesOut,
              ReadLeftoverRefused, AttemptFails, sent, MatchSpent, PoolMatches
<1>6. CASE (\E k \in ReplyKinds : ReadReply(k)) \/ ReadLeftover
  BY <1>6 DEF ReadReply, ReadLeftover, Finish, MatchSpent
<1>7. CASE Rejected
  BY <1>7 DEF Rejected, MatchSpent, PoolMatches
<1>8. CASE RetryFresh
  BY <1>8 DEF RetryFresh, MatchSpent, PoolMatches
<1>9. CASE ReturnError
  BY <1>9 DEF ReturnError, MatchSpent
<1>10. CASE ServerClosesIdle
  <2>1. pool \in Entries
    BY <1>10 DEF ServerClosesIdle, TypeOK
  <2>2. pool'.key = pool.key /\ pool'.usedResolve = pool.usedResolve
    BY <1>10, <2>1 DEF ServerClosesIdle, Entries
  <2> QED
    BY <1>10, <2>2 DEF ServerClosesIdle, sent, MatchSpent, PoolMatches
<1>11. CASE ServerClosesTaken
  BY <1>11 DEF ServerClosesTaken, sent, MatchSpent, PoolMatches
<1>12. CASE UNCHANGED vars
  BY <1>12 DEF vars, MatchSpent, PoolMatches
<1> QED
  BY <1>1, <1>2, <1>3, <1>4, <1>5, <1>6, <1>7, <1>8, <1>9, <1>10, <1>11,
     <1>12 DEF Next, Client

(* The inductive invariant of the type, resend and error theorems.         *)
RetryInv == TypeOK /\ HoldsConn /\ SendsByAttempt /\ StaleErrorHidden

LEMMA RetryInvInit == Init => RetryInv
<1> SUFFICES ASSUME Init PROVE RetryInv
  OBVIOUS
<1>1. TypeOK
  <2>1. 0 \in 0..MaxTransfers
    BY ConnPoolAssumption
  <2>2. rejected \in BOOLEAN
    BY DEF Init
  <2> QED
    BY <2>1, <2>2 DEF Init, TypeOK, Errors, Versions
<1>2. HoldsConn
  BY DEF Init, HoldsConn
<1>3. SendsByAttempt
  BY DEF Init, SendsByAttempt
<1>4. StaleErrorHidden
  BY DEF Init, StaleErrorHidden
<1> QED
  BY <1>1, <1>2, <1>3, <1>4 DEF RetryInv

LEMMA RetryInvNext == RetryInv /\ MatchSpent /\ [Next]_vars => RetryInv'
<1> SUFFICES ASSUME RetryInv, MatchSpent, [Next]_vars PROVE RetryInv'
  OBVIOUS
<1> USE DEF RetryInv
<1>1. ASSUME NEW c \in Configs, Begin(c) PROVE RetryInv'
  <2>1. transfers' \in 0..MaxTransfers
    BY <1>1, ConnPoolAssumption DEF Begin, TypeOK
  <2>2. rejected' \in BOOLEAN
    BY <1>1 DEF Begin
  <2>3. TypeOK'
    BY <1>1, <2>1, <2>2 DEF Begin, TypeOK, Errors
  <2>4. HoldsConn' /\ SendsByAttempt' /\ StaleErrorHidden'
    BY <1>1 DEF Begin, TypeOK, HoldsConn, SendsByAttempt, StaleErrorHidden
  <2> QED
    BY <2>3, <2>4
<1>2. CASE ConnectFromPool
  <2>1. pool \in Entries
    BY <1>2 DEF ConnectFromPool, PoolMatches, TypeOK
  <2>2. pool.conn \in Conns /\ pool.version \in Versions
    BY <2>1 DEF Entries
  <2>3. TypeOK'
    BY <1>2, <2>2 DEF ConnectFromPool, TypeOK, sent
  <2>4. HoldsConn'
    BY <1>2, <2>2 DEF ConnectFromPool, HoldsConn
  <2>5. SendsByAttempt' /\ StaleErrorHidden'
    BY <1>2 DEF ConnectFromPool, PoolMatches, TypeOK, SendsByAttempt,
                StaleErrorHidden, sent, MatchSpent
  <2> QED
    BY <2>3, <2>4, <2>5
<1>3. CASE ConnectFresh
  <2>1. FreshConn(req) \in Conns
    BY FreshConnType DEF TypeOK
  <2>2. TypeOK' /\ HoldsConn'
    BY <1>3, <2>1 DEF ConnectFresh, TypeOK, HoldsConn, sent, Versions
  <2>3. SendsByAttempt' /\ StaleErrorHidden'
    BY <1>3 DEF ConnectFresh, TypeOK, SendsByAttempt, StaleErrorHidden, sent
  <2> QED
    BY <2>2, <2>3
<1>4. CASE ConnectFails
  BY <1>4 DEF ConnectFails, TypeOK, HoldsConn, SendsByAttempt,
              StaleErrorHidden, IsStalePoolError, sent, Versions, Errors
<1>5. CASE Send
  <2>1. cur.end \in Endpoints
    BY <1>5 DEF Send, HoldsConn, Conns
  <2>2. SendsByAttempt'
    BY <1>5 DEF Send, TypeOK, SendsByAttempt
  <2>3. TypeOK'
    BY <1>5, <2>1, <2>2 DEF Send, TypeOK, SendsByAttempt
  <2>4. HoldsConn' /\ StaleErrorHidden'
    BY <1>5 DEF Send, HoldsConn, StaleErrorHidden
  <2> QED
    BY <2>2, <2>3, <2>4
<1>6. CASE SendIntoClosed
  BY <1>6 DEF SendIntoClosed, TypeOK, HoldsConn, SendsByAttempt,
              StaleErrorHidden, sent
<1>7. ASSUME NEW e \in Errors, AttemptFails(e), pc \in {"send", "read"}
      PROVE  RetryInv'
  BY <1>7 DEF AttemptFails, TypeOK, HoldsConn, SendsByAttempt,
              StaleErrorHidden, sent
<1>8. CASE SendFails \/ SendTimesOut
  BY <1>7, <1>8 DEF SendFails, SendTimesOut, Errors
<1>9. CASE ReadEnds
  BY <1>7, <1>9 DEF ReadEnds, Errors
<1>10. CASE ReadTimesOut
  BY <1>7, <1>10 DEF ReadTimesOut, Errors
<1>11. CASE ReadLeftoverRefused
  BY <1>7, <1>11 DEF ReadLeftoverRefused, Errors
<1>12. ASSUME NEW k \in AllReplyKinds, NEW conn \in Conns, Finish(k, conn),
              answers' \in {"own", "earlier"}, pc = "read"
       PROVE  RetryInv'
  <2>1. pool' \in Entries \union {None}
    BY <1>12, EntryType DEF Finish, TypeOK
  <2>2. TypeOK'
    BY <1>12, <2>1 DEF Finish, TypeOK, sent
  <2>3. HoldsConn' /\ SendsByAttempt' /\ StaleErrorHidden'
    BY <1>12 DEF Finish, TypeOK, HoldsConn, SendsByAttempt, StaleErrorHidden,
                 sent
  <2> QED
    BY <2>2, <2>3
<1>13. ASSUME NEW k \in ReplyKinds, ReadReply(k) PROVE RetryInv'
  <2>1. k \in AllReplyKinds /\ cur \in Conns
    BY <1>13, ConnPoolAssumption DEF ReadReply, HoldsConn
  <2>2. PICK u \in UnreadAfter(k) :
          Finish(k, [cur EXCEPT !.last = k, !.server = ServerAfter(k),
                                !.unread = u])
    BY <1>13 DEF ReadReply
  <2> QED
    BY <1>12, <1>13, <2>1, <2>2, AfterReplyType DEF ReadReply
<1>14. CASE ReadLeftover
  <2>1. PICK u \in {"nothing", "leftover"} :
          Finish("framed", [cur EXCEPT !.unread = u, !.last = "framed"])
    BY <1>14 DEF ReadLeftover
  <2>2. [cur EXCEPT !.unread = u, !.last = "framed"] \in Conns
    BY <1>14 DEF ReadLeftover, HoldsConn, Conns, AllReplyKinds
  <2> QED
    BY <1>12, <1>14, <2>1, <2>2 DEF ReadLeftover, AllReplyKinds
<1>15. CASE RetryFresh
  BY <1>15 DEF RetryFresh, MayRetry, TypeOK, HoldsConn, SendsByAttempt,
               StaleErrorHidden, sent, Errors
<1>16. CASE ReturnError
  BY <1>16 DEF ReturnError, MayRetry, TypeOK, HoldsConn, SendsByAttempt,
               StaleErrorHidden, sent
<1>17. CASE ServerClosesIdle
  <2>1. pool' \in Entries
    BY <1>17 DEF ServerClosesIdle, TypeOK, Entries, Conns
  <2> QED
    BY <1>17, <2>1 DEF ServerClosesIdle, TypeOK, HoldsConn, SendsByAttempt,
                       StaleErrorHidden, sent
<1>18. CASE ServerClosesTaken
  <2>1. cur' \in Conns
    BY <1>18 DEF ServerClosesTaken, HoldsConn, Conns
  <2> QED
    BY <1>18, <2>1 DEF ServerClosesTaken, TypeOK, HoldsConn, SendsByAttempt,
                       StaleErrorHidden, sent
<1>19. CASE UNCHANGED vars
  BY <1>19 DEF vars, TypeOK, HoldsConn, SendsByAttempt, StaleErrorHidden
<1>20. CASE Rejected
  BY <1>20 DEF Rejected, TypeOK, HoldsConn, SendsByAttempt, StaleErrorHidden
<1> QED
  BY <1>1, <1>2, <1>3, <1>4, <1>5, <1>6, <1>8, <1>9, <1>10, <1>11, <1>13,
     <1>14, <1>15, <1>16, <1>17, <1>18, <1>19, <1>20 DEF Next, Client

LEMMA RetryInvAlways == Spec => []RetryInv
<1>1. Init => RetryInv /\ MatchSpent
  BY RetryInvInit DEF Init, MatchSpent
<1>2. RetryInv => TypeOK
  BY DEF RetryInv
<1> QED
  BY <1>1, <1>2, RetryInvNext, MatchSpentNext, PTL DEF Spec

(* Every variable keeps its type.                                          *)
THEOREM TypeCorrect == Spec => []TypeOK
<1>1. RetryInv => TypeOK
  BY DEF RetryInv
<1> QED
  BY <1>1, RetryInvAlways, PTL

(* execute_request() sends a request at most once on a reused connection   *)
(* and at most once on a new one, or twice on new ones when the first of   *)
(* its connections answered 417 on the Expect path.                        *)
THEOREM NoSecondFreshSend == Spec => []OncePerConnectionKind
<1>1. RetryInv => OncePerConnectionKind
  BY DEF RetryInv, SendsByAttempt, OncePerConnectionKind
<1> QED
  BY <1>1, RetryInvAlways, PTL

(* A pooled connection found dead is never what a caller is told about.    *)
THEOREM DeadPoolNeverReported == Spec => []StaleErrorHidden
<1>1. RetryInv => StaleErrorHidden
  BY DEF RetryInv
<1> QED
  BY <1>1, RetryInvAlways, PTL

----------------------------------------------------------------------------
(* Destinations: the key of an entry determines where its connection ends. *)

LEMMA KeyDeterminesDestination ==
  ASSUME RoutedByOrigin, UnixSocket = None,
         NEW c \in Configs, NEW d \in Configs,
         c.scheme = "http", d.scheme = "http", TakeKey(d) = SaveKey(c)
  PROVE  Destination(c) = Destination(d)
<1>1. c \in ConfigSpace /\ d \in ConfigSpace
  BY ConnPoolAssumption
<1>2. /\ c.proxy \notin SocksProxies /\ (c.proxy # None => ~HasConnectTo(c))
      /\ d.proxy \notin SocksProxies /\ (d.proxy # None => ~HasConnectTo(d))
  BY DEF RoutedByOrigin
<1>3. c.proxy # None => c.proxy \in HttpProxies
  BY <1>1, <1>2 DEF ConfigSpace, Proxies
<1>4. d.proxy # None => d.proxy \in HttpProxies
  BY <1>1, <1>2 DEF ConfigSpace, Proxies
<1>5. None \notin HttpProxies
  BY ConnPoolAssumption DEF Proxies
<1>6. (UsesTunnel(c) <=> SavesAsTunnel(c)) /\ (UsesTunnel(d) <=> SavesAsTunnel(d))
  BY <1>2, <1>3, <1>4, <1>5 DEF UsesTunnel, SavesAsTunnel
<1>7. CASE c.proxy # None /\ ~UsesTunnel(c)
  <2>1. d.proxy = c.proxy /\ ~UsesTunnel(d)
    BY <1>6, <1>7 DEF TakeKey, SaveKey, KeyOf
  <2> QED
    BY <1>2, <1>3, <1>4, <1>7, <2>1 DEF Destination
<1>8. CASE ~(c.proxy # None /\ ~UsesTunnel(c))
  <2>1. d.origin = c.origin
    BY <1>6, <1>8 DEF TakeKey, SaveKey, KeyOf
  <2>2. c.proxy = d.proxy /\ c.connectTo = d.connectTo /\ c.resolve = d.resolve
    BY <2>1 DEF RoutedByOrigin
  <2>3. UsesTunnel(c) <=> UsesTunnel(d)
    BY <2>2 DEF UsesTunnel, HasConnectTo
  <2> QED
    BY <2>1, <2>2, <2>3 DEF Destination, HasConnectTo
<1> QED
  BY <1>7, <1>8

(* The pooled connection ends where every request it matches wants to go.  *)
PoolRoutes ==
  pool # None /\ UnixSocket = None =>
    \A c \in Configs :
      c.scheme = "http" /\ TakeKey(c) = pool.key =>
        pool.conn.end = Destination(c)

RouteInv == PoolRoutes /\ RightDestination

LEMMA RouteInvNext ==
  ASSUME RoutedByOrigin
  PROVE  RetryInv /\ RouteInv /\ [Next]_vars => RouteInv'
<1> SUFFICES ASSUME RetryInv, RouteInv, [Next]_vars PROVE RouteInv'
  OBVIOUS
<1> USE DEF RouteInv
<1>1. ASSUME NEW c \in Configs, Begin(c) PROVE RouteInv'
  BY <1>1 DEF Begin, PoolRoutes, RightDestination
<1>2. CASE ConnectFromPool
  <2>1. pool.conn.end = Destination(req)
    BY <1>2 DEF ConnectFromPool, PoolMatches, PoolRoutes, RetryInv, TypeOK
  <2> QED
    BY <1>2, <2>1 DEF ConnectFromPool, PoolRoutes, RightDestination, sent
<1>3. CASE ConnectFresh
  BY <1>3 DEF ConnectFresh, FreshConn, PoolRoutes, RightDestination, sent
<1>4. CASE ConnectFails
  BY <1>4 DEF ConnectFails, PoolRoutes, RightDestination, sent
<1>5. CASE Send
  BY <1>5 DEF Send, PoolRoutes, RightDestination
<1>6. CASE SendIntoClosed
  BY <1>6 DEF SendIntoClosed, PoolRoutes, RightDestination, sent
<1>7. ASSUME NEW e, AttemptFails(e) PROVE RouteInv'
  BY <1>7 DEF AttemptFails, PoolRoutes, RightDestination, sent
<1>8. CASE SendFails \/ SendTimesOut \/ ReadEnds \/ ReadTimesOut
             \/ ReadLeftoverRefused
  BY <1>7, <1>8 DEF SendFails, SendTimesOut, ReadEnds, ReadTimesOut,
              ReadLeftoverRefused
<1>9. ASSUME NEW k, NEW conn, conn.end = cur.end, Finish(k, conn), pc = "read"
      PROVE  RouteInv'
  <2>1. RightDestination'
    BY <1>9 DEF Finish, RightDestination, sent
  <2>2. CASE PoolOk(req, k)
    <3> SUFFICES ASSUME UnixSocket = None, NEW c \in Configs,
                        c.scheme = "http", TakeKey(c) = pool'.key
                 PROVE  pool'.conn.end = Destination(c)
      BY <2>1 DEF PoolRoutes
    <3>1. pool' = Entry(req, k, conn) /\ req.scheme = "http" /\ req \in Configs
      BY <1>9, <2>2 DEF Finish, PoolOk, RetryInv, TypeOK
    <3>2. pool'.key = SaveKey(req) /\ pool'.conn.end = cur.end
      BY <1>9, <3>1 DEF Entry
    <3>3. cur.end = Destination(req)
      BY <1>9 DEF RightDestination
    <3> QED
      BY <3>1, <3>2, <3>3, KeyDeterminesDestination
  <2>3. CASE ~PoolOk(req, k)
    BY <1>9, <2>1, <2>3 DEF Finish, PoolRoutes
  <2> QED
    BY <2>2, <2>3
<1>10. cur \in Conns =>
         \A l, s, u : [cur EXCEPT !.last = l, !.server = s,
                                  !.unread = u].end = cur.end
  BY DEF Conns
<1>11. cur \in Conns =>
         \A l, u : [cur EXCEPT !.unread = u, !.last = l].end = cur.end
  BY DEF Conns
<1>12. ASSUME NEW k \in ReplyKinds, ReadReply(k) PROVE RouteInv'
  <2>1. PICK u \in UnreadAfter(k) :
          Finish(k, [cur EXCEPT !.last = k, !.server = ServerAfter(k),
                                !.unread = u])
    BY <1>12 DEF ReadReply
  <2>2. pc = "read" /\ cur \in Conns
    BY <1>12 DEF ReadReply, RetryInv, HoldsConn
  <2> QED
    BY <1>9, <1>10, <2>1, <2>2
<1>13. CASE ReadLeftover
  <2>1. PICK u \in {"nothing", "leftover"} :
          Finish("framed", [cur EXCEPT !.unread = u, !.last = "framed"])
    BY <1>13 DEF ReadLeftover
  <2>2. pc = "read" /\ cur \in Conns
    BY <1>13 DEF ReadLeftover, RetryInv, HoldsConn
  <2> QED
    BY <1>9, <1>11, <2>1, <2>2
<1>14. CASE RetryFresh \/ Rejected
  BY <1>14 DEF RetryFresh, Rejected, PoolRoutes, RightDestination, sent
<1>15. CASE ReturnError
  BY <1>15 DEF ReturnError, PoolRoutes, RightDestination, sent
<1>16. CASE ServerClosesIdle
  <2>1. pool \in Entries
    BY <1>16 DEF ServerClosesIdle, RetryInv, TypeOK
  <2>2. pool'.key = pool.key /\ pool'.conn.end = pool.conn.end
    BY <1>16, <2>1 DEF ServerClosesIdle, Entries, Conns
  <2> QED
    BY <1>16, <2>2 DEF ServerClosesIdle, PoolRoutes, RightDestination, sent
<1>17. CASE ServerClosesTaken
  <2>1. cur'.end = cur.end
    BY <1>17 DEF ServerClosesTaken, RetryInv, HoldsConn, Conns
  <2> QED
    BY <1>17, <2>1 DEF ServerClosesTaken, PoolRoutes, RightDestination, sent
<1>18. CASE UNCHANGED vars
  BY <1>18 DEF vars, PoolRoutes, RightDestination
<1> QED
  BY <1>1, <1>2, <1>3, <1>4, <1>5, <1>6, <1>8, <1>12, <1>13, <1>14, <1>15,
     <1>16, <1>17, <1>18 DEF Next, Client

(* When the command line gives every origin one route, without SOCKS and   *)
(* without --connect-to through a proxy, connection reuse never sends a    *)
(* request to a server other than the one it is meant for.                 *)
THEOREM ReuseKeepsDestination ==
  ASSUME RoutedByOrigin
  PROVE  Spec => []RightDestination
<1>1. Init => RouteInv
  BY DEF Init, RouteInv, PoolRoutes, RightDestination
<1>2. RetryInv /\ RouteInv /\ [Next]_vars => RouteInv'
  BY RouteInvNext
<1>3. RouteInv => RightDestination
  BY DEF RouteInv
<1> QED
  BY <1>1, <1>2, <1>3, RetryInvAlways, PTL DEF Spec

----------------------------------------------------------------------------
(* What a connection carries over to the next request.                     *)

(* The version noted beside a pooled connection, and the one a taken       *)
(* connection is used with, tell of the reply it last carried.             *)
VersionNoted ==
  pool # None => (pool.version = "1.0" <=> pool.conn.last = "http10ka")

PinInv == VersionNoted /\ Http10Pinned

LEMMA PinInvNext == RetryInv /\ PinInv /\ [Next]_vars => PinInv'
<1> SUFFICES ASSUME RetryInv, PinInv, [Next]_vars PROVE PinInv'
  OBVIOUS
<1> USE DEF PinInv
<1>1. ASSUME NEW c \in Configs, Begin(c) PROVE PinInv'
  BY <1>1 DEF Begin, VersionNoted, Http10Pinned
<1>2. CASE ConnectFromPool
  BY <1>2 DEF ConnectFromPool, PoolMatches, VersionNoted, Http10Pinned
<1>3. CASE ConnectFresh
  BY <1>3 DEF ConnectFresh, FreshConn, VersionNoted, Http10Pinned
<1>4. CASE ConnectFails
  BY <1>4 DEF ConnectFails, VersionNoted, Http10Pinned
<1>5. CASE Send \/ SendIntoClosed
  BY <1>5 DEF Send, SendIntoClosed, VersionNoted, Http10Pinned
<1>6. CASE SendFails \/ SendTimesOut \/ ReadEnds \/ ReadTimesOut
             \/ ReadLeftoverRefused
  BY <1>6 DEF SendFails, SendTimesOut, ReadEnds, ReadTimesOut,
              ReadLeftoverRefused,
              AttemptFails, VersionNoted, Http10Pinned
<1>7. ASSUME NEW k, NEW conn, Finish(k, conn),
             conn.last = "http10ka" <=> k = "http10ka"
      PROVE  PinInv'
  <2>1. Http10Pinned'
    BY <1>7 DEF Finish, Http10Pinned
  <2>2. CASE PoolOk(req, k)
    <3>1. pool'.conn = conn /\ (pool'.version = "1.0" <=> Http10Response(k))
      BY <1>7, <2>2 DEF Finish, Entry
    <3>2. Http10Response(k) <=> k = "http10ka"
      BY <2>2 DEF PoolOk, Http10Response, KeepAlive
    <3> QED
      BY <1>7, <2>1, <3>1, <3>2 DEF VersionNoted
  <2>3. CASE ~PoolOk(req, k)
    BY <1>7, <2>1, <2>3 DEF Finish, VersionNoted
  <2> QED
    BY <2>2, <2>3
<1>8. ASSUME NEW k \in ReplyKinds, ReadReply(k) PROVE PinInv'
  <2>1. cur \in Conns
    BY <1>8 DEF ReadReply, RetryInv, HoldsConn
  <2>2. PICK u \in UnreadAfter(k) :
          Finish(k, [cur EXCEPT !.last = k, !.server = ServerAfter(k),
                                !.unread = u])
    BY <1>8 DEF ReadReply
  <2>3. [cur EXCEPT !.last = k, !.server = ServerAfter(k),
                    !.unread = u].last = k
    BY <2>1 DEF Conns
  <2> QED
    BY <1>7, <2>2, <2>3
<1>9. CASE ReadLeftover
  <2>1. cur \in Conns
    BY <1>9 DEF ReadLeftover, RetryInv, HoldsConn
  <2>2. PICK u \in {"nothing", "leftover"} :
          Finish("framed", [cur EXCEPT !.unread = u, !.last = "framed"])
    BY <1>9 DEF ReadLeftover
  <2>3. [cur EXCEPT !.unread = u, !.last = "framed"].last = "framed"
    BY <2>1 DEF Conns
  <2> QED
    BY <1>7, <2>2, <2>3
<1>10. CASE Rejected \/ RetryFresh \/ ReturnError
  BY <1>10 DEF Rejected, RetryFresh, ReturnError, VersionNoted, Http10Pinned
<1>11. CASE ServerClosesIdle
  <2>1. pool \in Entries
    BY <1>11 DEF ServerClosesIdle, RetryInv, TypeOK
  <2>2. pool'.version = pool.version /\ pool'.conn.last = pool.conn.last
    BY <1>11, <2>1 DEF ServerClosesIdle, Entries, Conns
  <2> QED
    BY <1>11, <2>2 DEF ServerClosesIdle, VersionNoted, Http10Pinned
<1>12. CASE ServerClosesTaken
  <2>1. cur'.last = cur.last
    BY <1>12 DEF ServerClosesTaken, RetryInv, HoldsConn, Conns
  <2> QED
    BY <1>12, <2>1 DEF ServerClosesTaken, VersionNoted, Http10Pinned
<1>13. CASE UNCHANGED vars
  BY <1>13 DEF vars, VersionNoted, Http10Pinned
<1> QED
  BY <1>1, <1>2, <1>3, <1>4, <1>5, <1>6, <1>8, <1>9, <1>10, <1>11, <1>12,
     <1>13 DEF Next, Client

(* The HTTP/1.0 downgrade is in force exactly for a connection whose last  *)
(* reply was a kept-alive HTTP/1.0 one with a body that was read: neither  *)
(* the flag of connect() nor the version saved in the pool is ever that of *)
(* another connection.                                                     *)
THEOREM DowngradeFollowsConnection == Spec => []Http10Pinned
<1>1. Init => PinInv
  BY DEF Init, PinInv, VersionNoted, Http10Pinned
<1>2. PinInv => Http10Pinned
  BY DEF PinInv
<1> QED
  BY <1>1, <1>2, PinInvNext, RetryInvAlways, PTL DEF Spec

(* A connection in use carries nothing of an earlier reply.                *)
UsedClean == pc \in {"send", "read"} => cur.unread = "nothing"

CleanInv == PooledClean /\ UsedClean /\ AnswerIsOwn

LEMMA CleanInvNext ==
  ASSUME "bailed" \notin ReplyKinds
  PROVE  RetryInv /\ CleanInv /\ [Next]_vars => CleanInv'
<1> SUFFICES ASSUME RetryInv, CleanInv, [Next]_vars PROVE CleanInv'
  OBVIOUS
<1> USE DEF CleanInv
<1>1. ASSUME NEW c \in Configs, Begin(c) PROVE CleanInv'
  BY <1>1 DEF Begin, PooledClean, UsedClean, AnswerIsOwn
<1>2. CASE ConnectFromPool
  BY <1>2 DEF ConnectFromPool, PoolMatches, PooledClean, UsedClean, AnswerIsOwn
<1>3. CASE ConnectFresh
  BY <1>3 DEF ConnectFresh, FreshConn, PooledClean, UsedClean, AnswerIsOwn
<1>4. CASE ConnectFails
  BY <1>4 DEF ConnectFails, PooledClean, UsedClean, AnswerIsOwn
<1>5. CASE Send \/ SendIntoClosed
  BY <1>5 DEF Send, SendIntoClosed, PooledClean, UsedClean, AnswerIsOwn
<1>6. CASE SendFails \/ SendTimesOut \/ ReadEnds \/ ReadTimesOut
             \/ ReadLeftoverRefused
  BY <1>6 DEF SendFails, SendTimesOut, ReadEnds, ReadTimesOut,
              ReadLeftoverRefused,
              AttemptFails, PooledClean, UsedClean, AnswerIsOwn
<1>7. ASSUME NEW k \in ReplyKinds, ReadReply(k) PROVE CleanInv'
  <2>1. cur \in Conns
    BY <1>7 DEF ReadReply, RetryInv, HoldsConn
  <2>2. PICK u \in UnreadAfter(k) :
          Finish(k, [cur EXCEPT !.last = k, !.server = ServerAfter(k),
                                !.unread = u])
    BY <1>7 DEF ReadReply
  <2>3. UsedClean' /\ AnswerIsOwn'
    BY <1>7, <2>2 DEF ReadReply, Finish, UsedClean, AnswerIsOwn
  <2>4. CASE PoolOk(req, k)
    <3>1. k # "flagged" /\ k # "bailed"
      BY <2>4 DEF PoolOk
    <3>2. u = "nothing"
      BY <2>2, <3>1 DEF UnreadAfter
    <3>3. pool'.conn.unread = "nothing"
      BY <2>1, <2>2, <2>4, <3>2 DEF Finish, Entry, Conns
    <3> QED
      BY <2>3, <3>3 DEF PooledClean
  <2>5. CASE ~PoolOk(req, k)
    BY <2>2, <2>3, <2>5 DEF Finish, PooledClean
  <2> QED
    BY <2>4, <2>5
<1>8. ~ReadLeftover
  BY DEF ReadLeftover, UsedClean
<1>9. CASE Rejected \/ RetryFresh \/ ReturnError
  BY <1>9 DEF Rejected, RetryFresh, ReturnError, PooledClean, UsedClean,
              AnswerIsOwn
<1>10. CASE ServerClosesIdle
  <2>1. pool \in Entries
    BY <1>10 DEF ServerClosesIdle, RetryInv, TypeOK
  <2>2. pool'.conn.unread = pool.conn.unread
    BY <1>10, <2>1 DEF ServerClosesIdle, Entries, Conns
  <2> QED
    BY <1>10, <2>2 DEF ServerClosesIdle, PooledClean, UsedClean, AnswerIsOwn
<1>11. CASE ServerClosesTaken
  <2>1. cur'.unread = cur.unread
    BY <1>11 DEF ServerClosesTaken, RetryInv, HoldsConn, Conns
  <2> QED
    BY <1>11, <2>1 DEF ServerClosesTaken, PooledClean, UsedClean, AnswerIsOwn
<1>12. CASE UNCHANGED vars
  BY <1>12 DEF vars, PooledClean, UsedClean, AnswerIsOwn
<1> QED
  BY <1>1, <1>2, <1>3, <1>4, <1>5, <1>6, <1>7, <1>8, <1>9, <1>10, <1>11,
     <1>12 DEF Next, Client

LEMMA CleanInvAlways ==
  ASSUME "bailed" \notin ReplyKinds
  PROVE  Spec => []CleanInv
<1>1. Init => CleanInv
  BY DEF Init, CleanInv, PooledClean, UsedClean, AnswerIsOwn
<1>2. RetryInv /\ CleanInv /\ [Next]_vars => CleanInv'
  BY CleanInvNext
<1> QED
  BY <1>1, <1>2, RetryInvAlways, PTL DEF Spec

(* When no reader gives a body up half-way, the flags of the response are  *)
(* enough for execute_request_inner to keep every connection with unread   *)
(* bytes out of the pool.                                                  *)
THEOREM OnlyCleanPooled ==
  ASSUME "bailed" \notin ReplyKinds
  PROVE  Spec => []PooledClean
<1>1. CleanInv => PooledClean
  BY DEF CleanInv
<1>2. Spec => []CleanInv
  BY CleanInvAlways
<1> QED
  BY <1>1, <1>2, PTL

(* On the same condition the reply a request gets is the answer to it.     *)
THEOREM RepliesMatchRequests ==
  ASSUME "bailed" \notin ReplyKinds
  PROVE  Spec => []AnswerIsOwn
<1>1. CleanInv => AnswerIsOwn
  BY DEF CleanInv
<1>2. Spec => []CleanInv
  BY CleanInvAlways
<1> QED
  BY <1>1, <1>2, PTL

----------------------------------------------------------------------------
(* The safety part of the refinement of Exchange.                          *)

(* Where a server can answer, the request has arrived.                     *)
Delivered == pc = "read" /\ cur.server = "open" => cur.end \in reached

LEMMA DeliveredNext == RetryInv /\ Delivered /\ [Next]_vars => Delivered'
<1> SUFFICES ASSUME RetryInv, Delivered, [Next]_vars PROVE Delivered'
  OBVIOUS
<1>1. ASSUME NEW c \in Configs, Begin(c) PROVE Delivered'
  BY <1>1 DEF Begin, Delivered
<1>2. CASE ConnectFromPool \/ ConnectFresh \/ ConnectFails
  BY <1>2 DEF ConnectFromPool, ConnectFresh, ConnectFails, Delivered
<1>3. CASE Send \/ SendIntoClosed
  BY <1>3 DEF Send, SendIntoClosed, Delivered
<1>4. CASE SendFails \/ SendTimesOut \/ ReadEnds \/ ReadTimesOut
             \/ ReadLeftoverRefused
  BY <1>4 DEF SendFails, SendTimesOut, ReadEnds, ReadTimesOut,
              ReadLeftoverRefused,
              AttemptFails, Delivered
<1>5. CASE (\E k \in ReplyKinds : ReadReply(k)) \/ ReadLeftover
  BY <1>5 DEF ReadReply, ReadLeftover, Finish, Delivered
<1>6. CASE Rejected \/ RetryFresh \/ ReturnError
  BY <1>6 DEF Rejected, RetryFresh, ReturnError, Delivered
<1>7. CASE ServerClosesIdle
  BY <1>7 DEF ServerClosesIdle, Delivered, sent
<1>8. CASE ServerClosesTaken
  BY <1>8 DEF ServerClosesTaken, Delivered
<1>9. CASE UNCHANGED vars
  BY <1>9 DEF vars, Delivered
<1> QED
  BY <1>1, <1>2, <1>3, <1>4, <1>5, <1>6, <1>7, <1>8, <1>9 DEF Next, Client

(* Each step of the pool is a step of Exchange, or leaves its state alone. *)
LEMMA StepRefines ==
  RetryInv /\ RouteInv /\ CleanInv /\ Delivered /\ [Next]_vars
    => [Exch!Next]_(Exch!evars)
<1> SUFFICES ASSUME RetryInv, RouteInv, CleanInv, Delivered, [Next]_vars
             PROVE  [Exch!Next]_(Exch!evars)
  OBVIOUS
<1> USE DEF Exch!evars, Exch!Next
<1>1. req \in Configs /\ pooledSends \in 0..1 /\ freshSends \in 0..2
  BY DEF RetryInv, TypeOK, SendsByAttempt
<1>2. [c \in Configs |-> Destination(c)][req] = Destination(req)
  BY <1>1
<1>3. ASSUME NEW c \in Configs, Begin(c) PROVE \E j \in Configs : Exch!Start(j)
  BY <1>3 DEF Begin, Exch!Start
<1>4. CASE ConnectFromPool \/ ConnectFresh \/ ConnectFails
  BY <1>4 DEF ConnectFromPool, ConnectFresh, ConnectFails, sent
<1>5. CASE Send
  <2>1. cur.end = Destination(req)
    BY <1>5 DEF Send, RouteInv, RightDestination
  <2>2. pooledSends + freshSends < IF rejected THEN 3 ELSE 2
    BY <1>1, <1>5 DEF Send, RetryInv, TypeOK, SendsByAttempt
  <2>3. pooledSends' + freshSends' = (pooledSends + freshSends) + 1
    BY <1>1, <1>5 DEF Send
  <2>4. Exch!Deliver
    BY <1>2, <1>5, <2>1, <2>2, <2>3 DEF Send, Exch!Deliver
  <2> QED
    BY <2>4
<1>6. CASE SendIntoClosed
  BY <1>6 DEF SendIntoClosed, sent
<1>7. CASE SendFails \/ SendTimesOut \/ ReadEnds \/ ReadTimesOut
             \/ ReadLeftoverRefused
  BY <1>7 DEF SendFails, SendTimesOut, ReadEnds, ReadTimesOut,
              ReadLeftoverRefused,
              AttemptFails, sent
<1>8. ASSUME NEW k \in ReplyKinds, ReadReply(k) PROVE Exch!Answer
  <2>1. Destination(req) \in reached
    BY <1>8 DEF ReadReply, Delivered, RouteInv, RightDestination
  <2> QED
    BY <1>2, <1>8, <2>1 DEF ReadReply, Finish, sent, Exch!Answer
<1>9. ~ReadLeftover
  BY DEF ReadLeftover, CleanInv, UsedClean
<1>10. CASE RetryFresh
  BY <1>10 DEF RetryFresh, sent
<1>11. CASE ReturnError
  <2>1. Exch!Fail
    BY <1>11 DEF ReturnError, sent, Exch!Fail
  <2> QED
    BY <2>1
<1>12. CASE ServerClosesIdle \/ ServerClosesTaken
  BY <1>12 DEF ServerClosesIdle, ServerClosesTaken, sent
<1>13. CASE UNCHANGED vars
  BY <1>13 DEF vars
<1>14. CASE Rejected
  <2>1. cur.server = "open"
    BY <1>14 DEF Rejected, CleanInv, UsedClean
  <2>2. Destination(req) \in reached
    BY <1>14, <2>1 DEF Rejected, Delivered, RouteInv, RightDestination
  <2>3. Exch!Reject
    BY <1>1, <1>2, <1>14, <2>2 DEF Rejected, Exch!Reject
  <2> QED
    BY <2>3
<1> QED
  BY <1>3, <1>4, <1>5, <1>6, <1>7, <1>8, <1>9, <1>10, <1>11, <1>12, <1>13,
     <1>14 DEF Next, Client

(* Seen from perform(), execute_request() on top of the pool does only     *)
(* what Exchange allows, when each origin has one route and every body is  *)
(* read: the request goes where it should, at most twice or, when its      *)
(* Expect was rejected, three times, and an answer comes only after that.  *)
THEOREM PoolImplementsExchange ==
  ASSUME RoutedByOrigin, "bailed" \notin ReplyKinds
  PROVE  Spec => ImplementsExchange
<1>1. Init => Exch!Init
  BY DEF Init, Exch!Init
<1>2. Init => RouteInv /\ Delivered
  BY DEF Init, RouteInv, PoolRoutes, RightDestination, Delivered
<1>3. RetryInv /\ RouteInv /\ [Next]_vars => RouteInv'
  BY RouteInvNext
<1>4. Spec => []CleanInv
  BY CleanInvAlways
<1> QED
  BY <1>1, <1>2, <1>3, <1>4, RetryInvAlways, DeliveredNext, StepRefines, PTL
  DEF Spec, ImplementsExchange, Exch!Spec
=============================================================================
