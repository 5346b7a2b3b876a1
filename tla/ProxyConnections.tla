--------------------------- MODULE ProxyConnections ---------------------------
(***************************************************************************)
(* The connections clients open with CONNECT: handleConnect and its        *)
(* tunnels (internal/proxy/http.go), the TLS side (internal/proxy/         *)
(* https.go) with the certificate it presents (CertCache), and the         *)
(* WebSocket relay a connection may end in (WebSocketRelay).  What happens *)
(* to one request is in ProxyPipeline; here a request is read and handled  *)
(* in one step, unless its handler has to wait for an operator or for an   *)
(* upstream, and what counts is how much of the connection it has read.    *)
(*                                                                         *)
(* The bytes of a client are a sequence of units: its ClientHello or       *)
(* HTTP/2 preface ("hello"), and requests, each with a body or without.    *)
(* What is left of a body that was not read is a unit of kind "rest".      *)
(***************************************************************************)
EXTENDS CertCache, WebSocketRelay

CONSTANTS
    Conns,
    Plans,  \* the functions c |-> [host, proto: "tls", "tls-h2", "h2c", "plain" or "none",
            \*   early: it does not wait for the 200, units: what it sends]
    None

VARIABLES
    plan,      \* the member of Plans this run follows
    at,        \* at[c]: where the goroutine of c is
    todo,      \* todo[c]: the units the client has yet to send
    inbox,     \* inbox[c]: the units that have arrived and are not read
    gone,      \* gone[c]: the client has closed its end
    cert,      \* cert[c]: the certificate the handshake of c uses
    handled,   \* handled[c]: the units that were handled as requests
    waiting    \* waiting[c]: those whose handler waits for what may never come

(* A client numbers its units as it sends them; none is the rest of another. *)
Unit == [kind : {"hello", "request", "rest"}, n : Nat, body : BOOLEAN,
         fate : {"ok", "refused", "large", "upgrade"}, short : BOOLEAN]
ASSUME PlansAssumption ==
    \A p \in Plans : \A c \in Conns :
        /\ p[c].units \in Seq(Unit)
        /\ \A i \in DOMAIN p[c].units : p[c].units[i].kind # "rest"
        /\ \A i, j \in DOMAIN p[c].units : i <= j => p[c].units[i].n <= p[c].units[j].n

connVars == <<plan, at, todo, inbox, gone, cert, handled, waiting>>
vars == <<connVars, cacheVars, relayVars>>

Init ==
    /\ plan \in Plans
    /\ at = [c \in Conns |-> IF plan[c].proto = "none" THEN "closed" ELSE "connect"]
    /\ todo = [c \in Conns |-> plan[c].units]
    /\ inbox = [c \in Conns |-> << >>]
    /\ gone = [c \in Conns |-> FALSE]
    /\ cert = [c \in Conns |-> None]
    /\ handled = [c \in Conns |-> << >>]
    /\ waiting = [c \in Conns |-> {}]
    /\ newCertLRU
    /\ RelayInit

Goto(c, where) == at' = [at EXCEPT ![c] = where]

-----------------------------------------------------------------------------
(* The client. *)

ClientSends(c) ==
    /\ todo[c] # << >> /\ ~gone[c]
    /\ at[c] \notin {"closed", "relay"}
    /\ at[c] = "connect" => plan[c].early
    /\ todo' = [todo EXCEPT ![c] = Tail(@)]
    /\ inbox' = [inbox EXCEPT ![c] = Append(@, Head(todo[c]))]
    /\ UNCHANGED <<plan, at, gone, cert, handled, waiting, cacheVars, relayVars>>

ClientLeaves(c) ==
    /\ ~gone[c] /\ at[c] \notin {"closed", "relay"}
    /\ gone' = [gone EXCEPT ![c] = TRUE]
    /\ UNCHANGED <<plan, at, todo, inbox, cert, handled, waiting, cacheVars, relayVars>>

-----------------------------------------------------------------------------
(* handleConnect: bytes that came with the CONNECT end the connection, and  *)
(* so does a 200 that cannot be written.                                    *)
handleConnect(c) ==
    /\ at[c] = "connect"
    /\ \/ inbox[c] # << >> /\ Goto(c, "closed")
       \/ inbox[c] = << >> /\ Goto(c, "sniff")
       \/ inbox[c] = << >> /\ gone[c] /\ Goto(c, "closed")
    /\ UNCHANGED <<plan, todo, inbox, gone, cert, handled, waiting, cacheVars, relayVars>>

(* Peek(1) tells TLS from the rest.  What is not TLS is compared with the   *)
(* HTTP/2 preface, 24 bytes long: a first request shorter than that waits   *)
(* for more bytes, or for the end of the connection.                        *)
Peek(c) ==
    /\ at[c] = "sniff"
    /\ \/ /\ inbox[c] # << >> /\ plan[c].proto \in {"tls", "tls-h2"}
          /\ Goto(c, "lookup")
       \/ /\ inbox[c] # << >> /\ plan[c].proto = "h2c"
          /\ Goto(c, "h2")
       \/ /\ inbox[c] # << >> /\ plan[c].proto = "plain"
          /\ ~Head(inbox[c]).short \/ Len(inbox[c]) > 1 \/ gone[c]
          /\ Goto(c, "loop")
       \/ inbox[c] = << >> /\ gone[c] /\ Goto(c, "closed")
    /\ inbox' = [inbox EXCEPT ![c] = IF plan[c].proto = "h2c" /\ @ # << >> THEN Tail(@) ELSE @]
    /\ UNCHANGED <<plan, todo, gone, cert, handled, waiting, cacheVars, relayVars>>

-----------------------------------------------------------------------------
(* handleBufferedConn: the certificate is the one of the host without its  *)
(* port.                                                                   *)
Hostname(c) == plan[c].host

CertHit(c) ==
    /\ at[c] = "lookup"
    /\ get(Hostname(c))
    /\ cert' = [cert EXCEPT ![c] = entries[Hostname(c)]]
    /\ Goto(c, "handshake")
    /\ UNCHANGED <<plan, todo, inbox, gone, handled, waiting, relayVars>>

(* A miss: the key and the certificate are made without a lock. *)
CertMiss(c) ==
    /\ at[c] = "lookup" /\ ~Cached(Hostname(c))
    /\ \/ /\ cert' = [cert EXCEPT ![c] = Leaf(Hostname(c), c)]
          /\ Goto(c, "put")
       \/ Goto(c, "closed") /\ UNCHANGED cert
    /\ UNCHANGED <<plan, todo, inbox, gone, handled, waiting, cacheVars, relayVars>>

CertPut(c) ==
    /\ at[c] = "put"
    /\ put(Hostname(c), cert[c])
    /\ Goto(c, "handshake")
    /\ UNCHANGED <<plan, todo, inbox, gone, cert, handled, waiting, relayVars>>

Handshake(c) ==
    /\ at[c] = "handshake"
    /\ \/ ~gone[c] /\ Goto(c, IF plan[c].proto = "tls-h2" THEN "h2" ELSE "loop")
       \/ Goto(c, "closed")
    /\ inbox' = [inbox EXCEPT ![c] = Tail(@)]
    /\ UNCHANGED <<plan, todo, gone, cert, handled, waiting, cacheVars, relayVars>>

-----------------------------------------------------------------------------
(* Mutant: no body is read. *)
LeftUnread(u) ==
    IF u.body THEN {<<[u EXCEPT !.kind = "rest"]>>} ELSE {<< >>}

(* What may be left of the body of u once it is handled: all of it when the *)
(* request is refused for its rate or its headers, what follows the limit   *)
(* when the body is too large.                                              *)
Left(u) ==
    LET rest == <<[u EXCEPT !.kind = "rest"]>>
    IN  CASE u.body /\ u.fate = "refused" -> {rest}
          [] u.body /\ u.fate = "large" -> {rest, << >>}
          [] OTHER -> {<< >>}

(* A handler may wait for the operator, at a breakpoint without a timeout, or  *)
(* for the body of a response, which has no timeout either.                    *)
MayWait(u) == u.kind = "rest" \/ u.fate \in {"ok", "upgrade"}

Handle(c, u) ==
    /\ handled' = [handled EXCEPT ![c] = Append(@, u)]
    /\ waiting' = waiting \/ (MayWait(u) /\ waiting' = [waiting EXCEPT ![c] = @ \cup {u}])

(* What it waits for comes; the handler of a tunnel may panic, which closes it. *)
HandlerGoesOn(c) ==
    /\ \E u \in waiting[c] : waiting' = [waiting EXCEPT ![c] = @ \ {u}]
    /\ UNCHANGED at \/ (at[c] \in {"loop", "upgrade"} /\ Goto(c, "closed"))
    /\ UNCHANGED <<plan, todo, inbox, gone, cert, handled, cacheVars, relayVars>>

(* One turn of the loops of handleBufferedConn and handleTunnelConn, for a  *)
(* request and for what is left of a body, which ReadRequest may or may not *)
(* be able to parse.  A panic of the handler closes the connection.         *)
ReadRequest(c) ==
    /\ at[c] = "loop" /\ waiting[c] = {} /\ inbox[c] # << >>
    /\ LET u == Head(inbox[c])
       IN  \/ /\ u.kind = "request"
              /\ \E rest \in Left(u) : inbox' = [inbox EXCEPT ![c] = rest \o Tail(@)]
              /\ Handle(c, u) /\ Goto(c, IF u.fate = "upgrade" THEN "upgrade" ELSE "loop")
           \/ /\ u.kind = "rest"
              /\ inbox' = [inbox EXCEPT ![c] = Tail(@)]
              /\ Handle(c, u) /\ Goto(c, "loop")
           \/ /\ inbox' = [inbox EXCEPT ![c] = Tail(@)]
              /\ Goto(c, "closed") /\ UNCHANGED <<handled, waiting>>
    /\ UNCHANGED <<plan, todo, gone, cert, cacheVars, relayVars>>

(* A WebSocket request is the last of its connection: it is refused, the    *)
(* upstream cannot be dialled, the client upgraded, or the relay begins.    *)
handleWebSocket(c) ==
    /\ at[c] = "upgrade" /\ waiting[c] = {}
    /\ \/ Goto(c, "closed") /\ UNCHANGED relayVars
       \/ inbox[c] = << >> /\ Goto(c, "relay") /\ RelayStarts(~gone[c])
    /\ UNCHANGED <<plan, todo, inbox, gone, cert, handled, waiting, cacheVars>>

RelayReturns(c) ==
    /\ at[c] = "relay" /\ relay = "done"
    /\ Goto(c, "closed")
    /\ UNCHANGED <<plan, todo, inbox, gone, cert, handled, waiting, cacheVars, relayVars>>

(* The loop ends with the connection, once the last handler has returned. *)
ReadEOF(c) ==
    /\ at[c] = "loop" /\ waiting[c] = {} /\ inbox[c] = << >> /\ gone[c]
    /\ Goto(c, "closed")
    /\ UNCHANGED <<plan, todo, inbox, gone, cert, handled, waiting, cacheVars, relayVars>>

(* handleHTTP2Conn and handleH2CTunnelConn: the streams are handled in any  *)
(* order, each by a goroutine, and frames keep the bodies apart.            *)
ServeStream(c) ==
    /\ at[c] = "h2"
    /\ \E i \in DOMAIN inbox[c] :
         /\ Handle(c, inbox[c][i])
         /\ inbox' = [inbox EXCEPT ![c] = SubSeq(@, 1, i - 1) \o SubSeq(@, i + 1, Len(@))]
    /\ UNCHANGED <<plan, at, todo, gone, cert, cacheVars, relayVars>>

(* ServeConn does not wait for the handlers of its streams. *)
ServeConnEnds(c) ==
    /\ at[c] = "h2" /\ gone[c]
    /\ Goto(c, "closed")
    /\ UNCHANGED <<plan, todo, inbox, gone, cert, handled, waiting, cacheVars, relayVars>>

(* The contexts of the streams end with ServeConn over TLS, and with the handler of  *)
(* the CONNECT request in cleartext: what waits on them returns.                     *)
ContextEnds(c) ==
    /\ at[c] = "closed"
    /\ \E u \in waiting[c] : waiting' = [waiting EXCEPT ![c] = @ \ {u}]
    /\ UNCHANGED <<plan, at, todo, inbox, gone, cert, handled, cacheVars, relayVars>>

Serve(c) ==
    \/ handleConnect(c) \/ Peek(c) \/ CertHit(c) \/ CertMiss(c) \/ CertPut(c) \/ Handshake(c)
    \/ ReadRequest(c) \/ handleWebSocket(c) \/ RelayReturns(c) \/ ReadEOF(c)
    \/ ServeStream(c) \/ ServeConnEnds(c) \/ ContextEnds(c)

Next ==
    \/ \E c \in Conns : Serve(c) \/ HandlerGoesOn(c) \/ ClientSends(c) \/ ClientLeaves(c)
    \/ RelayNext /\ UNCHANGED <<connVars, cacheVars>>

(* A goroutine of a connection that can go on does so: its reads return     *)
(* what has arrived, or the end of the connection.  Nobody has to resume a  *)
(* request, and no upstream has to finish a response.                       *)
Spec == /\ Init /\ [][Next]_vars
        /\ \A c \in Conns : WF_vars(Serve(c))
        /\ RelayFairness

-----------------------------------------------------------------------------
(* Whatever handshakes race for the cache, the certificate a client gets is *)
(* one for the host of its CONNECT, with the matching kind of name, and the *)
(* cache's list and map stay one (CertForHost, certLRU).                    *)
CertSound ==
    /\ CacheWhole
    /\ \A c \in Conns : cert[c] # None =>
         /\ cert[c].host = plan[c].host
         /\ cert[c].san = "ip" <=> plan[c].host \in IPs

(* A connection handles as requests what was sent as requests, in order on  *)
(* HTTP/1.1, until a request with a body is refused: from then on the rest  *)
(* of that body may be taken for a request (handleBufferedConn,             *)
(* handleTunnelConn, readTLSRequestBody).                                   *)
HandledAsSent ==
    \A c \in Conns : \A i \in DOMAIN handled[c] :
        LET u == handled[c][i]
        IN  /\ u.kind = "rest" => \E j \in 1 .. i - 1 :
                 handled[c][j].body /\ handled[c][j].fate \in {"refused", "large"}
            /\ at[c] = "loop" => \A j \in 1 .. i - 1 : handled[c][j].n <= u.n

(* What a side of a relay receives is what the other has sent, in its       *)
(* order, and each frame was recorded before it was passed on; and a close  *)
(* frame that was read reaches the other side before the relay returns, if  *)
(* that side is there, has not closed itself, and the sender has waited.    *)
RelayFaithful ==
    \A d \in Sides :
        /\ IsPrefix(got[Other(d)], recorded[d])
        /\ IsPrefix(recorded[d], sent[d])
        /\ (/\ relay = "done" /\ \A s \in Sides : peer[s] = "up"
            /\ \E i \in DOMAIN recorded[d] : recorded[d][i].kind = "close"
            /\ ~Closing(Other(d)))
           => got[Other(d)] = sent[d]

(* A connection whose client has left, or one of whose WebSocket sides has  *)
(* closed or vanished, is closed and its handlers have returned, unless a   *)
(* side that no longer reads blocks a write, which has no deadline, or a    *)
(* request on HTTP/1.1 waits for an operator or an upstream: it waits on    *)
(* the context of the CONNECT request, which ends only after it.            *)
Ending(c) ==
    \/ gone[c]
    \/ at[c] = "relay" /\ \E s \in Sides : peer[s] = "gone" \/ Closing(s)
Blocked == \E d \in Sides : pump[d] = "write" /\ peer[Other(d)] = "stalled"
Waits(c) == at[c] \in {"loop", "upgrade"} /\ waiting[c] # {}
ConnectionEnds ==
    \A c \in Conns : Ending(c) ~> (at[c] = "closed" /\ waiting[c] = {}) \/ Blocked \/ Waits(c)

==============================================================================
