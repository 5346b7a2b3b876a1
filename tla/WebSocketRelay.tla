---------------------------- MODULE WebSocketRelay ----------------------------
(***************************************************************************)
(* relayWebSocket of internal/proxy/websocket.go: one goroutine per        *)
(* direction copies the frames of one side to the other, and the caller    *)
(* waits for the first error, closes both connections and waits for both.  *)
(* Directions are named, as in the code, after the side that sends.        *)
(*                                                                         *)
(* A frame is [kind, n]; recorded is what was given to StoreWebSocketFrame *)
(* (a failed write to the table is only logged).  The two sides may send,  *)
(* close, vanish, or stop reading.                                         *)
(***************************************************************************)
EXTENDS Integers, Sequences, FiniteSets

CONSTANTS
    Script,    \* what a side may do: a set of records [client, server] of
               \*   [kinds: the kinds of frame it may send, ends: of {"gone", "stalled"}]
    MaxFrames  \* bound: the frames a side sends

VARIABLES
    script,    \* the member of Script this run follows
    relay,     \* the caller: "off", "select", "wait", "done"
    pump,      \* pump[d]: "off", "check", "read", "write", "control", "done"
    held,      \* held[d]: the frame pump d has recorded and not yet written
    cancelled, \* relayCtx is cancelled, an error waits in errCh
    once,      \* forwardCloseOnce has run, or is running
    open,      \* open[s]: the proxy has not closed its connection to s
    peer,      \* peer[s]: "up", "gone", "stalled"
    sent, wire,\* what s has sent, and what of it is not yet read
    recorded,  \* what was recorded of direction d, in order
    got        \* what s has received

relayVars == <<script, relay, pump, held, cancelled, once, open, peer, sent, wire, recorded, got>>

NoFrame == [kind |-> "none", n |-> 0]
Sides == {"client", "server"}
Other(s) == IF s = "client" THEN "server" ELSE "client"
Kinds == {"data", "ping", "pong", "close"}

ASSUME ScriptAssumption ==
    \A x \in Script : \A s \in Sides : x[s].kinds \subseteq Kinds /\ x[s].ends \subseteq {"gone", "stalled"}

RelayInit ==
    /\ script \in Script
    /\ relay = "off" /\ pump = [d \in Sides |-> "off"] /\ held = [d \in Sides |-> NoFrame]
    /\ cancelled = FALSE /\ once = FALSE /\ open = [s \in Sides |-> FALSE]
    /\ peer = [s \in Sides |-> "up"]
    /\ sent = [s \in Sides |-> << >>] /\ wire = [s \in Sides |-> << >>]
    /\ recorded = [d \in Sides |-> << >>] /\ got = [s \in Sides |-> << >>]

Closing(s) == \E i \in DOMAIN sent[s] : sent[s][i].kind = "close"

(* The sides.  After its close frame a side sends nothing; a side that has *)
(* gone neither sends nor receives, one that stalls no longer reads.       *)
PeerSends(s) ==
    /\ relay # "off" /\ peer[s] = "up" /\ ~Closing(s) /\ Len(sent[s]) < MaxFrames
    /\ \E k \in script[s].kinds :
         LET f == [kind |-> k, n |-> Len(sent[s]) + 1]
         IN  /\ sent' = [sent EXCEPT ![s] = Append(@, f)]
             /\ wire' = [wire EXCEPT ![s] = Append(@, f)]
    /\ UNCHANGED <<script, relay, pump, held, cancelled, once, open, peer, recorded, got>>

PeerEnds(s) ==
    /\ relay # "off" /\ peer[s] = "up"
    /\ \E e \in script[s].ends : peer' = [peer EXCEPT ![s] = e]
    /\ UNCHANGED <<script, relay, pump, held, cancelled, once, open, sent, wire, recorded, got>>

(* relayWebSocket up to its select. *)
RelayStarts(clientThere) ==
    /\ relay = "off"
    /\ relay' = "select"
    /\ pump' = [d \in Sides |-> "check"]
    /\ open' = [s \in Sides |-> TRUE]
    /\ peer' = [peer EXCEPT !["client"] = IF clientThere THEN "up" ELSE "gone"]
    /\ UNCHANGED <<script, held, cancelled, once, sent, wire, recorded, got>>

(* reportErr, and the pump returns. *)
ReportErr(d) ==
    /\ cancelled' = TRUE
    /\ pump' = [pump EXCEPT ![d] = "done"]
    /\ held' = [held EXCEPT ![d] = NoFrame]

(* The head of the loop: an error of the other direction ends this one. *)
PumpChecks(d) ==
    /\ pump[d] = "check"
    /\ pump' = [pump EXCEPT ![d] = IF cancelled THEN "done" ELSE "read"]
    /\ UNCHANGED <<script, relay, held, cancelled, once, open, peer, sent, wire, recorded, got>>

(* Mutant: control frames are not recorded. *)
RecordDataOnly(d, f) ==
    recorded' = IF f.kind = "data" THEN [recorded EXCEPT ![d] = Append(@, f)] ELSE recorded

Record(d, f) == recorded' = [recorded EXCEPT ![d] = Append(@, f)]

(* ReadMessage hands a data frame to the loop and a control frame to its    *)
(* handler; both record it before they pass it on.  A frame that is already *)
(* buffered can be read after the connection was closed.  The first close   *)
(* frame of the two directions is passed on, a second only recorded.        *)
ReadFrame(d) ==
    /\ pump[d] = "read" /\ wire[d] # << >>
    /\ LET f == Head(wire[d])
       IN  /\ f.kind = "close" /\ once => held[Other(d)].kind # "close"
           /\ wire' = [wire EXCEPT ![d] = Tail(@)]
           /\ Record(d, f)
           /\ IF f.kind = "close" /\ once
              THEN ReportErr(d) /\ UNCHANGED once
              ELSE /\ held' = [held EXCEPT ![d] = f]
                   /\ pump' = [pump EXCEPT ![d] = IF f.kind = "data" THEN "write" ELSE "control"]
                   /\ once' = (once \/ f.kind = "close")
                   /\ UNCHANGED cancelled
    /\ UNCHANGED <<script, relay, open, peer, sent, got>>

(* ReadMessage fails: the side is gone, or shutdown closed the connection. *)
ReadFails(d) ==
    /\ pump[d] = "read"
    /\ ~open[d] \/ (peer[d] = "gone" /\ wire[d] = << >>)
    /\ ReportErr(d)
    /\ UNCHANGED <<script, relay, once, open, peer, sent, wire, recorded, got>>

(* What follows a write that succeeded: the loop after a data frame,        *)
(* ReadMessage goes on after a ping, and fails after a close frame.         *)
Written(d) ==
    IF held[d].kind = "close"
    THEN ReportErr(d)
    ELSE /\ pump' = [pump EXCEPT ![d] = IF pump[d] = "write" THEN "check" ELSE "read"]
         /\ held' = [held EXCEPT ![d] = NoFrame]
         /\ UNCHANGED cancelled

(* WriteMessage has no deadline, WriteControl one of five seconds.  A write *)
(* to a side that is gone may succeed, into a buffer nobody reads.          *)
WriteFrame(d) ==
    /\ pump[d] \in {"write", "control"}
    /\ LET s == Other(d)
       IN  \/ /\ open[s] /\ peer[s] = "up"
              /\ got' = [got EXCEPT ![s] = Append(@, held[d])]
              /\ Written(d)
           \/ /\ open[s] /\ peer[s] = "gone"
              /\ Written(d) /\ UNCHANGED got
           \/ /\ ~open[s] \/ peer[s] = "gone" \/ (pump[d] = "control" /\ peer[s] = "stalled")
              /\ ReportErr(d) /\ UNCHANGED got
    /\ UNCHANGED <<script, relay, once, open, peer, sent, wire, recorded>>

(* Mutant: the connections are not closed. *)
SelectWithoutShutdown ==
    /\ relay = "select" /\ cancelled
    /\ relay' = "wait"
    /\ UNCHANGED <<script, pump, held, cancelled, once, open, peer, sent, wire, recorded, got>>

(* The select of the caller, cancelRelay, and shutdown. *)
RelaySelect ==
    /\ relay = "select" /\ cancelled
    /\ relay' = "wait"
    /\ open' = [s \in Sides |-> FALSE]
    /\ UNCHANGED <<script, pump, held, cancelled, once, peer, sent, wire, recorded, got>>

RelayWait ==
    /\ relay = "wait" /\ \A d \in Sides : pump[d] = "done"
    /\ relay' = "done"
    /\ UNCHANGED <<script, pump, held, cancelled, once, open, peer, sent, wire, recorded, got>>

Pump(d) == PumpChecks(d) \/ ReadFrame(d) \/ ReadFails(d) \/ WriteFrame(d)
RelayNext ==
    \/ \E s \in Sides : PeerSends(s) \/ PeerEnds(s) \/ Pump(s)
    \/ RelaySelect \/ RelayWait

RelayFairness == /\ \A d \in Sides : WF_relayVars(Pump(d))
                 /\ WF_relayVars(RelaySelect) /\ WF_relayVars(RelayWait)

==============================================================================
