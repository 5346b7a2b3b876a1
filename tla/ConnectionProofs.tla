--------------------------- MODULE ConnectionProofs ---------------------------
(***************************************************************************)
(* Proofs about ProxyConnections and the certificate cache and WebSocket   *)
(* relay it uses, for any connections and plans, any capacity of the cache *)
(* and any number of frames.                                               *)
(***************************************************************************)
EXTENDS ProxyConnections, SequenceTheorems, FiniteSetTheorems, TLAPS

-----------------------------------------------------------------------------
(* The relay *)

Frame == [kind : Kinds, n : Nat]
Writing(d) == pump[d] \in {"write", "control"}
AllUp == \A s \in Sides : peer[s] = "up"

RelayType ==
    /\ script \in Script
    /\ relay \in {"off", "select", "wait", "done"}
    /\ pump \in [Sides -> {"off", "check", "read", "write", "control", "done"}]
    /\ held \in [Sides -> Frame \cup {NoFrame}]
    /\ peer \in [Sides -> {"up", "gone", "stalled"}]
    /\ sent \in [Sides -> Seq(Frame)] /\ wire \in [Sides -> Seq(Frame)]
    /\ recorded \in [Sides -> Seq(Frame)] /\ got \in [Sides -> Seq(Frame)]

(* How far the caller is, and what it has done to the connections. *)
StageInv ==
    /\ relay = "off" => /\ \A d \in Sides : pump[d] = "off"
                        /\ AllUp /\ ~cancelled /\ ~once
    /\ relay = "select" => \A s \in Sides : open[s]
    /\ relay \in {"wait", "done"} => cancelled

(* What was sent, s, is what was recorded, r, and then what is on the wire, w; *)
(* what was passed on, g, is the first part of what was recorded.             *)
Carries(s, w, r, g) ==
    /\ Len(s) = Len(r) + Len(w) /\ Len(g) <= Len(r)
    /\ \A i \in 1..Len(r) : r[i] = s[i]
    /\ \A i \in 1..Len(w) : w[i] = s[Len(r) + i]
    /\ \A i \in 1..Len(g) : g[i] = r[i]

ClosesLast(s) == \A i \in 1..Len(s) : s[i].kind = "close" => i = Len(s)

(* Direction d: all that was recorded is passed on, but for the frame that *)
(* is held, as long as the pump runs and there is someone to read it.      *)
Flow(d) ==
    /\ Carries(sent[d], wire[d], recorded[d], got[Other(d)])
    /\ ClosesLast(sent[d])
    /\ Writing(d) => /\ Len(recorded[d]) > 0 /\ held[d] = recorded[d][Len(recorded[d])]
                     /\ peer[Other(d)] # "gone" => Len(got[Other(d)]) = Len(recorded[d]) - 1
    /\ ~Writing(d) => held[d] = NoFrame
    /\ pump[d] \in {"off", "check", "read"} /\ peer[Other(d)] # "gone" => Len(got[Other(d)]) = Len(recorded[d])

(* A side has closed, and the other has received all it sent. *)
Delivered(d) == Closing(d) /\ Len(got[Other(d)]) = Len(sent[d])

(* With both sides there, an error means that a close frame was passed on, *)
(* and forwardCloseOnce that one is passed on or about to be.              *)
CloseInv ==
    /\ cancelled /\ AllUp => \E d \in Sides : Delivered(d)
    /\ once /\ AllUp => \E d \in Sides : held[d].kind = "close" \/ Delivered(d)

RelayInv == RelayType /\ StageInv /\ (\A d \in Sides : Flow(d)) /\ CloseInv

-----------------------------------------------------------------------------
(* The cache, and the certificates taken from it *)

Hosts == {p[c].host : p \in Plans, c \in Conns}
LeafFor(x, h) == x.host = h /\ (x.san = "ip" <=> h \in IPs)

(* The list holds the hosts H, each once. *)
Lists(s, H) ==
    /\ H = {s[i] : i \in 1..Len(s)}
    /\ \A i, j \in 1..Len(s) : s[i] = s[j] => i = j

CacheInv ==
    /\ lru \in Seq(Hosts) /\ Len(lru) <= CertCapacity
    /\ Lists(lru, DOMAIN entries)
    /\ \A h \in DOMAIN entries : LeafFor(entries[h], h)

CertInv ==
    /\ DOMAIN cert = Conns
    /\ \A c \in Conns : cert[c] # None \/ at[c] = "put" => LeafFor(cert[c], plan[c].host)

-----------------------------------------------------------------------------
(* The units of a connection *)

Early == {"connect", "sniff", "lookup", "put", "handshake"}
Refused(u) == u.body /\ u.fate \in {"refused", "large"}
Sorted(s) == \A i, j \in 1..Len(s) : i <= j => s[i].n <= s[j].n
NoLater(s, t) == \A i \in 1..Len(s), j \in 1..Len(t) : s[i].n <= t[j].n

ConnType ==
    /\ plan \in Plans
    /\ at \in [Conns -> Early \cup {"loop", "upgrade", "relay", "h2", "closed"}]
    /\ todo \in [Conns -> Seq(Unit)] /\ inbox \in [Conns -> Seq(Unit)] /\ handled \in [Conns -> Seq(Unit)]

(* Of t to come, b arrived and h handled: the rest of a body is there only  *)
(* after a request that was not read to its end.                            *)
RestInv(t, b, h) ==
    /\ \A i \in 1..Len(t) : t[i].kind # "rest"
    /\ \A i \in 1..Len(b) : b[i].kind = "rest" => \E j \in 1..Len(h) : Refused(h[j])
    /\ \A i \in 1..Len(h) : h[i].kind = "rest" => \E j \in 1..(i - 1) : Refused(h[j])

(* What was handled came before what has arrived, and that before what is still to come. *)
OrderInv(t, b, h) ==
    /\ Sorted(h) /\ Sorted(b) /\ Sorted(t)
    /\ NoLater(h, b) /\ NoLater(h, t) /\ NoLater(b, t)

UnitInv ==
    \A c \in Conns :
        /\ RestInv(todo[c], inbox[c], handled[c])
        /\ at[c] \in Early => handled[c] = << >>
        /\ at[c] \in {"lookup", "put", "handshake"} => inbox[c] # << >>
        /\ at[c] \in Early \cup {"loop"} => OrderInv(todo[c], inbox[c], handled[c])
-----------------------------------------------------------------------------
(* Sequences, element by element *)

(* Append adds one element at the end. *)
LEMMA AppendFacts ==
  ASSUME NEW S, NEW s \in Seq(S), NEW e \in S
  PROVE  /\ Append(s, e) \in Seq(S) /\ Len(s) \in Nat
         /\ Len(Append(s, e)) = Len(s) + 1
         /\ Append(s, e)[Len(s) + 1] = e
         /\ \A i \in 1..Len(s) : Append(s, e)[i] = s[i]
BY AppendProperties, LenProperties

(* Tail drops the first. *)
LEMMA TailFacts ==
  ASSUME NEW S, NEW s \in Seq(S), s # << >>
  PROVE  /\ Tail(s) \in Seq(S) /\ Len(s) \in Nat /\ Len(s) >= 1
         /\ Head(s) \in S /\ Head(s) = s[1]
         /\ Len(Tail(s)) = Len(s) - 1
         /\ \A i \in 1..(Len(s) - 1) : Tail(s)[i] = s[i + 1]
<1>1. Len(s) \in Nat /\ Len(s) # 0
  BY LenProperties, EmptySeq
<1>2. QED
  BY <1>1, HeadTailProperties, ElementOfSeq

(* A shorter sequence that agrees with a longer one is its prefix. *)
LEMMA PrefixFacts ==
  ASSUME NEW S, NEW s \in Seq(S), NEW t \in Seq(S), Len(s) <= Len(t), \A i \in 1..Len(s) : s[i] = t[i]
  PROVE  IsPrefix(s, t)
<1>0. Len(s) \in Nat /\ Len(t) \in Nat
  BY LenProperties
<1>1. SubSeq(s, 1, Len(s)) = [i \in 1..Len(s) |-> s[i]] /\ SubSeq(t, 1, Len(s)) = [i \in 1..Len(s) |-> t[i]]
  BY <1>0
<1>2. QED
  BY <1>1 DEF IsPrefix
-----------------------------------------------------------------------------
(* The relay, action by action *)

(* A relay has two sides. *)
LEMMA OtherFacts ==
  \A s \in Sides : Other(s) \in Sides /\ Other(s) # s /\ Other(Other(s)) = s /\ \A t \in Sides : t # s => t = Other(s)
BY DEF Sides, Other

(* A frame is sent. *)
LEMMA CarriesSent ==
  ASSUME NEW s \in Seq(Frame), NEW w \in Seq(Frame), NEW r \in Seq(Frame), NEW g \in Seq(Frame),
         Carries(s, w, r, g), NEW f \in Frame
  PROVE  Carries(Append(s, f), Append(w, f), r, g)
<1> DEFINE t == Append(s, f)
           v == Append(w, f)
           ls == Len(s)
           lw == Len(w)
           lr == Len(r)
<1>1. ls \in Nat /\ lw \in Nat /\ lr \in Nat
  BY LenProperties
<1>2. Len(t) = ls + 1 /\ t[ls + 1] = f /\ \A i \in 1..ls : t[i] = s[i]
  BY AppendFacts
<1>3. Len(v) = lw + 1 /\ v[lw + 1] = f /\ \A i \in 1..lw : v[i] = w[i]
  BY AppendFacts
<1>4. /\ ls = lr + lw /\ Len(g) <= Len(r) /\ (\A i \in 1..Len(g) : g[i] = r[i])
      /\ (\A i \in 1..lr : r[i] = s[i]) /\ \A i \in 1..lw : w[i] = s[lr + i]
  BY DEF Carries
<1> HIDE DEF t, v, ls, lw, lr
<1>5. Len(t) = lr + Len(v)
  BY <1>1, <1>2, <1>3, <1>4
<1>6. ASSUME NEW i \in 1..lr PROVE r[i] = t[i]
  <2>1. i \in 1..ls
    BY <1>1, <1>4
  <2>2. QED
    BY <1>2, <1>4, <2>1
<1>7. ASSUME NEW i \in 1..(lw + 1) PROVE v[i] = t[lr + i]
  <2>1. CASE i = lw + 1
    <3>1. lr + i = ls + 1
      BY <1>1, <1>4, <2>1
    <3>2. QED
      BY <1>2, <1>3, <2>1, <3>1
  <2>2. CASE i # lw + 1
    <3>1. i \in 1..lw /\ lr + i \in 1..ls
      BY <1>1, <1>4, <2>2
    <3>2. v[i] = w[i] /\ t[lr + i] = s[lr + i] /\ w[i] = s[lr + i]
      BY <1>2, <1>3, <1>4, <3>1
    <3>3. QED
      BY <3>2
  <2>3. QED
    BY <2>1, <2>2
<1>8. QED
  BY <1>3, <1>4, <1>5, <1>6, <1>7 DEF Carries, t, v, lr

(* A frame is read from the wire, and recorded. *)
LEMMA CarriesRead ==
  ASSUME NEW s \in Seq(Frame), NEW w \in Seq(Frame), NEW r \in Seq(Frame), NEW g \in Seq(Frame),
         Carries(s, w, r, g), w # << >>
  PROVE  Carries(s, Tail(w), Append(r, Head(w)), g)
<1> DEFINE v == Tail(w)
           q == Append(r, Head(w))
           lw == Len(w)
           lr == Len(r)
           lg == Len(g)
<1>1. lg \in Nat /\ lw \in Nat /\ lr \in Nat
  BY LenProperties
<1>2. Len(v) = lw - 1 /\ lw >= 1 /\ Head(w) = w[1] /\ Head(w) \in Frame /\ \A i \in 1..(lw - 1) : v[i] = w[i + 1]
  BY TailFacts
<1>3. Len(q) = lr + 1 /\ q[lr + 1] = Head(w) /\ \A i \in 1..lr : q[i] = r[i]
  BY <1>2, AppendFacts
<1>4. /\ Len(s) = lr + lw /\ lg <= lr /\ (\A i \in 1..lg : g[i] = r[i])
      /\ (\A i \in 1..lr : r[i] = s[i]) /\ \A i \in 1..lw : w[i] = s[lr + i]
  BY DEF Carries
<1> HIDE DEF v, q, lw, lr, lg
<1>5. Len(s) = Len(q) + Len(v) /\ lg <= Len(q)
  BY <1>1, <1>2, <1>3, <1>4
<1>6. ASSUME NEW i \in 1..Len(q) PROVE q[i] = s[i]
  <2>1. CASE i = lr + 1
    <3>1. 1 \in 1..lw
      BY <1>1, <1>2
    <3>2. w[1] = s[lr + 1]
      BY <1>4, <3>1
    <3>3. QED
      BY <1>2, <1>3, <2>1, <3>2
  <2>2. CASE i # lr + 1
    <3>1. i \in 1..lr
      BY <1>1, <1>3, <2>2
    <3>2. QED
      BY <1>3, <1>4, <3>1
  <2>3. QED
    BY <2>1, <2>2
<1>7. ASSUME NEW i \in 1..Len(v) PROVE v[i] = s[Len(q) + i]
  <2>1. i \in 1..(lw - 1) /\ i + 1 \in 1..lw /\ lr + (i + 1) = Len(q) + i
    BY <1>1, <1>2, <1>3
  <2>2. v[i] = w[i + 1] /\ w[i + 1] = s[lr + (i + 1)]
    BY <1>2, <1>4, <2>1
  <2>3. QED
    BY <2>1, <2>2
<1>8. ASSUME NEW i \in 1..lg PROVE g[i] = q[i]
  <2>1. i \in 1..lr
    BY <1>1, <1>4
  <2>2. QED
    BY <1>3, <1>4, <2>1
<1>9. QED
  BY <1>5, <1>6, <1>7, <1>8 DEF Carries, v, q, lg

(* The last frame that was recorded is passed on. *)
LEMMA CarriesWritten ==
  ASSUME NEW s \in Seq(Frame), NEW w \in Seq(Frame), NEW r \in Seq(Frame), NEW g \in Seq(Frame),
         Carries(s, w, r, g), Len(r) > 0, Len(g) = Len(r) - 1
  PROVE  Carries(s, w, r, Append(g, r[Len(r)])) /\ Len(Append(g, r[Len(r)])) = Len(r)
<1> DEFINE lr == Len(r)
           lg == Len(g)
           h == Append(g, r[lr])
<1>1. lg \in Nat /\ lr \in Nat
  BY LenProperties
<1>2. lr \in 1..lr
  BY <1>1
<1>3. Len(h) = lg + 1 /\ h[lg + 1] = r[lr] /\ \A i \in 1..lg : h[i] = g[i]
  BY <1>2, ElementOfSeq, AppendFacts
<1>4. \A i \in 1..lg : g[i] = r[i]
  BY DEF Carries
<1>5. lg = lr - 1
  OBVIOUS
<1> HIDE DEF lr, lg, h
<1>6. Len(h) = lr
  BY <1>1, <1>3, <1>5
<1>7. ASSUME NEW i \in 1..lr PROVE h[i] = r[i]
  <2>1. CASE i = lg + 1
    BY <1>1, <1>3, <1>5, <2>1
  <2>2. CASE i # lg + 1
    <3>1. i \in 1..lg
      BY <1>1, <1>5, <2>2
    <3>2. QED
      BY <1>3, <1>4, <3>1
  <2>3. QED
    BY <2>1, <2>2
<1>8. Len(h) <= lr
  BY <1>1, <1>6
<1>9. QED
  BY <1>6, <1>7, <1>8 DEF Carries, h, lr

(* What a direction needs to stay as it is. *)
LEMMA FlowSame ==
  ASSUME NEW d \in Sides, Flow(d), sent'[d] = sent[d], wire'[d] = wire[d], recorded'[d] = recorded[d],
         got'[Other(d)] = got[Other(d)], held'[d] = held[d],
         pump'[d] = pump[d] \/ (~Writing(d) /\ ~Writing(d)' /\ pump[d] \in {"off", "check", "read"}),
         peer'[Other(d)] # "gone" => peer[Other(d)] # "gone"
  PROVE  Flow(d)'
<1>1. CASE pump'[d] = pump[d]
  BY <1>1 DEF Flow, Writing
<1>2. CASE ~Writing(d) /\ ~Writing(d)' /\ pump[d] \in {"off", "check", "read"}
  BY <1>2 DEF Flow, Writing
<1>3. QED
  BY <1>1, <1>2

(* A side that has received everything keeps it. *)
LEMMA DeliveredStays ==
  ASSUME NEW d \in Sides, RelayType, RelayType', Flow(d)', Delivered(d), sent'[d] = sent[d],
         Len(got[Other(d)]) <= Len(got'[Other(d)])
  PROVE  Delivered(d)'
<1>1. /\ Len(got'[Other(d)]) <= Len(recorded'[d]) /\ Len(sent'[d]) = Len(recorded'[d]) + Len(wire'[d])
  BY DEF Flow, Carries
<1>2. /\ Len(got'[Other(d)]) \in Nat /\ Len(recorded'[d]) \in Nat /\ Len(wire'[d]) \in Nat
      /\ Len(sent[d]) \in Nat /\ Len(got[Other(d)]) \in Nat
  BY OtherFacts, LenProperties DEF RelayType
<1>3. Closing(d)' /\ Len(got[Other(d)]) = Len(sent[d])
  BY DEF Delivered, Closing
<1>4. Len(got[Other(d)]) <= Len(got'[Other(d)]) /\ sent'[d] = sent[d]
  OBVIOUS
<1> DEFINE ls == Len(sent[d])
           lg == Len(got'[Other(d)])
           lr == Len(recorded'[d])
           lw == Len(wire'[d])
<1>5. ls \in Nat /\ lg \in Nat /\ lr \in Nat /\ lw \in Nat /\ ls <= lg /\ lg <= lr /\ ls = lr + lw
  BY <1>1, <1>2, <1>3, <1>4
<1> HIDE DEF ls, lg, lr, lw
<1>6. lg = ls
  BY <1>5
<1>7. QED
  BY <1>3, <1>4, <1>6 DEF Delivered, ls, lg

(* A step that neither sends nor takes anything back. *)
LEMMA CloseKeeps ==
  ASSUME RelayInv, RelayType', \A d \in Sides : Flow(d)', UNCHANGED sent, AllUp' => AllUp,
         \A s \in Sides : Len(got[s]) <= Len(got'[s]),
         cancelled' /\ AllUp' => cancelled \/ \E d \in Sides : Delivered(d)',
         once' /\ AllUp' => \/ once /\ \A d \in Sides : held[d].kind = "close" => held'[d].kind = "close"
                            \/ cancelled
                            \/ \E d \in Sides : held'[d].kind = "close" \/ Delivered(d)'
  PROVE  CloseInv'
<1>1. ASSUME NEW d \in Sides, Delivered(d) PROVE Delivered(d)'
  BY <1>1, DeliveredStays, OtherFacts DEF RelayInv
<1>2. QED
  BY <1>1 DEF RelayInv, CloseInv

(* A peer sends a frame: what is on the way grows at its end. *)
LEMMA PeerSendsKeeps == ASSUME RelayInv, NEW s \in Sides, PeerSends(s) PROVE RelayInv'
<1>1. PICK k \in script[s].kinds : LET f == [kind |-> k, n |-> Len(sent[s]) + 1]
                                   IN  /\ sent' = [sent EXCEPT ![s] = Append(@, f)]
                                       /\ wire' = [wire EXCEPT ![s] = Append(@, f)]
  BY DEF PeerSends
<1> DEFINE f == [kind |-> k, n |-> Len(sent[s]) + 1]
<1>2. /\ ~Closing(s) /\ relay # "off"
      /\ UNCHANGED <<script, relay, pump, held, cancelled, once, open, peer, recorded, got>>
  BY DEF PeerSends
<1>3. /\ sent[s] \in Seq(Frame) /\ wire[s] \in Seq(Frame) /\ recorded[s] \in Seq(Frame) /\ got[Other(s)] \in Seq(Frame)
      /\ Len(sent[s]) \in Nat /\ DOMAIN sent[s] = 1..Len(sent[s])
  BY LenProperties, OtherFacts DEF RelayInv, RelayType
<1>4. f \in Frame
  BY <1>3, ScriptAssumption DEF RelayInv, RelayType, Frame
<1>5. sent' = [sent EXCEPT ![s] = Append(@, f)] /\ wire' = [wire EXCEPT ![s] = Append(@, f)]
  BY <1>1
<1> HIDE DEF f
<1>6. /\ sent'[s] = Append(sent[s], f) /\ wire'[s] = Append(wire[s], f)
      /\ \A d \in Sides \ {s} : sent'[d] = sent[d] /\ wire'[d] = wire[d]
  BY <1>5 DEF RelayInv, RelayType
<1>7. RelayType'
  <2>1. Append(sent[s], f) \in Seq(Frame) /\ Append(wire[s], f) \in Seq(Frame)
    BY <1>3, <1>4, AppendFacts
  <2>2. QED
    BY <1>2, <1>5, <2>1 DEF RelayInv, RelayType
<1>8. ASSUME NEW d \in Sides PROVE Flow(d)'
  <2>1. CASE d # s
    BY <1>2, <1>6, <2>1, FlowSame DEF RelayInv
  <2>2. CASE d = s
    <3>1. Carries(sent'[s], wire'[s], recorded'[s], got'[Other(s)])
      BY <1>2, <1>3, <1>4, <1>6, CarriesSent DEF RelayInv, Flow
    <3>2. ClosesLast(sent'[s])
      <4>1. \A i \in 1..Len(sent[s]) : sent[s][i].kind # "close"
        BY <1>2, <1>3 DEF Closing
      <4>2. Len(sent'[s]) = Len(sent[s]) + 1 /\ \A i \in 1..Len(sent[s]) : sent'[s][i] = sent[s][i]
        BY <1>3, <1>4, <1>6, AppendFacts
      <4> DEFINE l == Len(sent[s])
      <4>3. ASSUME NEW i \in 1..(l + 1) PROVE i = l + 1 \/ i \in 1..l
        BY <1>3, <4>3
      <4>4. QED
        BY <4>1, <4>2, <4>3 DEF ClosesLast
    <3>3. QED
      BY <1>2, <2>2, <3>1, <3>2 DEF RelayInv, Flow, Writing
  <2>3. QED
    BY <2>1, <2>2
<1>9. CloseInv'
  <2>1. ASSUME NEW d \in Sides, Delivered(d) PROVE Delivered(d)'
    <3>1. d # s
      BY <1>2, <2>1 DEF Delivered
    <3>2. Len(got[Other(d)]) <= Len(got'[Other(d)])
      BY <1>2, LenProperties, OtherFacts DEF RelayInv, RelayType
    <3>3. QED
      BY <1>6, <1>7, <1>8, <2>1, <3>1, <3>2, DeliveredStays DEF RelayInv
  <2>2. QED
    BY <1>2, <2>1 DEF RelayInv, CloseInv, AllUp
<1>10. StageInv'
  BY <1>2 DEF RelayInv, StageInv, AllUp
<1>11. QED
  BY <1>7, <1>8, <1>9, <1>10 DEF RelayInv

(* Steps that change neither what was sent, read nor passed on. *)
LEMMA QuietKeeps ==
  ASSUME RelayInv, UNCHANGED <<sent, wire, recorded, got>>, RelayType', StageInv', \A d \in Sides : Flow(d)',
         AllUp' => AllUp, cancelled' /\ AllUp' => cancelled \/ \E d \in Sides : Delivered(d),
         once' => once, \A d \in Sides : held[d].kind = "close" => held'[d].kind = "close" \/ (AllUp' => cancelled)
  PROVE  RelayInv'
<1>1. \A s \in Sides : Len(got[s]) <= Len(got'[s])
  BY LenProperties DEF RelayInv, RelayType
<1>2. ASSUME NEW d \in Sides, Delivered(d) PROVE Delivered(d)'
  BY <1>2, Zenon DEF Delivered, Closing
<1>3. CloseInv'
  BY <1>1, <1>2 DEF RelayInv, CloseInv
<1>4. QED
  BY <1>3 DEF RelayInv

(* A peer closes or vanishes: no frame moves. *)
LEMMA PeerEndsKeeps == ASSUME RelayInv, NEW s \in Sides, PeerEnds(s) PROVE RelayInv'
<1>1. PICK e \in script[s].ends : peer' = [peer EXCEPT ![s] = e]
  BY DEF PeerEnds
<1>2. /\ relay # "off" /\ peer[s] = "up"
      /\ UNCHANGED <<script, relay, pump, held, cancelled, once, open, sent, wire, recorded, got>>
  BY DEF PeerEnds
<1>3. e \in {"gone", "stalled"}
  BY ScriptAssumption DEF RelayInv, RelayType
<1>4. RelayType' /\ (AllUp' => AllUp)
  BY <1>1, <1>2, <1>3 DEF RelayInv, RelayType, AllUp
<1>5. \A t \in Sides : peer'[t] # "gone" => peer[t] # "gone"
  BY <1>1, <1>2 DEF RelayInv, RelayType
<1>6. ASSUME NEW d \in Sides PROVE Flow(d)'
  BY <1>2, <1>5, FlowSame, OtherFacts DEF RelayInv
<1>7. StageInv'
  BY <1>2 DEF RelayInv, StageInv
<1>8. QED
  BY <1>2, <1>4, <1>6, <1>7, QuietKeeps

(* relayWebSocket starts its two pumps. *)
LEMMA RelayStartsKeeps == ASSUME RelayInv, NEW there, RelayStarts(there) PROVE RelayInv'
<1>1. /\ relay = "off" /\ relay' = "select"
      /\ pump' = [d \in Sides |-> "check"] /\ open' = [s \in Sides |-> TRUE]
      /\ UNCHANGED <<script, held, cancelled, once, sent, wire, recorded, got>>
  BY DEF RelayStarts
<1>2. peer' \in [Sides -> {"up", "gone", "stalled"}]
  <2>1. CASE there
    BY <2>1 DEF RelayStarts, RelayInv, RelayType
  <2>2. CASE ~there
    BY <2>2 DEF RelayStarts, RelayInv, RelayType
  <2>3. QED
    BY <2>1, <2>2
<1>3. AllUp /\ ~cancelled /\ ~once /\ \A d \in Sides : pump[d] = "off"
  BY <1>1 DEF RelayInv, StageInv
<1>4. RelayType'
  BY <1>1, <1>2 DEF RelayInv, RelayType
<1>5. ASSUME NEW d \in Sides PROVE Flow(d)'
  <2>1. ~Writing(d) /\ ~Writing(d)' /\ peer[Other(d)] # "gone" /\ pump[d] = "off"
    BY <1>1, <1>3, OtherFacts DEF Writing, AllUp
  <2>2. QED
    BY <1>1, <2>1, FlowSame DEF RelayInv
<1>6. StageInv'
  BY <1>1 DEF StageInv
<1>7. CloseInv'
  BY <1>1, <1>3 DEF CloseInv
<1>8. QED
  BY <1>4, <1>5, <1>6, <1>7 DEF RelayInv

(* A pump that reports an error: someone has left, or the relay is over, or a close *)
(* frame has been passed on.                                                        *)
LEMMA ErrKeeps ==
  ASSUME RelayInv, NEW d \in Sides, ReportErr(d), relay # "off",
         UNCHANGED <<script, relay, once, open, peer, sent, wire, recorded, got>>,
         AllUp => cancelled \/ \E e \in Sides : Delivered(e)
  PROVE  RelayInv'
<1>1. /\ pump' = [pump EXCEPT ![d] = "done"] /\ held' = [held EXCEPT ![d] = NoFrame] /\ cancelled' = TRUE
  BY DEF ReportErr
<1>2. RelayType'
  BY <1>1 DEF RelayInv, RelayType
<1>3. /\ pump'[d] = "done" /\ held'[d] = NoFrame
      /\ \A e \in Sides \ {d} : pump'[e] = pump[e] /\ held'[e] = held[e]
  BY <1>1 DEF RelayInv, RelayType
<1>4. ASSUME NEW e \in Sides PROVE Flow(e)'
  <2>1. CASE e = d
    BY <1>3, <2>1 DEF RelayInv, Flow, Writing
  <2>2. CASE e # d
    BY <1>3, <2>2, FlowSame DEF RelayInv
  <2>3. QED
    BY <2>1, <2>2
<1>5. StageInv'
  BY <1>1 DEF RelayInv, StageInv
<1>6. AllUp' = AllUp
  BY DEF AllUp
<1>7. ASSUME NEW e \in Sides, Delivered(e) PROVE Delivered(e)'
  BY <1>7, Zenon DEF Delivered, Closing
<1>8. CloseInv'
  BY <1>6, <1>7 DEF RelayInv, CloseInv
<1>9. QED
  BY <1>2, <1>4, <1>5, <1>8 DEF RelayInv

(* A pump runs only after the relay began, and finds a connection closed only after an error. *)
LEMMA PumpRuns ==
  ASSUME RelayInv, NEW d \in Sides, pump[d] # "off"
  PROVE  relay # "off" /\ \A s \in Sides : ~open[s] => cancelled
BY DEF RelayInv, RelayType, StageInv

(* A pump looks whether it has been cancelled before it reads. *)
LEMMA PumpChecksKeeps == ASSUME RelayInv, NEW d \in Sides, PumpChecks(d) PROVE RelayInv'
<1>1. /\ pump[d] = "check" /\ pump' = [pump EXCEPT ![d] = IF cancelled THEN "done" ELSE "read"]
      /\ UNCHANGED <<script, relay, held, cancelled, once, open, peer, sent, wire, recorded, got>>
  BY DEF PumpChecks
<1>2. /\ pump'[d] \in {"done", "read"} /\ \A e \in Sides \ {d} : pump'[e] = pump[e]
  BY <1>1 DEF RelayInv, RelayType
<1>3. RelayType'
  BY <1>1 DEF RelayInv, RelayType
<1>4. ASSUME NEW e \in Sides PROVE Flow(e)'
  <2>1. CASE e = d
    <3>1. ~Writing(d) /\ ~Writing(d)'
      BY <1>1, <1>2 DEF Writing
    <3>2. QED
      BY <1>1, <2>1, <3>1, FlowSame DEF RelayInv
  <2>2. CASE e # d
    BY <1>1, <1>2, <2>2, FlowSame DEF RelayInv
  <2>3. QED
    BY <2>1, <2>2
<1>5. StageInv' /\ (AllUp' => AllUp)
  BY <1>1, PumpRuns DEF RelayInv, StageInv, AllUp
<1>6. QED
  BY <1>1, <1>3, <1>4, <1>5, QuietKeeps

(* A read fails: the pump reports and ends. *)
LEMMA ReadFailsKeeps == ASSUME RelayInv, NEW d \in Sides, ReadFails(d) PROVE RelayInv'
<1>1. /\ pump[d] = "read" /\ ReportErr(d) /\ (~open[d] \/ peer[d] = "gone")
      /\ UNCHANGED <<script, relay, once, open, peer, sent, wire, recorded, got>>
  BY DEF ReadFails
<1>2. relay # "off" /\ (AllUp => cancelled)
  BY <1>1, PumpRuns DEF AllUp
<1>3. QED
  BY <1>1, <1>2, ErrKeeps

(* The caller takes the first error, closes both connections and waits for the pumps. *)
LEMMA CallerKeeps == ASSUME RelayInv, RelaySelect \/ RelayWait PROVE RelayInv'
<1>1. /\ relay \in {"select", "wait"} /\ cancelled /\ relay' \in {"wait", "done"}
      /\ UNCHANGED <<script, pump, held, cancelled, once, peer, sent, wire, recorded, got>>
  BY DEF RelaySelect, RelayWait, RelayInv, StageInv
<1>2. RelayType' /\ StageInv' /\ (AllUp' => AllUp)
  BY <1>1 DEF RelayInv, RelayType, StageInv, AllUp
<1>3. ASSUME NEW d \in Sides PROVE Flow(d)'
  BY <1>1, FlowSame DEF RelayInv
<1>4. QED
  BY <1>1, <1>2, <1>3, QuietKeeps

(* A close frame that is read is the last its side has sent. *)
LEMMA LastIsClose ==
  ASSUME NEW s \in Seq(Frame), NEW w \in Seq(Frame), NEW r \in Seq(Frame), NEW g \in Seq(Frame),
         Carries(s, w, r, g), ClosesLast(s), Len(r) > 0, r[Len(r)].kind = "close"
  PROVE  Len(r) = Len(s) /\ \E i \in DOMAIN s : s[i].kind = "close"
<1> DEFINE lr == Len(r)
           ls == Len(s)
<1>1. lr \in Nat /\ ls \in Nat /\ Len(w) \in Nat /\ DOMAIN s = 1..ls
  BY LenProperties
<1>2. lr > 0 /\ ls = lr + Len(w) /\ (\A i \in 1..lr : r[i] = s[i]) /\ r[lr].kind = "close"
  BY DEF Carries
<1>3. \A i \in 1..ls : s[i].kind = "close" => i = ls
  BY DEF ClosesLast
<1> HIDE DEF lr, ls
<1>4. lr \in 1..lr /\ lr \in 1..ls
  BY <1>1, <1>2
<1>5. s[lr].kind = "close"
  BY <1>2, <1>4
<1>6. QED
  BY <1>1, <1>3, <1>4, <1>5 DEF lr, ls

(* A frame is read and recorded, or handled as a control frame. *)
LEMMA ReadFrameKeeps == ASSUME RelayInv, NEW d \in Sides, ReadFrame(d) PROVE RelayInv'
<1> DEFINE f == Head(wire[d])
<1>1. /\ pump[d] = "read" /\ wire[d] # << >>
      /\ wire' = [wire EXCEPT ![d] = Tail(@)] /\ recorded' = [recorded EXCEPT ![d] = Append(@, f)]
      /\ (f.kind = "close" /\ once => held[Other(d)].kind # "close")
      /\ UNCHANGED <<script, relay, open, peer, sent, got>>
  BY DEF ReadFrame, Record
<1>2. \/ f.kind = "close" /\ once /\ ReportErr(d) /\ UNCHANGED once
      \/ /\ ~(f.kind = "close" /\ once)
         /\ held' = [held EXCEPT ![d] = f]
         /\ pump' = [pump EXCEPT ![d] = IF f.kind = "data" THEN "write" ELSE "control"]
         /\ once' = (once \/ f.kind = "close")
         /\ UNCHANGED cancelled
  BY DEF ReadFrame
<1>3. /\ sent[d] \in Seq(Frame) /\ wire[d] \in Seq(Frame) /\ recorded[d] \in Seq(Frame) /\ got[Other(d)] \in Seq(Frame)
      /\ Len(recorded[d]) \in Nat
  BY LenProperties, OtherFacts DEF RelayInv, RelayType
<1>4. f \in Frame /\ Tail(wire[d]) \in Seq(Frame)
  BY <1>1, <1>3, TailFacts
<1> HIDE DEF f
<1>5. /\ wire'[d] = Tail(wire[d]) /\ recorded'[d] = Append(recorded[d], f)
      /\ \A e \in Sides \ {d} : wire'[e] = wire[e] /\ recorded'[e] = recorded[e]
  BY <1>1 DEF RelayInv, RelayType
<1>6. /\ Append(recorded[d], f) \in Seq(Frame) /\ Len(recorded'[d]) = Len(recorded[d]) + 1
      /\ recorded'[d][Len(recorded'[d])] = f
  BY <1>3, <1>4, <1>5, AppendFacts
<1>7. Carries(sent[d], wire'[d], recorded'[d], got[Other(d)]) /\ ClosesLast(sent[d])
  BY <1>1, <1>3, <1>5, CarriesRead DEF RelayInv, Flow, f
<1>8. relay # "off"
  BY <1>1, PumpRuns
<1>9. held[d] = NoFrame /\ (peer[Other(d)] # "gone" => Len(got[Other(d)]) = Len(recorded[d]))
  BY <1>1 DEF RelayInv, Flow, Writing
<1>10. AllUp' = AllUp /\ \A s \in Sides : Len(got[s]) <= Len(got'[s])
  BY <1>1, LenProperties DEF RelayInv, RelayType, AllUp
<1>11. CASE f.kind = "close" /\ once /\ ReportErr(d) /\ UNCHANGED once
  <2>1. /\ pump' = [pump EXCEPT ![d] = "done"] /\ held' = [held EXCEPT ![d] = NoFrame] /\ cancelled' = TRUE
    BY <1>11 DEF ReportErr
  <2>2. /\ pump'[d] = "done" /\ held'[d] = NoFrame
        /\ \A e \in Sides \ {d} : pump'[e] = pump[e] /\ held'[e] = held[e]
    BY <2>1 DEF RelayInv, RelayType
  <2>3. RelayType'
    BY <1>1, <1>4, <1>6, <2>1 DEF RelayInv, RelayType
  <2>4. ASSUME NEW e \in Sides PROVE Flow(e)'
    <3>1. CASE e = d
      BY <1>1, <1>7, <2>2, <3>1 DEF Flow, Writing
    <3>2. CASE e # d
      BY <1>1, <1>5, <2>2, <3>2, FlowSame DEF RelayInv
    <3>3. QED
      BY <3>1, <3>2
  <2>5. StageInv'
    BY <1>1, <1>8, <2>1 DEF RelayInv, StageInv
  <2>6. \A e \in Sides : held[e].kind # "close"
    BY <1>1, <1>9, <1>11, OtherFacts DEF NoFrame
  <2>7. AllUp => \E e \in Sides : Delivered(e)
    BY <1>11, <2>6 DEF RelayInv, CloseInv
  <2>8. ASSUME NEW e \in Sides, Delivered(e) PROVE Delivered(e)'
    BY <1>1, <2>8, Zenon DEF Delivered, Closing
  <2>9. CloseInv'
    BY <1>10, <2>7, <2>8 DEF CloseInv
  <2>10. QED
    BY <2>3, <2>4, <2>5, <2>9 DEF RelayInv
<1>12. CASE /\ held' = [held EXCEPT ![d] = f]
            /\ pump' = [pump EXCEPT ![d] = IF f.kind = "data" THEN "write" ELSE "control"]
            /\ once' = (once \/ f.kind = "close")
            /\ UNCHANGED cancelled
  <2>1. /\ pump'[d] \in {"write", "control"} /\ held'[d] = f
        /\ \A e \in Sides \ {d} : pump'[e] = pump[e] /\ held'[e] = held[e]
    BY <1>12 DEF RelayInv, RelayType
  <2>2. RelayType'
    BY <1>1, <1>4, <1>6, <1>12 DEF RelayInv, RelayType
  <2>3. ASSUME NEW e \in Sides PROVE Flow(e)'
    <3>1. CASE e = d
      <4>1. /\ Len(recorded'[d]) > 0 /\ held'[d] = recorded'[d][Len(recorded'[d])]
            /\ peer[Other(d)] # "gone" => Len(got[Other(d)]) = Len(recorded'[d]) - 1
        BY <1>3, <1>6, <1>9, <2>1
      <4>2. QED
        BY <1>1, <1>7, <2>1, <3>1, <4>1 DEF Flow, Writing
    <3>2. CASE e # d
      BY <1>1, <1>5, <2>1, <3>2, FlowSame DEF RelayInv
    <3>3. QED
      BY <3>1, <3>2
  <2>4. StageInv'
    BY <1>1, <1>8, <1>12 DEF RelayInv, StageInv
  <2>5. CloseInv'
    <3>1. once' => once \/ held'[d].kind = "close"
      BY <1>12, <2>1
    <3>2. \A e \in Sides : held[e].kind = "close" => held'[e].kind = "close"
      BY <1>9, <2>1 DEF NoFrame
    <3>3. QED
      BY <1>1, <1>10, <1>12, <2>2, <2>3, <3>1, <3>2, CloseKeeps
  <2>6. QED
    BY <2>2, <2>3, <2>4, <2>5 DEF RelayInv
<1>13. QED
  BY <1>2, <1>11, <1>12

(* A pump that has written its frame, to a side that reads it or to one that is gone. *)
LEMMA WrittenKeeps ==
  ASSUME RelayInv, NEW d \in Sides, Writing(d), Written(d), UNCHANGED <<script, relay, once, open, peer, sent, wire, recorded>>,
         \/ peer[Other(d)] = "up" /\ got' = [got EXCEPT ![Other(d)] = Append(@, held[d])]
         \/ peer[Other(d)] = "gone" /\ UNCHANGED got
  PROVE  RelayInv'
<1>1. /\ sent[d] \in Seq(Frame) /\ wire[d] \in Seq(Frame) /\ recorded[d] \in Seq(Frame) /\ got[Other(d)] \in Seq(Frame)
      /\ Len(recorded[d]) \in Nat /\ Other(d) \in Sides
  BY LenProperties, OtherFacts DEF RelayInv, RelayType
<1>2. /\ Len(recorded[d]) > 0 /\ held[d] = recorded[d][Len(recorded[d])]
      /\ peer[Other(d)] # "gone" => Len(got[Other(d)]) = Len(recorded[d]) - 1
      /\ Carries(sent[d], wire[d], recorded[d], got[Other(d)]) /\ ClosesLast(sent[d])
  BY DEF RelayInv, Flow
<1>3. held[d] \in Frame
  <2>1. Len(recorded[d]) \in 1..Len(recorded[d])
    BY <1>1, <1>2
  <2>2. QED
    BY <1>1, <1>2, <2>1, ElementOfSeq
<1>4. /\ got' \in [Sides -> Seq(Frame)] /\ \A s \in Sides \ {Other(d)} : got'[s] = got[s]
      /\ got'[Other(d)] \in {got[Other(d)], Append(got[Other(d)], held[d])}
  <2>1. Append(got[Other(d)], held[d]) \in Seq(Frame)
    BY <1>1, <1>3, AppendFacts
  <2>2. QED
    BY <1>1, <2>1 DEF RelayInv, RelayType
<1>5. \A s \in Sides : Len(got[s]) <= Len(got'[s])
  <2>1. \A s \in Sides : Len(got[s]) \in Nat
    BY LenProperties DEF RelayInv, RelayType
  <2>2. Len(got'[Other(d)]) \in {Len(got[Other(d)]), Len(got[Other(d)]) + 1}
    BY <1>1, <1>3, <1>4, AppendFacts
  <2>3. Len(got[Other(d)]) <= Len(got'[Other(d)])
    BY <1>1, <2>1, <2>2
  <2>4. QED
    BY <1>4, <2>1, <2>3
<1>6. /\ Carries(sent[d], wire[d], recorded[d], got'[Other(d)])
      /\ peer[Other(d)] # "gone" => Len(got'[Other(d)]) = Len(recorded[d])
  <2>1. CASE peer[Other(d)] = "up" /\ got' = [got EXCEPT ![Other(d)] = Append(@, held[d])]
    <3>1. got'[Other(d)] = Append(got[Other(d)], recorded[d][Len(recorded[d])])
      BY <1>1, <1>2, <2>1 DEF RelayInv, RelayType
    <3>2. QED
      BY <1>1, <1>2, <2>1, <3>1, CarriesWritten
  <2>2. CASE peer[Other(d)] = "gone" /\ UNCHANGED got
    BY <1>2, <2>2
  <2>3. QED
    BY <2>1, <2>2
<1>7. /\ pump' = [pump EXCEPT ![d] = pump'[d]] /\ pump'[d] \in {"check", "read", "done"}
      /\ held' = [held EXCEPT ![d] = NoFrame]
      /\ held[d].kind = "close" <=> pump'[d] = "done"
      /\ IF held[d].kind = "close" THEN cancelled' = TRUE ELSE UNCHANGED cancelled
  BY DEF Written, ReportErr, RelayInv, RelayType
<1>8. /\ ~Writing(d)' /\ held'[d] = NoFrame
      /\ \A e \in Sides \ {d} : pump'[e] = pump[e] /\ held'[e] = held[e]
  BY <1>7 DEF RelayInv, RelayType, Writing
<1>9. RelayType'
  BY <1>4, <1>7 DEF RelayInv, RelayType
<1>10. ASSUME NEW e \in Sides PROVE Flow(e)'
  <2>1. CASE e = d
    BY <1>2, <1>6, <1>8, <2>1 DEF Flow
  <2>2. CASE e # d
    <3>1. Other(e) \in Sides \ {Other(d)}
      BY <2>2, OtherFacts
    <3>2. QED
      BY <1>4, <1>8, <2>2, <3>1, FlowSame DEF RelayInv
  <2>3. QED
    BY <2>1, <2>2
<1>11. relay # "off"
  BY PumpRuns DEF Writing
<1>12. StageInv'
  BY <1>7, <1>11 DEF RelayInv, StageInv
<1>13. AllUp' = AllUp
  BY DEF AllUp
<1>14. held[d].kind = "close" /\ AllUp => Delivered(d)'
  <2>1. ASSUME held[d].kind = "close", AllUp PROVE Delivered(d)'
    <3>1. Len(recorded[d]) = Len(sent[d]) /\ Closing(d)
      BY <1>1, <1>2, <2>1, LastIsClose DEF Closing
    <3>2. Len(got'[Other(d)]) = Len(recorded[d])
      BY <1>1, <1>6, <2>1 DEF AllUp
    <3>3. QED
      BY <3>1, <3>2 DEF Delivered, Closing
  <2>2. QED
    BY <2>1
<1>15. CloseInv'
  <2>1. cancelled' /\ AllUp' => cancelled \/ \E e \in Sides : Delivered(e)'
    BY <1>7, <1>13, <1>14
  <2>2. once' /\ AllUp' => \/ once /\ \A e \in Sides : held[e].kind = "close" => held'[e].kind = "close"
                           \/ \E e \in Sides : Delivered(e)'
    BY <1>8, <1>13, <1>14
  <2>3. QED
    BY <1>5, <1>9, <1>10, <1>13, <2>1, <2>2, CloseKeeps
<1>16. QED
  BY <1>9, <1>10, <1>12, <1>15 DEF RelayInv

(* A frame is passed on, or the write fails. *)
LEMMA WriteFrameKeeps == ASSUME RelayInv, NEW d \in Sides, WriteFrame(d) PROVE RelayInv'
<1>1. /\ Writing(d) /\ UNCHANGED <<script, relay, once, open, peer, sent, wire, recorded>>
      /\ \/ /\ peer[Other(d)] = "up" /\ got' = [got EXCEPT ![Other(d)] = Append(@, held[d])] /\ Written(d)
         \/ peer[Other(d)] = "gone" /\ Written(d) /\ UNCHANGED got
         \/ (~open[Other(d)] \/ peer[Other(d)] # "up") /\ ReportErr(d) /\ UNCHANGED got
  BY DEF WriteFrame, Writing
<1>2. CASE /\ Written(d)
           /\ \/ peer[Other(d)] = "up" /\ got' = [got EXCEPT ![Other(d)] = Append(@, held[d])]
              \/ peer[Other(d)] = "gone" /\ UNCHANGED got
  BY <1>1, <1>2, WrittenKeeps
<1>3. CASE (~open[Other(d)] \/ peer[Other(d)] # "up") /\ ReportErr(d) /\ UNCHANGED got
  <2>1. relay # "off" /\ (AllUp => cancelled)
    BY <1>1, <1>3, PumpRuns, OtherFacts DEF AllUp, Writing
  <2>2. QED
    BY <1>1, <1>3, <2>1, ErrKeeps
<1>4. QED
  BY <1>1, <1>2, <1>3

(* Every step of the system is a step of the relay, its start, or leaves it alone. *)
LEMMA RelayStep == ASSUME RelayInv, [Next]_vars PROVE RelayInv'
<1>0. RelayNext \/ (\E c \in Conns : RelayStarts(~gone[c])) \/ UNCHANGED relayVars
  <2>1. ASSUME NEW c \in Conns, Serve(c) \/ HandlerGoesOn(c) \/ ClientSends(c) \/ ClientLeaves(c)
        PROVE  RelayStarts(~gone[c]) \/ UNCHANGED relayVars
    BY <2>1 DEF Serve, ClientSends, ClientLeaves, handleConnect, Peek, CertHit, CertMiss, CertPut, Handshake,
       ReadRequest, handleWebSocket, RelayReturns, ReadEOF, ServeStream, ServeConnEnds, ContextEnds, HandlerGoesOn
  <2>2. QED
    BY <2>1 DEF Next, vars
<1>1. CASE RelayNext
  BY <1>1, PeerSendsKeeps, PeerEndsKeeps, PumpChecksKeeps, ReadFrameKeeps, ReadFailsKeeps, WriteFrameKeeps, CallerKeeps
     DEF RelayNext, Pump
<1>2. CASE \E c \in Conns : RelayStarts(~gone[c])
  BY <1>2, RelayStartsKeeps
<1>3. CASE UNCHANGED relayVars
  <2>1. UNCHANGED <<script, relay, pump, held, cancelled, once, open, peer, sent, wire, recorded, got>>
    BY <1>3 DEF relayVars
  <2>2. RelayType' /\ StageInv' /\ (AllUp' => AllUp)
    BY <2>1 DEF RelayInv, RelayType, StageInv, AllUp
  <2>3. ASSUME NEW d \in Sides PROVE Flow(d)'
    BY <2>1, FlowSame DEF RelayInv
  <2>4. QED
    BY <2>1, <2>2, <2>3, QuietKeeps
<1>4. QED
  BY <1>0, <1>1, <1>2, <1>3

(* The invariant holds before the relay starts. *)
LEMMA RelayStartState == RelayInit => RelayInv
<1> SUFFICES ASSUME RelayInit PROVE RelayInv
  OBVIOUS
<1> USE DEF RelayInit
<1>1. << >> \in Seq(Frame) /\ Len(<< >>) = 0
  BY EmptySeq
<1>2. RelayType
  BY <1>1 DEF RelayType
<1>3. StageInv /\ CloseInv
  BY DEF StageInv, AllUp, CloseInv
<1>4. ASSUME NEW d \in Sides PROVE Flow(d)
  <2>1. /\ sent[d] = << >> /\ wire[d] = << >> /\ recorded[d] = << >> /\ got[Other(d)] = << >>
        /\ held[d] = NoFrame /\ pump[d] = "off"
    BY OtherFacts
  <2>2. Carries(<< >>, << >>, << >>, << >>) /\ ClosesLast(<< >>)
    BY <1>1 DEF Carries, ClosesLast
  <2>3. QED
    BY <1>1, <2>1, <2>2 DEF Flow, Writing
<1>5. QED
  BY <1>2, <1>3, <1>4 DEF RelayInv

(* The relay is part of every step of the connections. *)
LEMMA RelayAlways == Spec => []RelayInv
<1>1. Init => RelayInv
  BY RelayStartState DEF Init
<1>2. RelayInv /\ [Next]_vars => RelayInv'
  BY RelayStep
<1>3. QED
  BY <1>1, <1>2, PTL DEF Spec

(* What one side receives is a prefix of what was recorded, and that of    *)
(* what the other has sent; and when the relay returns a close frame that  *)
(* was read has been passed on with all that was sent before it, unless a  *)
(* side left, stalled or closed by itself (relayWebSocket).                *)
THEOREM RelayAlwaysFaithful == Spec => []RelayFaithful
<1>1. RelayInv => RelayFaithful
  <2> SUFFICES ASSUME RelayInv, NEW d \in Sides
               PROVE  /\ IsPrefix(got[Other(d)], recorded[d])
                      /\ IsPrefix(recorded[d], sent[d])
                      /\ (/\ relay = "done" /\ \A s \in Sides : peer[s] = "up"
                          /\ \E i \in DOMAIN recorded[d] : recorded[d][i].kind = "close"
                          /\ ~Closing(Other(d))) => got[Other(d)] = sent[d]
    BY DEF RelayFaithful
  <2>1. sent[d] \in Seq(Frame) /\ wire[d] \in Seq(Frame) /\ recorded[d] \in Seq(Frame) /\ got[Other(d)] \in Seq(Frame)
    BY OtherFacts DEF RelayInv, RelayType
  <2>2. Carries(sent[d], wire[d], recorded[d], got[Other(d)])
    BY DEF RelayInv, Flow
  <2> DEFINE s == sent[d]
             w == wire[d]
             r == recorded[d]
             g == got[Other(d)]
  <2>3. s \in Seq(Frame) /\ w \in Seq(Frame) /\ r \in Seq(Frame) /\ g \in Seq(Frame) /\ Carries(s, w, r, g)
    BY <2>1, <2>2
  <2> HIDE DEF s, w, r, g
  <2>4. IsPrefix(g, r)
    BY <2>3, PrefixFacts DEF Carries
  <2>5. Len(r) <= Len(s)
    <3>1. Len(r) \in Nat /\ Len(w) \in Nat /\ Len(s) = Len(r) + Len(w)
      BY <2>3, LenProperties DEF Carries
    <3>2. QED
      BY <3>1
  <2>6. IsPrefix(r, s)
    BY <2>3, <2>5, PrefixFacts DEF Carries
  <2>7. ASSUME relay = "done", \A t \in Sides : peer[t] = "up", ~Closing(Other(d)) PROVE g = s
    <3>1. PICK e \in Sides : Delivered(e)
      BY <2>7 DEF RelayInv, StageInv, CloseInv, AllUp
    <3>2. e = d
      BY <2>7, <3>1, OtherFacts DEF Delivered
    <3>3. Len(g) = Len(s)
      BY <3>1, <3>2 DEF Delivered, g, s
    <3>4. \A i \in 1..Len(g) : g[i] = s[i]
      <4>1. Len(g) \in Nat /\ Len(r) \in Nat /\ Len(g) <= Len(r)
        BY <2>3, LenProperties DEF Carries
      <4>2. \A i \in 1..Len(g) : i \in 1..Len(r)
        BY <4>1
      <4>3. QED
        BY <2>3, <4>2 DEF Carries
    <3>5. QED
      BY <2>3, <3>3, <3>4, SeqEqual
  <2>8. QED
    BY <2>4, <2>6, <2>7 DEF s, r, g
<1>2. QED
  BY <1>1, RelayAlways, PTL
-----------------------------------------------------------------------------
(* The cache *)

(* Without its i-th element a list has the other hosts, in their order. *)
LEMMA ListsWithout ==
  ASSUME NEW S, NEW s \in Seq(S), NEW H, Lists(s, H), NEW i \in 1..Len(s)
  PROVE  /\ RemoveAt(s, i) \in Seq(S) /\ Len(RemoveAt(s, i)) = Len(s) - 1
         /\ Lists(RemoveAt(s, i), H \ {s[i]})
<1> DEFINE a == SubSeq(s, 1, i - 1)
           b == SubSeq(s, i + 1, Len(s))
           r == RemoveAt(s, i)
           l == Len(s)
           From(j) == IF j < i THEN j ELSE j + 1
<1>0. l \in Nat /\ i \in 1..l /\ \A j \in 1..l : s[j] \in S
  BY LenProperties, ElementOfSeq
<1>1. a \in Seq(S) /\ Len(a) = i - 1 /\ \A j \in 1..(i - 1) : a[j] = s[j]
  BY <1>0, SubSeqProperties
<1>2. b \in Seq(S) /\ Len(b) = l - i /\ \A j \in 1..(l - i) : b[j] = s[i + j]
  BY <1>0, SubSeqProperties
<1>3. r = a \o b
  BY DEF RemoveAt
<1>11. H = {s[j] : j \in 1..l} /\ \A j, k \in 1..l : s[j] = s[k] => j = k
  BY DEF Lists
<1> HIDE DEF a, b, r, l
<1>4. r \in Seq(S) /\ Len(r) = l - 1
  BY <1>0, <1>1, <1>2, <1>3, ConcatProperties
<1>5. ASSUME NEW j \in 1..(l - 1) PROVE From(j) \in 1..l /\ From(j) # i /\ r[j] = s[From(j)]
  <2>1. CASE j < i
    BY <1>0, <1>1, <1>2, <1>3, <2>1, ConcatProperties
  <2>2. CASE ~(j < i)
    <3>1. r[j] = b[j - (i - 1)]
      BY <1>0, <1>1, <1>2, <1>3, <2>2, ConcatProperties
    <3>2. j - (i - 1) \in 1..(l - i) /\ i + (j - (i - 1)) = j + 1 /\ j + 1 \in 1..l /\ j + 1 # i
      BY <1>0, <2>2
    <3>3. QED
      BY <1>2, <2>2, <3>1, <3>2
  <2>3. QED
    BY <2>1, <2>2
<1>6. ASSUME NEW k \in 1..l, k # i PROVE \E j \in 1..(l - 1) : From(j) = k
  <2>1. CASE k < i
    BY <1>0, <2>1
  <2>2. CASE k > i
    <3>1. k - 1 \in 1..(l - 1) /\ ~(k - 1 < i) /\ (k - 1) + 1 = k
      BY <1>0, <2>2
    <3>2. QED
      BY <3>1
  <2>3. QED
    BY <1>0, <1>6, <2>1, <2>2
<1>7. \A j, k \in 1..(l - 1) : From(j) = From(k) => j = k
  BY <1>0
<1> HIDE DEF From
<1>8. H \ {s[i]} = {r[j] : j \in 1..(l - 1)}
  <2>1. ASSUME NEW x \in H \ {s[i]} PROVE \E j \in 1..(l - 1) : x = r[j]
    BY <1>5, <1>6, <1>11
  <2>2. ASSUME NEW j \in 1..(l - 1) PROVE r[j] \in H \ {s[i]}
    BY <1>0, <1>5, <1>11
  <2>3. QED
    BY <2>1, <2>2
<1>9. \A j, k \in 1..(l - 1) : r[j] = r[k] => j = k
  BY <1>5, <1>7, <1>11
<1>10. QED
  BY <1>4, <1>8, <1>9 DEF Lists, r, l

(* A new host in front of a list. *)
LEMMA ListsWith ==
  ASSUME NEW S, NEW s \in Seq(S), NEW H, Lists(s, H), NEW h \in S, h \notin H
  PROVE  /\ <<h>> \o s \in Seq(S) /\ Len(<<h>> \o s) = Len(s) + 1
         /\ Lists(<<h>> \o s, H \cup {h})
<1> DEFINE r == <<h>> \o s
           l == Len(s)
<1>0. l \in Nat
  BY LenProperties
<1>1. <<h>> \in Seq(S) /\ Len(<<h>>) = 1 /\ <<h>>[1] = h
  OBVIOUS
<1>2. r \in Seq(S) /\ Len(r) = l + 1 /\ r[1] = h /\ \A j \in 2..(l + 1) : r[j] = s[j - 1]
  BY <1>0, <1>1, ConcatProperties
<1>3. H = {s[j] : j \in 1..l} /\ \A j, k \in 1..l : s[j] = s[k] => j = k
  BY DEF Lists
<1> HIDE DEF r, l
<1>4. ASSUME NEW j \in 1..(l + 1), j # 1 PROVE j - 1 \in 1..l /\ r[j] = s[j - 1] /\ r[j] \in H
  <2>1. j - 1 \in 1..l /\ j \in 2..(l + 1)
    BY <1>0, <1>4
  <2>2. QED
    BY <1>2, <1>3, <2>1
<1>5. ASSUME NEW k \in 1..l PROVE k + 1 \in 1..(l + 1) /\ r[k + 1] = s[k]
  <2>1. k + 1 \in 2..(l + 1) /\ (k + 1) - 1 = k /\ k + 1 \in 1..(l + 1)
    BY <1>0
  <2>2. QED
    BY <1>2, <2>1
<1>6. H \cup {h} = {r[j] : j \in 1..(l + 1)}
  <2>1. ASSUME NEW x \in H PROVE \E j \in 1..(l + 1) : x = r[j]
    BY <1>3, <1>5
  <2>2. 1 \in 1..(l + 1)
    BY <1>0
  <2>3. ASSUME NEW j \in 1..(l + 1) PROVE r[j] \in H \cup {h}
    BY <1>2, <1>4
  <2>4. QED
    BY <1>2, <2>1, <2>2, <2>3
<1>7. ASSUME NEW j \in 1..(l + 1), NEW k \in 1..(l + 1), r[j] = r[k] PROVE j = k
  <2>1. CASE j = 1 \/ k = 1
    BY <1>2, <1>4, <1>7, <2>1
  <2>2. CASE j # 1 /\ k # 1
    <3>1. j - 1 = k - 1
      BY <1>3, <1>4, <1>7, <2>2
    <3>2. QED
      BY <1>0, <3>1
  <2>3. QED
    BY <2>1, <2>2
<1>8. QED
  BY <1>2, <1>6, <1>7 DEF Lists, r, l

(* A list without repetitions is as long as it has hosts. *)
LEMMA ListsCardinality ==
  ASSUME NEW S, NEW s \in Seq(S), NEW H, Lists(s, H)
  PROVE  Cardinality(H) = Len(s)
<1>1. Len(s) \in Nat /\ s \in [1..Len(s) -> S] /\ DOMAIN s = 1..Len(s)
  BY LenProperties
<1>2. IsFiniteSet(1..Len(s)) /\ Cardinality(1..Len(s)) = Len(s)
  BY <1>1, FS_Interval
<1>3. s \in [1..Len(s) -> H]
  BY <1>1 DEF Lists
<1>4. s \in Bijection(1..Len(s), H)
  BY <1>3 DEF Lists, Bijection, Injection, Surjection, IsInjective
<1>5. ExistsBijection(1..Len(s), H)
  BY <1>4 DEF ExistsBijection
<1>6. QED
  BY <1>2, <1>5, FS_Bijection

(* The host the map has moves to the front of the list. *)
LEMMA MoveToFrontFacts ==
  ASSUME CacheInv, NEW h \in DOMAIN entries
  PROVE  /\ MoveToFront(h) \in Seq(Hosts) /\ Len(MoveToFront(h)) = Len(lru)
         /\ Lists(MoveToFront(h), DOMAIN entries)
<1>1. lru \in Seq(Hosts) /\ Len(lru) \in Nat /\ DOMAIN lru = 1..Len(lru) /\ Lists(lru, DOMAIN entries)
  BY LenProperties DEF CacheInv
<1>2. h \in {lru[i] : i \in 1..Len(lru)}
  BY <1>1 DEF Lists
<1>3. Elem(h) \in 1..Len(lru) /\ lru[Elem(h)] = h
  BY <1>1, <1>2 DEF Elem
<1>4. MoveToFront(h) = <<h>> \o RemoveAt(lru, Elem(h))
  BY <1>1, <1>2 DEF MoveToFront
<1> DEFINE r == RemoveAt(lru, Elem(h))
<1>5. r \in Seq(Hosts) /\ Len(r) = Len(lru) - 1 /\ Lists(r, DOMAIN entries \ {h})
  BY <1>1, <1>3, ListsWithout
<1>6. h \in Hosts
  BY <1>1, <1>3, ElementOfSeq
<1> HIDE DEF r
<1>7. /\ <<h>> \o r \in Seq(Hosts) /\ Len(<<h>> \o r) = Len(r) + 1
      /\ Lists(<<h>> \o r, (DOMAIN entries \ {h}) \cup {h})
  BY <1>5, <1>6, ListsWith
<1>8. (DOMAIN entries \ {h}) \cup {h} = DOMAIN entries
  OBVIOUS
<1>9. Len(r) + 1 = Len(lru)
  BY <1>1, <1>5
<1>10. QED
  BY <1>4, <1>7, <1>8, <1>9 DEF r

(* certLRU.get moves an entry to the front and changes no other. *)
LEMMA GetKeeps == ASSUME CacheInv, NEW h, get(h) PROVE CacheInv'
<1>1. h \in DOMAIN entries /\ lru' = MoveToFront(h) /\ UNCHANGED entries
  BY DEF get, Cached
<1>2. QED
  BY <1>1, MoveToFrontFacts DEF CacheInv

(* put: with the list full, the host at its back leaves the list and the map. *)
LEMMA PutKeeps == ASSUME CacheInv, NEW h \in Hosts, NEW x, LeafFor(x, h), put(h, x) PROVE CacheInv'
<1>0. lru \in Seq(Hosts) /\ Len(lru) \in Nat /\ Len(lru) <= CertCapacity /\ Lists(lru, DOMAIN entries) /\ CertCapacity \in Nat \ {0}
  BY LenProperties, CertCapacityAssumption DEF CacheInv
<1>1. CASE Cached(h)
  <2>1. h \in DOMAIN entries /\ lru' = MoveToFront(h) /\ entries' = [entries EXCEPT ![h] = x]
    BY <1>1 DEF put, Cached
  <2>2. DOMAIN entries' = DOMAIN entries /\ \A k \in DOMAIN entries' : LeafFor(entries'[k], k)
    <3>1. \A k \in DOMAIN entries : entries'[k] = IF k = h THEN x ELSE entries[k]
      BY <2>1
    <3>2. DOMAIN entries' = DOMAIN entries
      BY <2>1
    <3>3. QED
      BY <3>1, <3>2 DEF CacheInv
  <2>3. QED
    BY <1>0, <2>1, <2>2, MoveToFrontFacts DEF CacheInv
<1>2. CASE ~Cached(h)
  <2> DEFINE rest == IF Len(lru) >= CertCapacity THEN SubSeq(lru, 1, Len(lru) - 1) ELSE lru
  <2>1. /\ h \notin DOMAIN entries /\ lru' = <<h>> \o rest
        /\ entries' = [k \in (DOMAIN entries \ Evicted) \cup {h} |-> IF k = h THEN x ELSE entries[k]]
    BY <1>2 DEF put, Cached
  <2>2. rest \in Seq(Hosts) /\ Len(rest) + 1 <= CertCapacity /\ Lists(rest, DOMAIN entries \ Evicted)
    <3>1. CASE Len(lru) >= CertCapacity
      <4>1. Len(lru) \in 1..Len(lru)
        BY <1>0, <3>1
      <4> DEFINE r == RemoveAt(lru, Len(lru))
      <4>2. r \in Seq(Hosts) /\ Len(r) = Len(lru) - 1 /\ Lists(r, DOMAIN entries \ {lru[Len(lru)]})
        BY <1>0, <4>1, ListsWithout
      <4>3. r = SubSeq(lru, 1, Len(lru) - 1)
        <5>1. SubSeq(lru, Len(lru) + 1, Len(lru)) = << >>
          BY <1>0, SubSeqEmpty
        <5>2. \A j \in 1..(Len(lru) - 1) : lru[j] \in Hosts
          BY <1>0, ElementOfSeq
        <5>3. SubSeq(lru, 1, Len(lru) - 1) \in Seq(Hosts)
          BY <1>0, <5>2, SubSeqProperties
        <5>4. QED
          BY <5>1, <5>3, ConcatEmptySeq DEF RemoveAt
      <4>4. Evicted = {lru[Len(lru)]} /\ rest = r
        BY <3>1, <4>3 DEF Evicted
      <4> HIDE DEF r, rest
      <4>5. Len(r) + 1 <= CertCapacity
        BY <1>0, <4>2
      <4>6. QED
        BY <4>2, <4>4, <4>5
    <3>2. CASE ~(Len(lru) >= CertCapacity)
      <4>1. Evicted = {} /\ rest = lru
        BY <3>2 DEF Evicted
      <4>2. Len(lru) + 1 <= CertCapacity
        BY <1>0, <3>2
      <4>3. QED
        BY <1>0, <4>1, <4>2
    <3>3. QED
      BY <3>1, <3>2
  <2> HIDE DEF rest
  <2>3. DOMAIN entries' = (DOMAIN entries \ Evicted) \cup {h} /\ \A k \in DOMAIN entries' : LeafFor(entries'[k], k)
    <3>1. DOMAIN entries' = (DOMAIN entries \ Evicted) \cup {h}
      BY <2>1
    <3>2. \A k \in DOMAIN entries' : entries'[k] = IF k = h THEN x ELSE entries[k]
      BY <2>1, <3>1
    <3>3. QED
      BY <3>1, <3>2 DEF CacheInv
  <2>4. h \notin DOMAIN entries \ Evicted
    BY <2>1
  <2>5. lru' \in Seq(Hosts) /\ Len(lru') = Len(rest) + 1 /\ Lists(lru', DOMAIN entries')
    BY <2>1, <2>2, <2>3, <2>4, ListsWith
  <2>6. QED
    BY <2>2, <2>3, <2>5 DEF CacheInv
<1>3. QED
  BY <1>1, <1>2
-----------------------------------------------------------------------------
(* Certificates *)

(* A generated leaf is for the host it was asked for. *)
LEMMA LeafFacts == ASSUME NEW h, NEW by PROVE LeafFor(Leaf(h, by), h)
BY DEF LeafFor, Leaf
-----------------------------------------------------------------------------
(* The units of a connection, as sequences *)

(* The elements of a sequence of units are units. *)
LEMMA UnitNumbers == ASSUME NEW s \in Seq(Unit) PROVE \A i \in 1..Len(s) : s[i] \in Unit /\ s[i].n \in Nat
<1>1. ASSUME NEW i \in 1..Len(s) PROVE s[i] \in Unit
  BY ElementOfSeq
<1>2. \A u \in Unit : u.n \in Nat
  BY DEF Unit
<1>3. QED
  BY <1>1, <1>2

(* The next unit arrives. *)
LEMMA UnitArrives ==
  ASSUME NEW t \in Seq(Unit), NEW b \in Seq(Unit), NEW h \in Seq(Unit), t # << >>
  PROVE  /\ RestInv(t, b, h) => RestInv(Tail(t), Append(b, Head(t)), h)
         /\ OrderInv(t, b, h) => OrderInv(Tail(t), Append(b, Head(t)), h)
<1> DEFINE q == Tail(t)
           a == Append(b, Head(t))
           lt == Len(t)
           lb == Len(b)
           lh == Len(h)
<1>1. lt \in Nat /\ lb \in Nat /\ lh \in Nat /\ lt >= 1 /\ Head(t) = t[1] /\ Head(t) \in Unit
  BY TailFacts, LenProperties
<1>2. Len(q) = lt - 1 /\ \A i \in 1..(lt - 1) : q[i] = t[i + 1]
  BY TailFacts
<1>3. Len(a) = lb + 1 /\ a[lb + 1] = t[1] /\ \A i \in 1..lb : a[i] = b[i]
  BY <1>1, AppendFacts
<1>4. /\ \A i \in 1..lt : t[i].n \in Nat
      /\ \A i \in 1..lb : b[i].n \in Nat
  BY UnitNumbers
<1> HIDE DEF q, a
<1>5. 1 \in 1..lt /\ (\A i \in 1..(lt - 1) : i + 1 \in 1..lt) /\ \A i \in 1..(lb + 1) : i \in 1..lb \/ i = lb + 1
  BY <1>1
<1>6. ASSUME RestInv(t, b, h) PROVE RestInv(q, a, h)
  <2>1. /\ (\A i \in 1..lt : t[i].kind # "rest")
        /\ (\A i \in 1..lb : b[i].kind = "rest" => \E j \in 1..Len(h) : Refused(h[j]))
        /\ (\A i \in 1..Len(h) : h[i].kind = "rest" => \E j \in 1..(i - 1) : Refused(h[j]))
    BY <1>6 DEF RestInv
  <2> HIDE DEF lt, lb
  <2>2. \A i \in 1..(lt - 1) : q[i].kind # "rest"
    BY <1>2, <1>5, <2>1
  <2>3. \A i \in 1..(lb + 1) : a[i].kind = "rest" => \E j \in 1..Len(h) : Refused(h[j])
    BY <1>3, <1>5, <2>1
  <2>4. QED
    BY <1>2, <1>3, <2>1, <2>2, <2>3 DEF RestInv
<1>7. ASSUME OrderInv(t, b, h) PROVE OrderInv(q, a, h)
  <2>1. /\ (\A i, j \in 1..lb : i <= j => b[i].n <= b[j].n)
        /\ (\A i, j \in 1..lt : i <= j => t[i].n <= t[j].n)
        /\ (\A i \in 1..lh, j \in 1..lb : h[i].n <= b[j].n)
        /\ (\A i \in 1..lh, j \in 1..lt : h[i].n <= t[j].n)
        /\ (\A i \in 1..lb, j \in 1..lt : b[i].n <= t[j].n)
    BY <1>7 DEF OrderInv, Sorted, NoLater
  <2> HIDE DEF lt, lb, lh
  <2>2. \A i, j \in 1..(lt - 1) : i <= j => i + 1 <= j + 1
    BY <1>1
  <2>3. \A i, j \in 1..(lt - 1) : i <= j => q[i].n <= q[j].n
    BY <1>2, <1>5, <2>1, <2>2
  <2>4. ASSUME NEW i \in 1..(lb + 1), NEW j \in 1..(lb + 1), i <= j PROVE a[i].n <= a[j].n
    <3>1. CASE j \in 1..lb
      <4>1. i \in 1..lb
        BY <1>1, <2>4, <3>1
      <4>2. QED
        BY <1>3, <2>1, <2>4, <3>1, <4>1
    <3>2. CASE j = lb + 1 /\ i \in 1..lb
      BY <1>3, <1>5, <2>1, <3>2
    <3>3. CASE j = lb + 1 /\ i = lb + 1
      BY <1>3, <1>4, <1>5, <3>3
    <3>4. QED
      BY <1>5, <3>1, <3>2, <3>3
  <2>5. \A i \in 1..lh, j \in 1..(lb + 1) : h[i].n <= a[j].n
    BY <1>3, <1>5, <2>1
  <2>6. \A i \in 1..lh, j \in 1..(lt - 1) : h[i].n <= q[j].n
    BY <1>2, <1>5, <2>1
  <2>7. ASSUME NEW i \in 1..(lb + 1), NEW j \in 1..(lt - 1) PROVE a[i].n <= q[j].n
    <3>1. q[j] = t[j + 1] /\ j + 1 \in 1..lt /\ 1 <= j + 1
      BY <1>1, <1>2, <1>5
    <3>2. CASE i \in 1..lb
      BY <1>3, <2>1, <3>1, <3>2
    <3>3. CASE i = lb + 1
      BY <1>3, <1>5, <2>1, <3>1, <3>3
    <3>4. QED
      BY <1>5, <3>2, <3>3
  <2>8. Sorted(h)
    BY <1>7 DEF OrderInv
  <2>9. QED
    BY <1>2, <1>3, <2>3, <2>4, <2>5, <2>6, <2>7, <2>8 DEF OrderInv, Sorted, NoLater, lh
<1>8. QED
  BY <1>6, <1>7 DEF q, a

(* The first unit that has arrived is dropped. *)
LEMMA UnitDropped ==
  ASSUME NEW t \in Seq(Unit), NEW b \in Seq(Unit), NEW h \in Seq(Unit), b # << >>
  PROVE  /\ RestInv(t, b, h) => RestInv(t, Tail(b), h)
         /\ OrderInv(t, b, h) => OrderInv(t, Tail(b), h)
<1> DEFINE q == Tail(b)
           lb == Len(b)
<1>1. lb \in Nat /\ Len(q) = lb - 1 /\ \A i \in 1..(lb - 1) : q[i] = b[i + 1]
  BY TailFacts
<1> HIDE DEF q
<1>2. (\A i \in 1..(lb - 1) : i + 1 \in 1..lb) /\ \A i, j \in 1..(lb - 1) : i <= j => i + 1 <= j + 1
  BY <1>1
<1>3. ASSUME RestInv(t, b, h) PROVE RestInv(t, q, h)
  BY <1>1, <1>2, <1>3 DEF RestInv
<1>4. ASSUME OrderInv(t, b, h) PROVE OrderInv(t, q, h)
  <2>1. Sorted(h) /\ Sorted(b) /\ Sorted(t) /\ NoLater(h, b) /\ NoLater(h, t) /\ NoLater(b, t)
    BY <1>4 DEF OrderInv
  <2>2. Sorted(q)
    BY <1>1, <1>2, <2>1 DEF Sorted
  <2>3. NoLater(h, q) /\ NoLater(q, t)
    BY <1>1, <1>2, <2>1 DEF NoLater
  <2>4. QED
    BY <2>1, <2>2, <2>3 DEF OrderInv
<1>5. QED
  BY <1>3, <1>4 DEF q

(* One that has arrived is handled. *)
LEMMA UnitHandled ==
  ASSUME NEW t \in Seq(Unit), NEW b \in Seq(Unit), NEW h \in Seq(Unit), NEW k \in 1..Len(b)
  PROVE  /\ RestInv(t, b, h) => RestInv(t, b, Append(h, b[k]))
         /\ OrderInv(t, b, h) /\ k = 1 => OrderInv(t, b, Append(h, b[k]))
<1> DEFINE a == Append(h, b[k])
           lb == Len(b)
           lh == Len(h)
<1>1. lb \in Nat /\ lh \in Nat /\ b[k] \in Unit /\ (\A i \in 1..lb : b[i].n \in Nat)
  BY LenProperties, ElementOfSeq, UnitNumbers
<1>2. Len(a) = lh + 1 /\ a[lh + 1] = b[k] /\ \A i \in 1..lh : a[i] = h[i]
  BY <1>1, AppendFacts
<1> HIDE DEF a
<1>3. \A i \in 1..(lh + 1) : i \in 1..lh \/ i = lh + 1
  BY <1>1
<1>4. ASSUME RestInv(t, b, h) PROVE RestInv(t, b, a)
  <2>1. /\ (\A i \in 1..Len(t) : t[i].kind # "rest")
        /\ (\A i \in 1..Len(b) : b[i].kind = "rest" => \E j \in 1..lh : Refused(h[j]))
        /\ (\A i \in 1..lh : h[i].kind = "rest" => \E j \in 1..(i - 1) : Refused(h[j]))
    BY <1>4 DEF RestInv
  <2> HIDE DEF lh, lb
  <2>2. \A i \in 1..Len(b) : b[i].kind = "rest" => \E j \in 1..(lh + 1) : Refused(a[j])
    BY <1>1, <1>2, <2>1
  <2>3. ASSUME NEW i \in 1..(lh + 1), a[i].kind = "rest" PROVE \E j \in 1..(i - 1) : Refused(a[j])
    <3>1. CASE i \in 1..lh
      <4>1. PICK j \in 1..(i - 1) : Refused(h[j])
        BY <1>2, <2>1, <2>3, <3>1
      <4>2. j \in 1..lh
        BY <1>1, <3>1
      <4>3. QED
        BY <1>2, <4>1, <4>2
    <3>2. CASE i = lh + 1
      <4>1. PICK j \in 1..lh : Refused(h[j])
        BY <1>2, <2>1, <2>3, <3>2
      <4>2. j \in 1..(i - 1)
        BY <1>1, <3>2
      <4>3. QED
        BY <1>2, <4>1, <4>2
    <3>3. QED
      BY <1>3, <3>1, <3>2
  <2>4. QED
    BY <1>2, <2>1, <2>2, <2>3 DEF RestInv
<1>5. ASSUME OrderInv(t, b, h), k = 1 PROVE OrderInv(t, b, a)
  <2>1. Sorted(h) /\ Sorted(b) /\ Sorted(t) /\ NoLater(h, b) /\ NoLater(h, t) /\ NoLater(b, t)
    BY <1>5 DEF OrderInv
  <2>2. /\ (\A i, j \in 1..lh : i <= j => h[i].n <= h[j].n)
        /\ (\A i, j \in 1..lb : i <= j => b[i].n <= b[j].n)
        /\ (\A i \in 1..lh, j \in 1..lb : h[i].n <= b[j].n)
    BY <2>1 DEF Sorted, NoLater
  <2> HIDE DEF lh, lb
  <2>3. ASSUME NEW i \in 1..(lh + 1), NEW j \in 1..(lh + 1), i <= j PROVE a[i].n <= a[j].n
    <3>1. CASE j \in 1..lh
      <4>1. i \in 1..lh
        BY <1>1, <2>3, <3>1
      <4>2. QED
        BY <1>2, <2>2, <2>3, <3>1, <4>1
    <3>2. CASE j = lh + 1 /\ i \in 1..lh
      <4>1. k \in 1..lb
        BY DEF lb
      <4>2. QED
        BY <1>2, <2>2, <3>2, <4>1
    <3>3. CASE j = lh + 1 /\ i = lh + 1
      <4>1. b[k].n \in Nat
        BY <1>1 DEF Unit
      <4>2. QED
        BY <1>2, <3>3, <4>1
    <3>4. QED
      BY <1>3, <3>1, <3>2, <3>3
  <2>4. Sorted(a)
    BY <1>2, <2>3 DEF Sorted
  <2>5. NoLater(a, b)
    <3>1. ASSUME NEW i \in 1..(lh + 1), NEW j \in 1..lb PROVE a[i].n <= b[j].n
      <4>1. 1 <= j /\ k \in 1..lb
        BY <1>1 DEF lb
      <4>2. b[k].n <= b[j].n
        BY <1>5, <2>2, <4>1
      <4>3. QED
        BY <1>2, <1>3, <2>2, <4>2
    <3>2. QED
      BY <1>2, <3>1 DEF NoLater, lb
  <2>6. NoLater(a, t)
    BY <1>2, <1>3, <2>1 DEF NoLater, lh
  <2>7. QED
    BY <2>1, <2>4, <2>5, <2>6 DEF OrderInv
<1>6. QED
  BY <1>4, <1>5 DEF a

(* What is left of a body takes the place of its request. *)
LEMMA UnitLeft ==
  ASSUME NEW t \in Seq(Unit), NEW b \in Seq(Unit), NEW h \in Seq(Unit), b # << >>,
         NEW v \in Unit, v.n = b[1].n, \E j \in 1..Len(h) : Refused(h[j])
  PROVE  /\ <<v>> \o Tail(b) \in Seq(Unit)
         /\ RestInv(t, b, h) => RestInv(t, <<v>> \o Tail(b), h)
         /\ OrderInv(t, b, h) => OrderInv(t, <<v>> \o Tail(b), h)
<1> DEFINE a == <<v>> \o Tail(b)
           lb == Len(b)
<1>1. /\ lb \in Nat /\ lb >= 1 /\ Tail(b) \in Seq(Unit) /\ Len(Tail(b)) = lb - 1
      /\ \A i \in 1..(lb - 1) : Tail(b)[i] = b[i + 1]
  BY TailFacts
<1>2. <<v>> \in Seq(Unit) /\ Len(<<v>>) = 1 /\ <<v>>[1] = v
  OBVIOUS
<1>3. a \in Seq(Unit) /\ Len(a) = lb /\ a[1] = v /\ \A i \in 2..lb : a[i] = Tail(b)[i - 1]
  BY <1>1, <1>2, ConcatProperties
<1> HIDE DEF a, lb
<1>4. ASSUME NEW i \in 1..lb PROVE a[i].n = b[i].n /\ (i # 1 => a[i] = b[i])
  <2>1. CASE i = 1
    BY <1>3, <2>1
  <2>2. CASE i # 1
    <3>1. i \in 2..lb /\ i - 1 \in 1..(lb - 1) /\ (i - 1) + 1 = i
      BY <1>1, <2>2
    <3>2. QED
      BY <1>1, <1>3, <3>1
  <2>3. QED
    BY <2>1, <2>2
<1>5. ASSUME RestInv(t, b, h) PROVE RestInv(t, a, h)
  BY <1>3, <1>5 DEF RestInv
<1>6. ASSUME OrderInv(t, b, h) PROVE OrderInv(t, a, h)
  <2>1. Sorted(h) /\ Sorted(b) /\ Sorted(t) /\ NoLater(h, b) /\ NoLater(h, t) /\ NoLater(b, t)
    BY <1>6 DEF OrderInv
  <2>2. Sorted(a)
    BY <1>3, <1>4, <2>1 DEF Sorted, lb
  <2>3. NoLater(h, a) /\ NoLater(a, t)
    BY <1>3, <1>4, <2>1 DEF NoLater, lb
  <2>4. QED
    BY <2>1, <2>2, <2>3 DEF OrderInv
<1>7. QED
  BY <1>3, <1>5, <1>6 DEF a

(* A stream of an HTTP/2 connection is taken out of the middle. *)
LEMMA UnitTaken ==
  ASSUME NEW t \in Seq(Unit), NEW b \in Seq(Unit), NEW h \in Seq(Unit), NEW k \in 1..Len(b), RestInv(t, b, h)
  PROVE  /\ SubSeq(b, 1, k - 1) \o SubSeq(b, k + 1, Len(b)) \in Seq(Unit)
         /\ RestInv(t, SubSeq(b, 1, k - 1) \o SubSeq(b, k + 1, Len(b)), h)
<1> DEFINE x == SubSeq(b, 1, k - 1)
           y == SubSeq(b, k + 1, Len(b))
           l == Len(b)
<1>1. l \in Nat /\ k \in 1..l /\ \A i \in 1..l : b[i] \in Unit
  BY LenProperties, UnitNumbers
<1>2. x \in Seq(Unit) /\ Len(x) = k - 1 /\ \A i \in 1..(k - 1) : x[i] = b[i]
  BY <1>1, SubSeqProperties
<1>3. y \in Seq(Unit) /\ Len(y) = l - k /\ \A i \in 1..(l - k) : y[i] = b[k + i]
  BY <1>1, SubSeqProperties
<1> HIDE DEF x, y, l
<1>4. /\ x \o y \in Seq(Unit) /\ Len(x \o y) = (k - 1) + (l - k)
      /\ \A i \in 1..((k - 1) + (l - k)) : (x \o y)[i] = IF i <= k - 1 THEN x[i] ELSE y[i - (k - 1)]
  <2>1. x \in Seq(Unit) /\ y \in Seq(Unit) /\ Len(x) = k - 1 /\ Len(y) = l - k
    BY <1>2, <1>3
  <2>2. /\ x \o y \in Seq(Unit) /\ Len(x \o y) = Len(x) + Len(y)
        /\ \A i \in 1..(Len(x) + Len(y)) : (x \o y)[i] = IF i <= Len(x) THEN x[i] ELSE y[i - Len(x)]
    BY <2>1, ConcatProperties
  <2>3. Len(x) = k - 1 /\ Len(y) = l - k
    BY <2>1
  <2>4. QED
    BY <2>2, <2>3, Zenon
<1>5. ASSUME NEW i \in 1..Len(x \o y) PROVE \E j \in 1..l : (x \o y)[i] = b[j]
  <2>1. CASE i <= k - 1
    <3>1. i \in 1..(k - 1) /\ i \in 1..l
      BY <1>1, <1>4, <2>1
    <3>2. QED
      BY <1>2, <1>4, <2>1, <3>1
  <2>2. CASE ~(i <= k - 1)
    <3>1. i - (k - 1) \in 1..(l - k) /\ k + (i - (k - 1)) \in 1..l
      BY <1>1, <1>4, <2>2
    <3>2. (x \o y)[i] = y[i - (k - 1)] /\ y[i - (k - 1)] = b[k + (i - (k - 1))]
      BY <1>3, <1>4, <2>2, <3>1
    <3>3. QED
      BY <3>1, <3>2
  <2>3. QED
    BY <2>1, <2>2
<1>6. RestInv(t, x \o y, h)
  BY <1>5 DEF RestInv, l
<1>7. QED
  BY <1>4, <1>6 DEF x, y, l
-----------------------------------------------------------------------------
(* The connections, action by action *)

ConnInv == ConnType /\ CacheInv /\ CertInv /\ UnitInv

(* A step of connection c is about c alone: the others stay as they are. *)
LEMMA StepKeeps ==
  ASSUME ConnInv, NEW c \in Conns, UNCHANGED plan,
         NEW l \in Early \cup {"loop", "upgrade", "relay", "h2", "closed"}, at' = [at EXCEPT ![c] = l],
         NEW t \in Seq(Unit), todo' = [todo EXCEPT ![c] = t],
         NEW b \in Seq(Unit), inbox' = [inbox EXCEPT ![c] = b],
         NEW h \in Seq(Unit), handled' = [handled EXCEPT ![c] = h],
         RestInv(t, b, h), l \in Early => h = << >>,
         l \in {"lookup", "put", "handshake"} => b # << >>,
         l \in Early \cup {"loop"} => OrderInv(t, b, h)
  PROVE  ConnType' /\ UnitInv'
<1>1. ConnType'
  BY DEF ConnInv, ConnType
<1>2. /\ at'[c] = l /\ todo'[c] = t /\ inbox'[c] = b /\ handled'[c] = h
      /\ \A e \in Conns \ {c} : at'[e] = at[e] /\ todo'[e] = todo[e] /\ inbox'[e] = inbox[e] /\ handled'[e] = handled[e]
  BY DEF ConnInv, ConnType
<1>3. UnitInv'
  BY <1>2 DEF ConnInv, UnitInv
<1>4. QED
  BY <1>1, <1>3

(* A step that neither touches the cache nor certificates, and does not go to put one. *)
LEMMA CertKeeps ==
  ASSUME ConnInv, UNCHANGED <<plan, cert, lru, entries>>, \A c \in Conns : at'[c] = "put" => at[c] = "put"
  PROVE  CacheInv' /\ CertInv'
<1>1. CacheInv'
  BY DEF ConnInv, CacheInv
<1>2. CertInv'
  BY DEF ConnInv, CertInv
<1>3. QED
  BY <1>1, <1>2

(* A step in which connection c only moves on. *)
LEMMA MoveKeeps ==
  ASSUME ConnInv, NEW c \in Conns, NEW l \in {"connect", "sniff", "handshake", "lookup", "put", "loop", "relay", "h2", "closed"},
         Goto(c, l), UNCHANGED <<plan, todo, inbox, handled>>,
         at[c] \in Early,
         l \in {"lookup", "put", "handshake"} => inbox[c] # << >>
  PROVE  ConnType' /\ UnitInv' /\ \A e \in Conns : at'[e] = IF e = c THEN l ELSE at[e]
<1>1. /\ at' = [at EXCEPT ![c] = l] /\ todo' = [todo EXCEPT ![c] = todo[c]]
      /\ inbox' = [inbox EXCEPT ![c] = inbox[c]] /\ handled' = [handled EXCEPT ![c] = handled[c]]
      /\ todo[c] \in Seq(Unit) /\ inbox[c] \in Seq(Unit) /\ handled[c] \in Seq(Unit)
  BY DEF ConnInv, ConnType, Goto
<1>2. /\ RestInv(todo[c], inbox[c], handled[c]) /\ handled[c] = << >>
      /\ OrderInv(todo[c], inbox[c], handled[c])
  BY DEF ConnInv, UnitInv
<1>3. l \in Early \cup {"loop", "upgrade", "relay", "h2", "closed"}
  BY DEF Early
<1>4. QED
  BY <1>1, <1>2, <1>3, StepKeeps DEF ConnInv, ConnType

(* A step in which connection c is closed. *)
LEMMA ClosedKeeps ==
  ASSUME ConnInv, NEW c \in Conns, Goto(c, "closed"), UNCHANGED <<plan, todo, inbox, handled, cert, lru, entries>>
  PROVE  ConnInv'
<1>1. /\ at' = [at EXCEPT ![c] = "closed"] /\ todo' = [todo EXCEPT ![c] = todo[c]]
      /\ inbox' = [inbox EXCEPT ![c] = inbox[c]] /\ handled' = [handled EXCEPT ![c] = handled[c]]
      /\ todo[c] \in Seq(Unit) /\ inbox[c] \in Seq(Unit) /\ handled[c] \in Seq(Unit)
      /\ RestInv(todo[c], inbox[c], handled[c])
  BY DEF ConnInv, ConnType, Goto, UnitInv
<1>2. ConnType' /\ UnitInv'
  <2>1. "closed" \notin Early \cup {"loop"}
    BY DEF Early
  <2>2. QED
    BY <1>1, <2>1, StepKeeps
<1>3. \A e \in Conns : at'[e] = "put" => at[e] = "put"
  BY <1>1 DEF ConnInv, ConnType
<1>4. QED
  BY <1>2, <1>3, CertKeeps DEF ConnInv

(* The client sends its next unit, or leaves. *)
LEMMA ClientStep == ASSUME ConnInv, NEW c \in Conns, ClientSends(c) \/ ClientLeaves(c) PROVE ConnInv'
<1>0. todo[c] \in Seq(Unit) /\ inbox[c] \in Seq(Unit) /\ handled[c] \in Seq(Unit)
  BY DEF ConnInv, ConnType
<1>1. CASE ClientSends(c)
  <2>1. /\ todo[c] # << >> /\ UNCHANGED <<plan, at, cert, handled, lru, entries>>
        /\ todo' = [todo EXCEPT ![c] = Tail(todo[c])] /\ inbox' = [inbox EXCEPT ![c] = Append(inbox[c], Head(todo[c]))]
    BY <1>1 DEF ClientSends, cacheVars
  <2>2. Tail(todo[c]) \in Seq(Unit) /\ Append(inbox[c], Head(todo[c])) \in Seq(Unit) /\ Append(inbox[c], Head(todo[c])) # << >>
    BY <1>0, <2>1, TailFacts, AppendFacts, AppendProperties
  <2>3. /\ RestInv(Tail(todo[c]), Append(inbox[c], Head(todo[c])), handled[c])
        /\ at[c] \in Early \cup {"loop"} => OrderInv(Tail(todo[c]), Append(inbox[c], Head(todo[c])), handled[c])
        /\ at[c] \in Early => handled[c] = << >>
    BY <1>0, <2>1, UnitArrives DEF ConnInv, UnitInv
  <2>4. at' = [at EXCEPT ![c] = at[c]] /\ handled' = [handled EXCEPT ![c] = handled[c]]
    BY <2>1 DEF ConnInv, ConnType
  <2>5. at[c] \in Early \cup {"loop", "upgrade", "relay", "h2", "closed"}
    BY DEF ConnInv, ConnType
  <2>6. ConnType' /\ UnitInv'
    BY <1>0, <2>1, <2>2, <2>3, <2>4, <2>5, StepKeeps
  <2>7. QED
    BY <2>1, <2>6, CertKeeps DEF ConnInv
<1>2. CASE ClientLeaves(c)
  <2>1. UNCHANGED <<plan, at, todo, inbox, cert, handled, lru, entries>>
    BY <1>2 DEF ClientLeaves, cacheVars
  <2>2. ConnType' /\ UnitInv'
    BY <2>1 DEF ConnInv, ConnType, UnitInv
  <2>3. QED
    BY <2>1, <2>2, CertKeeps DEF ConnInv
<1>3. QED
  BY <1>1, <1>2

(* handleConnect decides between the tunnel and the interception. *)
LEMMA ConnectStep == ASSUME ConnInv, NEW c \in Conns, handleConnect(c) PROVE ConnInv'
<1>1. /\ at[c] = "connect" /\ UNCHANGED <<plan, todo, inbox, handled, cert, lru, entries>>
      /\ Goto(c, "closed") \/ Goto(c, "sniff")
  BY DEF handleConnect, cacheVars
<1>2. CASE Goto(c, "closed")
  BY <1>1, <1>2, ClosedKeeps
<1>3. CASE Goto(c, "sniff")
  <2>1. ConnType' /\ UnitInv' /\ \A e \in Conns : at'[e] = IF e = c THEN "sniff" ELSE at[e]
    BY <1>1, <1>3, MoveKeeps DEF Early
  <2>2. QED
    BY <1>1, <2>1, CertKeeps DEF ConnInv
<1>4. QED
  BY <1>1, <1>2, <1>3

(* A step that drops the first unit of c's inbox, and goes on or closes. *)
LEMMA DropKeeps ==
  ASSUME ConnInv, NEW c \in Conns, inbox[c] # << >>, NEW l \in {"loop", "h2", "closed"}, Goto(c, l),
         inbox' = [inbox EXCEPT ![c] = Tail(inbox[c])], UNCHANGED <<plan, todo, handled, cert, lru, entries>>,
         l = "loop" => at[c] \in Early \cup {"loop"}
  PROVE  ConnInv'
<1>1. /\ at' = [at EXCEPT ![c] = l] /\ todo' = [todo EXCEPT ![c] = todo[c]] /\ handled' = [handled EXCEPT ![c] = handled[c]]
      /\ todo[c] \in Seq(Unit) /\ inbox[c] \in Seq(Unit) /\ handled[c] \in Seq(Unit)
  BY DEF ConnInv, ConnType, Goto
<1>2. Tail(inbox[c]) \in Seq(Unit)
  BY <1>1, TailFacts
<1>3. /\ RestInv(todo[c], Tail(inbox[c]), handled[c])
      /\ l = "loop" => OrderInv(todo[c], Tail(inbox[c]), handled[c])
  BY <1>1, UnitDropped DEF ConnInv, UnitInv
<1>4. l \notin Early
  BY DEF Early
<1>5. l \notin {"lookup", "put", "handshake"} /\ l \in Early \cup {"loop", "upgrade", "relay", "h2", "closed"}
  OBVIOUS
<1>6. ConnType' /\ UnitInv'
  BY <1>1, <1>2, <1>3, <1>4, <1>5, StepKeeps
<1>7. \A e \in Conns : at'[e] = "put" => at[e] = "put"
  BY <1>1 DEF ConnInv, ConnType
<1>8. QED
  BY <1>6, <1>7, CertKeeps DEF ConnInv

(* The first bytes after CONNECT are looked at, not read. *)
LEMMA PeekStep == ASSUME ConnInv, NEW c \in Conns, Peek(c) PROVE ConnInv'
<1>1. /\ at[c] = "sniff" /\ UNCHANGED <<plan, todo, handled, cert, lru, entries>> /\ inbox \in [Conns -> Seq(Unit)]
      /\ inbox' = [inbox EXCEPT ![c] = IF plan[c].proto = "h2c" /\ inbox[c] # << >> THEN Tail(inbox[c]) ELSE inbox[c]]
  BY DEF Peek, cacheVars, ConnInv, ConnType
<1>2. CASE plan[c].proto = "h2c" /\ inbox[c] # << >>
  <2>1. Goto(c, "h2") /\ inbox' = [inbox EXCEPT ![c] = Tail(inbox[c])]
    BY <1>1, <1>2 DEF Peek
  <2>2. QED
    BY <1>1, <1>2, <2>1, DropKeeps
<1>3. CASE ~(plan[c].proto = "h2c" /\ inbox[c] # << >>)
  <2>1. UNCHANGED inbox
    BY <1>1, <1>3
  <2>2. PICK l \in {"lookup", "loop", "closed"} : Goto(c, l) /\ (l = "lookup" => inbox[c] # << >>)
    BY <1>3 DEF Peek
  <2>3. ConnType' /\ UnitInv' /\ \A e \in Conns : at'[e] = IF e = c THEN l ELSE at[e]
    BY <1>1, <2>1, <2>2, MoveKeeps DEF Early
  <2>4. QED
    BY <1>1, <2>3, CertKeeps DEF ConnInv
<1>4. QED
  BY <1>2, <1>3

(* A handshake takes its certificate from the cache or starts to generate one. *)
LEMMA HandshakeStep == ASSUME ConnInv, NEW c \in Conns, Handshake(c) PROVE ConnInv'
<1>1. /\ at[c] = "handshake" /\ UNCHANGED <<plan, todo, handled, cert, lru, entries>>
      /\ inbox' = [inbox EXCEPT ![c] = Tail(inbox[c])]
  BY DEF Handshake, cacheVars
<1>2. PICK l \in {"loop", "h2", "closed"} : Goto(c, l)
  BY DEF Handshake
<1>3. inbox[c] # << >> /\ at[c] \in Early
  BY <1>1 DEF ConnInv, UnitInv, Early
<1>4. QED
  BY <1>1, <1>2, <1>3, DropKeeps

(* The certificate of a hit is the cache's, that of a miss is made for the host and then put. *)
LEMMA CertStep == ASSUME ConnInv, NEW c \in Conns, CertHit(c) \/ CertMiss(c) \/ CertPut(c) PROVE ConnInv'
<1>1. /\ at[c] \in {"lookup", "put"} /\ UNCHANGED <<plan, todo, inbox, handled>>
      /\ inbox[c] # << >> /\ at[c] \in Early /\ Hostname(c) = plan[c].host /\ Hostname(c) \in Hosts
  BY DEF CertHit, CertMiss, CertPut, ConnInv, UnitInv, ConnType, Early, Hostname, Hosts
<1>2. CASE CertHit(c)
  <2>1. /\ get(Hostname(c)) /\ Hostname(c) \in DOMAIN entries /\ Goto(c, "handshake")
        /\ cert' = [cert EXCEPT ![c] = entries[Hostname(c)]]
    BY <1>2 DEF CertHit, get, Cached
  <2>2. ConnType' /\ UnitInv' /\ \A e \in Conns : at'[e] = IF e = c THEN "handshake" ELSE at[e]
    BY <1>1, <2>1, MoveKeeps
  <2>3. CacheInv'
    BY <2>1, GetKeeps DEF ConnInv
  <2>4. LeafFor(entries[Hostname(c)], plan[c].host)
    BY <1>1, <2>1 DEF ConnInv, CacheInv
  <2>5. CertInv'
    BY <1>1, <2>1, <2>2, <2>4 DEF ConnInv, CertInv
  <2>6. QED
    BY <2>2, <2>3, <2>5 DEF ConnInv
<1>3. CASE CertMiss(c)
  <2>1. UNCHANGED <<lru, entries>>
    BY <1>3 DEF CertMiss, cacheVars
  <2>2. CASE Goto(c, "closed") /\ UNCHANGED cert
    BY <1>1, <2>1, <2>2, ClosedKeeps
  <2>3. CASE cert' = [cert EXCEPT ![c] = Leaf(Hostname(c), c)] /\ Goto(c, "put")
    <3>1. ConnType' /\ UnitInv' /\ \A e \in Conns : at'[e] = IF e = c THEN "put" ELSE at[e]
      BY <1>1, <2>3, MoveKeeps
    <3>2. CacheInv'
      BY <2>1 DEF ConnInv, CacheInv
    <3>3. LeafFor(Leaf(Hostname(c), c), plan[c].host)
      BY <1>1, LeafFacts
    <3>4. CertInv'
      BY <1>1, <2>3, <3>1, <3>3 DEF ConnInv, CertInv
    <3>5. QED
      BY <3>1, <3>2, <3>4 DEF ConnInv
  <2>4. QED
    BY <1>3, <2>2, <2>3 DEF CertMiss
<1>4. CASE CertPut(c)
  <2>1. at[c] = "put" /\ put(Hostname(c), cert[c]) /\ Goto(c, "handshake") /\ UNCHANGED cert
    BY <1>4 DEF CertPut
  <2>2. ConnType' /\ UnitInv' /\ \A e \in Conns : at'[e] = IF e = c THEN "handshake" ELSE at[e]
    BY <1>1, <2>1, MoveKeeps
  <2>3. LeafFor(cert[c], Hostname(c))
    BY <1>1, <2>1 DEF ConnInv, CertInv
  <2>4. CacheInv'
    BY <1>1, <2>1, <2>3, PutKeeps DEF ConnInv
  <2>5. CertInv'
    BY <1>1, <2>1, <2>2 DEF ConnInv, CertInv
  <2>6. QED
    BY <2>2, <2>4, <2>5 DEF ConnInv
<1>5. QED
  BY <1>2, <1>3, <1>4

(* The first unit of c's inbox is handled, and b is what follows it. *)
LEMMA HandleKeeps ==
  ASSUME ConnInv, NEW c \in Conns, at[c] = "loop", inbox[c] # << >>, Handle(c, Head(inbox[c])),
         NEW b, b = Tail(inbox[c]) \/ \E v \in Unit : /\ v.n = Head(inbox[c]).n /\ Refused(Head(inbox[c]))
                                                      /\ b = <<v>> \o Tail(inbox[c]),
         inbox' = [inbox EXCEPT ![c] = b],
         NEW l \in {"loop", "upgrade"}, at' = [at EXCEPT ![c] = l],
         UNCHANGED <<plan, todo, cert, lru, entries>>
  PROVE  ConnInv'
<1> DEFINE i == inbox[c]
           h == handled[c]
           a == Append(handled[c], Head(inbox[c]))
<1>1. /\ todo' = [todo EXCEPT ![c] = todo[c]] /\ handled' = [handled EXCEPT ![c] = a]
      /\ todo[c] \in Seq(Unit) /\ i \in Seq(Unit) /\ h \in Seq(Unit)
      /\ RestInv(todo[c], i, h) /\ OrderInv(todo[c], i, h)
  BY DEF ConnInv, ConnType, Handle, UnitInv
<1>2. Head(i) = i[1] /\ Head(i) \in Unit /\ Tail(i) \in Seq(Unit) /\ 1 \in 1..Len(i)
  BY <1>1, TailFacts
<1>3. a \in Seq(Unit) /\ Len(h) \in Nat /\ Len(a) = Len(h) + 1 /\ a[Len(h) + 1] = Head(i)
  BY <1>1, <1>2, AppendFacts
<1>4. a = Append(h, i[1])
  BY <1>2
<1>5. RestInv(todo[c], i, a) /\ OrderInv(todo[c], i, a)
  BY <1>1, <1>2, <1>4, UnitHandled
<1>6. b \in Seq(Unit) /\ RestInv(todo[c], b, a) /\ OrderInv(todo[c], b, a)
  <2>1. CASE b = Tail(i)
    BY <1>1, <1>2, <1>3, <1>5, <2>1, UnitDropped
  <2>2. CASE \E v \in Unit : v.n = Head(i).n /\ Refused(Head(i)) /\ b = <<v>> \o Tail(i)
    <3>1. PICK v \in Unit : v.n = Head(i).n /\ Refused(Head(i)) /\ b = <<v>> \o Tail(i)
      BY <2>2
    <3>2. \E j \in 1..Len(a) : Refused(a[j])
      <4>1. Len(h) + 1 \in 1..Len(a)
        BY <1>3
      <4>2. QED
        BY <1>3, <3>1, <4>1
    <3>3. v.n = i[1].n
      BY <1>2, <3>1
    <3> HIDE DEF a
    <3>4. QED
      BY <1>1, <1>3, <1>5, <3>1, <3>2, <3>3, UnitLeft
  <2>3. QED
    BY <2>1, <2>2
<1> HIDE DEF i, h, a
<1>7. l \notin Early
  BY DEF Early
<1>8. l \notin {"lookup", "put", "handshake"} /\ l \in Early \cup {"loop", "upgrade", "relay", "h2", "closed"}
  OBVIOUS
<1>9. ConnType' /\ UnitInv'
  BY <1>1, <1>3, <1>6, <1>7, <1>8, StepKeeps
<1>10. \A e \in Conns : at'[e] = "put" => at[e] = "put"
  BY DEF ConnInv, ConnType
<1>11. QED
  BY <1>9, <1>10, CertKeeps DEF ConnInv

(* A loop reads a unit, handles it, and may leave the rest of its body. *)
LEMMA ReadRequestStep == ASSUME ConnInv, NEW c \in Conns, ReadRequest(c) PROVE ConnInv'
<1> DEFINE u == Head(inbox[c])
<1>1. /\ at[c] = "loop" /\ inbox[c] # << >> /\ UNCHANGED <<plan, todo, cert, lru, entries>>
      /\ at \in [Conns -> Early \cup {"loop", "upgrade", "relay", "h2", "closed"}] /\ inbox[c] \in Seq(Unit)
  BY DEF ReadRequest, cacheVars, ConnInv, ConnType
<1>2. u \in Unit /\ Tail(inbox[c]) \in Seq(Unit)
  BY <1>1, TailFacts
<1>3. \/ /\ Handle(c, u) /\ (Goto(c, "loop") \/ Goto(c, "upgrade"))
         /\ \E rest \in Left(u) : inbox' = [inbox EXCEPT ![c] = rest \o Tail(inbox[c])]
      \/ Handle(c, u) /\ Goto(c, "loop") /\ inbox' = [inbox EXCEPT ![c] = Tail(inbox[c])]
      \/ Goto(c, "closed") /\ UNCHANGED handled /\ inbox' = [inbox EXCEPT ![c] = Tail(inbox[c])]
  BY DEF ReadRequest
<1>4. CASE Goto(c, "closed") /\ UNCHANGED handled /\ inbox' = [inbox EXCEPT ![c] = Tail(inbox[c])]
  BY <1>1, <1>4, DropKeeps
<1>5. CASE Handle(c, u) /\ Goto(c, "loop") /\ inbox' = [inbox EXCEPT ![c] = Tail(inbox[c])]
  <2>1. at' = [at EXCEPT ![c] = "loop"]
    BY <1>5 DEF Goto
  <2>2. QED
    BY <1>1, <1>5, <2>1, HandleKeeps
<1>6. CASE /\ Handle(c, u) /\ (Goto(c, "loop") \/ Goto(c, "upgrade"))
           /\ \E rest \in Left(u) : inbox' = [inbox EXCEPT ![c] = rest \o Tail(inbox[c])]
  <2>1. PICK l \in {"loop", "upgrade"} : at' = [at EXCEPT ![c] = l]
    BY <1>6 DEF Goto
  <2>2. PICK rest \in Left(u) : inbox' = [inbox EXCEPT ![c] = rest \o Tail(inbox[c])]
    BY <1>6
  <2> DEFINE v == [u EXCEPT !.kind = "rest"]
  <2>3. v \in Unit /\ v.n = u.n
    <3> HIDE DEF u
    <3>1. QED
      BY <1>2 DEF Unit
  <2>4. rest = << >> \/ (rest = <<v>> /\ Refused(u))
    <3> HIDE DEF u
    <3>1. u.body \in BOOLEAN
      BY <1>2 DEF Unit
    <3>2. CASE ~u.body
      <4>1. Left(u) = {<< >>}
        BY <3>2 DEF Left
      <4>2. QED
        BY <2>2, <4>1
    <3>3. CASE u.body /\ u.fate = "refused"
      <4>1. Left(u) = {<<v>>}
        BY <3>3 DEF Left
      <4>2. QED
        BY <2>2, <3>3, <4>1 DEF Refused
    <3>4. CASE u.body /\ u.fate = "large"
      <4>1. Left(u) = {<<v>>, << >>}
        BY <3>4 DEF Left
      <4>2. QED
        BY <2>2, <3>4, <4>1 DEF Refused
    <3>5. CASE u.body /\ u.fate \notin {"refused", "large"}
      <4>1. Left(u) = {<< >>}
        BY <3>5 DEF Left
      <4>2. QED
        BY <2>2, <4>1
    <3>6. QED
      BY <3>2, <3>3, <3>4, <3>5
  <2> HIDE DEF v
  <2>5. << >> \o Tail(inbox[c]) = Tail(inbox[c])
    BY <1>2, ConcatEmptySeq
  <2>6. CASE rest = << >>
    BY <1>1, <1>6, <2>1, <2>2, <2>5, <2>6, HandleKeeps
  <2>7. CASE rest = <<v>> /\ Refused(u)
    BY <1>1, <1>6, <2>1, <2>2, <2>3, <2>7, HandleKeeps
  <2>8. QED
    BY <2>4, <2>6, <2>7
<1>7. QED
  BY <1>3, <1>4, <1>5, <1>6

(* Once its requests are read, a connection goes on to the relay, or closes. *)
LEMMA LaterKeeps ==
  ASSUME ConnInv, NEW c \in Conns, NEW l \in {"relay", "closed"}, Goto(c, l),
         UNCHANGED <<plan, todo, inbox, handled, cert, lru, entries>>
  PROVE  ConnInv'
<1>1. /\ at' = [at EXCEPT ![c] = l] /\ todo' = [todo EXCEPT ![c] = todo[c]]
      /\ inbox' = [inbox EXCEPT ![c] = inbox[c]] /\ handled' = [handled EXCEPT ![c] = handled[c]]
      /\ todo[c] \in Seq(Unit) /\ inbox[c] \in Seq(Unit) /\ handled[c] \in Seq(Unit)
      /\ RestInv(todo[c], inbox[c], handled[c])
  BY DEF ConnInv, ConnType, Goto, UnitInv
<1>2. ConnType' /\ UnitInv'
  <2>1. l \notin Early \cup {"loop"} /\ l \in Early \cup {"loop", "upgrade", "relay", "h2", "closed"}
        /\ l \notin {"lookup", "put", "handshake"}
    BY DEF Early
  <2>2. QED
    BY <1>1, <2>1, StepKeeps
<1>3. \A e \in Conns : at'[e] = "put" => at[e] = "put"
  BY <1>1 DEF ConnInv, ConnType
<1>4. QED
  BY <1>2, <1>3, CertKeeps DEF ConnInv

(* An upgrade hands the connection to the relay. *)
LEMMA WebSocketStep == ASSUME ConnInv, NEW c \in Conns, handleWebSocket(c) PROVE ConnInv'
<1>1. UNCHANGED <<plan, todo, inbox, handled, cert, lru, entries>>
  BY DEF handleWebSocket, cacheVars
<1>2. PICK l \in {"closed", "relay"} : Goto(c, l)
  BY DEF handleWebSocket
<1>3. QED
  BY <1>1, <1>2, LaterKeeps

(* HTTP/2 serves a stream, in any order. *)
LEMMA StreamStep == ASSUME ConnInv, NEW c \in Conns, ServeStream(c) PROVE ConnInv'
<1>1. at[c] = "h2" /\ UNCHANGED <<plan, at, todo, cert, lru, entries>>
  BY DEF ServeStream, cacheVars
<1> DEFINE b == inbox[c]
           h == handled[c]
<1>2. /\ todo[c] \in Seq(Unit) /\ b \in Seq(Unit) /\ h \in Seq(Unit) /\ RestInv(todo[c], b, h) /\ DOMAIN b = 1..Len(b)
      /\ todo' = [todo EXCEPT ![c] = todo[c]] /\ at' = [at EXCEPT ![c] = "h2"]
  BY <1>1, LenProperties DEF ConnInv, ConnType, UnitInv
<1>3. PICK k \in 1..Len(b) : /\ Handle(c, b[k])
                             /\ inbox' = [inbox EXCEPT ![c] = SubSeq(b, 1, k - 1) \o SubSeq(b, k + 1, Len(b))]
  BY <1>2 DEF ServeStream
<1>4. handled' = [handled EXCEPT ![c] = Append(h, b[k])]
  BY <1>3 DEF Handle
<1> HIDE DEF b, h
<1>5. Append(h, b[k]) \in Seq(Unit) /\ RestInv(todo[c], b, Append(h, b[k]))
  BY <1>2, AppendFacts, UnitNumbers, UnitHandled
<1>6. /\ SubSeq(b, 1, k - 1) \o SubSeq(b, k + 1, Len(b)) \in Seq(Unit)
      /\ RestInv(todo[c], SubSeq(b, 1, k - 1) \o SubSeq(b, k + 1, Len(b)), Append(h, b[k]))
  BY <1>2, <1>5, UnitTaken
<1>7. "h2" \notin Early \cup {"loop"}
  BY DEF Early
<1>8. ConnType' /\ UnitInv'
  BY <1>1, <1>2, <1>3, <1>4, <1>5, <1>6, <1>7, StepKeeps
<1>9. QED
  BY <1>1, <1>8, CertKeeps DEF ConnInv

(* One case per action. *)
LEMMA ConnStep == ASSUME ConnInv, [Next]_vars PROVE ConnInv'
<1>1. ASSUME UNCHANGED <<plan, at, todo, inbox, cert, handled, lru, entries>> PROVE ConnInv'
  <2>1. ConnType' /\ UnitInv'
    BY <1>1 DEF ConnInv, ConnType, UnitInv
  <2>2. QED
    BY <1>1, <2>1, CertKeeps DEF ConnInv
<1>2. ASSUME NEW c \in Conns, Serve(c) PROVE ConnInv'
  <2>1. CASE RelayReturns(c) \/ ReadEOF(c) \/ ServeConnEnds(c)
    <3>1. Goto(c, "closed") /\ UNCHANGED <<plan, todo, inbox, handled, cert, lru, entries>>
      BY <2>1 DEF RelayReturns, ReadEOF, ServeConnEnds, cacheVars
    <3>2. QED
      BY <3>1, ClosedKeeps
  <2>2. CASE ContextEnds(c)
    BY <1>1, <2>2 DEF ContextEnds, cacheVars
  <2>3. QED
    BY <1>2, <2>1, <2>2, ConnectStep, PeekStep, CertStep, HandshakeStep, ReadRequestStep, WebSocketStep, StreamStep DEF Serve
<1>3. ASSUME NEW c \in Conns, HandlerGoesOn(c) PROVE ConnInv'
  <2>1. UNCHANGED <<plan, todo, inbox, cert, handled, lru, entries>> /\ (UNCHANGED at \/ Goto(c, "closed"))
    BY <1>3 DEF HandlerGoesOn, cacheVars
  <2>2. QED
    BY <1>1, <2>1, ClosedKeeps
<1>4. CASE UNCHANGED <<connVars, cacheVars>>
  BY <1>1, <1>4 DEF connVars, cacheVars
<1>5. QED
  BY <1>2, <1>3, <1>4, ClientStep DEF Next, vars

(* Before the first byte nothing is cached, buffered or handled. *)
LEMMA ConnStarts == Init => ConnInv
<1> SUFFICES ASSUME Init PROVE ConnInv
  OBVIOUS
<1> USE DEF Init
<1>1. << >> \in Seq(Unit) /\ << >> \in Seq(Hosts) /\ Len(<< >>) = 0
  BY EmptySeq
<1>2. ASSUME NEW c \in Conns
      PROVE  /\ plan[c].units \in Seq(Unit) /\ at[c] \in {"closed", "connect"}
             /\ todo[c] = plan[c].units /\ inbox[c] = << >> /\ handled[c] = << >>
             /\ RestInv(todo[c], << >>, << >>) /\ OrderInv(todo[c], << >>, << >>)
  <2>1. /\ plan[c].units \in Seq(Unit) /\ todo[c] = plan[c].units /\ inbox[c] = << >> /\ handled[c] = << >>
        /\ at[c] \in {"closed", "connect"}
    BY PlansAssumption
  <2>2. DOMAIN plan[c].units = 1..Len(plan[c].units)
    BY <2>1, LenProperties
  <2>3. /\ \A i \in 1..Len(todo[c]) : todo[c][i].kind # "rest"
        /\ Sorted(todo[c])
    BY <2>1, <2>2, PlansAssumption DEF Sorted
  <2>4. QED
    BY <1>1, <2>1, <2>3 DEF RestInv, OrderInv, Sorted, NoLater
<1>3. ConnType
  BY <1>1, <1>2 DEF ConnType, Early
<1>4. UnitInv
  BY <1>2 DEF UnitInv, Early
<1>5. CacheInv
  <2>1. lru = << >> /\ entries = << >> /\ DOMAIN entries = {}
    BY DEF newCertLRU
  <2>2. Lists(<< >>, {})
    BY <1>1 DEF Lists
  <2>3. QED
    BY <1>1, <2>1, <2>2, CertCapacityAssumption DEF CacheInv
<1>6. CertInv
  BY <1>2 DEF CertInv
<1>7. QED
  BY <1>3, <1>4, <1>5, <1>6 DEF ConnInv

(* The invariant of the connections, the cache and the handshakes. *)
LEMMA ConnAlways == Spec => []ConnInv
<1>1. ConnInv /\ [Next]_vars => ConnInv'
  BY ConnStep
<1>2. QED
  BY <1>1, ConnStarts, PTL DEF Spec

(* Whatever handshakes race for the cache and whatever its capacity, a     *)
(* client is given a certificate for the host of its CONNECT, and the list *)
(* and the map of the LRU hold the same hosts (CertForHost, certLRU).      *)
THEOREM CertAlwaysSound == Spec => []CertSound
<1>1. ConnInv => CertSound
  <2> SUFFICES ASSUME ConnInv PROVE CertSound
    OBVIOUS
  <2>1. /\ lru \in Seq(Hosts) /\ Len(lru) <= CertCapacity /\ Lists(lru, DOMAIN entries)
        /\ \A h \in DOMAIN entries : LeafFor(entries[h], h)
    BY DEF ConnInv, CacheInv
  <2>2. DOMAIN lru = 1..Len(lru) /\ Cardinality(DOMAIN entries) = Len(lru)
    BY <2>1, LenProperties, ListsCardinality
  <2>3. CacheWhole
    BY <2>1, <2>2 DEF CacheWhole, Lists, LeafFor
  <2>4. QED
    BY <2>3 DEF CertSound, ConnInv, CertInv, LeafFor
<1>2. QED
  BY <1>1, ConnAlways, PTL

(* A connection handles as requests what was sent as requests, in order on *)
(* HTTP/1.1, until a request with a body was refused or was too large      *)
(* (handleBufferedConn, handleTunnelConn).                                 *)
THEOREM AlwaysHandledAsSent == Spec => []HandledAsSent
<1>1. ConnInv => HandledAsSent
  <2> SUFFICES ASSUME ConnInv, NEW c \in Conns, NEW i \in DOMAIN handled[c]
               PROVE  /\ handled[c][i].kind = "rest" => \E j \in 1 .. i - 1 :
                            handled[c][j].body /\ handled[c][j].fate \in {"refused", "large"}
                      /\ at[c] = "loop" => \A j \in 1 .. i - 1 : handled[c][j].n <= handled[c][i].n
    BY DEF HandledAsSent
  <2>1. i \in 1..Len(handled[c]) /\ Len(handled[c]) \in Nat
    BY LenProperties DEF ConnInv, ConnType
  <2>2. RestInv(todo[c], inbox[c], handled[c]) /\ (at[c] = "loop" => Sorted(handled[c]))
    BY DEF ConnInv, UnitInv, OrderInv
  <2>3. handled[c][i].kind = "rest" => \E j \in 1..(i - 1) : Refused(handled[c][j])
    BY <2>1, <2>2 DEF RestInv
  <2>4. \A j \in 1..(i - 1) : j \in 1..Len(handled[c]) /\ j <= i
    BY <2>1
  <2>5. QED
    BY <2>1, <2>2, <2>3, <2>4 DEF Refused, Sorted
<1>2. QED
  BY <1>1, ConnAlways, PTL
=============================================================================
