---------------------------- MODULE WasmIBCProofs ----------------------------
(***************************************************************************)
(* Proofs about channels and packets between two chains that run x/wasm,   *)
(* for any number of channels and packets, versions and orderings: what    *)
(* connected ends agree on, that acknowledgements say what was done, and   *)
(* that the sender of a packet is told once, and the truth.                *)
(***************************************************************************)
EXTENDS WasmIBC, FiniteSetTheorems, TLAPS

-----------------------------------------------------------------------------
(* The inductive invariant.                                                *)

IsMap(f) == f = [x \in DOMAIN f |-> f[x]]

IsState(s) ==
  s = [channels |-> s.channels, sent |-> s.sent, commitments |-> s.commitments,
       receipts |-> s.receipts, acks |-> s.acks, caps |-> s.caps,
       async |-> s.async, applied |-> s.applied, connected |-> s.connected,
       told |-> s.told, refused |-> s.refused, emitted |-> s.emitted]

IsEnd(e) ==
  /\ e = [state |-> e.state, role |-> e.role, ordering |-> e.ordering,
          counterparty |-> e.counterparty, first |-> e.first, version |-> e.version]
  /\ e.first # NoVersion /\ e.version # NoVersion
  /\ e.role = "init" \/ (e.role = "try" /\ e.version = e.first)

IsPacket(p) ==
  p = [src |-> p.src, channel |-> p.channel, dest |-> p.dest, seq |-> p.seq]

(* An end has a counterparty once it is connected, if it was proposed on   *)
(* its chain, and from the start otherwise.                                *)
EndOK(s, id) ==
  LET e == s.channels[id] IN
  /\ IsEnd(e)
  /\ e.state = "INIT" => e.role = "init" /\ e.counterparty = None
  /\ e.state = "TRYOPEN" => e.role = "try"
  /\ e.state = "OPEN" => id \in s.connected
  /\ e.role = "init" => (id \in s.connected <=> e.counterparty # None)

ChannelsOK(s) ==
  /\ IsMap(s.channels)
  /\ \E n \in Nat : DOMAIN s.channels = 0..(n - 1)
  /\ s.connected \subseteq DOMAIN s.channels
  /\ \A id \in DOMAIN s.channels : EndOK(s, id)

(* Packets of a channel are numbered, and go to its counterparty.          *)
PacketOK(s, c, p) ==
  /\ IsPacket(p) /\ p.src = c
  /\ p.channel \in s.connected /\ p.dest = s.channels[p.channel].counterparty
  /\ p.seq \in Nat
  /\ p.seq <= Cardinality({q \in s.sent : q.channel = p.channel})

ToldOK(s, p) ==
  IF p \in s.commitments THEN p \notin DOMAIN s.told
  ELSE /\ p \in DOMAIN s.told
       /\ \E x \in {"timeout", "result", "error"} : s.told[p] = <<x>>

SentOK(s, c) ==
  /\ IsFiniteSet(s.sent) /\ s.commitments \subseteq s.sent
  /\ IsMap(s.told) /\ DOMAIN s.told \subseteq s.sent
  /\ \A p \in s.sent : PacketOK(s, c, p) /\ ToldOK(s, p)

(* What was received, while the contract is called for the packets in      *)
(* `pending'.                                                              *)
Owed(s) == s.receipts \ DOMAIN s.acks

ReceivedOK(s, pending) ==
  /\ IsMap(s.acks) /\ IsMap(s.async)
  /\ DOMAIN s.acks \subseteq s.receipts /\ pending \subseteq Owed(s)
  /\ \A p \in DOMAIN s.acks : s.acks[p] \in {"result", "error"}
  /\ s.applied = Owed(s) \cup {p \in DOMAIN s.acks : s.acks[p] = "result"}
  /\ s.emitted = s.applied \ pending
  /\ {s.async[k] : k \in DOMAIN s.async} = Owed(s) \ pending
  /\ \A k \in DOMAIN s.async : k = <<s.async[k].dest, s.async[k].seq>>
  /\ \A p \in s.receipts : /\ p.dest \in s.connected
                            /\ p.channel = s.channels[p.dest].counterparty

Local(s, c, pending) ==
  IsState(s) /\ ChannelsOK(s) /\ SentOK(s, c) /\ ReceivedOK(s, pending)

(* What the end of a channel and its counterparty agree on.                *)
EndsAgree(s, d, id) ==
  LET e == s.channels[id]
      o == d.channels[e.counterparty]
  IN  /\ e.counterparty # None =>
           /\ e.counterparty \in DOMAIN d.channels
           /\ o.role # e.role /\ o.ordering = e.ordering
      /\ e.role = "init" /\ e.counterparty # None =>
           o.counterparty = id /\ e.version = o.first
      /\ e.role = "try" => e.counterparty # None
      /\ e.role = "try" /\ id \in s.connected => o.counterparty = id

(* A packet that timed out cannot be received any more.                    *)
ToldTruth(s, d, ex, p) ==
  IF s.told[p] = <<"timeout">>
  THEN p \notin d.receipts /\ (p \in ex \/ d.channels[p.dest].state = "CLOSED")
  ELSE p \in DOMAIN d.acks /\ s.told[p] = <<d.acks[p]>>

(* How the state of a chain fits that of the other one.                    *)
Fits(s, d, ex) ==
  /\ s.receipts \subseteq d.sent
  /\ \A id \in DOMAIN s.channels : EndsAgree(s, d, id)
  /\ \A p \in DOMAIN s.told : ToldTruth(s, d, ex, p)

IBCInv ==
  /\ chain = [c \in Chain |-> chain[c]]
  /\ \A c \in Chain : Local(chain[c], c, {}) /\ Fits(chain[c], chain[Other(c)], expired)

-----------------------------------------------------------------------------
(* The two chains, and the parts of the invariant.                         *)

(* There are two chains.                                                   *)
LEMMA OtherFacts ==
  ASSUME NEW c \in Chain
  PROVE  /\ Other(c) \in Chain /\ Other(c) # c /\ Other(Other(c)) = c
         /\ \A x \in Chain : x = c \/ x = Other(c)
<1>1. PICK a \in Chain, b \in Chain : a # b /\ Chain = {a, b}
  BY IBCAssumption
<1>2. \A x \in Chain : \E y \in Chain : y # x
  BY <1>1
<1>3. \A x \in Chain : Other(x) \in Chain /\ Other(x) # x
  BY <1>2 DEF Other
<1> QED BY <1>1, <1>3

(* One chain in state s, the other one in state d.                         *)
Pair(s, d, c, ex, pending) ==
  /\ Local(s, c, pending) /\ Local(d, Other(c), {})
  /\ Fits(s, d, ex) /\ Fits(d, s, ex)

(* The invariant from the point of view of one chain.                      *)
LEMMA PairHolds ==
  ASSUME IBCInv, NEW c \in Chain
  PROVE  Pair(chain[c], chain[Other(c)], c, expired, {})
BY OtherFacts DEF IBCInv, Pair

(* A step of one chain leaves the other as it is.                          *)
LEMMA PairStep ==
  ASSUME IBCInv, NEW c \in Chain, NEW t, chain' = [chain EXCEPT ![c] = t],
         expired' = expired, Pair(t, chain[Other(c)], c, expired, {})
  PROVE  IBCInv'
<1>1. /\ Other(c) \in Chain /\ Other(c) # c /\ Other(Other(c)) = c
      /\ \A x \in Chain : x = c \/ x = Other(c)
  BY OtherFacts
<1>2. chain' = [x \in Chain |-> chain'[x]]
  BY DEF IBCInv
<1>3. chain'[c] = t /\ chain'[Other(c)] = chain[Other(c)]
  BY <1>1 DEF IBCInv
<1>4. ASSUME NEW x \in Chain
      PROVE  Local(chain'[x], x, {}) /\ Fits(chain'[x], chain'[Other(x)], expired')
  <2>1. CASE x = c
    BY <1>3, <2>1 DEF Pair
  <2>2. CASE x = Other(c)
    BY <1>1, <1>3, <2>2 DEF Pair
  <2> QED BY <1>1, <2>1, <2>2
<1> QED BY <1>2, <1>4 DEF IBCInv

(* The destination of a packet is a channel end of the other chain.        *)
LEMMA Known ==
  ASSUME NEW s, NEW d, NEW c, NEW ex, ChannelsOK(s), SentOK(s, c), Fits(s, d, ex)
  PROVE  /\ \A id \in s.connected : s.channels[id].counterparty \in DOMAIN d.channels
         /\ \A p \in s.sent : p.dest \in DOMAIN d.channels
<1>1. ASSUME NEW id \in s.connected
      PROVE  s.channels[id].counterparty \in DOMAIN d.channels
  <2>1. id \in DOMAIN s.channels /\ EndOK(s, id) /\ EndsAgree(s, d, id)
    BY DEF ChannelsOK, Fits
  <2>2. s.channels[id].role = "init" \/ s.channels[id].role = "try"
    BY <2>1 DEF EndOK, IsEnd
  <2> QED BY <2>1, <2>2 DEF EndOK, EndsAgree
<1> QED BY <1>1 DEF SentOK, PacketOK

(* A chain goes on from s to t: what the other chain relies on.            *)
Later(s, t) ==
  \A id \in DOMAIN s.channels :
    /\ id \in DOMAIN t.channels
    /\ t.channels[id].role = s.channels[id].role
    /\ t.channels[id].ordering = s.channels[id].ordering
    /\ t.channels[id].first = s.channels[id].first
    /\ \/ t.channels[id].counterparty = s.channels[id].counterparty
       \/ s.channels[id].counterparty = None
    /\ s.channels[id].state = "CLOSED" => t.channels[id].state = "CLOSED"

Grows(s, t) ==
  /\ Later(s, t) /\ s.sent \subseteq t.sent
  /\ \A p \in DOMAIN s.acks : p \in DOMAIN t.acks /\ t.acks[p] = s.acks[p]

(* A chain still fits to another that has gone on, as long as no packet it *)
(* was told has timed out is received.                                     *)
LEMMA FitsKept ==
  ASSUME NEW s, NEW t, NEW d, NEW c, NEW ex, ChannelsOK(d), SentOK(d, c),
         Fits(d, s, ex), Grows(s, t),
         \A p \in DOMAIN d.told :
           d.told[p] = <<"timeout">> /\ p \in t.receipts => p \in s.receipts
  PROVE  Fits(d, t, ex)
<1>1. d.receipts \subseteq t.sent
  BY DEF Fits, Grows
<1>2. ASSUME NEW id \in DOMAIN d.channels
      PROVE  EndsAgree(d, t, id)
  <2>1. EndsAgree(d, s, id) /\ id # None
    BY IBCAssumption DEF Fits, ChannelsOK
  <2>2. PICK e : e = d.channels[id]
    OBVIOUS
  <2>3. CASE e.counterparty = None
    BY <2>1, <2>2, <2>3 DEF EndsAgree
  <2>4. CASE e.counterparty # None
    <3>1. e.counterparty \in DOMAIN s.channels
      BY <2>1, <2>2, <2>4 DEF EndsAgree
    <3> QED BY <2>1, <2>2, <2>4, <3>1 DEF EndsAgree, Grows, Later
  <2> QED BY <2>3, <2>4
<1>3. ASSUME NEW p \in DOMAIN d.told
      PROVE  ToldTruth(d, t, ex, p)
  <2>1. ToldTruth(d, s, ex, p)
    BY DEF Fits
  <2>2. p.dest \in DOMAIN s.channels
    BY Known DEF SentOK
  <2> QED BY <2>1, <2>2 DEF ToldTruth, Grows, Later
<1> QED BY <1>1, <1>2, <1>3 DEF Fits

-----------------------------------------------------------------------------
(* The messages of a contract.                                             *)

(* Failure and success are told apart.                                     *)
LEMMA Results ==
  /\ ~Failed.ok
  /\ \A s : Succeeded(s).ok /\ Succeeded(s).state = s
BY DEF Failed, Succeeded

Sends(s, c, t) ==
  \E id \in DOMAIN s.channels :
    /\ s.channels[id].state = "OPEN"
    /\ t = [s EXCEPT !.sent = @ \cup {NewPacket(s, c, id)},
                     !.commitments = @ \cup {NewPacket(s, c, id)}]

Writes(s, t) ==
  \E k \in DOMAIN s.async :
    /\ s.async[k] \notin DOMAIN s.acks
    /\ t = [s EXCEPT !.acks = Put(@, s.async[k], "result"), !.async = Without(@, k)]

(* A message that is not refused sends a packet, writes an acknowledgement *)
(* that was owed, or does nothing.                                         *)
LEMMA DispatchedCases ==
  ASSUME NEW s, IsState(s), NEW c, NEW m \in Messages, Dispatched(s, c, m).ok,
         NEW t, t = Dispatched(s, c, m).state
  PROVE  t = s \/ Sends(s, c, t) \/ Writes(s, t)
<1>1. CASE m.type = "none"
  <2>1. Dispatched(s, c, m) = Succeeded(s)
    BY <1>1 DEF Dispatched
  <2> QED BY <2>1, Results
<1>2. CASE m.type = "SendPacket"
  <2>1. Dispatched(s, c, m) = SendPacket(s, c, m.channel)
    BY <1>2 DEF Dispatched
  <2>2. SendPacket(s, c, m.channel) = CoreSendPacket(s, c, m.channel)
    BY <2>1, Results DEF SendPacket
  <2>3. IsOpen(s, m.channel)
    BY <2>1, <2>2, Results DEF CoreSendPacket
  <2>4. CoreSendPacket(s, c, m.channel) =
          Succeeded([s EXCEPT !.sent = @ \cup {NewPacket(s, c, m.channel)},
                              !.commitments = @ \cup {NewPacket(s, c, m.channel)}])
    BY <2>3 DEF CoreSendPacket
  <2>5. t = [s EXCEPT !.sent = @ \cup {NewPacket(s, c, m.channel)},
                      !.commitments = @ \cup {NewPacket(s, c, m.channel)}]
    BY <2>1, <2>2, <2>4, Results
  <2> QED BY <2>3, <2>5 DEF Sends, IsOpen
<1>3. CASE m.type = "WriteAcknowledgement"
  <2>1. PICK k : k = GetAsyncPacketKey(m.channel, m.sequence)
    OBVIOUS
  <2>2. PICK w : w = CoreWriteAcknowledgement(s, s.async[k], m.data)
    OBVIOUS
  <2>3. Dispatched(s, c, m) =
          WriteAcknowledgement(s, m.channel, m.sequence, m.data)
    BY <1>3 DEF Dispatched
  <2>4. k \in DOMAIN s.async /\ w.ok
    BY <2>1, <2>2, <2>3, Results DEF WriteAcknowledgement
  <2>5. WriteAcknowledgement(s, m.channel, m.sequence, m.data) =
          Succeeded(DeleteAsyncAckPacket(w.state, m.channel, m.sequence))
    BY <2>1, <2>2, <2>3, <2>4, Results DEF WriteAcknowledgement
  <2>6. s.async[k] \notin DOMAIN s.acks /\ m.data # "empty"
    BY <2>2, <2>4, Results DEF CoreWriteAcknowledgement
  <2>7. m.data = "result"
    BY <1>3, <2>6 DEF Messages
  <2>8. PICK u : u = [s EXCEPT !.acks = Put(@, s.async[k], "result")]
    OBVIOUS
  <2>9. w = Succeeded(u)
    BY <2>2, <2>4, <2>6, <2>7, <2>8, Results DEF CoreWriteAcknowledgement
  <2>10. t = [u EXCEPT !.async = Without(@, k)]
    BY <2>1, <2>3, <2>5, <2>9, Results DEF DeleteAsyncAckPacket
  <2>11. t = [s EXCEPT !.acks = Put(@, s.async[k], "result"), !.async = Without(@, k)]
    BY <2>8, <2>10 DEF IsState
  <2> QED BY <2>4, <2>6, <2>11 DEF Writes
<1> QED BY <1>1, <1>2, <1>3 DEF Messages

(* A new packet is none that was sent before.                              *)
LEMMA SendsOK ==
  ASSUME NEW s, NEW d, NEW c, NEW ex, NEW pending, Pair(s, d, c, ex, pending),
         NEW t, Sends(s, c, t)
  PROVE  Pair(t, d, c, ex, pending)
<1>1. PICK id \in DOMAIN s.channels :
        /\ s.channels[id].state = "OPEN"
        /\ t = [s EXCEPT !.sent = @ \cup {NewPacket(s, c, id)},
                         !.commitments = @ \cup {NewPacket(s, c, id)}]
  BY DEF Sends
<1>2. PICK p : p = NewPacket(s, c, id)
  OBVIOUS
<1>3. /\ IsState(s) /\ ChannelsOK(s) /\ SentOK(s, c) /\ ReceivedOK(s, pending)
      /\ Fits(s, d, ex) /\ Fits(d, s, ex) /\ Local(d, Other(c), {})
  BY DEF Pair, Local
<1>4. /\ IsState(t) /\ t.sent = s.sent \cup {p}
      /\ t.commitments = s.commitments \cup {p}
      /\ t.channels = s.channels /\ t.connected = s.connected
      /\ t.receipts = s.receipts /\ t.acks = s.acks /\ t.async = s.async
      /\ t.applied = s.applied /\ t.emitted = s.emitted /\ t.told = s.told
  BY <1>1, <1>2, <1>3 DEF IsState
<1>5. PICK q : q = {x \in s.sent : x.channel = id}
  OBVIOUS
<1>6. IsFiniteSet(q) /\ Cardinality(q) \in Nat
  BY <1>3, <1>5, FS_Subset, FS_CardinalityType DEF SentOK
<1>7. /\ IsPacket(p) /\ p.src = c /\ p.channel = id
      /\ p.dest = s.channels[id].counterparty /\ p.seq = Cardinality(q) + 1
  BY <1>2, <1>5 DEF NewPacket, IsPacket
<1>8. id \in s.connected
  BY <1>1, <1>3 DEF ChannelsOK, EndOK
<1>9. p \notin s.sent
  <2>1. SUFFICES ASSUME p \in s.sent PROVE FALSE
    OBVIOUS
  <2>2. p.seq <= Cardinality(q)
    BY <1>3, <1>5, <1>7, <2>1 DEF SentOK, PacketOK
  <2> QED BY <1>6, <1>7, <2>2
<1>10. ChannelsOK(t)
  BY <1>3, <1>4 DEF ChannelsOK, EndOK
<1>11. Cardinality(q \cup {p}) = Cardinality(q) + 1
  BY <1>5, <1>6, <1>9, FS_AddElement
<1>12. IsFiniteSet(t.sent)
  BY <1>3, <1>4, FS_AddElement DEF SentOK
<1>13. {x \in t.sent : x.channel = id} = q \cup {p}
  BY <1>4, <1>5, <1>7
<1>14. PacketOK(t, c, p)
  BY <1>4, <1>6, <1>7, <1>8, <1>11, <1>13 DEF PacketOK
<1>15. ASSUME NEW x \in s.sent
       PROVE  PacketOK(t, c, x)
  <2>1. PacketOK(s, c, x)
    BY <1>3 DEF SentOK
  <2>2. CASE x.channel = id
    <3>1. /\ {y \in t.sent : y.channel = x.channel} = q \cup {p}
          /\ {y \in s.sent : y.channel = x.channel} = q
      BY <1>5, <1>13, <2>2
    <3>2. x.seq <= Cardinality(q) /\ x.seq \in Nat
      BY <2>1, <3>1 DEF PacketOK
    <3>3. x.seq <= Cardinality(q \cup {p})
      BY <1>6, <1>11, <3>2
    <3> QED BY <1>4, <2>1, <3>1, <3>3 DEF PacketOK
  <2>3. CASE x.channel # id
    <3>1. {y \in t.sent : y.channel = x.channel} = {y \in s.sent : y.channel = x.channel}
      BY <1>4, <1>7, <2>3
    <3> QED BY <1>4, <2>1, <3>1 DEF PacketOK
  <2> QED BY <2>2, <2>3
<1>16. \A x \in t.sent : ToldOK(t, x)
  BY <1>3, <1>4, <1>9 DEF SentOK, ToldOK
<1>17. SentOK(t, c)
  BY <1>3, <1>4, <1>12, <1>14, <1>15, <1>16 DEF SentOK
<1>18. ReceivedOK(t, pending)
  BY <1>3, <1>4 DEF ReceivedOK, Owed
<1>19. Fits(t, d, ex)
  BY <1>3, <1>4, SMTT(30) DEF Fits, EndsAgree, ToldTruth
<1>20. Grows(s, t)
  BY <1>4 DEF Grows, Later
<1>21. Fits(d, t, ex)
  BY <1>3, <1>4, <1>20, FitsKept DEF Local
<1> QED BY <1>3, <1>4, <1>10, <1>17, <1>18, <1>19, <1>21 DEF Pair, Local

(* An acknowledgement that was owed is written, and owed no longer.        *)
LEMMA WritesOK ==
  ASSUME NEW s, NEW d, NEW c, NEW ex, NEW pending, Pair(s, d, c, ex, pending),
         NEW t, Writes(s, t)
  PROVE  Pair(t, d, c, ex, pending)
<1>1. PICK k \in DOMAIN s.async :
        /\ s.async[k] \notin DOMAIN s.acks
        /\ t = [s EXCEPT !.acks = Put(@, s.async[k], "result"), !.async = Without(@, k)]
  BY DEF Writes
<1>2. PICK p : p = s.async[k]
  OBVIOUS
<1>3. /\ IsState(s) /\ ChannelsOK(s) /\ SentOK(s, c) /\ ReceivedOK(s, pending)
      /\ Fits(s, d, ex) /\ Fits(d, s, ex) /\ Local(d, Other(c), {})
  BY DEF Pair, Local
<1>4. /\ IsState(t) /\ t.acks = Put(s.acks, p, "result")
      /\ t.async = Without(s.async, k)
      /\ t.sent = s.sent /\ t.commitments = s.commitments
      /\ t.channels = s.channels /\ t.connected = s.connected
      /\ t.receipts = s.receipts
      /\ t.applied = s.applied /\ t.emitted = s.emitted /\ t.told = s.told
  BY <1>1, <1>2, <1>3 DEF IsState
<1>5. /\ IsMap(t.acks) /\ DOMAIN t.acks = DOMAIN s.acks \cup {p}
      /\ t.acks[p] = "result"
      /\ \A y \in DOMAIN s.acks : t.acks[y] = s.acks[y]
  BY <1>1, <1>2, <1>4 DEF Put, IsMap
<1>6. /\ IsMap(t.async) /\ DOMAIN t.async = DOMAIN s.async \ {k}
      /\ \A y \in DOMAIN t.async : t.async[y] = s.async[y]
  BY <1>4 DEF Without, IsMap
<1>7. p \in Owed(s) \ pending
  BY <1>2, <1>3 DEF ReceivedOK
<1>8. Owed(t) = Owed(s) \ {p}
  BY <1>4, <1>5 DEF Owed
<1>9. {t.async[y] : y \in DOMAIN t.async} = Owed(t) \ pending
  <2>1. {s.async[y] : y \in DOMAIN s.async} = Owed(s) \ pending
    BY <1>3 DEF ReceivedOK
  <2>2. \A y \in DOMAIN s.async : s.async[y] = p => y = k
    BY <1>2, <1>3 DEF ReceivedOK
  <2>3. \A y \in DOMAIN t.async : t.async[y] \in Owed(t) \ pending
    BY <1>6, <1>8, <2>1, <2>2
  <2>4. \A x \in Owed(t) \ pending : \E y \in DOMAIN t.async : t.async[y] = x
    BY <1>2, <1>6, <1>8, <2>1
  <2> QED BY <2>3, <2>4
<1>10. t.applied = Owed(t) \cup {x \in DOMAIN t.acks : t.acks[x] = "result"}
  <2>1. s.applied = Owed(s) \cup {x \in DOMAIN s.acks : s.acks[x] = "result"}
    BY <1>3 DEF ReceivedOK
  <2>2. {x \in DOMAIN t.acks : t.acks[x] = "result"} =
          {x \in DOMAIN s.acks : s.acks[x] = "result"} \cup {p}
    BY <1>5
  <2> QED BY <1>4, <1>7, <1>8, <2>1, <2>2
<1>11. ReceivedOK(t, pending)
  <2>1. DOMAIN t.acks \subseteq t.receipts /\ pending \subseteq Owed(t)
    BY <1>3, <1>4, <1>5, <1>7, <1>8 DEF ReceivedOK, Owed
  <2>2. \A x \in DOMAIN t.acks : t.acks[x] \in {"result", "error"}
    BY <1>3, <1>5 DEF ReceivedOK
  <2>3. \A y \in DOMAIN t.async : y = <<t.async[y].dest, t.async[y].seq>>
    BY <1>3, <1>6 DEF ReceivedOK
  <2>4. /\ t.emitted = t.applied \ pending
        /\ \A x \in t.receipts : /\ x.dest \in t.connected
                                 /\ x.channel = t.channels[x.dest].counterparty
    BY <1>3, <1>4 DEF ReceivedOK
  <2> QED BY <1>5, <1>6, <1>9, <1>10, <2>1, <2>2, <2>3, <2>4 DEF ReceivedOK
<1>12. ChannelsOK(t)
  BY <1>3, <1>4 DEF ChannelsOK, EndOK
<1>13. SentOK(t, c)
  BY <1>3, <1>4 DEF SentOK, PacketOK, ToldOK
<1>14. Fits(t, d, ex)
  BY <1>3, <1>4, SMTT(30) DEF Fits, EndsAgree, ToldTruth
<1>15. Grows(s, t)
  BY <1>4, <1>5 DEF Grows, Later
<1>16. Fits(d, t, ex)
  BY <1>3, <1>4, <1>15, FitsKept DEF Local
<1> QED BY <1>3, <1>4, <1>11, <1>12, <1>13, <1>14, <1>16 DEF Pair, Local

(* The response of a contract keeps the invariant.                         *)
LEMMA DispatchedOK ==
  ASSUME NEW s, NEW d, NEW c, NEW ex, NEW pending, Pair(s, d, c, ex, pending),
         NEW m \in Messages, Dispatched(s, c, m).ok
  PROVE  Pair(Dispatched(s, c, m).state, d, c, ex, pending)
<1>1. PICK t : t = Dispatched(s, c, m).state
  OBVIOUS
<1>2. IsState(s)
  BY DEF Pair, Local
<1>3. t = s \/ Sends(s, c, t) \/ Writes(s, t)
  BY <1>1, <1>2, DispatchedCases
<1> QED BY <1>1, <1>3, SendsOK, WritesOK

-----------------------------------------------------------------------------
(* The channel handshake.                                                  *)

(* The next channel is a new one.                                          *)
LEMMA NewId ==
  ASSUME NEW s, ChannelsOK(s), NEW id, id = Cardinality(DOMAIN s.channels)
  PROVE  /\ id \in Nat /\ id \notin DOMAIN s.channels
         /\ DOMAIN s.channels \cup {id} = 0..((id + 1) - 1)
<1>1. PICK n \in Nat : DOMAIN s.channels = 0..(n - 1)
  BY DEF ChannelsOK
<1>2. Cardinality(0..(n - 1)) = IF 0 > n - 1 THEN 0 ELSE (n - 1) - 0 + 1
  BY FS_Interval
<1>3. id = n
  BY <1>1, <1>2
<1> QED BY <1>1, <1>3

(* A channel end that is made fits the one it answers.                     *)
LEMMA OpenedOK ==
  ASSUME NEW s, NEW d, NEW c, NEW ex, Pair(s, d, c, ex, {}),
         NEW id, id = Cardinality(DOMAIN s.channels),
         NEW end, IsEnd(end), NEW answer,
         \/ end.state = "INIT" /\ end.role = "init" /\ end.counterparty = None
         \/ /\ end.state = "TRYOPEN" /\ end.role = "try"
            /\ end.counterparty \in DOMAIN d.channels
            /\ d.channels[end.counterparty].role = "init"
            /\ d.channels[end.counterparty].ordering = end.ordering,
         NEW t, t = Opened(s, id, end, answer)
  PROVE  Pair(t, d, c, ex, {})
<1>1. /\ IsState(s) /\ ChannelsOK(s) /\ SentOK(s, c) /\ ReceivedOK(s, {})
      /\ Fits(s, d, ex) /\ Fits(d, s, ex) /\ Local(d, Other(c), {})
  BY DEF Pair, Local
<1>2. /\ IsState(t) /\ t.channels = Put(s.channels, id, end)
      /\ t.sent = s.sent /\ t.commitments = s.commitments
      /\ t.connected = s.connected
      /\ t.receipts = s.receipts /\ t.acks = s.acks /\ t.async = s.async
      /\ t.applied = s.applied /\ t.emitted = s.emitted /\ t.told = s.told
  BY <1>1 DEF IsState, Opened
<1>3. /\ id \in Nat /\ id \notin DOMAIN s.channels
      /\ DOMAIN s.channels \cup {id} = 0..((id + 1) - 1)
  BY <1>1, NewId
<1>4. /\ IsMap(t.channels) /\ DOMAIN t.channels = DOMAIN s.channels \cup {id}
      /\ t.channels[id] = end
      /\ \A x \in DOMAIN s.channels : t.channels[x] = s.channels[x]
  BY <1>2, <1>3 DEF Put, IsMap
<1>5. s.connected \subseteq DOMAIN s.channels /\ id \notin s.connected
  BY <1>1, <1>3 DEF ChannelsOK
<1>6. ChannelsOK(t)
  <2>1. \E n \in Nat : DOMAIN t.channels = 0..(n - 1)
    <3>1. id + 1 \in Nat
      BY <1>3
    <3> QED BY <1>3, <1>4, <3>1
  <2>2. EndOK(t, id)
    BY <1>2, <1>4, <1>5 DEF EndOK
  <2>3. \A x \in DOMAIN s.channels : EndOK(t, x)
    BY <1>1, <1>2, <1>4 DEF ChannelsOK, EndOK
  <2> QED BY <1>2, <1>4, <1>5, <2>1, <2>2, <2>3 DEF ChannelsOK
<1>7. SentOK(t, c)
  BY <1>1, <1>2, <1>4, <1>5 DEF SentOK, PacketOK, ToldOK
<1>8. ReceivedOK(t, {})
  <2>1. \A p \in t.receipts : /\ p.dest \in t.connected
                              /\ p.channel = t.channels[p.dest].counterparty
    BY <1>1, <1>2, <1>4, <1>5 DEF ReceivedOK
  <2>2. Owed(t) = Owed(s)
    BY <1>2 DEF Owed
  <2>3. {t.async[k] : k \in DOMAIN t.async} = {s.async[k] : k \in DOMAIN s.async}
    BY <1>2
  <2>4. {p \in DOMAIN t.acks : t.acks[p] = "result"} =
          {p \in DOMAIN s.acks : s.acks[p] = "result"}
    BY <1>2
  <2> QED BY <1>1, <1>2, <2>1, <2>2, <2>3, <2>4 DEF ReceivedOK
<1>9. Fits(t, d, ex)
  <2>1. EndsAgree(t, d, id)
    <3>1. end.counterparty # None => end.role = "try"
      OBVIOUS
    <3>2. \A x \in DOMAIN d.channels : x # None
      BY <1>1, IBCAssumption DEF Local, ChannelsOK
    <3> QED BY <1>2, <1>4, <1>5, <3>1, <3>2 DEF EndsAgree
  <2>2. \A x \in DOMAIN s.channels : EndsAgree(t, d, x)
    BY <1>1, <1>2, <1>4, SMTT(30) DEF Fits, EndsAgree
  <2> QED BY <1>1, <1>2, <1>4, <2>1, <2>2 DEF Fits, ToldTruth
<1>10. Grows(s, t)
  BY <1>2, <1>4 DEF Grows, Later
<1>11. Fits(d, t, ex)
  BY <1>1, <1>2, <1>10, FitsKept DEF Local
<1> QED BY <1>1, <1>2, <1>6, <1>7, <1>8, <1>9, <1>11 DEF Pair, Local

(* The end id of a channel becomes e.                                      *)
Changes(s, t, id, e) ==
  /\ t.channels = [s.channels EXCEPT ![id] = e]
  /\ t.connected = s.connected \/ t.connected = s.connected \cup {id}
  /\ t.sent = s.sent /\ t.commitments = s.commitments
  /\ t.receipts = s.receipts /\ t.acks = s.acks /\ t.async = s.async
  /\ t.applied = s.applied /\ t.emitted = s.emitted /\ t.told = s.told

(* A channel end may move on as long as it keeps what was agreed.          *)
LEMMA EndChanged ==
  ASSUME NEW s, NEW d, NEW c, NEW ex, NEW pending, Pair(s, d, c, ex, pending),
         NEW id \in DOMAIN s.channels, NEW e, NEW o, o = s.channels[id],
         NEW t, IsState(t), Changes(s, t, id, e), EndOK(t, id), EndsAgree(t, d, id),
         e.role = o.role, e.ordering = o.ordering, e.first = o.first,
         e.counterparty = o.counterparty \/ (o.counterparty = None /\ id \notin s.connected),
         o.state = "CLOSED" => e.state = "CLOSED"
  PROVE  Pair(t, d, c, ex, pending)
<1>1. /\ IsState(s) /\ ChannelsOK(s) /\ SentOK(s, c) /\ ReceivedOK(s, pending)
      /\ Fits(s, d, ex) /\ Fits(d, s, ex) /\ Local(d, Other(c), {})
  BY DEF Pair, Local
<1>2. /\ t.channels = [s.channels EXCEPT ![id] = e]
      /\ t.connected = s.connected \/ t.connected = s.connected \cup {id}
      /\ t.sent = s.sent /\ t.commitments = s.commitments
      /\ t.receipts = s.receipts /\ t.acks = s.acks /\ t.async = s.async
      /\ t.applied = s.applied /\ t.emitted = s.emitted /\ t.told = s.told
  BY DEF Changes
<1>3. /\ IsMap(t.channels) /\ DOMAIN t.channels = DOMAIN s.channels
      /\ t.channels[id] = e
      /\ \A x \in DOMAIN s.channels : x # id => t.channels[x] = s.channels[x]
  BY <1>1, <1>2 DEF ChannelsOK, IsMap
<1>4. \A x \in DOMAIN s.channels : x # id => (x \in t.connected <=> x \in s.connected)
  BY <1>2
<1>5. ChannelsOK(t)
  <2>1. \A x \in DOMAIN s.channels : EndOK(t, x)
    BY <1>1, <1>3, <1>4 DEF ChannelsOK, EndOK
  <2>2. t.connected \subseteq DOMAIN s.channels
    BY <1>1, <1>2 DEF ChannelsOK
  <2> QED BY <1>1, <1>3, <2>1, <2>2 DEF ChannelsOK
<1>6. \A x \in s.connected :
        x \in t.connected /\ t.channels[x].counterparty = s.channels[x].counterparty
  BY <1>1, <1>2, <1>3 DEF ChannelsOK
<1>7. SentOK(t, c)
  <2>1. \A p \in s.sent : PacketOK(t, c, p)
    BY <1>1, <1>2, <1>6 DEF SentOK, PacketOK
  <2>2. \A p \in s.sent : ToldOK(t, p)
    BY <1>1, <1>2 DEF SentOK, ToldOK
  <2> QED BY <1>1, <1>2, <2>1, <2>2 DEF SentOK
<1>8. ReceivedOK(t, pending)
  BY <1>1, <1>2, <1>6 DEF ReceivedOK, Owed
<1>9. Fits(t, d, ex)
  <2>1. \A x \in DOMAIN s.channels : EndsAgree(t, d, x)
    BY <1>1, <1>3, <1>4, SMTT(30) DEF Fits, EndsAgree
  <2> QED BY <1>1, <1>2, <1>3, <2>1 DEF Fits, ToldTruth
<1>10. Later(s, t)
  BY <1>3 DEF Later
<1>11. Grows(s, t)
  BY <1>2, <1>10 DEF Grows
<1>12. Fits(d, t, ex)
  BY <1>1, <1>2, <1>11, FitsKept DEF Local
<1> QED BY <1>1, <1>5, <1>7, <1>8, <1>9, <1>12 DEF Pair, Local

(* A channel is closed.                                                    *)
LEMMA ClosedOK ==
  ASSUME NEW s, NEW d, NEW c, NEW ex, NEW pending, Pair(s, d, c, ex, pending),
         NEW id \in DOMAIN s.channels,
         NEW t, t = [s EXCEPT !.channels[id].state = "CLOSED"]
  PROVE  Pair(t, d, c, ex, pending)
<1>1. IsState(s) /\ ChannelsOK(s) /\ EndOK(s, id) /\ EndsAgree(s, d, id)
  BY DEF Pair, Local, ChannelsOK, Fits
<1>2. PICK o : o = s.channels[id]
  OBVIOUS
<1>3. PICK e : e = [o EXCEPT !.state = "CLOSED"]
  OBVIOUS
<1>4. IsEnd(o)
  BY <1>1, <1>2 DEF EndOK
<1>5. /\ IsEnd(e) /\ e.state = "CLOSED" /\ e.role = o.role /\ e.ordering = o.ordering
      /\ e.first = o.first /\ e.counterparty = o.counterparty /\ e.version = o.version
  BY <1>3, <1>4 DEF IsEnd
<1>6. IsState(t) /\ Changes(s, t, id, e) /\ t.connected = s.connected
  BY <1>1, <1>2, <1>3 DEF IsState, Changes
<1>7. t.channels[id] = e
  BY <1>1, <1>6 DEF Changes, ChannelsOK, IsMap
<1>8. EndOK(t, id)
  BY <1>1, <1>2, <1>5, <1>6, <1>7 DEF EndOK
<1>9. EndsAgree(t, d, id)
  BY <1>1, <1>2, <1>5, <1>6, <1>7 DEF EndsAgree
<1> QED BY <1>2, <1>5, <1>6, <1>8, <1>9, EndChanged

(* Changing three fields of a channel end changes that end.                *)
LEMMA FieldsOfEnd ==
  ASSUME NEW f, IsMap(f), NEW id \in DOMAIN f, NEW x, NEW y, NEW z
  PROVE  [f EXCEPT ![id].state = x, ![id].counterparty = y, ![id].version = z] =
           [f EXCEPT ![id] = [f[id] EXCEPT !.state = x, !.counterparty = y, !.version = z]]
BY DEF IsMap

(* OnConnectChannel after ChanOpenAck.                                     *)
LEMMA AckedOK ==
  ASSUME NEW s, NEW d, NEW c, NEW ex, Pair(s, d, c, ex, {}),
         NEW id \in DOMAIN s.channels, s.channels[id].state = "INIT",
         NEW cp \in DOMAIN d.channels, NEW end, end = d.channels[cp],
         end.role = "try", end.counterparty = id,
         NEW u, u = [s EXCEPT !.channels[id].state = "OPEN",
                              !.channels[id].counterparty = cp,
                              !.channels[id].version = end.first],
         NEW t, t = [u EXCEPT !.connected = @ \cup {id}]
  PROVE  Pair(t, d, c, ex, {})
<1>1. IsState(s) /\ ChannelsOK(s) /\ EndOK(s, id) /\ EndsAgree(s, d, id)
  BY DEF Pair, Local, ChannelsOK, Fits
<1>2. PICK o : o = s.channels[id]
  OBVIOUS
<1>3. PICK e : e = [o EXCEPT !.state = "OPEN", !.counterparty = cp, !.version = end.first]
  OBVIOUS
<1>4. /\ IsEnd(o) /\ o.role = "init" /\ o.counterparty = None /\ id \notin s.connected
      /\ o.state = "INIT"
  BY <1>1, <1>2 DEF EndOK
<1>5. IsEnd(end) /\ cp # None /\ EndsAgree(d, s, cp) /\ id # None
  BY <1>1, IBCAssumption DEF Pair, Local, ChannelsOK, EndOK, Fits
<1>6. /\ IsEnd(e) /\ e.state = "OPEN" /\ e.role = "init" /\ e.ordering = o.ordering
      /\ e.first = o.first /\ e.counterparty = cp /\ e.version = end.first
  BY <1>3, <1>4, <1>5 DEF IsEnd
<1>7. end.ordering = o.ordering
  BY <1>2, <1>5 DEF EndsAgree
<1>8. u = [s EXCEPT !.channels = [@ EXCEPT ![id] = e]]
  <2>1. /\ IsState(u) /\ u = [s EXCEPT !.channels = u.channels]
        /\ u.channels = [s.channels EXCEPT ![id].state = "OPEN",
                                           ![id].counterparty = cp,
                                           ![id].version = end.first]
    BY <1>1 DEF IsState
  <2>2. u.channels = [s.channels EXCEPT ![id] = e]
    <3>1. IsMap(s.channels)
      BY <1>1 DEF ChannelsOK
    <3>2. [s.channels EXCEPT ![id].state = "OPEN", ![id].counterparty = cp,
                             ![id].version = end.first] =
            [s.channels EXCEPT ![id] = [s.channels[id] EXCEPT !.state = "OPEN",
                                          !.counterparty = cp, !.version = end.first]]
      BY <3>1, FieldsOfEnd, Zenon
    <3> QED BY <1>2, <1>3, <2>1, <3>2, Zenon
  <2> QED BY <2>1, <2>2
<1>9. IsState(t) /\ Changes(s, t, id, e) /\ t.connected = s.connected \cup {id}
  BY <1>1, <1>8, ZenonT(30) DEF IsState, Changes
<1>10. t.channels[id] = e /\ id \in t.connected
  BY <1>1, <1>9 DEF Changes, ChannelsOK, IsMap
<1>11. EndOK(t, id)
  BY <1>5, <1>6, <1>10 DEF EndOK
<1>12. EndsAgree(t, d, id)
  BY <1>5, <1>6, <1>7, <1>10 DEF EndsAgree
<1> QED BY <1>2, <1>4, <1>6, <1>9, <1>11, <1>12, EndChanged

(* OnConnectChannel after ChanOpenConfirm.                                 *)
LEMMA ConfirmedOK ==
  ASSUME NEW s, NEW d, NEW c, NEW ex, Pair(s, d, c, ex, {}),
         NEW id \in DOMAIN s.channels, s.channels[id].state = "TRYOPEN",
         d.channels[s.channels[id].counterparty].counterparty = id,
         NEW u, u = [s EXCEPT !.channels[id].state = "OPEN"],
         NEW t, t = [u EXCEPT !.connected = @ \cup {id}]
  PROVE  Pair(t, d, c, ex, {})
<1>1. IsState(s) /\ ChannelsOK(s) /\ EndOK(s, id) /\ EndsAgree(s, d, id)
  BY DEF Pair, Local, ChannelsOK, Fits
<1>2. PICK o : o = s.channels[id]
  OBVIOUS
<1>3. PICK e : e = [o EXCEPT !.state = "OPEN"]
  OBVIOUS
<1>4. IsEnd(o) /\ o.role = "try" /\ o.state = "TRYOPEN"
  BY <1>1, <1>2 DEF EndOK
<1>5. /\ IsEnd(e) /\ e.state = "OPEN" /\ e.role = "try" /\ e.ordering = o.ordering
      /\ e.first = o.first /\ e.counterparty = o.counterparty /\ e.version = o.version
  BY <1>3, <1>4 DEF IsEnd
<1>6. u = [s EXCEPT !.channels = [@ EXCEPT ![id] = e]]
  BY <1>1, <1>2, <1>3 DEF IsState, ChannelsOK, IsMap
<1>7. IsState(t) /\ Changes(s, t, id, e) /\ t.connected = s.connected \cup {id}
  BY <1>1, <1>6 DEF IsState, Changes
<1>8. t.channels[id] = e /\ id \in t.connected
  BY <1>1, <1>7 DEF Changes, ChannelsOK, IsMap
<1>9. EndOK(t, id)
  BY <1>5, <1>8 DEF EndOK
<1>10. EndsAgree(t, d, id)
  BY <1>1, <1>2, <1>4, <1>5, <1>8 DEF EndsAgree
<1> QED BY <1>2, <1>4, <1>5, <1>7, <1>9, <1>10, EndChanged

-----------------------------------------------------------------------------
(* Packets.                                                                *)

Tells(s, t, p, x) ==
  /\ IsState(t) /\ t.commitments = s.commitments \ {p}
  /\ t.told = Put(s.told, p, Append(IF p \in DOMAIN s.told THEN s.told[p] ELSE <<>>, x))
  /\ t.channels = s.channels /\ t.connected = s.connected /\ t.sent = s.sent
  /\ t.receipts = s.receipts /\ t.acks = s.acks /\ t.async = s.async
  /\ t.applied = s.applied /\ t.emitted = s.emitted

(* The sender of a packet is told how it ended, once and truthfully.       *)
LEMMA TellsOK ==
  ASSUME NEW s, NEW d, NEW c, NEW ex, Pair(s, d, c, ex, {}),
         NEW p \in s.commitments, NEW x,
         \/ /\ x = "timeout" /\ p \notin d.receipts
            /\ p \in ex \/ d.channels[p.dest].state = "CLOSED"
         \/ x \in {"result", "error"} /\ p \in DOMAIN d.acks /\ x = d.acks[p],
         NEW t, Tells(s, t, p, x)
  PROVE  Pair(t, d, c, ex, {})
<1>1. /\ IsState(s) /\ ChannelsOK(s) /\ SentOK(s, c) /\ ReceivedOK(s, {})
      /\ Fits(s, d, ex) /\ Fits(d, s, ex) /\ Local(d, Other(c), {})
  BY DEF Pair, Local
<1>2. /\ IsState(t) /\ t.commitments = s.commitments \ {p}
      /\ t.channels = s.channels /\ t.connected = s.connected /\ t.sent = s.sent
      /\ t.receipts = s.receipts /\ t.acks = s.acks /\ t.async = s.async
      /\ t.applied = s.applied /\ t.emitted = s.emitted
  BY DEF Tells
<1>3. p \in s.sent /\ p \notin DOMAIN s.told
  BY <1>1 DEF SentOK, ToldOK
<1>4. t.told = Put(s.told, p, <<x>>)
  <2>1. Append(<<>>, x) = <<x>>
    OBVIOUS
  <2> QED BY <1>3, <2>1, Zenon DEF Tells
<1>5. /\ IsMap(t.told) /\ DOMAIN t.told = DOMAIN s.told \cup {p}
      /\ t.told[p] = <<x>>
      /\ \A q \in DOMAIN s.told : t.told[q] = s.told[q]
  BY <1>3, <1>4 DEF Put, IsMap
<1>6. ChannelsOK(t)
  BY <1>1, <1>2 DEF ChannelsOK, EndOK
<1>7. SentOK(t, c)
  <2>1. \A q \in s.sent : PacketOK(t, c, q)
    BY <1>1, <1>2 DEF SentOK, PacketOK
  <2>2. ASSUME NEW q \in s.sent
        PROVE  ToldOK(t, q)
    <3>1. CASE q = p
      <4>1. x \in {"timeout", "result", "error"}
        OBVIOUS
      <4> QED BY <1>2, <1>5, <3>1, <4>1 DEF ToldOK
    <3>2. CASE q # p
      <4>1. ToldOK(s, q)
        BY <1>1 DEF SentOK
      <4>2. (q \in t.commitments <=> q \in s.commitments)
            /\ (q \in DOMAIN t.told <=> q \in DOMAIN s.told)
        BY <1>2, <1>5, <3>2
      <4> QED BY <1>5, <4>1, <4>2 DEF ToldOK
    <3> QED BY <3>1, <3>2
  <2>3. t.commitments \subseteq t.sent /\ DOMAIN t.told \subseteq t.sent
    BY <1>1, <1>2, <1>3, <1>5 DEF SentOK
  <2> QED BY <1>1, <1>2, <1>5, <2>1, <2>2, <2>3 DEF SentOK
<1>8. ReceivedOK(t, {})
  BY <1>1, <1>2 DEF ReceivedOK, Owed
<1>9. ToldTruth(t, d, ex, p)
  <2>1. <<x>> = <<"timeout">> <=> x = "timeout"
    OBVIOUS
  <2> QED BY <1>5, <2>1 DEF ToldTruth
<1>10. Fits(t, d, ex)
  <2>1. \A q \in DOMAIN s.told : ToldTruth(t, d, ex, q)
    BY <1>1, <1>5 DEF Fits, ToldTruth
  <2>2. \A id \in DOMAIN t.channels : EndsAgree(t, d, id)
    BY <1>1, <1>2 DEF Fits, EndsAgree
  <2> QED BY <1>1, <1>2, <1>5, <1>9, <2>1, <2>2 DEF Fits
<1>11. Grows(s, t)
  BY <1>2 DEF Grows, Later
<1>12. Fits(d, t, ex)
  BY <1>1, <1>2, <1>11, FitsKept DEF Local
<1> QED BY <1>1, <1>2, <1>6, <1>7, <1>8, <1>10, <1>12 DEF Pair, Local

(* Packet p may be received, as the core checks.                           *)
MayReceive(s, d, ex, p) ==
  /\ p \in d.sent /\ p \notin s.receipts /\ p \notin ex
  /\ IsOpen(s, p.dest) /\ s.channels[p.dest].counterparty = p.channel

(* What a packet that is received changes, apart from its effects.         *)
Receives(s, t, p) ==
  /\ IsState(t) /\ t.receipts = s.receipts \cup {p}
  /\ t.channels = s.channels /\ t.connected = s.connected /\ t.sent = s.sent
  /\ t.commitments = s.commitments /\ t.told = s.told /\ t.async = s.async

(* A packet that is received keeps all but the conditions on its           *)
(* acknowledgement.                                                        *)
LEMMA ReceivesOK ==
  ASSUME NEW s, NEW d, NEW c, NEW ex, Pair(s, d, c, ex, {}), NEW p,
         MayReceive(s, d, ex, p), NEW t, Receives(s, t, p),
         \A q \in DOMAIN s.acks : q \in DOMAIN t.acks /\ t.acks[q] = s.acks[q]
  PROVE  /\ IsState(t) /\ ChannelsOK(t) /\ SentOK(t, c) /\ Fits(t, d, ex)
         /\ Fits(d, t, ex)
         /\ \A q \in t.receipts : /\ q.dest \in t.connected
                                  /\ q.channel = t.channels[q.dest].counterparty
<1>1. /\ IsState(s) /\ ChannelsOK(s) /\ SentOK(s, c) /\ ReceivedOK(s, {})
      /\ Fits(s, d, ex) /\ Fits(d, s, ex) /\ Local(d, Other(c), {})
  BY DEF Pair, Local
<1>2. /\ IsState(t) /\ t.receipts = s.receipts \cup {p}
      /\ t.channels = s.channels /\ t.connected = s.connected /\ t.sent = s.sent
      /\ t.commitments = s.commitments /\ t.told = s.told
  BY DEF Receives
<1>3. /\ p \in d.sent /\ p \notin s.receipts /\ p \notin ex
      /\ p.dest \in DOMAIN s.channels /\ s.channels[p.dest].state = "OPEN"
      /\ s.channels[p.dest].counterparty = p.channel
  BY DEF MayReceive, IsOpen
<1>4. p.dest \in s.connected
  BY <1>1, <1>3 DEF ChannelsOK, EndOK
<1>5. ChannelsOK(t)
  BY <1>1, <1>2 DEF ChannelsOK, EndOK
<1>6. SentOK(t, c)
  BY <1>1, <1>2 DEF SentOK, PacketOK, ToldOK
<1>7. Fits(t, d, ex)
  BY <1>1, <1>2, <1>3, SMTT(30) DEF Fits, EndsAgree, ToldTruth
<1>8. Grows(s, t)
  BY <1>2 DEF Grows, Later
<1>9. \A q \in DOMAIN d.told :
        d.told[q] = <<"timeout">> /\ q \in t.receipts => q \in s.receipts
  BY <1>1, <1>2, <1>3 DEF Fits, ToldTruth
<1>10. Fits(d, t, ex)
  BY <1>1, <1>8, <1>9, FitsKept DEF Local
<1>11. \A q \in t.receipts : /\ q.dest \in t.connected
                             /\ q.channel = t.channels[q.dest].counterparty
  BY <1>1, <1>2, <1>3, <1>4 DEF ReceivedOK
<1> QED BY <1>2, <1>5, <1>6, <1>7, <1>10, <1>11

(* The contract is called for a packet.                                    *)
LEMMA CalledOK ==
  ASSUME NEW s, NEW d, NEW c, NEW ex, Pair(s, d, c, ex, {}), NEW p,
         MayReceive(s, d, ex, p), NEW t, Receives(s, t, p),
         t.acks = s.acks, t.emitted = s.emitted, t.applied = s.applied \cup {p}
  PROVE  Pair(t, d, c, ex, {p})
<1>1. ReceivedOK(s, {})
  BY DEF Pair, Local
<1>2. t.receipts = s.receipts \cup {p} /\ t.async = s.async
  BY DEF Receives
<1>3. p \notin s.receipts /\ p \notin DOMAIN s.acks
  BY <1>1 DEF MayReceive, ReceivedOK
<1>4. Owed(t) = Owed(s) \cup {p} /\ p \notin Owed(s)
  BY <1>2, <1>3 DEF Owed
<1>5. /\ IsState(t) /\ ChannelsOK(t) /\ SentOK(t, c) /\ Fits(t, d, ex)
      /\ Fits(d, t, ex)
      /\ \A q \in t.receipts : /\ q.dest \in t.connected
                               /\ q.channel = t.channels[q.dest].counterparty
  BY ReceivesOK
<1>6. p \notin s.applied
  BY <1>1, <1>3, <1>4 DEF ReceivedOK
<1>7. /\ DOMAIN t.acks \subseteq t.receipts /\ {p} \subseteq Owed(t)
      /\ {t.async[k] : k \in DOMAIN t.async} = Owed(t) \ {p}
      /\ t.emitted = t.applied \ {p}
      /\ t.applied = Owed(t) \cup {q \in DOMAIN t.acks : t.acks[q] = "result"}
  <2>1. DOMAIN t.acks \subseteq t.receipts /\ {p} \subseteq Owed(t)
    BY <1>1, <1>2, <1>4 DEF ReceivedOK
  <2>2. {t.async[k] : k \in DOMAIN t.async} = Owed(t) \ {p}
    BY <1>1, <1>2, <1>4 DEF ReceivedOK
  <2>3. t.emitted = t.applied \ {p}
    BY <1>1, <1>6 DEF ReceivedOK
  <2>4. t.applied = Owed(t) \cup {q \in DOMAIN t.acks : t.acks[q] = "result"}
    BY <1>1, <1>4 DEF ReceivedOK
  <2> QED BY <2>1, <2>2, <2>3, <2>4
<1>8. ReceivedOK(t, {p})
  BY <1>1, <1>2, <1>5, <1>7 DEF ReceivedOK
<1> QED BY <1>5, <1>8 DEF Pair, Local

(* The contract returned an error: nothing of what it did remains.         *)
LEMMA RefusedOK ==
  ASSUME NEW s, NEW d, NEW c, NEW ex, Pair(s, d, c, ex, {}), NEW p,
         MayReceive(s, d, ex, p), NEW t, Receives(s, t, p),
         t.acks = Put(s.acks, p, "error"), t.emitted = s.emitted, t.applied = s.applied
  PROVE  Pair(t, d, c, ex, {})
<1>1. ReceivedOK(s, {})
  BY DEF Pair, Local
<1>2. t.receipts = s.receipts \cup {p} /\ t.async = s.async
  BY DEF Receives
<1>3. p \notin s.receipts /\ p \notin DOMAIN s.acks
  BY <1>1 DEF MayReceive, ReceivedOK
<1>4. /\ IsMap(t.acks) /\ DOMAIN t.acks = DOMAIN s.acks \cup {p}
      /\ t.acks[p] = "error" /\ \A q \in DOMAIN s.acks : t.acks[q] = s.acks[q]
  BY <1>3 DEF Put, IsMap
<1>5. Owed(t) = Owed(s)
  BY <1>2, <1>3, <1>4 DEF Owed
<1>6. /\ IsState(t) /\ ChannelsOK(t) /\ SentOK(t, c) /\ Fits(t, d, ex)
      /\ Fits(d, t, ex)
      /\ \A q \in t.receipts : /\ q.dest \in t.connected
                               /\ q.channel = t.channels[q.dest].counterparty
  BY <1>4, ReceivesOK
<1>7. {q \in DOMAIN t.acks : t.acks[q] = "result"} =
        {q \in DOMAIN s.acks : s.acks[q] = "result"}
  BY <1>4
<1>8. /\ DOMAIN t.acks \subseteq t.receipts
      /\ \A q \in DOMAIN t.acks : t.acks[q] \in {"result", "error"}
  BY <1>1, <1>2, <1>4 DEF ReceivedOK
<1>9. ReceivedOK(t, {})
  <2>1. {t.async[k] : k \in DOMAIN t.async} = Owed(t) \ {}
    BY <1>1, <1>2, <1>5 DEF ReceivedOK
  <2>2. t.applied = Owed(t) \cup {q \in DOMAIN t.acks : t.acks[q] = "result"}
    BY <1>1, <1>5, <1>7 DEF ReceivedOK
  <2> QED BY <1>1, <1>2, <1>4, <1>6, <1>8, <2>1, <2>2 DEF ReceivedOK
<1> QED BY <1>6, <1>9 DEF Pair, Local

(* The contract gave an acknowledgement, or will give it later.            *)
Answered(s, t, p) ==
  /\ IsState(t) /\ t.emitted = s.emitted \cup {p}
  /\ t.acks = Put(s.acks, p, "result") /\ t.async = s.async
  /\ t.sent = s.sent /\ t.commitments = s.commitments
  /\ t.channels = s.channels /\ t.connected = s.connected
  /\ t.receipts = s.receipts /\ t.applied = s.applied /\ t.told = s.told

Stored(s, t, p) ==
  /\ IsState(t) /\ t.emitted = s.emitted \cup {p}
  /\ t.acks = s.acks /\ t.async = Put(s.async, <<p.dest, p.seq>>, p)
  /\ t.sent = s.sent /\ t.commitments = s.commitments
  /\ t.channels = s.channels /\ t.connected = s.connected
  /\ t.receipts = s.receipts /\ t.applied = s.applied /\ t.told = s.told

(* A packet that is answered with a result.                                *)
LEMMA AnsweredOK ==
  ASSUME NEW s, NEW d, NEW c, NEW ex, NEW p, Pair(s, d, c, ex, {p}),
         NEW t, Answered(s, t, p)
  PROVE  Pair(t, d, c, ex, {})
<1>1. /\ IsState(s) /\ ChannelsOK(s) /\ SentOK(s, c) /\ ReceivedOK(s, {p})
      /\ Fits(s, d, ex) /\ Fits(d, s, ex) /\ Local(d, Other(c), {})
  BY DEF Pair, Local
<1>2. /\ IsState(t) /\ t.acks = Put(s.acks, p, "result")
      /\ t.emitted = s.emitted \cup {p} /\ t.async = s.async
      /\ t.sent = s.sent /\ t.commitments = s.commitments
      /\ t.channels = s.channels /\ t.connected = s.connected
      /\ t.receipts = s.receipts
      /\ t.applied = s.applied /\ t.told = s.told
  BY DEF Answered
<1>3. p \in s.receipts /\ p \notin DOMAIN s.acks /\ p \in Owed(s)
  BY <1>1 DEF ReceivedOK, Owed
<1>4. /\ IsMap(t.acks) /\ DOMAIN t.acks = DOMAIN s.acks \cup {p}
      /\ t.acks[p] = "result"
      /\ \A y \in DOMAIN s.acks : t.acks[y] = s.acks[y]
  BY <1>2, <1>3 DEF Put, IsMap
<1>5. Owed(t) = Owed(s) \ {p}
  BY <1>2, <1>4 DEF Owed
<1>6. {q \in DOMAIN t.acks : t.acks[q] = "result"} =
        {q \in DOMAIN s.acks : s.acks[q] = "result"} \cup {p}
  BY <1>4
<1>7. ReceivedOK(t, {})
  <2>1. {t.async[k] : k \in DOMAIN t.async} = Owed(t) \ {}
    BY <1>1, <1>2, <1>5 DEF ReceivedOK
  <2>2. t.applied = Owed(t) \cup {q \in DOMAIN t.acks : t.acks[q] = "result"}
    BY <1>1, <1>2, <1>3, <1>5, <1>6 DEF ReceivedOK
  <2>3. t.emitted = t.applied \ {}
    BY <1>1, <1>2, <1>3 DEF ReceivedOK
  <2>4. /\ DOMAIN t.acks \subseteq t.receipts
        /\ \A q \in DOMAIN t.acks : t.acks[q] \in {"result", "error"}
    BY <1>1, <1>2, <1>3, <1>4 DEF ReceivedOK
  <2> QED BY <1>1, <1>2, <1>4, <2>1, <2>2, <2>3, <2>4 DEF ReceivedOK
<1>8. ChannelsOK(t)
  BY <1>1, <1>2 DEF ChannelsOK, EndOK
<1>9. SentOK(t, c)
  BY <1>1, <1>2 DEF SentOK, PacketOK, ToldOK
<1>10. Fits(t, d, ex)
  BY <1>1, <1>2, SMTT(30) DEF Fits, EndsAgree, ToldTruth
<1>11. Grows(s, t)
  BY <1>2, <1>4 DEF Grows, Later
<1>12. Fits(d, t, ex)
  BY <1>1, <1>2, <1>11, FitsKept DEF Local
<1> QED BY <1>1, <1>2, <1>7, <1>8, <1>9, <1>10, <1>12 DEF Pair, Local

(* The contract owes an acknowledgement: the key is that of no other one.  *)
LEMMA StoredOK ==
  ASSUME NEW s, NEW d, NEW c, NEW ex, NEW p, Pair(s, d, c, ex, {p}),
         NEW t, Stored(s, t, p)
  PROVE  Pair(t, d, c, ex, {})
<1>1. /\ IsState(s) /\ ChannelsOK(s) /\ SentOK(s, c) /\ ReceivedOK(s, {p})
      /\ Fits(s, d, ex) /\ Fits(d, s, ex) /\ Local(d, Other(c), {})
  BY DEF Pair, Local
<1>2. PICK k : k = <<p.dest, p.seq>>
  OBVIOUS
<1>3. /\ IsState(t) /\ t.async = Put(s.async, k, p)
      /\ t.emitted = s.emitted \cup {p} /\ t.acks = s.acks
      /\ t.sent = s.sent /\ t.commitments = s.commitments
      /\ t.channels = s.channels /\ t.connected = s.connected
      /\ t.receipts = s.receipts
      /\ t.applied = s.applied /\ t.told = s.told
  BY <1>2 DEF Stored
<1>4. p \in s.receipts /\ p \in Owed(s)
  BY <1>1 DEF ReceivedOK, Owed
<1>5. k \notin DOMAIN s.async
  <2>1. SUFFICES ASSUME k \in DOMAIN s.async PROVE FALSE
    OBVIOUS
  <2>2. PICK q : q = s.async[k]
    OBVIOUS
  <2>3. q \in s.receipts /\ q # p
    BY <1>1, <2>1, <2>2 DEF ReceivedOK, Owed
  <2>4. k = <<q.dest, q.seq>>
    BY <1>1, <2>1, <2>2 DEF ReceivedOK
  <2>5. q.dest = p.dest /\ q.seq = p.seq
    BY <1>2, <2>4
  <2>6. q.channel = p.channel
    BY <1>1, <1>4, <2>3, <2>5 DEF ReceivedOK
  <2>7. p \in d.sent /\ q \in d.sent /\ SentOK(d, Other(c))
    BY <1>1, <1>4, <2>3 DEF Fits, Local
  <2>8. IsPacket(p) /\ IsPacket(q) /\ p.src = q.src
    <3>1. PacketOK(d, Other(c), p) /\ PacketOK(d, Other(c), q)
      BY <2>7 DEF SentOK
    <3>2. IsPacket(p) /\ p.src = Other(c)
      BY <3>1 DEF PacketOK
    <3>3. IsPacket(q) /\ q.src = Other(c)
      BY <3>1 DEF PacketOK
    <3> QED BY <3>2, <3>3
  <2> QED BY <2>3, <2>5, <2>6, <2>8 DEF IsPacket
<1>6. /\ IsMap(t.async) /\ DOMAIN t.async = DOMAIN s.async \cup {k}
      /\ t.async[k] = p /\ \A y \in DOMAIN s.async : t.async[y] = s.async[y]
  BY <1>3, <1>5 DEF Put, IsMap
<1>7. Owed(t) = Owed(s)
  BY <1>3 DEF Owed
<1>8. ReceivedOK(t, {})
  <2>1. {t.async[y] : y \in DOMAIN t.async} = Owed(t) \ {}
    <3>1. {s.async[y] : y \in DOMAIN s.async} = Owed(s) \ {p}
      BY <1>1 DEF ReceivedOK
    <3>2. \A y \in DOMAIN t.async : t.async[y] \in Owed(t)
      BY <1>4, <1>6, <1>7, <3>1
    <3>3. \A q \in Owed(t) : \E y \in DOMAIN t.async : t.async[y] = q
      BY <1>6, <1>7, <3>1
    <3> QED BY <3>2, <3>3
  <2>2. t.applied = Owed(t) \cup {q \in DOMAIN t.acks : t.acks[q] = "result"}
    BY <1>1, <1>3, <1>7 DEF ReceivedOK
  <2>3. t.emitted = t.applied \ {}
    BY <1>1, <1>3, <1>4 DEF ReceivedOK
  <2>4. \A y \in DOMAIN t.async : y = <<t.async[y].dest, t.async[y].seq>>
    BY <1>1, <1>2, <1>6 DEF ReceivedOK
  <2> QED BY <1>1, <1>3, <1>6, <2>1, <2>2, <2>3, <2>4 DEF ReceivedOK
<1>9. ChannelsOK(t)
  BY <1>1, <1>3 DEF ChannelsOK, EndOK
<1>10. SentOK(t, c)
  BY <1>1, <1>3 DEF SentOK, PacketOK, ToldOK
<1>11. Fits(t, d, ex)
  BY <1>1, <1>3, SMTT(30) DEF Fits, EndsAgree, ToldTruth
<1>12. Grows(s, t)
  BY <1>3 DEF Grows, Later
<1>13. Fits(d, t, ex)
  BY <1>1, <1>3, <1>12, FitsKept DEF Local
<1> QED BY <1>1, <1>3, <1>8, <1>9, <1>10, <1>11, <1>13 DEF Pair, Local

-----------------------------------------------------------------------------
(* The invariant holds at first, and every transaction keeps it.           *)

(* The invariant holds before any channel is opened.                       *)
LEMMA IBCInit == Init => IBCInv
<1> SUFFICES ASSUME Init PROVE IBCInv
  OBVIOUS
<1>1. /\ IsState(Empty) /\ DOMAIN Empty.channels = {} /\ IsMap(Empty.channels)
      /\ Empty.sent = {} /\ Empty.commitments = {} /\ Empty.receipts = {}
      /\ IsMap(Empty.acks) /\ DOMAIN Empty.acks = {}
      /\ IsMap(Empty.async) /\ DOMAIN Empty.async = {}
      /\ IsMap(Empty.told) /\ DOMAIN Empty.told = {}
      /\ Empty.applied = {} /\ Empty.connected = {} /\ Empty.emitted = {}
  BY DEF Empty, IsState, IsMap
<1>2. ChannelsOK(Empty)
  <2>1. DOMAIN Empty.channels = 0..(0 - 1)
    BY <1>1
  <2> QED BY <1>1, <2>1 DEF ChannelsOK
<1>3. \A c : SentOK(Empty, c)
  BY <1>1, FS_EmptySet DEF SentOK
<1>4. ReceivedOK(Empty, {})
  BY <1>1 DEF ReceivedOK, Owed
<1>5. Fits(Empty, Empty, {})
  BY <1>1 DEF Fits
<1>6. \A c \in Chain : chain[c] = Empty /\ chain[Other(c)] = Empty
  BY OtherFacts DEF Init
<1>7. chain = [c \in Chain |-> chain[c]] /\ expired = {}
  BY DEF Init
<1> QED BY <1>1, <1>2, <1>3, <1>4, <1>5, <1>6, <1>7 DEF IBCInv, Local

(* The versions that the handlers settle on are not empty.                 *)
LEMMA InitVersion ==
  ASSUME NEW version, NEW answer, OnChanOpenInit(version, answer).ok
  PROVE  OnChanOpenInit(version, answer).state # NoVersion
<1>1. PICK a : a = OnOpenChannel(answer)
  OBVIOUS
<1>2. CASE a # NoVersion
  <2>1. OnChanOpenInit(version, answer) = Succeeded(a)
    BY <1>1, <1>2 DEF OnChanOpenInit
  <2> QED BY <1>2, <2>1, Results
<1>3. CASE a = NoVersion /\ version # NoVersion
  <2>1. OnChanOpenInit(version, answer) = Succeeded(version)
    BY <1>1, <1>3 DEF OnChanOpenInit
  <2> QED BY <1>3, <2>1, Results
<1>4. CASE a = NoVersion /\ version = NoVersion
  <2>1. OnChanOpenInit(version, answer) = Failed
    BY <1>1, <1>4 DEF OnChanOpenInit
  <2> QED BY <2>1, Results
<1> QED BY <1>2, <1>3, <1>4

(* One lemma for each transaction.                                         *)
LEMMA InitStep ==
  ASSUME IBCInv, NEW c \in Chain, NEW ordering, NEW version, NEW answer,
         ChanOpenInit(c, ordering, version, answer)
  PROVE  IBCInv'
<1>1. PICK v : v = OnChanOpenInit(version, answer).state
  OBVIOUS
<1>2. PICK id : id = Cardinality(DOMAIN chain[c].channels)
  OBVIOUS
<1>3. PICK end : end = [state |-> "INIT", role |-> "init", ordering |-> ordering,
                        counterparty |-> None, first |-> v, version |-> v]
  OBVIOUS
<1>4. PICK t : t = Opened(chain[c], id, end, answer)
  OBVIOUS
<1>5. chain' = [chain EXCEPT ![c] = t] /\ expired' = expired
  BY <1>1, <1>2, <1>3, <1>4 DEF ChanOpenInit
<1>6. v # NoVersion
  BY <1>1, InitVersion DEF ChanOpenInit
<1>7. /\ IsEnd(end) /\ end.state = "INIT" /\ end.role = "init"
      /\ end.counterparty = None
  BY <1>3, <1>6 DEF IsEnd
<1>8. Pair(chain[c], chain[Other(c)], c, expired, {})
  BY PairHolds
<1>9. Pair(t, chain[Other(c)], c, expired, {})
  BY <1>2, <1>4, <1>7, <1>8, OpenedOK
<1> QED BY <1>5, <1>9, PairStep

(* ChanOpenTry preserves the invariant.                                    *)
LEMMA TryStep ==
  ASSUME IBCInv, NEW c \in Chain, NEW counterparty \in DOMAIN chain[Other(c)].channels,
         NEW answer, ChanOpenTry(c, counterparty, answer)
  PROVE  IBCInv'
<1>1. PICK d : d = chain[Other(c)]
  OBVIOUS
<1>2. PICK o : o = d.channels[counterparty]
  OBVIOUS
<1>3. PICK v : v = OnChanOpenTry(o.first, answer)
  OBVIOUS
<1>4. PICK id : id = Cardinality(DOMAIN chain[c].channels)
  OBVIOUS
<1>5. PICK end : end = [state |-> "TRYOPEN", role |-> "try", ordering |-> o.ordering,
                        counterparty |-> counterparty, first |-> v, version |-> v]
  OBVIOUS
<1>6. PICK t : t = Opened(chain[c], id, end, answer)
  OBVIOUS
<1>7. chain' = [chain EXCEPT ![c] = t] /\ expired' = expired /\ o.role = "init"
  BY <1>1, <1>2, <1>3, <1>4, <1>5, <1>6 DEF ChanOpenTry
<1>8. Pair(chain[c], d, c, expired, {})
  BY <1>1, PairHolds
<1>9. o.first # NoVersion
  BY <1>1, <1>2, <1>8 DEF Pair, Local, ChannelsOK, EndOK, IsEnd
<1>10. v # NoVersion
  BY <1>3, <1>9 DEF OnChanOpenTry
<1>11. /\ IsEnd(end) /\ end.state = "TRYOPEN" /\ end.role = "try"
       /\ end.counterparty = counterparty /\ end.ordering = o.ordering
  BY <1>5, <1>10 DEF IsEnd
<1>12. Pair(t, d, c, expired, {})
  BY <1>1, <1>2, <1>4, <1>6, <1>7, <1>8, <1>11, OpenedOK
<1> QED BY <1>1, <1>7, <1>12, PairStep

(* Transactions that end with the contract's message.                      *)
LEMMA DispatchStep ==
  ASSUME IBCInv, NEW c \in Chain, NEW s, NEW m \in Messages,
         Pair(s, chain[Other(c)], c, expired, {}),
         Dispatched(s, c, m).ok,
         chain' = [chain EXCEPT ![c] = Dispatched(s, c, m).state], expired' = expired
  PROVE  IBCInv'
<1>1. PICK t : t = Dispatched(s, c, m).state
  OBVIOUS
<1>2. Pair(t, chain[Other(c)], c, expired, {})
  BY <1>1, DispatchedOK
<1>3. chain' = [chain EXCEPT ![c] = t]
  BY <1>1
<1> QED BY <1>2, <1>3, PairStep

(* ChanOpenAck preserves the invariant.                                    *)
LEMMA AckStep ==
  ASSUME IBCInv, NEW c \in Chain, NEW id \in DOMAIN chain[c].channels,
         NEW counterparty \in DOMAIN chain[Other(c)].channels, NEW m \in Messages,
         ChanOpenAck(c, id, counterparty, m)
  PROVE  IBCInv'
<1>1. PICK s : s = chain[c]
  OBVIOUS
<1>2. PICK d : d = chain[Other(c)]
  OBVIOUS
<1>3. PICK end : end = d.channels[counterparty]
  OBVIOUS
<1>4. PICK u : u = [chain[c] EXCEPT !.channels[id].state = "OPEN",
                                    !.channels[id].counterparty = counterparty,
                                    !.channels[id].version =
                                      chain[Other(c)].channels[counterparty].first]
  OBVIOUS
<1>5. PICK t : t = [u EXCEPT !.connected = @ \cup {id}]
  OBVIOUS
<1>6. /\ chain[c].channels[id].state = "INIT"
      /\ chain[Other(c)].channels[counterparty].role = "try"
      /\ chain[Other(c)].channels[counterparty].counterparty = id
      /\ Connected(u, c, id, m).ok
      /\ chain' = [chain EXCEPT ![c] = Connected(u, c, id, m).state]
      /\ expired' = expired
  <2>1. Connected(u, c, id, m).ok
    BY <1>4, Zenon DEF ChanOpenAck
  <2>2. chain' = [chain EXCEPT ![c] = Connected(u, c, id, m).state]
    BY <1>4, Zenon DEF ChanOpenAck
  <2>3. /\ chain[c].channels[id].state = "INIT"
        /\ chain[Other(c)].channels[counterparty].role = "try"
        /\ chain[Other(c)].channels[counterparty].counterparty = id
        /\ expired' = expired
    BY Zenon DEF ChanOpenAck
  <2> QED BY <2>1, <2>2, <2>3
<1>7. Connected(u, c, id, m) = Dispatched(t, c, m)
  BY <1>5 DEF Connected
<1>8. Pair(s, d, c, expired, {})
  BY <1>1, <1>2, PairHolds
<1>9. Pair(t, d, c, expired, {})
  <2>1. /\ id \in DOMAIN s.channels /\ s.channels[id].state = "INIT"
        /\ counterparty \in DOMAIN d.channels
        /\ end.role = "try" /\ end.counterparty = id
    BY <1>1, <1>2, <1>3, <1>6
  <2>2. u = [s EXCEPT !.channels[id].state = "OPEN",
                      !.channels[id].counterparty = counterparty,
                      !.channels[id].version = end.first]
    BY <1>1, <1>2, <1>3, <1>4, Zenon
  <2> QED BY <1>3, <1>5, <1>8, <2>1, <2>2, AckedOK, Zenon
<1> QED BY <1>2, <1>6, <1>7, <1>9, DispatchStep

(* ChanOpenConfirm preserves the invariant.                                *)
LEMMA ConfirmStep ==
  ASSUME IBCInv, NEW c \in Chain, NEW id \in DOMAIN chain[c].channels,
         NEW m \in Messages, ChanOpenConfirm(c, id, m)
  PROVE  IBCInv'
<1>1. PICK s : s = chain[c]
  OBVIOUS
<1>2. PICK d : d = chain[Other(c)]
  OBVIOUS
<1>3. PICK u : u = [s EXCEPT !.channels[id].state = "OPEN"]
  OBVIOUS
<1>4. PICK t : t = [u EXCEPT !.connected = @ \cup {id}]
  OBVIOUS
<1>5. /\ s.channels[id].state = "TRYOPEN"
      /\ d.channels[s.channels[id].counterparty].counterparty = id
      /\ Connected(u, c, id, m).ok
      /\ chain' = [chain EXCEPT ![c] = Connected(u, c, id, m).state]
      /\ expired' = expired
  BY <1>1, <1>2, <1>3, Zenon DEF ChanOpenConfirm
<1>6. Connected(u, c, id, m) = Dispatched(t, c, m)
  BY <1>4 DEF Connected
<1>7. Pair(s, d, c, expired, {})
  BY <1>1, <1>2, PairHolds
<1>8. Pair(t, d, c, expired, {})
  BY <1>1, <1>3, <1>4, <1>5, <1>7, ConfirmedOK, Zenon
<1> QED BY <1>2, <1>5, <1>6, <1>8, DispatchStep

(* A channel is closed after the contract's message was dispatched.        *)
LEMMA CloseStep ==
  ASSUME IBCInv, NEW c \in Chain, NEW id \in DOMAIN chain[c].channels,
         NEW m \in Messages, Closed(chain[c], c, id, m).ok,
         chain' = [chain EXCEPT ![c] = Closed(chain[c], c, id, m).state],
         expired' = expired
  PROVE  IBCInv'
<1>1. PICK s : s = chain[c]
  OBVIOUS
<1>2. PICK r : r = Dispatched(s, c, m)
  OBVIOUS
<1>3. r.ok
  BY <1>1, <1>2, Results DEF Closed
<1>4. PICK t : t = [r.state EXCEPT !.channels[id].state = "CLOSED"]
  OBVIOUS
<1>5. Closed(s, c, id, m) = Succeeded(t)
  BY <1>2, <1>3, <1>4 DEF Closed
<1>6. chain' = [chain EXCEPT ![c] = t]
  BY <1>1, <1>5, Results
<1>7. PICK d : d = chain[Other(c)]
  OBVIOUS
<1>8. Pair(s, d, c, expired, {})
  BY <1>1, <1>7, PairHolds
<1>9. PICK u : u = r.state
  OBVIOUS
<1>10. Pair(u, d, c, expired, {})
  BY <1>2, <1>3, <1>8, <1>9, DispatchedOK
<1>11. u.channels = s.channels
  <2>1. IsState(s)
    BY <1>8 DEF Pair, Local
  <2>2. u = s \/ Sends(s, c, u) \/ Writes(s, u)
    BY <1>2, <1>3, <1>9, <2>1, DispatchedCases
  <2>3. CASE Sends(s, c, u)
    BY <2>1, <2>3 DEF Sends, IsState
  <2>4. CASE Writes(s, u)
    BY <2>1, <2>4 DEF Writes, IsState
  <2> QED BY <2>2, <2>3, <2>4
<1>12. t = [u EXCEPT !.channels[id].state = "CLOSED"] /\ id \in DOMAIN u.channels
  BY <1>1, <1>4, <1>9, <1>11
<1>13. Pair(t, d, c, expired, {})
  BY <1>10, <1>12, ClosedOK, Zenon
<1> QED BY <1>6, <1>7, <1>13, PairStep

(* AcknowledgePacket preserves the invariant.                              *)
LEMMA AcknowledgeStep ==
  ASSUME IBCInv, NEW c \in Chain, NEW p, NEW m \in Messages, AcknowledgePacket(c, p, m)
  PROVE  IBCInv'
<1>1. PICK s : s = chain[c]
  OBVIOUS
<1>2. PICK d : d = chain[Other(c)]
  OBVIOUS
<1>3. PICK x : x = d.acks[p]
  OBVIOUS
<1>4. PICK u : u = [s EXCEPT !.commitments = @ \ {p}]
  OBVIOUS
<1>5. PICK t : t = Told(u, p, x)
  OBVIOUS
<1>6. /\ p \in s.commitments /\ p \in DOMAIN d.acks
      /\ OnAckPacket(u, c, p, x, m).ok
      /\ chain' = [chain EXCEPT ![c] = OnAckPacket(u, c, p, x, m).state]
      /\ expired' = expired
  BY <1>1, <1>2, <1>3, <1>4 DEF AcknowledgePacket
<1>7. OnAckPacket(u, c, p, x, m) = Dispatched(t, c, m)
  BY <1>5 DEF OnAckPacket
<1>8. Pair(s, d, c, expired, {})
  BY <1>1, <1>2, PairHolds
<1>9. IsState(s)
  BY <1>8 DEF Pair, Local
<1>10. Tells(s, t, p, x)
  BY <1>4, <1>5, <1>9 DEF IsState, Told, Tells
<1>11. x \in {"result", "error"}
  BY <1>3, <1>6, <1>8 DEF Pair, Local, ReceivedOK
<1>12. Pair(t, d, c, expired, {})
  BY <1>3, <1>6, <1>8, <1>10, <1>11, TellsOK
<1> QED BY <1>2, <1>6, <1>7, <1>12, DispatchStep

(* A timeout closes an ordered channel before the contract is told.        *)
LEMMA TimeoutStep ==
  ASSUME IBCInv, NEW c \in Chain, NEW p, NEW m \in Messages, TimeoutPacket(c, p, m)
  PROVE  IBCInv'
<1>1. PICK s : s = chain[c]
  OBVIOUS
<1>2. PICK d : d = chain[Other(c)]
  OBVIOUS
<1>3. PICK id : id = p.channel
  OBVIOUS
<1>4. PICK ordered \in BOOLEAN : ordered <=> s.channels[id].ordering = "ORDERED"
  OBVIOUS
<1>5. PICK u : u = [s EXCEPT !.commitments = @ \ {p},
                             !.channels[id].state = IF ordered THEN "CLOSED" ELSE @]
  OBVIOUS
<1>6. PICK t : t = Told(u, p, "timeout")
  OBVIOUS
<1>7. /\ p \in s.commitments /\ p \notin d.receipts
      /\ p \in expired \/ d.channels[p.dest].state = "CLOSED"
      /\ OnTimeoutPacket(u, c, p, m).ok
      /\ chain' = [chain EXCEPT ![c] = OnTimeoutPacket(u, c, p, m).state]
      /\ expired' = expired
  BY <1>1, <1>2, <1>3, <1>4, <1>5 DEF TimeoutPacket
<1>8. OnTimeoutPacket(u, c, p, m) = Dispatched(t, c, m)
  BY <1>6 DEF OnTimeoutPacket
<1>9. Pair(s, d, c, expired, {})
  BY <1>1, <1>2, PairHolds
<1>10. /\ IsState(s) /\ id \in DOMAIN s.channels /\ IsMap(s.channels)
       /\ IsEnd(s.channels[id])
  <2>1. IsState(s) /\ ChannelsOK(s) /\ SentOK(s, c)
    BY <1>9 DEF Pair, Local
  <2>2. PacketOK(s, c, p)
    BY <1>7, <2>1 DEF SentOK
  <2> QED BY <1>3, <2>1, <2>2 DEF PacketOK, ChannelsOK, EndOK
<1>11. PICK v : v = IF ordered THEN [s EXCEPT !.channels[id].state = "CLOSED"] ELSE s
  OBVIOUS
<1>12. Pair(v, d, c, expired, {}) /\ v.commitments = s.commitments
  <2>1. CASE ordered
    <3>1. v = [s EXCEPT !.channels[id].state = "CLOSED"]
      BY <1>11, <2>1
    <3>2. Pair(v, d, c, expired, {})
      BY <1>9, <1>10, <3>1, ClosedOK, Zenon
    <3> QED BY <1>10, <3>1, <3>2 DEF IsState
  <2>2. CASE ~ordered
    BY <1>9, <1>11, <2>2
  <2> QED BY <2>1, <2>2
<1>13. u = [v EXCEPT !.commitments = @ \ {p}] /\ IsState(v)
  <2>1. CASE ordered
    BY <1>5, <1>10, <1>11, <2>1 DEF IsState
  <2>2. CASE ~ordered
    <3>1. PICK e : e = s.channels[id]
      OBVIOUS
    <3>2. [e EXCEPT !.state = @] = e
      BY <1>10, <3>1 DEF IsEnd
    <3>3. [s.channels EXCEPT ![id] = e] = s.channels
      BY <1>10, <3>1 DEF IsMap
    <3>4. [s.channels EXCEPT ![id].state = @] = s.channels
      BY <3>1, <3>2, <3>3
    <3>5. u = [s EXCEPT !.commitments = @ \ {p}, !.channels = s.channels]
      BY <1>5, <1>10, <2>2, <3>4 DEF IsState
    <3>6. u = [s EXCEPT !.commitments = @ \ {p}]
      BY <1>10, <3>5 DEF IsState
    <3> QED BY <1>10, <1>11, <2>2, <3>6
  <2> QED BY <2>1, <2>2
<1>14. Tells(v, t, p, "timeout")
  BY <1>6, <1>13 DEF IsState, Told, Tells
<1>15. Pair(t, d, c, expired, {})
  BY <1>7, <1>12, <1>14, TellsOK
<1> QED BY <1>2, <1>7, <1>8, <1>15, DispatchStep

(* An acknowledgement is written by the core.                              *)
LEMMA CoreWrites ==
  ASSUME NEW s, NEW p, NEW ack, CoreWriteAcknowledgement(s, p, ack).ok
  PROVE  /\ ack # "empty"
         /\ CoreWriteAcknowledgement(s, p, ack).state = [s EXCEPT !.acks = Put(@, p, ack)]
<1>1. ~(~IsOpen(s, p.dest) \/ p \in DOMAIN s.acks \/ ack = "empty")
  BY Results DEF CoreWriteAcknowledgement
<1>2. CoreWriteAcknowledgement(s, p, ack) = Succeeded([s EXCEPT !.acks = Put(@, p, ack)])
  BY <1>1 DEF CoreWriteAcknowledgement
<1> QED BY <1>1, <1>2, Results

(* A packet is received: the contract is called in a context of its own,   *)
(* which is kept unless the acknowledgement is an error.                   *)
LEMMA ReceiveStep ==
  ASSUME IBCInv, NEW c \in Chain, NEW p \in chain[Other(c)].sent,
         NEW answer \in Received, RecvPacket(c, p, answer)
  PROVE  IBCInv'
<1>1. PICK s0 : s0 = chain[c]
  OBVIOUS
<1>2. PICK d : d = chain[Other(c)]
  OBVIOUS
<1>3. PICK s : s = [s0 EXCEPT !.receipts = @ \cup {p}]
  OBVIOUS
<1>4. PICK callback : callback = OnRecvPacket(s, c, p, answer)
  OBVIOUS
<1>5. PICK kept : kept = IF callback.ack = "error" THEN s ELSE callback.state
  OBVIOUS
<1>6. PICK r : r = IF callback.ack = None THEN Succeeded(kept)
                   ELSE CoreWriteAcknowledgement(kept, p, callback.ack)
  OBVIOUS
<1>7. /\ IsOpen(s, p.dest) /\ s.channels[p.dest].counterparty = p.channel
      /\ p \notin expired /\ p \notin s0.receipts /\ r.ok
      /\ chain' = [chain EXCEPT ![c] = r.state] /\ expired' = expired
  <2>1. /\ r.ok /\ chain' = [chain EXCEPT ![c] = r.state]
        /\ p \notin expired /\ p \notin chain[c].receipts /\ expired' = expired
    BY <1>1, <1>3, <1>4, <1>5, <1>6 DEF RecvPacket
  <2>2. IsOpen(s, p.dest) /\ s.channels[p.dest].counterparty = p.channel
    BY <1>1, <1>3 DEF RecvPacket
  <2> QED BY <1>1, <2>1, <2>2
<1>8. Pair(s0, d, c, expired, {}) /\ IsState(s0)
  BY <1>1, <1>2, PairHolds DEF Pair, Local
<1>9. /\ Receives(s0, s, p) /\ s.channels = s0.channels /\ IsState(s)
      /\ s.acks = s0.acks /\ s.emitted = s0.emitted /\ s.applied = s0.applied
  BY <1>3, <1>8 DEF IsState, Receives
<1>10. MayReceive(s0, d, expired, p)
  BY <1>2, <1>7, <1>9 DEF MayReceive, IsOpen
<1>11. PICK called : called = [s EXCEPT !.applied = @ \cup {p}]
  OBVIOUS
<1>12. /\ Receives(s0, called, p) /\ called.acks = s0.acks
       /\ called.emitted = s0.emitted /\ called.applied = s0.applied \cup {p}
  BY <1>9, <1>11 DEF IsState, Receives
<1>13. Pair(called, d, c, expired, {p})
  BY <1>8, <1>10, <1>12, CalledOK
<1>14. PICK q : q = Dispatched(called, c, answer.message)
  OBVIOUS
<1>15. \/ answer.type = "err"
       \/ /\ answer.type = "ok" /\ answer.message \in Messages
          /\ answer.data \in {None, "empty", "result"}
  BY DEF Received
<1>16. None # "error" /\ None # "empty" /\ None # "result"
  BY IBCAssumption
<1>17. CASE answer.type = "err" \/ ~q.ok
  <2>1. callback = [ack |-> "error", state |-> called]
    BY <1>4, <1>11, <1>14, <1>15, <1>17 DEF OnRecvPacket
  <2>2. callback.ack = "error" /\ kept = s
    BY <1>5, <2>1
  <2>3. r = CoreWriteAcknowledgement(s, p, "error")
    BY <1>6, <1>16, <2>2
  <2>4. r.state = [s EXCEPT !.acks = Put(@, p, "error")]
    BY <1>7, <2>3, CoreWrites
  <2>5. PICK t : t = r.state
    OBVIOUS
  <2>6. /\ Receives(s0, t, p) /\ t.acks = Put(s0.acks, p, "error")
        /\ t.emitted = s0.emitted /\ t.applied = s0.applied
    BY <1>9, <2>4, <2>5 DEF IsState, Receives
  <2>7. Pair(t, d, c, expired, {})
    BY <1>8, <1>10, <2>6, RefusedOK
  <2> QED BY <1>2, <1>7, <2>5, <2>7, PairStep
<1>18. CASE answer.type = "ok" /\ q.ok
  <2>1. answer.message \in Messages /\ answer.data \in {None, "empty", "result"}
    BY <1>15, <1>18
  <2>2. PICK u : u = q.state
    OBVIOUS
  <2>3. Pair(u, d, c, expired, {p}) /\ IsState(u)
    BY <1>13, <1>14, <1>18, <2>1, <2>2, DispatchedOK DEF Pair, Local
  <2>4. CASE answer.data = None
    <3>1. PICK t : t = [StoreAsyncAckPacket(u, p) EXCEPT !.emitted = @ \cup {p}]
      OBVIOUS
    <3>2. callback = [ack |-> None, state |-> t]
      BY <1>4, <1>11, <1>14, <1>18, <2>2, <2>4, <3>1 DEF OnRecvPacket
    <3>3. callback.ack = None /\ callback.state = t
      BY <3>2
    <3>4. r = Succeeded(t)
      BY <1>5, <1>6, <1>16, <3>3
    <3>5. Stored(u, t, p)
      BY <2>3, <3>1 DEF IsState, Stored, StoreAsyncAckPacket, GetAsyncPacketKey
    <3>6. Pair(t, d, c, expired, {})
      BY <2>3, <3>5, StoredOK
    <3> QED BY <1>2, <1>7, <3>4, <3>6, Results, PairStep
  <2>5. CASE answer.data # None
    <3>1. PICK v : v = [u EXCEPT !.emitted = @ \cup {p}]
      OBVIOUS
    <3>2. callback = [ack |-> answer.data, state |-> v]
      BY <1>4, <1>11, <1>14, <1>18, <2>2, <2>5, <3>1 DEF OnRecvPacket
    <3>3. callback.ack = answer.data /\ callback.state = v
      BY <3>2
    <3>4. r = CoreWriteAcknowledgement(v, p, answer.data)
      BY <1>5, <1>6, <2>1, <2>5, <3>3
    <3>5. answer.data = "result"
      BY <1>7, <2>1, <2>5, <3>4, CoreWrites
    <3>6. PICK t : t = r.state
      OBVIOUS
    <3>7. t = [v EXCEPT !.acks = Put(@, p, "result")]
      BY <1>7, <3>4, <3>5, <3>6, CoreWrites
    <3>8. Answered(u, t, p)
      BY <2>3, <3>1, <3>7 DEF IsState, Answered
    <3>9. Pair(t, d, c, expired, {})
      BY <2>3, <3>8, AnsweredOK
    <3> QED BY <1>2, <1>7, <3>6, <3>9, PairStep
  <2> QED BY <2>4, <2>5
<1> QED BY <1>15, <1>17, <1>18

(* What a sender was told is still true when more packets have expired.    *)
LEMMA ExpireStep ==
  ASSUME IBCInv, NEW p, Expire(p)
  PROVE  IBCInv'
<1>1. chain' = chain /\ expired \subseteq expired'
  BY DEF Expire
<1>2. \A s, d : Fits(s, d, expired) => Fits(s, d, expired')
  BY <1>1 DEF Fits, ToldTruth
<1> QED BY <1>1, <1>2 DEF IBCInv

(* Every transaction keeps the invariant.                                  *)
LEMMA IBCNext == IBCInv /\ [Next]_vars => IBCInv'
<1> SUFFICES ASSUME IBCInv, [Next]_vars PROVE IBCInv'
  OBVIOUS
<1>1. CASE UNCHANGED vars
  BY <1>1 DEF vars, IBCInv
<1>2. ASSUME NEW c \in Chain, Handshake(c)
      PROVE  IBCInv'
  <2>1. CASE \E ordering \in Ordering, version \in Version \cup {NoVersion},
                answer \in Answers(c) : ChanOpenInit(c, ordering, version, answer)
    BY <2>1, InitStep
  <2>2. CASE \E counterparty \in DOMAIN chain[Other(c)].channels, answer \in Answers(c) :
               ChanOpenTry(c, counterparty, answer)
    BY <2>2, TryStep
  <2>3. ASSUME NEW id \in DOMAIN chain[c].channels, NEW m \in Messages,
               NEW counterparty \in DOMAIN chain[Other(c)].channels,
               ChanOpenAck(c, id, counterparty, m)
        PROVE  IBCInv'
    BY <2>3, AckStep
  <2>4. ASSUME NEW id \in DOMAIN chain[c].channels, NEW m \in Messages,
               ChanOpenConfirm(c, id, m)
        PROVE  IBCInv'
    BY <2>4, ConfirmStep
  <2>5. ASSUME NEW id \in DOMAIN chain[c].channels, NEW m \in Messages,
               ChanCloseInit(c, id, m) \/ ChanCloseConfirm(c, id, m)
        PROVE  IBCInv'
    <3>1. CASE ChanCloseInit(c, id, m)
      BY <3>1, CloseStep DEF ChanCloseInit
    <3>2. CASE ChanCloseConfirm(c, id, m)
      BY <3>2, CloseStep DEF ChanCloseConfirm
    <3> QED BY <2>5, <3>1, <3>2
  <2> QED BY <1>2, <2>1, <2>2, <2>3, <2>4, <2>5 DEF Handshake
<1>3. ASSUME NEW c \in Chain, Packets(c)
      PROVE  IBCInv'
  <2>1. ASSUME NEW m \in Messages, Execute(c, m)
        PROVE  IBCInv'
    <3>1. /\ Dispatched(chain[c], c, m).ok /\ expired' = expired
          /\ chain' = [chain EXCEPT ![c] = Dispatched(chain[c], c, m).state]
      BY <2>1 DEF Execute
    <3> QED BY <3>1, PairHolds, DispatchStep
  <2>2. CASE \E p \in chain[c].sent : Expire(p)
    BY <2>2, ExpireStep
  <2>3. CASE \E p \in chain[Other(c)].sent, answer \in Received : RecvPacket(c, p, answer)
    BY <2>3, ReceiveStep
  <2>4. CASE \E p \in chain[c].sent, m \in Messages :
               AcknowledgePacket(c, p, m) \/ TimeoutPacket(c, p, m)
    BY <2>4, AcknowledgeStep, TimeoutStep
  <2> QED BY <1>3, <2>1, <2>2, <2>3, <2>4 DEF Packets
<1> QED BY <1>1, <1>2, <1>3 DEF Next

-----------------------------------------------------------------------------
(* The invariant holds for any two chains and whatever relayers submit.    *)
THEOREM IBCInvariance == Spec => []IBCInv
<1>1. Init => IBCInv
  BY IBCInit
<1>2. IBCInv /\ [Next]_vars => IBCInv'
  BY IBCNext
<1> QED BY <1>1, <1>2, PTL DEF Spec

(* Connected ends agree on ordering and version, which is not empty, and   *)
(* the contracts hear of a channel before any packet passes through it.    *)
THEOREM HandshakeCorrect == Spec => []HandshakeAgrees
<1>1. IBCInv => HandshakeAgrees
  <2> SUFFICES ASSUME IBCInv, NEW c \in Chain, NEW id \in DOMAIN chain[c].channels,
                      NEW end, end = chain[c].channels[id],
                      NEW other, other = chain[Other(c)].channels[end.counterparty]
               PROVE  /\ end.version # NoVersion
                      /\ id \in chain[c].connected =>
                           end.version = other.version /\ end.ordering = other.ordering
                      /\ \A p \in chain[c].sent \cup chain[c].receipts :
                           (IF p.src = c THEN p.channel ELSE p.dest) = id =>
                             id \in chain[c].connected
    BY DEF HandshakeAgrees
  <2>1. PICK s : s = chain[c]
    OBVIOUS
  <2>2. PICK d : d = chain[Other(c)]
    OBVIOUS
  <2>3. Pair(s, d, c, expired, {})
    BY <2>1, <2>2, PairHolds
  <2>4. /\ ChannelsOK(s) /\ SentOK(s, c) /\ ReceivedOK(s, {}) /\ Fits(s, d, expired)
        /\ ChannelsOK(d) /\ SentOK(d, Other(c)) /\ Fits(d, s, expired)
    BY <2>3 DEF Pair, Local
  <2>5. EndOK(s, id) /\ IsEnd(end) /\ EndsAgree(s, d, id)
    BY <2>1, <2>4 DEF ChannelsOK, EndOK, Fits
  <2>6. ASSUME id \in s.connected
        PROVE  end.version = other.version /\ end.ordering = other.ordering
    <3>1. end.counterparty \in DOMAIN d.channels
      BY <2>1, <2>4, <2>6, Known
    <3>2. end.counterparty # None
      BY <2>4, <3>1, IBCAssumption DEF ChannelsOK
    <3>3. IsEnd(other) /\ EndsAgree(d, s, end.counterparty)
      BY <2>2, <2>4, <3>1 DEF ChannelsOK, EndOK, Fits
    <3>4. other.role # end.role /\ other.ordering = end.ordering /\ other.counterparty = id
      BY <2>1, <2>2, <2>5, <2>6, <3>2 DEF EndsAgree, IsEnd
    <3>5. id # None
      BY <2>1, <2>4, IBCAssumption DEF ChannelsOK
    <3>6. CASE end.role = "init"
      BY <2>1, <2>2, <2>5, <3>2, <3>3, <3>4, <3>6 DEF EndsAgree, IsEnd
    <3>7. CASE end.role = "try"
      <4>1. other.role = "init"
        BY <3>3, <3>4, <3>7 DEF IsEnd
      <4>2. other.version = end.first
        BY <2>1, <2>2, <3>3, <3>4, <3>5, <4>1 DEF EndsAgree
      <4> QED BY <2>5, <3>4, <3>7, <4>2 DEF IsEnd
    <3> QED BY <2>5, <3>6, <3>7 DEF IsEnd
  <2>7. ASSUME NEW p \in s.sent \cup s.receipts, (IF p.src = c THEN p.channel ELSE p.dest) = id
        PROVE  id \in s.connected
    <3>1. CASE p \in s.sent
      BY <2>4, <2>7, <3>1 DEF SentOK, PacketOK
    <3>2. CASE p \in s.receipts
      <4>1. p \in d.sent
        BY <2>4, <3>2 DEF Fits
      <4>2. p.src = Other(c)
        BY <2>4, <4>1 DEF SentOK, PacketOK
      <4>3. p.src # c
        BY <4>2, OtherFacts
      <4> QED BY <2>4, <2>7, <3>2, <4>3 DEF ReceivedOK
    <3> QED BY <3>1, <3>2
  <2>8. end.version # NoVersion
    BY <2>5 DEF IsEnd
  <2> QED BY <2>1, <2>6, <2>7, <2>8
<1> QED BY <1>1, IBCInvariance, PTL

(* What a chain keeps of a packet is what its acknowledgement says, and a  *)
(* packet that is owed one can be found under its key.                     *)
THEOREM EffectsCorrect == Spec => []EffectMatchesAck
<1>1. IBCInv => EffectMatchesAck
  <2> SUFFICES ASSUME IBCInv, NEW c \in Chain, NEW s, s = chain[c]
               PROVE  /\ s.applied = (s.receipts \ DOMAIN s.acks)
                                       \cup {p \in DOMAIN s.acks : s.acks[p] = "result"}
                      /\ s.emitted = s.applied
                      /\ {s.async[k] : k \in DOMAIN s.async} = s.receipts \ DOMAIN s.acks
                      /\ \A k \in DOMAIN s.async : k = <<s.async[k].dest, s.async[k].seq>>
    BY DEF EffectMatchesAck
  <2>1. ReceivedOK(s, {})
    BY DEF IBCInv, Local
  <2>2. \A x : x \ {} = x
    OBVIOUS
  <2> QED BY <2>1, <2>2 DEF ReceivedOK, Owed
<1> QED BY <1>1, IBCInvariance, PTL

(* The sender of a packet hears once how it ended, and the truth.          *)
THEOREM SenderCorrect == Spec => []SenderToldOnce
<1>1. IBCInv => SenderToldOnce
  <2> SUFFICES ASSUME IBCInv, NEW c \in Chain, NEW p \in chain[c].sent,
                      NEW s, s = chain[c], NEW d, d = chain[Other(c)]
               PROVE  IF p \in s.commitments THEN p \notin DOMAIN s.told
                      ELSE /\ p \in DOMAIN s.told /\ Len(s.told[p]) = 1
                           /\ IF s.told[p][1] = "timeout" THEN p \notin d.receipts
                              ELSE p \in DOMAIN d.acks /\ s.told[p][1] = d.acks[p]
    BY DEF SenderToldOnce
  <2>1. ToldOK(s, p) /\ Fits(s, d, expired)
    BY DEF IBCInv, Local, SentOK
  <2>2. CASE p \in s.commitments
    BY <2>1, <2>2 DEF ToldOK
  <2>3. CASE p \notin s.commitments
    <3>1. PICK x \in {"timeout", "result", "error"} : s.told[p] = <<x>>
      BY <2>1, <2>3 DEF ToldOK
    <3>2. p \in DOMAIN s.told /\ ToldTruth(s, d, expired, p)
      BY <2>1, <2>3 DEF ToldOK, Fits
    <3>3. Len(<<x>>) = 1 /\ <<x>>[1] = x
      OBVIOUS
    <3>4. \A y : <<x>> = <<y>> <=> x = y
      OBVIOUS
    <3> QED BY <2>3, <3>1, <3>2, <3>3, <3>4 DEF ToldTruth
  <2> QED BY <2>2, <2>3
<1> QED BY <1>1, IBCInvariance, PTL
==============================================================================
