------------------------------- MODULE WasmIBC -------------------------------
(***************************************************************************)
(* Two chains that run x/wasm, a contract with an IBC port on each, and    *)
(* what passes between the contracts: the channel handshake, packets and   *)
(* their acknowledgements, at once or later, and timeouts.                 *)
(*                                                                         *)
(* A step is a transaction.  A relayer submits the messages of the core,   *)
(* in any order, more than once or never; its proofs may show the other    *)
(* chain as it was before.  The core of IBC (ibc-go) is modelled from how  *)
(* this module uses it: it keeps channel ends, packet commitments,         *)
(* receipts and acknowledgements, and calls the module in between.  A      *)
(* transaction that fails changes nothing and can be submitted again, so   *)
(* that there is no step for it.                                           *)
(*                                                                         *)
(* What the contract does is its own business: it answers each call with   *)
(* an error or with a message, which may be refused.                       *)
(***************************************************************************)
EXTENDS Integers, Sequences, FiniteSets

CONSTANTS
  Chain,               \* the two chains
  Version,             \* the versions that channels are proposed with
  NoVersion,           \* the empty version
  Ordering,            \* the orderings that channels are proposed with
  None,                \* no acknowledgement data; no counterparty channel yet
  MaxChannelSequence,  \* math.MaxUint32
  MaxChannels,         \* bound: channel ends of a chain
  MaxPackets,          \* bound: packets sent by a chain
  Opener,              \* bound: the chains on which channels are proposed
  Sender,              \* bound: the chains whose contract sends packets
  Refuser              \* bound: the chains whose contract refuses channels

ASSUME IBCAssumption ==
  /\ \E c, d \in Chain : c # d /\ Chain = {c, d}
  /\ NoVersion \notin Version /\ None \notin Nat \cup {"error", "empty", "result"}
  /\ Ordering \subseteq {"ORDERED", "UNORDERED"}
  /\ Opener \subseteq Chain /\ Sender \subseteq Chain /\ Refuser \subseteq Chain
  /\ MaxChannelSequence \in Nat /\ MaxChannels \in Nat /\ MaxPackets \in Nat

VARIABLES
  chain,    \* the state of each chain
  expired   \* the packets whose timeout has passed on the chain they are for

vars == <<chain, expired>>

Other(c) == CHOOSE d \in Chain : d # c

Put(f, x, v) == [y \in DOMAIN f \cup {x} |-> IF y = x THEN v ELSE f[y]]

Without(f, x) == [y \in DOMAIN f \ {x} |-> f[y]]

-----------------------------------------------------------------------------
(* The core of IBC, as the module uses it.                                 *)

NewPacket(s, c, id) ==
  [src |-> c, channel |-> id, dest |-> s.channels[id].counterparty,
   seq |-> Cardinality({p \in s.sent : p.channel = id}) + 1]

Failed == [ok |-> FALSE]
Succeeded(s) == [ok |-> TRUE, state |-> s]

IsOpen(s, id) == id \in DOMAIN s.channels /\ s.channels[id].state = "OPEN"

CoreSendPacket(s, c, id) ==
  IF ~IsOpen(s, id) THEN Failed
  ELSE LET p == NewPacket(s, c, id)
       IN  Succeeded([s EXCEPT !.sent = @ \cup {p}, !.commitments = @ \cup {p}])

CoreWriteAcknowledgement(s, p, ack) ==
  IF ~IsOpen(s, p.dest) \/ p \in DOMAIN s.acks \/ ack = "empty" THEN Failed
  ELSE Succeeded([s EXCEPT !.acks = Put(@, p, ack)])

-----------------------------------------------------------------------------
(* Packets whose acknowledgement is still to be written.                   *)

GetAsyncPacketKey(channel, sequence) == <<channel, sequence>>

StoreAsyncAckPacket(s, p) ==
  [s EXCEPT !.async = Put(@, GetAsyncPacketKey(p.dest, p.seq), p)]

(* Mutant: the packet is kept. *)
DeleteNothing(s, channel, sequence) == s

DeleteAsyncAckPacket(s, channel, sequence) ==
  [s EXCEPT !.async = Without(@, GetAsyncPacketKey(channel, sequence))]

-----------------------------------------------------------------------------
(* The messages of a contract.                                             *)

SendPacket(s, c, channel) ==
  IF channel \notin s.caps THEN Failed ELSE CoreSendPacket(s, c, channel)

WriteAcknowledgement(s, channel, sequence, data) ==
  LET key     == GetAsyncPacketKey(channel, sequence)
      written == CoreWriteAcknowledgement(s, s.async[key], data)
  IN  IF channel \notin s.caps \/ key \notin DOMAIN s.async THEN Failed
      ELSE IF ~written.ok THEN Failed
      ELSE Succeeded(DeleteAsyncAckPacket(written.state, channel, sequence))

Channels == 0..(MaxChannels - 1)

Messages ==
  {[type |-> "none"]}
  \cup [type : {"SendPacket"}, channel : Channels]
  \cup [type : {"WriteAcknowledgement"}, channel : Channels, sequence : 1..MaxPackets,
        data : {"result", "empty"}]

(* The response of a contract is handled: its message is dispatched. *)
Dispatched(s, c, m) ==
  CASE m.type = "none" -> Succeeded(s)
    [] m.type = "SendPacket" -> SendPacket(s, c, m.channel)
    [] m.type = "WriteAcknowledgement" -> WriteAcknowledgement(s, m.channel, m.sequence, m.data)

(* Bound: the packets that a chain sends. *)
Bounded(s) ==
  /\ Cardinality(s.sent) <= MaxPackets
  /\ \A p \in s.sent : p.src \in Sender

-----------------------------------------------------------------------------
(* The channel handshake.  A channel end keeps the version it was first    *)
(* given, of which a relayer can have a proof later on.                    *)

ValidateChannelParams(id) == id <= MaxChannelSequence

(* The answers of a contract to a channel that opens: a version, which may *)
(* be empty, or a refusal.  An error of the VM fails the transaction.      *)
Answers(c) ==
  [type : {"accept"}, version : Version \cup {NoVersion}]
  \cup {[type |-> r] : r \in IF c \in Refuser THEN {"refuse"} ELSE {}}

(* The version that the keeper reports, NoVersion for none.                *)
OnOpenChannel(answer) == IF answer.type = "accept" THEN answer.version ELSE NoVersion

OnChanOpenInit(version, answer) ==
  LET accepted == OnOpenChannel(answer)
  IN  CASE accepted # NoVersion -> Succeeded(accepted)
        [] accepted = NoVersion /\ version # NoVersion -> Succeeded(version)
        [] OTHER -> Failed

OnChanOpenTry(counterpartyVersion, answer) ==
  LET accepted == OnOpenChannel(answer)
  IN  IF accepted # NoVersion THEN accepted ELSE counterpartyVersion

(* The core makes a channel end and a capability, which the module claims. *)
Opened(s, id, end, answer) ==
  [s EXCEPT !.channels = Put(@, id, end),
            !.caps = @ \cup {id},
            !.refused = IF answer.type = "refuse" THEN @ \cup {id} ELSE @]

ChanOpenInit(c, ordering, version, answer) ==
  LET s  == chain[c]
      id == Cardinality(DOMAIN s.channels)
      r  == OnChanOpenInit(version, answer)
  IN  /\ c \in Opener /\ id < MaxChannels
      /\ ValidateChannelParams(id)
      /\ r.ok
      /\ chain' = [chain EXCEPT ![c] =
           Opened(s, id, [state |-> "INIT", role |-> "init", ordering |-> ordering,
                          counterparty |-> None, first |-> r.state, version |-> r.state],
                  answer)]
      /\ UNCHANGED expired

ChanOpenTry(c, counterparty, answer) ==
  LET s   == chain[c]
      id  == Cardinality(DOMAIN s.channels)
      end == chain[Other(c)].channels[counterparty]
      v   == OnChanOpenTry(end.first, answer)
  IN  /\ id < MaxChannels
      /\ end.role = "init"   \* proof of INIT
      /\ ValidateChannelParams(id)
      /\ chain' = [chain EXCEPT ![c] =
           Opened(s, id, [state |-> "TRYOPEN", role |-> "try", ordering |-> end.ordering,
                          counterparty |-> counterparty, first |-> v, version |-> v],
                  answer)]
      /\ UNCHANGED expired

(* OnConnectChannel: an error of the contract fails the transaction. *)
Connected(s, c, id, m) ==
  Dispatched([s EXCEPT !.connected = @ \cup {id}], c, m)

(* Mutant: the version that the other end answered is not taken over. *)
ChanOpenAckOwnVersion(c, id, counterparty, m) ==
  LET s   == chain[c]
      end == chain[Other(c)].channels[counterparty]
      r   == Connected([s EXCEPT !.channels[id].state = "OPEN",
                                 !.channels[id].counterparty = counterparty], c, id, m)
  IN  /\ s.channels[id].state = "INIT"
      /\ end.role = "try" /\ end.counterparty = id
      /\ r.ok /\ Bounded(r.state)
      /\ chain' = [chain EXCEPT ![c] = r.state]
      /\ UNCHANGED expired

ChanOpenAck(c, id, counterparty, m) ==
  LET s   == chain[c]
      end == chain[Other(c)].channels[counterparty]
      r   == Connected([s EXCEPT !.channels[id].state = "OPEN",
                                 !.channels[id].counterparty = counterparty,
                                 !.channels[id].version = end.first], c, id, m)
  IN  /\ s.channels[id].state = "INIT"
      /\ end.role = "try" /\ end.counterparty = id   \* proof of TRYOPEN
      /\ r.ok /\ Bounded(r.state)
      /\ chain' = [chain EXCEPT ![c] = r.state]
      /\ UNCHANGED expired

ChanOpenConfirm(c, id, m) ==
  LET s   == chain[c]
      end == chain[Other(c)].channels[s.channels[id].counterparty]
      r   == Connected([s EXCEPT !.channels[id].state = "OPEN"], c, id, m)
  IN  /\ s.channels[id].state = "TRYOPEN"
      /\ end.counterparty = id   \* proof of OPEN
      /\ r.ok /\ Bounded(r.state)
      /\ chain' = [chain EXCEPT ![c] = r.state]
      /\ UNCHANGED expired

(* OnCloseChannel, in whose response the channel still has its state. *)
Closed(s, c, id, m) ==
  LET r == Dispatched(s, c, m)
  IN  IF r.ok THEN Succeeded([r.state EXCEPT !.channels[id].state = "CLOSED"]) ELSE Failed

ChanCloseInit(c, id, m) ==
  LET r == Closed(chain[c], c, id, m)
  IN  /\ chain[c].channels[id].state # "CLOSED"
      /\ r.ok /\ Bounded(r.state)
      /\ chain' = [chain EXCEPT ![c] = r.state]
      /\ UNCHANGED expired

ChanCloseConfirm(c, id, m) ==
  LET s == chain[c]
      r == Closed(s, c, id, m)
  IN  /\ s.channels[id].state # "CLOSED" /\ s.channels[id].counterparty # None
      /\ LET end == chain[Other(c)].channels[s.channels[id].counterparty]
         IN  end.state = "CLOSED" /\ end.counterparty = id   \* proof of CLOSED
      /\ r.ok /\ Bounded(r.state)
      /\ chain' = [chain EXCEPT ![c] = r.state]
      /\ UNCHANGED expired

-----------------------------------------------------------------------------
(* Packets.                                                                *)

(* A user calls the contract, which answers with a message. *)
Execute(c, m) ==
  LET r == Dispatched(chain[c], c, m)
  IN  /\ r.ok /\ Bounded(r.state)
      /\ chain' = [chain EXCEPT ![c] = r.state]
      /\ UNCHANGED expired

(* Time passes on the chain that the packet is for.  It no longer matters  *)
(* for a packet that was received or has timed out.                        *)
Expire(p) ==
  /\ p \in chain[p.src].commitments
  /\ p \notin chain[Other(p.src)].receipts
  /\ expired' = expired \cup {p}
  /\ UNCHANGED chain

(* The answers of a contract to a packet: an error, or a message and the   *)
(* acknowledgement.  An error of the VM is a panic.                        *)
Received == [type : {"ok"}, message : Messages, data : {None, "empty", "result"}]
            \cup {[type |-> "err"]}

(* Keeper.OnRecvPacket and the handler's: the acknowledgement, None for    *)
(* one that is not written yet, and the state of the chain when the        *)
(* callback's context is committed.                                        *)
OnRecvPacket(s, c, p, answer) ==
  LET called == [s EXCEPT !.applied = @ \cup {p}]
      r      == Dispatched(called, c, answer.message)
  IN  CASE answer.type = "err" -> [ack |-> "error", state |-> called]
        [] answer.type = "ok" /\ ~r.ok -> [ack |-> "error", state |-> called]
        [] answer.type = "ok" /\ r.ok /\ answer.data = None ->
             [ack |-> None, state |-> [StoreAsyncAckPacket(r.state, p) EXCEPT !.emitted = @ \cup {p}]]
        [] OTHER -> [ack |-> answer.data, state |-> [r.state EXCEPT !.emitted = @ \cup {p}]]

(* The core commits what the callback did unless the acknowledgement is an *)
(* error, and writes the acknowledgement if there is one.                  *)
RecvPacket(c, p, answer) ==
  LET s        == [chain[c] EXCEPT !.receipts = @ \cup {p}]
      end      == s.channels[p.dest]
      callback == OnRecvPacket(s, c, p, answer)
      kept     == IF callback.ack = "error" THEN s ELSE callback.state
      r        == IF callback.ack = None THEN Succeeded(kept)
                  ELSE CoreWriteAcknowledgement(kept, p, callback.ack)
  IN  /\ IsOpen(s, p.dest)
      /\ end.counterparty = p.channel
      /\ p \notin expired
      /\ p \notin chain[c].receipts
      /\ end.ordering = "ORDERED" =>
           p.seq = Cardinality({q \in chain[c].receipts : q.dest = p.dest}) + 1
      /\ r.ok /\ Bounded(r.state)
      /\ chain' = [chain EXCEPT ![c] = r.state]
      /\ UNCHANGED expired

(* The contract hears how its packet ended. *)
Told(s, p, end) == [s EXCEPT !.told = Put(@, p, Append(IF p \in DOMAIN @ THEN @[p] ELSE <<>>, end))]

(* Mutant: an error is logged and not returned. *)
OnAckPacketQuiet(s, c, p, ack, m) ==
  LET r == Dispatched(Told(s, p, ack), c, m)
  IN  IF r.ok THEN r ELSE Succeeded(s)

(* OnAckPacket and OnTimeoutPacket: an error fails the transaction. *)
OnAckPacket(s, c, p, ack, m) == Dispatched(Told(s, p, ack), c, m)

OnTimeoutPacket(s, c, p, m) == Dispatched(Told(s, p, "timeout"), c, m)

AcknowledgePacket(c, p, m) ==
  LET s == chain[c]
      r == OnAckPacket([s EXCEPT !.commitments = @ \ {p}], c, p, chain[Other(c)].acks[p], m)
  IN  /\ p \in s.commitments
      /\ IsOpen(s, p.channel)
      /\ p \in DOMAIN chain[Other(c)].acks
      /\ s.channels[p.channel].ordering = "ORDERED" =>
           \A q \in s.commitments : q.channel = p.channel => p.seq <= q.seq
      /\ r.ok /\ Bounded(r.state)
      /\ chain' = [chain EXCEPT ![c] = r.state]
      /\ UNCHANGED expired

(* Also MsgTimeoutOnClose.  A timeout closes an ordered channel. *)
TimeoutPacket(c, p, m) ==
  LET s    == chain[c]
      d    == chain[Other(c)]
      done == [s EXCEPT !.commitments = @ \ {p},
                        !.channels[p.channel].state =
                          IF s.channels[p.channel].ordering = "ORDERED" THEN "CLOSED" ELSE @]
      r    == OnTimeoutPacket(done, c, p, m)
  IN  /\ p \in s.commitments
      /\ p \in expired \/ d.channels[p.dest].state = "CLOSED"
      /\ p \notin d.receipts
      /\ r.ok /\ Bounded(r.state)
      /\ chain' = [chain EXCEPT ![c] = r.state]
      /\ UNCHANGED expired

-----------------------------------------------------------------------------
Empty ==
  [channels |-> [id \in {} |-> None],  \* the core: channel ends,
   sent |-> {},                        \* packets that were ever committed,
   commitments |-> {},                 \* and still are,
   receipts |-> {},                    \* packets received
   acks |-> [p \in {} |-> None],       \* and their acknowledgements
   caps |-> {},                        \* x/wasm: channel capabilities
   async |-> [k \in {} |-> None],      \* and packets to acknowledge later
   applied |-> {},                     \* the contract: packets processed,
   connected |-> {},                   \* channels connected,
   told |-> [p \in {} |-> <<>>],       \* how its own packets ended
   refused |-> {},                     \* channels it refused to open
   emitted |-> {}]                     \* packets whose events were emitted

Init == chain = [c \in Chain |-> Empty] /\ expired = {}

Handshake(c) ==
  \/ \E ordering \in Ordering, version \in Version \cup {NoVersion}, answer \in Answers(c) :
       ChanOpenInit(c, ordering, version, answer)
  \/ \E counterparty \in DOMAIN chain[Other(c)].channels, answer \in Answers(c) :
       ChanOpenTry(c, counterparty, answer)
  \/ \E id \in DOMAIN chain[c].channels, m \in Messages :
       \/ \E counterparty \in DOMAIN chain[Other(c)].channels : ChanOpenAck(c, id, counterparty, m)
       \/ ChanOpenConfirm(c, id, m)
       \/ ChanCloseInit(c, id, m)
       \/ ChanCloseConfirm(c, id, m)

Packets(c) ==
  \/ \E m \in Messages : Execute(c, m)
  \/ \E p \in chain[c].sent : Expire(p)
  \/ \E p \in chain[Other(c)].sent, answer \in Received : RecvPacket(c, p, answer)
  \/ \E p \in chain[c].sent, m \in Messages : AcknowledgePacket(c, p, m) \/ TimeoutPacket(c, p, m)

Next == \E c \in Chain : Handshake(c) \/ Packets(c)

Spec == Init /\ [][Next]_vars

-----------------------------------------------------------------------------
(* Ends that are connected agree on the ordering and on a version, which   *)
(* is not empty, whatever the contracts answered and however the channel   *)
(* was closed in between; and both contracts were told before any packet   *)
(* of the channel was sent or received.                                    *)
HandshakeAgrees ==
  \A c \in Chain : \A id \in DOMAIN chain[c].channels :
    LET end   == chain[c].channels[id]
        other == chain[Other(c)].channels[end.counterparty]
    IN  /\ end.version # NoVersion
        /\ id \in chain[c].connected =>
             end.version = other.version /\ end.ordering = other.ordering
        /\ \A p \in chain[c].sent \cup chain[c].receipts :
             (IF p.src = c THEN p.channel ELSE p.dest) = id => id \in chain[c].connected

(* What a chain did with a packet is what its acknowledgement says: the    *)
(* changes and the events of the contract remain exactly if it gave an     *)
(* acknowledgement or still owes one; a packet that is owed one is stored, *)
(* under the one key the contract can name it by, and no other is.         *)
EffectMatchesAck ==
  \A c \in Chain :
    LET s    == chain[c]
        owed == s.receipts \ DOMAIN s.acks
    IN  /\ s.applied = owed \cup {p \in DOMAIN s.acks : s.acks[p] = "result"}
        /\ s.emitted = s.applied
        /\ {s.async[k] : k \in DOMAIN s.async} = owed
        /\ \A k \in DOMAIN s.async : k = <<s.async[k].dest, s.async[k].seq>>

(* The sender of a packet hears exactly once how it ended, and that is     *)
(* what happened on the other chain: the acknowledgement it wrote, or that *)
(* the packet was not and never will be received.                          *)
SenderToldOnce ==
  \A c \in Chain : \A p \in chain[c].sent :
    LET s == chain[c]
        d == chain[Other(c)]
    IN  IF p \in s.commitments THEN p \notin DOMAIN s.told
        ELSE /\ p \in DOMAIN s.told /\ Len(s.told[p]) = 1
             /\ IF s.told[p][1] = "timeout" THEN p \notin d.receipts
                ELSE p \in DOMAIN d.acks /\ s.told[p][1] = d.acks[p]

(* "pass that mode down to the contract in `OnChanOpenTry`, so the         *)
(* contract can decide if it accepts the mode" (x/wasm/IBC.md:40): no      *)
(* channel is made that its contract refused.                              *)
ContractDecides ==
  \A c \in Chain : chain[c].refused \cap DOMAIN chain[c].channels = {}
=============================================================================
