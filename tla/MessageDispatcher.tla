-------------------------- MODULE MessageDispatcher --------------------------
(***************************************************************************)
(* How the messages a contract returns are executed: MessageDispatcher,    *)
(* the response handler and the call and reply entry points of the keeper. *)
(*                                                                         *)
(* `frames' is the Go call stack.  A frame of kind "call" is a message     *)
(* being executed, one of kind "reply" the reply entry point of the        *)
(* contract below it.  A frame stays as long as the messages of its        *)
(* response are dispatched.                                                *)
(* `caches' are the stores: the state of the chain, and above it for each  *)
(* call the cache it writes to.  `meters' are the gas meters in use, the   *)
(* last one the current meter.                                             *)
(*                                                                         *)
(* A contract does what it likes: it uses gas, fails or succeeds, and      *)
(* returns any messages.  What it writes, and the events it emits, are     *)
(* represented by the number of the run.  `calls' and `spent' only record  *)
(* what happened.                                                          *)
(***************************************************************************)
EXTENDS Integers, Sequences, FiniteSets, Functions

CONSTANTS
  Nil,           \* no gas limit; the limit of an infinite gas meter
  GasLimits,     \* gas limits of sub-messages
  Costs,         \* gas that one run of a contract may use
  Gasless,       \* subset of BOOLEAN: may the called contract be gasless?
  TxGas,         \* gas limit of the transaction
  MaxCallDepth,  \* Keeper.maxCallDepth
  MaxMessages,   \* bound: messages in a response
  MaxCalls       \* bound: contract runs in a transaction

VARIABLES frames, caches, meters, control, calls, spent

vars == <<frames, caches, meters, control, calls, spent>>

ASSUME GasAssumption ==
  /\ GasLimits \subseteq Nat /\ Nil \notin Nat
  /\ Costs \subseteq Nat \ {0}
  /\ Gasless \subseteq BOOLEAN
  /\ TxGas \in Nat /\ MaxCallDepth \in Nat
  /\ MaxMessages \in Nat /\ MaxCalls \in Nat

ReplyOn == {"success", "error", "always", "never"}

(* The values of control.                                                  *)
(* "run": the top frame dispatches the messages of its response.           *)
(* "replyOk", "replyErr": it is to be told of the result of a message.     *)
(* "error": the top frame returns an error.  "panic": out of gas.          *)
(* "idle", "committed", "aborted": before and after the transaction.       *)

Last(s)  == s[Len(s)]
Front(s) == SubSeq(s, 1, Len(s) - 1)

Top    == Last(frames)
IsRoot == Len(frames) = 1

Init ==
  /\ frames = <<>>
  /\ caches = << {} >>
  /\ meters = <<[limit |-> TxGas, used |-> 0]>>
  /\ control = "idle"
  /\ calls = <<>>
  /\ spent = 0

-----------------------------------------------------------------------------
(* Gas meters.                                                             *)

Infinite == [limit |-> Nil, used |-> 0]

IsInfinite(meter) == meter.limit = Nil

Exceeded(meter) == ~IsInfinite(meter) /\ meter.used > meter.limit

(* consumeRuntimeGas: reaching the limit exactly is running out of gas. *)
RunsOut(meter, cost) == ~IsInfinite(meter) /\ meter.used + cost >= meter.limit

UseGas(ms, i, cost) == [ms EXCEPT ![i].used = @ + cost]

(* An off-by-one: the limit may be all that is left. *)
LimitsGasToRest(gasLimit) ==
  /\ gasLimit # Nil
  /\ \/ IsInfinite(Last(meters))
     \/ gasLimit <= Last(meters).limit - Last(meters).used

(* DispatchSubmessages: a limit is applied when it is less than the gas    *)
(* that is left.                                                           *)
LimitsGas(gasLimit) ==
  /\ gasLimit # Nil
  /\ \/ IsInfinite(Last(meters))
     \/ gasLimit < Last(meters).limit - Last(meters).used

(* dispatchMsgWithGasLimit adds a limited meter, execute an infinite one   *)
(* if the contract is gasless.                                             *)
MetersFor(limited, gasLimit, gasless) ==
  meters \o (IF limited THEN <<[limit |-> gasLimit, used |-> 0]>> ELSE <<>>)
         \o (IF gasless THEN <<Infinite>> ELSE <<>>)

(* The caller is not charged. *)
SettledForFree(gas) == SubSeq(meters, 1, Top.base)

(* The meters once the top frame has ended, when its own limited meter, if *)
(* it has one, charges `gas' to the meter below.                           *)
Settled(gas) ==
  LET kept == SubSeq(meters, 1, Top.base)
  IN IF Top.limited THEN UseGas(kept, Top.base, gas) ELSE kept

(* "make sure we charge the parent what was spent" *)
SpentByTop == IF Top.limited THEN meters[Top.base + 1].used ELSE 0

(* What consuming `cost' on meter i adds to the gas the transaction has    *)
(* to pay for: nothing under an infinite meter, never more than the limit. *)
Payable(ms, i, cost) ==
  IF \E j \in 1..i : IsInfinite(ms[j]) THEN 0
  ELSE LET rest == ms[i].limit - ms[i].used
       IN CASE rest <= 0 -> 0 [] rest >= cost -> cost [] OTHER -> rest

-----------------------------------------------------------------------------
(* Running a contract.                                                     *)

Above(id) == IF id = 0 THEN {} ELSE calls[id].within

(* The record of a new run, below the run of the top frame. *)
NewCall(kind, replyOn) ==
  LET parent == IF frames = <<>> THEN 0 ELSE Top.id
      id == Len(calls) + 1
  IN Append(calls, [parent |-> parent, within |-> Above(parent) \cup {id},
                    kind |-> kind, replyOn |-> replyOn,
                    status |-> "open", replies |-> 0])

Ended(cs, id, status) == [cs EXCEPT ![id].status = status]

NewFrame(kind, replyOn, limited, base, depth) ==
  [id |-> Len(calls) + 1, kind |-> kind, replyOn |-> replyOn,
   limited |-> limited, base |-> base, depth |-> depth,
   left |-> 0, events |-> <<>>, last |-> 0]

(* The contract runs to the end of its entry point, writing to the last    *)
(* cache, and fails or returns messages for handleContractResponse.        *)
Returns(below, frame, cs) ==
  /\ caches' = [cs EXCEPT ![Len(cs)] = @ \cup {frame.id}]
  /\ \/ /\ control' = "error"
        /\ frames' = Append(below, frame)
     \/ /\ control' = "run"
        /\ \E messages \in 0..MaxMessages :
             frames' = Append(below, [frame EXCEPT !.left = messages,
                                                   !.events = <<frame.id>>])

(* It is stopped in the middle; `how' is "error" or "panic". *)
Stops(below, frame, cs, how) ==
  /\ caches' = [cs EXCEPT ![Len(cs)] = @ \cup {frame.id}]
  /\ control' = how
  /\ frames' = Append(below, frame)

(* An entry point runs as `frame' on top of `below', with the caches cs    *)
(* and the gas meters ms.  Of a meter that has run out, only that it has   *)
(* is kept: nobody reads by how much.                                      *)
Run(below, frame, cs, ms) ==
  \E cost \in Costs :
    LET i == Len(ms) IN
    /\ spent' = spent + Payable(ms, i, cost)
    /\ \/ /\ RunsOut(ms[i], cost)
          /\ meters' = [ms EXCEPT ![i].used = ms[i].limit]
          /\ Stops(below, frame, cs, "panic")
       \/ /\ ~RunsOut(ms[i], cost)
          /\ meters' = UseGas(ms, i, cost)
          /\ Returns(below, frame, cs)

(* execute of a gasless contract: the VM has an infinite gas meter, but    *)
(* loading the contract and its accesses to the store use the caller's     *)
(* meter.  Running out of gas in the store is an error of the VM, which    *)
(* the infinite meter does not turn into a panic again.                    *)
RunGasless(below, frame, cs, ms) ==
  \E cost \in Costs :
    LET i == Len(ms) - 1
        charged == UseGas(ms, i, cost)
    IN
    /\ spent' = spent + Payable(ms, i, cost)
    /\ meters' = charged
    /\ \/ /\ Exceeded(charged[i])
          /\ \E how \in {"error", "panic"} : Stops(below, frame, cs, how)
       \/ /\ ~Exceeded(charged[i])
          /\ Returns(below, frame, cs)

Execute(below, frame, gasLimit, gasless) ==
  LET cs == Append(caches, {})
      ms == MetersFor(frame.limited, gasLimit, gasless)
  IN IF gasless THEN RunGasless(below, frame, cs, ms) ELSE Run(below, frame, cs, ms)

(* A message of the transaction calls a contract. *)
BeginTx(gasless) ==
  /\ control = "idle"
  /\ calls' = NewCall("call", "never")
  /\ Execute(<<>>, NewFrame("call", "never", FALSE, 1, 0), Nil, gasless)

(* The check before the increase. *)
TooDeepLate(depth) == depth > MaxCallDepth + 1

(* checkAndIncreaseCallDepth *)
TooDeep(depth) == depth > MaxCallDepth

Caller == Append(Front(frames), [Top EXCEPT !.left = @ - 1])

SubFrame(replyOn, gasLimit) ==
  NewFrame("call", replyOn, LimitsGas(gasLimit), Len(meters), Top.depth + 1)

(* DispatchSubmessages, one message. *)
DispatchSubmessage(replyOn, gasLimit, gasless) ==
  /\ control = "run" /\ Top.left > 0 /\ Len(calls) < MaxCalls
  /\ ~TooDeep(Top.depth + 1)
  /\ calls' = NewCall("call", replyOn)
  /\ Execute(Caller, SubFrame(replyOn, gasLimit), gasLimit, gasless)

(* callDepthMessageHandler refuses a message that is nested too deeply. *)
RefuseSubmessage(replyOn, gasLimit) ==
  /\ control = "run" /\ Top.left > 0 /\ Len(calls) < MaxCalls
  /\ TooDeep(Top.depth + 1)
  /\ calls' = NewCall("call", replyOn)
  /\ frames' = Append(Caller, SubFrame(replyOn, gasLimit))
  /\ meters' = MetersFor(LimitsGas(gasLimit), gasLimit, FALSE)
  /\ caches' = Append(caches, {})
  /\ control' = "error"
  /\ UNCHANGED spent

(* keeper.reply, in the context of the contract that dispatched. *)
Reply ==
  /\ control \in {"replyOk", "replyErr"} /\ Len(calls) < MaxCalls
  /\ calls' = [NewCall("reply", "never") EXCEPT ![Top.last].replies = @ + 1]
  /\ Run(frames, NewFrame("reply", "never", FALSE, Len(meters), Top.depth),
         caches, meters)

-----------------------------------------------------------------------------
(* The end of a frame.                                                     *)

(* The error is dropped if only successes are to be answered. *)
AfterMessageLenient(ok, replyOn) ==
  CASE ok  /\ replyOn \in {"success", "always"} -> "replyOk"
    [] ok  /\ replyOn \in {"error", "never"}    -> "run"
    [] ~ok /\ replyOn \in {"error", "always"}   -> "replyErr"
    [] ~ok /\ replyOn \in {"success", "never"}  ->
         IF replyOn = "success" THEN "run" ELSE "error"

(* A success is answered although only errors are to be. *)
AfterMessageErrorAsSuccess(ok, replyOn) ==
  CASE ok  /\ replyOn # "never"               -> "replyOk"
    [] ok  /\ replyOn = "never"               -> "run"
    [] ~ok /\ replyOn \in {"error", "always"} -> "replyErr"
    [] OTHER                                  -> "error"

(* DispatchSubmessages, once a message has returned: who goes on how. *)
AfterMessage(ok, replyOn) ==
  CASE ok  /\ replyOn \in {"success", "always"} -> "replyOk"
    [] ok  /\ replyOn \in {"error", "never"}    -> "run"
    [] ~ok /\ replyOn \in {"error", "always"}   -> "replyErr"
    [] ~ok /\ replyOn \in {"success", "never"}  -> "error"

(* The cache is written to the state of the chain. *)
CommittedToChain ==
  [i \in 1..(Len(caches) - 1) |->
     IF i = 1 THEN caches[i] \cup Last(caches) ELSE caches[i]]

(* commit() of a CacheContext, and leaving one without. *)
Committed ==
  [i \in 1..(Len(caches) - 1) |->
     IF i = Len(caches) - 1 THEN caches[i] \cup Last(caches) ELSE caches[i]]

(* The cache of a failed call is committed all the same. *)
DroppedTooLate == Committed

Dropped == Front(caches)

(* The events are passed on by commit() as well. *)
PassedOnTwice(events) ==
  LET n == Len(frames) - 1
  IN [Front(frames) EXCEPT ![n].events = @ \o events \o events, ![n].last = Top.id]

(* The frames below, the caller with the events that are passed on to it. *)
PassedOn(events) ==
  LET n == Len(frames) - 1
  IN [Front(frames) EXCEPT ![n].events = @ \o events, ![n].last = Top.id]

(* Charging a limited message to its caller may run out of gas itself,     *)
(* and the deferred function then panics again.                            *)
Overcharged(gas) == Top.limited /\ Exceeded(Settled(gas)[Top.base])

(* A message has returned, having used `gas' of its own meter. *)
EndCall(ok, gas) ==
  LET success == ok /\ ~Overcharged(gas)
  IN
  /\ Top.kind = "call" /\ ~IsRoot
  /\ frames' = PassedOn(IF success THEN Top.events ELSE <<>>)
  /\ caches' = IF success THEN Committed ELSE Dropped
  /\ meters' = Settled(gas)
  /\ calls' = Ended(calls, Top.id, IF success THEN "ok" ELSE "failed")
  /\ control' = IF Overcharged(gas) THEN "panic" ELSE AfterMessage(ok, Top.replyOn)
  /\ UNCHANGED spent

(* All messages of a call are dispatched: its state is committed, its      *)
(* events are passed on, and its caller gets a reply if it asked for one.  *)
CompleteCall ==
  /\ control = "run" /\ Top.left = 0
  /\ EndCall(TRUE, SpentByTop)

(* A call returns an error: its state and events are dropped, and the      *)
(* error ends its caller too unless the caller asked for a reply.          *)
FailCall ==
  /\ control = "error"
  /\ EndCall(FALSE, SpentByTop)

(* dispatchMsgWithGasLimit recovers from running out of gas and charges    *)
(* the whole limit; the message has failed.                                *)
RecoverOutOfGas ==
  /\ control = "panic" /\ Top.limited
  /\ EndCall(FALSE, meters[Top.base + 1].limit)

(* A reply writes and emits in the context of its contract. *)
CompleteReply ==
  /\ control = "run" /\ Top.left = 0 /\ Top.kind = "reply"
  /\ frames' = PassedOn(Top.events)
  /\ calls' = Ended(calls, Top.id, "ok")
  /\ UNCHANGED <<caches, meters, control, spent>>

(* A reply that returns an error aborts the dispatch of its contract. *)
FailReply ==
  /\ control = "error" /\ Top.kind = "reply"
  /\ frames' = Front(frames)
  /\ calls' = Ended(calls, Top.id, "failed")
  /\ UNCHANGED <<caches, meters, control, spent>>

(* The panic goes on through frames without a limited meter. *)
Unwind ==
  /\ control = "panic" /\ ~IsRoot /\ ~Top.limited
  /\ frames' = Front(frames)
  /\ IF Top.kind = "call"
     THEN meters' = Settled(0) /\ caches' = Dropped
     ELSE UNCHANGED <<meters, caches>>
  /\ calls' = Ended(calls, Top.id, "failed")
  /\ UNCHANGED <<control, spent>>

(* A failed transaction is executed again. *)
EndTxAgain ==
  /\ IsRoot
  /\ \/ /\ control = "run" /\ Top.left = 0
        /\ control' = "committed"
        /\ calls' = Ended(calls, Top.id, "ok")
        /\ caches' = Committed
        /\ UNCHANGED spent
     \/ /\ control \in {"error", "panic"}
        /\ control' = "idle"
        /\ calls' = <<>>
        /\ caches' = Dropped
        /\ spent' = 0
  /\ frames' = <<>>
  /\ meters' = <<[limit |-> TxGas, used |-> 0]>>

(* The base application writes the cache of the transaction, or drops it. *)
EndTx ==
  /\ IsRoot
  /\ \/ /\ control = "run" /\ Top.left = 0
        /\ control' = "committed"
        /\ calls' = Ended(calls, Top.id, "ok")
        /\ caches' = Committed
     \/ /\ control \in {"error", "panic"}
        /\ control' = "aborted"
        /\ calls' = Ended(calls, Top.id, "failed")
        /\ caches' = Dropped
  /\ frames' = <<>>
  /\ meters' = SubSeq(meters, 1, 1)
  /\ UNCHANGED spent

Step ==
  \/ \E gasless \in Gasless : BeginTx(gasless)
  \/ \E replyOn \in ReplyOn, gasLimit \in GasLimits \cup {Nil}, gasless \in Gasless :
       DispatchSubmessage(replyOn, gasLimit, gasless)
  \/ \E replyOn \in ReplyOn, gasLimit \in GasLimits \cup {Nil} :
       RefuseSubmessage(replyOn, gasLimit)
  \/ Reply
  \/ CompleteCall
  \/ FailCall
  \/ RecoverOutOfGas
  \/ CompleteReply
  \/ FailReply
  \/ Unwind
  \/ EndTx

(* The transaction is over, or the bound on runs is reached. *)
Done ==
  /\ control \in {"committed", "aborted"} \/ Len(calls) = MaxCalls
  /\ UNCHANGED vars

Next == Step \/ Done

Spec == Init /\ [][Next]_vars

(* The node executes the transaction to its end. *)
FairSpec == Spec /\ WF_vars(Step)

-----------------------------------------------------------------------------
(* Properties.                                                             *)

CallFrames == {i \in DOMAIN frames : frames[i].kind = "call"}

Visible == UNION Range(caches)

(* A run survives when neither it nor any run it happened in has failed.   *)
Survivors ==
  {i \in DOMAIN calls : \A j \in calls[i].within : calls[j].status # "failed"}

(* Nothing is failing right now. *)
Settling == control \notin {"error", "panic"}

(* The writes that can be seen are those of the runs that survive, however *)
(* deeply the failed ones were nested and whoever handled their failure:   *)
(* CacheContext and commit in DispatchSubmessages, and the cache of the    *)
(* transaction.                                                            *)
Atomic == Settling => Visible = Survivors

(* The events emitted so far are those of the runs that survive, each      *)
(* exactly once and in the order of the runs: what the transaction reports *)
(* is what it did.  DispatchSubmessages drops the event manager of a       *)
(* failed message, and passes on that of a successful one.                 *)
EventsMatch ==
  Settling /\ frames # <<>> =>
    /\ UNION {Range(frames[i].events) : i \in DOMAIN frames} = Survivors
    /\ \A i, j \in DOMAIN frames :
         \A k \in DOMAIN frames[i].events, l \in DOMAIN frames[j].events :
           i < j \/ (i = j /\ k < l) => frames[i].events[k] < frames[j].events[l]

(* Every message that was asked to be answered is answered exactly once,   *)
(* the others never: a successful one, and a failed one whose contract     *)
(* went on to succeed.  (replyOn in DispatchSubmessages.)                  *)
RepliesExact ==
  \A i \in DOMAIN calls :
    LET call == calls[i]
        asked(ons) == IF call.replyOn \in ons THEN 1 ELSE 0
        waiting == control \in {"replyOk", "replyErr"} /\ Top.last = i
    IN call.kind = "call" /\ call.parent # 0 /\ ~waiting =>
         /\ call.status = "ok" => call.replies = asked({"success", "always"})
         /\ call.status = "failed" /\ calls[call.parent].status = "ok" =>
              call.replies = asked({"error", "always"})

(* No failure is lost: a run succeeds only if each of its failed messages  *)
(* was one whose errors it asked to handle, and none of its replies        *)
(* failed ("abort on error").                                              *)
FailuresHandled ==
  \A i \in DOMAIN calls :
    calls[i].status = "failed" /\ calls[i].replyOn \in {"success", "never"} =>
      calls[i].parent = 0 \/ calls[calls[i].parent].status # "ok"

(* The meters that the transaction pays for. *)
PaidMeters == {i \in DOMAIN meters : \A j \in 1..i : ~IsInfinite(meters[j])}

(* Gas is never given back: what has been used by any run, failed ones     *)
(* included, is on a meter of the transaction, and without gasless         *)
(* contracts it is there only once.  dispatchMsgWithGasLimit charges the   *)
(* caller on success, on error and on running out of gas.                  *)
FullyCharged ==
  LET charged == SumFunctionOnSet([i \in DOMAIN meters |-> meters[i].used], PaidMeters)
  IN /\ charged >= spent
     /\ TRUE \notin Gasless => charged = spent

(* Gas limits hold.  Whoever dispatches messages has not used more gas     *)
(* than its meters allow, so that "gasRemaining" in DispatchSubmessages    *)
(* does not wrap around.  And without gasless contracts a limited message  *)
(* never uses up the gas of its caller, even by running out: the caller    *)
(* has gas left for its reply.  Calls run at most MaxCallDepth deep        *)
(* (DefaultMaxCallDepth), where the depth counts the open calls, whatever  *)
(* replies lie between: for gasless contracts that is the only limit.      *)
WithinLimits ==
  /\ \A i \in DOMAIN frames :
       LET depth == Cardinality({j \in CallFrames : j <= i}) - 1 IN
       /\ frames[i].depth = depth
       /\ depth > MaxCallDepth => control = "error" /\ i = Len(frames)
  /\ control \in {"run", "replyOk"} =>
       \A i \in DOMAIN meters : ~Exceeded(meters[i])
  /\ control \in {"run", "replyOk", "replyErr"} /\ TRUE \notin Gasless =>
       \A i \in DOMAIN meters : meters[i].used < meters[i].limit

(* Dispatching messages implements nested transactions: a call keeps all   *)
(* of its writes or leaves no trace.                                       *)
Tx == INSTANCE NestedTx WITH
        store <- Visible,
        open  <- [i \in 1..(Len(caches) - 1) |-> UNION {caches[j] : j \in 1..i}]

NestedTransactions == Tx!TxSpec

(* A transaction ends, whatever its contracts do: every run uses gas, and  *)
(* the gas of the transaction is limited.                                  *)
Termination == <>(control \in {"committed", "aborted"})
=============================================================================
