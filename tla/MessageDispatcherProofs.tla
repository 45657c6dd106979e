----------------------- MODULE MessageDispatcherProofs -----------------------
(***************************************************************************)
(* Proofs about the execution of the messages that contracts return, for   *)
(* any number of messages, nested to any depth, any gas limits and costs:  *)
(* gas limits and the call depth, replies, failures, and that dispatching  *)
(* messages implements nested transactions.                                *)
(***************************************************************************)
EXTENDS MessageDispatcher, FiniteSetTheorems, TLAPS

-----------------------------------------------------------------------------
(* The inductive invariant: the call stack.                                *)

Frame == [id : Nat, kind : {"call", "reply"}, replyOn : ReplyOn, limited : BOOLEAN,
          base : Nat, depth : Nat, left : Nat, events : Seq(Nat), last : Nat]

Meter == [limit : Nat \cup {Nil}, used : Nat]

Call == [parent : Nat, within : SUBSET Nat, kind : {"call", "reply"}, replyOn : ReplyOn,
         status : {"open", "ok", "failed"}, replies : Nat]

TypeOK ==
  /\ frames \in Seq(Frame) /\ caches \in Seq(SUBSET Nat)
  /\ meters \in Seq(Meter) /\ calls \in Seq(Call)
  /\ control \in {"idle", "run", "replyOk", "replyErr", "error", "panic",
                  "committed", "aborted"}

Active == control \notin {"idle", "committed", "aborted"}

(* The meter that a frame was given uses up one place.                     *)
Own(f) == IF f.limited THEN 1 ELSE 0

(* Calls, and only they, have a cache of their own.                        *)
Deeper(f) == IF f.kind = "call" THEN 1 ELSE 0

Stack ==
  /\ Active <=> Len(frames) > 0
  /\ Len(frames) = 0 => Len(caches) = 1 /\ Len(meters) = 1
  /\ Len(frames) > 0 =>
       /\ frames[1].kind = "call" /\ frames[1].depth = 0 /\ frames[1].base = 1
       /\ ~frames[1].limited
       /\ Len(caches) = Top.depth + 2
  /\ \A i \in 1..Len(frames) :
       /\ frames[i].base >= 1 /\ frames[i].base + Own(frames[i]) <= Len(meters)
       /\ frames[i].limited => meters[frames[i].base + 1].limit \in Nat
       /\ frames[i].kind = "reply" => ~frames[i].limited /\ frames[i].replyOn = "never"
       /\ i > 1 => frames[i].depth = frames[i - 1].depth + Deeper(frames[i])
  /\ \A i, j \in 1..Len(frames) : i < j =>
       /\ frames[i].base + Own(frames[i]) <= frames[j].base
       /\ frames[i].depth + Deeper(frames[j]) <= frames[j].depth

(* The frames and the records of the runs.                                 *)
Records ==
  /\ \A i \in 1..Len(frames) :
       /\ frames[i].id \in 1..Len(calls)
       /\ calls[frames[i].id].status = "open"
       /\ calls[frames[i].id].kind = frames[i].kind
       /\ calls[frames[i].id].replyOn = frames[i].replyOn
       /\ calls[frames[i].id].parent = IF i = 1 THEN 0 ELSE frames[i - 1].id
  /\ \A i, j \in 1..Len(frames) : i < j => frames[i].id < frames[j].id
  /\ \A x \in 1..Len(calls) :
       /\ calls[x].parent < x
       /\ calls[x].status = "open" => \E i \in 1..Len(frames) : frames[i].id = x
  /\ control = "idle" => Len(calls) = 0

-----------------------------------------------------------------------------
(* Depths and gas.                                                         *)

Depths ==
  \A i \in 1..Len(frames) :
    /\ frames[i].depth = Cardinality({j \in CallFrames : j <= i}) - 1
    /\ frames[i].depth > MaxCallDepth =>
         control = "error" /\ i = Len(frames) /\ frames[i].kind = "call"

(* A meter that is exceeded belongs to what is failing.                    *)
Excesses ==
  \A i \in 1..Len(meters) : Exceeded(meters[i]) =>
    \/ control \in {"error", "panic"} /\ i >= Top.base + Own(Top)
    \/ control = "replyErr" /\ i = Len(meters)
    \/ control = "aborted"

(* Without gasless contracts, limits leave the caller gas for its reply.   *)
Margins ==
  TRUE \notin Gasless =>
    /\ \A i \in 1..Len(meters) :
         /\ meters[i].limit \in Nat /\ meters[i].used <= meters[i].limit
         /\ meters[i].used = meters[i].limit =>
              /\ i = Len(meters)
              /\ \/ control \in {"idle", "panic", "aborted"}
                 \/ control = "error" /\ Top.limited
    /\ \A i \in 1..Len(frames) : frames[i].limited =>
         meters[frames[i].base].used + meters[frames[i].base + 1].limit
           < meters[frames[i].base].limit

-----------------------------------------------------------------------------
(* Replies and failures.                                                   *)

(* A run that has failed, or is about to.                                  *)
Doomed(x) ==
  \/ calls[x].status = "failed"
  \/ control \in {"error", "panic"} /\ x = Top.id

Waiting(x) == control \in {"replyOk", "replyErr"} /\ Top.last = x

Asked(x, ons) == IF calls[x].replyOn \in ons THEN 1 ELSE 0

Answers ==
  /\ control \in {"replyOk", "replyErr"} =>
       LET x == Top.last IN
       /\ x \in 1..Len(calls)
       /\ calls[x].kind = "call" /\ calls[x].parent = Top.id /\ calls[x].replies = 0
       /\ control = "replyOk" =>
            calls[x].status = "ok" /\ calls[x].replyOn \in {"success", "always"}
       /\ control = "replyErr" =>
            calls[x].status = "failed" /\ calls[x].replyOn \in {"error", "always"}
  /\ \A x \in 1..Len(calls) :
       /\ calls[x].status = "open" => calls[x].replies = 0
       /\ calls[x].kind = "call" /\ calls[x].parent # 0 /\ ~Waiting(x) =>
            /\ calls[x].status = "ok" =>
                 calls[x].replies = Asked(x, {"success", "always"})
            /\ calls[x].status = "failed" /\ ~Doomed(calls[x].parent) =>
                 calls[x].replies = Asked(x, {"error", "always"})

Failures ==
  \A x \in 1..Len(calls) :
    calls[x].status = "failed" /\ calls[x].replyOn \in {"success", "never"} /\ calls[x].parent # 0
      => Doomed(calls[x].parent)

DispatchInv ==
  TypeOK /\ Stack /\ Records /\ Depths /\ Excesses /\ Margins /\ Answers /\ Failures

-----------------------------------------------------------------------------
(* A step begins a run or ends one.                                        *)

(* Frame g goes on as f, which may have dispatched a message.              *)
Same(f, g) ==
  /\ f.id = g.id /\ f.kind = g.kind /\ f.replyOn = g.replyOn
  /\ f.limited = g.limited /\ f.base = g.base /\ f.depth = g.depth

Below(B) ==
  /\ B \in Seq(Frame) /\ Len(B) = Len(frames)
  /\ \A i \in 1..Len(frames) :
       Same(B[i], frames[i]) /\ B[i].events = frames[i].events /\ B[i].last = frames[i].last

FramesPushed(f) == \E B : Below(B) /\ f \in Frame /\ frames' = Append(B, f)

FrameOK(f) ==
  /\ f.id = Len(calls) + 1 /\ f.base = Len(meters)
  /\ f.depth = IF Len(frames) = 0 THEN 0 ELSE Top.depth + Deeper(f)
  /\ f.kind = "call" <=> control \in {"idle", "run"}
  /\ f.kind = "reply" => ~f.limited /\ f.replyOn = "never"
  /\ Len(frames) = 0 => ~f.limited
  /\ f.events = IF control' = "run" THEN <<f.id>> ELSE <<>>
  /\ f.depth > MaxCallDepth => control' = "error" /\ f.kind = "call"

CallsPushed(f) ==
  /\ calls' \in Seq(Call) /\ Len(calls') = Len(calls) + 1
  /\ LET r == calls'[Len(calls) + 1]
         parent == IF Len(frames) = 0 THEN 0 ELSE Top.id
     IN  /\ r.parent = parent /\ r.within = Above(parent) \cup {f.id}
         /\ r.kind = f.kind /\ r.replyOn = f.replyOn
         /\ r.status = "open" /\ r.replies = 0
  /\ \A x \in 1..Len(calls) :
       /\ calls'[x].parent = calls[x].parent /\ calls'[x].within = calls[x].within
       /\ calls'[x].kind = calls[x].kind /\ calls'[x].replyOn = calls[x].replyOn
       /\ calls'[x].status = calls[x].status
       /\ calls'[x].replies = calls[x].replies + IF Waiting(x) THEN 1 ELSE 0

(* A call writes to a cache of its own, a reply to that of its contract;   *)
(* a message that is refused writes nothing.                               *)
CachesPushed(f) ==
  LET cs == IF f.kind = "call" THEN Append(caches, {}) ELSE caches
  IN  \/ caches' = [cs EXCEPT ![Len(cs)] = @ \cup {f.id}]
      \/ caches' = cs /\ control' = "error" /\ f.kind = "call"

(* The meters that a run is given, and what it uses.                       *)
MetersGiven(f, ms, gasless) ==
  /\ ms \in Seq(Meter) /\ gasless \in BOOLEAN
  /\ gasless => TRUE \in Gasless
  /\ Len(ms) = Len(meters) + Own(f) + (IF gasless THEN 1 ELSE 0)
  /\ \A i \in 1..Len(meters) : ms[i] = meters[i]
  /\ f.limited =>
       /\ ms[Len(meters) + 1].used = 0 /\ ms[Len(meters) + 1].limit \in Nat
       /\ LimitsGas(ms[Len(meters) + 1].limit)
  /\ gasless => IsInfinite(ms[Len(ms)])

MetersUsed(f, ms, gasless) ==
  \/ \E cost \in Nat \ {0} :
       /\ ~gasless /\ RunsOut(ms[Len(ms)], cost) /\ control' = "panic"
       /\ meters' = [ms EXCEPT ![Len(ms)].used = ms[Len(ms)].limit]
       /\ spent' = spent + Payable(ms, Len(ms), cost)
  \/ \E cost \in Nat \ {0} :
       /\ ~gasless /\ ~RunsOut(ms[Len(ms)], cost) /\ control' # "panic"
       /\ meters' = UseGas(ms, Len(ms), cost)
       /\ spent' = spent + Payable(ms, Len(ms), cost)
  \/ \E cost \in Nat \ {0} :
       /\ gasless /\ meters' = UseGas(ms, Len(ms) - 1, cost)
       /\ Exceeded(meters'[Len(ms) - 1]) => control' # "run"
       /\ spent' = spent + Payable(ms, Len(ms) - 1, cost)
  \/ /\ ~gasless /\ control = "run" /\ control' = "error" /\ f.kind = "call"
     /\ meters' = ms /\ spent' = spent

MetersPushed(f) ==
  \E ms, gasless : MetersGiven(f, ms, gasless) /\ MetersUsed(f, ms, gasless)

Pushes(f) ==
  /\ control \in {"idle", "run", "replyOk", "replyErr"}
  /\ control' \in {"run", "error", "panic"}
  /\ FramesPushed(f) /\ FrameOK(f) /\ CallsPushed(f) /\ CachesPushed(f) /\ MetersPushed(f)

-----------------------------------------------------------------------------
(* Beginning a run.                                                        *)

(* Facts about sequences.                                                  *)
LEMMA Appended ==
  ASSUME NEW S, NEW s \in Seq(S)
  PROVE  /\ s \o <<>> = s
         /\ \A x \in S :
              /\ s \o <<x>> = Append(s, x)
              /\ Append(s, x) \in Seq(S) /\ Len(Append(s, x)) = Len(s) + 1
              /\ Append(s, x)[Len(s) + 1] = x
              /\ \A i \in 1..Len(s) : Append(s, x)[i] = s[i]
OBVIOUS

(* A prefix of a sequence.                                                 *)
LEMMA Shortened ==
  ASSUME NEW S, NEW s \in Seq(S), NEW n \in 0..Len(s)
  PROVE  /\ SubSeq(s, 1, n) \in Seq(S) /\ Len(SubSeq(s, 1, n)) = n
         /\ \A i \in 1..n : SubSeq(s, 1, n)[i] = s[i]
OBVIOUS

(* The meters for a new run.                                               *)
MayLimit(g, gasLimit) ==
  g.limited \in BOOLEAN /\ (g.limited => gasLimit \in Nat /\ LimitsGas(gasLimit))

GivenTo(g, gasLimit, gasless) ==
  MetersGiven(g, MetersFor(g.limited, gasLimit, gasless), gasless)

(* MetersFor gives a run the meters it is to have.                         *)
LEMMA MetersForFacts ==
  ASSUME TypeOK, NEW g, NEW gasLimit, MayLimit(g, gasLimit)
  PROVE  /\ GivenTo(g, gasLimit, FALSE)
         /\ TRUE \in Gasless => GivenTo(g, gasLimit, TRUE)
<1>1. /\ meters \in Seq(Meter) /\ Len(meters) \in Nat /\ g.limited \in BOOLEAN
      /\ g.limited => gasLimit \in Nat /\ LimitsGas(gasLimit)
  BY DEF TypeOK, MayLimit
<1>2. PICK m : m = [limit |-> gasLimit, used |-> 0]
  OBVIOUS
<1>3. g.limited => m \in Meter /\ m.limit = gasLimit /\ m.used = 0
  BY <1>1, <1>2 DEF Meter
<1>4. Infinite \in Meter /\ IsInfinite(Infinite)
  BY DEF Infinite, Meter, IsInfinite
<1>5. PICK a : a = meters \o (IF g.limited THEN <<m>> ELSE <<>>)
  OBVIOUS
<1>6. /\ a \in Seq(Meter) /\ Len(a) = Len(meters) + Own(g)
      /\ \A i \in 1..Len(meters) : a[i] = meters[i]
      /\ g.limited => a[Len(meters) + 1] = m
  <2>1. CASE g.limited
    <3>1. a = Append(meters, m)
      BY <1>1, <1>3, <1>5, <2>1, Appended
    <3> QED BY <1>1, <1>3, <2>1, <3>1, Appended DEF Own
  <2>2. CASE ~g.limited
    <3>1. a = meters
      BY <1>1, <1>5, <2>2, Appended
    <3> QED BY <1>1, <2>2, <3>1 DEF Own
  <2> QED BY <2>1, <2>2
<1>7. MetersGiven(g, a, FALSE)
  BY <1>1, <1>3, <1>6 DEF MetersGiven
<1>8. MetersFor(g.limited, gasLimit, FALSE) = a
  <2>1. MetersFor(g.limited, gasLimit, FALSE) = a \o <<>>
    BY <1>2, <1>5 DEF MetersFor
  <2> QED BY <1>6, <2>1, Appended
<1>9. PICK b : b = Append(a, Infinite)
  OBVIOUS
<1>10. MetersFor(g.limited, gasLimit, TRUE) = b
  <2>1. MetersFor(g.limited, gasLimit, TRUE) = a \o <<Infinite>>
    BY <1>2, <1>5 DEF MetersFor
  <2>2. a \o <<Infinite>> = Append(a, Infinite)
    BY <1>4, <1>6, Appended
  <2> QED BY <1>9, <2>1, <2>2
<1>11. /\ b \in Seq(Meter) /\ Len(b) = Len(a) + 1 /\ b[Len(b)] = Infinite
       /\ \A i \in 1..Len(a) : b[i] = a[i]
  BY <1>4, <1>6, <1>9, Appended
<1>12. \A i \in 1..Len(meters) : b[i] = meters[i]
  BY <1>1, <1>6, <1>11 DEF Own
<1>13. g.limited => b[Len(meters) + 1] = m
  BY <1>1, <1>6, <1>11 DEF Own
<1>14. Len(b) = Len(meters) + Own(g) + 1
  BY <1>6, <1>11
<1>15. ASSUME TRUE \in Gasless PROVE MetersGiven(g, b, TRUE)
  BY <1>1, <1>3, <1>4, <1>11, <1>12, <1>13, <1>14, <1>15 DEF MetersGiven
<1> QED BY <1>7, <1>8, <1>10, <1>15 DEF GivenTo

(* The frames while a message of the top frame is dispatched.              *)
LEMMA CallerFacts ==
  ASSUME TypeOK, Len(frames) > 0, Top.left > 0
  PROVE  Below(Caller)
<1>1. PICK n \in Nat : n = Len(frames)
  BY DEF TypeOK
<1>2. PICK g : g = [frames[n] EXCEPT !.left = @ - 1]
  OBVIOUS
<1>3. frames[n] \in Frame /\ frames[n].left > 0
  BY <1>1 DEF TypeOK, Top, Last
<1>4. /\ g \in Frame /\ Same(g, frames[n])
      /\ g.events = frames[n].events /\ g.last = frames[n].last
  <2>1. PICK r : r = frames[n]
    OBVIOUS
  <2>2. PICK k \in Nat : k = r.left - 1
    BY <1>3, <2>1 DEF Frame
  <2>3. g = [r EXCEPT !.left = k] /\ r \in Frame
    BY <1>2, <1>3, <2>1, <2>2
  <2>4. g \in Frame
    BY <2>3 DEF Frame
  <2>5. Same(g, r) /\ g.events = r.events /\ g.last = r.last
    BY <2>3 DEF Frame, Same
  <2> QED BY <2>1, <2>4, <2>5
<1>5. Caller = Append(SubSeq(frames, 1, n - 1), g)
  BY <1>1, <1>2 DEF Caller, Front, Top, Last
<1>6. /\ Caller \in Seq(Frame) /\ Len(Caller) = n /\ Caller[n] = g
      /\ \A i \in 1..(n - 1) : Caller[i] = frames[i]
  BY <1>1, <1>4, <1>5 DEF TypeOK
<1>7. ASSUME NEW i \in 1..n
      PROVE  /\ Same(Caller[i], frames[i]) /\ Caller[i].events = frames[i].events
             /\ Caller[i].last = frames[i].last
  BY <1>1, <1>4, <1>6 DEF Same
<1> QED BY <1>1, <1>6, <1>7 DEF Below

(* The frames while a reply runs.                                          *)
LEMMA FramesBelow ==
  ASSUME TypeOK
  PROVE  Below(frames)
BY DEF TypeOK, Below, Same

(* The frame of a run, with what it returned.                              *)
LEMMA ReturnsFacts ==
  ASSUME NEW B, Below(B), NEW g \in Frame, g.events = <<>>, NEW cs,
         Returns(B, g, cs) \/ \E how \in {"error", "panic"} : Stops(B, g, cs, how)
  PROVE  /\ control' \in {"run", "error", "panic"}
         /\ caches' = [cs EXCEPT ![Len(cs)] = @ \cup {g.id}]
         /\ \E f \in Frame : /\ FramesPushed(f) /\ Same(f, g)
                             /\ f.events = IF control' = "run" THEN <<f.id>> ELSE <<>>
<1>1. CASE frames' = Append(B, g) /\ control' \in {"error", "panic"}
  BY <1>1 DEF Returns, Stops, FramesPushed, Same
<1>2. ASSUME NEW messages \in 0..MaxMessages, control' = "run",
             frames' = Append(B, [g EXCEPT !.left = messages, !.events = <<g.id>>])
      PROVE  \E f \in Frame : /\ FramesPushed(f) /\ Same(f, g)
                             /\ f.events = IF control' = "run" THEN <<f.id>> ELSE <<>>
  <2>1. PICK f : f = [g EXCEPT !.left = messages, !.events = <<g.id>>]
    OBVIOUS
  <2>2. messages \in Nat /\ <<g.id>> \in Seq(Nat)
    BY GasAssumption DEF Frame
  <2>3. f \in Frame /\ Same(f, g) /\ f.events = <<f.id>>
    BY <2>1, <2>2 DEF Frame, Same
  <2>4. frames' = Append(B, f)
    BY <1>2, <2>1
  <2> QED BY <1>2, <2>3, <2>4 DEF FramesPushed
<1>3. caches' = [cs EXCEPT ![Len(cs)] = @ \cup {g.id}]
  BY DEF Returns, Stops
<1>4. \/ frames' = Append(B, g) /\ control' \in {"error", "panic"}
      \/ /\ control' = "run"
         /\ \E messages \in 0..MaxMessages :
              frames' = Append(B, [g EXCEPT !.left = messages, !.events = <<g.id>>])
  BY DEF Returns, Stops
<1> QED BY <1>1, <1>2, <1>3, <1>4

(* The frames once f has begun.                                            *)
LEMMA AfterPush ==
  ASSUME TypeOK, NEW f, FramesPushed(f)
  PROVE  /\ frames' \in Seq(Frame) /\ Len(frames') = Len(frames) + 1 /\ f \in Frame
         /\ frames'[Len(frames) + 1] = f /\ Top' = f
         /\ \A i \in 1..Len(frames) :
              /\ Same(frames'[i], frames[i]) /\ frames'[i].events = frames[i].events
              /\ frames'[i].last = frames[i].last
<1>1. PICK B : Below(B) /\ f \in Frame /\ frames' = Append(B, f)
  BY DEF FramesPushed
<1>2. B \in Seq(Frame) /\ Len(B) = Len(frames)
  BY <1>1 DEF Below
<1>3. /\ frames' \in Seq(Frame) /\ Len(frames') = Len(frames) + 1
      /\ frames'[Len(frames) + 1] = f
      /\ \A i \in 1..Len(frames) : frames'[i] = B[i]
  BY <1>1, <1>2, Appended
<1> QED BY <1>1, <1>3 DEF Below, Top, Last

(* The record of a new run.                                                *)
LEMMA NewCallFacts ==
  ASSUME DispatchInv, NEW kind \in {"call", "reply"}, NEW replyOn \in ReplyOn,
         control \in {"idle", "run", "replyOk", "replyErr"},
         NEW f, f.id = Len(calls) + 1, f.kind = kind, f.replyOn = replyOn,
         \/ control \in {"idle", "run"} /\ calls' = NewCall(kind, replyOn)
         \/ /\ control \in {"replyOk", "replyErr"}
            /\ calls' = [NewCall(kind, replyOn) EXCEPT ![Top.last].replies = @ + 1]
  PROVE  CallsPushed(f)
<1>1. PICK n \in Nat : n = Len(calls)
  BY DEF DispatchInv, TypeOK
<1>2. PICK parent : parent = IF Len(frames) = 0 THEN 0 ELSE Top.id
  OBVIOUS
<1>3. parent = IF frames = <<>> THEN 0 ELSE Top.id
  BY <1>2 DEF DispatchInv, TypeOK
<1>4. PICK r : r = [parent |-> parent, within |-> Above(parent) \cup {n + 1},
                    kind |-> kind, replyOn |-> replyOn, status |-> "open", replies |-> 0]
  OBVIOUS
<1>5. NewCall(kind, replyOn) = Append(calls, r)
  BY <1>1, <1>3, <1>4 DEF NewCall
<1>6. parent \in 0..n
  <2>1. CASE Len(frames) = 0
    BY <1>2, <2>1
  <2>2. CASE Len(frames) # 0
    BY <1>1, <1>2, <2>2 DEF DispatchInv, TypeOK, Records, Top, Last
  <2> QED BY <2>1, <2>2
<1>7. Above(parent) \subseteq Nat
  <2>1. CASE parent = 0
    BY <2>1 DEF Above
  <2>2. CASE parent # 0
    <3>1. parent \in 1..Len(calls) /\ calls \in Seq(Call)
      BY <1>1, <1>6, <2>2 DEF DispatchInv, TypeOK
    <3>2. calls[parent] \in Call
      BY <3>1
    <3> QED BY <2>2, <3>2 DEF Above, Call
  <2> QED BY <2>1, <2>2
<1>8. r \in Call
  BY <1>1, <1>4, <1>6, <1>7 DEF Call
<1>9. PICK cs : cs = Append(calls, r)
  OBVIOUS
<1>10. /\ cs \in Seq(Call) /\ Len(cs) = n + 1 /\ cs[n + 1] = r
       /\ \A x \in 1..n : cs[x] = calls[x]
  BY <1>1, <1>8, <1>9, Appended DEF DispatchInv, TypeOK
<1>11. \A x \in 1..n : calls[x] \in Call
  BY <1>1 DEF DispatchInv, TypeOK
<1>12. /\ r.parent = parent /\ r.within = Above(parent) \cup {f.id}
       /\ r.kind = f.kind /\ r.replyOn = f.replyOn /\ r.status = "open" /\ r.replies = 0
  BY <1>1, <1>4
<1>13. CASE control \in {"idle", "run"}
  <2>1. calls' = cs /\ \A x : ~Waiting(x)
    BY <1>5, <1>9, <1>13 DEF Waiting
  <2>2. \A x \in 1..n : calls[x].replies \in Nat
    BY <1>11 DEF Call
  <2> QED BY <1>1, <1>2, <1>10, <1>12, <2>1, <2>2 DEF CallsPushed
<1>14. CASE control \in {"replyOk", "replyErr"}
  <2>1. PICK l : l = Top.last
    OBVIOUS
  <2>2. l \in 1..n /\ \A x : Waiting(x) <=> x = l
    BY <1>1, <1>14, <2>1 DEF DispatchInv, Answers, Waiting
  <2>3. calls' = [cs EXCEPT ![l].replies = @ + 1]
    BY <1>5, <1>9, <1>14, <2>1
  <2>4. PICK q : q = [calls[l] EXCEPT !.replies = @ + 1]
    OBVIOUS
  <2>5. q \in Call
    BY <1>11, <2>2, <2>4, SMTT(30) DEF Call
  <2>6. /\ q.parent = calls[l].parent /\ q.within = calls[l].within
        /\ q.kind = calls[l].kind /\ q.replyOn = calls[l].replyOn
        /\ q.status = calls[l].status /\ q.replies = calls[l].replies + 1
    BY <1>11, <2>2, <2>4 DEF Call
  <2>7. calls' = [cs EXCEPT ![l] = q]
    BY <1>10, <2>2, <2>3, <2>4
  <2>8. /\ calls' \in Seq(Call) /\ Len(calls') = n + 1 /\ calls'[n + 1] = r
        /\ calls'[l] = q /\ \A x \in 1..n : x # l => calls'[x] = calls[x]
    BY <1>10, <2>2, <2>5, <2>7
  <2>9. \A x \in 1..n : calls[x].replies \in Nat
    BY <1>11 DEF Call
  <2>10. ASSUME NEW x \in 1..n
         PROVE  /\ calls'[x].parent = calls[x].parent /\ calls'[x].within = calls[x].within
                /\ calls'[x].kind = calls[x].kind /\ calls'[x].replyOn = calls[x].replyOn
                /\ calls'[x].status = calls[x].status
                /\ calls'[x].replies = calls[x].replies + IF Waiting(x) THEN 1 ELSE 0
    <3>1. CASE x = l
      BY <2>2, <2>6, <2>8, <3>1
    <3>2. CASE x # l
      BY <2>2, <2>8, <2>9, <3>2
    <3> QED BY <3>1, <3>2
  <2> QED BY <1>1, <1>2, <1>12, <2>8, <2>10 DEF CallsPushed
<1> QED BY <1>13, <1>14

(* What running a contract does to the meters.                             *)
LEMMA RunUses ==
  ASSUME NEW B, NEW g, NEW cs, NEW ms, Run(B, g, cs, ms), NEW f
  PROVE  /\ MetersUsed(f, ms, FALSE)
         /\ Returns(B, g, cs) \/ \E how \in {"error", "panic"} : Stops(B, g, cs, how)
<1>1. PICK cost \in Costs :
        /\ spent' = spent + Payable(ms, Len(ms), cost)
        /\ \/ /\ RunsOut(ms[Len(ms)], cost)
              /\ meters' = [ms EXCEPT ![Len(ms)].used = ms[Len(ms)].limit]
              /\ Stops(B, g, cs, "panic")
           \/ /\ ~RunsOut(ms[Len(ms)], cost)
              /\ meters' = UseGas(ms, Len(ms), cost)
              /\ Returns(B, g, cs)
  BY DEF Run
<1>2. cost \in Nat \ {0}
  BY GasAssumption
<1>3. Stops(B, g, cs, "panic") => control' = "panic"
  BY DEF Stops
<1>4. Returns(B, g, cs) => control' # "panic"
  BY DEF Returns
<1>5. \/ /\ RunsOut(ms[Len(ms)], cost) /\ control' = "panic"
         /\ meters' = [ms EXCEPT ![Len(ms)].used = ms[Len(ms)].limit]
      \/ /\ ~RunsOut(ms[Len(ms)], cost) /\ control' # "panic"
         /\ meters' = UseGas(ms, Len(ms), cost)
  BY <1>1, <1>3, <1>4
<1>6. MetersUsed(f, ms, FALSE)
  BY <1>1, <1>2, <1>5, Zenon DEF MetersUsed
<1> QED BY <1>1, <1>6

(* What a gasless contract uses.                                           *)
LEMMA GaslessUses ==
  ASSUME NEW B, NEW g, NEW cs, NEW ms, RunGasless(B, g, cs, ms), NEW f
  PROVE  /\ MetersUsed(f, ms, TRUE)
         /\ Returns(B, g, cs) \/ \E how \in {"error", "panic"} : Stops(B, g, cs, how)
<1>1. PICK cost \in Costs :
        /\ spent' = spent + Payable(ms, Len(ms) - 1, cost)
        /\ meters' = UseGas(ms, Len(ms) - 1, cost)
        /\ \/ \E how \in {"error", "panic"} : Stops(B, g, cs, how)
           \/ /\ ~Exceeded(UseGas(ms, Len(ms) - 1, cost)[Len(ms) - 1])
              /\ Returns(B, g, cs)
  BY Zenon DEF RunGasless
<1>2. cost \in Nat \ {0}
  BY GasAssumption
<1>3. (\E how \in {"error", "panic"} : Stops(B, g, cs, how)) => control' # "run"
  BY DEF Stops
<1>4. Exceeded(meters'[Len(ms) - 1]) => control' # "run"
  BY <1>1, <1>3
<1>5. MetersUsed(f, ms, TRUE)
  BY <1>1, <1>2, <1>4, Zenon DEF MetersUsed
<1> QED BY <1>1, <1>5

(* A message is executed: execute, with the cache and the meters that      *)
(* DispatchSubmessages made for it.                                        *)
LEMMA ExecutePushes ==
  ASSUME DispatchInv, control \in {"idle", "run"}, NEW B, Below(B),
         NEW g \in Frame, g.id = Len(calls) + 1, g.kind = "call",
         g.base = Len(meters), g.events = <<>>,
         g.depth = IF Len(frames) = 0 THEN 0 ELSE Top.depth + 1,
         g.depth <= MaxCallDepth, Len(frames) = 0 => ~g.limited,
         NEW gasLimit, g.limited => gasLimit \in Nat /\ LimitsGas(gasLimit),
         NEW gasless \in Gasless, Execute(B, g, gasLimit, gasless),
         calls' = NewCall("call", g.replyOn)
  PROVE  \E f : Pushes(f)
<1>1. PICK cs : cs = Append(caches, {})
  OBVIOUS
<1>2. PICK ms : ms = MetersFor(g.limited, gasLimit, gasless)
  OBVIOUS
<1>3. gasless \in BOOLEAN /\ g.limited \in BOOLEAN /\ g.replyOn \in ReplyOn
  BY GasAssumption DEF Frame
<1>4. MetersGiven(g, ms, gasless)
  <2>1. TypeOK /\ MayLimit(g, gasLimit)
    BY <1>3 DEF DispatchInv, MayLimit
  <2>2. GivenTo(g, gasLimit, FALSE) /\ (TRUE \in Gasless => GivenTo(g, gasLimit, TRUE))
    BY <2>1, MetersForFacts
  <2>3. CASE gasless = TRUE
    BY <1>2, <2>2, <2>3 DEF GivenTo
  <2>4. CASE gasless = FALSE
    BY <1>2, <2>2, <2>4 DEF GivenTo
  <2> QED BY <1>3, <2>3, <2>4
<1>5. /\ MetersUsed(g, ms, gasless)
      /\ Returns(B, g, cs) \/ \E how \in {"error", "panic"} : Stops(B, g, cs, how)
  <2>1. CASE gasless
    <3>1. RunGasless(B, g, cs, ms)
      BY <1>1, <1>2, <2>1 DEF Execute
    <3>2. gasless = TRUE
      BY <1>3, <2>1
    <3> QED BY <3>1, <3>2, GaslessUses
  <2>2. CASE ~gasless
    <3>1. Run(B, g, cs, ms)
      BY <1>1, <1>2, <2>2 DEF Execute
    <3>2. gasless = FALSE
      BY <1>3, <2>2
    <3> QED BY <3>1, <3>2, RunUses
  <2> QED BY <2>1, <2>2
<1>6. /\ control' \in {"run", "error", "panic"}
      /\ caches' = [cs EXCEPT ![Len(cs)] = @ \cup {g.id}]
      /\ \E f \in Frame : /\ FramesPushed(f) /\ Same(f, g)
                          /\ f.events = IF control' = "run" THEN <<f.id>> ELSE <<>>
  BY <1>5, ReturnsFacts
<1>7. PICK f \in Frame : /\ FramesPushed(f) /\ Same(f, g)
                        /\ f.events = IF control' = "run" THEN <<f.id>> ELSE <<>>
  BY <1>6
<1>8. /\ f.id = g.id /\ f.kind = "call" /\ f.replyOn = g.replyOn
      /\ f.limited = g.limited /\ f.base = g.base /\ f.depth = g.depth
  BY <1>7 DEF Same
<1>9. FrameOK(f)
  <2>1. ~(f.depth > MaxCallDepth)
    BY <1>3, <1>8, GasAssumption DEF Frame
  <2>2. Deeper(f) = 1
    BY <1>8 DEF Deeper
  <2> QED BY <1>7, <1>8, <2>1, <2>2 DEF FrameOK
<1>10. CallsPushed(f)
  BY <1>3, <1>8, NewCallFacts
<1>11. CachesPushed(f)
  BY <1>1, <1>6, <1>8 DEF CachesPushed
<1>12. MetersPushed(f)
  <2>1. Own(f) = Own(g)
    BY <1>8 DEF Own
  <2>2. MetersGiven(f, ms, gasless) /\ MetersUsed(f, ms, gasless)
    BY <1>4, <1>5, <1>8, <2>1 DEF MetersGiven, MetersUsed
  <2> QED BY <2>2 DEF MetersPushed
<1> QED BY <1>6, <1>7, <1>9, <1>10, <1>11, <1>12 DEF Pushes

(* BeginTx begins a run.                                                   *)
LEMMA BeginPushes ==
  ASSUME DispatchInv, NEW gasless \in Gasless, BeginTx(gasless)
  PROVE  \E f : Pushes(f)
<1>1. PICK g : g = NewFrame("call", "never", FALSE, 1, 0)
  OBVIOUS
<1>2. /\ control = "idle" /\ calls' = NewCall("call", "never")
      /\ Execute(<<>>, g, Nil, gasless)
  BY <1>1 DEF BeginTx
<1>3. Len(frames) = 0 /\ Len(meters) = 1 /\ Len(calls) \in Nat /\ frames = <<>>
  BY <1>2 DEF DispatchInv, Stack, Active, TypeOK
<1>4. /\ g \in Frame /\ g.id = Len(calls) + 1 /\ g.kind = "call" /\ g.base = 1
      /\ g.replyOn = "never" /\ g.events = <<>> /\ g.depth = 0 /\ g.limited = FALSE
  BY <1>1, <1>3 DEF NewFrame, Frame, ReplyOn
<1>5. Below(<<>>)
  BY <1>3, FramesBelow DEF DispatchInv
<1>6. g.depth <= MaxCallDepth
  BY <1>4, GasAssumption
<1> QED BY <1>2, <1>3, <1>4, <1>5, <1>6, ExecutePushes

(* The frame of a sub-message.                                             *)
LEMMA SubFrameFacts ==
  ASSUME DispatchInv, control = "run", NEW replyOn \in ReplyOn,
         NEW gasLimit \in GasLimits \cup {Nil}, NEW g, g = SubFrame(replyOn, gasLimit)
  PROVE  /\ g \in Frame /\ g.id = Len(calls) + 1 /\ g.kind = "call"
         /\ g.base = Len(meters) /\ g.replyOn = replyOn /\ g.events = <<>>
         /\ g.depth = Top.depth + 1 /\ g.limited = LimitsGas(gasLimit)
         /\ g.limited \in BOOLEAN /\ Len(frames) > 0 /\ Top \in Frame
         /\ g.limited => gasLimit \in Nat
<1>1. Len(frames) > 0 /\ Len(frames) \in Nat
  BY DEF DispatchInv, Stack, Active, TypeOK
<1>2. Top \in Frame
  BY <1>1 DEF DispatchInv, TypeOK, Top, Last
<1>3. Len(calls) \in Nat /\ Len(meters) \in Nat /\ Top.depth \in Nat
  BY <1>2 DEF DispatchInv, TypeOK, Frame
<1>4. PICK l \in BOOLEAN : l = LimitsGas(gasLimit)
  BY Zenon DEF LimitsGas
<1>5. g = [id |-> Len(calls) + 1, kind |-> "call", replyOn |-> replyOn,
           limited |-> l, base |-> Len(meters), depth |-> Top.depth + 1,
           left |-> 0, events |-> <<>>, last |-> 0]
  BY <1>4, Zenon DEF SubFrame, NewFrame
<1>6. g.limited => gasLimit \in Nat
  BY <1>4, <1>5, GasAssumption DEF LimitsGas
<1> QED BY <1>1, <1>2, <1>3, <1>4, <1>5, <1>6 DEF Frame

(* DispatchSubmessage begins a run.                                        *)
LEMMA DispatchPushes ==
  ASSUME DispatchInv, NEW replyOn \in ReplyOn, NEW gasLimit \in GasLimits \cup {Nil},
         NEW gasless \in Gasless, DispatchSubmessage(replyOn, gasLimit, gasless)
  PROVE  \E f : Pushes(f)
<1>1. PICK g : g = SubFrame(replyOn, gasLimit)
  OBVIOUS
<1>2. /\ control = "run" /\ Top.left > 0 /\ ~TooDeep(Top.depth + 1)
      /\ calls' = NewCall("call", replyOn) /\ Execute(Caller, g, gasLimit, gasless)
  BY <1>1 DEF DispatchSubmessage
<1>3. /\ g \in Frame /\ g.id = Len(calls) + 1 /\ g.kind = "call"
      /\ g.base = Len(meters) /\ g.replyOn = replyOn /\ g.events = <<>>
      /\ g.depth = Top.depth + 1 /\ g.limited = LimitsGas(gasLimit)
      /\ g.limited \in BOOLEAN /\ Len(frames) > 0 /\ Top \in Frame
      /\ g.limited => gasLimit \in Nat
  BY <1>1, <1>2, SubFrameFacts
<1>4. Below(Caller)
  BY <1>2, <1>3, CallerFacts DEF DispatchInv
<1>5. g.depth <= MaxCallDepth
  BY <1>2, <1>3, GasAssumption, SMTT(30) DEF TooDeep, Frame
<1>6. g.depth = IF Len(frames) = 0 THEN 0 ELSE Top.depth + 1
  BY <1>3
<1>7. g.limited => gasLimit \in Nat /\ LimitsGas(gasLimit)
  BY <1>3
<1>8. Len(frames) = 0 => ~g.limited
  BY <1>3
<1> QED BY <1>2, <1>3, <1>4, <1>5, <1>6, <1>7, <1>8, ExecutePushes

(* RefuseSubmessage begins a run that fails at once.                       *)
LEMMA RefusePushes ==
  ASSUME DispatchInv, NEW replyOn \in ReplyOn, NEW gasLimit \in GasLimits \cup {Nil},
         RefuseSubmessage(replyOn, gasLimit)
  PROVE  \E f : Pushes(f)
<1>1. PICK g : g = SubFrame(replyOn, gasLimit)
  OBVIOUS
<1>2. /\ control = "run" /\ Top.left > 0 /\ control' = "error"
      /\ calls' = NewCall("call", replyOn) /\ frames' = Append(Caller, g)
      /\ meters' = MetersFor(LimitsGas(gasLimit), gasLimit, FALSE)
      /\ caches' = Append(caches, {}) /\ spent' = spent
  BY <1>1 DEF RefuseSubmessage
<1>3. /\ g \in Frame /\ g.id = Len(calls) + 1 /\ g.kind = "call"
      /\ g.base = Len(meters) /\ g.replyOn = replyOn /\ g.events = <<>>
      /\ g.depth = Top.depth + 1 /\ g.limited = LimitsGas(gasLimit)
      /\ g.limited \in BOOLEAN /\ Len(frames) > 0 /\ Top \in Frame
      /\ g.limited => gasLimit \in Nat
  BY <1>1, <1>2, SubFrameFacts
<1>4. FramesPushed(g)
  <2>1. Below(Caller)
    BY <1>2, <1>3, CallerFacts DEF DispatchInv
  <2> QED BY <1>2, <1>3, <2>1 DEF FramesPushed
<1>5. FrameOK(g)
  BY <1>2, <1>3 DEF FrameOK, Deeper
<1>6. CallsPushed(g)
  BY <1>2, <1>3, NewCallFacts
<1>7. CachesPushed(g)
  BY <1>2, <1>3 DEF CachesPushed
<1>8. MetersPushed(g)
  <2>1. PICK ms : ms = MetersFor(g.limited, gasLimit, FALSE)
    OBVIOUS
  <2>2. meters' = ms
    BY <1>2, <1>3, <2>1
  <2>3. MetersGiven(g, ms, FALSE)
    <3>1. TypeOK /\ MayLimit(g, gasLimit)
      BY <1>3 DEF DispatchInv, MayLimit
    <3>2. GivenTo(g, gasLimit, FALSE)
      BY <3>1, MetersForFacts
    <3> QED BY <2>1, <3>2 DEF GivenTo
  <2>4. MetersUsed(g, ms, FALSE)
    BY <1>2, <1>3, <2>2 DEF MetersUsed
  <2> QED BY <2>3, <2>4 DEF MetersPushed
<1> QED BY <1>2, <1>4, <1>5, <1>6, <1>7, <1>8 DEF Pushes

(* Reply begins a run, and answers the message that waits.                 *)
LEMMA ReplyPushes ==
  ASSUME DispatchInv, Reply
  PROVE  \E f : Pushes(f)
<1>1. PICK g : g = NewFrame("reply", "never", FALSE, Len(meters), Top.depth)
  OBVIOUS
<1>2. /\ control \in {"replyOk", "replyErr"}
      /\ calls' = [NewCall("reply", "never") EXCEPT ![Top.last].replies = @ + 1]
      /\ Run(frames, g, caches, meters)
  BY <1>1 DEF Reply
<1>3. Len(frames) > 0 /\ Len(frames) \in Nat
  BY <1>2 DEF DispatchInv, Stack, Active, TypeOK
<1>4. Top \in Frame /\ Top = frames[Len(frames)]
  BY <1>3 DEF DispatchInv, TypeOK, Top, Last
<1>5. Len(calls) \in Nat /\ Len(meters) \in Nat /\ Top.depth \in Nat
  BY <1>4, SMTT(30) DEF DispatchInv, TypeOK, Frame
<1>6. /\ g \in Frame /\ g.id = Len(calls) + 1 /\ g.kind = "reply"
      /\ g.base = Len(meters) /\ g.replyOn = "never" /\ g.events = <<>>
      /\ g.depth = Top.depth /\ g.limited = FALSE
  BY <1>1, <1>5 DEF NewFrame, Frame, ReplyOn
<1>7. MetersUsed(g, meters, FALSE)
  BY <1>2, RunUses
<1>8. Returns(frames, g, caches) \/ \E how \in {"error", "panic"} : Stops(frames, g, caches, how)
  BY <1>2, RunUses
<1>9. /\ control' \in {"run", "error", "panic"}
      /\ caches' = [caches EXCEPT ![Len(caches)] = @ \cup {g.id}]
      /\ \E f \in Frame : /\ FramesPushed(f) /\ Same(f, g)
                          /\ f.events = IF control' = "run" THEN <<f.id>> ELSE <<>>
  BY <1>6, <1>8, ReturnsFacts, FramesBelow DEF DispatchInv
<1>10. PICK f \in Frame : /\ FramesPushed(f) /\ Same(f, g)
                         /\ f.events = IF control' = "run" THEN <<f.id>> ELSE <<>>
  BY <1>9
<1>11. /\ f.id = g.id /\ f.kind = "reply" /\ f.replyOn = "never"
       /\ f.limited = FALSE /\ f.base = g.base /\ f.depth = g.depth
  BY <1>6, <1>10 DEF Same
<1>12. FrameOK(f)
  <2>1. ~(Top.depth > MaxCallDepth)
    <3>1. \A i \in 1..Len(frames) : frames[i].depth > MaxCallDepth => control = "error"
      BY DEF DispatchInv, Depths
    <3>2. Len(frames) \in 1..Len(frames)
      BY <1>3
    <3> QED BY <1>2, <1>4, <3>1, <3>2
  <2>2. f.depth = Top.depth + Deeper(f)
    BY <1>5, <1>6, <1>11 DEF Deeper
  <2> QED BY <1>2, <1>3, <1>6, <1>10, <1>11, <2>1, <2>2 DEF FrameOK
<1>13. CallsPushed(f)
  BY <1>2, <1>6, <1>11, NewCallFacts DEF ReplyOn
<1>14. CachesPushed(f)
  BY <1>9, <1>11 DEF CachesPushed
<1>15. MetersPushed(f)
  <2>1. Own(f) = 0
    BY <1>11 DEF Own
  <2>2. MetersGiven(f, meters, FALSE)
    BY <1>5, <1>11, <2>1 DEF MetersGiven, DispatchInv, TypeOK
  <2>3. MetersUsed(f, meters, FALSE)
    BY <1>6, <1>7, <1>11 DEF MetersUsed
  <2> QED BY <2>2, <2>3 DEF MetersPushed
<1> QED BY <1>2, <1>9, <1>10, <1>12, <1>13, <1>14, <1>15 DEF Pushes

-----------------------------------------------------------------------------
(* Ending a run, with status st.                                           *)

(* A limited run is charged what it used, or the limit if it ran out.      *)
Charge(gas) ==
  \/ gas = meters[Top.base + 1].used
  \/ gas = meters[Top.base + 1].limit /\ control = "panic"

FramesPopped(st) ==
  LET n == Len(frames) - 1 IN
  /\ frames' \in Seq(Frame) /\ Len(frames') = n
  /\ \A i \in 1..n :
       /\ Same(frames'[i], frames[i])
       /\ i < n => frames'[i].events = frames[i].events
  /\ n > 0 => frames'[n].events = IF st = "ok" THEN frames[n].events \o Top.events
                                  ELSE frames[n].events
  /\ control' \in {"replyOk", "replyErr"} => frames'[n].last = Top.id

CachesPopped(st) ==
  IF Top.kind = "reply" THEN caches' = caches
  ELSE caches' = IF st = "ok" THEN Committed ELSE Dropped

MetersPopped ==
  \/ Top.kind = "reply" /\ meters' = meters /\ Len(frames) > 1
  \/ Len(frames) > 1 /\ ~Top.limited /\ meters' = SubSeq(meters, 1, Top.base)
  \/ /\ Len(frames) > 1 /\ Top.limited
     /\ \E gas \in Nat :
          /\ Charge(gas)
          /\ meters' = UseGas(SubSeq(meters, 1, Top.base), Top.base, gas)
          /\ control' # "panic" => ~Exceeded(meters'[Top.base])
  \/ Len(frames) = 1 /\ meters' = SubSeq(meters, 1, 1)

(* Nothing recovers from the panic here.                                   *)
Propagates == control = "panic" /\ ~Top.limited

ControlPopped(st) ==
  /\ st = "ok" => control = "run" /\ control' \in {"run", "replyOk", "committed"}
  /\ st = "failed" => control' \in {"error", "panic", "replyErr", "aborted"}
  /\ Len(frames) = 1 <=> control' \in {"committed", "aborted"}
  /\ control' = "replyOk" => Top.kind = "call" /\ Top.replyOn \in {"success", "always"}
  /\ control' = "replyErr" => Top.kind = "call" /\ Top.replyOn \in {"error", "always"}
  /\ control' = "run" /\ Top.kind = "call" => Top.replyOn \in {"error", "never"}
  /\ control' = "error" => Top.replyOn \in {"success", "never"}
  /\ Propagates => control' \in {"panic", "aborted"}

(* A panic comes from the run, or from charging its caller.                *)
PanicPopped ==
  control' = "panic" => Propagates \/ (Top.limited /\ Exceeded(meters'[Top.base]))

Pops(st) ==
  /\ st \in {"ok", "failed"}
  /\ control \in {"run", "error", "panic"}
  /\ FramesPopped(st) /\ calls' = Ended(calls, Top.id, st)
  /\ CachesPopped(st) /\ MetersPopped /\ ControlPopped(st) /\ PanicPopped
  /\ spent' = spent

(* The frames below, as they are or with what is passed on to the caller.  *)
LEMMA PassedOnFacts ==
  ASSUME TypeOK, Len(frames) > 1, NEW events \in Seq(Nat),
         frames' = PassedOn(events)
  PROVE  LET n == Len(frames) - 1 IN
         /\ frames' \in Seq(Frame) /\ Len(frames') = n
         /\ \A i \in 1..n : /\ Same(frames'[i], frames[i])
                            /\ i < n => frames'[i].events = frames[i].events
         /\ frames'[n].events = frames[n].events \o events /\ frames'[n].last = Top.id
<1>1. Len(frames) \in Nat
  BY DEF TypeOK
<1>2. PICK n \in Nat : n = Len(frames) - 1 /\ n > 0
  BY <1>1, SMTT(30)
<1>3. PICK b : b = SubSeq(frames, 1, n)
  OBVIOUS
<1>4. b \in Seq(Frame) /\ Len(b) = n /\ \A i \in 1..n : b[i] = frames[i]
  <2>1. n \in 0..Len(frames)
    BY <1>2
  <2> QED BY <1>3, <2>1, Shortened DEF TypeOK
<1>5. PICK r : r = frames[n]
  OBVIOUS
<1>6. r \in Frame /\ b[n] = r /\ Top \in Frame
  BY <1>2, <1>4, <1>5 DEF TypeOK, Top, Last
<1>7. PICK e : e = r.events \o events
  OBVIOUS
<1>8. e \in Seq(Nat) /\ Top.id \in Nat
  BY <1>6, <1>7 DEF Frame
<1>9. PICK g : g = [r EXCEPT !.events = e, !.last = Top.id]
  OBVIOUS
<1>10. g \in Frame
  <2>1. PICK l \in Nat : l = Top.id
    BY <1>8
  <2>2. g = [r EXCEPT !.events = e, !.last = l]
    BY <1>9, <2>1
  <2> QED BY <1>6, <1>8, <2>2 DEF Frame
<1>11. Same(g, r) /\ g.events = e /\ g.last = Top.id
  BY <1>6, <1>9 DEF Frame, Same
<1>12. frames' = [b EXCEPT ![n] = g]
  <2>1. frames' = [b EXCEPT ![n].events = @ \o events, ![n].last = Top.id]
    BY <1>2, <1>3 DEF PassedOn, Front
  <2>2. [b EXCEPT ![n].events = @ \o events, ![n].last = Top.id] =
          [b EXCEPT ![n] = [b[n] EXCEPT !.events = @ \o events, !.last = Top.id]]
    BY <1>2, <1>4
  <2> QED BY <1>6, <1>7, <1>9, <2>1, <2>2
<1>13. /\ frames' \in Seq(Frame) /\ Len(frames') = n /\ frames'[n] = g
       /\ \A i \in 1..n : i # n => frames'[i] = frames[i]
  BY <1>2, <1>4, <1>10, <1>12
<1>14. ASSUME NEW i \in 1..n
       PROVE  Same(frames'[i], frames[i]) /\ (i < n => frames'[i].events = frames[i].events)
  <2>1. CASE i = n
    BY <1>5, <1>11, <1>13, <2>1
  <2>2. CASE i # n
    BY <1>13, <2>2 DEF Same
  <2> QED BY <2>1, <2>2
<1> QED BY <1>2, <1>5, <1>7, <1>11, <1>13, <1>14

(* The frames below, when nothing is passed on.                            *)
LEMMA FrontFacts ==
  ASSUME TypeOK, Len(frames) > 0, frames' = Front(frames)
  PROVE  LET n == Len(frames) - 1 IN
         /\ frames' \in Seq(Frame) /\ Len(frames') = n
         /\ \A i \in 1..n : Same(frames'[i], frames[i]) /\ frames'[i].events = frames[i].events
<1>1. PICK n \in Nat : n = Len(frames) - 1
  BY SMTT(30) DEF TypeOK
<1>2. n \in 0..Len(frames) /\ frames' = SubSeq(frames, 1, n)
  BY <1>1 DEF Front
<1>3. frames' \in Seq(Frame) /\ Len(frames') = n /\ \A i \in 1..n : frames'[i] = frames[i]
  BY <1>2, Shortened DEF TypeOK
<1> QED BY <1>1, <1>3 DEF Same

(* What is known while a run ends.                                         *)
LEMMA TopFacts ==
  ASSUME DispatchInv, control \in {"run", "error", "panic"}
  PROVE  /\ Len(frames) \in Nat /\ Len(frames) > 0 /\ Top = frames[Len(frames)]
         /\ Top \in Frame /\ Len(frames) \in 1..Len(frames)
         /\ Top.base \in 1..Len(meters) /\ Top.limited \in BOOLEAN
         /\ Top.kind \in {"call", "reply"} /\ Top.events \in Seq(Nat)
         /\ Top.replyOn \in ReplyOn
         /\ Top.kind = "reply" => ~Top.limited /\ Top.replyOn = "never"
         /\ Len(frames) = 1 => Top.kind = "call" /\ ~Top.limited
         /\ Top.limited => /\ Top.base + 1 \in 1..Len(meters)
                           /\ meters[Top.base + 1].limit \in Nat
                           /\ meters[Top.base + 1].used \in Nat
         /\ Top.id \in 1..Len(calls)
<1>1. Len(frames) \in Nat /\ Len(frames) > 0 /\ Top = frames[Len(frames)]
  BY DEF DispatchInv, TypeOK, Stack, Active, Top, Last
<1>2. Len(frames) \in 1..Len(frames)
  BY <1>1
<1>3. Top \in Frame
  BY <1>1 DEF DispatchInv, TypeOK
<1>4. /\ Top.limited \in BOOLEAN /\ Top.kind \in {"call", "reply"} /\ Top.events \in Seq(Nat)
      /\ Top.replyOn \in ReplyOn /\ Top.base \in Nat
  BY <1>3 DEF Frame
<1>5. /\ Top.base >= 1 /\ Top.base + Own(Top) <= Len(meters)
      /\ Top.limited => meters[Top.base + 1].limit \in Nat
      /\ Top.kind = "reply" => ~Top.limited /\ Top.replyOn = "never"
  BY <1>1, <1>2 DEF DispatchInv, Stack
<1>6. Len(meters) \in Nat
  BY DEF DispatchInv, TypeOK
<1>7. Top.base \in 1..Len(meters) /\ (Top.limited => Top.base + 1 \in 1..Len(meters))
  BY <1>4, <1>5, <1>6 DEF Own
<1>8. Top.limited => meters[Top.base + 1].used \in Nat
  <2>1. \A i \in 1..Len(meters) : meters[i] \in Meter
    BY DEF DispatchInv, TypeOK
  <2>2. \A i \in 1..Len(meters) : meters[i].used \in Nat
    BY <2>1 DEF Meter
  <2> QED BY <1>7, <2>2
<1>9. Len(frames) = 1 => Top.kind = "call" /\ ~Top.limited
  BY <1>1 DEF DispatchInv, Stack
<1>10. Top.id \in 1..Len(calls)
  BY <1>1, <1>2 DEF DispatchInv, Records
<1> QED BY <1>1, <1>2, <1>3, <1>4, <1>5, <1>7, <1>8, <1>9, <1>10

(* How a caller goes on, by the result and by what it asked for.           *)
LEMMA AfterMessageFacts ==
  ASSUME NEW replyOn \in ReplyOn
  PROVE  /\ AfterMessage(TRUE, replyOn) \in {"replyOk", "run"}
         /\ AfterMessage(TRUE, replyOn) = "replyOk" <=> replyOn \in {"success", "always"}
         /\ AfterMessage(FALSE, replyOn) \in {"replyErr", "error"}
         /\ AfterMessage(FALSE, replyOn) = "replyErr" <=> replyOn \in {"error", "always"}
BY DEF ReplyOn, AfterMessage

(* A frame that is not the first has a caller.                             *)
LEMMA NotRoot ==
  ASSUME DispatchInv, control \in {"run", "error", "panic"}, Len(frames) # 1
  PROVE  Len(frames) > 1 /\ \E n \in Nat : n = Len(frames) - 1 /\ n > 0
<1>1. Len(frames) > 0
  BY TopFacts
<1>2. PICK m \in Nat : m = Len(frames)
  BY DEF DispatchInv, TypeOK
<1>3. m > 1
  BY <1>1, <1>2
<1> QED BY <1>2, <1>3

(* A message returns: it succeeded, or its writes and events are dropped.  *)
LEMMA EndPops ==
  ASSUME DispatchInv, control \in {"run", "error", "panic"}, NEW st \in {"ok", "failed"},
         NEW gas, Top.kind = "call", Len(frames) # 1,
         frames' = PassedOn(IF st = "ok" THEN Top.events ELSE <<>>),
         caches' = IF st = "ok" THEN Committed ELSE Dropped,
         meters' = Settled(gas), calls' = Ended(calls, Top.id, st),
         Top.limited => Charge(gas),
         Overcharged(gas) <=> control' = "panic", ControlPopped(st), spent' = spent
  PROVE  Pops(st)
<1>1. Len(frames) \in Nat /\ Len(frames) > 0
  BY TopFacts
<1>2. Top.events \in Seq(Nat)
  BY TopFacts
<1>3. /\ Top.base \in 1..Len(meters) /\ Top.limited \in BOOLEAN
      /\ Top.limited => /\ meters[Top.base + 1].limit \in Nat
                        /\ meters[Top.base + 1].used \in Nat
  BY TopFacts
<1>4. Len(frames) > 1
  BY NotRoot
<1>5. PICK ev \in Seq(Nat) : ev = IF st = "ok" THEN Top.events ELSE <<>>
  <2>1. <<>> \in Seq(Nat)
    OBVIOUS
  <2> QED BY <1>2, <2>1, Zenon
<1>6. PICK n \in Nat : n = Len(frames) - 1 /\ n > 0
  BY NotRoot
<1>7. /\ frames' \in Seq(Frame) /\ Len(frames') = n
      /\ \A i \in 1..n : /\ Same(frames'[i], frames[i])
                         /\ i < n => frames'[i].events = frames[i].events
      /\ frames'[n].events = frames[n].events \o ev /\ frames'[n].last = Top.id
  <2>1. frames' = PassedOn(ev) /\ TypeOK
    BY <1>5 DEF DispatchInv
  <2> QED BY <1>4, <1>6, <2>1, PassedOnFacts
<1>8. FramesPopped(st)
  <2>1. frames[n] \in Frame
    BY <1>6 DEF DispatchInv, TypeOK
  <2>2. frames[n].events \in Seq(Nat)
    BY <2>1 DEF Frame
  <2>3. frames[n].events \o <<>> = frames[n].events
    BY <2>2, Appended
  <2>4. frames'[n].events = IF st = "ok" THEN frames[n].events \o Top.events
                            ELSE frames[n].events
    BY <1>5, <1>7, <2>3
  <2> QED BY <1>6, <1>7, <2>4 DEF FramesPopped
<1>9. CachesPopped(st)
  BY DEF CachesPopped
<1>10. MetersPopped
  <2>1. CASE ~Top.limited
    BY <1>4, <2>1 DEF MetersPopped, Settled
  <2>2. CASE Top.limited
    <3>1. meters' = UseGas(SubSeq(meters, 1, Top.base), Top.base, gas)
      BY <2>2 DEF Settled
    <3>2. Exceeded(meters'[Top.base]) => Overcharged(gas)
      BY <2>2 DEF Overcharged
    <3>3. control' # "panic" => ~Exceeded(meters'[Top.base])
      BY <3>2
    <3>4. gas \in Nat
      BY <1>3, <2>2 DEF Charge
    <3> QED BY <1>4, <2>2, <3>1, <3>3, <3>4 DEF MetersPopped
  <2> QED BY <2>1, <2>2
<1>11. PanicPopped
  BY DEF PanicPopped, Overcharged
<1> QED BY <1>8, <1>9, <1>10, <1>11 DEF Pops

(* The control after a message has returned.                               *)
LEMMA ControlFacts ==
  ASSUME DispatchInv, control \in {"run", "error", "panic"}, Top.kind = "call",
         Len(frames) # 1
  PROVE  /\ control' = "panic" => ControlPopped("failed")
         /\ control = "run" /\ control' = AfterMessage(TRUE, Top.replyOn)
              => ControlPopped("ok")
         /\ control' = AfterMessage(FALSE, Top.replyOn) /\ ~Propagates
              => ControlPopped("failed")
         /\ \A ok \in BOOLEAN : AfterMessage(ok, Top.replyOn) # "panic"
<1>1. Top.replyOn \in ReplyOn
  BY TopFacts
<1>2. /\ AfterMessage(TRUE, Top.replyOn) \in {"replyOk", "run"}
      /\ AfterMessage(TRUE, Top.replyOn) = "replyOk"
           <=> Top.replyOn \in {"success", "always"}
      /\ AfterMessage(FALSE, Top.replyOn) \in {"replyErr", "error"}
      /\ AfterMessage(FALSE, Top.replyOn) = "replyErr"
           <=> Top.replyOn \in {"error", "always"}
  BY <1>1, AfterMessageFacts
<1>3. control' = "panic" => ControlPopped("failed")
  BY DEF ControlPopped
<1>4. control = "run" /\ control' = AfterMessage(TRUE, Top.replyOn) => ControlPopped("ok")
  BY <1>1, <1>2 DEF ControlPopped, Propagates, ReplyOn
<1>5. control' = AfterMessage(FALSE, Top.replyOn) /\ ~Propagates
        => ControlPopped("failed")
  BY <1>1, <1>2 DEF ControlPopped, ReplyOn
<1>6. \A ok \in BOOLEAN : AfterMessage(ok, Top.replyOn) # "panic"
  BY <1>2
<1> QED BY <1>3, <1>4, <1>5, <1>6

(* CompleteCall ends a run: well, or not if charging the caller runs out   *)
(* of gas.                                                                 *)
LEMMA CompleteCallPops ==
  ASSUME DispatchInv, CompleteCall
  PROVE  \E st : Pops(st)
<1>1. PICK gas : gas = SpentByTop
  OBVIOUS
<1>2. control = "run" /\ Top.left = 0 /\ EndCall(TRUE, gas)
  BY <1>1 DEF CompleteCall
<1>3. Top.kind = "call" /\ Len(frames) # 1
  BY <1>2 DEF EndCall, IsRoot
<1>4. Top.limited => Charge(gas)
  BY <1>1 DEF SpentByTop, Charge
<1>5. CASE Overcharged(gas)
  <2>1. /\ frames' = PassedOn(<<>>) /\ caches' = Dropped /\ meters' = Settled(gas)
        /\ calls' = Ended(calls, Top.id, "failed") /\ control' = "panic" /\ spent' = spent
    BY <1>2, <1>5 DEF EndCall
  <2>2. ControlPopped("failed")
    BY <1>2, <1>3, <2>1, ControlFacts
  <2> QED BY <1>2, <1>3, <1>4, <1>5, <2>1, <2>2, EndPops
<1>6. CASE ~Overcharged(gas)
  <2>1. /\ frames' = PassedOn(Top.events) /\ caches' = Committed
        /\ meters' = Settled(gas) /\ calls' = Ended(calls, Top.id, "ok")
        /\ control' = AfterMessage(TRUE, Top.replyOn) /\ spent' = spent
    BY <1>2, <1>6 DEF EndCall
  <2>2. ControlPopped("ok") /\ control' # "panic"
    BY <1>2, <1>3, <2>1, ControlFacts
  <2> QED BY <1>2, <1>3, <1>4, <1>6, <2>1, <2>2, EndPops
<1> QED BY <1>5, <1>6

(* FailCall and RecoverOutOfGas end a run that has failed.                 *)
LEMMA FailedCallPops ==
  ASSUME DispatchInv, control \in {"error", "panic"}, NEW gas, EndCall(FALSE, gas),
         ~Propagates, Top.limited => Charge(gas)
  PROVE  \E st : Pops(st)
<1>1. Top.kind = "call" /\ Len(frames) # 1
  BY DEF EndCall, IsRoot
<1>2. /\ frames' = PassedOn(<<>>) /\ caches' = Dropped /\ meters' = Settled(gas)
      /\ calls' = Ended(calls, Top.id, "failed")
      /\ control' = IF Overcharged(gas) THEN "panic" ELSE AfterMessage(FALSE, Top.replyOn)
      /\ spent' = spent
  BY DEF EndCall
<1>3. ControlPopped("failed") /\ (Overcharged(gas) <=> control' = "panic")
  <2>1. CASE Overcharged(gas)
    BY <1>1, <1>2, <2>1, ControlFacts
  <2>2. CASE ~Overcharged(gas)
    BY <1>1, <1>2, <2>2, ControlFacts
  <2> QED BY <2>1, <2>2
<1> QED BY <1>1, <1>2, <1>3, EndPops

(* A reply ends in the context of its contract.                            *)
LEMMA ReplyPops ==
  ASSUME DispatchInv, CompleteReply \/ FailReply
  PROVE  \E st : Pops(st)
<1>1. control \in {"run", "error"} /\ Top.kind = "reply"
  BY DEF CompleteReply, FailReply
<1>2. Top.events \in Seq(Nat) /\ Top.replyOn = "never"
  BY <1>1, TopFacts
<1>3. Len(frames) # 1
  BY <1>1, TopFacts
<1>4. Len(frames) > 1
  BY <1>1, <1>3, NotRoot
<1>5. UNCHANGED <<caches, meters, control, spent>>
  BY DEF CompleteReply, FailReply
<1>6. MetersPopped /\ PanicPopped
  BY <1>1, <1>4, <1>5 DEF MetersPopped, PanicPopped
<1>7. \A st : CachesPopped(st)
  BY <1>1, <1>5 DEF CachesPopped
<1>8. CASE CompleteReply
  <2>1. frames' = PassedOn(Top.events) /\ calls' = Ended(calls, Top.id, "ok") /\ control = "run"
    BY <1>8 DEF CompleteReply
  <2>2. FramesPopped("ok")
    BY <1>2, <1>4, <1>5, <2>1, PassedOnFacts DEF FramesPopped, DispatchInv
  <2>3. ControlPopped("ok")
    BY <1>1, <1>2, <1>3, <1>5, <2>1 DEF ControlPopped, Propagates
  <2> QED BY <1>1, <1>5, <1>6, <1>7, <2>1, <2>2, <2>3 DEF Pops
<1>9. CASE FailReply
  <2>1. frames' = Front(frames) /\ calls' = Ended(calls, Top.id, "failed") /\ control = "error"
    BY <1>9 DEF FailReply
  <2>2. FramesPopped("failed")
    BY <1>2, <1>4, <1>5, <2>1, FrontFacts, SMTT(30) DEF FramesPopped, DispatchInv
  <2>3. ControlPopped("failed")
    BY <1>1, <1>2, <1>3, <1>5, <2>1 DEF ControlPopped, Propagates
  <2> QED BY <1>1, <1>5, <1>6, <1>7, <2>1, <2>2, <2>3 DEF Pops
<1> QED BY <1>8, <1>9

(* Unwind ends a run that has failed.                                      *)
LEMMA UnwindPops ==
  ASSUME DispatchInv, Unwind
  PROVE  \E st : Pops(st)
<1>1. /\ control = "panic" /\ Len(frames) # 1 /\ ~Top.limited /\ control' = control
      /\ frames' = Front(frames) /\ calls' = Ended(calls, Top.id, "failed")
      /\ spent' = spent
  BY DEF Unwind, IsRoot
<1>2. Top.kind \in {"call", "reply"}
  BY <1>1, TopFacts
<1>3. Len(frames) > 1
  <2>1. Len(frames) # 1
    BY <1>1, TopFacts
  <2> QED BY <1>1, <2>1, NotRoot
<1>4. FramesPopped("failed")
  BY <1>1, <1>3, FrontFacts DEF FramesPopped, DispatchInv
<1>5. ControlPopped("failed") /\ PanicPopped
  BY <1>1 DEF ControlPopped, PanicPopped, Propagates
<1>6. CASE Top.kind = "call"
  <2>1. meters' = Settled(0) /\ caches' = Dropped
    BY <1>6 DEF Unwind
  <2>2. MetersPopped
    BY <1>1, <1>3, <2>1 DEF MetersPopped, Settled
  <2>3. CachesPopped("failed")
    BY <1>6, <2>1 DEF CachesPopped
  <2> QED BY <1>1, <1>4, <1>5, <2>2, <2>3 DEF Pops
<1>7. CASE Top.kind = "reply"
  <2>1. UNCHANGED <<meters, caches>>
    BY <1>7 DEF Unwind
  <2>2. MetersPopped
    BY <1>3, <1>7, <2>1 DEF MetersPopped
  <2>3. CachesPopped("failed")
    BY <1>7, <2>1 DEF CachesPopped
  <2> QED BY <1>1, <1>4, <1>5, <2>2, <2>3 DEF Pops
<1> QED BY <1>2, <1>6, <1>7

(* The transaction ends.                                                   *)
LEMMA EndTxPops ==
  ASSUME DispatchInv, EndTx
  PROVE  \E st : Pops(st)
<1>1. /\ Len(frames) = 1 /\ frames' = <<>> /\ meters' = SubSeq(meters, 1, 1)
      /\ control \in {"run", "error", "panic"} /\ spent' = spent
  BY DEF EndTx, IsRoot
<1>2. PICK st \in {"ok", "failed"} :
        /\ calls' = Ended(calls, Top.id, st)
        /\ caches' = IF st = "ok" THEN Committed ELSE Dropped
        /\ st = "ok" => control = "run" /\ control' = "committed"
        /\ st = "failed" => control' = "aborted"
  <2>1. CASE control = "run"
    BY <2>1 DEF EndTx
  <2>2. CASE control # "run"
    BY <2>2 DEF EndTx
  <2> QED BY <2>1, <2>2
<1>3. Top.kind = "call"
  BY <1>1, TopFacts
<1>4. FramesPopped(st)
  BY <1>1, <1>2 DEF FramesPopped
<1>5. CachesPopped(st) /\ MetersPopped
  BY <1>1, <1>2, <1>3 DEF CachesPopped, MetersPopped
<1>6. ControlPopped(st) /\ PanicPopped
  <2>1. CASE st = "ok"
    BY <1>1, <1>2, <2>1 DEF ControlPopped, PanicPopped, Propagates
  <2>2. CASE st = "failed"
    BY <1>1, <1>2, <2>2 DEF ControlPopped, PanicPopped
  <2> QED BY <2>1, <2>2
<1> QED BY <1>1, <1>2, <1>4, <1>5, <1>6 DEF Pops

(* Every step begins a run or ends one.                                    *)
LEMMA StepCases ==
  ASSUME DispatchInv, Step
  PROVE  (\E f : Pushes(f)) \/ (\E st : Pops(st))
<1>1. CASE \E gasless \in Gasless : BeginTx(gasless)
  BY <1>1, BeginPushes
<1>2. CASE \E replyOn \in ReplyOn, gasLimit \in GasLimits \cup {Nil}, gasless \in Gasless :
             DispatchSubmessage(replyOn, gasLimit, gasless)
  BY <1>2, DispatchPushes
<1>3. CASE \E replyOn \in ReplyOn, gasLimit \in GasLimits \cup {Nil} :
             RefuseSubmessage(replyOn, gasLimit)
  BY <1>3, RefusePushes
<1>4. CASE Reply
  BY <1>4, ReplyPushes
<1>5. CASE CompleteCall
  BY <1>5, CompleteCallPops
<1>6. CASE FailCall
  <2>1. PICK gas : gas = SpentByTop
    OBVIOUS
  <2>2. control = "error" /\ ~Propagates /\ EndCall(FALSE, gas)
    BY <1>6, <2>1 DEF FailCall, Propagates
  <2>3. Top.limited => Charge(gas)
    BY <2>1 DEF SpentByTop, Charge
  <2> QED BY <2>2, <2>3, FailedCallPops
<1>7. CASE RecoverOutOfGas
  <2>1. PICK gas : gas = meters[Top.base + 1].limit
    OBVIOUS
  <2>2. control = "panic" /\ ~Propagates /\ EndCall(FALSE, gas)
    BY <1>7, <2>1 DEF RecoverOutOfGas, Propagates
  <2>3. Charge(gas)
    BY <2>1, <2>2 DEF Charge
  <2> QED BY <2>2, <2>3, FailedCallPops
<1>8. CASE CompleteReply \/ FailReply
  BY <1>8, ReplyPops
<1>9. CASE Unwind
  BY <1>9, UnwindPops
<1>10. CASE EndTx
  BY <1>10, EndTxPops
<1> QED BY <1>1, <1>2, <1>3, <1>4, <1>5, <1>6, <1>7, <1>8, <1>9, <1>10 DEF Step

-----------------------------------------------------------------------------
(* The gas meters after a step.                                            *)

(* The meter that a new run uses.                                          *)
Charged(f) == Len(meters) + Own(f)

(* ms differs from meters' at most in what has been used on meter k.       *)
Charges(ms, k) ==
  /\ meters' \in Seq(Meter) /\ Len(meters') = Len(ms)
  /\ meters'[k].limit = ms[k].limit
  /\ \A i \in 1..Len(ms) : i # k => meters'[i] = ms[i]

(* What it means to set what has been used on a meter.                     *)
LEMMA UsedFacts ==
  ASSUME NEW ms \in Seq(Meter), NEW k \in 1..Len(ms), NEW v \in Nat,
         meters' = [ms EXCEPT ![k].used = v]
  PROVE  Charges(ms, k) /\ meters'[k].used = v
<1>1. PICK q : q = [ms[k] EXCEPT !.used = v]
  OBVIOUS
<1>2. ms[k] \in Meter
  OBVIOUS
<1>3. q \in Meter /\ q.limit = ms[k].limit /\ q.used = v
  BY <1>1, <1>2 DEF Meter
<1>4. meters' = [ms EXCEPT ![k] = q]
  BY <1>1
<1> QED BY <1>3, <1>4 DEF Charges

(* The run has not used more than it may, or does not go on.               *)
Stopped(k) == Exceeded(meters'[k]) => control' # "run"

StopsAtLimit(f) == control' = "panic" \/ (control' = "error" /\ f.limited)

Bounded(f, k) ==
  TRUE \notin Gasless =>
    /\ meters'[k].limit \in Nat /\ meters'[k].used <= meters'[k].limit
    /\ meters'[k].used = meters'[k].limit => StopsAtLimit(f)

MetersBegun(f) ==
  /\ meters' \in Seq(Meter) /\ Charged(f) \in 1..Len(meters')
  /\ \A i \in 1..Len(meters) : i # Charged(f) => meters'[i] = meters[i]
  /\ \A i \in 1..Len(meters) : meters'[i].limit = meters[i].limit
  /\ \A i \in 1..Len(meters') : i > Charged(f) =>
       IsInfinite(meters'[i]) /\ TRUE \in Gasless
  /\ f.limited => /\ meters'[Len(meters) + 1].limit \in Nat
                  /\ LimitsGas(meters'[Len(meters) + 1].limit)
  /\ Stopped(Charged(f)) /\ Bounded(f, Charged(f))

(* The meters ms are those of a run that is, or is not, gasless.           *)
RunMeters(f, ms)     == MetersGiven(f, ms, FALSE) /\ MetersUsed(f, ms, FALSE)
GaslessMeters(f, ms) == MetersGiven(f, ms, TRUE) /\ MetersUsed(f, ms, TRUE)

ChargedWell(f, ms, k) == Charges(ms, k) /\ Stopped(k) /\ Bounded(f, k)

(* There is a meter.                                                       *)
LEMMA SomeMeter ==
  ASSUME DispatchInv
  PROVE  Len(meters) \in Nat /\ Len(meters) >= 1
<1>1. Len(meters) \in Nat /\ Len(frames) \in Nat
  BY DEF DispatchInv, TypeOK
<1>2. CASE Len(frames) = 0
  BY <1>1, <1>2 DEF DispatchInv, Stack
<1>3. CASE Len(frames) # 0
  <2>1. 1 \in 1..Len(frames)
    BY <1>1, <1>3
  <2>2. /\ frames[1].base >= 1 /\ frames[1].base + Own(frames[1]) <= Len(meters)
        /\ frames[1] \in Frame
    BY <2>1 DEF DispatchInv, TypeOK, Stack
  <2>3. Own(frames[1]) \in {0, 1} /\ frames[1].base \in Nat
    BY <2>2 DEF Own, Frame
  <2> QED BY <1>1, <2>2, <2>3
<1> QED BY <1>2, <1>3

(* Running a contract with the meters ms, the k-th of which it uses.       *)
LEMMA RunCharges ==
  ASSUME DispatchInv, NEW f \in Frame, NEW ms, NEW k \in Nat, k = Charged(f),
         RunMeters(f, ms)
  PROVE  ChargedWell(f, ms, k)
<1>1. /\ MetersGiven(f, ms, FALSE) /\ MetersUsed(f, ms, FALSE)
      /\ f.limited \in BOOLEAN
  BY DEF RunMeters, Frame
<1>2. Len(meters) \in Nat /\ Len(meters) >= 1
  BY SomeMeter
<1>3. Own(f) \in {0, 1}
  BY <1>1 DEF Own
<1>4. ms \in Seq(Meter) /\ Len(ms) = k /\ k \in 1..Len(ms)
  BY <1>1, <1>2, <1>3 DEF MetersGiven, Charged
<1>5. ms[k] \in Meter
  BY <1>4
<1>6. ms[k].used \in Nat /\ ms[k].limit \in Nat \cup {Nil}
  BY <1>5 DEF Meter
<1>7. TRUE \notin Gasless => ms[k].limit \in Nat
  <2>1. CASE f.limited
    BY <1>1, <2>1 DEF MetersGiven, Charged, Own
  <2>2. CASE ~f.limited
    BY <1>1, <1>2, <2>2 DEF MetersGiven, Charged, Own, DispatchInv, Margins
  <2> QED BY <1>1, <2>1, <2>2
<1>8. ASSUME NEW cost \in Nat \ {0}, RunsOut(ms[k], cost), control' = "panic",
             meters' = [ms EXCEPT ![k].used = ms[k].limit]
      PROVE  ChargedWell(f, ms, k)
  <2>1. PICK v \in Nat : v = ms[k].limit
    BY <1>6, <1>8 DEF RunsOut, IsInfinite
  <2>2. Charges(ms, k) /\ meters'[k].used = v
    <3>1. meters' = [ms EXCEPT ![k].used = v]
      BY <1>8, <2>1
    <3> QED BY <1>4, <3>1, UsedFacts, ZenonT(30)
  <2>3. meters'[k].limit = v
    BY <2>1, <2>2 DEF Charges
  <2>4. Stopped(k)
    BY <1>8 DEF Stopped
  <2>5. Bounded(f, k)
    <3>1. StopsAtLimit(f)
      BY <1>8 DEF StopsAtLimit
    <3> QED BY <2>2, <2>3, <3>1 DEF Bounded
  <2> QED BY <2>2, <2>4, <2>5 DEF ChargedWell
<1>9. ASSUME NEW cost \in Nat \ {0}, ~RunsOut(ms[k], cost), meters' = UseGas(ms, k, cost)
      PROVE  ChargedWell(f, ms, k)
  <2>1. PICK v \in Nat : v = ms[k].used + cost
    BY <1>6
  <2>2. meters' = [ms EXCEPT ![k].used = v]
    BY <1>9, <2>1 DEF UseGas
  <2>3. Charges(ms, k) /\ meters'[k].used = v
    BY <1>4, <2>2, UsedFacts, ZenonT(30)
  <2>4. ms[k].limit = Nil \/ v < ms[k].limit
    BY <1>6, <1>9, <2>1 DEF RunsOut, IsInfinite
  <2>5. ~Exceeded(meters'[k])
    BY <1>6, <2>3, <2>4 DEF Exceeded, IsInfinite, Charges
  <2>6. TRUE \notin Gasless => v < ms[k].limit
    BY <1>7, <2>4, GasAssumption
  <2>7. Bounded(f, k)
    BY <1>7, <2>3, <2>6 DEF Charges, Bounded
  <2> QED BY <2>3, <2>5, <2>7 DEF Stopped, ChargedWell
<1>10. ASSUME control = "run", control' = "error", meters' = ms
       PROVE  ChargedWell(f, ms, k)
  <2>1. Charges(ms, k) /\ Stopped(k)
    BY <1>4, <1>10 DEF Charges, Stopped
  <2>2. CASE f.limited
    <3>1. ms[k].used = 0 /\ ms[k].limit \in Nat
      BY <1>1, <2>2 DEF MetersGiven, Charged, Own
    <3>2. meters'[k].used = 0 /\ meters'[k].limit \in Nat
      BY <1>10, <3>1
    <3>3. Bounded(f, k)
      BY <1>10, <2>2, <3>2 DEF Bounded, StopsAtLimit
    <3> QED BY <2>1, <3>3 DEF ChargedWell
  <2>3. CASE ~f.limited
    <3>1. k = Len(meters) /\ ms[k] = meters[k]
      BY <1>1, <1>2, <2>3 DEF MetersGiven, Charged, Own
    <3>2. TRUE \notin Gasless =>
            /\ meters[k].limit \in Nat /\ meters[k].used <= meters[k].limit
            /\ meters[k].used # meters[k].limit
      BY <1>2, <1>10, <3>1 DEF DispatchInv, Margins
    <3>3. Bounded(f, k)
      BY <1>10, <3>1, <3>2 DEF Bounded
    <3> QED BY <2>1, <3>3 DEF ChargedWell
  <2> QED BY <1>1, <2>2, <2>3
<1> QED BY <1>1, <1>4, <1>8, <1>9, <1>10 DEF MetersUsed

(* A gasless contract charges the meter below its infinite one.            *)
LEMMA GaslessCharges ==
  ASSUME DispatchInv, NEW f \in Frame, NEW ms, NEW k \in Nat, k = Charged(f),
         GaslessMeters(f, ms)
  PROVE  ChargedWell(f, ms, k)
<1>1. /\ MetersGiven(f, ms, TRUE) /\ MetersUsed(f, ms, TRUE)
      /\ f.limited \in BOOLEAN
  BY DEF GaslessMeters, Frame
<1>2. Len(meters) \in Nat /\ Len(meters) >= 1
  BY SomeMeter
<1>3. Own(f) \in {0, 1}
  BY <1>1 DEF Own
<1>4. TRUE \in Gasless
  BY <1>1 DEF MetersGiven
<1>5. ms \in Seq(Meter) /\ Len(ms) = k + 1 /\ k \in 1..Len(ms)
  BY <1>1, <1>2, <1>3 DEF MetersGiven, Charged
<1>6. PICK cost \in Nat \ {0} :
        /\ meters' = UseGas(ms, Len(ms) - 1, cost)
        /\ Exceeded(meters'[Len(ms) - 1]) => control' # "run"
  BY <1>1, Zenon DEF MetersUsed
<1>7. Len(ms) - 1 = k
  BY <1>5
<1>8. meters' = UseGas(ms, k, cost) /\ (Exceeded(meters'[k]) => control' # "run")
  BY <1>6, <1>7
<1>9. ms[k] \in Meter
  BY <1>5
<1>10. ms[k].used \in Nat
  BY <1>9 DEF Meter
<1>11. PICK v \in Nat : v = ms[k].used + cost
  BY <1>10
<1>12. meters' = [ms EXCEPT ![k].used = v]
  BY <1>8, <1>11 DEF UseGas
<1>13. Charges(ms, k)
  BY <1>5, <1>12, UsedFacts
<1>14. Bounded(f, k)
  BY <1>4 DEF Bounded
<1> QED BY <1>8, <1>13, <1>14 DEF Stopped, ChargedWell

(* The meters once f has begun.                                            *)
LEMMA BegunFacts ==
  ASSUME DispatchInv, NEW f, Pushes(f)
  PROVE  MetersBegun(f)
<1>1. PICK ms, gasless : MetersGiven(f, ms, gasless) /\ MetersUsed(f, ms, gasless)
  BY DEF Pushes, MetersPushed
<1>2. Len(meters) \in Nat /\ Len(meters) >= 1
  BY SomeMeter
<1>3. f \in Frame
  BY DEF Pushes, FramesPushed
<1>4. f.limited \in BOOLEAN
  BY <1>3 DEF Frame
<1>5. Own(f) \in {0, 1} /\ (f.limited => Own(f) = 1)
  BY <1>4 DEF Own
<1>6. PICK k \in Nat : k = Charged(f)
  BY <1>2, <1>5 DEF Charged
<1>7. gasless \in BOOLEAN
  BY <1>1 DEF MetersGiven
<1>8. /\ ChargedWell(f, ms, k)
      /\ ms \in Seq(Meter) /\ Len(ms) \in {k, k + 1}
      /\ Len(ms) = k + 1 => IsInfinite(ms[k + 1]) /\ TRUE \in Gasless
  <2>1. CASE gasless = TRUE
    <3>1. GaslessMeters(f, ms)
      BY <1>1, <2>1 DEF GaslessMeters
    <3>2. /\ ms \in Seq(Meter) /\ Len(ms) = k + 1
          /\ IsInfinite(ms[Len(ms)]) /\ TRUE \in Gasless
      BY <1>1, <1>6, <2>1 DEF MetersGiven, Charged
    <3>3. ChargedWell(f, ms, k)
      BY <1>3, <1>6, <3>1, GaslessCharges
    <3> QED BY <3>2, <3>3
  <2>2. CASE gasless = FALSE
    <3>1. RunMeters(f, ms)
      BY <1>1, <2>2 DEF RunMeters
    <3>2. ms \in Seq(Meter) /\ Len(ms) = k
      BY <1>1, <1>2, <1>5, <1>6, <2>2 DEF MetersGiven, Charged
    <3>3. ChargedWell(f, ms, k)
      BY <1>3, <1>6, <3>1, RunCharges
    <3>4. k # k + 1
      OBVIOUS
    <3> QED BY <3>2, <3>3, <3>4
  <2> QED BY <1>7, <2>1, <2>2
<1>9. /\ \A i \in 1..Len(meters) : ms[i] = meters[i]
      /\ f.limited => /\ ms[Len(meters) + 1].limit \in Nat
                      /\ LimitsGas(ms[Len(meters) + 1].limit)
  BY <1>1 DEF MetersGiven
<1>10. /\ meters' \in Seq(Meter) /\ Len(meters') = Len(ms)
       /\ meters'[k].limit = ms[k].limit
       /\ \A i \in 1..Len(ms) : i # k => meters'[i] = ms[i]
  BY <1>8 DEF Charges, ChargedWell
<1>11. k = Len(meters) + Own(f) /\ Len(meters) <= k /\ k \in 1..Len(meters')
  BY <1>2, <1>5, <1>6, <1>8, <1>10 DEF Charged
<1>12. \A i \in 1..Len(meters) : i # k => meters'[i] = meters[i]
  BY <1>2, <1>8, <1>9, <1>10, <1>11
<1>13. \A i \in 1..Len(meters) : meters'[i].limit = meters[i].limit
  BY <1>2, <1>9, <1>10, <1>12
<1>14. ASSUME NEW i \in 1..Len(meters'), i > k
       PROVE  IsInfinite(meters'[i]) /\ TRUE \in Gasless
  <2>1. Len(ms) = k + 1 /\ i = k + 1
    BY <1>8, <1>10, <1>14
  <2>2. meters'[i] = ms[k + 1]
    BY <1>10, <1>14, <2>1
  <2> QED BY <1>8, <2>1, <2>2
<1>15. f.limited => meters'[Len(meters) + 1].limit = ms[Len(meters) + 1].limit
  BY <1>5, <1>10, <1>11
<1> QED BY <1>6, <1>8, <1>9, <1>10, <1>11, <1>12, <1>13, <1>14, <1>15 DEF MetersBegun, ChargedWell

(* The meters once the top frame has ended.                                *)
Settles(b) ==
  /\ \/ meters'[b].used = meters[b].used + meters[b + 1].used
     \/ meters'[b].used = meters[b].used + meters[b + 1].limit /\ control = "panic"
  /\ control' # "panic" => ~Exceeded(meters'[b])

MetersEnded(b) ==
  /\ meters' \in Seq(Meter) /\ Len(meters') \in b..Len(meters)
  /\ Top.kind = "call" => Len(meters') = b
  /\ \A i \in 1..Len(meters') : meters'[i].limit = meters[i].limit
  /\ \A i \in 1..Len(meters') : (Top.limited => i # b) => meters'[i] = meters[i]
  /\ Top.limited => Settles(b)

(* The meters once the top frame has ended.                                *)
LEMMA EndedMeters ==
  ASSUME DispatchInv, NEW st, Pops(st), NEW b \in Nat, b = Top.base
  PROVE  MetersEnded(b)
<1>1. control \in {"run", "error", "panic"} /\ MetersPopped
  BY DEF Pops
<1>2. /\ b \in 1..Len(meters) /\ Top.limited \in BOOLEAN
      /\ Top.kind = "reply" => ~Top.limited
      /\ Len(frames) = 1 => Top.kind = "call" /\ ~Top.limited
  BY <1>1, TopFacts
<1>3. Top.limited => /\ b + 1 \in 1..Len(meters)
                     /\ meters[b + 1].limit \in Nat /\ meters[b + 1].used \in Nat
  BY <1>1, TopFacts
<1>4. meters \in Seq(Meter) /\ Len(meters) \in Nat
  BY DEF DispatchInv, TypeOK
<1>5. PICK kept : kept = SubSeq(meters, 1, b)
  OBVIOUS
<1>6. kept \in Seq(Meter) /\ Len(kept) = b /\ \A i \in 1..b : kept[i] = meters[i]
  <2>1. b \in 0..Len(meters)
    BY <1>2
  <2> QED BY <1>4, <1>5, <2>1, Shortened
<1>7. CASE Top.kind = "reply" /\ meters' = meters
  BY <1>2, <1>4, <1>7 DEF MetersEnded
<1>8. CASE ~Top.limited /\ meters' = kept
  BY <1>2, <1>4, <1>6, <1>8 DEF MetersEnded
<1>9. CASE /\ Top.limited
           /\ \E gas \in Nat :
                /\ gas = meters[b + 1].used \/ (gas = meters[b + 1].limit /\ control = "panic")
                /\ meters' = UseGas(kept, b, gas)
                /\ control' # "panic" => ~Exceeded(meters'[b])
  <2>1. PICK gas \in Nat :
                /\ gas = meters[b + 1].used \/ (gas = meters[b + 1].limit /\ control = "panic")
                /\ meters' = UseGas(kept, b, gas)
                /\ control' # "panic" => ~Exceeded(meters'[b])
    BY <1>9
  <2>2. kept[b] \in Meter /\ kept[b] = meters[b]
    BY <1>2, <1>6
  <2>3. PICK v \in Nat : v = meters[b].used + gas
    BY <2>2 DEF Meter
  <2>4. meters' = [kept EXCEPT ![b].used = v]
    BY <2>1, <2>2, <2>3 DEF UseGas
  <2>5. b \in 1..Len(kept)
    BY <1>2, <1>6
  <2>6. Charges(kept, b) /\ meters'[b].used = v
    BY <1>6, <2>4, <2>5, UsedFacts
  <2>7. Settles(b)
    BY <2>1, <2>3, <2>6 DEF Settles
  <2>8. /\ meters' \in Seq(Meter) /\ Len(meters') = b
        /\ \A i \in 1..b : meters'[i].limit = meters[i].limit
        /\ \A i \in 1..b : i # b => meters'[i] = meters[i]
    BY <1>6, <2>5, <2>6 DEF Charges
  <2> QED BY <1>2, <1>4, <1>9, <2>7, <2>8 DEF MetersEnded
<1>10. Len(frames) = 1 => b = 1
  BY <1>1, TopFacts DEF DispatchInv, Stack
<1> QED BY <1>1, <1>2, <1>5, <1>7, <1>8, <1>9, <1>10 DEF MetersPopped, Charge

(* The records once the top frame has ended.                               *)
CallsEnded(st) ==
  /\ calls' \in Seq(Call) /\ Len(calls') = Len(calls)
  /\ \A x \in 1..Len(calls) :
       /\ calls'[x].parent = calls[x].parent /\ calls'[x].within = calls[x].within
       /\ calls'[x].kind = calls[x].kind /\ calls'[x].replyOn = calls[x].replyOn
       /\ calls'[x].replies = calls[x].replies
       /\ calls'[x].status = IF x = Top.id THEN st ELSE calls[x].status

(* Only the status of the run that ends changes.                           *)
LEMMA EndedCalls ==
  ASSUME DispatchInv, NEW st, Pops(st)
  PROVE  CallsEnded(st)
<1>1. st \in {"ok", "failed"} /\ calls' = Ended(calls, Top.id, st)
  BY DEF Pops
<1>2. PICK t \in 1..Len(calls) : t = Top.id
  BY TopFacts DEF Pops
<1>3. calls \in Seq(Call) /\ calls[t] \in Call
  BY <1>2 DEF DispatchInv, TypeOK
<1>4. PICK r : r = [calls[t] EXCEPT !.status = st]
  OBVIOUS
<1>5. /\ r \in Call /\ r.parent = calls[t].parent /\ r.within = calls[t].within
      /\ r.kind = calls[t].kind /\ r.replyOn = calls[t].replyOn
      /\ r.replies = calls[t].replies /\ r.status = st
  BY <1>1, <1>3, <1>4 DEF Call
<1>6. calls' = [calls EXCEPT ![t] = r]
  BY <1>1, <1>2, <1>4 DEF Ended
<1>7. /\ calls' \in Seq(Call) /\ Len(calls') = Len(calls) /\ calls'[t] = r
      /\ \A x \in 1..Len(calls) : x # t => calls'[x] = calls[x]
  BY <1>3, <1>5, <1>6
<1> QED BY <1>2, <1>5, <1>7 DEF CallsEnded

-----------------------------------------------------------------------------
(* Beginning a run preserves the invariant.                                *)

(* Types, and the number of caches.                                        *)
LEMMA PushTypes ==
  ASSUME DispatchInv, NEW f, Pushes(f)
  PROVE  /\ TypeOK' /\ f \in Frame
         /\ Len(caches') = Len(caches) + Deeper(f)
<1>1. frames' \in Seq(Frame) /\ f \in Frame
  BY AfterPush DEF Pushes, DispatchInv
<1>2. meters' \in Seq(Meter)
  BY BegunFacts DEF MetersBegun
<1>3. calls' \in Seq(Call)
  BY DEF Pushes, CallsPushed
<1>4. control' \in {"run", "error", "panic"}
  BY DEF Pushes
<1>5. PICK cs : cs = IF f.kind = "call" THEN Append(caches, {}) ELSE caches
  OBVIOUS
<1>6. caches \in Seq(SUBSET Nat) /\ Len(caches) \in Nat /\ Len(caches) > 0
  <2>1. caches \in Seq(SUBSET Nat) /\ Len(caches) \in Nat
    BY DEF DispatchInv, TypeOK
  <2>2. Len(frames) \in Nat
    BY DEF DispatchInv, TypeOK
  <2>3. CASE Len(frames) = 0
    BY <2>1, <2>3 DEF DispatchInv, Stack
  <2>4. CASE Len(frames) > 0
    <3>1. Len(caches) = Top.depth + 2 /\ Top \in Frame
      BY <2>2, <2>4 DEF DispatchInv, Stack, TypeOK, Top, Last
    <3>2. Top.depth \in Nat
      BY <3>1 DEF Frame
    <3> QED BY <2>1, <3>1, <3>2
  <2> QED BY <2>1, <2>2, <2>3, <2>4
<1>7. cs \in Seq(SUBSET Nat) /\ Len(cs) = Len(caches) + Deeper(f) /\ Len(cs) > 0
  <2>1. CASE f.kind = "call"
    <3>1. {} \in SUBSET Nat
      OBVIOUS
    <3>2. Append(caches, {}) \in Seq(SUBSET Nat) /\ Len(Append(caches, {})) = Len(caches) + 1
      BY <1>6, <3>1, Appended
    <3> QED BY <1>5, <1>6, <2>1, <3>2 DEF Deeper
  <2>2. CASE f.kind # "call"
    BY <1>5, <1>6, <2>2 DEF Deeper
  <2> QED BY <2>1, <2>2
<1>8. f.id \in Nat
  BY <1>1 DEF Frame
<1>9. caches' = cs \/ caches' = [cs EXCEPT ![Len(cs)] = @ \cup {f.id}]
  BY <1>5 DEF Pushes, CachesPushed
<1>10. caches' \in Seq(SUBSET Nat) /\ Len(caches') = Len(cs)
  <2>1. PICK c \in SUBSET Nat : c = cs[Len(cs)] \cup {f.id}
    <3>1. Len(cs) \in 1..Len(cs)
      BY <1>7
    <3>2. cs[Len(cs)] \in SUBSET Nat
      BY <1>7, <3>1
    <3> QED BY <1>8, <3>2
  <2>2. caches' = cs \/ caches' = [cs EXCEPT ![Len(cs)] = c]
    BY <1>9, <2>1
  <2>3. CASE caches' = cs
    BY <1>7, <2>3
  <2>4. CASE caches' = [cs EXCEPT ![Len(cs)] = c]
    BY <1>7, <2>4
  <2> QED BY <2>2, <2>3, <2>4
<1> QED BY <1>1, <1>2, <1>3, <1>4, <1>7, <1>10 DEF TypeOK

(* The frames below keep what the invariant says of them.                  *)
LEMMA SameFacts ==
  ASSUME NEW f, NEW g, Same(f, g)
  PROVE  Own(f) = Own(g) /\ Deeper(f) = Deeper(g)
BY DEF Same, Own, Deeper

(* The fields of a frame.                                                  *)
LEMMA OwnFacts ==
  ASSUME NEW f \in Frame
  PROVE  /\ Own(f) \in {0, 1} /\ Deeper(f) \in {0, 1}
         /\ f.base \in Nat /\ f.depth \in Nat /\ f.id \in Nat /\ f.limited \in BOOLEAN
         /\ f.limited => Own(f) = 1
         /\ ~f.limited => Own(f) = 0
         /\ f.kind = "reply" => Deeper(f) = 0
         /\ f.kind = "call" => Deeper(f) = 1
BY DEF Frame, Own, Deeper

(* The new frame starts where the meters and caches in use end.            *)
LEMMA PushStack ==
  ASSUME DispatchInv, NEW f, Pushes(f)
  PROVE  Stack'
<1>1. PICK n \in Nat : n = Len(frames)
  BY DEF DispatchInv, TypeOK
<1>2. /\ frames' \in Seq(Frame) /\ Len(frames') = n + 1 /\ f \in Frame
      /\ frames'[n + 1] = f /\ Top' = f
      /\ \A i \in 1..n : Same(frames'[i], frames[i])
  BY <1>1, AfterPush DEF Pushes, DispatchInv
<1>3. /\ f.base = Len(meters) /\ f.depth = IF n = 0 THEN 0 ELSE Top.depth + Deeper(f)
      /\ f.kind = "reply" => ~f.limited /\ f.replyOn = "never"
      /\ n = 0 => ~f.limited
  BY <1>1 DEF Pushes, FrameOK
<1>4. Len(meters) \in Nat /\ Len(meters) >= 1
  BY SomeMeter
<1>5. /\ meters' \in Seq(Meter) /\ Len(meters) + Own(f) \in 1..Len(meters')
      /\ \A i \in 1..Len(meters) : meters'[i].limit = meters[i].limit
      /\ f.limited => meters'[Len(meters) + 1].limit \in Nat
  BY BegunFacts DEF MetersBegun, Charged
<1>6. Own(f) \in {0, 1} /\ Deeper(f) \in {0, 1} /\ f.depth \in Nat
  BY <1>2, OwnFacts
<1>7. Len(meters') \in Nat /\ Len(meters') >= Len(meters) + Own(f)
  BY <1>4, <1>5, <1>6
<1>8. Active' /\ Len(frames') > 0
  BY <1>1, <1>2 DEF Pushes, Active
<1>9. n = 0 => f.kind = "call"
  BY <1>1 DEF Pushes, FrameOK, DispatchInv, Stack, Active
<1>10. \A i \in 1..n : frames[i] \in Frame
  BY <1>1 DEF DispatchInv, TypeOK
<1>11. ASSUME NEW i \in 1..n
       PROVE  /\ frames[i].base >= 1 /\ frames[i].base + Own(frames[i]) <= Len(meters)
              /\ frames[i].limited => meters[frames[i].base + 1].limit \in Nat
              /\ frames[i].kind = "reply" => ~frames[i].limited /\ frames[i].replyOn = "never"
              /\ i > 1 => frames[i].depth = frames[i - 1].depth + Deeper(frames[i])
  BY <1>1, <1>11 DEF DispatchInv, Stack
<1>12. ASSUME NEW i \in 1..n
       PROVE  frames'[i].base >= 1 /\ frames'[i].base + Own(frames'[i]) <= Len(meters')
  <2>1. frames'[i].base = frames[i].base /\ Own(frames'[i]) = Own(frames[i])
    BY <1>2, SameFacts DEF Same
  <2>2. frames[i].base \in Nat /\ Own(frames[i]) \in {0, 1}
    BY <1>10, OwnFacts
  <2> QED BY <1>4, <1>6, <1>7, <1>11, <2>1, <2>2
<1>13. ASSUME NEW i \in 1..n, frames'[i].limited
       PROVE  meters'[frames'[i].base + 1].limit \in Nat
  <2>1. frames[i].limited /\ frames'[i].base = frames[i].base
    BY <1>2, <1>13 DEF Same
  <2>2. Own(frames[i]) = 1 /\ frames[i].base \in Nat
    BY <1>10, <2>1, OwnFacts
  <2>3. frames[i].base + 1 \in 1..Len(meters)
    BY <1>4, <1>11, <2>2
  <2> QED BY <1>5, <1>11, <2>1, <2>3
<1>14. ASSUME NEW i \in 1..n
       PROVE  frames'[i].kind = "reply" => ~frames'[i].limited /\ frames'[i].replyOn = "never"
  BY <1>2, <1>11 DEF Same
<1>15. ASSUME NEW i \in 1..n, i > 1
       PROVE  frames'[i].depth = frames'[i - 1].depth + Deeper(frames'[i])
  <2>1. i - 1 \in 1..n
    BY <1>15
  <2>2. Same(frames'[i], frames[i]) /\ Same(frames'[i - 1], frames[i - 1])
    BY <1>2, <2>1
  <2>3. Deeper(frames'[i]) = Deeper(frames[i])
    BY <2>2, SameFacts
  <2> QED BY <1>11, <1>15, <2>2, <2>3 DEF Same
<1>16. n > 0 => f.depth = frames'[n].depth + Deeper(f)
  BY <1>1, <1>2, <1>3 DEF Top, Last, Same
<1>17. ASSUME NEW i \in 1..(n + 1)
       PROVE  /\ frames'[i].base >= 1 /\ frames'[i].base + Own(frames'[i]) <= Len(meters')
              /\ frames'[i].limited => meters'[frames'[i].base + 1].limit \in Nat
              /\ frames'[i].kind = "reply" => ~frames'[i].limited /\ frames'[i].replyOn = "never"
              /\ i > 1 => frames'[i].depth = frames'[i - 1].depth + Deeper(frames'[i])
  <2>1. CASE i \in 1..n
    BY <1>12, <1>13, <1>14, <1>15, <2>1
  <2>2. CASE i = n + 1
    BY <1>2, <1>3, <1>4, <1>5, <1>7, <1>16, <2>2
  <2> QED BY <2>1, <2>2
<1>18. ASSUME NEW i \in 1..n, NEW j \in 1..n, i < j
       PROVE  /\ frames'[i].base + Own(frames'[i]) <= frames'[j].base
              /\ frames'[i].depth + Deeper(frames'[j]) <= frames'[j].depth
  <2>1. /\ frames[i].base + Own(frames[i]) <= frames[j].base
        /\ frames[i].depth + Deeper(frames[j]) <= frames[j].depth
    BY <1>1, <1>18 DEF DispatchInv, Stack
  <2> QED BY <1>2, <2>1, SameFacts DEF Same
<1>19. ASSUME NEW i \in 1..n
       PROVE  /\ frames'[i].base + Own(frames'[i]) <= f.base
              /\ frames'[i].depth + Deeper(f) <= f.depth
  <2>1. Same(frames'[i], frames[i]) /\ Own(frames'[i]) = Own(frames[i])
    BY <1>2, SameFacts
  <2>2. frames'[i].base + Own(frames'[i]) <= f.base
    BY <1>3, <1>11, <2>1 DEF Same
  <2>3. frames[i].depth <= frames[n].depth
    <3>1. CASE i = n
      BY <1>10, <3>1, OwnFacts
    <3>2. CASE i # n
      <4>1. n \in 1..n /\ i < n
        BY <3>2
      <4>2. frames[i].depth + Deeper(frames[n]) <= frames[n].depth
        BY <1>1, <4>1 DEF DispatchInv, Stack
      <4> QED BY <1>10, <4>1, <4>2, OwnFacts
    <3> QED BY <3>1, <3>2
  <2>4. f.depth = frames[n].depth + Deeper(f)
    BY <1>1, <1>3 DEF Top, Last
  <2>5. frames[i].depth \in Nat /\ frames[n].depth \in Nat
    BY <1>10, OwnFacts
  <2> QED BY <1>6, <2>1, <2>2, <2>3, <2>4, <2>5 DEF Same
<1>20. ASSUME NEW i \in 1..(n + 1), NEW j \in 1..(n + 1), i < j
       PROVE  /\ frames'[i].base + Own(frames'[i]) <= frames'[j].base
              /\ frames'[i].depth + Deeper(frames'[j]) <= frames'[j].depth
  <2>1. CASE j \in 1..n
    BY <1>18, <1>20, <2>1
  <2>2. CASE j = n + 1
    BY <1>2, <1>19, <1>20, <2>2
  <2> QED BY <2>1, <2>2
<1>21. /\ frames'[1].kind = "call" /\ frames'[1].depth = 0 /\ frames'[1].base = 1
       /\ ~frames'[1].limited
  <2>1. CASE n = 0
    BY <1>1, <1>2, <1>3, <1>9, <2>1 DEF DispatchInv, Stack
  <2>2. CASE n # 0
    BY <1>1, <1>2, <2>2 DEF DispatchInv, Stack, Same
  <2> QED BY <2>1, <2>2
<1>22. Len(caches') = f.depth + 2
  <2>1. Len(caches') = Len(caches) + Deeper(f)
    BY PushTypes
  <2>2. CASE n = 0
    <3>1. Len(caches) = 1 /\ Deeper(f) = 1 /\ f.depth = 0
      BY <1>1, <1>3, <1>9, <2>2 DEF DispatchInv, Stack, Deeper
    <3> QED BY <2>1, <3>1
  <2>3. CASE n # 0
    <3>1. Len(caches) = Top.depth + 2 /\ f.depth = Top.depth + Deeper(f) /\ Top \in Frame
      BY <1>1, <1>3, <2>3 DEF DispatchInv, Stack, TypeOK, Top, Last
    <3>2. Top.depth \in Nat
      BY <3>1, OwnFacts
    <3> QED BY <1>6, <2>1, <3>1, <3>2
  <2> QED BY <2>2, <2>3
<1> QED BY <1>1, <1>2, <1>8, <1>17, <1>20, <1>21, <1>22, SMTT(30) DEF Stack

(* The new run has the highest number.                                     *)
LEMMA PushRecords ==
  ASSUME DispatchInv, NEW f, Pushes(f)
  PROVE  Records'
<1>1. PICK n \in Nat : n = Len(frames)
  BY DEF DispatchInv, TypeOK
<1>2. PICK c \in Nat : c = Len(calls)
  BY DEF DispatchInv, TypeOK
<1>3. /\ Len(frames') = n + 1 /\ frames'[n + 1] = f
      /\ \A i \in 1..n : Same(frames'[i], frames[i])
  BY <1>1, AfterPush DEF Pushes, DispatchInv
<1>4. f.id = c + 1 /\ control' # "idle"
  BY <1>2 DEF Pushes, FrameOK
<1>5. /\ Len(calls') = c + 1
      /\ calls'[c + 1].parent = IF n = 0 THEN 0 ELSE Top.id
      /\ calls'[c + 1].kind = f.kind /\ calls'[c + 1].replyOn = f.replyOn
      /\ calls'[c + 1].status = "open"
      /\ \A x \in 1..c :
           /\ calls'[x].parent = calls[x].parent /\ calls'[x].kind = calls[x].kind
           /\ calls'[x].replyOn = calls[x].replyOn /\ calls'[x].status = calls[x].status
  BY <1>1, <1>2 DEF Pushes, CallsPushed
<1>6. ASSUME NEW i \in 1..n
      PROVE  /\ frames[i].id \in 1..c
             /\ calls[frames[i].id].status = "open"
             /\ calls[frames[i].id].kind = frames[i].kind
             /\ calls[frames[i].id].replyOn = frames[i].replyOn
             /\ calls[frames[i].id].parent = IF i = 1 THEN 0 ELSE frames[i - 1].id
  BY <1>1, <1>2, <1>6 DEF DispatchInv, Records
<1>7. ASSUME NEW i \in 1..n
      PROVE  /\ frames'[i].id \in 1..(c + 1)
             /\ calls'[frames'[i].id].status = "open"
             /\ calls'[frames'[i].id].kind = frames'[i].kind
             /\ calls'[frames'[i].id].replyOn = frames'[i].replyOn
             /\ calls'[frames'[i].id].parent = IF i = 1 THEN 0 ELSE frames'[i - 1].id
  <2>1. /\ frames'[i].id = frames[i].id /\ frames'[i].kind = frames[i].kind
        /\ frames'[i].replyOn = frames[i].replyOn
    BY <1>3 DEF Same
  <2>2. i # 1 => frames'[i - 1].id = frames[i - 1].id
    <3>1. i # 1 => i - 1 \in 1..n
      OBVIOUS
    <3> QED BY <1>3, <3>1 DEF Same
  <2> QED BY <1>5, <1>6, <2>1, <2>2
<1>8. /\ f.id \in 1..(c + 1) /\ calls'[f.id].status = "open"
      /\ calls'[f.id].kind = f.kind /\ calls'[f.id].replyOn = f.replyOn
      /\ calls'[f.id].parent = IF n + 1 = 1 THEN 0 ELSE frames'[n + 1 - 1].id
  <2>1. n # 0 => frames'[n].id = Top.id
    BY <1>1, <1>3 DEF Same, Top, Last
  <2> QED BY <1>4, <1>5, <2>1
<1>9. ASSUME NEW i \in 1..(n + 1)
      PROVE  /\ frames'[i].id \in 1..(c + 1)
             /\ calls'[frames'[i].id].status = "open"
             /\ calls'[frames'[i].id].kind = frames'[i].kind
             /\ calls'[frames'[i].id].replyOn = frames'[i].replyOn
             /\ calls'[frames'[i].id].parent = IF i = 1 THEN 0 ELSE frames'[i - 1].id
  <2>1. CASE i \in 1..n
    BY <1>7, <2>1
  <2>2. CASE i = n + 1
    BY <1>3, <1>8, <2>2
  <2> QED BY <2>1, <2>2
<1>10. ASSUME NEW i \in 1..(n + 1), NEW j \in 1..(n + 1), i < j
       PROVE  frames'[i].id < frames'[j].id
  <2>1. frames'[i].id = frames[i].id /\ i \in 1..n
    BY <1>3, <1>10 DEF Same
  <2>2. CASE j \in 1..n
    <3>1. frames[i].id < frames[j].id
      BY <1>1, <1>10, <2>1, <2>2 DEF DispatchInv, Records
    <3> QED BY <1>3, <2>1, <2>2, <3>1 DEF Same
  <2>3. CASE j = n + 1
    BY <1>3, <1>4, <1>6, <2>1, <2>3
  <2> QED BY <2>2, <2>3
<1>11. ASSUME NEW x \in 1..(c + 1)
       PROVE  /\ calls'[x].parent < x
              /\ calls'[x].status = "open" =>
                   \E i \in 1..(n + 1) : frames'[i].id = x
  <2>1. CASE x \in 1..c
    <3>1. calls[x].parent < x
      BY <1>2, <2>1 DEF DispatchInv, Records
    <3>2. ASSUME calls[x].status = "open" PROVE \E i \in 1..(n + 1) : frames'[i].id = x
      <4>1. PICK i \in 1..n : frames[i].id = x
        BY <1>1, <1>2, <2>1, <3>2 DEF DispatchInv, Records
      <4>2. frames'[i].id = x /\ i \in 1..(n + 1)
        BY <1>3, <4>1 DEF Same
      <4> QED BY <4>2
    <3> QED BY <1>5, <2>1, <3>1, <3>2
  <2>2. CASE x = c + 1
    <3>1. n # 0 => Top.id \in 1..c
      BY <1>1, <1>6 DEF Top, Last
    <3>2. calls'[x].parent < x
      BY <1>5, <2>2, <3>1
    <3>3. n + 1 \in 1..(n + 1) /\ frames'[n + 1].id = x
      BY <1>3, <1>4, <2>2
    <3> QED BY <3>2, <3>3
  <2> QED BY <2>1, <2>2
<1> QED BY <1>3, <1>4, <1>5, <1>9, <1>10, <1>11 DEF Records

(* The new frame counts as a call or does not.                             *)
LEMMA PushDepths ==
  ASSUME DispatchInv, NEW f, Pushes(f)
  PROVE  Depths'
<1>1. PICK n \in Nat : n = Len(frames)
  BY DEF DispatchInv, TypeOK
<1>2. /\ frames' \in Seq(Frame) /\ Len(frames') = n + 1 /\ frames'[n + 1] = f /\ f \in Frame
      /\ \A i \in 1..n : Same(frames'[i], frames[i])
  BY <1>1, AfterPush DEF Pushes, DispatchInv
<1>3. DOMAIN frames = 1..n /\ DOMAIN frames' = 1..(n + 1)
  BY <1>1, <1>2 DEF DispatchInv, TypeOK
<1>4. CallFrames' = CallFrames \cup (IF f.kind = "call" THEN {n + 1} ELSE {})
  <2>1. CallFrames = {i \in 1..n : frames[i].kind = "call"}
    BY <1>3 DEF CallFrames
  <2>2. CallFrames' = {i \in 1..(n + 1) : frames'[i].kind = "call"}
    BY <1>3 DEF CallFrames
  <2>3. \A i \in 1..n : frames'[i].kind = frames[i].kind
    BY <1>2 DEF Same
  <2> QED BY <1>2, <2>1, <2>2, <2>3
<1>5. CallFrames \subseteq 1..n
  BY <1>3 DEF CallFrames
<1>6. IsFiniteSet(CallFrames) /\ Cardinality(CallFrames) \in Nat
  <2>1. IsFiniteSet(1..n)
    BY FS_Interval
  <2> QED BY <1>5, <2>1, FS_Subset, FS_CardinalityType
<1>7. ASSUME NEW i \in 1..n
      PROVE  /\ frames'[i].depth = Cardinality({j \in CallFrames' : j <= i}) - 1
             /\ ~(frames'[i].depth > MaxCallDepth)
  <2>1. {j \in CallFrames' : j <= i} = {j \in CallFrames : j <= i}
    BY <1>4, <1>5
  <2>2. frames'[i].depth = frames[i].depth
    BY <1>2 DEF Same
  <2>3. /\ frames[i].depth = Cardinality({j \in CallFrames : j <= i}) - 1
        /\ frames[i].depth > MaxCallDepth => control = "error"
    BY <1>1 DEF DispatchInv, Depths
  <2>4. control # "error"
    BY DEF Pushes
  <2> QED BY <2>1, <2>2, <2>3, <2>4
<1>8. n > 0 => Top.depth = Cardinality(CallFrames) - 1
  <2>1. ASSUME n > 0 PROVE Top.depth = Cardinality({j \in CallFrames : j <= n}) - 1
    BY <1>1, <2>1 DEF DispatchInv, Depths, Top, Last
  <2>2. \A j \in CallFrames : j <= n
    BY <1>5
  <2>3. {j \in CallFrames : j <= n} = CallFrames
    BY <2>2, Zenon
  <2> QED BY <2>1, <2>3
<1>9. f.depth = IF n = 0 THEN 0 ELSE Top.depth + Deeper(f)
  BY <1>1 DEF Pushes, FrameOK
<1>10. n = 0 => CallFrames = {} /\ f.kind = "call"
  BY <1>1, <1>5 DEF Pushes, FrameOK, DispatchInv, Stack, Active
<1>11. Cardinality(CallFrames') = Cardinality(CallFrames) + Deeper(f)
  <2>1. CASE f.kind = "call"
    <3>1. n + 1 \notin CallFrames
      BY <1>5
    <3>2. CallFrames' = CallFrames \cup {n + 1}
      BY <1>4, <2>1
    <3>3. Cardinality(CallFrames \cup {n + 1}) = Cardinality(CallFrames) + 1
      BY <1>6, <3>1, FS_AddElement
    <3> QED BY <2>1, <3>2, <3>3 DEF Deeper
  <2>2. CASE f.kind # "call"
    BY <1>4, <1>6, <2>2 DEF Deeper
  <2> QED BY <2>1, <2>2
<1>12. f.depth = Cardinality(CallFrames') - 1
  <2>1. CASE n = 0
    <3>1. Cardinality(CallFrames) = 0
      BY <1>10, <2>1, FS_EmptySet
    <3>2. Deeper(f) = 1
      BY <1>10, <2>1 DEF Deeper
    <3> QED BY <1>9, <1>11, <2>1, <3>1, <3>2
  <2>2. CASE n # 0
    <3>1. Deeper(f) \in {0, 1}
      BY DEF Deeper
    <3> QED BY <1>6, <1>8, <1>9, <1>11, <2>2, <3>1
  <2> QED BY <2>1, <2>2
<1>13. {j \in CallFrames' : j <= n + 1} = CallFrames'
  <2>1. \A j \in CallFrames' : j <= n + 1
    BY <1>4, <1>5
  <2> QED BY <2>1, Zenon
<1>14. f.depth > MaxCallDepth => control' = "error" /\ f.kind = "call"
  BY DEF Pushes, FrameOK
<1>15. ASSUME NEW i \in 1..(n + 1)
       PROVE  /\ frames'[i].depth = Cardinality({j \in CallFrames' : j <= i}) - 1
              /\ frames'[i].depth > MaxCallDepth =>
                   control' = "error" /\ i = n + 1 /\ frames'[i].kind = "call"
  <2>1. CASE i \in 1..n
    BY <1>7, <2>1
  <2>2. CASE i = n + 1
    BY <1>2, <1>12, <1>13, <1>14, <2>2
  <2> QED BY <2>1, <2>2
<1> QED BY <1>2, <1>15 DEF Depths

(* A meter that is exceeded stops the run; a new limit leaves the caller a *)
(* margin.                                                                 *)
LEMMA PushGas ==
  ASSUME DispatchInv, NEW f, Pushes(f)
  PROVE  Excesses' /\ Margins'
<1>1. PICK n \in Nat : n = Len(frames)
  BY DEF DispatchInv, TypeOK
<1>2. /\ Len(frames') = n + 1 /\ f \in Frame /\ frames'[n + 1] = f /\ Top' = f
      /\ \A i \in 1..n : Same(frames'[i], frames[i])
  BY <1>1, AfterPush DEF Pushes, DispatchInv
<1>3. /\ control \in {"idle", "run", "replyOk", "replyErr"}
      /\ control' \in {"run", "error", "panic"}
      /\ f.base = Len(meters)
      /\ f.kind = "call" <=> control \in {"idle", "run"}
      /\ f.kind = "reply" => ~f.limited
      /\ n = 0 => ~f.limited
  BY <1>1 DEF Pushes, FrameOK
<1>4. Len(meters) \in Nat /\ Len(meters) >= 1
  BY SomeMeter
<1>5. /\ Own(f) \in {0, 1} /\ f.limited \in BOOLEAN
      /\ f.limited => Own(f) = 1
      /\ ~f.limited => Own(f) = 0
  BY <1>2, OwnFacts
<1>6. PICK k \in Nat : k = Len(meters) + Own(f)
  BY <1>4, <1>5
<1>7. k = Charged(f)
  BY <1>6 DEF Charged
<1>8. /\ meters' \in Seq(Meter) /\ k \in 1..Len(meters')
      /\ \A i \in 1..Len(meters) : i # k => meters'[i] = meters[i]
      /\ \A i \in 1..Len(meters') : i > k => IsInfinite(meters'[i]) /\ TRUE \in Gasless
  BY <1>7, BegunFacts DEF MetersBegun
<1>9. Stopped(k) /\ Bounded(f, k)
  BY <1>7, BegunFacts DEF MetersBegun
<1>10. f.limited => /\ meters'[Len(meters) + 1].limit \in Nat
                    /\ LimitsGas(meters'[Len(meters) + 1].limit)
  BY BegunFacts DEF MetersBegun
<1>11. Len(meters') \in Nat /\ k <= Len(meters')
  BY <1>8
<1>12. ASSUME NEW i \in 1..Len(meters'), i < k
       PROVE  /\ i \in 1..Len(meters) /\ meters'[i] = meters[i]
              /\ i = Len(meters) => control # "idle" /\ control # "replyErr"
  <2>1. i \in 1..Len(meters) /\ i # k
    BY <1>4, <1>5, <1>6, <1>12
  <2>2. i = Len(meters) => f.limited
    BY <1>4, <1>5, <1>6, <1>12
  <2>3. control = "idle" => ~f.limited
    BY <1>1, <1>3 DEF DispatchInv, Stack, Active
  <2>4. control = "replyErr" => f.kind # "call"
    BY <1>3
  <2>5. f.kind \in {"call", "reply"}
    BY <1>2 DEF Frame
  <2> QED BY <1>3, <1>8, <2>1, <2>2, <2>3, <2>4, <2>5
<1>13. ASSUME NEW i \in 1..Len(meters'), Exceeded(meters'[i])
       PROVE  control' \in {"error", "panic"} /\ i >= f.base + Own(f)
  <2>1. ~(i > k)
    BY <1>8, <1>13 DEF Exceeded
  <2>2. ~(i < k)
    <3> SUFFICES ASSUME i < k PROVE FALSE
      OBVIOUS
    <3>1. i \in 1..Len(meters) /\ meters'[i] = meters[i]
      BY <1>12
    <3>2. Exceeded(meters[i])
      BY <1>13, <3>1
    <3>3. control = "replyErr" /\ i = Len(meters)
      BY <1>3, <3>1, <3>2 DEF DispatchInv, Excesses
    <3> QED BY <1>12, <3>3
  <2>3. i = k
    BY <2>1, <2>2
  <2>4. control' # "run"
    BY <1>9, <1>13, <2>3 DEF Stopped
  <2> QED BY <1>3, <1>6, <2>3, <2>4
<1>14. Excesses'
  BY <1>2, <1>13 DEF Excesses
<1>15. ASSUME TRUE \notin Gasless, NEW i \in 1..Len(meters')
       PROVE  /\ meters'[i].limit \in Nat /\ meters'[i].used <= meters'[i].limit
              /\ meters'[i].used = meters'[i].limit => i = Len(meters') /\ StopsAtLimit(f)
  <2>1. ~(i > k) /\ Len(meters') = k
    <3>1. \A j \in 1..Len(meters') : ~(j > k)
      BY <1>8, <1>15
    <3>2. Len(meters') \in 1..Len(meters')
      BY <1>11
    <3> QED BY <1>11, <3>1, <3>2
  <2>2. CASE i = k
    BY <1>9, <1>15, <2>1, <2>2 DEF Bounded
  <2>3. CASE i < k
    <3>1. i \in 1..Len(meters) /\ meters'[i] = meters[i]
      BY <1>12, <2>3
    <3>2. /\ meters[i].limit \in Nat /\ meters[i].used <= meters[i].limit
          /\ meters[i].used = meters[i].limit => i = Len(meters) /\ control = "idle"
      BY <1>3, <1>15, <3>1 DEF DispatchInv, Margins
    <3>3. ~(i = Len(meters) /\ control = "idle")
      BY <1>12, <2>3
    <3> QED BY <3>1, <3>2, <3>3
  <2> QED BY <2>1, <2>2, <2>3
<1>16. ASSUME TRUE \notin Gasless, NEW i \in 1..n, frames'[i].limited
       PROVE  meters'[frames'[i].base].used + meters'[frames'[i].base + 1].limit
                < meters'[frames'[i].base].limit
  <2>1. frames[i].limited /\ frames'[i].base = frames[i].base /\ frames[i] \in Frame
    BY <1>1, <1>2, <1>16 DEF Same, DispatchInv, TypeOK
  <2>2. PICK b \in Nat : b = frames[i].base
    BY <2>1, OwnFacts
  <2>3. b >= 1 /\ b + 1 <= Len(meters)
    BY <1>1, <2>1, <2>2, OwnFacts DEF DispatchInv, Stack
  <2>4. b \in 1..Len(meters) /\ b + 1 \in 1..Len(meters) /\ b # k
    BY <1>4, <1>5, <1>6, <2>3
  <2>5. meters[b].used + meters[b + 1].limit < meters[b].limit
    BY <1>1, <1>16, <2>1, <2>2 DEF DispatchInv, Margins
  <2>6. meters'[b] = meters[b] /\ meters'[b + 1].limit = meters[b + 1].limit
    BY <1>8, <2>4, BegunFacts DEF MetersBegun
  <2> QED BY <2>1, <2>2, <2>5, <2>6
<1>17. ASSUME TRUE \notin Gasless, f.limited
       PROVE  meters'[f.base].used + meters'[f.base + 1].limit < meters'[f.base].limit
  <2>1. PICK b \in Nat : b = Len(meters)
    BY <1>4
  <2>2. b \in 1..Len(meters) /\ b # k
    BY <1>4, <1>5, <1>6, <1>17, <2>1
  <2>3. meters'[b] = meters[b] /\ meters[b] \in Meter
    BY <1>8, <2>2 DEF DispatchInv, TypeOK
  <2>4. meters[b].limit \in Nat
    BY <1>17, <2>2 DEF DispatchInv, Margins
  <2>5. PICK l \in Nat : l = meters'[b + 1].limit
    BY <1>10, <1>17, <2>1
  <2>6. LimitsGas(l)
    BY <1>10, <1>17, <2>1, <2>5
  <2>7. l < meters[b].limit - meters[b].used
    BY <2>1, <2>4, <2>6, GasAssumption DEF LimitsGas, IsInfinite, Last
  <2>8. meters[b].used \in Nat
    BY <2>3 DEF Meter
  <2>9. meters[b].used + l < meters[b].limit
    BY <2>4, <2>7, <2>8
  <2> QED BY <1>3, <2>1, <2>3, <2>5, <2>9
<1>18. ASSUME TRUE \notin Gasless, NEW i \in 1..(n + 1), frames'[i].limited
       PROVE  meters'[frames'[i].base].used + meters'[frames'[i].base + 1].limit
                < meters'[frames'[i].base].limit
  <2>1. CASE i \in 1..n
    BY <1>16, <1>18, <2>1
  <2>2. CASE i = n + 1
    BY <1>2, <1>17, <1>18, <2>2
  <2> QED BY <2>1, <2>2
<1>19. Margins'
  <2>1. StopsAtLimit(f) =>
          \/ control' \in {"idle", "panic", "aborted"}
          \/ control' = "error" /\ Top'.limited
    BY <1>2 DEF StopsAtLimit
  <2>2. ASSUME TRUE \notin Gasless, NEW i \in 1..Len(meters')
        PROVE  /\ meters'[i].limit \in Nat /\ meters'[i].used <= meters'[i].limit
               /\ meters'[i].used = meters'[i].limit =>
                    /\ i = Len(meters')
                    /\ \/ control' \in {"idle", "panic", "aborted"}
                       \/ control' = "error" /\ Top'.limited
    BY <1>15, <2>1, <2>2
  <2> QED BY <1>2, <1>18, <2>2 DEF Margins
<1> QED BY <1>14, <1>19

(* A reply answers the message that waits; the new run has none to answer. *)
LEMMA PushAnswers ==
  ASSUME DispatchInv, NEW f, Pushes(f)
  PROVE  Answers' /\ Failures'
<1>1. PICK c \in Nat : c = Len(calls)
  BY DEF DispatchInv, TypeOK
<1>2. /\ control \in {"idle", "run", "replyOk", "replyErr"}
      /\ control' \in {"run", "error", "panic"}
  BY DEF Pushes
<1>3. /\ Len(calls') = c + 1
      /\ calls'[c + 1].status = "open" /\ calls'[c + 1].replies = 0
      /\ \A x \in 1..c :
           /\ calls'[x].parent = calls[x].parent /\ calls'[x].kind = calls[x].kind
           /\ calls'[x].replyOn = calls[x].replyOn /\ calls'[x].status = calls[x].status
           /\ calls'[x].replies = calls[x].replies + IF Waiting(x) THEN 1 ELSE 0
  BY <1>1 DEF Pushes, CallsPushed
<1>4. \A x \in 1..c : calls[x] \in Call /\ calls[x].replies \in Nat
  <2>1. \A x \in 1..c : calls[x] \in Call
    BY <1>1 DEF DispatchInv, TypeOK
  <2> QED BY <2>1 DEF Call
<1>5. ASSUME NEW x \in 1..c, calls[x].parent # 0
      PROVE  /\ calls[x].parent \in 1..c
             /\ Doomed(calls[x].parent) => Doomed(calls[x].parent)'
  <2>1. PICK y \in 1..c : y = calls[x].parent
    <3>1. calls[x].parent < x /\ calls[x].parent \in Nat
      BY <1>1, <1>4 DEF DispatchInv, Records, Call
    <3> QED BY <1>5, <3>1
  <2>2. Doomed(y) => calls[y].status = "failed"
    BY <1>2 DEF Doomed
  <2>3. Doomed(y) => calls'[y].status = "failed"
    BY <1>3, <2>2
  <2>4. calls'[x].parent = y
    BY <1>3, <2>1
  <2> QED BY <2>1, <2>3, <2>4 DEF Doomed
<1>6. ASSUME NEW x \in 1..c, Waiting(x)
      PROVE  /\ calls[x].replies = 0 /\ calls[x].status # "open"
             /\ calls[x].status = "ok" => calls[x].replyOn \in {"success", "always"}
             /\ calls[x].status = "failed" => calls[x].replyOn \in {"error", "always"}
  BY <1>6 DEF DispatchInv, Answers, Waiting
<1>7. ASSUME NEW x \in 1..c
      PROVE  calls'[x].status = "open" => calls'[x].replies = 0
  <2>1. calls[x].status = "open" => calls[x].replies = 0 /\ ~Waiting(x)
    BY <1>1, <1>6 DEF DispatchInv, Answers
  <2> QED BY <1>3, <2>1
<1>8. ASSUME NEW x \in 1..c, calls'[x].kind = "call", calls'[x].parent # 0
      PROVE  /\ calls'[x].status = "ok" =>
                  calls'[x].replies = IF calls'[x].replyOn \in {"success", "always"} THEN 1 ELSE 0
             /\ calls'[x].status = "failed" /\ ~Doomed(calls[x].parent)' =>
                  calls'[x].replies = IF calls'[x].replyOn \in {"error", "always"} THEN 1 ELSE 0
  <2>1. CASE Waiting(x)
    BY <1>3, <1>6, <1>8, <2>1
  <2>2. CASE ~Waiting(x)
    <3>1. calls[x].kind = "call" /\ calls[x].parent # 0
      BY <1>3, <1>8
    <3>2. /\ calls[x].status = "ok" =>
               calls[x].replies = IF calls[x].replyOn \in {"success", "always"} THEN 1 ELSE 0
          /\ calls[x].status = "failed" /\ ~Doomed(calls[x].parent) =>
               calls[x].replies = IF calls[x].replyOn \in {"error", "always"} THEN 1 ELSE 0
      BY <1>1, <2>2, <3>1 DEF DispatchInv, Answers, Asked
    <3>3. Doomed(calls[x].parent) => Doomed(calls[x].parent)'
      BY <1>5, <3>1
    <3>4. calls'[x].replies = calls[x].replies
      BY <1>3, <1>4, <2>2
    <3> QED BY <1>3, <3>2, <3>3, <3>4
  <2> QED BY <2>1, <2>2
<1>9. Answers'
  <2>1. control' \notin {"replyOk", "replyErr"}
    BY <1>2
  <2>2. ASSUME NEW x \in 1..(c + 1)
        PROVE  /\ calls'[x].status = "open" => calls'[x].replies = 0
               /\ calls'[x].kind = "call" /\ calls'[x].parent # 0 /\ ~Waiting(x)' =>
                   /\ calls'[x].status = "ok" =>
                        calls'[x].replies = Asked(x, {"success", "always"})'
                   /\ calls'[x].status = "failed" /\ ~Doomed(calls[x].parent)' =>
                        calls'[x].replies = Asked(x, {"error", "always"})'
    <3>1. CASE x \in 1..c
      BY <1>7, <1>8, <3>1 DEF Asked
    <3>2. CASE x = c + 1
      BY <1>3, <3>2
    <3> QED BY <3>1, <3>2
  <2> QED BY <1>3, <2>1, <2>2 DEF Answers
<1>10. ASSUME NEW x \in 1..(c + 1), calls'[x].status = "failed",
              calls'[x].replyOn \in {"success", "never"}, calls'[x].parent # 0
       PROVE  Doomed(calls[x].parent)'
  <2>1. x \in 1..c
    BY <1>3, <1>10
  <2>2. /\ calls[x].status = "failed" /\ calls[x].replyOn \in {"success", "never"}
        /\ calls[x].parent # 0
    BY <1>3, <1>10, <2>1
  <2>3. Doomed(calls[x].parent)
    BY <1>1, <2>1, <2>2 DEF DispatchInv, Failures
  <2> QED BY <1>5, <2>1, <2>2, <2>3
<1>11. Failures'
  BY <1>3, <1>10 DEF Failures
<1> QED BY <1>9, <1>11

-----------------------------------------------------------------------------
(* Ending a run preserves the invariant.                                   *)

(* Types, and the number of caches.                                        *)
LEMMA PopTypes ==
  ASSUME DispatchInv, NEW st, Pops(st)
  PROVE  /\ TypeOK'
         /\ Len(caches') = Len(caches) - Deeper(Top)
<1>1. frames' \in Seq(Frame)
  BY DEF Pops, FramesPopped
<1>2. calls' \in Seq(Call)
  BY EndedCalls DEF CallsEnded
<1>3. control \in {"run", "error", "panic"}
  BY DEF Pops
<1>4. PICK b \in Nat : b = Top.base
  BY <1>3, TopFacts, OwnFacts
<1>5. meters' \in Seq(Meter)
  BY <1>4, EndedMeters DEF MetersEnded
<1>6. control' \in {"run", "replyOk", "committed", "error", "panic", "replyErr", "aborted"}
  BY DEF Pops, ControlPopped
<1>7. caches \in Seq(SUBSET Nat) /\ Len(caches) \in Nat
  BY DEF DispatchInv, TypeOK
<1>8. PICK m \in Nat : Len(caches) = m + 2
  <2>1. Len(frames) > 0 /\ Top \in Frame
    BY <1>3, TopFacts
  <2>2. Len(caches) = Top.depth + 2 /\ Top.depth \in Nat
    BY <2>1, OwnFacts DEF DispatchInv, Stack
  <2> QED BY <2>2
<1>9. Top.kind \in {"call", "reply"}
  BY <1>3, TopFacts
<1>10. CASE Top.kind = "reply"
  BY <1>1, <1>2, <1>5, <1>6, <1>7, <1>10 DEF TypeOK, Pops, CachesPopped, Deeper
<1>11. CASE Top.kind = "call"
  <2>1. caches' = Committed \/ caches' = Dropped
    BY <1>11 DEF Pops, CachesPopped
  <2>2. Dropped \in Seq(SUBSET Nat) /\ Len(Dropped) = m + 1
    <3>1. Dropped = SubSeq(caches, 1, m + 1) /\ m + 1 \in 0..Len(caches)
      BY <1>8 DEF Dropped, Front
    <3> QED BY <1>7, <3>1, Shortened
  <2>3. Committed \in Seq(SUBSET Nat) /\ Len(Committed) = m + 1
    <3>1. \A i \in 1..(m + 2) : caches[i] \in SUBSET Nat
      BY <1>7, <1>8
    <3>2. Last(caches) \in SUBSET Nat
      BY <1>8, <3>1 DEF Last
    <3>3. Committed = [i \in 1..(m + 1) |->
                         IF i = m + 1 THEN caches[i] \cup Last(caches) ELSE caches[i]]
      BY <1>8 DEF Committed
    <3>4. \A i \in 1..(m + 1) : (IF i = m + 1 THEN caches[i] \cup Last(caches)
                                 ELSE caches[i]) \in SUBSET Nat
      BY <3>1, <3>2
    <3> QED BY <3>3, <3>4
  <2>4. caches' \in Seq(SUBSET Nat) /\ Len(caches') = Len(caches) - 1
    BY <1>8, <2>1, <2>2, <2>3
  <2> QED BY <1>1, <1>2, <1>5, <1>6, <1>11, <2>4 DEF TypeOK, Deeper
<1> QED BY <1>9, <1>10, <1>11

(* The frames below the one that ends.                                     *)
LEMMA PopCount ==
  ASSUME DispatchInv, NEW st, Pops(st)
  PROVE  \E n \in Nat : n = Len(frames) - 1 /\ n + 1 = Len(frames)
<1>1. PICK m \in Nat : m = Len(frames)
  BY DEF DispatchInv, TypeOK
<1>2. m > 0
  BY <1>1, TopFacts DEF Pops
<1>3. m - 1 \in Nat
  BY <1>2
<1> QED BY <1>1, <1>3

(* The frames below keep their meters and caches.                          *)
LEMMA PopStack ==
  ASSUME DispatchInv, NEW st, Pops(st)
  PROVE  Stack'
<1>1. PICK n \in Nat : n = Len(frames) - 1 /\ n + 1 = Len(frames)
  BY PopCount
<1>2. frames' \in Seq(Frame) /\ Len(frames') = n /\ \A i \in 1..n : Same(frames'[i], frames[i])
  BY <1>1 DEF Pops, FramesPopped
<1>3. control \in {"run", "error", "panic"}
  BY DEF Pops
<1>4. Top = frames[n + 1] /\ Top \in Frame
  BY <1>1, <1>3, TopFacts
<1>5. PICK b \in Nat : b = Top.base
  BY <1>4, OwnFacts
<1>6. /\ meters' \in Seq(Meter) /\ Len(meters') \in b..Len(meters)
      /\ Top.kind = "call" => Len(meters') = b
      /\ \A i \in 1..Len(meters') : meters'[i].limit = meters[i].limit
  BY <1>5, EndedMeters DEF MetersEnded
<1>7. Len(meters') \in Nat /\ Len(meters') >= b
  BY <1>5, <1>6
<1>8. Active' <=> n > 0
  <2>1. n = 0 <=> Len(frames) = 1
    BY <1>1
  <2>2. /\ control' \in {"run", "replyOk", "committed", "error", "panic", "replyErr", "aborted"}
        /\ Len(frames) = 1 <=> control' \in {"committed", "aborted"}
    BY DEF Pops, ControlPopped
  <2> QED BY <2>1, <2>2 DEF Active
<1>9. \A i \in 1..(n + 1) : frames[i] \in Frame
  BY <1>1 DEF DispatchInv, TypeOK
<1>10. ASSUME NEW i \in 1..n
       PROVE  /\ frames[i].base >= 1 /\ frames[i].base + Own(frames[i]) <= b
              /\ frames[i].limited => meters[frames[i].base + 1].limit \in Nat
              /\ frames[i].kind = "reply" => ~frames[i].limited /\ frames[i].replyOn = "never"
              /\ i > 1 => frames[i].depth = frames[i - 1].depth + Deeper(frames[i])
  <2>1. i \in 1..Len(frames) /\ Len(frames) \in 1..Len(frames) /\ i < Len(frames)
    BY <1>1
  <2>2. frames[i].base + Own(frames[i]) <= frames[Len(frames)].base
    BY <2>1 DEF DispatchInv, Stack
  <2>3. frames[i].base + Own(frames[i]) <= b
    BY <1>1, <1>4, <1>5, <2>2
  <2> QED BY <2>1, <2>3 DEF DispatchInv, Stack
<1>11. ASSUME NEW i \in 1..n
       PROVE  /\ frames'[i].base >= 1 /\ frames'[i].base + Own(frames'[i]) <= Len(meters')
              /\ frames'[i].limited => meters'[frames'[i].base + 1].limit \in Nat
              /\ frames'[i].kind = "reply" => ~frames'[i].limited /\ frames'[i].replyOn = "never"
              /\ i > 1 => frames'[i].depth = frames'[i - 1].depth + Deeper(frames'[i])
  <2>1. Same(frames'[i], frames[i]) /\ Own(frames'[i]) = Own(frames[i])
        /\ Deeper(frames'[i]) = Deeper(frames[i])
    BY <1>2, SameFacts
  <2>2. frames'[i].base = frames[i].base
    BY <2>1 DEF Same
  <2>3. PICK d \in Nat : d = frames[i].base
    BY <1>9, OwnFacts
  <2>4. Own(frames[i]) \in {0, 1}
    BY <1>9, OwnFacts
  <2>5. frames'[i].base >= 1 /\ frames'[i].base + Own(frames'[i]) <= Len(meters')
    BY <1>7, <1>10, <2>1, <2>2, <2>3, <2>4
  <2>6. ASSUME frames'[i].limited PROVE meters'[frames'[i].base + 1].limit \in Nat
    <3>1. frames[i].limited
      BY <2>1, <2>6 DEF Same
    <3>2. Own(frames[i]) = 1
      BY <3>1 DEF Own
    <3>3. d + 1 \in 1..Len(meters')
      BY <1>7, <2>1, <2>2, <2>3, <2>5, <3>2
    <3> QED BY <1>6, <1>10, <2>2, <2>3, <3>1, <3>3
  <2>7. frames'[i].kind = "reply" => ~frames'[i].limited /\ frames'[i].replyOn = "never"
    BY <1>10, <2>1 DEF Same
  <2>8. ASSUME i > 1 PROVE frames'[i].depth = frames'[i - 1].depth + Deeper(frames'[i])
    <3>1. i - 1 \in 1..n
      BY <2>8
    <3>2. Same(frames'[i - 1], frames[i - 1])
      BY <1>2, <3>1
    <3> QED BY <1>10, <2>1, <2>8, <3>2 DEF Same
  <2> QED BY <2>5, <2>6, <2>7, <2>8
<1>12. ASSUME NEW i \in 1..n, NEW j \in 1..n, i < j
       PROVE  /\ frames'[i].base + Own(frames'[i]) <= frames'[j].base
              /\ frames'[i].depth + Deeper(frames'[j]) <= frames'[j].depth
  <2>1. i \in 1..Len(frames) /\ j \in 1..Len(frames)
    BY <1>1
  <2>2. /\ frames[i].base + Own(frames[i]) <= frames[j].base
        /\ frames[i].depth + Deeper(frames[j]) <= frames[j].depth
    BY <1>12, <2>1 DEF DispatchInv, Stack
  <2> QED BY <1>2, <2>2, SameFacts DEF Same
<1>13. PICK d \in Nat : d = Top.depth /\ Len(caches) = d + 2
  <2>1. Len(frames) > 0
    BY <1>3, TopFacts
  <2>2. Top.depth \in Nat
    BY <1>4, OwnFacts
  <2>3. Len(caches) = Top.depth + 2
    BY <2>1 DEF DispatchInv, Stack
  <2> QED BY <2>2, <2>3
<1>14. Len(caches') = d + 2 - Deeper(Top)
  <2>1. Len(caches') = Len(caches) - Deeper(Top)
    BY PopTypes
  <2>2. Deeper(Top) \in {0, 1}
    BY <1>4, OwnFacts
  <2>3. PICK e \in Nat : e = Len(caches)
    BY DEF DispatchInv, TypeOK
  <2> QED BY <1>13, <2>1, <2>2, <2>3
<1>15. n = 0 => Len(caches') = 1 /\ Len(meters') = 1
  <2> SUFFICES ASSUME n = 0 PROVE Len(caches') = 1 /\ Len(meters') = 1
    OBVIOUS
  <2>1. Len(frames) = 1 /\ Top = frames[1]
    BY <1>1, <1>4
  <2>2. Top.kind = "call" /\ Top.depth = 0 /\ Top.base = 1
    BY <2>1 DEF DispatchInv, Stack
  <2> QED BY <1>5, <1>6, <1>13, <1>14, <2>2 DEF Deeper
<1>16. ASSUME n > 0
       PROVE  /\ frames'[1].kind = "call" /\ frames'[1].depth = 0 /\ frames'[1].base = 1
              /\ ~frames'[1].limited
              /\ Len(caches') = Top'.depth + 2
  <2>1. Same(frames'[1], frames[1]) /\ Same(frames'[n], frames[n]) /\ Len(frames) > 0
    BY <1>1, <1>2, <1>16
  <2>2. /\ frames'[1].kind = "call" /\ frames'[1].depth = 0 /\ frames'[1].base = 1
        /\ ~frames'[1].limited
    BY <2>1 DEF DispatchInv, Stack, Same
  <2>3. n + 1 \in 1..Len(frames) /\ n + 1 > 1
    BY <1>1, <1>16
  <2>4. frames[n + 1].depth = frames[(n + 1) - 1].depth + Deeper(frames[n + 1])
    BY <2>3 DEF DispatchInv, Stack
  <2>5. d = frames[n].depth + Deeper(Top) /\ frames[n].depth \in Nat /\ Deeper(Top) \in {0, 1}
    BY <1>4, <1>9, <1>13, <1>16, <2>4, OwnFacts
  <2>6. Len(caches') = frames[n].depth + 2
    BY <1>14, <2>5
  <2>7. Top'.depth = frames[n].depth
    BY <1>2, <2>1 DEF Top, Last, Same
  <2> QED BY <2>2, <2>6, <2>7
<1> QED BY <1>2, <1>8, <1>11, <1>12, <1>15, <1>16 DEF Stack

(* The runs that are still open are those of the frames below.             *)
LEMMA PopRecords ==
  ASSUME DispatchInv, NEW st, Pops(st)
  PROVE  Records'
<1>1. PICK n \in Nat : n = Len(frames) - 1 /\ n + 1 = Len(frames)
  BY PopCount
<1>2. Len(frames') = n /\ \A i \in 1..n : Same(frames'[i], frames[i])
  BY <1>1 DEF Pops, FramesPopped
<1>3. control \in {"run", "error", "panic"} /\ control' # "idle"
  BY DEF Pops, ControlPopped
<1>4. Top = frames[n + 1]
  BY <1>1, <1>3, TopFacts
<1>5. /\ Len(calls') = Len(calls)
      /\ \A x \in 1..Len(calls) :
           /\ calls'[x].parent = calls[x].parent /\ calls'[x].kind = calls[x].kind
           /\ calls'[x].replyOn = calls[x].replyOn
           /\ calls'[x].status = IF x = Top.id THEN st ELSE calls[x].status
  BY EndedCalls DEF CallsEnded
<1>6. \A i \in 1..(n + 1) :
        /\ frames[i].id \in 1..Len(calls)
        /\ calls[frames[i].id].status = "open"
        /\ calls[frames[i].id].kind = frames[i].kind
        /\ calls[frames[i].id].replyOn = frames[i].replyOn
        /\ calls[frames[i].id].parent = IF i = 1 THEN 0 ELSE frames[i - 1].id
  BY <1>1 DEF DispatchInv, Records
<1>7. \A i, j \in 1..(n + 1) : i < j => frames[i].id < frames[j].id
  BY <1>1 DEF DispatchInv, Records
<1>8. \A i \in 1..n : frames[i].id # Top.id
  <2>1. ASSUME NEW i \in 1..n PROVE frames[i].id # Top.id
    <3>1. i \in 1..(n + 1) /\ n + 1 \in 1..(n + 1) /\ i < n + 1
      OBVIOUS
    <3>2. frames[i].id < frames[n + 1].id /\ frames[i].id \in 1..Len(calls)
      BY <1>6, <1>7, <3>1
    <3> QED BY <1>4, <3>2
  <2> QED BY <2>1
<1>9. ASSUME NEW i \in 1..n
      PROVE  /\ frames'[i].id \in 1..Len(calls')
             /\ calls'[frames'[i].id].status = "open"
             /\ calls'[frames'[i].id].kind = frames'[i].kind
             /\ calls'[frames'[i].id].replyOn = frames'[i].replyOn
             /\ calls'[frames'[i].id].parent = IF i = 1 THEN 0 ELSE frames'[i - 1].id
  <2>1. /\ frames'[i].id = frames[i].id /\ frames'[i].kind = frames[i].kind
        /\ frames'[i].replyOn = frames[i].replyOn
    BY <1>2 DEF Same
  <2>2. i # 1 => frames'[i - 1].id = frames[i - 1].id
    <3>1. i # 1 => i - 1 \in 1..n
      OBVIOUS
    <3> QED BY <1>2, <3>1 DEF Same
  <2>3. i \in 1..(n + 1)
    OBVIOUS
  <2> QED BY <1>5, <1>6, <1>8, <2>1, <2>2, <2>3
<1>10. ASSUME NEW i \in 1..n, NEW j \in 1..n, i < j PROVE frames'[i].id < frames'[j].id
  <2>1. i \in 1..(n + 1) /\ j \in 1..(n + 1)
    OBVIOUS
  <2> QED BY <1>2, <1>7, <1>10, <2>1 DEF Same
<1>11. ASSUME NEW x \in 1..Len(calls)
       PROVE  /\ calls'[x].parent < x
              /\ calls'[x].status = "open" => \E i \in 1..n : frames'[i].id = x
  <2>1. calls'[x].parent < x
    BY <1>5 DEF DispatchInv, Records
  <2>2. ASSUME calls'[x].status = "open" PROVE \E i \in 1..n : frames'[i].id = x
    <3>1. st # "open"
      BY DEF Pops
    <3>2. x # Top.id /\ calls[x].status = "open"
      BY <1>5, <2>2, <3>1
    <3>3. PICK i \in 1..(n + 1) : frames[i].id = x
      BY <1>1, <3>2 DEF DispatchInv, Records
    <3>4. i # n + 1
      BY <1>4, <3>2, <3>3
    <3>5. i \in 1..n
      BY <3>4
    <3> QED BY <1>2, <3>3, <3>5 DEF Same
  <2> QED BY <2>1, <2>2
<1> QED BY <1>2, <1>3, <1>5, <1>9, <1>10, <1>11 DEF Records

(* The frames below keep their depths, and a call that was too deep is     *)
(* gone.                                                                   *)
LEMMA PopDepths ==
  ASSUME DispatchInv, NEW st, Pops(st)
  PROVE  Depths'
<1>1. PICK n \in Nat : n = Len(frames) - 1 /\ n + 1 = Len(frames)
  BY PopCount
<1>2. /\ frames' \in Seq(Frame) /\ Len(frames') = n
      /\ \A i \in 1..n : Same(frames'[i], frames[i])
  BY <1>1 DEF Pops, FramesPopped
<1>3. DOMAIN frames = 1..(n + 1) /\ DOMAIN frames' = 1..n
  BY <1>1, <1>2 DEF DispatchInv, TypeOK
<1>4. CallFrames = {i \in 1..(n + 1) : frames[i].kind = "call"}
  BY <1>3 DEF CallFrames
<1>5. CallFrames' = {i \in 1..n : frames'[i].kind = "call"}
  BY <1>3 DEF CallFrames
<1>6. \A i \in 1..n : frames'[i].kind = frames[i].kind
  BY <1>2 DEF Same
<1>7. ASSUME NEW i \in 1..n
      PROVE  /\ frames'[i].depth = Cardinality({j \in CallFrames' : j <= i}) - 1
             /\ ~(frames'[i].depth > MaxCallDepth)
  <2>1. {j \in CallFrames' : j <= i} = {j \in CallFrames : j <= i}
    BY <1>4, <1>5, <1>6
  <2>2. frames'[i].depth = frames[i].depth
    BY <1>2 DEF Same
  <2>3. i \in 1..Len(frames) /\ i # Len(frames)
    BY <1>1
  <2>4. /\ frames[i].depth = Cardinality({j \in CallFrames : j <= i}) - 1
        /\ ~(frames[i].depth > MaxCallDepth)
    BY <2>3 DEF DispatchInv, Depths
  <2> QED BY <2>1, <2>2, <2>4
<1> QED BY <1>2, <1>7 DEF Depths

(* What the caller is charged stays within its margin, or it fails too.    *)
LEMMA PopGas ==
  ASSUME DispatchInv, NEW st, Pops(st)
  PROVE  Excesses' /\ Margins'
<1>1. PICK n \in Nat : n = Len(frames) - 1 /\ n + 1 = Len(frames)
  BY PopCount
<1>2. /\ frames' \in Seq(Frame) /\ Len(frames') = n
      /\ \A i \in 1..n : Same(frames'[i], frames[i])
  BY <1>1 DEF Pops, FramesPopped
<1>3. /\ control \in {"run", "error", "panic"} /\ st \in {"ok", "failed"}
      /\ st = "ok" => control = "run"
      /\ st = "failed" => control' \in {"error", "panic", "replyErr", "aborted"}
      /\ control' \in {"committed", "aborted"} <=> n = 0
      /\ control' = "replyErr" => Top.kind = "call"
      /\ Propagates => control' \in {"panic", "aborted"}
  BY <1>1 DEF Pops, ControlPopped
<1>4. Top = frames[n + 1] /\ Top \in Frame /\ Top.kind \in {"call", "reply"}
  BY <1>1, <1>3, TopFacts
<1>5. PICK b \in Nat : b = Top.base
  BY <1>4, OwnFacts
<1>6. /\ meters' \in Seq(Meter) /\ Len(meters') \in b..Len(meters)
      /\ Top.kind = "call" => Len(meters') = b
      /\ \A i \in 1..Len(meters') : meters'[i].limit = meters[i].limit
      /\ \A i \in 1..Len(meters') : (Top.limited => i # b) => meters'[i] = meters[i]
      /\ Top.limited => Settles(b)
  BY <1>5, EndedMeters DEF MetersEnded
<1>7. /\ Len(meters') \in Nat /\ Len(meters) \in Nat /\ b <= Len(meters')
      /\ Len(meters') <= Len(meters)
  BY <1>5, <1>6 DEF DispatchInv, TypeOK
<1>8. /\ Own(Top) \in {0, 1} /\ Top.limited \in BOOLEAN
      /\ Top.limited => Own(Top) = 1
      /\ ~Top.limited => Own(Top) = 0
  BY <1>4, OwnFacts
<1>9. /\ Top.limited => Top.kind = "call" /\ n > 0
      /\ Top.limited => b + 1 \in 1..Len(meters)
      /\ b \in 1..Len(meters)
  <2>1. /\ Top.kind = "reply" => ~Top.limited
        /\ Len(frames) = 1 => ~Top.limited
        /\ Top.limited => b + 1 \in 1..Len(meters)
        /\ b \in 1..Len(meters)
    BY <1>3, <1>5, TopFacts
  <2>2. Len(frames) = 1 <=> ~(n > 0)
    BY <1>1
  <2> QED BY <1>4, <2>1, <2>2
<1>10. n > 0 => Top'.base + Own(Top') <= b
  <2> SUFFICES ASSUME n > 0 PROVE Top'.base + Own(Top') <= b
    OBVIOUS
  <2>1. n \in 1..Len(frames) /\ n + 1 \in 1..Len(frames) /\ n < n + 1
    BY <1>1
  <2>2. frames[n].base + Own(frames[n]) <= b
    BY <1>4, <1>5, <2>1 DEF DispatchInv, Stack
  <2>3. Top' = frames'[n] /\ Same(frames'[n], frames[n])
    BY <1>2, <2>1 DEF Top, Last
  <2> QED BY <2>2, <2>3, SameFacts DEF Same
<1>11. n > 0 => Top'.base + Own(Top') \in Nat
  <2> SUFFICES ASSUME n > 0 PROVE Top'.base + Own(Top') \in Nat
    OBVIOUS
  <2>1. Top' \in Frame
    BY <1>2 DEF Top, Last
  <2> QED BY <2>1, OwnFacts
<1>12. ASSUME NEW i \in 1..Len(meters'), Top.limited, i = b, Exceeded(meters'[i])
       PROVE  control' = "panic" /\ i >= Top'.base + Own(Top')
  BY <1>5, <1>6, <1>9, <1>10, <1>11, <1>12 DEF Settles
<1>13. ASSUME NEW i \in 1..Len(meters'), Top.limited => i # b, Exceeded(meters'[i])
       PROVE  /\ i >= b /\ control' \in {"error", "panic", "replyErr", "aborted"}
              /\ control' = "replyErr" => i = Len(meters')
  <2>1. Exceeded(meters[i]) /\ i \in 1..Len(meters)
    BY <1>6, <1>7, <1>13
  <2>2. control \in {"error", "panic"} /\ i >= b + Own(Top)
    BY <1>3, <1>5, <2>1 DEF DispatchInv, Excesses
  <2>3. st = "failed"
    BY <1>3, <2>2
  <2>4. i >= b
    BY <1>5, <1>8, <2>2
  <2>5. control' = "replyErr" => i = Len(meters')
    BY <1>3, <1>5, <1>6, <1>7, <2>4
  <2> QED BY <1>3, <2>3, <2>4, <2>5
<1>14. ASSUME NEW i \in 1..Len(meters'), Exceeded(meters'[i])
       PROVE  \/ control' \in {"error", "panic"} /\ i >= Top'.base + Own(Top')
              \/ control' = "replyErr" /\ i = Len(meters')
              \/ control' = "aborted"
  <2>1. CASE Top.limited /\ i = b
    BY <1>12, <1>14, <2>1
  <2>2. CASE Top.limited => i # b
    <3>1. /\ i >= b /\ control' \in {"error", "panic", "replyErr", "aborted"}
          /\ control' = "replyErr" => i = Len(meters')
      BY <1>13, <1>14, <2>2
    <3>2. control' \in {"error", "panic"} => n > 0
      BY <1>3
    <3>3. n > 0 => i >= Top'.base + Own(Top')
      BY <1>5, <1>10, <1>11, <3>1
    <3> QED BY <3>1, <3>2, <3>3
  <2> QED BY <1>8, <2>1, <2>2
<1>15. Excesses'
  BY <1>14 DEF Excesses
<1>16. ASSUME TRUE \notin Gasless
       PROVE  \A i \in 1..Len(meters) :
                /\ meters[i].limit \in Nat /\ meters[i].used <= meters[i].limit
                /\ meters[i].used = meters[i].limit =>
                     /\ i = Len(meters)
                     /\ \/ control \in {"idle", "panic", "aborted"}
                        \/ control = "error" /\ Top.limited
  BY <1>16 DEF DispatchInv, Margins
<1>17. \A i \in 1..Len(meters) : meters[i].used \in Nat
  <2>1. \A i \in 1..Len(meters) : meters[i] \in Meter
    BY DEF DispatchInv, TypeOK
  <2> QED BY <2>1 DEF Meter
<1>18. ASSUME TRUE \notin Gasless, NEW i \in 1..Len(meters'), Top.limited, i = b
       PROVE  /\ meters'[i].limit \in Nat /\ meters'[i].used <= meters'[i].limit
              /\ meters'[i].used # meters'[i].limit
  <2>1. meters[b].used + meters[b + 1].limit < meters[b].limit
    <3>1. Len(frames) \in 1..Len(frames) /\ frames[Len(frames)] = Top
      BY <1>1, <1>4
    <3>2. frames[Len(frames)].limited
      BY <1>18, <3>1
    <3>3. meters[frames[Len(frames)].base].used + meters[frames[Len(frames)].base + 1].limit
            < meters[frames[Len(frames)].base].limit
      BY <1>18, <3>1, <3>2 DEF DispatchInv, Margins
    <3> QED BY <1>5, <3>1, <3>3
  <2>2. /\ b \in 1..Len(meters) /\ b + 1 \in 1..Len(meters)
        /\ meters[b + 1].limit \in Nat /\ meters[b + 1].used <= meters[b + 1].limit
        /\ meters[b].limit \in Nat /\ meters[b].used \in Nat /\ meters[b + 1].used \in Nat
    BY <1>9, <1>16, <1>17, <1>18
  <2>3. /\ meters'[b].limit = meters[b].limit
        /\ meters'[b].used \in {meters[b].used + meters[b + 1].used,
                                meters[b].used + meters[b + 1].limit}
    BY <1>6, <1>18 DEF Settles
  <2> QED BY <1>18, <2>1, <2>2, <2>3, SMTT(30)
<1>19. ASSUME TRUE \notin Gasless, NEW i \in 1..Len(meters'), Top.limited => i # b
       PROVE  /\ meters'[i].limit \in Nat /\ meters'[i].used <= meters'[i].limit
              /\ meters'[i].used = meters'[i].limit =>
                   i = Len(meters') /\ control' \in {"panic", "aborted"}
  <2>1. meters'[i] = meters[i] /\ i \in 1..Len(meters)
    BY <1>6, <1>7, <1>19
  <2>2. ASSUME meters[i].used = meters[i].limit
        PROVE  i = Len(meters') /\ control' \in {"panic", "aborted"}
    <3>1. /\ i = Len(meters)
          /\ control = "panic" \/ (control = "error" /\ Top.limited)
      BY <1>3, <1>16, <1>19, <2>1, <2>2
    <3>2. i = Len(meters') /\ Len(meters') = Len(meters)
      BY <1>7, <3>1
    <3>3. ~Top.limited
      BY <1>6, <1>7, <1>9, <3>2
    <3>4. Propagates
      BY <3>1, <3>3 DEF Propagates
    <3> QED BY <1>3, <3>2, <3>4
  <2> QED BY <1>16, <1>19, <2>1, <2>2
<1>20. ASSUME TRUE \notin Gasless, NEW i \in 1..n, frames'[i].limited
       PROVE  meters'[frames'[i].base].used + meters'[frames'[i].base + 1].limit
                < meters'[frames'[i].base].limit
  <2>1. frames[i].limited /\ frames'[i].base = frames[i].base /\ frames[i] \in Frame
    BY <1>1, <1>2, <1>20 DEF Same, DispatchInv, TypeOK
  <2>2. PICK c \in Nat : c = frames[i].base
    BY <2>1, OwnFacts
  <2>3. i \in 1..Len(frames) /\ Len(frames) \in 1..Len(frames) /\ i < Len(frames)
    BY <1>1
  <2>4. c >= 1 /\ c + 1 <= b
    <3>1. Own(frames[i]) = 1
      BY <2>1 DEF Own
    <3>2. frames[i].base >= 1 /\ frames[i].base + Own(frames[i]) <= frames[Len(frames)].base
      BY <2>3 DEF DispatchInv, Stack
    <3> QED BY <1>1, <1>4, <1>5, <2>2, <3>1, <3>2
  <2>5. c \in 1..Len(meters') /\ c + 1 \in 1..Len(meters') /\ c # b
    BY <1>5, <1>7, <2>4
  <2>6. meters[c].used + meters[c + 1].limit < meters[c].limit
    BY <1>20, <2>1, <2>2, <2>3 DEF DispatchInv, Margins
  <2>7. meters'[c] = meters[c] /\ meters'[c + 1].limit = meters[c + 1].limit
    BY <1>6, <2>5
  <2> QED BY <2>1, <2>2, <2>6, <2>7
<1>21. ASSUME TRUE \notin Gasless, NEW i \in 1..Len(meters')
       PROVE  /\ meters'[i].limit \in Nat /\ meters'[i].used <= meters'[i].limit
              /\ meters'[i].used = meters'[i].limit =>
                   i = Len(meters') /\ control' \in {"panic", "aborted"}
  <2>1. CASE Top.limited /\ i = b
    BY <1>18, <1>21, <2>1
  <2>2. CASE Top.limited => i # b
    BY <1>19, <1>21, <2>2
  <2> QED BY <1>8, <2>1, <2>2
<1>22. Margins'
  BY <1>2, <1>20, <1>21 DEF Margins
<1> QED BY <1>15, <1>22

(* The message that ends is answered next if its caller asked for it, and  *)
(* its failure is that of its caller unless the caller handles it.         *)
LEMMA PopAnswers ==
  ASSUME DispatchInv, NEW st, Pops(st)
  PROVE  Answers' /\ Failures'
<1>1. PICK n \in Nat : n = Len(frames) - 1 /\ n + 1 = Len(frames)
  BY PopCount
<1>2. /\ frames' \in Seq(Frame) /\ Len(frames') = n
      /\ \A i \in 1..n : Same(frames'[i], frames[i])
      /\ control' \in {"replyOk", "replyErr"} => frames'[n].last = Top.id
  BY <1>1 DEF Pops, FramesPopped
<1>3. /\ control \in {"run", "error", "panic"} /\ st \in {"ok", "failed"}
      /\ st = "ok" => control = "run" /\ control' \in {"run", "replyOk", "committed"}
      /\ st = "failed" => control' \in {"error", "panic", "replyErr", "aborted"}
      /\ control' \in {"committed", "aborted"} <=> n = 0
      /\ control' = "replyOk" => Top.kind = "call" /\ Top.replyOn \in {"success", "always"}
      /\ control' = "replyErr" => Top.kind = "call" /\ Top.replyOn \in {"error", "always"}
      /\ control' = "run" /\ Top.kind = "call" => Top.replyOn \in {"error", "never"}
  BY <1>1 DEF Pops, ControlPopped
<1>4. Top = frames[n + 1] /\ Top \in Frame
  BY <1>1, <1>3, TopFacts
<1>5. PICK c \in Nat : c = Len(calls)
  BY DEF DispatchInv, TypeOK
<1>6. PICK t \in 1..c : t = Top.id
  BY <1>3, <1>5, TopFacts
<1>7. /\ Len(calls') = c
      /\ \A x \in 1..c :
           /\ calls'[x].parent = calls[x].parent /\ calls'[x].kind = calls[x].kind
           /\ calls'[x].replyOn = calls[x].replyOn /\ calls'[x].replies = calls[x].replies
           /\ calls'[x].status = IF x = t THEN st ELSE calls[x].status
  BY <1>5, <1>6, EndedCalls DEF CallsEnded
<1>8. /\ calls[t].status = "open" /\ calls[t].kind = Top.kind
      /\ calls[t].replyOn = Top.replyOn
      /\ calls[t].parent = IF n = 0 THEN 0 ELSE frames[n].id
      /\ calls[t].replies = 0
  <2>1. Len(frames) \in 1..Len(frames) /\ frames[Len(frames)] = Top
    BY <1>1, <1>4
  <2>2. /\ calls[t].status = "open" /\ calls[t].kind = Top.kind
        /\ calls[t].replyOn = Top.replyOn
        /\ calls[t].parent = IF Len(frames) = 1 THEN 0 ELSE frames[Len(frames) - 1].id
    BY <1>6, <2>1 DEF DispatchInv, Records
  <2>3. calls[t].replies = 0
    BY <1>5, <2>2 DEF DispatchInv, Answers
  <2>4. Len(frames) = 1 <=> n = 0
    BY <1>1
  <2> QED BY <1>1, <2>2, <2>3, <2>4
<1>9. n > 0 => Top'.id = frames[n].id
  BY <1>2 DEF Top, Last, Same
<1>10. \A x : ~Waiting(x)
  BY <1>3 DEF Waiting
<1>11. ASSUME NEW x \in 1..c, calls[x].parent # 0
       PROVE  Doomed(calls[x].parent) => Doomed(calls[x].parent)'
  <2>1. PICK y \in 1..c : y = calls[x].parent
    <3>1. calls[x] \in Call /\ calls[x].parent < x
      BY <1>5 DEF DispatchInv, TypeOK, Records
    <3>2. calls[x].parent \in Nat
      BY <3>1 DEF Call
    <3> QED BY <1>11, <3>1, <3>2
  <2>2. ASSUME Doomed(y) PROVE calls'[y].status = "failed"
    <3>1. CASE y = t
      BY <1>3, <1>7, <1>8, <2>2, <3>1 DEF Doomed
    <3>2. CASE y # t
      BY <1>6, <1>7, <2>2, <3>2 DEF Doomed
    <3> QED BY <3>1, <3>2
  <2>3. calls'[x].parent = y
    BY <1>7, <2>1
  <2> QED BY <2>1, <2>2, <2>3 DEF Doomed
<1>12. calls[t].parent # 0 /\ control' \in {"error", "panic"} => Doomed(calls[t].parent)'
  <2>1. calls[t].parent # 0 => n > 0 /\ calls'[t].parent = Top'.id
    BY <1>7, <1>8, <1>9
  <2> QED BY <2>1 DEF Doomed
<1>13. n = 0 => calls[t].parent = 0
  BY <1>8
<1>14. ASSUME control' \in {"replyOk", "replyErr"}
       PROVE  /\ Top'.last = t /\ calls'[t].kind = "call" /\ calls'[t].parent = Top'.id
              /\ calls'[t].replies = 0
              /\ control' = "replyOk" =>
                   calls'[t].status = "ok" /\ calls'[t].replyOn \in {"success", "always"}
              /\ control' = "replyErr" =>
                   calls'[t].status = "failed" /\ calls'[t].replyOn \in {"error", "always"}
  <2>1. n # 0
    BY <1>3, <1>14
  <2>2. Top'.last = t
    BY <1>2, <1>6, <1>14, <2>1 DEF Top, Last
  <2>3. calls'[t].parent = Top'.id
    BY <1>7, <1>8, <1>9, <2>1
  <2> QED BY <1>3, <1>7, <1>8, <1>14, <2>2, <2>3
<1>15. ASSUME NEW x \in 1..c, calls[x].kind = "call", calls[x].parent # 0, ~Waiting(x)'
       PROVE  /\ calls'[x].status = "ok" =>
                   calls[x].replies = IF calls[x].replyOn \in {"success", "always"} THEN 1 ELSE 0
              /\ calls'[x].status = "failed" /\ ~Doomed(calls[x].parent)' =>
                   calls[x].replies = IF calls[x].replyOn \in {"error", "always"} THEN 1 ELSE 0
  <2>1. CASE x # t
    <3>1. /\ calls[x].status = "ok" =>
               calls[x].replies = IF calls[x].replyOn \in {"success", "always"} THEN 1 ELSE 0
          /\ calls[x].status = "failed" /\ ~Doomed(calls[x].parent) =>
               calls[x].replies = IF calls[x].replyOn \in {"error", "always"} THEN 1 ELSE 0
      BY <1>5, <1>10, <1>15 DEF DispatchInv, Answers, Asked
    <3>2. Doomed(calls[x].parent) => Doomed(calls[x].parent)'
      BY <1>11, <1>15
    <3> QED BY <1>7, <2>1, <3>1, <3>2
  <2>2. CASE x = t
    <3>1. control' \notin {"replyOk", "replyErr"}
      BY <1>14, <1>15, <2>2 DEF Waiting
    <3>2. n # 0
      BY <1>13, <1>15, <2>2
    <3>3. ASSUME calls'[x].status = "ok"
          PROVE  calls[x].replyOn \notin {"success", "always"} /\ calls[x].replies = 0
      <4>1. st = "ok"
        BY <1>7, <2>2, <3>3
      <4>2. control' = "run"
        BY <1>3, <3>1, <3>2, <4>1
      <4> QED BY <1>3, <1>8, <1>15, <2>2, <4>2
    <3>4. ASSUME calls'[x].status = "failed" PROVE Doomed(calls[x].parent)'
      <4>1. st = "failed"
        BY <1>7, <2>2, <3>4
      <4>2. control' \in {"error", "panic"}
        BY <1>3, <3>1, <3>2, <4>1
      <4> QED BY <1>12, <1>15, <2>2, <4>2
    <3> QED BY <3>3, <3>4
  <2> QED BY <2>1, <2>2
<1>16. \A x \in 1..c : calls'[x].status = "open" => calls'[x].replies = 0
  <2>1. \A x \in 1..c : calls[x].status = "open" => calls[x].replies = 0
    BY <1>5 DEF DispatchInv, Answers
  <2> QED BY <1>3, <1>7, <2>1
<1>17. Answers'
  <2>1. ASSUME NEW x \in 1..c
        PROVE  calls'[x].kind = "call" /\ calls'[x].parent # 0 /\ ~Waiting(x)' =>
                 /\ calls'[x].status = "ok" =>
                      calls'[x].replies = Asked(x, {"success", "always"})'
                 /\ calls'[x].status = "failed" /\ ~Doomed(calls[x].parent)' =>
                      calls'[x].replies = Asked(x, {"error", "always"})'
    BY <1>7, <1>15 DEF Asked
  <2>2. ASSUME control' \in {"replyOk", "replyErr"}
        PROVE  /\ Top'.last \in 1..Len(calls')
               /\ calls'[Top'.last].kind = "call" /\ calls'[Top'.last].parent = Top'.id
               /\ calls'[Top'.last].replies = 0
               /\ control' = "replyOk" =>
                    /\ calls'[Top'.last].status = "ok"
                    /\ calls'[Top'.last].replyOn \in {"success", "always"}
               /\ control' = "replyErr" =>
                    /\ calls'[Top'.last].status = "failed"
                    /\ calls'[Top'.last].replyOn \in {"error", "always"}
    BY <1>7, <1>14, <2>2
  <2> QED BY <1>7, <1>16, <2>1, <2>2 DEF Answers
<1>18. ASSUME NEW x \in 1..c, calls'[x].status = "failed",
              calls'[x].replyOn \in {"success", "never"}, calls'[x].parent # 0
       PROVE  Doomed(calls[x].parent)'
  <2>1. calls[x].replyOn \in {"success", "never"} /\ calls[x].parent # 0
    BY <1>7, <1>18
  <2>2. CASE x # t
    <3>1. Doomed(calls[x].parent)
      BY <1>5, <1>7, <1>18, <2>1, <2>2 DEF DispatchInv, Failures
    <3> QED BY <1>11, <2>1, <3>1
  <2>3. CASE x = t
    <3>1. st = "failed"
      BY <1>7, <1>18, <2>3
    <3>2. control' \in {"error", "panic"}
      BY <1>3, <1>8, <1>13, <2>1, <2>3, <3>1
    <3> QED BY <1>12, <2>1, <2>3, <3>2
  <2> QED BY <2>2, <2>3
<1>19. Failures'
  BY <1>7, <1>18 DEF Failures
<1> QED BY <1>17, <1>19

-----------------------------------------------------------------------------
(* The invariant.                                                          *)

(* The invariant holds before the transaction.                             *)
LEMMA DispatchInit ==
  ASSUME Init
  PROVE  DispatchInv
<1>1. PICK m : m = [limit |-> TxGas, used |-> 0]
  OBVIOUS
<1>2. m \in Meter /\ m.limit = TxGas /\ m.used = 0 /\ ~Exceeded(m)
  BY <1>1, GasAssumption DEF Meter, Exceeded, IsInfinite
<1>3. /\ frames = <<>> /\ caches = << {} >> /\ meters = <<m>> /\ calls = <<>>
      /\ control = "idle"
  BY <1>1 DEF Init
<1>4. TypeOK
  <2>1. frames \in Seq(Frame) /\ calls \in Seq(Call)
    BY <1>3
  <2>2. caches \in Seq(SUBSET Nat)
    BY <1>3
  <2>3. meters \in Seq(Meter)
    BY <1>2, <1>3
  <2> QED BY <1>3, <2>1, <2>2, <2>3 DEF TypeOK
<1>5. Len(frames) = 0 /\ Len(calls) = 0 /\ Len(meters) = 1 /\ Len(caches) = 1
  BY <1>3
<1>6. Stack /\ Records /\ Depths
  BY <1>3, <1>5 DEF Stack, Active, Records, Depths
<1>7. Excesses
  BY <1>2, <1>3, <1>5 DEF Excesses
<1>8. Margins
  <2>1. \A i \in 1..Len(meters) : i = 1 /\ meters[i] = m
    BY <1>3, <1>5
  <2>2. m.limit \in Nat /\ m.used <= m.limit
    BY <1>2, GasAssumption
  <2> QED BY <1>3, <1>5, <2>1, <2>2 DEF Margins
<1>9. Answers /\ Failures
  BY <1>3, <1>5 DEF Answers, Failures
<1> QED BY <1>4, <1>6, <1>7, <1>8, <1>9 DEF DispatchInv

(* Every step preserves the invariant.                                     *)
LEMMA DispatchNext ==
  ASSUME DispatchInv, [Next]_vars
  PROVE  DispatchInv'
<1>1. CASE UNCHANGED vars
  <2>1. UNCHANGED <<frames, caches, meters, control, calls>>
    BY <1>1 DEF vars
  <2>2. TypeOK'
    BY <2>1 DEF DispatchInv, TypeOK
  <2>3. Stack'
    BY <2>1 DEF DispatchInv, Stack, Active, Top, Last
  <2>4. Records'
    BY <2>1 DEF DispatchInv, Records
  <2>5. Depths'
    <3>1. CallFrames' = CallFrames
      BY <2>1 DEF CallFrames
    <3> QED BY <2>1, <3>1 DEF DispatchInv, Depths
  <2>6. Excesses'
    BY <2>1 DEF DispatchInv, Excesses, Top, Last
  <2>7. Margins'
    BY <2>1 DEF DispatchInv, Margins, Top, Last
  <2>8. Answers'
    BY <2>1 DEF DispatchInv, Answers, Asked, Doomed, Waiting, Top, Last
  <2>9. Failures'
    BY <2>1 DEF DispatchInv, Failures, Doomed, Top, Last
  <2> QED BY <2>2, <2>3, <2>4, <2>5, <2>6, <2>7, <2>8, <2>9 DEF DispatchInv
<1>2. CASE Step
  <2>1. CASE \E f : Pushes(f)
    <3>1. PICK f : Pushes(f)
      BY <2>1
    <3>2. TypeOK' /\ Stack'
      BY <3>1, PushTypes, PushStack
    <3>3. Records' /\ Depths'
      BY <3>1, PushRecords, PushDepths
    <3>4. Excesses' /\ Margins'
      BY <3>1, PushGas
    <3>5. Answers' /\ Failures'
      BY <3>1, PushAnswers
    <3> QED BY <3>2, <3>3, <3>4, <3>5 DEF DispatchInv
  <2>2. CASE \E st : Pops(st)
    <3>1. PICK st : Pops(st)
      BY <2>2
    <3>2. TypeOK' /\ Stack'
      BY <3>1, PopTypes, PopStack
    <3>3. Records' /\ Depths'
      BY <3>1, PopRecords, PopDepths
    <3>4. Excesses' /\ Margins'
      BY <3>1, PopGas
    <3>5. Answers' /\ Failures'
      BY <3>1, PopAnswers
    <3> QED BY <3>2, <3>3, <3>4, <3>5 DEF DispatchInv
  <2> QED BY <1>2, <2>1, <2>2, StepCases
<1> QED BY <1>1, <1>2 DEF Next, Done

(* The invariant is inductive: it holds in every reachable state, however  *)
(* many messages are dispatched and however deeply they are nested.        *)
THEOREM DispatchInvariance == Spec => []DispatchInv
BY DispatchInit, DispatchNext, PTL DEF Spec

(* Gas limits hold (WithinLimits): who dispatches has not exceeded its     *)
(* meters, so that gasRemaining does not wrap around, a limited message    *)
(* leaves its caller gas, and calls run at most MaxCallDepth deep.         *)
THEOREM LimitsCorrect == Spec => []WithinLimits
<1>1. DispatchInv => WithinLimits
  <2> SUFFICES ASSUME DispatchInv PROVE WithinLimits
    OBVIOUS
  <2>1. DOMAIN frames = 1..Len(frames) /\ DOMAIN meters = 1..Len(meters)
    BY DEF DispatchInv, TypeOK
  <2>2. ASSUME NEW i \in DOMAIN frames
        PROVE  LET depth == Cardinality({j \in CallFrames : j <= i}) - 1 IN
               /\ frames[i].depth = depth
               /\ depth > MaxCallDepth => control = "error" /\ i = Len(frames)
    BY <2>1 DEF DispatchInv, Depths
  <2>3. ASSUME control \in {"run", "replyOk"}, NEW i \in DOMAIN meters
        PROVE  ~Exceeded(meters[i])
    BY <2>1, <2>3 DEF DispatchInv, Excesses
  <2>4. ASSUME control \in {"run", "replyOk", "replyErr"}, TRUE \notin Gasless,
               NEW i \in DOMAIN meters
        PROVE  meters[i].used < meters[i].limit
    <3>1. /\ meters[i].limit \in Nat /\ meters[i].used <= meters[i].limit
          /\ meters[i].used # meters[i].limit
      BY <2>1, <2>4 DEF DispatchInv, Margins
    <3>2. meters[i] \in Meter
      BY DEF DispatchInv, TypeOK
    <3>3. meters[i].used \in Nat
      BY <3>2 DEF Meter
    <3> QED BY <3>1, <3>3
  <2> QED BY <2>2, <2>3, <2>4 DEF WithinLimits
<1> QED BY <1>1, DispatchInvariance, PTL

(* Every message that was asked to be answered is answered exactly once,   *)
(* the others never (RepliesExact).                                        *)
THEOREM RepliesCorrect == Spec => []RepliesExact
<1>1. DispatchInv => RepliesExact
  <2> SUFFICES ASSUME DispatchInv, NEW x \in DOMAIN calls,
                      calls[x].kind = "call", calls[x].parent # 0, ~Waiting(x)
               PROVE  /\ calls[x].status = "ok" =>
                           calls[x].replies = Asked(x, {"success", "always"})
                      /\ calls[x].status = "failed" /\ calls[calls[x].parent].status = "ok" =>
                           calls[x].replies = Asked(x, {"error", "always"})
    BY DEF RepliesExact, Waiting, Asked
  <2>1. DOMAIN calls = 1..Len(calls)
    BY DEF DispatchInv, TypeOK
  <2>2. /\ calls[x].status = "ok" =>
             calls[x].replies = Asked(x, {"success", "always"})
        /\ calls[x].status = "failed" /\ ~Doomed(calls[x].parent) =>
             calls[x].replies = Asked(x, {"error", "always"})
    BY <2>1 DEF DispatchInv, Answers
  <2>3. calls[calls[x].parent].status = "ok" => ~Doomed(calls[x].parent)
    <3>1. control \in {"error", "panic"} => calls[Top.id].status = "open"
      <4>1. control \in {"error", "panic"} =>
              Len(frames) \in 1..Len(frames) /\ Top = frames[Len(frames)]
        BY TopFacts
      <4> QED BY <4>1 DEF DispatchInv, Records
    <3> QED BY <3>1 DEF Doomed
  <2> QED BY <2>2, <2>3
<1> QED BY <1>1, DispatchInvariance, PTL

(* No failure is lost (FailuresHandled): a run succeeds only if each of    *)
(* its failed messages was one whose errors it asked to handle, and none   *)
(* of its replies failed.                                                  *)
THEOREM FailuresCorrect == Spec => []FailuresHandled
<1>1. DispatchInv => FailuresHandled
  <2> SUFFICES ASSUME DispatchInv, NEW x \in DOMAIN calls, calls[x].status = "failed",
                      calls[x].replyOn \in {"success", "never"}, calls[x].parent # 0
               PROVE  calls[calls[x].parent].status # "ok"
    BY DEF FailuresHandled
  <2>1. DOMAIN calls = 1..Len(calls)
    BY DEF DispatchInv, TypeOK
  <2>2. Doomed(calls[x].parent)
    BY <2>1 DEF DispatchInv, Failures
  <2>3. control \in {"error", "panic"} => calls[Top.id].status = "open"
    <3>1. control \in {"error", "panic"} =>
            Len(frames) \in 1..Len(frames) /\ Top = frames[Len(frames)]
      BY TopFacts
    <3> QED BY <3>1 DEF DispatchInv, Records
  <2> QED BY <2>2, <2>3 DEF Doomed
<1> QED BY <1>1, DispatchInvariance, PTL

-----------------------------------------------------------------------------
(* Nested transactions.                                                    *)

(* What the first i of the caches cs hold together, and the mapping of the *)
(* open calls to what was visible when they began.                         *)
Held(cs, i) == UNION {cs[j] : j \in 1..i}

Begun(cs) == [i \in 1..(Len(cs) - 1) |-> Held(cs, i)]

(* Caches that agree up to k hold the same up to k.                        *)
LEMMA HeldFacts ==
  ASSUME NEW cs, NEW ds, NEW k \in Nat, \A j \in 1..k : cs[j] = ds[j]
  PROVE  \A i \in 1..k : Held(cs, i) = Held(ds, i)
<1>1. ASSUME NEW i \in 1..k PROVE Held(cs, i) = Held(ds, i)
  <2>1. \A j \in 1..i : j \in 1..k
    OBVIOUS
  <2>2. \A j \in 1..i : cs[j] = ds[j]
    BY <2>1
  <2>3. {cs[j] : j \in 1..i} = {ds[j] : j \in 1..i}
    BY <2>2
  <2> QED BY <2>3 DEF Held
<1> QED BY <1>1

(* The last cache is on top of what the others hold.                       *)
LEMMA HeldLast ==
  ASSUME NEW cs, NEW k \in Nat
  PROVE  Held(cs, k + 1) = Held(cs, k) \cup cs[k + 1]
<1>1. 1..(k + 1) = (1..k) \cup {k + 1}
  OBVIOUS
<1>2. {cs[j] : j \in 1..(k + 1)} = {cs[j] : j \in 1..k} \cup {cs[k + 1]}
  BY <1>1, Zenon
<1> QED BY <1>2 DEF Held

(* The refinement mapping in terms of Held and Begun.                      *)
LEMMA Mapping ==
  ASSUME TypeOK
  PROVE  /\ Visible = Held(caches, Len(caches))
         /\ [i \in 1..(Len(caches) - 1) |-> UNION {caches[j] : j \in 1..i}] = Begun(caches)
<1>1. DOMAIN caches = 1..Len(caches)
  BY DEF TypeOK
<1> QED BY <1>1 DEF Visible, Range, Held, Begun

(* A call begins: Enter of the nested transactions; a reply: Write.        *)
LEMMA PushRefines ==
  ASSUME DispatchInv, NEW f, Pushes(f)
  PROVE  /\ f.kind = "call" =>
              /\ Begun(caches') = Append(Begun(caches), Held(caches, Len(caches)))
              /\ Held(caches, Len(caches)) \subseteq Held(caches', Len(caches'))
         /\ f.kind = "reply" =>
              /\ Begun(caches') = Begun(caches) /\ Begun(caches) # <<>>
              /\ Held(caches, Len(caches)) \subseteq Held(caches', Len(caches'))
<1>1. PICK m \in Nat : m = Len(caches) /\ m > 0 /\ (f.kind = "reply" => m > 1)
  <2>1. Len(frames) \in Nat
    BY DEF DispatchInv, TypeOK
  <2>2. CASE Len(frames) = 0
    <3>1. Len(caches) = 1 /\ f.kind = "call"
      BY <2>2 DEF DispatchInv, Stack, Active, Pushes, FrameOK
    <3> QED BY <3>1
  <2>3. CASE Len(frames) > 0
    <3>1. Len(caches) = Top.depth + 2 /\ Top \in Frame
      BY <2>1, <2>3 DEF DispatchInv, TypeOK, Stack, Top, Last
    <3>2. Top.depth \in Nat
      BY <3>1, OwnFacts
    <3> QED BY <3>1, <3>2
  <2> QED BY <2>1, <2>2, <2>3
<1>2. caches \in Seq(SUBSET Nat)
  BY DEF DispatchInv, TypeOK
<1>3. CASE f.kind = "call"
  <2>1. PICK cs : cs = Append(caches, {})
    OBVIOUS
  <2>2. /\ cs \in Seq(SUBSET Nat) /\ Len(cs) = m + 1 /\ cs[m + 1] = {}
        /\ \A i \in 1..m : cs[i] = caches[i]
    <3>1. {} \in SUBSET Nat
      OBVIOUS
    <3> QED BY <1>1, <1>2, <2>1, <3>1, Appended
  <2>3. \/ caches' = [cs EXCEPT ![Len(cs)] = @ \cup {f.id}]
        \/ caches' = cs
    BY <1>3, <2>1 DEF Pushes, CachesPushed
  <2>4. Len(caches') = m + 1 /\ \A i \in 1..m : caches'[i] = caches[i]
    <3>1. CASE caches' = cs
      BY <2>2, <3>1
    <3>2. CASE caches' = [cs EXCEPT ![Len(cs)] = @ \cup {f.id}]
      BY <2>2, <3>2
    <3> QED BY <2>3, <3>1, <3>2
  <2>5. \A i \in 1..m : Held(caches', i) = Held(caches, i)
    BY <2>4, HeldFacts
  <2>6. Begun(caches') = [i \in 1..m |-> Held(caches, i)]
    BY <2>4, <2>5 DEF Begun
  <2>7. Begun(caches) = [i \in 1..(m - 1) |-> Held(caches, i)]
    BY <1>1 DEF Begun
  <2>8. Append([i \in 1..(m - 1) |-> Held(caches, i)], Held(caches, m)) =
          [i \in 1..m |-> Held(caches, i)]
    <3>1. m - 1 \in Nat
      BY <1>1
    <3> QED BY <1>1, <3>1
  <2>9. Held(caches', m + 1) = Held(caches', m) \cup caches'[m + 1]
    BY HeldLast
  <2>10. m \in 1..m
    BY <1>1
  <2> QED BY <1>1, <1>3, <2>4, <2>5, <2>6, <2>7, <2>8, <2>9, <2>10
<1>4. CASE f.kind = "reply"
  <2>1. caches' = [caches EXCEPT ![m] = @ \cup {f.id}]
    BY <1>1, <1>4 DEF Pushes, CachesPushed
  <2>2. /\ Len(caches') = m /\ caches'[m] = caches[m] \cup {f.id}
        /\ \A i \in 1..(m - 1) : caches'[i] = caches[i]
    BY <1>1, <1>2, <2>1
  <2>3. PICK k \in Nat : m = k + 1 /\ k > 0
    <3>1. m - 1 \in Nat /\ m > 1
      BY <1>1, <1>4
    <3> QED BY <3>1
  <2>4. \A i \in 1..k : Held(caches', i) = Held(caches, i)
    BY <2>2, <2>3, HeldFacts
  <2>5. Begun(caches') = Begun(caches)
    BY <1>1, <2>2, <2>3, <2>4 DEF Begun
  <2>6. Begun(caches) # <<>>
    <3>1. Begun(caches) = [i \in 1..k |-> Held(caches, i)]
      BY <1>1, <2>3 DEF Begun
    <3>2. Len(Begun(caches)) = k
      BY <3>1
    <3> QED BY <2>3, <3>2
  <2>7. k \in 1..k
    BY <2>3
  <2>8. /\ Held(caches', k + 1) = Held(caches', k) \cup caches'[k + 1]
        /\ Held(caches, k + 1) = Held(caches, k) \cup caches[k + 1]
    BY HeldLast
  <2> QED BY <1>1, <1>4, <2>2, <2>3, <2>4, <2>5, <2>6, <2>7, <2>8
<1> QED BY <1>3, <1>4

(* A call ends: Commit or Rollback; a reply leaves the caches alone.       *)
LEMMA PopRefines ==
  ASSUME DispatchInv, NEW st, Pops(st)
  PROVE  \/ caches' = caches
         \/ /\ Begun(caches) # <<>>
            /\ Begun(caches') = SubSeq(Begun(caches), 1, Len(Begun(caches)) - 1)
            /\ \/ Held(caches', Len(caches')) = Held(caches, Len(caches))
               \/ Held(caches', Len(caches')) = Begun(caches)[Len(Begun(caches))]
<1>1. control \in {"run", "error", "panic"}
  BY DEF Pops
<1>2. PICK m \in Nat : Len(caches) = m + 2
  <2>1. Len(frames) > 0 /\ Top \in Frame
    BY <1>1, TopFacts
  <2>2. Len(caches) = Top.depth + 2 /\ Top.depth \in Nat
    BY <2>1, OwnFacts DEF DispatchInv, Stack
  <2> QED BY <2>2
<1>3. caches \in Seq(SUBSET Nat)
  BY DEF DispatchInv, TypeOK
<1>4. Top.kind \in {"call", "reply"}
  BY <1>1, TopFacts
<1>5. CASE Top.kind = "reply"
  BY <1>5 DEF Pops, CachesPopped
<1>6. CASE Top.kind = "call"
  <2>1. caches' = Committed \/ caches' = Dropped
    BY <1>6 DEF Pops, CachesPopped
  <2>2. Begun(caches) = [i \in 1..(m + 1) |-> Held(caches, i)]
    BY <1>2 DEF Begun
  <2>3. Len(Begun(caches)) = m + 1 /\ Begun(caches)[m + 1] = Held(caches, m + 1)
    BY <2>2
  <2>4. SubSeq(Begun(caches), 1, Len(Begun(caches)) - 1) = [i \in 1..m |-> Held(caches, i)]
    BY <2>2, <2>3
  <2>5. Held(caches, m + 2) = Held(caches, m) \cup caches[m + 1] \cup caches[m + 2]
    <3>1. Held(caches, m + 1) = Held(caches, m) \cup caches[m + 1]
      BY HeldLast
    <3>2. PICK k \in Nat : k = m + 1
      OBVIOUS
    <3>3. Held(caches, k + 1) = Held(caches, k) \cup caches[k + 1]
      BY HeldLast
    <3>4. k + 1 = m + 2
      BY <3>2
    <3> QED BY <3>1, <3>2, <3>3, <3>4
  <2>6. CASE caches' = Dropped
    <3>1. caches' = SubSeq(caches, 1, m + 1) /\ m + 1 \in 0..Len(caches)
      BY <1>2, <2>6 DEF Dropped, Front
    <3>2. Len(caches') = m + 1 /\ \A i \in 1..(m + 1) : caches'[i] = caches[i]
      BY <1>3, <3>1, Shortened
    <3>3. \A i \in 1..(m + 1) : Held(caches', i) = Held(caches, i)
      BY <3>2, HeldFacts
    <3>4. Begun(caches') = [i \in 1..m |-> Held(caches, i)]
      BY <3>2, <3>3 DEF Begun
    <3>5. Held(caches', Len(caches')) = Held(caches, m + 1)
      BY <3>2, <3>3
    <3>6. Begun(caches) # <<>>
      BY <2>3
    <3> QED BY <2>3, <2>4, <3>4, <3>5, <3>6
  <2>7. CASE caches' = Committed
    <3>1. caches' = [i \in 1..(m + 1) |->
                       IF i = m + 1 THEN caches[i] \cup caches[m + 2] ELSE caches[i]]
      BY <1>2, <2>7 DEF Committed, Last
    <3>2. /\ Len(caches') = m + 1 /\ caches'[m + 1] = caches[m + 1] \cup caches[m + 2]
          /\ \A i \in 1..m : caches'[i] = caches[i]
      BY <3>1
    <3>3. \A i \in 1..m : Held(caches', i) = Held(caches, i)
      BY <3>2, HeldFacts
    <3>4. Begun(caches') = [i \in 1..m |-> Held(caches, i)]
      BY <3>2, <3>3 DEF Begun
    <3>5. Held(caches', m) = Held(caches, m)
      <4>1. CASE m = 0
        BY <4>1 DEF Held
      <4>2. CASE m # 0
        BY <3>3, <4>2
      <4> QED BY <4>1, <4>2
    <3>6. Held(caches', m + 1) = Held(caches', m) \cup caches'[m + 1]
      BY HeldLast
    <3>7. Held(caches', Len(caches')) = Held(caches, Len(caches))
      BY <1>2, <2>5, <3>2, <3>5, <3>6
    <3>8. Begun(caches) # <<>>
      BY <2>3
    <3> QED BY <2>4, <3>4, <3>7, <3>8
  <2> QED BY <2>1, <2>6, <2>7
<1> QED BY <1>4, <1>5, <1>6

(* Dispatching messages implements nested transactions: a call keeps all   *)
(* of its writes or leaves no trace, however deeply calls are nested.      *)
THEOREM NestedCorrect == Spec => NestedTransactions
<1>1. Init => Tx!Begin
  <2> SUFFICES ASSUME Init PROVE Tx!Begin
    OBVIOUS
  <2>1. caches = << {} >> /\ TypeOK
    BY DispatchInit DEF Init, DispatchInv
  <2>2. Visible = {}
    BY <2>1 DEF Visible, Range
  <2>3. [i \in 1..(Len(caches) - 1) |-> UNION {caches[j] : j \in 1..i}] = <<>>
    BY <2>1
  <2> QED BY <2>2, <2>3 DEF Tx!Begin
<1>2. DispatchInv /\ DispatchInv' /\ [Next]_vars => [Tx!Change]_(Tx!txVars)
  <2> SUFFICES ASSUME DispatchInv, DispatchInv', [Next]_vars
               PROVE  [Tx!Change]_(Tx!txVars)
    OBVIOUS
  <2>1. PICK v, w, o, p :
          /\ v = Held(caches, Len(caches)) /\ w = Held(caches', Len(caches'))
          /\ o = Begun(caches) /\ p = Begun(caches')
    OBVIOUS
  <2>2. /\ Visible = v
        /\ [i \in 1..(Len(caches) - 1) |-> UNION {caches[j] : j \in 1..i}] = o
    BY <2>1, Mapping DEF DispatchInv
  <2>3. /\ Visible' = w
        /\ [i \in 1..(Len(caches) - 1) |-> UNION {caches[j] : j \in 1..i}]' = p
    <3>1. TypeOK'
      BY DEF DispatchInv
    <3>2. DOMAIN caches' = 1..Len(caches')
      BY <3>1 DEF TypeOK
    <3> QED BY <2>1, <3>2 DEF Visible, Range, Held, Begun
  <2>4. CASE caches' = caches
    <3>1. w = v /\ p = o
      BY <2>1, <2>4
    <3> QED BY <2>2, <2>3, <3>1 DEF Tx!txVars
  <2>5. CASE p = Append(o, v) /\ v \subseteq w
    BY <2>2, <2>3, <2>5 DEF Tx!Change, Tx!Enter
  <2>6. CASE p = o /\ o # <<>> /\ v \subseteq w
    BY <2>2, <2>3, <2>6 DEF Tx!Change, Tx!Write
  <2>7. CASE o # <<>> /\ p = SubSeq(o, 1, Len(o) - 1) /\ (w = v \/ w = o[Len(o)])
    BY <2>2, <2>3, <2>7 DEF Tx!Change, Tx!Commit, Tx!Rollback, Tx!Leave
  <2>8. CASE Step
    <3>1. CASE \E f : Pushes(f)
      <4>1. PICK f : Pushes(f)
        BY <3>1
      <4>2. f.kind \in {"call", "reply"}
        <5>1. f \in Frame
          BY <4>1 DEF Pushes, FramesPushed
        <5> QED BY <5>1 DEF Frame
      <4> QED BY <2>1, <2>5, <2>6, <4>1, <4>2, PushRefines
    <3>2. CASE \E st : Pops(st)
      BY <2>1, <2>4, <2>7, <3>2, PopRefines
    <3> QED BY <2>8, <3>1, <3>2, StepCases
  <2>9. CASE UNCHANGED vars
    BY <2>4, <2>9 DEF vars
  <2> QED BY <2>8, <2>9 DEF Next, Done
<1> QED BY <1>1, <1>2, DispatchInvariance, PTL DEF Spec, NestedTransactions, Tx!TxSpec
==============================================================================
