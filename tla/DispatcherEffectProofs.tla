------------------------ MODULE DispatcherEffectProofs ------------------------
(***************************************************************************)
(* Proofs about what the execution of messages leaves behind: the writes   *)
(* that can be seen, and the events that are reported, are exactly those   *)
(* of the runs that survive, and all the gas that was used is charged.     *)
(***************************************************************************)
EXTENDS MessageDispatcherProofs, WellFoundedInduction

-----------------------------------------------------------------------------
(* The inductive invariant, beside DispatchInv.                            *)

(* Run x happened in the run of frame i.                                   *)
In(x, i) == frames[i].id \in calls[x].within

Survives(x) == \A y \in calls[x].within : calls[y].status # "failed"

(* The run of the top frame, when it has stopped with an error.            *)
Failing(x) == control \in {"error", "panic"} /\ x = Top.id

(* An open run happened in the open runs below it, and none has failed.    *)
Nesting ==
  /\ \A x \in 1..Len(calls) : x \in calls[x].within /\ calls[x].within \subseteq 1..x
  /\ \A i \in 1..Len(frames) : Survives(frames[i].id)
  /\ \A i, j \in 1..Len(frames) : j <= i => In(frames[i].id, j)

(* The cache of a call, and those above it, hold what was written in that  *)
(* call, and only that.                                                    *)
Caching ==
  \A k \in 1..Len(caches) : \A x \in caches[k] :
    /\ x \in 1..Len(calls)
    /\ \A i \in 1..Len(frames) :
         /\ In(x, i) => k >= frames[i].depth + 2
         /\ (frames[i].kind = "call" /\ k >= frames[i].depth + 2) => In(x, i)

(* What has failed is at most in the cache that will be dropped next.      *)
Written == \A k \in 1..Len(caches) : \A x \in caches[k] :
  Survives(x) \/ (control \in {"error", "panic"} /\ k = Len(caches))

(* What survives can be seen.                                              *)
Kept == \A x \in 1..Len(calls) : Survives(x) =>
  Failing(x) \/ \E k \in 1..Len(caches) : x \in caches[k]

(* A frame holds events of surviving runs that happened in it, but not in  *)
(* a frame above it.                                                       *)
Emitted == \A i \in 1..Len(frames) : \A k \in 1..Len(frames[i].events) :
  /\ frames[i].events[k] \in 1..Len(calls) /\ Survives(frames[i].events[k])
  /\ \A j \in 1..Len(frames) : In(frames[i].events[k], j) <=> j <= i

(* The event x is held by some frame.                                      *)
Reported(x) ==
  \E i \in 1..Len(frames) : \E k \in 1..Len(frames[i].events) : frames[i].events[k] = x

Reporting == Len(frames) > 0 =>
  \A x \in 1..Len(calls) : Survives(x) => Failing(x) \/ Reported(x)

(* Events are in the order of the runs, from the bottom of the stack up.   *)
Ascending ==
  \A i, j \in 1..Len(frames) :
    \A k \in 1..Len(frames[i].events), l \in 1..Len(frames[j].events) :
      (i < j \/ (i = j /\ k < l)) => frames[i].events[k] < frames[j].events[l]

EffectInv ==
  Nesting /\ Caching /\ Written /\ Kept /\ Emitted /\ Reporting /\ Ascending

-----------------------------------------------------------------------------
(* Beginning a run.                                                        *)

(* What is known of the records, frames and caches when f begins.          *)
LEMMA PushView ==
  ASSUME DispatchInv, EffectInv, NEW f, Pushes(f), NEW c \in Nat, c = Len(calls),
         NEW n \in Nat, n = Len(frames)
  PROVE  /\ Len(calls') = c + 1 /\ Len(frames') = n + 1
         /\ \A x \in 1..c : calls'[x].within = calls[x].within /\ (Survives(x)' <=> Survives(x))
         /\ \A i \in 1..n : Same(frames'[i], frames[i]) /\ frames'[i].events = frames[i].events
         /\ frames'[n + 1] = f /\ f \in Frame /\ f.id = c + 1
         /\ \A x \in 1..c : \A i \in 1..n : In(x, i)' <=> In(x, i)
         /\ \A x \in 1..c : ~In(x, n + 1)'
<1>1. /\ frames' \in Seq(Frame) /\ Len(frames') = n + 1 /\ f \in Frame /\ frames'[n + 1] = f
      /\ \A i \in 1..n : Same(frames'[i], frames[i]) /\ frames'[i].events = frames[i].events
  BY AfterPush DEF Pushes, DispatchInv
<1>2. f.id = c + 1
  BY DEF Pushes, FrameOK
<1>3. /\ Len(calls') = c + 1
      /\ \A x \in 1..c : calls'[x].within = calls[x].within /\ calls'[x].status = calls[x].status
  BY DEF Pushes, CallsPushed
<1>4. \A x \in 1..c : calls[x].within \subseteq 1..c
  <2>1. \A x \in 1..c : calls[x].within \subseteq 1..x
    BY DEF EffectInv, Nesting
  <2>2. \A x \in 1..c : 1..x \subseteq 1..c
    OBVIOUS
  <2> QED BY <2>1, <2>2
<1>5. ASSUME NEW x \in 1..c PROVE Survives(x)' <=> Survives(x)
  <2>1. calls'[x].within = calls[x].within /\ calls[x].within \subseteq 1..c
    BY <1>3, <1>4
  <2>2. \A y \in calls[x].within : calls'[y].status = calls[y].status
    BY <1>3, <2>1
  <2> QED BY <2>1, <2>2 DEF Survives
<1>6. ASSUME NEW x \in 1..c, NEW i \in 1..n PROVE In(x, i)' <=> In(x, i)
  BY <1>1, <1>3 DEF In, Same
<1>7. ASSUME NEW x \in 1..c PROVE ~In(x, n + 1)'
  <2>1. c + 1 \notin calls[x].within
    BY <1>4
  <2>2. frames'[n + 1].id = c + 1 /\ calls'[x].within = calls[x].within
    BY <1>1, <1>2, <1>3
  <2> QED BY <2>1, <2>2 DEF In
<1> QED BY <1>1, <1>2, <1>3, <1>5, <1>6, <1>7

(* The new run happens in all runs that are open, and none of them has     *)
(* failed.                                                                 *)
LEMMA PushedRun ==
  ASSUME DispatchInv, EffectInv, NEW f, Pushes(f), NEW c \in Nat, c = Len(calls),
         NEW n \in Nat, n = Len(frames)
  PROVE  /\ c + 1 \in calls'[c + 1].within /\ calls'[c + 1].within \subseteq 1..(c + 1)
         /\ Survives(c + 1)'
         /\ \A i \in 1..(n + 1) : In(c + 1, i)'
<1>1. /\ Len(calls') = c + 1 /\ Len(frames') = n + 1
      /\ \A i \in 1..n : Same(frames'[i], frames[i])
      /\ frames'[n + 1] = f /\ f.id = c + 1
  BY PushView
<1>2. PICK w : w = Above(IF n = 0 THEN 0 ELSE Top.id)
  OBVIOUS
<1>3. /\ calls'[c + 1].within = w \cup {c + 1} /\ calls'[c + 1].status = "open"
      /\ \A x \in 1..c : calls'[x].status = calls[x].status
  BY <1>1, <1>2 DEF Pushes, CallsPushed
<1>4. /\ w \subseteq 1..c /\ \A y \in w : calls[y].status # "failed"
      /\ \A i \in 1..n : frames[i].id \in w
  <2>1. CASE n = 0
    BY <1>2, <2>1 DEF Above
  <2>2. CASE n # 0
    <3>1. n \in 1..n
      BY <2>2
    <3>2. Top = frames[n] /\ Top.id \in 1..c
      BY <3>1 DEF Top, Last, DispatchInv, Records
    <3>3. w = calls[Top.id].within
      BY <1>2, <2>2, <3>2 DEF Above
    <3>4. w \subseteq 1..c
      <4>1. w \subseteq 1..Top.id
        BY <3>2, <3>3 DEF EffectInv, Nesting
      <4> QED BY <3>2, <4>1
    <3>5. Survives(frames[n].id) /\ \A j \in 1..n : In(frames[n].id, j)
      BY <3>1 DEF EffectInv, Nesting
    <3> QED BY <3>2, <3>3, <3>4, <3>5 DEF Survives, In
  <2> QED BY <2>1, <2>2
<1>5. c + 1 \in calls'[c + 1].within /\ calls'[c + 1].within \subseteq 1..(c + 1)
  <2>1. w \subseteq 1..(c + 1) /\ c + 1 \in 1..(c + 1)
    BY <1>4
  <2> QED BY <1>3, <2>1
<1>6. Survives(c + 1)'
  <2>1. \A y \in calls'[c + 1].within : calls'[y].status # "failed"
    BY <1>3, <1>4
  <2> QED BY <2>1 DEF Survives
<1>7. ASSUME NEW i \in 1..(n + 1) PROVE In(c + 1, i)'
  <2>1. frames'[i].id \in calls'[c + 1].within
    <3>1. CASE i = n + 1
      BY <1>1, <1>3, <3>1
    <3>2. CASE i \in 1..n
      BY <1>1, <1>3, <1>4, <3>2 DEF Same
    <3> QED BY <3>1, <3>2
  <2> QED BY <2>1 DEF In
<1> QED BY <1>5, <1>6, <1>7

(* The new run happened in all that are open.                              *)
LEMMA PushNesting ==
  ASSUME DispatchInv, EffectInv, NEW f, Pushes(f)
  PROVE  Nesting'
<1>1. PICK c \in Nat, n \in Nat : c = Len(calls) /\ n = Len(frames)
  BY DEF DispatchInv, TypeOK
<1>2. /\ Len(calls') = c + 1 /\ Len(frames') = n + 1
      /\ \A x \in 1..c : calls'[x].within = calls[x].within /\ (Survives(x)' <=> Survives(x))
      /\ \A i \in 1..n : Same(frames'[i], frames[i])
      /\ frames'[n + 1] = f /\ f.id = c + 1
      /\ \A x \in 1..c : \A i \in 1..n : In(x, i)' <=> In(x, i)
  BY <1>1, PushView
<1>3. /\ c + 1 \in calls'[c + 1].within /\ calls'[c + 1].within \subseteq 1..(c + 1)
      /\ Survives(c + 1)' /\ \A i \in 1..(n + 1) : In(c + 1, i)'
  BY <1>1, PushedRun
<1>4. ASSUME NEW x \in 1..(c + 1)
      PROVE  x \in calls'[x].within /\ calls'[x].within \subseteq 1..x
  <2>1. CASE x = c + 1
    BY <1>3, <2>1
  <2>2. CASE x \in 1..c
    BY <1>1, <1>2, <2>2 DEF EffectInv, Nesting
  <2> QED BY <2>1, <2>2
<1>5. \A i \in 1..n : frames[i].id \in 1..c /\ frames'[i].id = frames[i].id
  BY <1>1, <1>2 DEF DispatchInv, Records, Same
<1>6. ASSUME NEW i \in 1..(n + 1) PROVE Survives(frames[i].id)'
  <2>1. PICK x : x = frames'[i].id
    OBVIOUS
  <2>2. Survives(x)'
    <3>1. CASE i = n + 1
      BY <1>2, <1>3, <2>1, <3>1
    <3>2. CASE i \in 1..n
      <4>1. x \in 1..c /\ x = frames[i].id
        BY <1>5, <2>1, <3>2
      <4>2. Survives(x)
        BY <1>1, <3>2, <4>1 DEF EffectInv, Nesting
      <4> QED BY <1>2, <4>1, <4>2
    <3> QED BY <3>1, <3>2
  <2> QED BY <2>1, <2>2 DEF Survives
<1>7. ASSUME NEW i \in 1..(n + 1), NEW j \in 1..(n + 1), j <= i
      PROVE  In(frames[i].id, j)'
  <2>1. PICK x : x = frames'[i].id
    OBVIOUS
  <2>2. In(x, j)'
    <3>1. CASE i = n + 1
      BY <1>2, <1>3, <2>1, <3>1
    <3>2. CASE i \in 1..n
      <4>1. x \in 1..c /\ x = frames[i].id /\ j \in 1..n
        BY <1>5, <1>7, <2>1, <3>2
      <4>2. In(x, j)
        BY <1>1, <1>7, <3>2, <4>1 DEF EffectInv, Nesting
      <4> QED BY <1>2, <4>1, <4>2
    <3> QED BY <3>1, <3>2
  <2> QED BY <2>1, <2>2 DEF In
<1> QED BY <1>2, <1>4, <1>6, <1>7 DEF Nesting

(* The caches when f begins: only the last one changes, and f writes to it *)
(* unless it has been refused.                                             *)
LEMMA PushedCaches ==
  ASSUME DispatchInv, NEW f, Pushes(f), NEW m \in Nat, m = Len(caches)
  PROVE  \E k \in Nat :
           /\ k = Len(caches') /\ k = f.depth + 2 /\ k >= m /\ (f.kind = "call" => k = m + 1)
           /\ \A j \in 1..k : \A x \in caches'[j] :
                (j <= m /\ x \in caches[j]) \/ (x = f.id /\ j = k)
           /\ \A j \in 1..m : \A x \in caches[j] : x \in caches'[j]
           /\ f.id \in caches'[k] \/ control' = "error"
<1>1. f \in Frame /\ Len(caches') = m + Deeper(f) /\ caches \in Seq(SUBSET Nat)
  BY PushTypes DEF DispatchInv, TypeOK
<1>2. PICK k \in Nat : k = m + Deeper(f)
  BY <1>1, OwnFacts
<1>3. k >= m /\ (f.kind = "call" => k = m + 1) /\ (f.kind = "reply" => k = m)
  BY <1>1, <1>2, OwnFacts
<1>4. f.kind \in {"call", "reply"}
  BY <1>1 DEF Frame
<1>5. m > 0 /\ k = f.depth + 2
  <2>1. Len(frames) \in Nat
    BY DEF DispatchInv, TypeOK
  <2>2. CASE Len(frames) = 0
    <3>1. m = 1 /\ f.kind = "call" /\ f.depth = 0
      BY <2>2 DEF DispatchInv, Stack, Active, Pushes, FrameOK
    <3> QED BY <1>3, <3>1
  <2>3. CASE Len(frames) > 0
    <3>1. m = Top.depth + 2 /\ Top \in Frame
      BY <2>1, <2>3 DEF DispatchInv, TypeOK, Stack, Top, Last
    <3>2. Top.depth \in Nat /\ Deeper(f) \in {0, 1}
      BY <1>1, <3>1, OwnFacts
    <3>3. f.depth = Top.depth + Deeper(f)
      BY <2>3 DEF Pushes, FrameOK
    <3> QED BY <1>2, <3>1, <3>2, <3>3
  <2> QED BY <2>1, <2>2, <2>3
<1>6. PICK cs : cs = IF f.kind = "call" THEN Append(caches, {}) ELSE caches
  OBVIOUS
<1>7. /\ cs \in Seq(SUBSET Nat) /\ Len(cs) = k
      /\ \A j \in 1..m : cs[j] = caches[j]
      /\ f.kind = "call" => cs[k] = {}
  <2>1. CASE f.kind = "call"
    <3>1. {} \in SUBSET Nat
      OBVIOUS
    <3> QED BY <1>1, <1>3, <1>6, <2>1, <3>1, Appended
  <2>2. CASE f.kind = "reply"
    BY <1>1, <1>3, <1>6, <2>2
  <2> QED BY <1>4, <2>1, <2>2
<1>8. \A j \in 1..k : \A x \in cs[j] : j <= m /\ x \in caches[j]
  BY <1>3, <1>4, <1>7
<1>9. \/ caches' = [cs EXCEPT ![k] = cs[k] \cup {f.id}]
      \/ caches' = cs /\ control' = "error"
  BY <1>6, <1>7 DEF Pushes, CachesPushed
<1>10. k \in 1..k /\ \A j \in 1..m : j \in 1..k
  BY <1>3, <1>5
<1>11. CASE caches' = cs /\ control' = "error"
  <2>1. \A j \in 1..k : \A x \in caches'[j] : j <= m /\ x \in caches[j]
    BY <1>8, <1>11
  <2>2. \A j \in 1..m : \A x \in caches[j] : x \in caches'[j]
    BY <1>7, <1>11
  <2> QED BY <1>1, <1>2, <1>3, <1>5, <1>11, <2>1, <2>2
<1>12. CASE caches' = [cs EXCEPT ![k] = cs[k] \cup {f.id}]
  <2>1. caches'[k] = cs[k] \cup {f.id} /\ \A j \in 1..k : j # k => caches'[j] = cs[j]
    BY <1>7, <1>10, <1>12
  <2>2. \A j \in 1..k : \A x \in caches'[j] : x \in cs[j] \/ (x = f.id /\ j = k)
    BY <2>1
  <2>3. \A j \in 1..k : \A x \in caches'[j] :
          (j <= m /\ x \in caches[j]) \/ (x = f.id /\ j = k)
    BY <1>8, <2>2
  <2>4. \A j \in 1..k : \A x \in cs[j] : x \in caches'[j]
    BY <2>1
  <2>5. \A j \in 1..m : \A x \in caches[j] : x \in caches'[j]
    BY <1>7, <1>10, <2>4
  <2>6. f.id \in caches'[k]
    BY <2>1
  <2> QED BY <1>1, <1>2, <1>3, <1>5, <2>3, <2>5, <2>6
<1> QED BY <1>9, <1>11, <1>12

(* The new run writes to the last cache, which is that of its call.        *)
LEMMA PushCaching ==
  ASSUME DispatchInv, DispatchInv', EffectInv, NEW f, Pushes(f)
  PROVE  Caching'
<1>1. PICK c \in Nat, n \in Nat, m \in Nat :
        c = Len(calls) /\ n = Len(frames) /\ m = Len(caches)
  BY DEF DispatchInv, TypeOK
<1>2. /\ Len(calls') = c + 1 /\ Len(frames') = n + 1
      /\ \A i \in 1..n : Same(frames'[i], frames[i])
      /\ frames'[n + 1] = f /\ f \in Frame /\ f.id = c + 1
      /\ \A x \in 1..c : \A i \in 1..n : In(x, i)' <=> In(x, i)
      /\ \A x \in 1..c : ~In(x, n + 1)'
  BY <1>1, PushView
<1>3. \A i \in 1..(n + 1) : In(c + 1, i)'
  BY <1>1, PushedRun
<1>4. PICK q \in Nat :
        /\ q = Len(caches') /\ q = f.depth + 2 /\ (f.kind = "call" => q = m + 1)
        /\ \A k \in 1..q : \A x \in caches'[k] :
             (k <= m /\ x \in caches[k]) \/ (x = f.id /\ k = q)
  BY <1>1, PushedCaches
<1>5. \A i \in 1..(n + 1) : frames'[i].depth \in Nat /\ frames'[i].depth <= f.depth
  <2>1. \A i \in 1..(n + 1) : frames'[i] \in Frame
    BY <1>2 DEF DispatchInv, TypeOK
  <2>2. \A i \in 1..(n + 1) : frames'[i].depth \in Nat
    BY <2>1, OwnFacts
  <2>3. f.depth \in Nat /\ Deeper(f) \in {0, 1}
    BY <1>2, OwnFacts
  <2>4. \A i \in 1..n : frames'[i].depth + Deeper(f) <= f.depth
    <3>1. n + 1 \in 1..(n + 1) /\ \A i \in 1..n : i \in 1..(n + 1) /\ i < n + 1
      OBVIOUS
    <3>2. \A i \in 1..n :
            frames'[i].depth + Deeper(frames[n + 1])' <= frames'[n + 1].depth
      BY <1>2, <3>1 DEF DispatchInv, Stack
    <3>3. Deeper(frames[n + 1])' = Deeper(f)
      BY <1>2 DEF Deeper
    <3> QED BY <1>2, <3>2, <3>3
  <2> QED BY <1>2, <2>2, <2>3, <2>4
<1>6. ASSUME NEW k \in 1..q, NEW x \in caches'[k], NEW i \in 1..(n + 1)
      PROVE  /\ x \in 1..(c + 1)
             /\ In(x, i)' => k >= frames'[i].depth + 2
             /\ (frames'[i].kind = "call" /\ k >= frames'[i].depth + 2) => In(x, i)'
  <2>1. CASE x = f.id /\ k = q
    <3>1. x = c + 1 /\ In(x, i)'
      BY <1>2, <1>3, <2>1
    <3>2. k >= frames'[i].depth + 2
      <4>1. f.depth \in Nat
        BY <1>2, OwnFacts
      <4>2. frames'[i].depth \in Nat /\ frames'[i].depth <= f.depth
        BY <1>5
      <4> QED BY <1>4, <2>1, <4>1, <4>2
    <3> QED BY <3>1, <3>2
  <2>2. CASE k <= m /\ x \in caches[k]
    <3>1. k \in 1..m /\ x \in caches[k]
      BY <2>2
    <3>2. x \in 1..c
      BY <1>1, <3>1 DEF EffectInv, Caching
    <3>3. CASE i \in 1..n
      <4>1. /\ In(x, i) => k >= frames[i].depth + 2
            /\ (frames[i].kind = "call" /\ k >= frames[i].depth + 2) => In(x, i)
        BY <1>1, <3>1, <3>3 DEF EffectInv, Caching
      <4>2. frames'[i].kind = frames[i].kind /\ frames'[i].depth = frames[i].depth
        BY <1>2, <3>3 DEF Same
      <4> QED BY <1>2, <3>2, <3>3, <4>1, <4>2
    <3>4. CASE i = n + 1
      <4>1. ~In(x, i)'
        BY <1>2, <3>2, <3>4
      <4>2. frames'[i].kind = "call" => k < frames'[i].depth + 2
        BY <1>2, <1>4, <3>1, <3>4
      <4>3. frames'[i].depth \in Nat
        BY <1>5
      <4> QED BY <3>2, <4>1, <4>2, <4>3
    <3> QED BY <3>3, <3>4
  <2> QED BY <1>4, <2>1, <2>2
<1>7. n + 1 \in 1..(n + 1)
  OBVIOUS
<1>8. ASSUME NEW k \in 1..q, NEW x \in caches'[k] PROVE x \in 1..(c + 1)
  BY <1>6, <1>7
<1> QED BY <1>2, <1>4, <1>6, <1>8 DEF Caching

(* The new run survives for now, and what it writes can be seen.           *)
LEMMA PushEffects ==
  ASSUME DispatchInv, EffectInv, NEW f, Pushes(f)
  PROVE  Written' /\ Kept'
<1>1. PICK c \in Nat, n \in Nat, m \in Nat :
        c = Len(calls) /\ n = Len(frames) /\ m = Len(caches)
  BY DEF DispatchInv, TypeOK
<1>2. /\ Len(calls') = c + 1 /\ f.id = c + 1
      /\ \A x \in 1..c : Survives(x)' <=> Survives(x)
  BY <1>1, PushView
<1>3. Survives(c + 1)'
  BY <1>1, PushedRun
<1>4. PICK q \in Nat :
        /\ q = Len(caches') /\ q >= m /\ q = f.depth + 2
        /\ \A k \in 1..q : \A x \in caches'[k] :
             (k <= m /\ x \in caches[k]) \/ (x = f.id /\ k = q)
        /\ \A k \in 1..m : \A x \in caches[k] : x \in caches'[k]
        /\ f.id \in caches'[q] \/ control' = "error"
  BY <1>1, PushedCaches
<1>5. control \notin {"error", "panic"}
  BY DEF Pushes
<1>6. ASSUME NEW k \in 1..q, NEW x \in caches'[k] PROVE Survives(x)'
  <2>1. CASE x = f.id
    BY <1>2, <1>3, <2>1
  <2>2. CASE k <= m /\ x \in caches[k]
    <3>1. k \in 1..m
      BY <2>2
    <3>2. x \in 1..c /\ Survives(x)
      BY <1>1, <1>5, <2>2, <3>1 DEF EffectInv, Caching, Written
    <3> QED BY <1>2, <3>2
  <2> QED BY <1>4, <2>1, <2>2
<1>7. Written'
  BY <1>4, <1>6 DEF Written
<1>8. ASSUME NEW x \in 1..(c + 1), Survives(x)'
      PROVE  Failing(x)' \/ \E k \in 1..q : x \in caches'[k]
  <2>1. CASE x = c + 1
    <3>1. Top' = f
      BY AfterPush DEF Pushes, DispatchInv
    <3>2. control' = "error" => Failing(x)'
      BY <1>2, <2>1, <3>1 DEF Failing
    <3>3. f.depth \in Nat
      <4>1. f \in Frame
        BY DEF Pushes, FramesPushed
      <4> QED BY <4>1, OwnFacts
    <3>4. q \in 1..q
      BY <1>4, <3>3
    <3> QED BY <1>2, <1>4, <2>1, <3>2, <3>4
  <2>2. CASE x \in 1..c
    <3>1. Survives(x) /\ ~Failing(x)
      BY <1>2, <1>5, <1>8, <2>2 DEF Failing
    <3>2. PICK k \in 1..m : x \in caches[k]
      BY <1>1, <2>2, <3>1 DEF EffectInv, Kept
    <3>3. k \in 1..q
      BY <1>4
    <3> QED BY <1>4, <3>2, <3>3
  <2> QED BY <2>1, <2>2
<1>9. Kept'
  BY <1>2, <1>4, <1>8 DEF Kept
<1> QED BY <1>7, <1>9

(* The new run emits its event last.                                       *)
LEMMA PushEvents ==
  ASSUME DispatchInv, EffectInv, NEW f, Pushes(f)
  PROVE  Emitted' /\ Reporting' /\ Ascending'
<1>1. PICK c \in Nat, n \in Nat : c = Len(calls) /\ n = Len(frames)
  BY DEF DispatchInv, TypeOK
<1>2. /\ Len(calls') = c + 1 /\ Len(frames') = n + 1
      /\ \A x \in 1..c : Survives(x)' <=> Survives(x)
      /\ \A i \in 1..n : frames'[i].events = frames[i].events
      /\ frames'[n + 1] = f /\ f.id = c + 1
      /\ \A x \in 1..c : \A i \in 1..n : In(x, i)' <=> In(x, i)
      /\ \A x \in 1..c : ~In(x, n + 1)'
  BY <1>1, PushView
<1>3. Survives(c + 1)' /\ \A i \in 1..(n + 1) : In(c + 1, i)'
  BY <1>1, PushedRun
<1>4. /\ control' = "run" => frames'[n + 1].events = <<c + 1>>
      /\ control' # "run" => frames'[n + 1].events = <<>>
  BY <1>2 DEF Pushes, FrameOK
<1>5. \A k \in 1..Len(frames'[n + 1].events) :
        control' = "run" /\ k = 1 /\ frames'[n + 1].events[k] = c + 1
  <2>1. PICK e : e = frames'[n + 1].events
    OBVIOUS
  <2>2. CASE control' = "run"
    <3>1. e = <<c + 1>>
      BY <1>4, <2>1, <2>2
    <3>2. \A k \in 1..Len(e) : k = 1 /\ e[k] = c + 1
      BY <3>1
    <3> QED BY <2>1, <2>2, <3>2
  <2>3. CASE control' # "run"
    <3>1. e = <<>>
      BY <1>4, <2>1, <2>3
    <3>2. 1..Len(e) = {}
      BY <3>1
    <3> QED BY <2>1, <3>2
  <2> QED BY <2>2, <2>3
<1>6. \A i \in 1..n : \A k \in 1..Len(frames'[i].events) :
        /\ frames'[i].events = frames[i].events
        /\ frames[i].events[k] \in 1..c /\ Survives(frames[i].events[k])
        /\ \A j \in 1..n : In(frames[i].events[k], j) <=> j <= i
  BY <1>1, <1>2 DEF EffectInv, Emitted
<1>7. ASSUME NEW i \in 1..(n + 1), NEW k \in 1..Len(frames'[i].events)
      PROVE  /\ frames'[i].events[k] \in 1..(c + 1) /\ Survives(frames[i].events[k])'
             /\ \A j \in 1..(n + 1) : In(frames[i].events[k], j)' <=> j <= i
  <2>1. PICK x : x = frames'[i].events[k]
    OBVIOUS
  <2>2. x \in 1..(c + 1) /\ Survives(x)' /\ \A j \in 1..(n + 1) : In(x, j)' <=> j <= i
    <3>1. CASE i = n + 1
      <4>1. x = c + 1
        BY <1>5, <2>1, <3>1
      <4> QED BY <1>3, <3>1, <4>1
    <3>2. CASE i \in 1..n
      <4>1. x \in 1..c /\ Survives(x) /\ \A j \in 1..n : In(x, j) <=> j <= i
        BY <1>6, <2>1, <3>2
      <4>2. ASSUME NEW j \in 1..(n + 1) PROVE In(x, j)' <=> j <= i
        <5>1. CASE j = n + 1
          BY <1>2, <3>2, <4>1, <5>1
        <5>2. CASE j \in 1..n
          BY <1>2, <4>1, <5>2
        <5> QED BY <5>1, <5>2
      <4> QED BY <1>2, <4>1, <4>2
    <3> QED BY <3>1, <3>2
  <2>3. Survives(frames[i].events[k])'
    BY <2>1, <2>2 DEF Survives
  <2>4. \A j \in 1..(n + 1) : In(frames[i].events[k], j)' <=> j <= i
    BY <2>1, <2>2 DEF In
  <2> QED BY <2>1, <2>2, <2>3, <2>4
<1>8. Emitted'
  BY <1>2, <1>7 DEF Emitted
<1>9. ASSUME NEW x \in 1..(c + 1), Survives(x)' PROVE Failing(x)' \/ Reported(x)'
  <2>1. CASE x = c + 1
    <3>1. CASE control' = "run"
      <4>1. Len(frames'[n + 1].events) = 1 /\ frames'[n + 1].events[1] = c + 1
        BY <1>4, <3>1
      <4>2. n + 1 \in 1..Len(frames') /\ 1 \in 1..Len(frames'[n + 1].events)
        BY <1>2, <4>1
      <4> QED BY <2>1, <4>1, <4>2 DEF Reported
    <3>2. CASE control' # "run"
      <4>1. Top' = f /\ control' \in {"error", "panic"}
        BY <3>2, AfterPush DEF Pushes, DispatchInv
      <4> QED BY <1>2, <2>1, <4>1 DEF Failing
    <3> QED BY <3>1, <3>2
  <2>2. CASE x \in 1..c
    <3>1. Survives(x) /\ ~Failing(x)
      BY <1>2, <1>9, <2>2 DEF Failing, Pushes
    <3>2. n > 0
      <4>1. CASE n = 0
        <5>1. control = "idle"
          BY <1>1, <4>1 DEF DispatchInv, Stack, Active, Pushes
        <5>2. c = 0
          BY <1>1, <5>1 DEF DispatchInv, Records
        <5> QED BY <2>2, <5>2
      <4> QED BY <4>1
    <3>3. Reported(x)
      BY <1>1, <2>2, <3>1, <3>2 DEF EffectInv, Reporting
    <3>4. PICK i \in 1..n : \E k \in 1..Len(frames[i].events) : frames[i].events[k] = x
      BY <1>1, <3>3 DEF Reported
    <3>5. i \in 1..Len(frames') /\ frames'[i].events = frames[i].events
      BY <1>2
    <3> QED BY <3>4, <3>5 DEF Reported
  <2> QED BY <2>1, <2>2
<1>10. Reporting'
  BY <1>2, <1>9 DEF Reporting
<1>11. ASSUME NEW i \in 1..(n + 1), NEW j \in 1..(n + 1),
              NEW k \in 1..Len(frames'[i].events), NEW l \in 1..Len(frames'[j].events),
              i < j \/ (i = j /\ k < l)
       PROVE  frames'[i].events[k] < frames'[j].events[l]
  <2>1. CASE j = n + 1
    <3>1. frames'[j].events[l] = c + 1 /\ l = 1
      BY <1>5, <2>1
    <3>2. k \in Nat /\ k >= 1
      OBVIOUS
    <3>3. i \in 1..n
      BY <1>11, <2>1, <3>1, <3>2
    <3>4. frames'[i].events[k] \in 1..c
      BY <1>6, <3>3
    <3> QED BY <3>1, <3>4
  <2>2. CASE j \in 1..n
    <3>1. i \in 1..n
      BY <1>11, <2>2
    <3>2. frames'[i].events = frames[i].events /\ frames'[j].events = frames[j].events
      BY <1>2, <2>2, <3>1
    <3> QED BY <1>1, <1>11, <2>2, <3>1, <3>2 DEF EffectInv, Ascending
  <2> QED BY <2>1, <2>2
<1>12. Ascending'
  BY <1>2, <1>11 DEF Ascending
<1> QED BY <1>8, <1>10, <1>12

-----------------------------------------------------------------------------
(* Ending a run.                                                           *)

(* A run that ends well changes no survival; one that fails takes all that *)
(* happened in it along.                                                   *)
LEMMA PopView ==
  ASSUME DispatchInv, EffectInv, NEW st, Pops(st), NEW n \in Nat, n + 1 = Len(frames)
  PROVE  /\ Len(calls') = Len(calls) /\ Len(frames') = n
         /\ Top = frames[n + 1] /\ n + 1 \in 1..(n + 1)
         /\ \A i \in 1..n : Same(frames'[i], frames[i]) /\ i \in 1..(n + 1)
         /\ \A x \in 1..Len(calls) : \A i \in 1..n : In(x, i)' <=> In(x, i)
         /\ st = "ok" => control = "run"
         /\ st = "ok" => \A x \in 1..Len(calls) : Survives(x)' <=> Survives(x)
         /\ st = "failed" => \A x \in 1..Len(calls) :
              Survives(x)' <=> (Survives(x) /\ ~In(x, n + 1))
<1>1. st \in {"ok", "failed"} /\ control \in {"run", "error", "panic"}
  BY DEF Pops
<1>2. Top = frames[n + 1] /\ Top.id \in 1..Len(calls)
  BY <1>1, TopFacts
<1>3. Len(frames') = n /\ \A i \in 1..n : Same(frames'[i], frames[i])
  BY DEF Pops, FramesPopped
<1>4. /\ Len(calls') = Len(calls)
      /\ \A x \in 1..Len(calls) :
           /\ calls'[x].within = calls[x].within
           /\ calls'[x].status = IF x = Top.id THEN st ELSE calls[x].status
  BY EndedCalls DEF CallsEnded
<1>5. \A x \in 1..Len(calls) : calls[x].within \subseteq 1..Len(calls)
  <2>1. PICK c \in Nat : c = Len(calls)
    BY DEF DispatchInv, TypeOK
  <2>2. \A x \in 1..c : calls[x].within \subseteq 1..x
    BY <2>1 DEF EffectInv, Nesting
  <2>3. \A x \in 1..c : 1..x \subseteq 1..c
    OBVIOUS
  <2> QED BY <2>1, <2>2, <2>3
<1>6. ASSUME NEW x \in 1..Len(calls), NEW i \in 1..n PROVE In(x, i)' <=> In(x, i)
  BY <1>3, <1>4 DEF In, Same
<1>7. calls[Top.id].status = "open"
  <2>1. n + 1 \in 1..Len(frames)
    OBVIOUS
  <2> QED BY <1>2, <2>1 DEF DispatchInv, Records
<1>8. ASSUME NEW x \in 1..Len(calls), st = "ok" PROVE Survives(x)' <=> Survives(x)
  <2>1. calls'[x].within = calls[x].within /\ calls[x].within \subseteq 1..Len(calls)
    BY <1>4, <1>5
  <2>2. \A y \in calls[x].within : calls'[y].status # "failed" <=> calls[y].status # "failed"
    BY <1>4, <1>7, <1>8, <2>1
  <2> QED BY <2>1, <2>2 DEF Survives
<1>9. ASSUME NEW x \in 1..Len(calls), st = "failed"
      PROVE  Survives(x)' <=> (Survives(x) /\ ~In(x, n + 1))
  <2>1. calls'[x].within = calls[x].within /\ calls[x].within \subseteq 1..Len(calls)
    BY <1>4, <1>5
  <2>2. \A y \in calls[x].within :
          calls'[y].status # "failed" <=> (calls[y].status # "failed" /\ y # Top.id)
    BY <1>4, <1>9, <2>1
  <2>3. In(x, n + 1) <=> Top.id \in calls[x].within
    BY <1>2 DEF In
  <2> QED BY <2>1, <2>2, <2>3 DEF Survives
<1>10. st = "ok" => control = "run"
  BY DEF Pops, ControlPopped
<1>11. n + 1 \in 1..(n + 1) /\ \A i \in 1..n : i \in 1..(n + 1)
  OBVIOUS
<1> QED BY <1>2, <1>3, <1>4, <1>6, <1>8, <1>9, <1>10, <1>11

(* The run that ends is not among those that the open ones happened in.    *)
LEMMA PopNesting ==
  ASSUME DispatchInv, EffectInv, NEW st, Pops(st)
  PROVE  Nesting'
<1>1. PICK n \in Nat : n + 1 = Len(frames)
  BY PopCount
<1>2. /\ Len(calls') = Len(calls) /\ Len(frames') = n
      /\ \A i \in 1..n : Same(frames'[i], frames[i]) /\ i \in 1..(n + 1)
      /\ \A x \in 1..Len(calls) : \A i \in 1..n : In(x, i)' <=> In(x, i)
      /\ st = "ok" => \A x \in 1..Len(calls) : Survives(x)' <=> Survives(x)
      /\ st = "failed" => \A x \in 1..Len(calls) :
           Survives(x)' <=> (Survives(x) /\ ~In(x, n + 1))
  BY <1>1, PopView
<1>3. \A x \in 1..Len(calls') : x \in calls'[x].within /\ calls'[x].within \subseteq 1..x
  BY <1>2, EndedCalls DEF CallsEnded, EffectInv, Nesting
<1>4. ASSUME NEW i \in 1..n
      PROVE  /\ frames[i].id \in 1..Len(calls) /\ frames'[i].id = frames[i].id
             /\ Survives(frames[i].id) /\ ~In(frames[i].id, n + 1)
             /\ \A j \in 1..n : j <= i => In(frames[i].id, j)
  <2>1. i \in 1..(n + 1) /\ n + 1 \in 1..(n + 1) /\ i < n + 1
    OBVIOUS
  <2>2. /\ frames[i].id \in 1..Len(calls) /\ frames[n + 1].id \in 1..Len(calls)
        /\ frames[i].id < frames[n + 1].id
    BY <1>1, <2>1 DEF DispatchInv, Records
  <2>3. calls[frames[i].id].within \subseteq 1..frames[i].id
    BY <2>2 DEF EffectInv, Nesting
  <2>4. PICK a \in Nat, b \in Nat : a = frames[i].id /\ b = frames[n + 1].id
    BY <2>2
  <2>5. b \notin 1..a
    BY <2>2, <2>4
  <2>6. ~In(frames[i].id, n + 1)
    BY <2>3, <2>4, <2>5 DEF In
  <2>7. frames'[i].id = frames[i].id
    BY <1>2 DEF Same
  <2>8. Survives(frames[i].id) /\ \A j \in 1..n : j <= i => In(frames[i].id, j)
    BY <1>1, <1>2, <2>1 DEF EffectInv, Nesting
  <2> QED BY <2>2, <2>6, <2>7, <2>8
<1>5. ASSUME NEW i \in 1..n PROVE Survives(frames[i].id)'
  <2>1. PICK x \in 1..Len(calls) : x = frames[i].id /\ x = frames'[i].id
    BY <1>4
  <2>2. Survives(x) /\ ~In(x, n + 1)
    BY <1>4, <2>1
  <2>3. Survives(x)'
    BY <1>2, <2>2 DEF Pops
  <2> QED BY <2>1, <2>3 DEF Survives
<1>6. ASSUME NEW i \in 1..n, NEW j \in 1..n, j <= i PROVE In(frames[i].id, j)'
  <2>1. PICK x \in 1..Len(calls) : x = frames[i].id /\ x = frames'[i].id
    BY <1>4
  <2>2. In(x, j)
    BY <1>4, <1>6, <2>1
  <2>3. In(x, j)'
    BY <1>2, <2>2
  <2> QED BY <2>1, <2>3 DEF In
<1> QED BY <1>2, <1>3, <1>5, <1>6 DEF Nesting

(* The caches when a run ends: that of a call goes, and is merged into the *)
(* one below if the call ends well.                                        *)
LEMMA PoppedCaches ==
  ASSUME DispatchInv, NEW st, Pops(st), NEW m \in Nat, m = Len(caches)
  PROVE  \E q \in Nat :
           /\ q = Len(caches') /\ q >= 1 /\ m = Top.depth + 2 /\ Top.depth \in Nat
           /\ Top.kind = "reply" => q = m /\ \A k \in 1..q : caches'[k] = caches[k]
           /\ Top.kind = "call" => m = q + 1
           /\ (Top.kind = "call" /\ st = "failed") => \A k \in 1..q : caches'[k] = caches[k]
           /\ (Top.kind = "call" /\ st = "ok") =>
                /\ caches'[q] = caches[q] \cup caches[m]
                /\ \A k \in 1..q : k # q => caches'[k] = caches[k]
<1>1. control \in {"run", "error", "panic"} /\ st \in {"ok", "failed"}
  BY DEF Pops
<1>2. Len(frames) > 0 /\ Top \in Frame
  BY <1>1, TopFacts
<1>3. m = Top.depth + 2 /\ Top.depth \in Nat /\ caches \in Seq(SUBSET Nat)
  BY <1>2, OwnFacts DEF DispatchInv, Stack, TypeOK
<1>4. Top.kind \in {"call", "reply"}
  BY <1>2 DEF Frame
<1>5. CASE Top.kind = "reply"
  <2>1. caches' = caches
    BY <1>5 DEF Pops, CachesPopped
  <2>2. m = Len(caches') /\ \A k \in 1..m : caches'[k] = caches[k]
    BY <2>1
  <2>3. m >= 1
    BY <1>3
  <2> QED BY <1>3, <1>5, <2>2, <2>3
<1>6. CASE Top.kind = "call"
  <2>1. PICK q \in Nat : q = m - 1 /\ m = q + 1 /\ q >= 1
    BY <1>3
  <2>2. CASE st = "failed"
    <3>1. caches' = SubSeq(caches, 1, q) /\ q \in 0..Len(caches)
      BY <1>6, <2>1, <2>2 DEF Pops, CachesPopped, Dropped, Front
    <3>2. Len(caches') = q /\ \A k \in 1..q : caches'[k] = caches[k]
      BY <1>3, <3>1, Shortened
    <3> QED BY <1>3, <1>6, <2>1, <2>2, <3>2
  <2>3. CASE st = "ok"
    <3>1. caches' = [i \in 1..q |-> IF i = q THEN caches[i] \cup caches[m] ELSE caches[i]]
      BY <1>6, <2>1, <2>3 DEF Pops, CachesPopped, Committed, Last
    <3>2. /\ Len(caches') = q /\ caches'[q] = caches[q] \cup caches[m]
          /\ \A k \in 1..q : k # q => caches'[k] = caches[k]
      BY <2>1, <3>1
    <3> QED BY <1>3, <1>6, <2>1, <2>3, <3>2
  <2> QED BY <1>1, <2>2, <2>3
<1> QED BY <1>4, <1>5, <1>6

(* A run has ended with the status st: of m caches q are left.  Each holds  *)
(* what it held, and the last one also the cache that is merged into it.   *)
CachesLeft(st, m, q) ==
  /\ q = Len(caches') /\ q \in 1..q /\ q <= m
  /\ m = Top.depth + 2 /\ Top.depth \in Nat
  /\ Top.kind = "reply" => q = m
  /\ Top.kind = "call" => m = q + 1
  /\ \A k \in 1..q : \A x \in caches'[k] :
       \/ x \in caches[k]
       \/ st = "ok" /\ Top.kind = "call" /\ k = q /\ x \in caches[m]
  /\ \A k \in 1..q : \A x \in caches[k] : x \in caches'[k]
  /\ st = "ok" => \A x \in caches[m] : x \in caches'[q]

(* The caches that are left when a run ends.                               *)
LEMMA PoppedFrom ==
  ASSUME DispatchInv, NEW st, Pops(st), NEW m \in Nat, m = Len(caches)
  PROVE  \E q \in Nat : CachesLeft(st, m, q)
<1>1. PICK q \in Nat :
        /\ q = Len(caches') /\ q >= 1 /\ m = Top.depth + 2 /\ Top.depth \in Nat
        /\ Top.kind = "reply" => q = m /\ \A k \in 1..q : caches'[k] = caches[k]
        /\ Top.kind = "call" => m = q + 1
        /\ (Top.kind = "call" /\ st = "failed") => \A k \in 1..q : caches'[k] = caches[k]
        /\ (Top.kind = "call" /\ st = "ok") =>
             /\ caches'[q] = caches[q] \cup caches[m]
             /\ \A k \in 1..q : k # q => caches'[k] = caches[k]
  BY PoppedCaches
<1> SUFFICES CachesLeft(st, m, q)
  BY <1>1
<1>2. q \in 1..q
  BY <1>1
<1>3. Top.kind \in {"call", "reply"} /\ st \in {"ok", "failed"}
  BY TopFacts DEF Pops
<1>4. q <= m
  BY <1>1, <1>3
<1>5. CASE Top.kind = "call" /\ st = "ok"
  <2>1. \A k \in 1..q : \A x \in caches'[k] : x \in caches[k] \/ (k = q /\ x \in caches[m])
    BY <1>1, <1>5
  <2>2. \A k \in 1..q : \A x \in caches[k] : x \in caches'[k]
    BY <1>1, <1>5
  <2>3. \A x \in caches[m] : x \in caches'[q]
    BY <1>1, <1>5
  <2>4. m = q + 1 /\ Top.kind # "reply"
    BY <1>1, <1>5
  <2> QED BY <1>1, <1>2, <1>4, <1>5, <2>1, <2>2, <2>3, <2>4 DEF CachesLeft
<1>6. CASE Top.kind = "reply" \/ st = "failed"
  <2>1. \A k \in 1..q : caches'[k] = caches[k]
    BY <1>1, <1>3, <1>6
  <2>2. st = "ok" => m = q
    BY <1>1, <1>6
  <2>3. st = "ok" => \A x \in caches[m] : x \in caches'[q]
    BY <1>2, <2>1, <2>2
  <2> QED BY <1>1, <1>2, <1>4, <2>1, <2>3 DEF CachesLeft
<1> QED BY <1>3, <1>5, <1>6

(* The cache of a call that ends well becomes part of that of its caller.  *)
LEMMA PopCaching ==
  ASSUME DispatchInv, EffectInv, NEW st, Pops(st)
  PROVE  Caching'
<1>1. PICK n \in Nat, m \in Nat : n + 1 = Len(frames) /\ m = Len(caches)
  BY PopCount DEF DispatchInv, TypeOK
<1>2. /\ Len(calls') = Len(calls) /\ Len(frames') = n
      /\ Top = frames[n + 1] /\ n + 1 \in 1..(n + 1)
      /\ \A i \in 1..n : Same(frames'[i], frames[i]) /\ i \in 1..(n + 1)
      /\ \A x \in 1..Len(calls) : \A i \in 1..n : In(x, i)' <=> In(x, i)
  BY <1>1, PopView
<1>3. PICK q \in Nat : CachesLeft(st, m, q)
  BY <1>1, PoppedFrom
<1>4. /\ q = Len(caches') /\ q \in 1..q /\ q <= m
      /\ m = Top.depth + 2 /\ Top.depth \in Nat
      /\ Top.kind = "reply" => q = m
      /\ Top.kind = "call" => m = q + 1
      /\ \A k \in 1..q : \A x \in caches'[k] :
           \/ x \in caches[k]
           \/ st = "ok" /\ Top.kind = "call" /\ k = q /\ x \in caches[m]
      /\ \A k \in 1..q : \A x \in caches[k] : x \in caches'[k]
      /\ st = "ok" => \A x \in caches[m] : x \in caches'[q]
  BY <1>3 DEF CachesLeft
<1>5. \A i \in 1..n : frames[i].depth \in Nat
  <2>1. \A i \in 1..n : frames[i] \in Frame
    BY <1>1, <1>2 DEF DispatchInv, TypeOK
  <2> QED BY <2>1, OwnFacts
<1>6. Top.kind = "call" => \A i \in 1..n : frames[i].depth + 1 <= Top.depth
  <2>1. \A i \in 1..n : i < n + 1
    OBVIOUS
  <2>2. \A i \in 1..n : frames[i].depth + Deeper(frames[n + 1]) <= frames[n + 1].depth
    BY <1>1, <1>2, <2>1 DEF DispatchInv, Stack
  <2>3. Top.kind = "call" => Deeper(frames[n + 1]) = 1
    BY <1>2 DEF Deeper
  <2> QED BY <1>2, <2>2, <2>3
<1>7. \A k \in 1..m : \A x \in caches[k] :
        /\ x \in 1..Len(calls)
        /\ \A i \in 1..n :
             /\ In(x, i) => k >= frames[i].depth + 2
             /\ (frames[i].kind = "call" /\ k >= frames[i].depth + 2) => In(x, i)
  BY <1>1, <1>2 DEF EffectInv, Caching
<1>8. ASSUME NEW k \in 1..q, NEW x \in caches'[k]
      PROVE  /\ x \in 1..Len(calls)
             /\ \A i \in 1..n :
                  /\ In(x, i) => k >= frames[i].depth + 2
                  /\ (frames[i].kind = "call" /\ k >= frames[i].depth + 2) => In(x, i)
  <2>1. CASE x \in caches[k]
    <3>1. k \in 1..m
      BY <1>4
    <3> QED BY <1>7, <2>1, <3>1
  <2>2. CASE Top.kind = "call" /\ k = q /\ x \in caches[m]
    <3>1. m \in 1..m
      BY <1>4
    <3>2. /\ x \in 1..Len(calls)
          /\ \A i \in 1..n :
               /\ In(x, i) => m >= frames[i].depth + 2
               /\ (frames[i].kind = "call" /\ m >= frames[i].depth + 2) => In(x, i)
      BY <1>7, <2>2, <3>1
    <3>3. \A i \in 1..n : k >= frames[i].depth + 2
      BY <1>4, <1>5, <1>6, <2>2
    <3>4. \A i \in 1..n : m >= frames[i].depth + 2
      BY <1>4, <1>5, <1>6, <2>2
    <3> QED BY <3>2, <3>3, <3>4
  <2> QED BY <1>4, <2>1, <2>2
<1>9. ASSUME NEW k \in 1..q, NEW x \in caches'[k], NEW i \in 1..n
      PROVE  /\ In(x, i)' => k >= frames'[i].depth + 2
             /\ (frames'[i].kind = "call" /\ k >= frames'[i].depth + 2) => In(x, i)'
  <2>1. frames'[i].kind = frames[i].kind /\ frames'[i].depth = frames[i].depth
    BY <1>2 DEF Same
  <2>2. In(x, i)' <=> In(x, i)
    BY <1>2, <1>8
  <2> QED BY <1>8, <2>1, <2>2
<1> QED BY <1>2, <1>4, <1>8, <1>9 DEF Caching

(* What a failed call wrote is dropped with its cache; what a failed reply *)
(* wrote is in the cache that is dropped next.                             *)
LEMMA PopEffects ==
  ASSUME DispatchInv, EffectInv, NEW st, Pops(st)
  PROVE  Written' /\ Kept'
<1>1. PICK n \in Nat, m \in Nat : n + 1 = Len(frames) /\ m = Len(caches)
  BY PopCount DEF DispatchInv, TypeOK
<1>2. /\ Len(calls') = Len(calls)
      /\ Top = frames[n + 1] /\ n + 1 \in 1..(n + 1)
      /\ st = "ok" => control = "run"
      /\ st = "ok" => \A x \in 1..Len(calls) : Survives(x)' <=> Survives(x)
      /\ st = "failed" => \A x \in 1..Len(calls) :
           Survives(x)' <=> (Survives(x) /\ ~In(x, n + 1))
  BY <1>1, PopView
<1>3. PICK q \in Nat : CachesLeft(st, m, q)
  BY <1>1, PoppedFrom
<1>4. /\ q = Len(caches') /\ q \in 1..q /\ q <= m
      /\ m = Top.depth + 2 /\ Top.depth \in Nat
      /\ Top.kind = "reply" => q = m
      /\ Top.kind = "call" => m = q + 1
      /\ \A k \in 1..q : \A x \in caches'[k] :
           \/ x \in caches[k]
           \/ st = "ok" /\ Top.kind = "call" /\ k = q /\ x \in caches[m]
      /\ \A k \in 1..q : \A x \in caches[k] : x \in caches'[k]
      /\ st = "ok" => \A x \in caches[m] : x \in caches'[q]
  BY <1>3 DEF CachesLeft
<1>5. st \in {"ok", "failed"} /\ Top.kind \in {"call", "reply"}
  BY TopFacts DEF Pops
<1>6. m \in 1..m /\ \A k \in 1..q : k \in 1..m
  BY <1>4
<1>7. \A k \in 1..m : \A x \in caches[k] :
        /\ x \in 1..Len(calls)
        /\ Survives(x) \/ (control \in {"error", "panic"} /\ k = m)
        /\ In(x, n + 1) => k >= m
        /\ (Top.kind = "call" /\ k >= m) => In(x, n + 1)
  <2>1. \A k \in 1..m : \A x \in caches[k] :
          Survives(x) \/ (control \in {"error", "panic"} /\ k = m)
    BY <1>1 DEF EffectInv, Written
  <2>2. \A k \in 1..m : \A x \in caches[k] :
          /\ x \in 1..Len(calls)
          /\ In(x, n + 1) => k >= m
          /\ (Top.kind = "call" /\ k >= m) => In(x, n + 1)
    BY <1>1, <1>2, <1>4 DEF EffectInv, Caching
  <2> QED BY <2>1, <2>2
<1>8. CASE st = "ok"
  <2>1. control = "run" /\ \A x \in 1..Len(calls) : Survives(x)' <=> Survives(x)
    BY <1>2, <1>8
  <2>2. \A k \in 1..m : \A x \in caches[k] : x \in 1..Len(calls) /\ Survives(x)
    BY <1>7, <2>1
  <2>3. \A k \in 1..q : \A x \in caches'[k] : Survives(x)'
    BY <1>4, <1>6, <2>1, <2>2
  <2>4. ASSUME NEW x \in 1..Len(calls), Survives(x)' PROVE \E k \in 1..q : x \in caches'[k]
    <3>1. Survives(x) /\ ~Failing(x)
      BY <2>1, <2>4 DEF Failing
    <3>2. PICK k \in 1..m : x \in caches[k]
      BY <1>1, <3>1 DEF EffectInv, Kept
    <3>3. CASE k \in 1..q
      BY <1>4, <3>2, <3>3
    <3>4. CASE k \notin 1..q
      <4>1. k = m
        BY <1>4, <1>5, <3>4
      <4> QED BY <1>4, <1>8, <3>2, <4>1
    <3> QED BY <3>3, <3>4
  <2>5. Written'
    BY <1>4, <2>3 DEF Written
  <2>6. Kept'
    BY <1>2, <1>4, <2>4 DEF Kept
  <2> QED BY <2>5, <2>6
<1>9. CASE st = "failed"
  <2>1. \A x \in 1..Len(calls) : Survives(x)' <=> (Survives(x) /\ ~In(x, n + 1))
    BY <1>2, <1>9
  <2>2. \A k \in 1..q : \A x \in caches'[k] : x \in caches[k]
    BY <1>4, <1>9
  <2>3. Top.kind = "reply" => control' \in {"error", "panic"}
    <3>1. Len(frames) = 1 => Top.kind = "call"
      BY TopFacts DEF Pops
    <3> QED BY <1>9, <3>1 DEF Pops, ControlPopped
  <2>4. ASSUME NEW k \in 1..q, NEW x \in caches'[k]
        PROVE  Survives(x)' \/ (control' \in {"error", "panic"} /\ k = q)
    <3>1. k \in 1..m /\ x \in caches[k]
      BY <1>6, <2>2
    <3>2. CASE k = m
      <4>1. Top.kind = "reply" /\ k = q
        BY <1>4, <1>5, <3>2
      <4> QED BY <2>3, <4>1
    <3>3. CASE k # m
      <4>1. ~(k >= m)
        BY <3>1, <3>3
      <4>2. x \in 1..Len(calls) /\ Survives(x) /\ ~In(x, n + 1)
        BY <1>7, <3>1, <3>3, <4>1
      <4> QED BY <2>1, <4>2
    <3> QED BY <3>2, <3>3
  <2>5. ASSUME NEW x \in 1..Len(calls), Survives(x)' PROVE \E k \in 1..q : x \in caches'[k]
    <3>1. Survives(x) /\ ~In(x, n + 1)
      BY <2>1, <2>5
    <3>2. x \in calls[x].within
      BY DEF EffectInv, Nesting
    <3>3. ~Failing(x)
      BY <1>2, <3>1, <3>2 DEF Failing, In
    <3>4. PICK k \in 1..m : x \in caches[k]
      BY <1>1, <3>1, <3>3 DEF EffectInv, Kept
    <3>5. CASE k \in 1..q
      BY <1>4, <3>4, <3>5
    <3>6. CASE k \notin 1..q
      <4>1. k = m /\ k >= m /\ Top.kind = "call"
        BY <1>4, <1>5, <3>6
      <4> QED BY <1>7, <3>1, <3>4, <4>1
    <3> QED BY <3>5, <3>6
  <2>6. Written'
    BY <1>4, <2>4 DEF Written
  <2>7. Kept'
    BY <1>2, <1>4, <2>5 DEF Kept
  <2> QED BY <2>6, <2>7
<1> QED BY <1>5, <1>8, <1>9

(* One sequence after another.                                             *)
LEMMA Joined ==
  ASSUME NEW a \in Seq(Nat), NEW b \in Seq(Nat)
  PROVE  /\ Len(a \o b) = Len(a) + Len(b)
         /\ \A k \in 1..Len(a) : (a \o b)[k] = a[k]
         /\ \A k \in 1..Len(b) : (a \o b)[Len(a) + k] = b[k]
OBVIOUS

(* Event k of frame i once the top frame, which was frame n + 1, has       *)
(* ended: it was in frame i, or has been passed on.                        *)
WasIn(i, k) ==
  k \in 1..Len(frames[i].events) /\ frames'[i].events[k] = frames[i].events[k]

PassedUp(n, i, k) ==
  /\ i = n
  /\ \E l \in 1..Len(frames[n + 1].events) :
       /\ k = Len(frames[n].events) + l
       /\ frames'[i].events[k] = frames[n + 1].events[l]

(* The events of the frames below the one that ends.                       *)
LEMMA PoppedEvents ==
  ASSUME DispatchInv, NEW st, Pops(st), NEW n \in Nat, n + 1 = Len(frames)
  PROVE  /\ \A i \in 1..(n + 1) : Len(frames[i].events) \in Nat
         /\ \A i \in 1..n : \A k \in 1..Len(frames'[i].events) :
              WasIn(i, k) \/ (st = "ok" /\ PassedUp(n, i, k))
         /\ \A i \in 1..n : \A k \in 1..Len(frames[i].events) :
              k \in 1..Len(frames'[i].events) /\ frames'[i].events[k] = frames[i].events[k]
         /\ (st = "ok" /\ n > 0) => \A l \in 1..Len(frames[n + 1].events) :
              \E k \in 1..Len(frames'[n].events) :
                frames'[n].events[k] = frames[n + 1].events[l]
<1>1. \A i \in 1..(n + 1) : frames[i].events \in Seq(Nat)
  <2>1. \A i \in 1..(n + 1) : frames[i] \in Frame
    BY DEF DispatchInv, TypeOK
  <2> QED BY <2>1 DEF Frame
<1>2. \A i \in 1..(n + 1) : Len(frames[i].events) \in Nat
  BY <1>1
<1>3. Top = frames[n + 1] /\ n + 1 \in 1..(n + 1) /\ \A i \in 1..n : i \in 1..(n + 1)
  BY DEF Top, Last
<1>4. /\ \A i \in 1..n : i < n => frames'[i].events = frames[i].events
      /\ n > 0 => frames'[n].events = IF st = "ok" THEN frames[n].events \o frames[n + 1].events
                                      ELSE frames[n].events
  <2>1. n = Len(frames) - 1
    OBVIOUS
  <2> QED BY <1>3, <2>1 DEF Pops, FramesPopped
<1>5. ASSUME NEW i \in 1..n, i < n \/ st # "ok"
      PROVE  frames'[i].events = frames[i].events
  BY <1>4, <1>5
<1>6. ASSUME st = "ok", n > 0
      PROVE  /\ Len(frames'[n].events) = Len(frames[n].events) + Len(frames[n + 1].events)
             /\ \A k \in 1..Len(frames[n].events) : frames'[n].events[k] = frames[n].events[k]
             /\ \A l \in 1..Len(frames[n + 1].events) :
                  frames'[n].events[Len(frames[n].events) + l] = frames[n + 1].events[l]
  <2>1. PICK a \in Seq(Nat), b \in Seq(Nat) : a = frames[n].events /\ b = frames[n + 1].events
    <3>1. n \in 1..n
      BY <1>6
    <3> QED BY <1>1, <1>3, <3>1
  <2>2. frames'[n].events = a \o b
    BY <1>4, <1>6, <2>1
  <2>3. /\ Len(a \o b) = Len(a) + Len(b)
        /\ \A k \in 1..Len(a) : (a \o b)[k] = a[k]
        /\ \A k \in 1..Len(b) : (a \o b)[Len(a) + k] = b[k]
    BY Joined
  <2>4. PICK e : e = a \o b
    OBVIOUS
  <2>5. /\ Len(e) = Len(a) + Len(b)
        /\ \A k \in 1..Len(a) : e[k] = a[k]
        /\ \A k \in 1..Len(b) : e[Len(a) + k] = b[k]
    BY <2>3, <2>4
  <2>6. frames'[n].events = e
    BY <2>2, <2>4
  <2> QED BY <2>1, <2>5, <2>6
<1>7. ASSUME NEW i \in 1..n, NEW k \in 1..Len(frames'[i].events)
      PROVE  WasIn(i, k) \/ (st = "ok" /\ PassedUp(n, i, k))
  <2>1. CASE i < n \/ st # "ok"
    BY <1>5, <2>1 DEF WasIn
  <2>2. CASE i = n /\ st = "ok"
    <3>1. PICK a \in Nat, b \in Nat :
            a = Len(frames[n].events) /\ b = Len(frames[n + 1].events)
      BY <1>2, <1>3, <2>2
    <3>2. /\ Len(frames'[n].events) = a + b
          /\ \A j \in 1..a : frames'[n].events[j] = frames[n].events[j]
          /\ \A l \in 1..b : frames'[n].events[a + l] = frames[n + 1].events[l]
      <4>1. n > 0
        BY <2>2
      <4> QED BY <1>6, <2>2, <3>1, <4>1
    <3>3. CASE k \in 1..a
      BY <2>2, <3>1, <3>2, <3>3 DEF WasIn
    <3>4. CASE k \notin 1..a
      <4>1. PICK l \in 1..b : k = a + l
        <5>1. k \in 1..(a + b)
          BY <2>2, <3>2
        <5>2. k - a \in 1..b /\ k = a + (k - a)
          BY <3>4, <5>1
        <5> QED BY <5>2
      <4>2. frames'[n].events[a + l] = frames[n + 1].events[l]
        BY <3>2
      <4> QED BY <2>2, <3>1, <4>1, <4>2 DEF PassedUp
    <3> QED BY <3>3, <3>4
  <2> QED BY <2>1, <2>2
<1>8. ASSUME NEW i \in 1..n, NEW k \in 1..Len(frames[i].events)
      PROVE  k \in 1..Len(frames'[i].events) /\ frames'[i].events[k] = frames[i].events[k]
  <2>1. CASE i < n \/ st # "ok"
    BY <1>5, <2>1
  <2>2. CASE i = n /\ st = "ok"
    <3>1. PICK a \in Nat, b \in Nat :
            a = Len(frames[n].events) /\ b = Len(frames[n + 1].events)
      BY <1>2, <1>3, <2>2
    <3>2. k \in 1..a
      BY <2>2, <3>1
    <3>3. k \in 1..(a + b)
      BY <3>2
    <3>4. /\ Len(frames'[n].events) = a + b
          /\ \A j \in 1..a : frames'[n].events[j] = frames[n].events[j]
      <4>1. n > 0
        BY <2>2
      <4> QED BY <1>6, <2>2, <3>1, <4>1
    <3> QED BY <2>2, <3>2, <3>3, <3>4
  <2> QED BY <2>1, <2>2
<1>9. ASSUME st = "ok", n > 0, NEW l \in 1..Len(frames[n + 1].events)
      PROVE  \E k \in 1..Len(frames'[n].events) :
               frames'[n].events[k] = frames[n + 1].events[l]
  <2>1. PICK a \in Nat, b \in Nat :
          a = Len(frames[n].events) /\ b = Len(frames[n + 1].events)
    <3>1. n \in 1..n
      BY <1>9
    <3> QED BY <1>2, <1>3, <3>1
  <2>2. a + l \in 1..(a + b)
    <3>1. l \in 1..b
      BY <2>1
    <3> QED BY <3>1
  <2>3. Len(frames'[n].events) = a + b /\ frames'[n].events[a + l] = frames[n + 1].events[l]
    BY <1>6, <1>9, <2>1
  <2> QED BY <2>2, <2>3
<1> QED BY <1>2, <1>7, <1>8, <1>9

(* The events of a failed run are dropped with its frame.                  *)
LEMMA PopEvents ==
  ASSUME DispatchInv, EffectInv, NEW st, Pops(st)
  PROVE  Emitted' /\ Reporting' /\ Ascending'
<1>1. PICK n \in Nat : n + 1 = Len(frames)
  BY PopCount
<1>2. /\ Len(calls') = Len(calls) /\ Len(frames') = n
      /\ Top = frames[n + 1] /\ n + 1 \in 1..(n + 1)
      /\ \A i \in 1..n : i \in 1..(n + 1)
      /\ \A x \in 1..Len(calls) : \A i \in 1..n : In(x, i)' <=> In(x, i)
      /\ st = "ok" => control = "run"
      /\ st = "ok" => \A x \in 1..Len(calls) : Survives(x)' <=> Survives(x)
      /\ st = "failed" => \A x \in 1..Len(calls) :
           Survives(x)' <=> (Survives(x) /\ ~In(x, n + 1))
  BY <1>1, PopView
<1>3. st \in {"ok", "failed"}
  BY DEF Pops
<1>4. /\ \A i \in 1..(n + 1) : Len(frames[i].events) \in Nat
      /\ \A i \in 1..n : \A k \in 1..Len(frames'[i].events) :
           WasIn(i, k) \/ (st = "ok" /\ PassedUp(n, i, k))
      /\ \A i \in 1..n : \A k \in 1..Len(frames[i].events) :
           k \in 1..Len(frames'[i].events) /\ frames'[i].events[k] = frames[i].events[k]
      /\ (st = "ok" /\ n > 0) => \A l \in 1..Len(frames[n + 1].events) :
           \E k \in 1..Len(frames'[n].events) :
             frames'[n].events[k] = frames[n + 1].events[l]
  BY <1>1, PoppedEvents
<1>5. \A i \in 1..(n + 1) : \A k \in 1..Len(frames[i].events) :
        /\ frames[i].events[k] \in 1..Len(calls) /\ Survives(frames[i].events[k])
        /\ \A j \in 1..(n + 1) : In(frames[i].events[k], j) <=> j <= i
  BY <1>1 DEF EffectInv, Emitted
<1>6. ASSUME NEW i \in 1..n, NEW k \in 1..Len(frames'[i].events)
      PROVE  /\ frames'[i].events[k] \in 1..Len(calls) /\ Survives(frames[i].events[k])'
             /\ \A j \in 1..n : In(frames[i].events[k], j)' <=> j <= i
  <2>1. PICK x : x = frames'[i].events[k]
    OBVIOUS
  <2>2. /\ x \in 1..Len(calls) /\ Survives(x) /\ (st = "failed" => ~In(x, n + 1))
        /\ \A j \in 1..n : In(x, j) <=> j <= i
    <3>1. CASE WasIn(i, k)
      <4>1. k \in 1..Len(frames[i].events) /\ x = frames[i].events[k]
        BY <2>1, <3>1 DEF WasIn
      <4>2. /\ x \in 1..Len(calls) /\ Survives(x)
            /\ \A j \in 1..(n + 1) : In(x, j) <=> j <= i
        BY <1>2, <1>5, <4>1
      <4>3. ~(n + 1 <= i)
        OBVIOUS
      <4> QED BY <1>2, <4>2, <4>3
    <3>2. CASE st = "ok" /\ PassedUp(n, i, k)
      <4>1. PICK l \in 1..Len(frames[n + 1].events) : x = frames[n + 1].events[l]
        BY <2>1, <3>2 DEF PassedUp
      <4>2. /\ x \in 1..Len(calls) /\ Survives(x)
            /\ \A j \in 1..(n + 1) : In(x, j) <=> j <= n + 1
        BY <1>2, <1>5, <4>1
      <4>3. i = n
        BY <3>2 DEF PassedUp
      <4>4. \A j \in 1..n : j \in 1..(n + 1) /\ j <= n + 1 /\ j <= n
        OBVIOUS
      <4> QED BY <3>2, <4>2, <4>3, <4>4
    <3> QED BY <1>4, <3>1, <3>2
  <2>3. Survives(x)'
    BY <1>2, <1>3, <2>2
  <2>4. \A j \in 1..n : In(x, j)' <=> j <= i
    BY <1>2, <2>2
  <2>5. Survives(frames[i].events[k])'
    BY <2>1, <2>3 DEF Survives
  <2>6. \A j \in 1..n : In(frames[i].events[k], j)' <=> j <= i
    BY <2>1, <2>4 DEF In
  <2> QED BY <2>1, <2>2, <2>5, <2>6
<1>7. Emitted'
  BY <1>2, <1>6 DEF Emitted
<1>8. ASSUME n > 0, NEW x \in 1..Len(calls), Survives(x)' PROVE Reported(x)'
  <2>1. Survives(x) /\ (st = "failed" => ~In(x, n + 1))
    BY <1>2, <1>3, <1>8
  <2>2. ~Failing(x)
    <3>1. CASE st = "ok"
      BY <1>2, <3>1 DEF Failing
    <3>2. CASE st = "failed"
      <4>1. x \in calls[x].within
        BY DEF EffectInv, Nesting
      <4> QED BY <1>2, <2>1, <3>2, <4>1 DEF Failing, In
    <3> QED BY <1>3, <3>1, <3>2
  <2>3. Reported(x)
    BY <1>1, <2>1, <2>2 DEF EffectInv, Reporting
  <2>4. PICK i \in 1..(n + 1) : \E k \in 1..Len(frames[i].events) : frames[i].events[k] = x
    BY <1>1, <2>3 DEF Reported
  <2>5. CASE i \in 1..n
    <3>1. \E k \in 1..Len(frames'[i].events) : frames'[i].events[k] = x
      BY <1>4, <2>4, <2>5
    <3> QED BY <1>2, <2>5, <3>1 DEF Reported
  <2>6. CASE i = n + 1
    <3>1. In(x, n + 1)
      <4>1. n + 1 <= n + 1
        OBVIOUS
      <4> QED BY <1>2, <1>5, <2>4, <2>6, <4>1
    <3>2. st = "ok"
      BY <1>3, <2>1, <3>1
    <3>3. PICK l \in 1..Len(frames'[n].events) : frames'[n].events[l] = x
      BY <1>4, <1>8, <2>4, <2>6, <3>2
    <3>4. n \in 1..Len(frames')
      BY <1>2, <1>8
    <3> QED BY <3>3, <3>4 DEF Reported
  <2> QED BY <2>5, <2>6
<1>9. Reporting'
  BY <1>2, <1>8 DEF Reporting
<1>10. \A i, j \in 1..(n + 1) :
         \A k \in 1..Len(frames[i].events), l \in 1..Len(frames[j].events) :
           (i < j \/ (i = j /\ k < l)) => frames[i].events[k] < frames[j].events[l]
  BY <1>1 DEF EffectInv, Ascending
<1>11. ASSUME NEW i \in 1..n, NEW j \in 1..n,
              NEW k \in 1..Len(frames'[i].events), NEW l \in 1..Len(frames'[j].events),
              i < j \/ (i = j /\ k < l)
       PROVE  frames'[i].events[k] < frames'[j].events[l]
  <2>1. /\ WasIn(i, k) \/ PassedUp(n, i, k)
        /\ WasIn(j, l) \/ PassedUp(n, j, l)
    BY <1>4
  <2>2. i <= n /\ j <= n /\ i \in 1..(n + 1) /\ j \in 1..(n + 1)
    OBVIOUS
  <2>3. CASE WasIn(i, k) /\ WasIn(j, l)
    <3>1. /\ k \in 1..Len(frames[i].events) /\ frames'[i].events[k] = frames[i].events[k]
          /\ l \in 1..Len(frames[j].events) /\ frames'[j].events[l] = frames[j].events[l]
      BY <2>3 DEF WasIn
    <3> QED BY <1>10, <1>11, <2>2, <3>1
  <2>4. CASE WasIn(i, k) /\ PassedUp(n, j, l)
    <3>1. k \in 1..Len(frames[i].events) /\ frames'[i].events[k] = frames[i].events[k]
      BY <2>4 DEF WasIn
    <3>2. PICK b \in 1..Len(frames[n + 1].events) : frames'[j].events[l] = frames[n + 1].events[b]
      BY <2>4 DEF PassedUp
    <3>3. i < n + 1
      OBVIOUS
    <3> QED BY <1>2, <1>10, <2>2, <3>1, <3>2, <3>3
  <2>5. CASE PassedUp(n, i, k)
    <3>1. i = n /\ j = n /\ k < l
      BY <1>11, <2>2, <2>5 DEF PassedUp
    <3>2. PICK a \in 1..Len(frames[n + 1].events) :
            /\ k = Len(frames[n].events) + a
            /\ frames'[i].events[k] = frames[n + 1].events[a]
      BY <2>5 DEF PassedUp
    <3>3. PICK h \in Nat : h = Len(frames[n].events)
      BY <1>4, <2>2, <3>1
    <3>4. l \notin 1..h
      BY <3>1, <3>2, <3>3
    <3>5. PassedUp(n, j, l)
      BY <2>1, <3>1, <3>3, <3>4 DEF WasIn
    <3>6. PICK b \in 1..Len(frames[n + 1].events) :
            l = h + b /\ frames'[j].events[l] = frames[n + 1].events[b]
      BY <3>3, <3>5 DEF PassedUp
    <3>7. a < b
      BY <3>1, <3>2, <3>3, <3>6
    <3> QED BY <1>2, <1>10, <3>2, <3>6, <3>7
  <2> QED BY <2>1, <2>3, <2>4, <2>5
<1>12. Ascending'
  BY <1>2, <1>11 DEF Ascending
<1> QED BY <1>7, <1>9, <1>12

-----------------------------------------------------------------------------
(* The invariant, and what it says.                                        *)

(* Nothing has been written or emitted.                                    *)
LEMMA EffectInit ==
  ASSUME Init
  PROVE  EffectInv
<1>1. /\ Len(frames) = 0 /\ Len(calls) = 0
      /\ \A k \in 1..Len(caches) : caches[k] = {}
  BY DEF Init
<1> QED BY <1>1 DEF EffectInv, Nesting, Caching, Written, Kept, Emitted, Reporting, Ascending

(* Every step preserves the invariant.                                     *)
LEMMA EffectNext ==
  ASSUME DispatchInv, DispatchInv', EffectInv, [Next]_vars
  PROVE  EffectInv'
<1>1. CASE UNCHANGED vars
  <2>1. UNCHANGED <<frames, caches, control, calls>>
    BY <1>1 DEF vars
  <2>2. Nesting'
    BY <2>1 DEF EffectInv, Nesting, Survives, In
  <2>3. Caching'
    BY <2>1 DEF EffectInv, Caching, In
  <2>4. Written'
    BY <2>1 DEF EffectInv, Written, Survives
  <2>5. Kept'
    BY <2>1 DEF EffectInv, Kept, Survives, Failing, Top, Last
  <2>6. Emitted'
    BY <2>1 DEF EffectInv, Emitted, Survives, In
  <2>7. Reporting'
    BY <2>1 DEF EffectInv, Reporting, Survives, Failing, Reported, Top, Last
  <2>8. Ascending'
    BY <2>1 DEF EffectInv, Ascending
  <2> QED BY <2>2, <2>3, <2>4, <2>5, <2>6, <2>7, <2>8 DEF EffectInv
<1>2. CASE Step
  <2>1. CASE \E f : Pushes(f)
    <3>1. PICK f : Pushes(f)
      BY <2>1
    <3>2. Nesting' /\ Caching'
      BY <3>1, PushNesting, PushCaching
    <3>3. Written' /\ Kept'
      BY <3>1, PushEffects
    <3>4. Emitted' /\ Reporting' /\ Ascending'
      BY <3>1, PushEvents
    <3> QED BY <3>2, <3>3, <3>4 DEF EffectInv
  <2>2. CASE \E st : Pops(st)
    <3>1. PICK st : Pops(st)
      BY <2>2
    <3>2. Nesting' /\ Caching'
      BY <3>1, PopNesting, PopCaching
    <3>3. Written' /\ Kept'
      BY <3>1, PopEffects
    <3>4. Emitted' /\ Reporting' /\ Ascending'
      BY <3>1, PopEvents
    <3> QED BY <3>2, <3>3, <3>4 DEF EffectInv
  <2> QED BY <1>2, <2>1, <2>2, StepCases
<1> QED BY <1>1, <1>2 DEF Next, Done

(* The invariant is inductive: in every reachable state the caches and the *)
(* frames hold the writes and events of the runs that survive, each cache  *)
(* those of its call.                                                      *)
THEOREM EffectInvariance == Spec => []EffectInv
BY EffectInit, EffectNext, DispatchInvariance, PTL DEF Spec

(* The writes that can be seen are those of the runs that survive (Atomic) *)
(* however deeply failed messages are nested and whoever handles their     *)
(* failure: CacheContext and commit in DispatchSubmessages.                *)
THEOREM AtomicCorrect == Spec => []Atomic
<1>1. DispatchInv /\ EffectInv => Atomic
  <2> SUFFICES ASSUME DispatchInv, EffectInv, Settling PROVE Visible = Survivors
    BY DEF Atomic
  <2>1. DOMAIN caches = 1..Len(caches) /\ DOMAIN calls = 1..Len(calls)
    BY DEF DispatchInv, TypeOK
  <2>2. \A x : x \in Visible <=> \E k \in 1..Len(caches) : x \in caches[k]
    BY <2>1 DEF Visible, Range
  <2>3. \A x : x \in Survivors <=> x \in 1..Len(calls) /\ Survives(x)
    BY <2>1 DEF Survivors, Survives
  <2>4. \A k \in 1..Len(caches) : \A x \in caches[k] : x \in 1..Len(calls) /\ Survives(x)
    BY DEF EffectInv, Caching, Written, Settling
  <2>5. \A x \in 1..Len(calls) : Survives(x) => \E k \in 1..Len(caches) : x \in caches[k]
    BY DEF EffectInv, Kept, Failing, Settling
  <2>6. \A x : x \in Visible <=> x \in Survivors
    BY <2>2, <2>3, <2>4, <2>5
  <2> QED BY <2>6
<1> QED BY <1>1, DispatchInvariance, EffectInvariance, PTL

(* The events emitted so far are those of the runs that survive, each      *)
(* exactly once and in the order of the runs (EventsMatch): the event      *)
(* manager of a failed message is dropped, that of a successful one passed *)
(* on by DispatchSubmessages.                                              *)
THEOREM EventsCorrect == Spec => []EventsMatch
<1>1. DispatchInv /\ EffectInv => EventsMatch
  <2> SUFFICES ASSUME DispatchInv, EffectInv, Settling, frames # <<>>
               PROVE  /\ UNION {Range(frames[i].events) : i \in DOMAIN frames} = Survivors
                      /\ \A i, j \in DOMAIN frames :
                           \A k \in DOMAIN frames[i].events, l \in DOMAIN frames[j].events :
                             (i < j \/ (i = j /\ k < l)) =>
                               frames[i].events[k] < frames[j].events[l]
    BY DEF EventsMatch
  <2>1. DOMAIN frames = 1..Len(frames) /\ DOMAIN calls = 1..Len(calls)
    BY DEF DispatchInv, TypeOK
  <2>2. \A i \in 1..Len(frames) : DOMAIN frames[i].events = 1..Len(frames[i].events)
    <3>1. \A i \in 1..Len(frames) : frames[i] \in Frame
      BY DEF DispatchInv, TypeOK
    <3>2. \A i \in 1..Len(frames) : frames[i].events \in Seq(Nat)
      BY <3>1 DEF Frame
    <3> QED BY <3>2
  <2>3. Len(frames) > 0
    BY DEF DispatchInv, TypeOK
  <2>4. \A x : x \in UNION {Range(frames[i].events) : i \in DOMAIN frames} <=> Reported(x)
    <3>1. \A x : x \in UNION {Range(frames[i].events) : i \in DOMAIN frames} <=>
                 \E i \in 1..Len(frames) : x \in Range(frames[i].events)
      BY <2>1
    <3>2. \A i \in 1..Len(frames) : \A x : x \in Range(frames[i].events) <=>
            \E k \in 1..Len(frames[i].events) : frames[i].events[k] = x
      BY <2>2 DEF Range
    <3> QED BY <3>1, <3>2 DEF Reported
  <2>5. \A x : x \in Survivors <=> x \in 1..Len(calls) /\ Survives(x)
    BY <2>1 DEF Survivors, Survives
  <2>6. \A x : Reported(x) => x \in 1..Len(calls) /\ Survives(x)
    BY DEF EffectInv, Emitted, Reported
  <2>7. \A x \in 1..Len(calls) : Survives(x) => Reported(x)
    BY <2>3 DEF EffectInv, Reporting, Failing, Settling
  <2>8. \A x : x \in UNION {Range(frames[i].events) : i \in DOMAIN frames} <=> x \in Survivors
    BY <2>4, <2>5, <2>6, <2>7
  <2>9. UNION {Range(frames[i].events) : i \in DOMAIN frames} = Survivors
    BY <2>8
  <2> QED BY <2>1, <2>2, <2>9 DEF EffectInv, Ascending
<1> QED BY <1>1, DispatchInvariance, EffectInvariance, PTL

-----------------------------------------------------------------------------
(* Sums, by induction on the naturals.                                     *)

(* A set of naturals that is not empty has a least element.                *)
LEMMA Least ==
  ASSUME NEW T, T \subseteq Nat, T # {}
  PROVE  \E x \in T : \A y \in T : x <= y
<1> DEFINE R == {ss \in Nat \X Nat : ss[1] < ss[2]}
<1>1. IsWellFoundedOn(R, Nat)
  BY NatLessThanWellFounded DEF OpToRel
<1>2. PICK x \in T : \A y \in T : <<y, x>> \notin R
  BY <1>1, WFMin
<1>3. \A y \in T : ~(y < x)
  BY <1>2
<1> QED BY <1>3

(* Induction, for a set of naturals.                                       *)
LEMMA Induction ==
  ASSUME NEW S, 0 \in S, \A n \in Nat : n \in S => n + 1 \in S
  PROVE  \A n \in Nat : n \in S
<1>1. SUFFICES ASSUME Nat \ S # {} PROVE FALSE
  OBVIOUS
<1>2. PICK x \in Nat \ S : \A y \in Nat \ S : x <= y
  BY <1>1, Least
<1>3. x - 1 \in Nat /\ x - 1 \notin Nat \ S
  BY <1>2
<1> QED BY <1>2, <1>3

(* The recursion that FoldFunctionOnSet makes for a sum.                   *)
Pick(s) == CHOOSE x \in s : TRUE

Summed(g, f, D) ==
  g = [s \in D |-> IF s = {} THEN 0 ELSE f[Pick(s)] + g[s \ {Pick(s)}]]

LEMMA SumDef ==
  ASSUME NEW f, NEW S
  PROVE  SumFunctionOnSet(f, S) = (CHOOSE g : Summed(g, f, SUBSET S))[S]
BY DEF SumFunctionOnSet, FoldFunctionOnSet, MapThenFoldSet, Summed, Pick

LEMMA Picked ==
  ASSUME NEW s, s # {}
  PROVE  Pick(s) \in s
BY DEF Pick

(* A finite set without one of its elements.                               *)
LEMMA OneLess ==
  ASSUME NEW s, IsFiniteSet(s), NEW x \in s
  PROVE  Cardinality(s \ {x}) = Cardinality(s) - 1
BY FS_RemoveElement

(* Subsets of at most n elements.                                          *)
Small(S, n) == {s \in SUBSET S : Cardinality(s) <= n}

LEMMA PickedSmall ==
  ASSUME NEW S, IsFiniteSet(S), NEW n \in Nat, NEW s \in Small(S, n + 1), s # {}
  PROVE  s \ {Pick(s)} \in Small(S, n)
<1>1. s \in SUBSET S /\ IsFiniteSet(s) /\ Cardinality(s) <= n + 1 /\ Cardinality(s) \in Nat
  BY FS_Subset, FS_CardinalityType DEF Small
<1>2. Cardinality(s \ {Pick(s)}) = Cardinality(s) - 1
  BY <1>1, Picked, FS_RemoveElement
<1> QED BY <1>1, <1>2 DEF Small

(* The recursion defines a function.                                       *)
LEMMA SumExists ==
  ASSUME NEW f, NEW S, IsFiniteSet(S)
  PROVE  \E g : Summed(g, f, SUBSET S)
<1> DEFINE N == {n \in Nat : \E g : Summed(g, f, Small(S, n))}
<1>1. 0 \in N
  <2>1. \A s \in Small(S, 0) : s = {}
    <3> SUFFICES ASSUME NEW s \in Small(S, 0) PROVE s = {}
      OBVIOUS
    <3>1. IsFiniteSet(s) /\ Cardinality(s) \in Nat /\ Cardinality(s) <= 0
      BY FS_Subset, FS_CardinalityType DEF Small
    <3> QED BY <3>1, FS_EmptySet
  <2>2. Summed([s \in Small(S, 0) |-> 0], f, Small(S, 0))
    BY <2>1 DEF Summed
  <2> QED BY <2>2
<1>2. ASSUME NEW n \in Nat, n \in N PROVE n + 1 \in N
  <2>1. PICK g : Summed(g, f, Small(S, n))
    BY <1>2
  <2> DEFINE h == [s \in Small(S, n + 1) |-> IF s = {} THEN 0 ELSE f[Pick(s)] + g[s \ {Pick(s)}]]
  <2>2. ASSUME NEW s \in Small(S, n) PROVE s \in Small(S, n + 1) /\ h[s] = g[s]
    <3>1. Cardinality(s) \in Nat
      BY <2>2, FS_Subset, FS_CardinalityType DEF Small
    <3>2. s \in Small(S, n + 1)
      BY <3>1 DEF Small
    <3> QED BY <2>1, <3>2 DEF Summed
  <2>3. \A s \in Small(S, n + 1) : s # {} => h[s \ {Pick(s)}] = g[s \ {Pick(s)}]
    BY <2>2, PickedSmall
  <2>4. Summed(h, f, Small(S, n + 1))
    BY <2>3 DEF Summed
  <2> QED BY <2>4
<1>3. Cardinality(S) \in N
  <2> HIDE DEF N
  <2> QED BY <1>1, <1>2, Induction, FS_CardinalityType
<1>4. Small(S, Cardinality(S)) = SUBSET S
  BY FS_Subset DEF Small
<1> QED BY <1>3, <1>4

(* Sums do not depend on the order.                                        *)
LEMMA AnyOrder ==
  ASSUME NEW S, IsFiniteSet(S), NEW f, \A x \in S : f[x] \in Nat,
         NEW g, Summed(g, f, SUBSET S), NEW s \in SUBSET S
  PROVE  g[s] \in Nat /\ \A x \in s : g[s] = f[x] + g[s \ {x}]
<1> DEFINE Good(t) == g[t] \in Nat /\ \A x \in t : g[t] = f[x] + g[t \ {x}]
           N == {n \in Nat : \A t \in Small(S, n) : Good(t)}
<1>1. g[{}] = 0 /\ \A t \in SUBSET S : t # {} => g[t] = f[Pick(t)] + g[t \ {Pick(t)}]
  <2>1. {} \in SUBSET S
    OBVIOUS
  <2> QED BY <2>1 DEF Summed
<1>2. 0 \in N
  <2>1. \A t \in Small(S, 0) : t = {}
    <3> SUFFICES ASSUME NEW t \in Small(S, 0) PROVE t = {}
      OBVIOUS
    <3>1. IsFiniteSet(t) /\ Cardinality(t) \in Nat /\ Cardinality(t) <= 0
      BY FS_Subset, FS_CardinalityType DEF Small
    <3> QED BY <3>1, FS_EmptySet
  <2> QED BY <1>1, <2>1
<1>3. ASSUME NEW n \in Nat, n \in N PROVE n + 1 \in N
  <2> SUFFICES ASSUME NEW t \in Small(S, n + 1), t # {} PROVE Good(t)
    BY <1>1
  <2>1. PICK c : c = Pick(t)
    OBVIOUS
  <2>2. c \in t /\ t \in SUBSET S /\ g[t] = f[c] + g[t \ {c}]
    BY <1>1, <2>1, Picked DEF Small
  <2>3. \A x \in t : t \ {x} \in Small(S, n)
    <3> SUFFICES ASSUME NEW x \in t PROVE t \ {x} \in Small(S, n)
      OBVIOUS
    <3>1. IsFiniteSet(t) /\ Cardinality(t) \in Nat /\ Cardinality(t) <= n + 1
      BY FS_Subset, FS_CardinalityType DEF Small
    <3>2. Cardinality(t \ {x}) = Cardinality(t) - 1
      BY <3>1, FS_RemoveElement
    <3> QED BY <2>2, <3>1, <3>2 DEF Small
  <2>4. \A x \in t : Good(t \ {x})
    BY <1>3, <2>3
  <2>5. g[t] \in Nat
    BY <2>2, <2>4
  <2>6. ASSUME NEW x \in t, x # c PROVE g[t] = f[x] + g[t \ {x}]
    <3>1. PICK r : r = (t \ {x}) \ {c}
      OBVIOUS
    <3>2. r = (t \ {c}) \ {x} /\ r \in SUBSET S /\ x \in t \ {c} /\ c \in t \ {x}
      BY <2>2, <2>6, <3>1
    <3>3. g[t \ {c}] = f[x] + g[r]
      BY <2>2, <2>4, <3>2
    <3>4. g[t \ {x}] = f[c] + g[r]
      BY <2>4, <3>1, <3>2
    <3>5. g[t \ {c}] \in Nat /\ g[t \ {x}] \in Nat /\ f[x] \in Nat /\ f[c] \in Nat
      BY <2>2, <2>4
    <3>6. g[r] \in Nat
      <4>1. r \in Small(S, n)
        <5>1. IsFiniteSet(t \ {x}) /\ Cardinality(t \ {x}) \in Nat /\ Cardinality(t \ {x}) <= n
          BY <2>3, FS_Subset, FS_CardinalityType DEF Small
        <5>2. PICK u : u = t \ {x} /\ c \in u /\ r = u \ {c} /\ IsFiniteSet(u)
          BY <3>1, <3>2, <5>1
        <5>3. Cardinality(r) = Cardinality(u) - 1
          BY <5>2, OneLess
        <5> QED BY <3>2, <5>1, <5>2, <5>3 DEF Small
      <4> QED BY <1>3, <4>1
    <3> QED BY <2>2, <3>3, <3>4, <3>5, <3>6
  <2> QED BY <2>2, <2>5, <2>6
<1>4. Cardinality(S) \in N
  <2> HIDE DEF N
  <2> QED BY <1>2, <1>3, Induction, FS_CardinalityType
<1>5. s \in Small(S, Cardinality(S))
  BY FS_Subset DEF Small
<1> QED BY <1>4, <1>5

SumsOf(g, f, S) == Summed(g, f, SUBSET S)

Agree(f, e, T) == \A x \in T : f[x] = e[x]

(* Functions that agree on a set have the same sums there.                 *)
LEMMA SameSums ==
  ASSUME NEW S, IsFiniteSet(S), NEW T, T \subseteq S,
         NEW f, NEW e, Agree(f, e, T),
         NEW g, SumsOf(g, f, S), NEW h, SumsOf(h, e, T)
  PROVE  g[T] = h[T]
<1> USE DEF SumsOf
<1> DEFINE N == {n \in Nat : \A t \in Small(T, n) : g[t] = h[t]}
<1>1. /\ \A t \in SUBSET T : g[t] = IF t = {} THEN 0 ELSE f[Pick(t)] + g[t \ {Pick(t)}]
      /\ \A t \in SUBSET T : h[t] = IF t = {} THEN 0 ELSE e[Pick(t)] + h[t \ {Pick(t)}]
  BY DEF Summed
<1>2. IsFiniteSet(T)
  BY FS_Subset
<1>3. 0 \in N
  <2>1. \A t \in Small(T, 0) : t \in SUBSET T /\ t = {}
    <3> SUFFICES ASSUME NEW t \in Small(T, 0) PROVE t = {}
      BY DEF Small
    <3>1. IsFiniteSet(t) /\ Cardinality(t) \in Nat /\ Cardinality(t) <= 0
      BY <1>2, FS_Subset, FS_CardinalityType DEF Small
    <3> QED BY <3>1, FS_EmptySet
  <2> QED BY <1>1, <2>1
<1>4. ASSUME NEW n \in Nat, n \in N PROVE n + 1 \in N
  <2> SUFFICES ASSUME NEW t \in Small(T, n + 1) PROVE g[t] = h[t]
    OBVIOUS
  <2>1. t \in SUBSET T
    BY DEF Small
  <2>2. CASE t = {}
    BY <1>1, <2>1, <2>2
  <2>3. CASE t # {}
    <3>1. t \ {Pick(t)} \in Small(T, n) /\ Pick(t) \in T
      BY <1>2, <2>1, <2>3, PickedSmall, Picked
    <3>2. g[t \ {Pick(t)}] = h[t \ {Pick(t)}] /\ f[Pick(t)] = e[Pick(t)]
      BY <1>4, <3>1 DEF Agree
    <3> QED BY <1>1, <2>1, <2>3, <3>2
  <2> QED BY <2>2, <2>3
<1>5. Cardinality(T) \in N
  <2> HIDE DEF N
  <2> QED BY <1>2, <1>3, <1>4, Induction, FS_CardinalityType
<1>6. T \in Small(T, Cardinality(T))
  BY <1>2, FS_CardinalityType DEF Small
<1> QED BY <1>5, <1>6

(* What a sum is: any element may be taken out, and it depends on nothing  *)
(* but the values.                                                         *)
LEMMA SumSplits ==
  ASSUME NEW S, IsFiniteSet(S), NEW f, \A x \in S : f[x] \in Nat
  PROVE  /\ SumFunctionOnSet(f, S) \in Nat
         /\ SumFunctionOnSet(f, {}) = 0
         /\ \A x \in S : SumFunctionOnSet(f, S) = f[x] + SumFunctionOnSet(f, S \ {x})
<1>1. PICK g : Summed(g, f, SUBSET S) /\ SumFunctionOnSet(f, S) = g[S]
  <2>1. Summed(CHOOSE g : Summed(g, f, SUBSET S), f, SUBSET S)
    BY SumExists
  <2> QED BY <2>1, SumDef
<1>2. ASSUME NEW T \in SUBSET S PROVE SumFunctionOnSet(f, T) = g[T]
  <2>1. IsFiniteSet(T)
    BY FS_Subset
  <2>2. PICK h : Summed(h, f, SUBSET T) /\ SumFunctionOnSet(f, T) = h[T]
    <3>1. Summed(CHOOSE h : Summed(h, f, SUBSET T), f, SUBSET T)
      BY <2>1, SumExists
    <3> QED BY <3>1, SumDef
  <2>3. Agree(f, f, T)
    BY DEF Agree
  <2>4. SumsOf(g, f, S) /\ SumsOf(h, f, T) /\ T \subseteq S
    BY <1>1, <2>2 DEF SumsOf
  <2>5. g[T] = h[T]
    BY <2>3, <2>4, SameSums
  <2> QED BY <2>2, <2>5
<1>3. g[S] \in Nat /\ \A x \in S : g[S] = f[x] + g[S \ {x}]
  BY <1>1, AnyOrder
<1>4. g[{}] = 0
  <2>1. {} \in SUBSET S
    OBVIOUS
  <2> QED BY <1>1, <2>1 DEF Summed
<1> QED BY <1>1, <1>2, <1>3, <1>4

LEMMA SumsAgree ==
  ASSUME NEW S, IsFiniteSet(S), NEW f, NEW e, Agree(f, e, S)
  PROVE  SumFunctionOnSet(f, S) = SumFunctionOnSet(e, S)
<1>1. PICK g : Summed(g, f, SUBSET S) /\ SumFunctionOnSet(f, S) = g[S]
  <2>1. Summed(CHOOSE g : Summed(g, f, SUBSET S), f, SUBSET S)
    BY SumExists
  <2> QED BY <2>1, SumDef
<1>2. PICK h : Summed(h, e, SUBSET S) /\ SumFunctionOnSet(e, S) = h[S]
  <2>1. Summed(CHOOSE h : Summed(h, e, SUBSET S), e, SUBSET S)
    BY SumExists
  <2> QED BY <2>1, SumDef
<1>3. SumsOf(g, f, S) /\ SumsOf(h, e, S) /\ S \subseteq S
  BY <1>1, <1>2 DEF SumsOf
<1>4. g[S] = h[S]
  BY <1>3, SameSums
<1> QED BY <1>1, <1>2, <1>4

-----------------------------------------------------------------------------
(* Intervals are finite.                                                   *)
LEMMA UpToFinite ==
  ASSUME NEW n \in Nat
  PROVE  IsFiniteSet(1..n)
BY FS_Interval

(* Sums over the first elements of a sequence of naturals.                 *)
Sum(f, n) == SumFunctionOnSet(f, 1..n)

LEMMA SumSteps ==
  ASSUME NEW n \in Nat, NEW f, \A i \in 1..n : f[i] \in Nat
  PROVE  Sum(f, n) \in Nat /\ Sum(f, n) = IF n = 0 THEN 0 ELSE Sum(f, n - 1) + f[n]
<1>1. IsFiniteSet(1..n)
  BY UpToFinite
<1>2. Sum(f, n) \in Nat /\ SumFunctionOnSet(f, {}) = 0
  BY <1>1, SumSplits DEF Sum
<1>3. CASE n = 0
  <2>1. 1..n = {}
    BY <1>3
  <2> QED BY <1>2, <1>3, <2>1 DEF Sum
<1>4. CASE n # 0
  <2>1. n \in 1..n /\ (1..n) \ {n} = 1..(n - 1)
    BY <1>4
  <2>2. Sum(f, n) = f[n] + Sum(f, n - 1)
    BY <1>1, <2>1, SumSplits DEF Sum
  <2>3. Sum(f, n - 1) \in Nat /\ f[n] \in Nat
    <3>1. IsFiniteSet(1..(n - 1)) /\ \A i \in 1..(n - 1) : f[i] \in Nat
      BY <1>4, UpToFinite
    <3> QED BY <2>1, <3>1, SumSplits DEF Sum
  <2> QED BY <1>2, <1>4, <2>2, <2>3
<1> QED BY <1>3, <1>4

LEMMA SumSame ==
  ASSUME NEW n \in Nat, NEW f, NEW e, \A i \in 1..n : f[i] = e[i]
  PROVE  Sum(f, n) = Sum(e, n)
<1>1. IsFiniteSet(1..n)
  BY UpToFinite
<1>2. Agree(f, e, 1..n)
  BY DEF Agree
<1> QED BY <1>1, <1>2, SumsAgree DEF Sum

(* A change of one of the elements.                                        *)
LEMMA SumChanged ==
  ASSUME NEW n \in Nat, NEW k \in 1..n, NEW f, NEW e,
         \A i \in 1..n : f[i] \in Nat /\ e[i] \in Nat,
         \A i \in 1..n : i # k => f[i] = e[i]
  PROVE  Sum(f, n) + e[k] = Sum(e, n) + f[k]
<1>1. PICK S : S = (1..n) \ {k}
  OBVIOUS
<1>2. IsFiniteSet(1..n) /\ IsFiniteSet(S)
  <2>1. IsFiniteSet(1..n)
    BY UpToFinite
  <2> QED BY <1>1, <2>1, FS_Subset
<1>3. SumFunctionOnSet(f, S) = SumFunctionOnSet(e, S) /\ SumFunctionOnSet(f, S) \in Nat
  <2>1. Agree(f, e, S)
    BY <1>1 DEF Agree
  <2> QED BY <1>1, <1>2, <2>1, SumsAgree, SumSplits
<1>4. /\ Sum(f, n) = f[k] + SumFunctionOnSet(f, S)
      /\ Sum(e, n) = e[k] + SumFunctionOnSet(e, S)
  BY <1>1, <1>2, SumSplits DEF Sum
<1> QED BY <1>3, <1>4

(* Larger elements, larger sums.                                           *)
LEMMA SumGrows ==
  ASSUME NEW n \in Nat, NEW f, NEW e,
         \A i \in 1..n : f[i] \in Nat /\ e[i] \in Nat /\ f[i] <= e[i]
  PROVE  Sum(f, n) <= Sum(e, n)
<1> DEFINE N == {m \in Nat : m <= n => Sum(f, m) <= Sum(e, m)}
<1>1. 0 \in N
  BY SumSteps
<1>2. ASSUME NEW m \in Nat, m \in N PROVE m + 1 \in N
  <2> SUFFICES ASSUME m + 1 <= n PROVE Sum(f, m + 1) <= Sum(e, m + 1)
    OBVIOUS
  <2>1. Sum(f, m) <= Sum(e, m) /\ m + 1 \in 1..n
    BY <1>2
  <2>2. /\ Sum(f, m + 1) = Sum(f, m) + f[m + 1] /\ Sum(f, m) \in Nat
        /\ Sum(e, m + 1) = Sum(e, m) + e[m + 1] /\ Sum(e, m) \in Nat
    <3>1. \A i \in 1..(m + 1) : i \in 1..n
      OBVIOUS
    <3>2. \A i \in 1..m : i \in 1..n
      OBVIOUS
    <3>3. m + 1 \in Nat /\ m + 1 # 0 /\ (m + 1) - 1 = m
      OBVIOUS
    <3>4. Sum(f, m + 1) = Sum(f, m) + f[m + 1] /\ Sum(e, m + 1) = Sum(e, m) + e[m + 1]
      BY <3>1, <3>3, SumSteps
    <3>5. Sum(f, m) \in Nat /\ Sum(e, m) \in Nat
      BY <3>2, SumSteps
    <3> QED BY <3>4, <3>5
  <2>3. f[m + 1] <= e[m + 1] /\ f[m + 1] \in Nat /\ e[m + 1] \in Nat
    BY <2>1
  <2> QED BY <2>1, <2>2, <2>3
<1> HIDE DEF N
<1>3. n \in N
  BY <1>1, <1>2, Induction
<1> QED BY <1>3 DEF N

(* Elements that are 0 at the end do not count.                            *)
LEMMA SumTail ==
  ASSUME NEW n \in Nat, NEW m \in 0..n, NEW f, \A i \in 1..n : f[i] \in Nat,
         \A i \in 1..n : i > m => f[i] = 0
  PROVE  Sum(f, n) = Sum(f, m)
<1> DEFINE N == {k \in Nat : m + k <= n => Sum(f, m + k) = Sum(f, m)}
<1>1. 0 \in N
  OBVIOUS
<1>2. ASSUME NEW k \in Nat, k \in N PROVE k + 1 \in N
  <2> SUFFICES ASSUME m + k + 1 <= n PROVE Sum(f, m + k + 1) = Sum(f, m)
    OBVIOUS
  <2>1. Sum(f, m + k) = Sum(f, m) /\ f[m + k + 1] = 0
    BY <1>2
  <2>2. m + k + 1 \in Nat /\ m + k + 1 # 0 /\ (m + k + 1) - 1 = m + k
    OBVIOUS
  <2>3. (\A i \in 1..(m + k + 1) : f[i] \in Nat) /\ (\A i \in 1..(m + k) : f[i] \in Nat)
    OBVIOUS
  <2>4. Sum(f, m + k + 1) = Sum(f, m + k) + f[m + k + 1] /\ Sum(f, m + k) \in Nat
    BY <2>2, <2>3, SumSteps
  <2> QED BY <2>1, <2>4
<1> HIDE DEF N
<1>3. n - m \in N
  BY <1>1, <1>2, Induction
<1> QED BY <1>3 DEF N

-----------------------------------------------------------------------------
(* The gas that is charged.                                                *)

(* The transaction pays for meter i.                                       *)
Paid(i) == \A j \in 1..i : ~IsInfinite(meters[j])

(* Every limited meter but the first was made for a message.               *)
Owned == \A k \in 1..Len(meters) : k > 1 /\ ~IsInfinite(meters[k]) =>
  \E i \in 1..Len(frames) : frames[i].limited /\ frames[i].base + 1 = k

(* Without gasless contracts, what runs out of gas has used all of it.     *)
Emptied ==
  TRUE \notin Gasless /\ control = "panic" => Last(meters).used = Last(meters).limit

(* A part p[i] of what was spent lies on meter i.                          *)
Share(p, i) ==
  /\ p[i] \in Nat /\ p[i] <= meters[i].used
  /\ ~Paid(i) => p[i] = 0
  /\ ~IsInfinite(meters[i]) => p[i] <= meters[i].limit
  /\ TRUE \notin Gasless => p[i] = meters[i].used

(* Meter b can be charged with the whole limit of the meter above it.      *)
Leaves(p, b) == ~IsInfinite(meters[b]) => p[b] + meters[b + 1].limit <= meters[b].limit

Shares(p) ==
  /\ Sum(p, Len(meters)) = spent
  /\ \A i \in 1..Len(meters) : Share(p, i)
  /\ \A i \in 1..Len(frames) : frames[i].limited => Leaves(p, frames[i].base)

GasInv == Owned /\ Emptied /\ \E p : Shares(p)

(* What has to be paid when `cost' is used on meter k of ms.               *)
PaysFor(ms, k, cost, pay) ==
  /\ pay \in Nat /\ pay <= cost
  /\ (\E j \in 1..k : IsInfinite(ms[j])) => pay = 0
  /\ (\A j \in 1..k : ~IsInfinite(ms[j])) =>
       \/ ms[k].limit <= ms[k].used /\ pay = 0
       \/ ms[k].used + cost <= ms[k].limit /\ pay = cost
       \/ /\ ms[k].used < ms[k].limit /\ ms[k].limit < ms[k].used + cost
          /\ pay = ms[k].limit - ms[k].used

(* Payable is what has to be paid.                                         *)
LEMMA PayableFacts ==
  ASSUME NEW ms \in Seq(Meter), NEW k \in 1..Len(ms), NEW cost \in Nat,
         NEW pay, pay = Payable(ms, k, cost)
  PROVE  PaysFor(ms, k, cost, pay)
<1>1. ms[k] \in Meter
  OBVIOUS
<1>2. ms[k].used \in Nat /\ ms[k].limit \in Nat \cup {Nil}
  BY <1>1 DEF Meter
<1>3. CASE \E j \in 1..k : IsInfinite(ms[j])
  BY <1>3 DEF Payable, PaysFor
<1>4. CASE \A j \in 1..k : ~IsInfinite(ms[j])
  <2>1. ms[k].limit \in Nat
    BY <1>2, <1>4 DEF IsInfinite
  <2>2. PICK rest \in Int : rest = ms[k].limit - ms[k].used
    BY <1>2, <2>1
  <2>3. pay = CASE rest <= 0 -> 0 [] rest >= cost -> cost [] OTHER -> rest
    BY <1>4, <2>2 DEF Payable
  <2>4. CASE rest <= 0
    <3>1. pay = 0 \/ (cost = 0 /\ pay = cost)
      BY <2>2, <2>3, <2>4
    <3> QED BY <1>2, <1>4, <2>1, <2>2, <2>4, <3>1 DEF PaysFor
  <2>5. CASE rest > 0 /\ rest >= cost
    <3>1. pay = cost
      BY <2>3, <2>5
    <3> QED BY <1>2, <1>4, <2>1, <2>2, <2>5, <3>1 DEF PaysFor
  <2>6. CASE rest > 0 /\ rest < cost
    <3>1. pay = rest
      BY <2>3, <2>6
    <3> QED BY <1>2, <1>4, <2>1, <2>2, <2>6, <3>1 DEF PaysFor
  <2> QED BY <2>4, <2>5, <2>6
<1> QED BY <1>3, <1>4

(* A run pays `pay' on meter k, of which u was used before.                *)
Pays(k, u, pay) ==
  /\ spent' = spent + pay
  /\ (\E j \in 1..k : IsInfinite(meters'[j])) => pay = 0
  /\ \A q \in Nat : q <= u /\ (~IsInfinite(meters'[k]) => q <= meters'[k].limit) =>
       /\ q + pay <= meters'[k].used
       /\ ~IsInfinite(meters'[k]) => q + pay <= meters'[k].limit
  /\ TRUE \notin Gasless =>
       /\ u + pay = meters'[k].used
       /\ control' = "panic" => meters'[k].used = meters'[k].limit

(* A run that runs out of gas.                                             *)
LEMMA PaysLimit ==
  ASSUME NEW ms \in Seq(Meter), NEW k \in 1..Len(ms), NEW cost \in Nat,
         RunsOut(ms[k], cost), NEW v, v = ms[k].limit, meters' = [ms EXCEPT ![k].used = v],
         spent' = spent + Payable(ms, k, cost),
         TRUE \notin Gasless =>
           \A j \in 1..k : ms[j].limit \in Nat /\ ms[j].used <= ms[j].limit
  PROVE  \E pay \in Nat : Pays(k, ms[k].used, pay)
<1>1. ms[k] \in Meter
  OBVIOUS
<1>2. ms[k].used \in Nat /\ ms[k].limit \in Nat /\ ms[k].used + cost >= ms[k].limit
  BY <1>1 DEF Meter, RunsOut, IsInfinite
<1>3. v \in Nat /\ v = ms[k].limit
  BY <1>2
<1>4. meters' = [ms EXCEPT ![k].used = v]
  OBVIOUS
<1>5. Charges(ms, k) /\ meters'[k].used = v
  BY <1>3, <1>4, UsedFacts, ZenonT(30)
<1>6. PICK pay : pay = Payable(ms, k, cost)
  OBVIOUS
<1>7. /\ pay \in Nat /\ pay <= cost
      /\ (\E j \in 1..k : IsInfinite(ms[j])) => pay = 0
      /\ (\A j \in 1..k : ~IsInfinite(ms[j])) =>
           \/ ms[k].limit <= ms[k].used /\ pay = 0
           \/ ms[k].used + cost <= ms[k].limit /\ pay = cost
           \/ /\ ms[k].used < ms[k].limit /\ ms[k].limit < ms[k].used + cost
              /\ pay = ms[k].limit - ms[k].used
  <2>1. PaysFor(ms, k, cost, pay)
    BY <1>6, PayableFacts
  <2> QED BY <2>1 DEF PaysFor
<1>8. meters'[k].limit = v /\ \A j \in 1..k : IsInfinite(meters'[j]) <=> IsInfinite(ms[j])
  BY <1>3, <1>5 DEF Charges, IsInfinite
<1>9. ~IsInfinite(meters'[k])
  BY <1>8 DEF IsInfinite, RunsOut
<1>10. \A q \in Nat : q <= ms[k].used /\ q <= v => q + pay <= v
  BY <1>2, <1>3, <1>7
<1>11. ASSUME TRUE \notin Gasless PROVE ms[k].used + pay = v
  <2>1. \A j \in 1..k : ~IsInfinite(ms[j])
    BY <1>11, GasAssumption DEF IsInfinite
  <2>2. ms[k].used <= ms[k].limit
    BY <1>11
  <2>3. \/ ms[k].limit <= ms[k].used /\ pay = 0
        \/ ms[k].used + cost <= ms[k].limit /\ pay = cost
        \/ /\ ms[k].used < ms[k].limit /\ ms[k].limit < ms[k].used + cost
           /\ pay = ms[k].limit - ms[k].used
    BY <1>7, <2>1
  <2> QED BY <1>2, <1>3, <2>2, <2>3
<1>12. Pays(k, ms[k].used, pay)
  BY <1>5, <1>6, <1>7, <1>8, <1>9, <1>10, <1>11 DEF Pays
<1> QED BY <1>7, <1>12

(* A run that uses `cost'.                                                 *)
LEMMA PaysCost ==
  ASSUME NEW ms \in Seq(Meter), NEW k \in 1..Len(ms), NEW cost \in Nat,
         meters' = UseGas(ms, k, cost), spent' = spent + Payable(ms, k, cost),
         TRUE \notin Gasless => /\ ~RunsOut(ms[k], cost) /\ control' # "panic"
                                /\ \A j \in 1..k : ms[j].limit \in Nat
  PROVE  \E pay \in Nat : Pays(k, ms[k].used, pay)
<1>1. ms[k] \in Meter
  OBVIOUS
<1>2. ms[k].used \in Nat /\ ms[k].limit \in Nat \cup {Nil}
  BY <1>1 DEF Meter
<1>3. PICK v \in Nat : v = ms[k].used + cost
  BY <1>2
<1>4. meters' = [ms EXCEPT ![k].used = v] /\ v \in Nat
  BY <1>3 DEF UseGas
<1>5. Charges(ms, k) /\ meters'[k].used = v
  BY <1>4, UsedFacts, ZenonT(60)
<1>6. PICK pay : pay = Payable(ms, k, cost)
  OBVIOUS
<1>7. /\ pay \in Nat /\ pay <= cost
      /\ (\E j \in 1..k : IsInfinite(ms[j])) => pay = 0
      /\ (\A j \in 1..k : ~IsInfinite(ms[j])) =>
           \/ ms[k].limit <= ms[k].used /\ pay = 0
           \/ ms[k].used + cost <= ms[k].limit /\ pay = cost
           \/ /\ ms[k].used < ms[k].limit /\ ms[k].limit < ms[k].used + cost
              /\ pay = ms[k].limit - ms[k].used
  <2>1. PaysFor(ms, k, cost, pay)
    BY <1>6, PayableFacts
  <2> QED BY <2>1 DEF PaysFor
<1>8. meters'[k].limit = ms[k].limit /\ \A j \in 1..k : IsInfinite(meters'[j]) <=> IsInfinite(ms[j])
  BY <1>5 DEF Charges, IsInfinite
<1>9. \A q \in Nat : q <= ms[k].used => q + pay <= v
  BY <1>2, <1>3, <1>7
<1>10. ASSUME NEW q \in Nat, q <= ms[k].used, ~IsInfinite(ms[k]), q <= ms[k].limit
       PROVE  q + pay <= ms[k].limit
  <2>1. ms[k].limit \in Nat
    BY <1>2, <1>10 DEF IsInfinite
  <2> QED BY <1>2, <1>7, <1>10, <2>1
<1>11. ASSUME TRUE \notin Gasless PROVE ms[k].used + pay = v
  <2>1. \A j \in 1..k : ~IsInfinite(ms[j])
    BY <1>11, GasAssumption DEF IsInfinite
  <2>2. ms[k].limit \in Nat /\ ms[k].used + cost < ms[k].limit
    BY <1>2, <1>11, <2>1 DEF RunsOut
  <2> QED BY <1>2, <1>3, <1>7, <2>1, <2>2
<1>12. IsInfinite(meters'[k]) <=> IsInfinite(ms[k])
  BY <1>8 DEF IsInfinite
<1>13. \A q \in Nat : q <= ms[k].used /\ (~IsInfinite(meters'[k]) => q <= meters'[k].limit) =>
         /\ q + pay <= meters'[k].used
         /\ ~IsInfinite(meters'[k]) => q + pay <= meters'[k].limit
  BY <1>5, <1>8, <1>9, <1>10, <1>12
<1>14. Pays(k, ms[k].used, pay)
  BY <1>5, <1>6, <1>7, <1>8, <1>11, <1>13 DEF Pays
<1> QED BY <1>7, <1>14

(* A run that begins pays what it uses, on the meter that it uses.         *)
LEMMA PushPays ==
  ASSUME DispatchInv, NEW f, Pushes(f), NEW k \in Nat, k = Charged(f),
         NEW u, u = IF k \in 1..Len(meters) THEN meters[k].used ELSE 0
  PROVE  spent \in Nat => \E pay \in Nat : Pays(k, u, pay)
<1> HAVE spent \in Nat
<1>1. PICK ms, gasless : MetersGiven(f, ms, gasless) /\ MetersUsed(f, ms, gasless)
  BY DEF Pushes, MetersPushed
<1>2. Len(meters) \in Nat /\ Len(meters) >= 1
  BY SomeMeter
<1>3. /\ Own(f) \in {0, 1} /\ f.limited \in BOOLEAN
      /\ f.limited => Own(f) = 1
      /\ ~f.limited => Own(f) = 0
  BY OwnFacts DEF Pushes, FramesPushed
<1>4. /\ ms \in Seq(Meter) /\ gasless \in BOOLEAN /\ (gasless => TRUE \in Gasless)
      /\ Len(ms) = Len(meters) + Own(f) + (IF gasless THEN 1 ELSE 0)
      /\ \A i \in 1..Len(meters) : ms[i] = meters[i]
      /\ f.limited => ms[Len(meters) + 1].used = 0 /\ ms[Len(meters) + 1].limit \in Nat
  BY <1>1 DEF MetersGiven
<1>5. k = Len(meters) + Own(f) /\ k \in 1..Len(ms)
  BY <1>2, <1>3, <1>4 DEF Charged
<1>6. ms[k].used = u
  <2>1. CASE f.limited
    BY <1>2, <1>3, <1>4, <1>5, <2>1
  <2>2. CASE ~f.limited
    BY <1>2, <1>3, <1>4, <1>5, <2>2
  <2> QED BY <1>3, <2>1, <2>2
<1>7. ASSUME TRUE \notin Gasless, NEW j \in 1..k
      PROVE  ms[j].limit \in Nat /\ ms[j].used <= ms[j].limit
  <2>1. CASE j \in 1..Len(meters)
    BY <1>4, <1>7, <2>1 DEF DispatchInv, Margins
  <2>2. CASE j \notin 1..Len(meters)
    <3>1. f.limited /\ j = Len(meters) + 1
      BY <1>2, <1>3, <1>5, <2>2
    <3> QED BY <1>4, <3>1
  <2> QED BY <2>1, <2>2
<1>8. CASE ~gasless /\ \E cost \in Nat \ {0} :
             /\ RunsOut(ms[Len(ms)], cost)
             /\ meters' = [ms EXCEPT ![Len(ms)].used = ms[Len(ms)].limit]
             /\ spent' = spent + Payable(ms, Len(ms), cost)
  <2>1. Len(ms) = k
    BY <1>2, <1>3, <1>4, <1>5, <1>8
  <2>2. PICK cost \in Nat : /\ RunsOut(ms[k], cost)
                            /\ meters' = [ms EXCEPT ![k].used = ms[k].limit]
                            /\ spent' = spent + Payable(ms, k, cost)
    BY <1>8, <2>1
  <2>3. PICK v : v = ms[k].limit /\ meters' = [ms EXCEPT ![k].used = v]
    BY <2>2
  <2>4. \E pay \in Nat : Pays(k, ms[k].used, pay)
    BY <1>4, <1>5, <1>7, <2>2, <2>3, PaysLimit, ZenonT(30)
  <2> QED BY <1>6, <2>4
<1>9. CASE ~gasless /\ \E cost \in Nat \ {0} :
             /\ ~RunsOut(ms[Len(ms)], cost) /\ control' # "panic"
             /\ meters' = UseGas(ms, Len(ms), cost)
             /\ spent' = spent + Payable(ms, Len(ms), cost)
  <2>1. Len(ms) = k
    BY <1>2, <1>3, <1>4, <1>5, <1>9
  <2>2. PICK cost \in Nat : /\ ~RunsOut(ms[k], cost) /\ control' # "panic"
                            /\ meters' = UseGas(ms, k, cost)
                            /\ spent' = spent + Payable(ms, k, cost)
    BY <1>9, <2>1
  <2> QED BY <1>4, <1>5, <1>6, <1>7, <2>2, PaysCost
<1>10. CASE gasless /\ \E cost \in Nat \ {0} :
              /\ meters' = UseGas(ms, Len(ms) - 1, cost)
              /\ spent' = spent + Payable(ms, Len(ms) - 1, cost)
  <2>1. Len(ms) - 1 = k
    BY <1>2, <1>3, <1>4, <1>5, <1>10
  <2>2. PICK cost \in Nat : /\ meters' = UseGas(ms, k, cost)
                            /\ spent' = spent + Payable(ms, k, cost)
    BY <1>10, <2>1
  <2>3. TRUE \in Gasless
    BY <1>4, <1>10
  <2> QED BY <1>4, <1>5, <1>6, <2>2, <2>3, PaysCost
<1>11. CASE control' = "error" /\ meters' = ms /\ spent' = spent
  <2>1. ms[k] \in Meter
    BY <1>4, <1>5
  <2>2. u \in Nat
    BY <1>6, <2>1 DEF Meter
  <2>3. /\ meters'[k].used = u /\ control' # "panic"
        /\ spent' = spent + 0 /\ u + 0 = u /\ \A q \in Nat : q + 0 = q
    BY <1>6, <1>11, <2>2
  <2>4. Pays(k, u, 0)
    BY <2>3 DEF Pays
  <2> QED BY <2>4
<1> QED BY <1>1, <1>8, <1>9, <1>10, <1>11 DEF MetersUsed

(* The meters of a run that begins belong to it.                           *)
LEMMA PushOwned ==
  ASSUME DispatchInv, Owned, NEW f, Pushes(f)
  PROVE  Owned'
<1>1. PICK n \in Nat : n = Len(frames)
  BY DEF DispatchInv, TypeOK
<1>2. /\ Len(frames') = n + 1 /\ f \in Frame /\ frames'[n + 1] = f
      /\ \A i \in 1..n : Same(frames'[i], frames[i])
  BY <1>1, AfterPush DEF Pushes, DispatchInv
<1>3. Len(meters) \in Nat /\ Len(meters) >= 1 /\ f.base = Len(meters)
  BY SomeMeter DEF Pushes, FrameOK
<1>4. /\ Own(f) \in {0, 1} /\ f.limited \in BOOLEAN
      /\ f.limited => Own(f) = 1
      /\ ~f.limited => Own(f) = 0
  BY <1>2, OwnFacts
<1>5. /\ meters' \in Seq(Meter)
      /\ \A i \in 1..Len(meters) : meters'[i].limit = meters[i].limit
      /\ \A i \in 1..Len(meters') : i > Len(meters) + Own(f) => IsInfinite(meters'[i])
  BY BegunFacts DEF MetersBegun, Charged
<1>6. ASSUME NEW k \in 1..Len(meters'), k > 1, ~IsInfinite(meters'[k])
      PROVE  \E i \in 1..(n + 1) : frames'[i].limited /\ frames'[i].base + 1 = k
  <2>1. CASE k \in 1..Len(meters)
    <3>1. ~IsInfinite(meters[k])
      BY <1>5, <1>6, <2>1 DEF IsInfinite
    <3>2. PICK i \in 1..n : frames[i].limited /\ frames[i].base + 1 = k
      BY <1>1, <1>6, <2>1, <3>1 DEF Owned
    <3>3. frames'[i].limited /\ frames'[i].base + 1 = k /\ i \in 1..(n + 1)
      BY <1>2, <3>2 DEF Same
    <3> QED BY <3>3
  <2>2. CASE k \notin 1..Len(meters)
    <3>1. f.limited /\ k = Len(meters) + 1
      BY <1>3, <1>4, <1>5, <1>6, <2>2
    <3>2. n + 1 \in 1..(n + 1) /\ frames'[n + 1].limited /\ frames'[n + 1].base + 1 = k
      BY <1>2, <1>3, <3>1
    <3> QED BY <3>2
  <2> QED BY <2>1, <2>2
<1> QED BY <1>2, <1>6 DEF Owned

(* The shares of a run that begins.                                        *)
LEMMA PushShares ==
  ASSUME DispatchInv, NEW p, Shares(p), NEW f, Pushes(f)
  PROVE  Emptied' /\ \E q : Shares(q)'
<1>1. PICK n \in Nat : n = Len(frames)
  BY DEF DispatchInv, TypeOK
<1>2. /\ Len(frames') = n + 1 /\ f \in Frame /\ frames'[n + 1] = f
      /\ \A i \in 1..n : Same(frames'[i], frames[i])
  BY <1>1, AfterPush DEF Pushes, DispatchInv
<1>3. PICK m \in Nat : m = Len(meters) /\ m >= 1 /\ f.base = m
  BY SomeMeter DEF Pushes, FrameOK
<1>4. /\ Own(f) \in {0, 1} /\ f.limited \in BOOLEAN
      /\ f.limited => Own(f) = 1
      /\ ~f.limited => Own(f) = 0
  BY <1>2, OwnFacts
<1>5. PICK k \in Nat : k = m + Own(f) /\ k = Charged(f) /\ m <= k
  BY <1>3, <1>4 DEF Charged
<1>6. /\ meters' \in Seq(Meter) /\ k \in 1..Len(meters')
      /\ \A i \in 1..m : i # k => meters'[i] = meters[i]
      /\ \A i \in 1..m : meters'[i].limit = meters[i].limit
      /\ \A i \in 1..Len(meters') : i > k => IsInfinite(meters'[i]) /\ TRUE \in Gasless
      /\ f.limited => meters'[m + 1].limit \in Nat /\ LimitsGas(meters'[m + 1].limit)
  BY <1>3, <1>5, BegunFacts DEF MetersBegun
<1>7. PICK l \in Nat : l = Len(meters') /\ k <= l /\ m <= l
  BY <1>5, <1>6
<1>8. PICK u : u = IF k \in 1..Len(meters) THEN meters[k].used ELSE 0
  OBVIOUS
<1>9. PICK pay \in Nat : Pays(k, u, pay)
  <2>1. \A i \in 1..m : p[i] \in Nat
    BY <1>3 DEF Shares, Share
  <2>2. spent \in Nat
    BY <1>3, <2>1, SumSteps DEF Shares
  <2> QED BY <1>5, <1>8, <2>2, PushPays
<1>10. PICK e : e = [i \in 1..l |-> IF i <= m THEN p[i] ELSE 0]
  OBVIOUS
<1>11. PICK q : q = [i \in 1..l |-> IF i = k THEN e[i] + pay ELSE e[i]]
  OBVIOUS
<1>12. \A i \in 1..m : Share(p, i) /\ p[i] \in Nat
  BY <1>3 DEF Shares, Share
<1>13. \A i \in 1..l : e[i] \in Nat /\ q[i] \in Nat
  <2>1. \A i \in 1..l : e[i] \in Nat
    BY <1>7, <1>10, <1>12
  <2> QED BY <1>11, <2>1
<1>14. Sum(q, l) = spent'
  <2>1. \A i \in 1..m : p[i] \in Nat /\ e[i] = p[i] /\ e[i] \in Nat
    BY <1>7, <1>10, <1>12
  <2>2. Sum(e, m) = Sum(p, m) /\ Sum(p, m) = spent /\ Sum(e, m) \in Nat
    <3>1. Sum(e, m) = Sum(p, m)
      BY <2>1, SumSame
    <3>2. Sum(e, m) \in Nat
      BY <2>1, SumSteps
    <3> QED BY <1>3, <3>1, <3>2 DEF Shares
  <2>3. Sum(e, l) = Sum(e, m)
    <3>1. m \in 0..l /\ \A i \in 1..l : e[i] \in Nat /\ (i > m => e[i] = 0)
      BY <1>7, <1>10, <1>13
    <3> QED BY <3>1, SumTail
  <2>4. Sum(e, l) + q[k] = Sum(q, l) + e[k]
    <3>1. k \in 1..l /\ \A i \in 1..l : i # k => e[i] = q[i]
      BY <1>6, <1>7, <1>11
    <3> QED BY <1>13, <3>1, SumChanged
  <2>5. q[k] = e[k] + pay /\ e[k] \in Nat /\ q[k] \in Nat /\ Sum(q, l) \in Nat
    <3>1. Sum(q, l) \in Nat
      BY <1>13, SumSteps
    <3> QED BY <1>6, <1>7, <1>11, <1>13, <3>1
  <2>6. spent' = spent + pay
    BY <1>9 DEF Pays
  <2>7. Sum(e, l) = spent /\ spent \in Nat
    BY <2>2, <2>3
  <2>8. spent + (e[k] + pay) = Sum(q, l) + e[k]
    BY <2>4, <2>5, <2>7
  <2>9. Sum(q, l) = spent + pay
    BY <2>5, <2>7, <2>8
  <2> QED BY <2>6, <2>9
<1>15. \A i \in 1..l : Paid(i)' <=> \A j \in 1..i : ~IsInfinite(meters'[j])
  BY DEF Paid
<1>16. ASSUME NEW i \in 1..m PROVE Paid(i)' <=> Paid(i)
  BY <1>3, <1>6, <1>7, <1>15 DEF Paid, IsInfinite
<1>17. e[k] \in Nat /\ e[k] <= u /\ (~IsInfinite(meters'[k]) => e[k] <= meters'[k].limit)
  <2>1. CASE k \in 1..m
    <3>1. Share(p, k) /\ e[k] = p[k] /\ u = meters[k].used
      BY <1>3, <1>7, <1>8, <1>10, <1>12, <2>1
    <3>2. meters'[k].limit = meters[k].limit
      BY <1>6, <2>1
    <3> QED BY <3>1, <3>2 DEF Share, IsInfinite
  <2>2. CASE k \notin 1..m
    <3>1. f.limited /\ k = m + 1
      BY <1>3, <1>4, <1>5, <2>2
    <3>2. e[k] = 0 /\ u = 0 /\ meters'[k].limit \in Nat
      BY <1>3, <1>6, <1>7, <1>8, <1>10, <2>2, <3>1
    <3> QED BY <3>2
  <2> QED BY <2>1, <2>2
<1>18. Share(q, k)'
  <2>1. q[k] = e[k] + pay /\ q[k] \in Nat
    BY <1>6, <1>7, <1>11, <1>13
  <2>2. /\ q[k] <= meters'[k].used
        /\ ~IsInfinite(meters'[k]) => q[k] <= meters'[k].limit
    BY <1>9, <1>17, <2>1 DEF Pays
  <2>3. ~Paid(k)' => q[k] = 0
    <3> SUFFICES ASSUME ~Paid(k)' PROVE q[k] = 0
      OBVIOUS
    <3>1. pay = 0
      BY <1>6, <1>7, <1>9, <1>15 DEF Pays
    <3>2. e[k] = 0
      <4>1. CASE k \in 1..m
        <5>1. Share(p, k) /\ ~Paid(k) /\ e[k] = p[k]
          BY <1>7, <1>10, <1>12, <1>16, <4>1
        <5> QED BY <5>1 DEF Share
      <4>2. CASE k \notin 1..m
        BY <1>3, <1>5, <1>6, <1>7, <1>10, <4>2
      <4> QED BY <4>1, <4>2
    <3> QED BY <2>1, <3>1, <3>2
  <2>4. TRUE \notin Gasless => q[k] = meters'[k].used
    <3> SUFFICES ASSUME TRUE \notin Gasless PROVE q[k] = meters'[k].used
      OBVIOUS
    <3>1. u + pay = meters'[k].used
      BY <1>9 DEF Pays
    <3>2. e[k] = u
      <4>1. CASE k \in 1..m
        BY <1>3, <1>7, <1>8, <1>10, <1>12, <4>1 DEF Share
      <4>2. CASE k \notin 1..m
        BY <1>3, <1>5, <1>6, <1>7, <1>8, <1>10, <4>2
      <4> QED BY <4>1, <4>2
    <3> QED BY <2>1, <3>1, <3>2
  <2> QED BY <2>1, <2>2, <2>3, <2>4 DEF Share
<1>19. ASSUME NEW i \in 1..l, i # k PROVE Share(q, i)'
  <2>1. q[i] = e[i]
    BY <1>11, <1>19
  <2>2. CASE i \in 1..m
    <3>1. q[i] = p[i] /\ meters'[i] = meters[i] /\ Share(p, i)
      BY <1>6, <1>10, <1>12, <1>19, <2>1, <2>2
    <3> QED BY <1>16, <2>2, <3>1 DEF Share
  <2>3. CASE i \notin 1..m
    <3>1. q[i] = 0 /\ i > k
      BY <1>4, <1>5, <1>10, <1>19, <2>1, <2>3
    <3>2. IsInfinite(meters'[i]) /\ TRUE \in Gasless
      BY <1>6, <1>7, <3>1
    <3>3. meters'[i] \in Meter
      BY <1>6, <1>7
    <3>4. meters'[i].used \in Nat
      BY <3>3 DEF Meter
    <3>5. q[i] \in Nat /\ q[i] <= meters'[i].used
      BY <3>1, <3>4
    <3> QED BY <3>1, <3>2, <3>5, Zenon DEF Share
  <2> QED BY <2>2, <2>3
<1>20. ASSUME NEW i \in 1..(n + 1), frames'[i].limited
       PROVE  Leaves(q, frames[i].base)'
  <2>1. CASE i \in 1..n
    <3>1. frames[i].limited /\ frames'[i].base = frames[i].base /\ frames[i] \in Frame
      BY <1>1, <1>2, <1>20, <2>1 DEF Same, DispatchInv, TypeOK
    <3>2. PICK b \in Nat : b = frames[i].base
      BY <3>1, OwnFacts
    <3>3. b >= 1 /\ b + 1 <= m
      BY <1>1, <1>3, <2>1, <3>1, <3>2, OwnFacts DEF DispatchInv, Stack
    <3>4. b \in 1..m /\ b + 1 \in 1..m /\ b # k /\ b \in 1..l
      BY <1>5, <1>7, <3>3
    <3>5. /\ meters'[b] = meters[b] /\ meters'[b + 1].limit = meters[b + 1].limit
          /\ q[b] = p[b]
      BY <1>6, <1>10, <1>11, <3>4
    <3>6. Leaves(p, b)
      BY <1>1, <2>1, <3>1, <3>2 DEF Shares
    <3>7. Leaves(q, b)'
      BY <3>5, <3>6 DEF Leaves
    <3> QED BY <3>1, <3>2, <3>7
  <2>2. CASE i = n + 1
    <3>1. f.limited /\ frames'[i].base = m /\ m # k /\ m \in 1..m /\ m \in 1..l
      BY <1>2, <1>3, <1>4, <1>5, <1>7, <1>20, <2>2
    <3>2. meters'[m] = meters[m] /\ q[m] = p[m] /\ Share(p, m)
      BY <1>6, <1>10, <1>11, <1>12, <3>1
    <3>3. meters[m] \in Meter
      BY <1>3, <3>1 DEF DispatchInv, TypeOK
    <3>4. PICK g \in Nat : g = meters'[m + 1].limit /\ LimitsGas(g)
      BY <1>6, <3>1
    <3>5. IsInfinite(meters[m]) \/ g < meters[m].limit - meters[m].used
      BY <1>3, <3>4 DEF LimitsGas, Last
    <3>6. ~IsInfinite(meters[m]) => p[m] + g <= meters[m].limit
      <4>1. meters[m].used \in Nat /\ meters[m].limit \in Nat \cup {Nil}
        BY <3>3 DEF Meter
      <4> QED BY <3>2, <3>4, <3>5, <4>1 DEF Share, IsInfinite
    <3>7. Leaves(q, m)'
      BY <3>2, <3>4, <3>6 DEF Leaves
    <3> QED BY <3>1, <3>7
  <2> QED BY <2>1, <2>2
<1>21. Shares(q)'
  <2>1. \A i \in 1..l : Share(q, i)'
    BY <1>18, <1>19
  <2> QED BY <1>2, <1>7, <1>14, <1>20, <2>1 DEF Shares
<1>22. Emptied'
  <2> SUFFICES ASSUME TRUE \notin Gasless, control' = "panic"
               PROVE  meters'[l].used = meters'[l].limit
    BY <1>7 DEF Emptied, Last
  <2>1. l = k
    <3>1. l \in 1..l
      BY <1>6, <1>7
    <3>2. ~(l > k)
      BY <1>6, <1>7, <3>1
    <3> QED BY <1>7, <3>2
  <2> QED BY <1>9, <2>1 DEF Pays
<1> QED BY <1>21, <1>22

(* Above the meters of the top frame there are only infinite ones.         *)
LEMMA InfiniteAbove ==
  ASSUME DispatchInv, Owned, control \in {"run", "error", "panic"},
         NEW k \in 1..Len(meters), k > Top.base + Own(Top)
  PROVE  IsInfinite(meters[k])
<1> SUFFICES ASSUME ~IsInfinite(meters[k]) PROVE FALSE
  OBVIOUS
<1>1. PICK n \in Nat : n = Len(frames) /\ n \in 1..n /\ Top = frames[n]
  BY TopFacts
<1>2. Top \in Frame /\ Top.base \in 1..Len(meters)
  BY TopFacts
<1>3. Own(Top) \in {0, 1} /\ (Top.limited => Own(Top) = 1)
  BY <1>2, OwnFacts
<1>4. k \in Nat /\ k > 1 /\ Top.base \in Nat
  BY <1>2, <1>3
<1>5. PICK i \in 1..n : frames[i].limited /\ frames[i].base + 1 = k
  BY <1>1, <1>4 DEF Owned
<1>6. CASE i = n
  BY <1>1, <1>3, <1>4, <1>5, <1>6
<1>7. CASE i < n
  <2>1. frames[i].base + Own(frames[i]) <= Top.base
    BY <1>1, <1>5, <1>7 DEF DispatchInv, Stack
  <2>2. Own(frames[i]) = 1
    BY <1>5 DEF Own
  <2> QED BY <1>3, <1>4, <1>5, <2>1, <2>2
<1> QED BY <1>1, <1>5, <1>6, <1>7

(* The meters that are left belong to the frames that are left.            *)
LEMMA PopOwned ==
  ASSUME DispatchInv, Owned, NEW st, Pops(st)
  PROVE  Owned'
<1>1. PICK n \in Nat : n = Len(frames) - 1 /\ n + 1 = Len(frames)
  BY PopCount
<1>2. Len(frames') = n /\ \A i \in 1..n : Same(frames'[i], frames[i])
  BY <1>1 DEF Pops, FramesPopped
<1>3. control \in {"run", "error", "panic"}
  BY DEF Pops
<1>4. Top = frames[n + 1] /\ Top \in Frame
  BY <1>1, <1>3, TopFacts
<1>5. PICK b \in Nat : b = Top.base
  BY <1>4, OwnFacts
<1>6. /\ meters' \in Seq(Meter) /\ Len(meters') \in b..Len(meters)
      /\ Top.kind = "call" => Len(meters') = b
      /\ \A i \in 1..Len(meters') : meters'[i].limit = meters[i].limit
  BY <1>5, EndedMeters DEF MetersEnded
<1>7. Top.kind \in {"call", "reply"} /\ (Top.kind = "reply" => ~Top.limited)
  BY <1>3, TopFacts
<1>8. Len(meters) \in Nat /\ Len(meters') <= Len(meters) /\ Len(meters') \in Nat
  BY <1>6 DEF DispatchInv, TypeOK
<1>9. ASSUME NEW k \in 1..Len(meters'), k > 1, ~IsInfinite(meters'[k])
      PROVE  \E i \in 1..n : frames'[i].limited /\ frames'[i].base + 1 = k
  <2>1. k \in 1..Len(meters) /\ ~IsInfinite(meters[k])
    BY <1>6, <1>8, <1>9 DEF IsInfinite
  <2>2. PICK i \in 1..(n + 1) : frames[i].limited /\ frames[i].base + 1 = k
    BY <1>1, <1>9, <2>1 DEF Owned
  <2>3. i # n + 1
    BY <1>4, <1>5, <1>6, <1>7, <1>9, <2>2
  <2>4. i \in 1..n /\ frames'[i].limited /\ frames'[i].base + 1 = k
    BY <1>2, <2>2, <2>3 DEF Same
  <2> QED BY <2>4
<1> QED BY <1>2, <1>9 DEF Owned

(* The share of a limited message is passed on to its caller.              *)
LEMMA PopShares ==
  ASSUME DispatchInv, DispatchInv', Owned, Emptied, NEW p, Shares(p), NEW st, Pops(st)
  PROVE  Emptied' /\ \E q : Shares(q)'
<1>1. PICK n \in Nat : n = Len(frames) - 1 /\ n + 1 = Len(frames)
  BY PopCount
<1>2. Len(frames') = n /\ \A i \in 1..n : Same(frames'[i], frames[i])
  BY <1>1 DEF Pops, FramesPopped
<1>3. control \in {"run", "error", "panic"} /\ spent' = spent /\ PanicPopped
  BY DEF Pops
<1>4. Top = frames[n + 1] /\ Top \in Frame
  BY <1>1, <1>3, TopFacts
<1>5. PICK b \in Nat : b = Top.base
  BY <1>4, OwnFacts
<1>6. /\ meters' \in Seq(Meter) /\ Len(meters') \in b..Len(meters)
      /\ Top.kind = "call" => Len(meters') = b
      /\ \A i \in 1..Len(meters') : meters'[i].limit = meters[i].limit
      /\ \A i \in 1..Len(meters') : (Top.limited => i # b) => meters'[i] = meters[i]
      /\ Top.limited => Settles(b)
  BY <1>5, EndedMeters DEF MetersEnded
<1>7. /\ Top.kind \in {"call", "reply"} /\ (Top.kind = "reply" => ~Top.limited)
      /\ b \in 1..Len(meters) /\ Top.limited \in BOOLEAN
      /\ Top.limited => /\ b + 1 \in 1..Len(meters)
                        /\ meters[b + 1].limit \in Nat
                        /\ meters[b + 1].used \in Nat
  BY <1>3, <1>5, TopFacts
<1>8. PICK m \in Nat, l \in Nat : m = Len(meters) /\ l = Len(meters') /\ b <= l /\ l <= m
  BY <1>6 DEF DispatchInv, TypeOK
<1>9. \A i \in 1..m : Share(p, i) /\ p[i] \in Nat
  BY <1>8 DEF Shares, Share
<1>10. \A i \in 1..m : meters[i] \in Meter /\ meters[i].used \in Nat
  <2>1. \A i \in 1..m : meters[i] \in Meter
    BY <1>8 DEF DispatchInv, TypeOK
  <2> QED BY <2>1 DEF Meter
<1>11. ASSUME NEW i \in 1..m, i > b + Own(Top)
       PROVE  p[i] = 0 /\ TRUE \in Gasless
  <2>1. IsInfinite(meters[i])
    BY <1>3, <1>5, <1>8, <1>11, InfiniteAbove
  <2>2. ~Paid(i)
    BY <2>1 DEF Paid
  <2>3. p[i] = 0
    BY <1>9, <2>2 DEF Share
  <2>4. TRUE \in Gasless
    BY <1>8, <2>1, GasAssumption DEF IsInfinite, DispatchInv, Margins
  <2> QED BY <2>3, <2>4
<1>12. ASSUME NEW i \in 1..l PROVE Paid(i)' <=> Paid(i)
  BY <1>6, <1>8 DEF Paid, IsInfinite
<1>13. Sum(p, m) = spent
  BY <1>8 DEF Shares
<1>14. ASSUME NEW i \in 1..n, frames[i].limited
       PROVE  /\ frames[i].base + 1 \in 1..b /\ frames[i].base \in 1..l
              /\ frames[i].base # b /\ Leaves(p, frames[i].base)
  <2>1. i \in 1..(n + 1) /\ n + 1 \in 1..(n + 1) /\ i < n + 1
    OBVIOUS
  <2>2. frames[i].base + Own(frames[i]) <= b /\ frames[i].base >= 1 /\ frames[i] \in Frame
    <3>1. frames[i].base + Own(frames[i]) <= frames[n + 1].base /\ frames[i].base >= 1
      BY <1>1, <2>1 DEF DispatchInv, Stack
    <3>2. frames[i] \in Frame
      BY <1>1, <2>1 DEF DispatchInv, TypeOK
    <3> QED BY <1>4, <1>5, <3>1, <3>2
  <2>3. Own(frames[i]) = 1 /\ frames[i].base \in Nat
    BY <1>14, <2>2, OwnFacts
  <2>4. Leaves(p, frames[i].base)
    BY <1>1, <1>14, <2>1 DEF Shares
  <2> QED BY <1>8, <2>2, <2>3, <2>4
<1>15. CASE ~Top.limited
  <2>1. Own(Top) = 0
    BY <1>15 DEF Own
  <2>2. \A i \in 1..l : meters'[i] = meters[i]
    BY <1>6, <1>8, <1>15
  <2>3. Sum(p, l) = spent
    <3>1. l \in 0..m /\ \A i \in 1..m : i > l => i > b + Own(Top)
      BY <1>8, <2>1
    <3>2. Sum(p, m) = Sum(p, l)
      BY <1>9, <1>11, <3>1, SumTail
    <3> QED BY <1>13, <3>2
  <2>4. ASSUME NEW i \in 1..l PROVE Share(p, i)'
    <3>1. i \in 1..m /\ Share(p, i) /\ meters'[i] = meters[i] /\ (Paid(i)' <=> Paid(i))
      BY <1>8, <1>9, <1>12, <2>2
    <3> QED BY <3>1 DEF Share
  <2>5. ASSUME NEW i \in 1..n, frames'[i].limited PROVE Leaves(p, frames[i].base)'
    <3>1. frames[i].limited /\ frames'[i].base = frames[i].base
      BY <1>2, <2>5 DEF Same
    <3>2. PICK a : a = frames[i].base /\ a + 1 \in 1..b /\ a \in 1..l /\ Leaves(p, a)
      BY <1>14, <3>1
    <3>3. meters'[a] = meters[a] /\ meters'[a + 1] = meters[a + 1]
      BY <1>8, <2>2, <3>2
    <3>4. Leaves(p, a)'
      BY <3>2, <3>3 DEF Leaves
    <3> QED BY <3>1, <3>2, <3>4
  <2>6. Shares(p)'
    BY <1>2, <1>3, <1>8, <2>3, <2>4, <2>5 DEF Shares
  <2>7. Emptied'
    <3> SUFFICES ASSUME TRUE \notin Gasless, control' = "panic"
                 PROVE  meters'[l].used = meters'[l].limit
      BY <1>8 DEF Emptied, Last
    <3>1. control = "panic"
      BY <1>3, <1>15 DEF PanicPopped, Propagates
    <3>2. meters[m].used = meters[m].limit
      BY <1>8, <3>1 DEF Emptied, Last
    <3>3. m = b
      <4>1. m \in 1..m /\ b <= m
        BY <1>7, <1>8
      <4>2. ~(m > b + Own(Top))
        BY <1>11, <4>1
      <4> QED BY <2>1, <4>1, <4>2
    <3>4. l = m /\ l \in 1..l
      BY <1>7, <1>8, <3>3
    <3> QED BY <2>2, <3>2, <3>4
  <2> QED BY <2>6, <2>7
<1>16. CASE Top.limited
  <2>1. Own(Top) = 1 /\ l = b /\ b \in 1..l /\ b + 1 \in 1..m /\ b \in 1..m
    BY <1>6, <1>7, <1>8, <1>16 DEF Own
  <2>2. PICK q : q = [i \in 1..b |-> IF i = b THEN p[b] + p[b + 1] ELSE p[i]]
    OBVIOUS
  <2>3. \A i \in 1..b : i \in 1..m /\ p[i] \in Nat /\ q[i] \in Nat
    BY <1>9, <2>1, <2>2
  <2>4. q[b] = p[b] + p[b + 1] /\ p[b] \in Nat /\ p[b + 1] \in Nat
    BY <1>9, <2>1, <2>2
  <2>5. Sum(q, b) = spent
    <3>1. b + 1 \in 0..m /\ \A i \in 1..m : i > b + 1 => i > b + Own(Top)
      BY <2>1
    <3>2. Sum(p, b + 1) = spent
      BY <1>9, <1>11, <1>13, <3>1, SumTail
    <3>3. \A i \in 1..(b + 1) : p[i] \in Nat
      BY <2>3, <2>4
    <3>4. b + 1 \in Nat /\ b + 1 # 0 /\ (b + 1) - 1 = b
      OBVIOUS
    <3>5. Sum(p, b + 1) = Sum(p, b) + p[b + 1]
      BY <3>3, <3>4, SumSteps
    <3>6. Sum(p, b) \in Nat /\ Sum(q, b) \in Nat
      BY <2>3, SumSteps
    <3>7. \A i \in 1..b : i # b => p[i] = q[i]
      BY <2>2
    <3>8. Sum(p, b) + q[b] = Sum(q, b) + p[b]
      BY <2>1, <2>3, <3>7, SumChanged
    <3>9. Sum(p, b) + (p[b] + p[b + 1]) = Sum(q, b) + p[b]
      BY <2>4, <3>8
    <3>10. Sum(q, b) = Sum(p, b) + p[b + 1]
      BY <2>4, <3>6, <3>9
    <3> QED BY <3>2, <3>5, <3>10
  <2>6. Share(p, b) /\ Share(p, b + 1) /\ Leaves(p, b)
    <3>1. n + 1 \in 1..Len(frames)
      BY <1>1
    <3> QED BY <1>4, <1>5, <1>9, <1>16, <2>1, <3>1 DEF Shares
  <2>7. ~IsInfinite(meters[b + 1])
    BY <1>7, <1>16, GasAssumption DEF IsInfinite
  <2>8. /\ p[b] <= meters[b].used /\ p[b + 1] <= meters[b + 1].used
        /\ p[b + 1] <= meters[b + 1].limit
        /\ ~IsInfinite(meters[b]) => p[b] + meters[b + 1].limit <= meters[b].limit
        /\ TRUE \notin Gasless => p[b] = meters[b].used /\ p[b + 1] = meters[b + 1].used
    BY <2>6, <2>7 DEF Share, Leaves
  <2>9. meters'[b].limit = meters[b].limit /\ Settles(b)
    BY <1>6, <1>8, <1>16, <2>1
  <2>10. meters[b].used \in Nat /\ meters[b + 1].used \in Nat /\ meters[b + 1].limit \in Nat
    BY <1>7, <1>10, <1>16, <2>1
  <2>11. q[b] <= meters'[b].used
    BY <2>4, <2>8, <2>9, <2>10 DEF Settles
  <2>12. ASSUME ~IsInfinite(meters'[b]) PROVE q[b] <= meters'[b].limit
    <3>1. ~IsInfinite(meters[b]) /\ meters[b] \in Meter
      BY <1>10, <2>1, <2>9, <2>12 DEF IsInfinite
    <3>2. meters[b].limit \in Nat
      BY <3>1 DEF Meter, IsInfinite
    <3> QED BY <2>4, <2>8, <2>9, <2>10, <3>1, <3>2
  <2>13. ASSUME TRUE \notin Gasless PROVE q[b] = meters'[b].used
    <3>1. m = b + 1
      <4>1. m \in 1..m
        BY <2>1
      <4>2. ~(m > b + Own(Top))
        BY <1>11, <2>13, <4>1
      <4> QED BY <2>1, <4>2
    <3>2. control = "panic" => meters[b + 1].used = meters[b + 1].limit
      BY <1>8, <2>13, <3>1 DEF Emptied, Last
    <3>3. meters'[b].used = meters[b].used + meters[b + 1].used
      BY <2>9, <3>2 DEF Settles
    <3> QED BY <2>4, <2>8, <2>13, <3>3
  <2>14. ASSUME ~Paid(b)' PROVE q[b] = 0
    <3>1. ~Paid(b)
      BY <1>12, <2>1, <2>14
    <3>2. ~Paid(b + 1)
      BY <2>1, <3>1 DEF Paid
    <3>3. p[b] = 0 /\ p[b + 1] = 0
      BY <2>6, <3>1, <3>2 DEF Share
    <3> QED BY <2>4, <3>3
  <2>15. ASSUME NEW i \in 1..b PROVE Share(q, i)'
    <3>1. CASE i = b
      <4>1. q[b] \in Nat
        BY <2>4
      <4> QED BY <2>11, <2>12, <2>13, <2>14, <3>1, <4>1 DEF Share
    <3>2. CASE i # b
      <4>1. q[i] = p[i] /\ Share(p, i) /\ meters'[i] = meters[i] /\ (Paid(i)' <=> Paid(i))
        BY <1>6, <1>8, <1>9, <1>12, <2>1, <2>2, <2>3, <3>2
      <4> QED BY <4>1 DEF Share
    <3> QED BY <3>1, <3>2
  <2>16. ASSUME NEW i \in 1..n, frames'[i].limited PROVE Leaves(q, frames[i].base)'
    <3>1. frames[i].limited /\ frames'[i].base = frames[i].base
      BY <1>2, <2>16 DEF Same
    <3>2. PICK a : a = frames[i].base /\ a + 1 \in 1..b /\ a \in 1..l /\ a # b /\ Leaves(p, a)
      BY <1>14, <3>1
    <3>3. meters'[a] = meters[a] /\ meters'[a + 1].limit = meters[a + 1].limit /\ q[a] = p[a]
      BY <1>6, <1>8, <2>1, <2>2, <3>2
    <3>4. Leaves(q, a)'
      BY <3>2, <3>3 DEF Leaves
    <3> QED BY <3>1, <3>2, <3>4
  <2>17. Shares(q)'
    BY <1>2, <1>3, <1>8, <2>1, <2>5, <2>15, <2>16 DEF Shares
  <2>18. Emptied'
    <3> SUFFICES ASSUME TRUE \notin Gasless, control' = "panic" PROVE FALSE
      BY DEF Emptied
    <3>1. Exceeded(meters'[b])
      BY <1>3, <1>5, <1>16 DEF PanicPopped, Propagates
    <3>2. meters'[b].limit \in Nat /\ meters'[b].used <= meters'[b].limit
      BY <1>8, <2>1 DEF DispatchInv, Margins
    <3>3. meters'[b] \in Meter
      <4>1. b \in 1..Len(meters') /\ meters' \in Seq(Meter)
        BY <1>6, <1>8, <2>1
      <4> QED BY <4>1
    <3>4. meters'[b].used \in Nat
      BY <3>3 DEF Meter
    <3> QED BY <3>1, <3>2, <3>4 DEF Exceeded
  <2> QED BY <2>17, <2>18
<1> QED BY <1>7, <1>15, <1>16

(* At first nothing is spent.                                              *)
LEMMA GasInit ==
  ASSUME Init
  PROVE  GasInv
<1>1. /\ Len(frames) = 0 /\ Len(meters) = 1 /\ control = "idle" /\ spent = 0
      /\ meters[1].limit = TxGas /\ meters[1].used = 0 /\ TxGas \in Nat
  BY GasAssumption DEF Init
<1>2. PICK p : p = [i \in 1..1 |-> 0]
  OBVIOUS
<1>3. p[1] = 0
  BY <1>2
<1>4. Sum(p, 1) = 0
  <2>1. \A i \in 1..1 : p[i] \in Nat
    BY <1>2
  <2>2. \A i \in 1..0 : p[i] \in Nat
    OBVIOUS
  <2>3. Sum(p, 0) = 0
    BY <2>2, SumSteps
  <2>4. Sum(p, 1) = Sum(p, 0) + p[1]
    BY <2>1, SumSteps
  <2> QED BY <1>3, <2>3, <2>4
<1>5. Share(p, 1)
  BY <1>1, <1>3 DEF Share
<1>6. Shares(p)
  BY <1>1, <1>4, <1>5 DEF Shares
<1>7. Owned /\ Emptied
  BY <1>1 DEF Owned, Emptied
<1> QED BY <1>6, <1>7 DEF GasInv

(* Every step preserves the invariant.                                     *)
LEMMA GasNext ==
  ASSUME DispatchInv, DispatchInv', GasInv, [Next]_vars
  PROVE  GasInv'
<1>1. PICK p : Shares(p)
  BY DEF GasInv
<1>2. CASE UNCHANGED vars
  <2>1. UNCHANGED <<frames, meters, control, spent>>
    BY <1>2 DEF vars
  <2>2. Shares(p)'
    BY <1>1, <2>1 DEF Shares, Share, Leaves, Paid
  <2>3. Owned' /\ Emptied'
    BY <2>1 DEF GasInv, Owned, Emptied, Last
  <2> QED BY <2>2, <2>3 DEF GasInv
<1>3. CASE Step
  <2>1. CASE \E f : Pushes(f)
    <3>1. PICK f : Pushes(f)
      BY <2>1
    <3>2. Owned' /\ Emptied' /\ \E q : Shares(q)'
      BY <1>1, <3>1, PushOwned, PushShares DEF GasInv
    <3> QED BY <3>2 DEF GasInv
  <2>2. CASE \E st : Pops(st)
    <3>1. PICK st : Pops(st)
      BY <2>2
    <3>2. Owned' /\ Emptied' /\ \E q : Shares(q)'
      BY <1>1, <3>1, PopOwned, PopShares DEF GasInv
    <3> QED BY <3>2 DEF GasInv
  <2> QED BY <1>3, <2>1, <2>2, StepCases
<1> QED BY <1>2, <1>3 DEF Next, Done

(* The invariant is inductive: what was spent can be divided among the     *)
(* meters of the transaction, to each no more than was used on it.         *)
THEOREM GasInvariance == Spec => []GasInv
BY GasInit, GasNext, DispatchInvariance, PTL DEF Spec

(* Gas is never given back (FullyCharged): what any run has used, also one *)
(* that failed, is on a meter that the transaction pays for, and without   *)
(* gasless contracts exactly once: dispatchMsgWithGasLimit charges the     *)
(* caller on success, on error and on running out of gas.                  *)
THEOREM ChargesCorrect == Spec => []FullyCharged
<1>1. DispatchInv /\ GasInv => FullyCharged
  <2> SUFFICES ASSUME DispatchInv, GasInv PROVE FullyCharged
    OBVIOUS
  <2>1. PICK p : Shares(p)
    BY DEF GasInv
  <2>2. PICK m \in Nat : m = Len(meters) /\ DOMAIN meters = 1..m
    BY DEF DispatchInv, TypeOK
  <2>3. PICK e : e = [i \in DOMAIN meters |-> meters[i].used]
    OBVIOUS
  <2>4. \A i \in 1..m : /\ Share(p, i) /\ p[i] \in Nat /\ e[i] = meters[i].used
                        /\ p[i] <= e[i]
    BY <2>1, <2>2, <2>3 DEF Shares, Share
  <2>5. \A i \in 1..m : e[i] \in Nat
    <3>1. \A i \in 1..m : meters[i] \in Meter
      BY <2>2 DEF DispatchInv, TypeOK
    <3>2. \A i \in 1..m : meters[i].used \in Nat
      BY <3>1 DEF Meter
    <3> QED BY <2>4, <3>2
  <2>6. PICK n \in 0..m : PaidMeters = 1..n
    <3> DEFINE U == {i \in 1..m : IsInfinite(meters[i])}
    <3>1. CASE U = {}
      <4>1. PaidMeters = 1..m
        BY <2>2, <3>1 DEF PaidMeters
      <4> QED BY <4>1
    <3>2. CASE U # {}
      <4>1. PICK x \in U : \A y \in U : x <= y
        <5>1. U \subseteq Nat
          OBVIOUS
        <5> HIDE DEF U
        <5> QED BY <3>2, <5>1, Least
      <4>2. PaidMeters = 1..(x - 1)
        BY <2>2, <4>1 DEF PaidMeters
      <4> QED BY <4>1, <4>2
    <3> QED BY <3>1, <3>2
  <2>7. n \in Nat /\ \A i \in 1..n : i \in 1..m
    OBVIOUS
  <2>8. Sum(p, n) = spent /\ Sum(p, n) <= Sum(e, n)
    <3>1. ASSUME NEW i \in 1..m, i > n PROVE p[i] = 0
      <4>1. i \notin PaidMeters
        BY <2>6, <3>1
      <4>2. ~Paid(i)
        BY <2>2, <4>1 DEF PaidMeters, Paid
      <4> QED BY <2>4, <4>2 DEF Share
    <3>2. Sum(p, m) = Sum(p, n)
      BY <2>4, <3>1, SumTail
    <3>3. Sum(p, n) <= Sum(e, n)
      BY <2>4, <2>5, <2>7, SumGrows
    <3> QED BY <2>1, <2>2, <3>2, <3>3 DEF Shares
  <2>9. ASSUME TRUE \notin Gasless PROVE Sum(e, n) = spent
    <3>1. \A i \in 1..n : p[i] = e[i]
      BY <2>4, <2>7, <2>9 DEF Share
    <3>2. Sum(p, n) = Sum(e, n)
      BY <2>7, <3>1, SumSame
    <3> QED BY <2>8, <3>2
  <2>10. SumFunctionOnSet([i \in DOMAIN meters |-> meters[i].used], PaidMeters) = Sum(e, n)
    BY <2>3, <2>6 DEF Sum
  <2>11. Sum(e, n) \in Nat /\ Sum(p, n) \in Nat
    BY <2>4, <2>5, <2>7, SumSteps
  <2> QED BY <2>8, <2>9, <2>10, <2>11 DEF FullyCharged
<1> QED BY <1>1, DispatchInvariance, GasInvariance, PTL
==============================================================================
