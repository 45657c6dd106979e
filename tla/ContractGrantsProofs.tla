------------------------ MODULE ContractGrantsProofs ------------------------
(***************************************************************************)
(* Proofs that the authz grants for contracts stay within what the granter *)
(* gave, for every value of the constants: however many grants, message    *)
(* types and nested MsgExecs there are, and whichever of them fail.        *)
(***************************************************************************)
EXTENDS ContractGrants, FiniteSetTheorems, SequenceTheorems, TLAPS

(* What a grant that answers "accept" has left, of the limit it had.       *)
Left(l, funds, left) ==
  /\ IF Metered(l) THEN IsAllLTE(funds, l.amounts) ELSE funds = NoCoins
  /\ \/ /\ left = Nil
        /\ \/ Counted(l) /\ l.calls = 1
           \/ Metered(l) /\ funds = l.amounts
     \/ /\ left \in Limits /\ Limit_ValidateBasic(left)
        /\ left.kind = l.kind
        /\ Counted(l) => left.calls = l.calls - 1
        /\ Metered(l) => left.amounts = Sub(l.amounts, funds)

(* What is left of some coins and not all of them is not nothing. *)
LEMMA SubPositive ==
  ASSUME NEW amounts \in [Denom -> Nat], NEW funds \in [Denom -> Nat],
         IsAllLTE(funds, amounts), funds # amounts
  PROVE  Sub(amounts, funds) \in [Denom -> Nat] /\ Sub(amounts, funds) # NoCoins
<1>1. PICK d \in Denom : funds[d] # amounts[d]
  OBVIOUS
<1>2. Sub(amounts, funds)[d] # 0
  BY <1>1 DEF Sub, IsAllLTE
<1>3. Sub(amounts, funds) \in [Denom -> Nat]
  BY DEF Sub, IsAllLTE
<1> QED BY <1>2, <1>3 DEF NoCoins

(* A valid limit never answers with an error, and what it leaves is a      *)
(* valid limit, or nothing when it is used up.                             *)
LEMMA LimitAccepts ==
  ASSUME NEW l \in Limits, Limit_ValidateBasic(l),
         NEW funds \in [Denom -> Nat],
         NEW r, r = Limit_Accept(l, funds)
  PROVE  /\ r.verdict \in {"skip", "accept"}
         /\ r.verdict = "accept" => Left(l, funds, r.left)
<1>1. NoCoins \in [Denom -> Nat]
  BY DEF NoCoins
<1>2. CASE l.kind = "calls"
  <2>1. l \in [kind : {"calls"}, calls : Nat] /\ l.calls # 0
    BY <1>2 DEF Limits, Limit_ValidateBasic
  <2>2. r = MaxCallsLimit_Accept(l, funds)
    BY <1>2 DEF Limit_Accept
  <2>3. CASE funds # NoCoins
    BY <2>2, <2>3 DEF MaxCallsLimit_Accept, Skip
  <2>4. CASE funds = NoCoins /\ l.calls = 1
    <3>1. r = Accept(Nil)
      BY <2>2, <2>4 DEF MaxCallsLimit_Accept
    <3> QED BY <1>2, <2>4, <3>1 DEF Accept, Left, Counted, Metered
  <2>5. CASE funds = NoCoins /\ l.calls # 1
    <3>1. PICK k : k = [l EXCEPT !.calls = @ - 1]
      OBVIOUS
    <3>2. r = Accept(k)
      BY <2>1, <2>2, <2>5, <3>1 DEF MaxCallsLimit_Accept
    <3>3. /\ k \in [kind : {"calls"}, calls : Nat] /\ k.kind = "calls"
          /\ k.calls = l.calls - 1 /\ k.calls # 0
      BY <2>1, <2>5, <3>1
    <3>4. k \in Limits /\ Limit_ValidateBasic(k)
      BY <3>3 DEF Limits, Limit_ValidateBasic
    <3>5. r.verdict = "accept" /\ r.left = k
      BY <3>2 DEF Accept
    <3> QED BY <1>2, <2>5, <3>3, <3>4, <3>5 DEF Left, Counted, Metered
  <2> QED BY <2>3, <2>4, <2>5
<1>3. CASE l.kind = "funds"
  <2>1. /\ l \in [kind : {"funds"}, amounts : [Denom -> Nat]]
        /\ l.amounts # NoCoins
    BY <1>3 DEF Limits, Limit_ValidateBasic
  <2>2. r = MaxFundsLimit_Accept(l, funds)
    BY <1>3 DEF Limit_Accept
  <2>3. CASE funds = NoCoins
    <3>1. r = Accept(l)
      BY <2>2, <2>3 DEF MaxFundsLimit_Accept
    <3>2. r.verdict = "accept" /\ r.left = l
      BY <3>1 DEF Accept
    <3>3. IsAllLTE(funds, l.amounts) /\ Sub(l.amounts, funds) = l.amounts
      BY <2>1, <2>3 DEF IsAllLTE, Sub, NoCoins
    <3>4. ~Counted(l) /\ Metered(l)
      BY <1>3 DEF Counted, Metered
    <3> QED BY <3>2, <3>3, <3>4 DEF Left
  <2>4. CASE funds # NoCoins /\ ~IsAllLTE(funds, l.amounts)
    <3>1. funds # l.amounts
      BY <2>4 DEF IsAllLTE
    <3>2. r = Skip
      BY <2>2, <2>4, <3>1 DEF MaxFundsLimit_Accept
    <3> QED BY <3>2 DEF Skip
  <2>5. CASE funds # NoCoins /\ IsAllLTE(funds, l.amounts) /\ funds = l.amounts
    <3>1. r = Accept(Nil)
      BY <2>2, <2>5 DEF MaxFundsLimit_Accept
    <3> QED BY <1>3, <2>5, <3>1 DEF Accept, Left, Counted, Metered
  <2>6. CASE funds # NoCoins /\ IsAllLTE(funds, l.amounts) /\ funds # l.amounts
    <3>1. PICK k : k = [l EXCEPT !.amounts = Sub(@, funds)]
      OBVIOUS
    <3>2. r = Accept(k)
      BY <2>2, <2>6, <3>1 DEF MaxFundsLimit_Accept
    <3>3. /\ Sub(l.amounts, funds) \in [Denom -> Nat]
          /\ Sub(l.amounts, funds) # NoCoins
      BY <2>1, <2>6, SubPositive
    <3>4. /\ k \in [kind : {"funds"}, amounts : [Denom -> Nat]]
          /\ k.kind = "funds" /\ k.amounts = Sub(l.amounts, funds)
      BY <2>1, <3>1, <3>3
    <3>5. k \in Limits /\ Limit_ValidateBasic(k)
      BY <3>3, <3>4 DEF Limits, Limit_ValidateBasic
    <3>6. r.verdict = "accept" /\ r.left = k
      BY <3>2 DEF Accept
    <3> QED BY <1>3, <2>6, <3>4, <3>5, <3>6 DEF Left, Counted, Metered
  <2> QED BY <2>3, <2>4, <2>5, <2>6
<1>4. CASE l.kind = "combined"
  <2>1. /\ l \in [kind : {"combined"}, calls : Nat, amounts : [Denom -> Nat]]
        /\ l.calls # 0 /\ l.amounts # NoCoins
    BY <1>4 DEF Limits, Limit_ValidateBasic
  <2>2. r = CombinedLimit_Accept(l, funds)
    BY <1>4 DEF Limit_Accept
  <2>3. CASE ~IsAllLTE(funds, l.amounts)
    BY <2>2, <2>3 DEF CombinedLimit_Accept, Skip
  <2>4. CASE IsAllLTE(funds, l.amounts) /\ (l.calls = 1 \/ funds = l.amounts)
    <3>1. r = Accept(Nil)
      BY <2>1, <2>2, <2>4 DEF CombinedLimit_Accept
    <3> QED BY <1>4, <2>4, <3>1 DEF Accept, Left, Counted, Metered
  <2>5. CASE IsAllLTE(funds, l.amounts) /\ l.calls # 1 /\ funds # l.amounts
    <3>1. PICK k : k = [l EXCEPT !.calls = @ - 1, !.amounts = Sub(@, funds)]
      OBVIOUS
    <3>2. r = Accept(k)
      BY <2>1, <2>2, <2>5, <3>1 DEF CombinedLimit_Accept
    <3>3. /\ Sub(l.amounts, funds) \in [Denom -> Nat]
          /\ Sub(l.amounts, funds) # NoCoins
      BY <2>1, <2>5, SubPositive
    <3>4. /\ k \in [kind : {"combined"}, calls : Nat, amounts : [Denom -> Nat]]
          /\ k.kind = "combined" /\ k.amounts = Sub(l.amounts, funds)
          /\ k.calls = l.calls - 1 /\ k.calls # 0
      <4>1. l = [kind |-> "combined", calls |-> l.calls, amounts |-> l.amounts]
        BY <2>1
      <4>2. l.calls - 1 \in Nat /\ l.calls - 1 # 0
        BY <2>1, <2>5
      <4>3. PICK n, a : l = [kind |-> "combined", calls |-> n, amounts |-> a]
        BY <4>1
      <4>4. k = [kind |-> "combined", calls |-> n - 1, amounts |-> Sub(a, funds)]
        BY <3>1, <4>3
      <4>5. l.calls = n /\ l.amounts = a
        BY <4>3
      <4> QED BY <3>3, <4>2, <4>4, <4>5
    <3>5. k \in Limits /\ Limit_ValidateBasic(k)
      BY <3>3, <3>4 DEF Limits, Limit_ValidateBasic
    <3>6. r.verdict = "accept" /\ r.left = k
      BY <3>2 DEF Accept
    <3> QED BY <1>4, <2>5, <3>4, <3>5, <3>6 DEF Left, Counted, Metered
  <2> QED BY <2>3, <2>4, <2>5
<1> QED BY <1>2, <1>3, <1>4 DEF Limit_ValidateBasic

-----------------------------------------------------------------------------
(* The inductive invariant: the state has its types, and the grants the    *)
(* authz keeper holds fit the book, now and in every state that a MsgExec  *)
(* under way may fall back to.                                             *)

StoredGrants ==
  {g \in [id : Nat, contract : Contract, limit : Limits, filter : Filters] :
     ContractGrant_ValidateBasic(g)}

Entries ==
  [limit : Limits, calls : Nat, funds : [Denom -> Nat], lapsed : BOOLEAN]

Uploads == [config : Configs, granted : Configs \cup {Nil}]

Frames ==
  [authz : [MsgTypes -> Seq(StoredGrants)], codeAuthz : Seq(CodeGrants),
   codes : SUBSET Uploads, book : Seq(Entries),
   rest : Nat, running : BOOLEAN]

TypeOK ==
  /\ authz \in [MsgTypes -> Seq(StoredGrants)]
  /\ codeAuthz \in Seq(CodeGrants)
  /\ codes \in SUBSET Uploads
  /\ book \in Seq(Entries)
  /\ given \in Nat
  /\ stack \in Seq(Frames)

(* No more is used of a grant than it gave. *)
Within(b) ==
  /\ Counted(b.limit) => b.calls <= b.limit.calls
  /\ IF Metered(b.limit) THEN IsAllLTE(b.funds, b.limit.amounts)
                         ELSE b.funds = NoCoins

Used(b) ==
  \/ Counted(b.limit) /\ b.calls = b.limit.calls
  \/ Metered(b.limit) /\ b.funds = b.limit.amounts

(* The limit that is stored is what the book has left. *)
Matches(now, b) ==
  /\ ~b.lapsed
  /\ now.kind = b.limit.kind
  /\ Counted(now) => now.calls = b.limit.calls - b.calls
  /\ Metered(now) => now.amounts = Sub(b.limit.amounts, b.funds)

(* No more grants than were given at once. *)
Few(az) == \A t \in MsgTypes : Len(az[t]) <= MaxGrants

Booked(az, bk) ==
  \A t \in MsgTypes : \A i \in DOMAIN az[t] :
    az[t][i].id \in DOMAIN bk /\ Matches(az[t][i].limit, bk[az[t][i].id])

(* A grant is kept in one place. *)
Single(az) ==
  \A t, u \in MsgTypes : \A i \in DOMAIN az[t], j \in DOMAIN az[u] :
    az[t][i].id = az[u][j].id => t = u /\ i = j

Kept(az, id) == \E t \in MsgTypes : \E i \in DOMAIN az[t] : az[t][i].id = id

Accounted(az, bk) ==
  \A id \in DOMAIN bk :
    Within(bk[id]) /\ (Used(bk[id]) \/ bk[id].lapsed \/ Kept(az, id))

Budget(az, bk) == Few(az) /\ Booked(az, bk) /\ Single(az) /\ Accounted(az, bk)

AsGranted(cs) ==
  \A code \in cs : code.granted # Nil => IsSubset(code.config, code.granted)

GrantsInv ==
  /\ TypeOK
  /\ Budget(authz, book) /\ AsGranted(codes)
  /\ \A i \in DOMAIN stack :
       Budget(stack[i].authz, stack[i].book) /\ AsGranted(stack[i].codes)

-----------------------------------------------------------------------------
(* What a message does to the grants and to the book.                      *)

(* A stored grant skips a message or accepts it, within its limit.         *)
LEMMA VerdictOK ==
  ASSUME NEW g \in StoredGrants, NEW msg \in Messages,
         NEW r, r = Verdict(g, msg)
  PROVE  /\ r.verdict \in {"skip", "accept"}
         /\ r.verdict = "accept" => Left(g.limit, msg.funds, r.left)
<1>1. /\ g.limit \in Limits /\ Limit_ValidateBasic(g.limit)
      /\ g.filter.kind # "undefined" /\ msg.funds \in [Denom -> Nat]
  BY GrantsAssumption
     DEF StoredGrants, ContractGrant_ValidateBasic, Filter_ValidateBasic, Messages
<1>2. PICK a : a = Limit_Accept(g.limit, msg.funds)
  OBVIOUS
<1>3. /\ a.verdict \in {"skip", "accept"}
      /\ a.verdict = "accept" => Left(g.limit, msg.funds, a.left)
  BY <1>1, <1>2, LimitAccepts
<1>4. r = a \/ r = Skip
  BY <1>1, <1>2 DEF Verdict
<1> QED BY <1>3, <1>4 DEF Skip

(* The sequence without its i-th element.                                  *)
LEMMA RemoveFacts ==
  ASSUME NEW S, NEW q \in Seq(S), NEW i \in DOMAIN q
  PROVE  /\ RemoveGrant(q, i) \in Seq(S)
         /\ Len(RemoveGrant(q, i)) = Len(q) - 1
         /\ \A k \in 1 .. Len(q) - 1 :
              RemoveGrant(q, i)[k] = IF k < i THEN q[k] ELSE q[k + 1]
<1>1. i \in 1 .. Len(q) /\ Len(q) \in Nat
  OBVIOUS
<1>2. PICK p : p = SubSeq(q, 1, i - 1)
  OBVIOUS
<1>3. PICK r : r = SubSeq(q, i + 1, Len(q))
  OBVIOUS
<1>4. /\ p \in Seq(S) /\ Len(p) = i - 1
      /\ \A k \in 1 .. i - 1 : p[k] = q[k]
  BY <1>1, <1>2
<1>5. /\ r \in Seq(S) /\ Len(r) = Len(q) - i
      /\ \A k \in 1 .. Len(q) - i : r[k] = q[k + i]
  BY <1>1, <1>3
<1>6. RemoveGrant(q, i) = p \o r
  BY <1>2, <1>3 DEF RemoveGrant
<1>7. p \o r \in Seq(S) /\ Len(p \o r) = Len(q) - 1
  BY <1>1, <1>4, <1>5
<1>8. ASSUME NEW k \in 1 .. Len(q) - 1
      PROVE  (p \o r)[k] = IF k < i THEN q[k] ELSE q[k + 1]
  <2>1. CASE k < i
    <3>1. k \in 1 .. i - 1
      BY <1>1, <2>1
    <3>2. (p \o r)[k] = p[k]
      BY <1>4, <1>5, <3>1
    <3> QED BY <1>4, <2>1, <3>1, <3>2
  <2>2. CASE ~(k < i)
    <3>1. k - (i - 1) \in 1 .. Len(q) - i
      BY <1>1, <2>2
    <3>2. (p \o r)[k] = r[k - (i - 1)]
      BY <1>1, <1>4, <1>5, <2>2, SMTT(30)
    <3>3. r[k - (i - 1)] = q[k - (i - 1) + i] /\ k - (i - 1) + i = k + 1
      BY <1>1, <1>5, <3>1
    <3> QED BY <2>2, <3>2, <3>3
  <2> QED BY <2>1, <2>2
<1> QED BY <1>6, <1>7, <1>8

(* The entry of the book of a grant that pays for a message.               *)
Paid(b, funds, c) ==
  c = [b EXCEPT !.calls = @ + 1, !.funds = [d \in Denom |-> @[d] + funds[d]]]

Grown(b, funds, c) ==
  /\ c.limit = b.limit /\ c.calls = b.calls + 1 /\ c.lapsed = b.lapsed
  /\ c.funds = [d \in Denom |-> b.funds[d] + funds[d]]

(* One more message on the books of a grant.                               *)
LEMMA EntryUpdate ==
  ASSUME NEW b \in Entries, NEW funds \in [Denom -> Nat],
         NEW c, Paid(b, funds, c)
  PROVE  c \in Entries /\ Grown(b, funds, c)
<1>1. PICK f : f = [d \in Denom |-> b.funds[d] + funds[d]]
  OBVIOUS
<1>2. f \in [Denom -> Nat]
  BY <1>1 DEF Entries
<1>3. b.limit \in Limits /\ b.calls + 1 \in Nat /\ b.lapsed \in BOOLEAN
  BY DEF Entries
<1>4. b = [limit |-> b.limit, calls |-> b.calls, funds |-> b.funds,
           lapsed |-> b.lapsed]
  BY DEF Entries
<1>5. c = [limit |-> b.limit, calls |-> b.calls + 1, funds |-> f,
           lapsed |-> b.lapsed]
  BY <1>1, <1>4 DEF Paid
<1>6. c \in Entries
  BY <1>2, <1>3, <1>5, Zenon DEF Entries
<1>7. c.limit = b.limit /\ c.calls = b.calls + 1 /\ c.funds = f
  BY <1>5, Zenon
<1>8. c.lapsed = b.lapsed
  BY <1>5, Zenon
<1> QED BY <1>1, <1>6, <1>7, <1>8 DEF Grown

(* A grant whose limit fits the book pays for a message: the book stays    *)
(* within the limit, and fits what is left.                                *)
LEMMA EntryPaid ==
  ASSUME NEW b \in Entries, NEW now \in Limits, Limit_ValidateBasic(now),
         Within(b), Matches(now, b),
         NEW funds \in [Denom -> Nat], NEW left, Left(now, funds, left),
         NEW c, Grown(b, funds, c)
  PROVE  /\ Within(c)
         /\ left = Nil => Used(c)
         /\ left # Nil => Matches(left, c)
<1>1. /\ c.limit = b.limit /\ c.calls = b.calls + 1 /\ c.lapsed = b.lapsed
      /\ c.funds = [d \in Denom |-> b.funds[d] + funds[d]]
  BY DEF Grown
<1>2. /\ b.limit \in Limits /\ b.calls \in Nat /\ b.funds \in [Denom -> Nat]
      /\ now.kind = b.limit.kind /\ ~b.lapsed
  BY DEF Entries, Matches
<1>3. (Counted(now) <=> Counted(b.limit)) /\ (Metered(now) <=> Metered(b.limit))
  BY <1>2 DEF Counted, Metered
<1>4. Counted(now) => /\ now.calls \in Nat /\ b.limit.calls \in Nat
                      /\ now.calls = b.limit.calls - b.calls /\ now.calls # 0
  BY <1>2 DEF Counted, Limits, Limit_ValidateBasic, Matches
<1>5. Metered(now) => /\ now.amounts \in [Denom -> Nat]
                      /\ b.limit.amounts \in [Denom -> Nat]
                      /\ now.amounts = Sub(b.limit.amounts, b.funds)
                      /\ IsAllLTE(b.funds, b.limit.amounts)
                      /\ IsAllLTE(funds, now.amounts)
  BY <1>2, <1>3 DEF Metered, Limits, Limit_ValidateBasic, Matches, Left, Within
<1>6. ~Metered(now) => c.funds = NoCoins
  <2> SUFFICES ASSUME ~Metered(now) PROVE c.funds = NoCoins
    OBVIOUS
  <2>1. b.funds = NoCoins /\ funds = NoCoins
    BY <1>3 DEF Within, Left
  <2> QED BY <1>1, <2>1 DEF NoCoins
<1>7. Metered(now) =>
        /\ IsAllLTE(c.funds, b.limit.amounts)
        /\ Sub(b.limit.amounts, c.funds) = Sub(now.amounts, funds)
        /\ funds = now.amounts => c.funds = b.limit.amounts
  <2> SUFFICES ASSUME Metered(now)
               PROVE  /\ IsAllLTE(c.funds, b.limit.amounts)
                      /\ Sub(b.limit.amounts, c.funds) = Sub(now.amounts, funds)
                      /\ funds = now.amounts => c.funds = b.limit.amounts
    OBVIOUS
  <2>1. \A d \in Denom :
          /\ now.amounts[d] = b.limit.amounts[d] - b.funds[d]
          /\ c.funds[d] = b.funds[d] + funds[d] /\ funds[d] <= now.amounts[d]
          /\ b.funds[d] \in Nat /\ funds[d] \in Nat /\ b.limit.amounts[d] \in Nat
    BY <1>1, <1>2, <1>5 DEF Sub, IsAllLTE
  <2>2. \A d \in Denom :
          /\ c.funds[d] <= b.limit.amounts[d]
          /\ b.limit.amounts[d] - c.funds[d] = now.amounts[d] - funds[d]
          /\ funds[d] = now.amounts[d] => c.funds[d] = b.limit.amounts[d]
    BY <2>1
  <2>3. funds = now.amounts => c.funds = b.limit.amounts
    BY <1>1, <1>5, <2>2
  <2>4. Sub(b.limit.amounts, c.funds) = Sub(now.amounts, funds)
    BY <2>2 DEF Sub
  <2> QED BY <2>2, <2>3, <2>4 DEF IsAllLTE
<1>8. Within(c)
  <2>1. ASSUME NEW n \in Nat, NEW m \in Nat, NEW k \in Nat, k = m - n, k # 0
        PROVE  n + 1 <= m
    BY <2>1
  <2>2. Counted(b.limit) => b.calls + 1 <= b.limit.calls
    BY <1>2, <1>3, <1>4, <2>1
  <2> QED BY <1>1, <1>3, <1>6, <1>7, <2>2 DEF Within
<1>9. left = Nil => Used(c)
  <2> SUFFICES ASSUME left = Nil PROVE Used(c)
    OBVIOUS
  <2>1. \/ Counted(now) /\ now.calls = 1
        \/ Metered(now) /\ funds = now.amounts
    BY GrantsAssumption DEF Left
  <2>2. CASE Counted(now) /\ now.calls = 1
    BY <1>1, <1>2, <1>3, <1>4, <2>2 DEF Used
  <2>3. CASE Metered(now) /\ funds = now.amounts
    BY <1>1, <1>3, <1>7, <2>3 DEF Used
  <2> QED BY <2>1, <2>2, <2>3
<1>10. left # Nil => Matches(left, c)
  <2> SUFFICES ASSUME left # Nil PROVE Matches(left, c)
    OBVIOUS
  <2>1. /\ left.kind = now.kind
        /\ Counted(now) => left.calls = now.calls - 1
        /\ Metered(now) => left.amounts = Sub(now.amounts, funds)
    BY DEF Left
  <2>2. (Counted(left) <=> Counted(now)) /\ (Metered(left) <=> Metered(now))
    BY <2>1 DEF Counted, Metered
  <2>3. Counted(now) => left.calls = b.limit.calls - (b.calls + 1)
    BY <1>2, <1>4, <2>1
  <2> QED BY <1>1, <1>2, <1>7, <2>1, <2>2, <2>3 DEF Matches
<1> QED BY <1>8, <1>9, <1>10

(* The grants once grant i has paid: the same ones without it when its     *)
(* limit is used up, and with what is left of its limit otherwise.  P is   *)
(* where they were.                                                        *)
Shifted(q, i, left, r, P) ==
  /\ P \in [DOMAIN r -> DOMAIN q]
  /\ \A k \in DOMAIN r : r[k].id = q[P[k]].id
  /\ \A k \in DOMAIN r : P[k] # i => r[k].limit = q[P[k]].limit
  /\ \A k \in DOMAIN r : P[k] = i => left # Nil /\ r[k].limit = left
  /\ \A k, l \in DOMAIN r : P[k] = P[l] => k = l
  /\ \A j \in DOMAIN q : (\E k \in DOMAIN r : P[k] = j) \/ (j = i /\ left = Nil)

(* What update and removal leave of the stored grants: each is one that    *)
(* was there, and at most the grant that was used is gone.                 *)
LEMMA UpdatedFacts ==
  ASSUME NEW q \in Seq(StoredGrants), NEW i \in DOMAIN q,
         NEW funds \in [Denom -> Nat],
         NEW left, Left(q[i].limit, funds, left),
         NEW r, r = UpdatedGrants(q, i, left)
  PROVE  /\ r \in Seq(StoredGrants) /\ Len(r) <= Len(q)
         /\ \E P : Shifted(q, i, left, r, P)
<1>1. CASE left = Nil
  <2>1. r = RemoveGrant(q, i)
    BY <1>1 DEF UpdatedGrants
  <2>2. /\ r \in Seq(StoredGrants) /\ Len(r) = Len(q) - 1
        /\ \A k \in 1 .. Len(q) - 1 : r[k] = IF k < i THEN q[k] ELSE q[k + 1]
    BY <2>1, RemoveFacts
  <2>3. PICK n \in Nat : n = Len(q) /\ DOMAIN q = 1 .. n
    OBVIOUS
  <2>4. DOMAIN r = 1 .. n - 1 /\ i \in 1 .. n
    BY <2>2, <2>3
  <2>5. PICK P : P = [k \in 1 .. n - 1 |-> IF k < i THEN k ELSE k + 1]
    OBVIOUS
  <2>6. P \in [1 .. n - 1 -> 1 .. n]
    BY <2>4, <2>5
  <2>7. \A k \in 1 .. n - 1 : r[k] = q[P[k]] /\ P[k] # i
    BY <2>2, <2>3, <2>4, <2>5
  <2>8. \A k, l \in 1 .. n - 1 : P[k] = P[l] => k = l
    BY <2>4, <2>5
  <2>9. ASSUME NEW j \in 1 .. n, j # i
        PROVE  \E k \in 1 .. n - 1 : P[k] = j
    <3>1. CASE j < i
      <4>1. j \in 1 .. n - 1 /\ P[j] = j
        BY <2>4, <2>5, <3>1
      <4> QED BY <4>1
    <3>2. CASE j > i
      <4>1. j - 1 \in 1 .. n - 1 /\ P[j - 1] = j
        BY <2>4, <2>5, <3>2
      <4> QED BY <4>1
    <3> QED BY <2>4, <2>9, <3>1, <3>2
  <2>10. Len(r) <= Len(q)
    BY <2>2
  <2>11. /\ P \in [DOMAIN r -> DOMAIN q]
         /\ \A k \in DOMAIN r : /\ P[k] # i /\ r[k].id = q[P[k]].id
                                 /\ r[k].limit = q[P[k]].limit
         /\ \A k, l \in DOMAIN r : P[k] = P[l] => k = l
         /\ \A j \in DOMAIN q : (\E k \in DOMAIN r : P[k] = j) \/ j = i
    BY <2>3, <2>4, <2>6, <2>7, <2>8, <2>9
  <2>12. Shifted(q, i, left, r, P)
    BY <1>1, <2>11 DEF Shifted
  <2> QED BY <2>2, <2>10, <2>12
<1>2. CASE left # Nil
  <2>1. r = [q EXCEPT ![i].limit = left]
    BY <1>2 DEF UpdatedGrants
  <2>2. q[i] \in StoredGrants /\ left \in Limits /\ Limit_ValidateBasic(left)
    BY <1>2 DEF Left
  <2>3. PICK g : g = [q[i] EXCEPT !.limit = left]
    OBVIOUS
  <2>4. /\ g \in [id : Nat, contract : Contract, limit : Limits, filter : Filters]
        /\ g.id = q[i].id /\ g.limit = left /\ g.filter = q[i].filter
    BY <2>2, <2>3 DEF StoredGrants
  <2>5. g \in StoredGrants
    BY <2>2, <2>4 DEF StoredGrants, ContractGrant_ValidateBasic
  <2>6. r = [q EXCEPT ![i] = g]
    BY <2>1, <2>3
  <2>7. /\ r \in Seq(StoredGrants) /\ Len(r) = Len(q) /\ DOMAIN r = DOMAIN q
        /\ r[i] = g /\ \A k \in DOMAIN q : k # i => r[k] = q[k]
    BY <2>5, <2>6
  <2>8. PICK P : P = [k \in DOMAIN q |-> k]
    OBVIOUS
  <2>9. P \in [DOMAIN r -> DOMAIN q] /\ \A k \in DOMAIN r : P[k] = k
    BY <2>7, <2>8
  <2>10. Len(r) <= Len(q)
    BY <2>7
  <2>11. \A k \in DOMAIN r : /\ r[k].id = q[P[k]].id
                             /\ P[k] # i => r[k].limit = q[P[k]].limit
                             /\ P[k] = i => left # Nil /\ r[k].limit = left
    BY <1>2, <2>4, <2>7, <2>9
  <2>12. \A j \in DOMAIN q : \E k \in DOMAIN r : P[k] = j
    BY <2>7, <2>9
  <2>13. Shifted(q, i, left, r, P)
    BY <2>7, <2>9, <2>11, <2>12 DEF Shifted
  <2> QED BY <2>7, <2>10, <2>13
<1> QED BY <1>1, <1>2

(* What a message that grant i pays for does to the grants and the book.   *)
Pays(az, bk, t, i, funds, left, az2, bk2) ==
  /\ Left(az[t][i].limit, funds, left)
  /\ az2 = [az EXCEPT ![t] = UpdatedGrants(az[t], i, left)]
  /\ \E c : /\ Paid(bk[az[t][i].id], funds, c)
             /\ bk2 = [bk EXCEPT ![az[t][i].id] = c]

(* A message that a grant pays for keeps the grants and the book in step.  *)
LEMMA PaidBudget ==
  ASSUME NEW az \in [MsgTypes -> Seq(StoredGrants)], NEW bk \in Seq(Entries),
         Budget(az, bk),
         NEW t \in MsgTypes, NEW i \in DOMAIN az[t],
         NEW funds \in [Denom -> Nat], NEW left, NEW az2, NEW bk2,
         Pays(az, bk, t, i, funds, left, az2, bk2)
  PROVE  /\ az2 \in [MsgTypes -> Seq(StoredGrants)] /\ bk2 \in Seq(Entries)
         /\ Budget(az2, bk2)
<1>1. PICK id : id = az[t][i].id
  OBVIOUS
<1>2. PICK r : r = UpdatedGrants(az[t], i, left)
  OBVIOUS
<1>3. /\ az[t] \in Seq(StoredGrants) /\ az[t][i] \in StoredGrants
      /\ Left(az[t][i].limit, funds, left) /\ az2 = [az EXCEPT ![t] = r]
  BY <1>2 DEF Pays
<1>4. PICK P : Shifted(az[t], i, left, r, P)
  BY <1>2, <1>3, UpdatedFacts
<1>5. r \in Seq(StoredGrants) /\ Len(r) <= Len(az[t])
  BY <1>2, <1>3, UpdatedFacts
<1>6. /\ az2 \in [MsgTypes -> Seq(StoredGrants)] /\ az2[t] = r
      /\ \A u \in MsgTypes : u # t => az2[u] = az[u]
  BY <1>3, <1>5
<1>7. /\ id \in DOMAIN bk /\ bk[id] \in Entries
      /\ Matches(az[t][i].limit, bk[id]) /\ Within(bk[id])
  BY <1>1 DEF Budget, Booked, Accounted
<1>8. az[t][i].limit \in Limits /\ Limit_ValidateBasic(az[t][i].limit)
  BY <1>3 DEF StoredGrants, ContractGrant_ValidateBasic
<1>9. PICK c : /\ c \in Entries /\ bk2 = [bk EXCEPT ![id] = c]
               /\ Grown(bk[id], funds, c)
  <2>1. PICK c : Paid(bk[id], funds, c) /\ bk2 = [bk EXCEPT ![id] = c]
    BY <1>1 DEF Pays
  <2> QED BY <1>7, <2>1, EntryUpdate
<1>10. Within(c) /\ (left = Nil => Used(c)) /\ (left # Nil => Matches(left, c))
  BY <1>3, <1>7, <1>8, <1>9, EntryPaid
<1>11. /\ bk2 \in Seq(Entries) /\ DOMAIN bk2 = DOMAIN bk /\ bk2[id] = c
       /\ \A x \in DOMAIN bk : x # id => bk2[x] = bk[x]
  BY <1>7, <1>9
<1>12. Few(az2)
  <2>1. \A u \in MsgTypes : Len(az[u]) \in Nat /\ Len(az[u]) <= MaxGrants
    BY DEF Budget, Few
  <2>2. Len(r) \in Nat
    BY <1>5
  <2>3. Len(r) <= MaxGrants
    BY <1>5, <2>1, <2>2, GrantsAssumption
  <2> QED BY <1>6, <2>1, <2>3 DEF Few
<1>13. Booked(az2, bk2)
  <2> SUFFICES ASSUME NEW u \in MsgTypes, NEW k \in DOMAIN az2[u]
               PROVE  /\ az2[u][k].id \in DOMAIN bk2
                      /\ Matches(az2[u][k].limit, bk2[az2[u][k].id])
    BY DEF Booked
  <2>1. CASE u # t
    <3>1. /\ az[u][k].id \in DOMAIN bk /\ az[u][k].id # id
          /\ Matches(az[u][k].limit, bk[az[u][k].id])
      BY <1>1, <1>6, <2>1 DEF Budget, Booked, Single
    <3> QED BY <1>6, <1>11, <2>1, <3>1
  <2>2. CASE u = t /\ P[k] = i
    BY <1>1, <1>4, <1>6, <1>7, <1>10, <1>11, <2>2 DEF Shifted
  <2>3. CASE u = t /\ P[k] # i
    <3>1. P[k] \in DOMAIN az[t] /\ r[k].id = az[t][P[k]].id
          /\ r[k].limit = az[t][P[k]].limit
      BY <1>4, <1>6, <2>3 DEF Shifted
    <3>2. az[t][P[k]].id # id
      BY <1>1, <2>3, <3>1 DEF Budget, Single
    <3>3. /\ az[t][P[k]].id \in DOMAIN bk
          /\ Matches(az[t][P[k]].limit, bk[az[t][P[k]].id])
      BY <3>1 DEF Budget, Booked
    <3> QED BY <1>6, <1>11, <2>3, <3>1, <3>2, <3>3
  <2> QED BY <2>1, <2>2, <2>3
<1>14. Single(az2)
  <2> SUFFICES ASSUME NEW u \in MsgTypes, NEW v \in MsgTypes,
                      NEW j \in DOMAIN az2[u], NEW k \in DOMAIN az2[v],
                      az2[u][j].id = az2[v][k].id
               PROVE  u = v /\ j = k
    BY DEF Single
  <2>1. PICK x \in DOMAIN az[u] : /\ az[u][x].id = az2[u][j].id
                                  /\ u # t => x = j
                                  /\ u = t => x = P[j]
    <3>1. CASE u = t
      BY <1>4, <1>6, <3>1 DEF Shifted
    <3>2. CASE u # t
      BY <1>6, <3>2
    <3> QED BY <3>1, <3>2
  <2>2. PICK y \in DOMAIN az[v] : /\ az[v][y].id = az2[v][k].id
                                  /\ v # t => y = k
                                  /\ v = t => y = P[k]
    <3>1. CASE v = t
      BY <1>4, <1>6, <3>1 DEF Shifted
    <3>2. CASE v # t
      BY <1>6, <3>2
    <3> QED BY <3>1, <3>2
  <2>3. u = v /\ x = y
    BY <2>1, <2>2 DEF Budget, Single
  <2> QED BY <1>4, <1>6, <2>1, <2>2, <2>3 DEF Shifted
<1>15. Accounted(az2, bk2)
  <2> SUFFICES ASSUME NEW x \in DOMAIN bk
               PROVE  /\ Within(bk2[x])
                      /\ Used(bk2[x]) \/ bk2[x].lapsed \/ Kept(az2, x)
    BY <1>11 DEF Accounted
  <2>1. CASE x = id /\ left = Nil
    BY <1>10, <1>11, <2>1
  <2>2. CASE x = id /\ left # Nil
    <3>1. PICK k \in DOMAIN r : P[k] = i
      BY <1>1, <1>4, <2>2 DEF Shifted
    <3>2. Kept(az2, x)
      BY <1>1, <1>4, <1>6, <2>2, <3>1 DEF Kept, Shifted
    <3> QED BY <1>10, <1>11, <2>2, <3>2
  <2>3. CASE x # id
    <3>1. bk2[x] = bk[x] /\ Within(bk[x])
      BY <1>11, <2>3 DEF Budget, Accounted
    <3>2. Kept(az, x) => Kept(az2, x)
      <4> SUFFICES ASSUME NEW u \in MsgTypes, NEW j \in DOMAIN az[u], az[u][j].id = x
                   PROVE  Kept(az2, x)
        BY DEF Kept
      <4>1. CASE u # t
        BY <1>6, <4>1 DEF Kept
      <4>2. CASE u = t
        <5>1. j # i
          BY <1>1, <2>3, <4>2
        <5>2. PICK k \in DOMAIN r : P[k] = j
          BY <1>4, <4>2, <5>1 DEF Shifted
        <5> QED BY <1>4, <1>6, <4>2, <5>2 DEF Kept, Shifted
      <4> QED BY <4>1, <4>2
    <3>3. Used(bk[x]) \/ bk[x].lapsed \/ Kept(az, x)
      BY DEF Budget, Accounted
    <3> QED BY <3>1, <3>2, <3>3
  <2> QED BY <2>1, <2>2, <2>3
<1> QED BY <1>6, <1>11, <1>12, <1>13, <1>14, <1>15 DEF Budget

(* The grants of a message type are replaced by q; bk2 is the book then.   *)
Replaces(az, bk, t, q, az2, bk2) ==
  /\ az2 = [az EXCEPT ![t] = q]
  /\ Len(bk2) = Len(bk) + Len(q)
  /\ \A x \in DOMAIN bk :
       bk2[x] = IF x \in Ids(az[t]) THEN [bk[x] EXCEPT !.lapsed = TRUE] ELSE bk[x]
  /\ \A i \in DOMAIN q :
       /\ q[i].id = Len(bk) + i
       /\ Within(bk2[Len(bk) + i]) /\ Matches(q[i].limit, bk2[Len(bk) + i])

(* Grants that are replaced lapse, and new ones have a budget of their own. *)
LEMMA ReplacedBudget ==
  ASSUME NEW az \in [MsgTypes -> Seq(StoredGrants)], NEW bk \in Seq(Entries),
         Budget(az, bk),
         NEW t \in MsgTypes, NEW q \in Seq(StoredGrants), Len(q) <= MaxGrants,
         NEW az2, NEW bk2 \in Seq(Entries), Replaces(az, bk, t, q, az2, bk2)
  PROVE  /\ az2 \in [MsgTypes -> Seq(StoredGrants)]
         /\ Budget(az2, bk2)
<1>1. PICK n \in Nat : n = Len(bk) /\ DOMAIN bk = 1 .. n
  OBVIOUS
<1>2. PICK m \in Nat : m = Len(q) /\ DOMAIN q = 1 .. m
  OBVIOUS
<1>3. DOMAIN bk2 = 1 .. n + m
  <2>1. Len(bk2) = n + m
    BY <1>1, <1>2 DEF Replaces
  <2> QED BY <2>1
<1>4. /\ az2 \in [MsgTypes -> Seq(StoredGrants)] /\ az2[t] = q
      /\ \A u \in MsgTypes : u # t => az2[u] = az[u]
  BY DEF Replaces
<1>5. Few(az2)
  BY <1>4 DEF Budget, Few
<1>6. ASSUME NEW u \in MsgTypes, u # t, NEW i \in DOMAIN az[u]
      PROVE  az[u][i].id \in 1 .. n /\ az[u][i].id \notin Ids(az[t])
  BY <1>1, <1>6 DEF Budget, Booked, Single, Ids
<1>7. \A i \in 1 .. m : /\ q[i].id = n + i /\ Within(bk2[n + i])
                        /\ Matches(q[i].limit, bk2[n + i])
  BY <1>1, <1>2 DEF Replaces
<1>8. Booked(az2, bk2)
  <2> SUFFICES ASSUME NEW u \in MsgTypes, NEW k \in DOMAIN az2[u]
               PROVE  /\ az2[u][k].id \in DOMAIN bk2
                      /\ Matches(az2[u][k].limit, bk2[az2[u][k].id])
    BY DEF Booked
  <2>1. CASE u # t
    <3>1. az2[u] = az[u] /\ az[u][k].id \in 1 .. n /\ az[u][k].id \notin Ids(az[t])
      BY <1>4, <1>6, <2>1
    <3>2. bk2[az[u][k].id] = bk[az[u][k].id]
      BY <1>1, <3>1 DEF Replaces
    <3>3. Matches(az[u][k].limit, bk[az[u][k].id])
      BY <3>1 DEF Budget, Booked
    <3>4. az[u][k].id \in 1 .. n + m
      BY <3>1
    <3> QED BY <1>3, <3>1, <3>2, <3>3, <3>4
  <2>2. CASE u = t
    <3>1. k \in 1 .. m /\ az2[u][k] = q[k]
      BY <1>2, <1>4, <2>2
    <3>2. n + k \in 1 .. n + m
      BY <3>1
    <3> QED BY <1>3, <1>7, <3>1, <3>2
  <2> QED BY <2>1, <2>2
<1>9. Single(az2)
  <2> SUFFICES ASSUME NEW u \in MsgTypes, NEW v \in MsgTypes,
                      NEW j \in DOMAIN az2[u], NEW k \in DOMAIN az2[v],
                      az2[u][j].id = az2[v][k].id
               PROVE  u = v /\ j = k
    BY DEF Single
  <2>1. CASE u # t /\ v # t
    BY <1>4, <2>1 DEF Budget, Single
  <2>2. CASE u = t /\ v = t
    BY <1>2, <1>4, <1>7, <2>2
  <2>3. CASE u = t /\ v # t
    <3>1. az2[u][j].id = n + j /\ j \in 1 .. m
      BY <1>2, <1>4, <1>7, <2>3
    <3>2. az2[v][k].id \in 1 .. n
      BY <1>4, <1>6, <2>3
    <3> QED BY <3>1, <3>2
  <2>4. CASE u # t /\ v = t
    <3>1. az2[v][k].id = n + k /\ k \in 1 .. m
      BY <1>2, <1>4, <1>7, <2>4
    <3>2. az2[u][j].id \in 1 .. n
      BY <1>4, <1>6, <2>4
    <3> QED BY <3>1, <3>2
  <2> QED BY <2>1, <2>2, <2>3, <2>4
<1>10. Accounted(az2, bk2)
  <2> SUFFICES ASSUME NEW x \in 1 .. n + m
               PROVE  /\ Within(bk2[x])
                      /\ Used(bk2[x]) \/ bk2[x].lapsed \/ Kept(az2, x)
    BY <1>3 DEF Accounted
  <2>1. CASE x \in 1 .. n
    <3>1. Within(bk[x]) /\ (Used(bk[x]) \/ bk[x].lapsed \/ Kept(az, x))
      BY <1>1, <2>1 DEF Budget, Accounted
    <3>2. bk[x] \in Entries
      BY <1>1, <2>1
    <3>3. CASE x \in Ids(az[t])
      <4>1. bk2[x] = [bk[x] EXCEPT !.lapsed = TRUE]
        BY <1>1, <2>1, <3>3 DEF Replaces
      <4>2. /\ bk2[x].lapsed /\ bk2[x].limit = bk[x].limit
            /\ bk2[x].calls = bk[x].calls /\ bk2[x].funds = bk[x].funds
        BY <3>2, <4>1 DEF Entries
      <4> QED BY <3>1, <4>2 DEF Within
    <3>4. CASE x \notin Ids(az[t])
      <4>1. bk2[x] = bk[x]
        BY <1>1, <2>1, <3>4 DEF Replaces
      <4>2. Kept(az, x) => Kept(az2, x)
        BY <1>4, <3>4 DEF Kept, Ids
      <4> QED BY <3>1, <4>1, <4>2
    <3> QED BY <3>3, <3>4
  <2>2. CASE x \notin 1 .. n
    <3>1. x - n \in 1 .. m /\ n + (x - n) = x
      BY <2>2
    <3>2. Within(bk2[x]) /\ q[x - n].id = x
      BY <1>7, <3>1
    <3>3. Kept(az2, x)
      BY <1>2, <1>4, <3>1, <3>2 DEF Kept
    <3> QED BY <3>2, <3>3
  <2> QED BY <2>1, <2>2
<1> QED BY <1>4, <1>5, <1>8, <1>9, <1>10 DEF Budget

-----------------------------------------------------------------------------
(* The steps.                                                              *)

(* The book after the grants of a message type lapse.                      *)
LEMMA LapsedFacts ==
  ASSUME book \in Seq(Entries), NEW ids
  PROVE  /\ Lapsed(ids) \in Seq(Entries) /\ Len(Lapsed(ids)) = Len(book)
         /\ \A x \in DOMAIN book :
              Lapsed(ids)[x] = IF x \in ids THEN [book[x] EXCEPT !.lapsed = TRUE]
                                            ELSE book[x]
<1>1. PICK n \in Nat : n = Len(book) /\ DOMAIN book = 1 .. n
  OBVIOUS
<1>2. ASSUME NEW x \in 1 .. n
      PROVE  book[x] \in Entries /\ [book[x] EXCEPT !.lapsed = TRUE] \in Entries
  <2>1. PICK b : b = book[x]
    OBVIOUS
  <2>2. b \in Entries
    BY <1>1, <2>1
  <2>3. [b EXCEPT !.lapsed = TRUE] \in Entries
    BY <2>2 DEF Entries
  <2> QED BY <2>1, <2>2, <2>3
<1>3. \A x \in 1 .. n :
        (IF x \in ids THEN [book[x] EXCEPT !.lapsed = TRUE] ELSE book[x]) \in Entries
  BY <1>2
<1>4. Lapsed(ids) \in [1 .. n -> Entries]
  BY <1>1, <1>3 DEF Lapsed
<1>5. Lapsed(ids) \in Seq(Entries)
  BY <1>4, SeqDef
<1>6. Len(Lapsed(ids)) = n
  BY <1>4, <1>5
<1> QED BY <1>1, <1>5, <1>6 DEF Lapsed

(* A step that leaves the codes and the stack alone.                       *)
StoreOK(az, bk) ==
  /\ az \in [MsgTypes -> Seq(StoredGrants)] /\ bk \in Seq(Entries)
  /\ Budget(az, bk)

(* A new grant starts with its whole budget, and replaces the stored ones. *)
LEMMA GrantStep ==
  ASSUME GrantsInv, NEW type \in MsgTypes, NEW offer \in Offers,
         Grant(type, offer)
  PROVE  StoreOK(authz', book') /\ given' \in Nat
<1>1. PICK n \in Nat : n = Len(book) /\ DOMAIN book = 1 .. n
  BY DEF GrantsInv, TypeOK
<1>2. Cardinality(DOMAIN book) = n
  <2>1. Cardinality(1 .. n) = IF 1 > n THEN 0 ELSE n - 1 + 1
    BY FS_Interval
  <2> QED BY <1>1, <2>1
<1>3. offer \in Seq([contract : Contract, limit : Limits, filter : Filters])
  BY GrantsAssumption
<1>4. PICK m \in Nat : m = Len(offer) /\ DOMAIN offer = 1 .. m
  BY <1>3
<1>5. given' \in Nat /\ m <= MaxGrants
  BY <1>4, GrantsAssumption DEF Grant, GrantsInv, TypeOK
<1>6. PICK q : q = [i \in 1 .. m |->
                     [id |-> n + i, contract |-> offer[i].contract,
                      limit |-> offer[i].limit, filter |-> offer[i].filter]]
  OBVIOUS
<1>7. PICK lapsed : lapsed = Lapsed(Ids(authz[type]))
  OBVIOUS
<1>8. /\ authz' = [authz EXCEPT ![type] = q] /\ validateGrants(offer)
      /\ book' = [id \in 1 .. n + m |->
                    IF id <= n THEN lapsed[id]
                    ELSE [limit |-> offer[id - n].limit, calls |-> 0,
                          funds |-> NoCoins, lapsed |-> FALSE]]
  BY <1>2, <1>4, <1>6, <1>7 DEF Grant
<1>9. /\ lapsed \in Seq(Entries) /\ Len(lapsed) = n
      /\ \A x \in 1 .. n :
           lapsed[x] = IF x \in Ids(authz[type])
                       THEN [book[x] EXCEPT !.lapsed = TRUE] ELSE book[x]
  BY <1>1, <1>7, LapsedFacts DEF GrantsInv, TypeOK
<1>10. ASSUME NEW i \in 1 .. m
       PROVE  /\ offer[i] \in [contract : Contract, limit : Limits, filter : Filters]
              /\ ContractGrant_ValidateBasic(offer[i])
  <2>1. \A j \in DOMAIN offer : ContractGrant_ValidateBasic(offer[j])
    BY <1>8, Zenon DEF validateGrants
  <2>2. offer[i] \in [contract : Contract, limit : Limits, filter : Filters]
    <3>1. i \in 1 .. Len(offer)
      BY <1>4
    <3> QED BY <1>3, <3>1, ElementOfSeq, Zenon
  <2> QED BY <1>4, <2>1, <2>2
<1>11. ASSUME NEW i \in 1 .. m
       PROVE  q[i] \in StoredGrants /\ q[i].id = n + i /\ q[i].limit = offer[i].limit
  <2>1. q[i] = [id |-> n + i, contract |-> offer[i].contract,
                limit |-> offer[i].limit, filter |-> offer[i].filter]
    BY <1>6
  <2>2. /\ q[i] \in [id : Nat, contract : Contract, limit : Limits, filter : Filters]
        /\ q[i].limit = offer[i].limit /\ q[i].filter = offer[i].filter
    BY <1>10, <2>1
  <2>3. ContractGrant_ValidateBasic(q[i])
    BY <1>10, <2>2 DEF ContractGrant_ValidateBasic
  <2> QED BY <2>1, <2>2, <2>3 DEF StoredGrants
<1>12. q \in Seq(StoredGrants) /\ Len(q) = m /\ DOMAIN q = 1 .. m
  <2>1. q \in [1 .. m -> StoredGrants]
    BY <1>6, <1>11
  <2>2. q \in Seq(StoredGrants)
    BY <2>1, SeqDef
  <2> QED BY <2>1, <2>2
<1>13. ASSUME NEW i \in 1 .. m
       PROVE  /\ book'[n + i] = [limit |-> offer[i].limit, calls |-> 0,
                                 funds |-> NoCoins, lapsed |-> FALSE]
              /\ book'[n + i] \in Entries
  <2>1. n + i \in 1 .. n + m /\ ~(n + i <= n) /\ (n + i) - n = i
    OBVIOUS
  <2>2. book'[n + i] = [limit |-> offer[i].limit, calls |-> 0,
                        funds |-> NoCoins, lapsed |-> FALSE]
    BY <1>8, <2>1
  <2>3. offer[i].limit \in Limits /\ NoCoins \in [Denom -> Nat]
    BY <1>10 DEF NoCoins
  <2>4. [limit |-> offer[i].limit, calls |-> 0,
         funds |-> NoCoins, lapsed |-> FALSE] \in Entries
    BY <2>3 DEF Entries
  <2> QED BY <2>2, <2>4
<1>14. ASSUME NEW x \in 1 .. n
       PROVE  book'[x] = lapsed[x] /\ book'[x] \in Entries
  BY <1>8, <1>9
<1>15. book' \in Seq(Entries) /\ Len(book') = n + m
  <2>1. ASSUME NEW x \in 1 .. n + m
        PROVE  book'[x] \in Entries
    <3>1. CASE x <= n
      BY <1>14, <3>1
    <3>2. CASE ~(x <= n)
      <4>1. x - n \in 1 .. m /\ n + (x - n) = x
        BY <3>2
      <4> QED BY <1>13, <4>1
    <3> QED BY <3>1, <3>2
  <2>2. book' \in [1 .. n + m -> Entries]
    BY <1>8, <2>1
  <2>3. book' \in Seq(Entries)
    BY <2>2, SeqDef
  <2> QED BY <2>2, <2>3
<1>16. ASSUME NEW i \in 1 .. m
       PROVE  Within(book'[n + i]) /\ Matches(q[i].limit, book'[n + i])
  <2>1. PICK l : l = offer[i].limit
    OBVIOUS
  <2>2. PICK b : b = [limit |-> l, calls |-> 0, funds |-> NoCoins, lapsed |-> FALSE]
    OBVIOUS
  <2>3. b.limit = l /\ b.calls = 0 /\ b.funds = NoCoins
    BY <2>2, Zenon
  <2>4. ~b.lapsed
    BY <2>2
  <2>5. l \in Limits /\ q[i].limit = l
    BY <1>10, <1>11, <2>1
  <2>6. Counted(l) => l.calls \in Nat
    BY <2>5 DEF Counted, Limits
  <2>7. Metered(l) => l.amounts \in [Denom -> Nat]
    BY <2>5 DEF Metered, Limits
  <2>8. Metered(l) => IsAllLTE(NoCoins, l.amounts) /\ Sub(l.amounts, NoCoins) = l.amounts
    BY <2>7 DEF IsAllLTE, Sub, NoCoins
  <2>9. Within(b)
    BY <2>3, <2>6, <2>8 DEF Within
  <2>10. Counted(l) => l.calls = l.calls - 0
    BY <2>6
  <2>11. Matches(l, b)
    BY <2>3, <2>4, <2>8, <2>10 DEF Matches
  <2>12. book'[n + i] = b
    BY <1>13, <2>1, <2>2
  <2> QED BY <2>5, <2>9, <2>11, <2>12
<1>17. Replaces(authz, book, type, q, authz', book')
  BY <1>1, <1>8, <1>9, <1>11, <1>12, <1>14, <1>15, <1>16 DEF Replaces
<1> QED BY <1>5, <1>12, <1>15, <1>17, ReplacedBudget
        DEF GrantsInv, TypeOK, StoreOK

(* MsgRevoke: the grants of the type lapse.                                *)
LEMMA RevokeStep ==
  ASSUME GrantsInv, NEW type \in MsgTypes, Revoke(type)
  PROVE  StoreOK(authz', book')
<1>1. authz' = [authz EXCEPT ![type] = <<>>] /\ book' = Lapsed(Ids(authz[type]))
  BY DEF Revoke
<1>2. /\ book' \in Seq(Entries) /\ Len(book') = Len(book)
      /\ \A x \in DOMAIN book :
           book'[x] = IF x \in Ids(authz[type])
                      THEN [book[x] EXCEPT !.lapsed = TRUE] ELSE book[x]
  BY <1>1, LapsedFacts DEF GrantsInv, TypeOK
<1>3. PICK q : q = <<>>
  OBVIOUS
<1>4. q \in Seq(StoredGrants) /\ Len(q) = 0 /\ DOMAIN q = {}
  BY <1>3
<1>5. Len(book') = Len(book) + Len(q) /\ Len(q) <= MaxGrants
  BY <1>2, <1>4, GrantsAssumption DEF GrantsInv, TypeOK
<1>6. Replaces(authz, book, type, q, authz', book')
  BY <1>1, <1>2, <1>3, <1>4, <1>5 DEF Replaces
<1> QED BY <1>2, <1>4, <1>5, <1>6, ReplacedBudget DEF GrantsInv, TypeOK, StoreOK

(* DispatchActions with Accept: the grant that is used up is removed, one  *)
(* that is used in part is stored with what is left.                       *)
LEMMA PerformStep ==
  ASSUME GrantsInv, NEW type \in MsgTypes, NEW msg \in Messages,
         NEW i \in DOMAIN authz[type], Perform(type, msg, i)
  PROVE  StoreOK(authz', book')
<1>1. PICK g : g = authz[type][i]
  OBVIOUS
<1>2. PICK r : r = Verdict(g, msg)
  OBVIOUS
<1>3. g \in StoredGrants /\ msg.funds \in [Denom -> Nat]
  BY <1>1, GrantsAssumption DEF GrantsInv, TypeOK, Messages
<1>4. r.verdict = "accept"
  BY <1>1, <1>2 DEF Perform, AcceptGrantedMessage
<1>5. Left(g.limit, msg.funds, r.left)
  BY <1>2, <1>3, <1>4, VerdictOK
<1>6. authz' = [authz EXCEPT ![type] = UpdatedGrants(authz[type], i, r.left)]
  BY <1>1, <1>2 DEF Perform
<1>7. g.id \in DOMAIN book /\ book[g.id] \in Entries
  BY <1>1 DEF GrantsInv, TypeOK, Budget, Booked
<1>8. PICK c : Paid(book[g.id], msg.funds, c)
  BY DEF Paid
<1>9. book' = [book EXCEPT ![g.id] = c]
  <2>1. book' = [book EXCEPT ![g.id].calls = @ + 1,
                             ![g.id].funds = [d \in Denom |->
                                                @[d] + msg.funds[d]]]
    BY <1>1 DEF Perform
  <2> QED BY <1>7, <1>8, <2>1 DEF Paid, Entries, GrantsInv, TypeOK
<1>10. Pays(authz, book, type, i, msg.funds, r.left, authz', book')
  BY <1>1, <1>5, <1>6, <1>8, <1>9 DEF Pays
<1> QED BY <1>3, <1>10, PaidBudget DEF GrantsInv, TypeOK, StoreOK

(* The invariant holds before any grant.                                   *)
LEMMA GrantsInit == Init => GrantsInv
<1> SUFFICES ASSUME Init PROVE GrantsInv
  OBVIOUS
<1>1. authz = [t \in MsgTypes |-> <<>>] /\ book = <<>> /\ codes = {} /\ stack = <<>>
      /\ codeAuthz = <<>> /\ given = 0
  BY DEF Init
<1>2. TypeOK
  BY <1>1 DEF TypeOK
<1>3. \A t \in MsgTypes : Len(authz[t]) = 0 /\ DOMAIN authz[t] = {}
  BY <1>1
<1>4. DOMAIN book = {} /\ DOMAIN stack = {}
  BY <1>1
<1>5. Few(authz)
  BY <1>3, GrantsAssumption DEF Few
<1>6. Booked(authz, book) /\ Single(authz)
  BY <1>3 DEF Booked, Single
<1>7. Accounted(authz, book)
  BY <1>4 DEF Accounted
<1> QED BY <1>1, <1>2, <1>4, <1>5, <1>6, <1>7 DEF GrantsInv, Budget, AsGranted

(* A step between MsgExecs, or one that changes no state to fall back to.  *)
LEMMA StackKept ==
  ASSUME GrantsInv, StoreOK(authz', book'), AsGranted(codes'),
         codes' \in SUBSET Uploads, codeAuthz' \in Seq(CodeGrants), given' \in Nat,
         stack' \in Seq(Frames), Len(stack') = Len(stack),
         \A i \in DOMAIN stack : /\ stack'[i].authz = stack[i].authz
                                 /\ stack'[i].book = stack[i].book
                                 /\ stack'[i].codes = stack[i].codes
  PROVE  GrantsInv'
<1>1. stack \in Seq(Frames)
  BY DEF GrantsInv, TypeOK
<1>2. DOMAIN stack' = DOMAIN stack
  BY <1>1
<1>3. \A i \in DOMAIN stack' :
        Budget(stack'[i].authz, stack'[i].book) /\ AsGranted(stack'[i].codes)
  BY <1>2 DEF GrantsInv
<1> QED BY <1>3 DEF GrantsInv, TypeOK, StoreOK

(* NextMessage leaves the states to fall back to alone.                    *)
LEMMA NextMessageFacts ==
  ASSUME GrantsInv, NextMessage
  PROVE  /\ stack' \in Seq(Frames) /\ Len(stack') = Len(stack)
         /\ \A i \in DOMAIN stack : /\ stack'[i].authz = stack[i].authz
                                    /\ stack'[i].book = stack[i].book
                                    /\ stack'[i].codes = stack[i].codes
<1>1. stack \in Seq(Frames) /\ stack # <<>>
  BY DEF GrantsInv, TypeOK, NextMessage
<1>2. PICK n \in Nat : n = Len(stack) /\ DOMAIN stack = 1 .. n /\ n \in 1 .. n
  BY <1>1
<1>3. PICK f : f = stack[n]
  OBVIOUS
<1>4. f \in Frames /\ f.rest > 0
  BY <1>1, <1>2, <1>3 DEF NextMessage
<1>5. PICK g : g = [f EXCEPT !.rest = @ - 1, !.running = TRUE]
  OBVIOUS
<1>6. g \in Frames /\ g.authz = f.authz /\ g.book = f.book /\ g.codes = f.codes
  <2>1. f.rest - 1 \in Nat
    BY <1>4 DEF Frames
  <2>2. f = [authz |-> f.authz, codeAuthz |-> f.codeAuthz, codes |-> f.codes,
             book |-> f.book, rest |-> f.rest, running |-> f.running]
    BY <1>4 DEF Frames
  <2>3. g = [authz |-> f.authz, codeAuthz |-> f.codeAuthz, codes |-> f.codes,
             book |-> f.book, rest |-> f.rest - 1, running |-> TRUE]
    BY <1>5, <2>2
  <2>4. g \in Frames
    BY <1>4, <2>1, <2>3 DEF Frames
  <2>5. g.authz = f.authz /\ g.book = f.book /\ g.codes = f.codes
    BY <2>3
  <2> QED BY <2>4, <2>5
<1>7. stack' = [stack EXCEPT ![n] = g]
  <2>1. stack' = [stack EXCEPT ![n].rest = @ - 1, ![n].running = TRUE]
    BY <1>2 DEF NextMessage
  <2> QED BY <1>1, <1>2, <1>3, <1>5, <2>1
<1>8. stack' \in Seq(Frames) /\ Len(stack') = Len(stack)
  BY <1>1, <1>2, <1>6, <1>7
<1>9. \A i \in 1 .. n : stack'[i] = IF i = n THEN g ELSE stack[i]
  BY <1>1, <1>2, <1>7
<1> QED BY <1>2, <1>3, <1>6, <1>8, <1>9

(* Who may instantiate a code under a config is allowed by every config    *)
(* it is a subset of: AccessConfig.IsSubset is sound.                      *)
LEMMA SubsetAllows ==
  ASSUME NEW p, NEW q, NEW a, IsSubset(p, q), Allowed(p, a)
  PROVE  Allowed(q, a)
BY DEF IsSubset, TypeIsSubset, Allowed

(* An upload gets no wider permission than its grant.                      *)
LEMMA UploadStep ==
  ASSUME GrantsInv, NEW checksum \in Checksum,
         NEW permission \in Permissions \cup {Nil}, NEW i \in DOMAIN codeAuthz,
         PerformStoreCode(checksum, permission, i)
  PROVE  codes' \in SUBSET Uploads /\ AsGranted(codes')
<1>1. PICK config : config = IF permission = Nil THEN With(Default, Granter)
                                                ELSE permission
  OBVIOUS
<1>2. PICK granted : granted = codeAuthz[i].permission
  OBVIOUS
<1>3. codes' = codes \cup {[config |-> config, granted |-> granted]}
  BY <1>1, <1>2 DEF PerformStoreCode
<1>4. config \in Configs
  <2>1. With(Default, Granter) \in Configs
    BY GrantsAssumption DEF With, Configs
  <2> QED BY <1>1, <2>1, GrantsAssumption
<1>5. granted \in Configs \cup {Nil}
  <2>1. codeAuthz[i] \in CodeGrants
    BY DEF GrantsInv, TypeOK
  <2> QED BY <1>2, <2>1 DEF CodeGrants
<1>6. granted # Nil => IsSubset(config, granted)
  BY <1>1, <1>2 DEF PerformStoreCode, StoreCodeAuthorization_Accept, CodeGrant_Accept
<1>7. PICK code : code = [config |-> config, granted |-> granted]
  OBVIOUS
<1>8. code \in Uploads /\ code.config = config /\ code.granted = granted
  BY <1>4, <1>5, <1>7 DEF Uploads
<1>9. codes \in SUBSET Uploads /\ AsGranted(codes)
  BY DEF GrantsInv, TypeOK
<1> QED BY <1>3, <1>6, <1>7, <1>8, <1>9 DEF AsGranted

(* A MsgExec that ends leaves the ones around it as they are.              *)
LEMMA PopFacts ==
  ASSUME GrantsInv, stack # <<>>, stack' = SubSeq(stack, 1, Len(stack) - 1)
  PROVE  /\ stack' \in Seq(Frames)
         /\ \A i \in DOMAIN stack' :
              Budget(stack'[i].authz, stack'[i].book) /\ AsGranted(stack'[i].codes)
         /\ Len(stack) \in DOMAIN stack
<1>1. stack \in Seq(Frames)
  BY DEF GrantsInv, TypeOK
<1>2. PICK n \in Nat : n = Len(stack) /\ DOMAIN stack = 1 .. n /\ n \in 1 .. n
  BY <1>1
<1>3. /\ stack' \in Seq(Frames) /\ DOMAIN stack' = 1 .. n - 1
      /\ \A i \in 1 .. n - 1 : stack'[i] = stack[i] /\ i \in DOMAIN stack
  BY <1>1, <1>2
<1> QED BY <1>2, <1>3 DEF GrantsInv

(* Every step preserves the invariant.                                     *)
LEMMA GrantsNext == GrantsInv /\ [Next]_vars => GrantsInv'
<1> SUFFICES ASSUME GrantsInv, [Next]_vars PROVE GrantsInv'
  OBVIOUS
<1>1. /\ StoreOK(authz, book) /\ AsGranted(codes) /\ codes \in SUBSET Uploads
      /\ codeAuthz \in Seq(CodeGrants) /\ given \in Nat /\ stack \in Seq(Frames)
  BY DEF GrantsInv, TypeOK, StoreOK
<1>2. CASE UNCHANGED vars
  BY <1>1, <1>2, StackKept DEF vars
<1>3. ASSUME NEW type \in MsgTypes, NEW offer \in Offers, Grant(type, offer)
      PROVE  GrantsInv'
  <2>1. UNCHANGED <<codeAuthz, codes, stack>>
    BY <1>3 DEF Grant
  <2>2. StoreOK(authz', book') /\ given' \in Nat
    BY <1>3, GrantStep
  <2> QED BY <1>1, <2>1, <2>2, StackKept
<1>4. ASSUME NEW type \in MsgTypes, Revoke(type)
      PROVE  GrantsInv'
  <2>1. UNCHANGED <<codeAuthz, codes, given, stack>>
    BY <1>4 DEF Revoke
  <2>2. StoreOK(authz', book')
    BY <1>4, RevokeStep
  <2> QED BY <1>1, <2>1, <2>2, StackKept
<1>5. ASSUME NEW offer \in CodeOffers, GrantCode(offer)
      PROVE  GrantsInv'
  <2>1. UNCHANGED <<authz, codes, book, stack>> /\ codeAuthz' = offer
    BY <1>5 DEF GrantCode
  <2>2. codeAuthz' \in Seq(CodeGrants)
    BY <2>1, GrantsAssumption
  <2>3. Len(offer) \in Nat
    BY GrantsAssumption
  <2>4. given' \in Nat
    BY <1>1, <1>5, <2>3 DEF GrantCode
  <2> QED BY <1>1, <2>1, <2>2, <2>4, StackKept
<1>6. CASE RevokeCode
  <2>1. UNCHANGED <<authz, codes, book, given, stack>> /\ codeAuthz' = <<>>
    BY <1>6 DEF RevokeCode
  <2> QED BY <1>1, <2>1, StackKept
<1>7. ASSUME NEW n \in 1 .. MaxMessages, Exec(n)
      PROVE  GrantsInv'
  <2>1. UNCHANGED <<authz, codeAuthz, codes, book, given>>
    BY <1>7 DEF Exec
  <2>2. PICK f : f = [authz |-> authz, codeAuthz |-> codeAuthz, codes |-> codes,
                      book |-> book, rest |-> n, running |-> FALSE]
    OBVIOUS
  <2>3. stack' = Append(stack, f)
    BY <1>7, <2>2 DEF Exec
  <2>4. /\ f \in Frames /\ f.authz = authz /\ f.book = book /\ f.codes = codes
    BY <1>1, <2>2, GrantsAssumption DEF Frames, StoreOK
  <2>5. stack' \in Seq(Frames)
    BY <1>1, <2>3, <2>4
  <2>6. ASSUME NEW i \in DOMAIN stack'
        PROVE  (i \in DOMAIN stack /\ stack'[i] = stack[i]) \/ stack'[i] = f
    BY <1>1, <2>3, <2>4
  <2>7. \A i \in DOMAIN stack' :
          Budget(stack'[i].authz, stack'[i].book) /\ AsGranted(stack'[i].codes)
    BY <1>1, <2>4, <2>6 DEF GrantsInv, StoreOK
  <2> QED BY <1>1, <2>1, <2>5, <2>7 DEF GrantsInv, TypeOK, StoreOK
<1>8. ASSUME NEW type \in MsgTypes, NEW msg \in Messages,
             NEW i \in DOMAIN authz[type], Perform(type, msg, i)
      PROVE  GrantsInv'
  <2>1. NextMessage /\ UNCHANGED <<codeAuthz, codes, given>>
    BY <1>8 DEF Perform
  <2>2. StoreOK(authz', book')
    BY <1>8, PerformStep
  <2> QED BY <1>1, <2>1, <2>2, NextMessageFacts, StackKept
<1>9. ASSUME NEW checksum \in Checksum, NEW permission \in Permissions \cup {Nil},
             NEW i \in DOMAIN codeAuthz, PerformStoreCode(checksum, permission, i)
      PROVE  GrantsInv'
  <2>1. NextMessage /\ UNCHANGED <<authz, codeAuthz, book, given>>
    BY <1>9 DEF PerformStoreCode
  <2>2. codes' \in SUBSET Uploads /\ AsGranted(codes')
    BY <1>9, UploadStep
  <2> QED BY <1>1, <2>1, <2>2, NextMessageFacts, StackKept
<1>10. CASE Fail
  <2>1. PICK top : top = stack[Len(stack)]
    OBVIOUS
  <2>2. /\ stack # <<>> /\ authz' = top.authz /\ codeAuthz' = top.codeAuthz
        /\ codes' = top.codes /\ book' = top.book /\ given' = given
        /\ stack' = SubSeq(stack, 1, Len(stack) - 1)
    BY <1>10, <2>1 DEF Fail
  <2>3. /\ stack' \in Seq(Frames) /\ Len(stack) \in DOMAIN stack
        /\ \A i \in DOMAIN stack' :
             Budget(stack'[i].authz, stack'[i].book) /\ AsGranted(stack'[i].codes)
    BY <2>2, PopFacts
  <2>4. top \in Frames
    BY <1>1, <2>1, <2>3
  <2>5. Budget(top.authz, top.book) /\ AsGranted(top.codes)
    BY <2>1, <2>3 DEF GrantsInv
  <2> QED BY <1>1, <2>2, <2>3, <2>4, <2>5 DEF GrantsInv, TypeOK, Frames
<1>11. CASE Return
  <2>1. /\ stack # <<>> /\ UNCHANGED <<authz, codeAuthz, codes, book, given>>
        /\ stack' = SubSeq(stack, 1, Len(stack) - 1)
    BY <1>11 DEF Return
  <2>2. /\ stack' \in Seq(Frames)
        /\ \A i \in DOMAIN stack' :
             Budget(stack'[i].authz, stack'[i].book) /\ AsGranted(stack'[i].codes)
    BY <2>1, PopFacts
  <2> QED BY <1>1, <2>1, <2>2 DEF GrantsInv, TypeOK, StoreOK
<1> QED BY <1>2, <1>3, <1>4, <1>5, <1>6, <1>7, <1>8, <1>9, <1>10, <1>11 DEF Next

(* The grants and the book agree in every state, and in every state that a *)
(* MsgExec under way falls back to when it fails.                          *)
THEOREM GrantsInvariance == Spec => []GrantsInv
<1>1. Init => GrantsInv
  BY GrantsInit
<1>2. GrantsInv /\ [Next]_vars => GrantsInv'
  BY GrantsNext
<1> QED BY <1>1, <1>2, PTL DEF Spec

-----------------------------------------------------------------------------
(* The properties.                                                         *)

(* The invariant implies the property.                                     *)
LEMMA BudgetHolds == GrantsInv => WithinBudget
<1> SUFFICES ASSUME GrantsInv, NEW id \in DOMAIN book
             PROVE  LET b    == book[id]
                        used == \/ Counted(b.limit) /\ b.calls = b.limit.calls
                                \/ Metered(b.limit) /\ b.funds = b.limit.amounts
                    IN /\ Counted(b.limit) => b.calls <= b.limit.calls
                       /\ IF Metered(b.limit) THEN IsAllLTE(b.funds, b.limit.amounts)
                                              ELSE b.funds = NoCoins
                       /\ \/ used /\ Live(id) = {}
                          \/ b.lapsed /\ Live(id) = {}
                          \/ /\ ~used /\ ~b.lapsed
                             /\ \E t \in MsgTypes, i \in 1 .. MaxGrants :
                                  /\ Live(id) = {<<t, i>>}
                                  /\ LET now == authz[t][i].limit IN
                                     /\ now.kind = b.limit.kind
                                     /\ Counted(now) => now.calls = b.limit.calls - b.calls
                                     /\ Metered(now) =>
                                          now.amounts = Sub(b.limit.amounts, b.funds)
  BY DEF WithinBudget
<1>1. PICK b : b = book[id]
  OBVIOUS
<1>2. b \in Entries /\ Within(b) /\ (Used(b) \/ b.lapsed \/ Kept(authz, id))
  BY <1>1 DEF GrantsInv, TypeOK, Budget, Accounted
<1>3. CASE ~Kept(authz, id)
  <2>1. Live(id) = {}
    BY <1>3 DEF Live, Kept
  <2> QED BY <1>1, <1>2, <1>3, <2>1 DEF Within, Used
<1>4. CASE Kept(authz, id)
  <2> PICK t \in MsgTypes : \E i \in DOMAIN authz[t] : authz[t][i].id = id
    BY <1>4 DEF Kept
  <2>1. PICK i \in DOMAIN authz[t] : authz[t][i].id = id
    OBVIOUS
  <2>2. authz[t] \in Seq(StoredGrants) /\ Len(authz[t]) <= MaxGrants
    BY DEF GrantsInv, TypeOK, Budget, Few
  <2>3. i \in 1 .. MaxGrants
    BY <2>2, GrantsAssumption
  <2>4. PICK now : now = authz[t][i].limit
    OBVIOUS
  <2>5. Matches(now, b)
    BY <1>1, <2>1, <2>4 DEF GrantsInv, Budget, Booked
  <2>6. now \in Limits /\ Limit_ValidateBasic(now)
    BY <2>2, <2>4 DEF StoredGrants, ContractGrant_ValidateBasic
  <2>7. <<t, i>> \in Live(id)
    BY <2>1, <2>3 DEF Live
  <2>8. ASSUME NEW p \in Live(id)
        PROVE  p = <<t, i>>
    <3>1. PICK u \in MsgTypes, j \in 1 .. MaxGrants : p = <<u, j>>
      BY DEF Live
    <3>2. j \in DOMAIN authz[u] /\ authz[u][j].id = id
      BY <3>1 DEF Live
    <3>3. u = t /\ j = i
      BY <2>1, <3>2 DEF GrantsInv, Budget, Single
    <3> QED BY <3>1, <3>3
  <2>9. Live(id) = {<<t, i>>}
    BY <2>7, <2>8
  <2>10. ~Used(b)
    <3>1. now.kind = b.limit.kind
      BY <2>5 DEF Matches
    <3>2. ASSUME Counted(b.limit), b.calls = b.limit.calls PROVE FALSE
      <4>1. now.calls = b.limit.calls - b.calls /\ now.calls # 0
        BY <2>5, <2>6, <3>1, <3>2 DEF Matches, Counted, Limit_ValidateBasic
      <4>2. b.calls \in Nat
        BY <1>2 DEF Entries
      <4> QED BY <3>2, <4>1, <4>2
    <3>3. ASSUME Metered(b.limit), b.funds = b.limit.amounts PROVE FALSE
      <4>1. now.amounts = Sub(b.limit.amounts, b.funds) /\ now.amounts # NoCoins
        BY <2>5, <2>6, <3>1, <3>3 DEF Matches, Metered, Limit_ValidateBasic
      <4>2. b.funds \in [Denom -> Nat]
        BY <1>2 DEF Entries
      <4>3. Sub(b.funds, b.funds) = NoCoins
        BY <4>2 DEF Sub, NoCoins
      <4> QED BY <3>3, <4>1, <4>3
    <3> QED BY <3>2, <3>3 DEF Used
  <2>11. /\ ~b.lapsed /\ now.kind = b.limit.kind
         /\ Counted(now) => now.calls = b.limit.calls - b.calls
         /\ Metered(now) => now.amounts = Sub(b.limit.amounts, b.funds)
    BY <2>5 DEF Matches
  <2> QED BY <1>1, <1>2, <2>3, <2>4, <2>9, <2>10, <2>11 DEF Within, Used
<1> QED BY <1>3, <1>4

(* For every set of grants, messages and nested MsgExecs, what is used of  *)
(* a grant and what is stored of it add up to what the granter gave.       *)
THEOREM BudgetCorrect == Spec => []WithinBudget
BY GrantsInvariance, BudgetHolds, PTL

(* The sanity checks on limits, filters and updated authorizations are     *)
(* never met.                                                              *)
THEOREM SanityCorrect == Spec => []SanityChecksIdle
<1>1. GrantsInv => SanityChecksIdle
  <2> SUFFICES ASSUME GrantsInv, NEW t \in MsgTypes, NEW msg \in Messages,
                      NEW i \in DOMAIN authz[t]
               PROVE  LET answer == Verdict(authz[t][i], msg)
                          after  == UpdatedGrants(authz[t], i, answer.left)
                      IN /\ answer.verdict # "error"
                         /\ answer.verdict = "accept" =>
                              after = <<>> \/ validateGrants(after)
    BY DEF SanityChecksIdle
  <2>1. PICK g : g = authz[t][i]
    OBVIOUS
  <2>2. PICK r : r = Verdict(g, msg)
    OBVIOUS
  <2>3. PICK q : q = UpdatedGrants(authz[t], i, r.left)
    OBVIOUS
  <2>4. authz[t] \in Seq(StoredGrants) /\ g \in StoredGrants
        /\ msg.funds \in [Denom -> Nat]
    BY <2>1, GrantsAssumption DEF GrantsInv, TypeOK, Messages
  <2>5. /\ r.verdict \in {"skip", "accept"}
        /\ r.verdict = "accept" => Left(g.limit, msg.funds, r.left)
    BY <2>2, <2>4, VerdictOK
  <2>6. ASSUME r.verdict = "accept"
        PROVE  q = <<>> \/ validateGrants(q)
    <3>1. q \in Seq(StoredGrants)
      BY <2>1, <2>3, <2>4, <2>5, <2>6, UpdatedFacts
    <3>2. \A k \in DOMAIN q : ContractGrant_ValidateBasic(q[k])
      BY <3>1 DEF StoredGrants
    <3> QED BY <3>2 DEF validateGrants
  <2> QED BY <2>1, <2>2, <2>3, <2>5, <2>6
<1> QED BY <1>1, GrantsInvariance, PTL

(* Nobody may instantiate a code whom the grant for its upload does not    *)
(* allow to.                                                               *)
THEOREM UploadsCorrect == Spec => []CodeAsGranted
<1>1. GrantsInv => CodeAsGranted
  <2> SUFFICES ASSUME GrantsInv, NEW code \in codes, NEW a \in Account,
                      code.granted # Nil, Allowed(code.config, a)
               PROVE  Allowed(code.granted, a)
    BY DEF CodeAsGranted
  <2>1. IsSubset(code.config, code.granted)
    BY DEF GrantsInv, AsGranted
  <2> QED BY <2>1, SubsetAllows
<1> QED BY <1>1, GrantsInvariance, PTL
=============================================================================
