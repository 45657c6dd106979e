-------------------------- MODULE MCContractGrants --------------------------
(* A small instance of ContractGrants for TLC. *)
EXTENDS ContractGrants

CONSTANTS u1, u2, c1, c2, p1, p2, p3, d1, d2, h1, h2

MCKeys == [p \in Payload |-> CASE p = p1 -> {"mint"}
                               [] p = p2 -> {"burn"}
                               [] OTHER -> {"mint", "burn"}]

Amount(n1, n2) == [d \in Denom |-> IF d = d1 THEN n1 ELSE n2]

MCCoins == {Amount(0, 0), Amount(1, 0), Amount(1, 1)}

Calls(n)       == [kind |-> "calls", calls |-> n]
Funds(a)       == [kind |-> "funds", amounts |-> a]
Combined(n, a) == [kind |-> "combined", calls |-> n, amounts |-> a]
All            == [kind |-> "all"]
OnlyKeys(ks)   == [kind |-> "keys", accepted |-> ks]
OnlyMsgs(ps)   == [kind |-> "messages", accepted |-> ps]

Offer(c, l, f) == [contract |-> c, limit |-> l, filter |-> f]

\* limits of every kind, before and behind each other, and invalid offers
MCOffers ==
  {<<Offer(c1, Calls(2), OnlyKeys({"mint"})),
     Offer(c1, Combined(2, Amount(2, 1)), All)>>,
   <<Offer(c1, Funds(Amount(2, 0)), OnlyMsgs({p1, p3})),
     Offer(c2, Calls(1), All)>>,
   <<Offer(c1, Combined(2, Amount(1, 1)), OnlyKeys({"burn"}))>>,
   <<Offer(c1, Calls(0), All)>>,
   <<Offer(c1, [kind |-> "undefined"], All)>>,
   <<Offer(c1, Funds(Amount(0, 0)), All)>>,
   <<Offer(c1, Calls(1), [kind |-> "undefined"])>>}

AnyOf(as) == [permission |-> "AnyOfAddresses", addresses |-> as]

MCPermissions == {AllowNobody, AllowEverybody, AnyOf({u1}), AnyOf({u2})}

CodeGrant(h, p) == [codeHash |-> h, permission |-> p]

MCCodeOffers ==
  {<<CodeGrant(h1, AnyOf({u1})), CodeGrant(h2, Nil)>>,
   <<CodeGrant(Wildcard, AllowNobody)>>,
   <<CodeGrant(Wildcard, Nil), CodeGrant(h1, Nil)>>}
=============================================================================
