--------------------------- MODULE ContractGrants ---------------------------
(***************************************************************************)
(* Authz grants for contracts: what a grantee may execute, migrate and     *)
(* upload in the name of one granter.  The authz keeper of the SDK keeps   *)
(* an authorization per message type, asks it about every message of a     *)
(* MsgExec and saves the updated authorization before the message runs.    *)
(*                                                                         *)
(* A message runs a contract, and a contract that is the grantee itself    *)
(* can send the next MsgExec from there; a sub-message that fails is       *)
(* rolled back, and the calls around it may go on.  "stack" holds the      *)
(* MsgExecs under way, each with the state it falls back to.               *)
(***************************************************************************)
EXTENDS Integers, Sequences, FiniteSets, AccessConfig

CONSTANTS
  Account,      \* addresses in access configs; the granter is one of them
  Granter,
  Contract,
  Denom,
  Payload,      \* JSON messages for contracts
  Keys,         \* the top level keys of a payload, {} when it is no object
  Checksum,
  Wildcard,     \* the code hash that matches every checksum
  Nil,          \* no instantiate permission
  Offers,       \* authorizations the granter may give for contracts
  CodeOffers,   \* and for uploads
  Coins,        \* funds of messages
  Permissions,  \* instantiate permissions of uploads
  Default,      \* the access type of params.InstantiateDefaultPermission
  MaxGrants,    \* bound: grants given
  MaxCodes,     \* bound: codes uploaded
  MaxUses,      \* bound: messages that one grant pays for
  MaxDepth,     \* bound: MsgExecs inside each other
  MaxMessages   \* bound: messages in a MsgExec

VARIABLES
  authz,      \* contract grants the authz keeper holds, by message type
  codeAuthz,  \* code grants it holds for uploads
  codes,      \* ghost: codes uploaded, with the grant that allowed them
  book,       \* ghost: what was given and used, by grant id
  given,      \* ghost: how many grants were given
  stack       \* MsgExecs under way, the innermost last

vars == <<authz, codeAuthz, codes, book, given, stack>>

MsgTypes == {"ExecuteContract", "MigrateContract"}

NoCoins == [d \in Denom |-> 0]

(* The limits and filters of the authz types; "undefined" is one that the  *)
(* message does not set.                                                   *)
Limits ==
  [kind : {"undefined"}] \cup [kind : {"calls"}, calls : Nat]
    \cup [kind : {"funds"}, amounts : [Denom -> Nat]]
    \cup [kind : {"combined"}, calls : Nat, amounts : [Denom -> Nat]]

Filters ==
  [kind : {"undefined", "all"}] \cup [kind : {"keys"}, accepted : SUBSET STRING]
    \cup [kind : {"messages"}, accepted : SUBSET Payload]

Configs == [permission : AccessTypes, addresses : SUBSET Account]

CodeGrants == [codeHash : Checksum \cup {Wildcard}, permission : Configs \cup {Nil}]

ASSUME GrantsAssumption ==
  /\ Granter \in Account
  /\ Offers \subseteq Seq([contract : Contract, limit : Limits, filter : Filters])
  /\ CodeOffers \subseteq Seq(CodeGrants)
  /\ Permissions \subseteq Configs
  /\ Nil \notin Limits \cup Configs
  /\ Keys \in [Payload -> SUBSET STRING]
  /\ Wildcard \notin Checksum
  /\ Default \in AccessTypes
  /\ Coins \subseteq [Denom -> Nat]
  /\ MaxGrants \in Nat /\ MaxCodes \in Nat /\ MaxUses \in Nat
  /\ MaxDepth \in Nat /\ MaxMessages \in Nat

-----------------------------------------------------------------------------
(* Limits.  A limit answers for a message with "skip" (does not apply),    *)
(* "error", or "accept" with the limit that is left, Nil when it is        *)
(* deleted.                                                                *)

IsAllLTE(funds, amounts) == \A d \in Denom : funds[d] <= amounts[d]

Sub(amounts, funds) == [d \in Denom |-> amounts[d] - funds[d]]

Skip       == [verdict |-> "skip", left |-> Nil]
Failure    == [verdict |-> "error", left |-> Nil]
Accept(l)  == [verdict |-> "accept", left |-> l]

MaxCallsLimit_Accept(l, funds) ==
  CASE funds # NoCoins -> Skip
    [] funds = NoCoins /\ l.calls = 0 -> Failure
    [] funds = NoCoins /\ l.calls = 1 -> Accept(Nil)
    [] OTHER -> Accept([l EXCEPT !.calls = @ - 1])

(* Mutant: a budget that is spent stays, with nothing left in it. *)
MaxFundsLimit_AcceptKept(l, funds) ==
  IF IsAllLTE(funds, l.amounts)
  THEN Accept([l EXCEPT !.amounts = Sub(@, funds)])
  ELSE Skip

(* Calls without funds leave the limit as it is.                           *)
MaxFundsLimit_Accept(l, funds) ==
  CASE funds = NoCoins -> Accept(l)
    [] funds # NoCoins /\ ~IsAllLTE(funds, l.amounts) -> Skip
    [] funds # NoCoins /\ funds = l.amounts -> Accept(Nil)
    [] OTHER -> Accept([l EXCEPT !.amounts = Sub(@, funds)])

(* Mutant: a call without funds is not counted. *)
CombinedLimit_AcceptFree(l, funds) ==
  CASE funds = NoCoins -> Accept(l)
    [] funds # NoCoins /\ ~IsAllLTE(funds, l.amounts) -> Skip
    [] funds # NoCoins /\ (l.calls = 1 \/ funds = l.amounts) -> Accept(Nil)
    [] OTHER -> Accept([l EXCEPT !.calls = @ - 1,
                                 !.amounts = Sub(@, funds)])

CombinedLimit_Accept(l, funds) ==
  CASE ~IsAllLTE(funds, l.amounts) -> Skip
    [] IsAllLTE(funds, l.amounts) /\ l.calls = 0 -> Failure
    [] IsAllLTE(funds, l.amounts) /\ (l.calls = 1 \/ funds = l.amounts) ->
         Accept(Nil)
    [] OTHER -> Accept([l EXCEPT !.calls = @ - 1,
                                 !.amounts = Sub(@, funds)])

Limit_Accept(l, funds) ==
  CASE l.kind = "undefined" -> Failure
    [] l.kind = "calls" -> MaxCallsLimit_Accept(l, funds)
    [] l.kind = "funds" -> MaxFundsLimit_Accept(l, funds)
    [] l.kind = "combined" -> CombinedLimit_Accept(l, funds)

Limit_ValidateBasic(l) ==
  /\ l.kind \in {"calls", "funds", "combined"}
  /\ l.kind \in {"calls", "combined"} => l.calls # 0
  /\ l.kind \in {"funds", "combined"} => l.amounts # NoCoins

-----------------------------------------------------------------------------
(* Filters on the payload of a message.                                    *)

isJSONObjectWithTopLevelKey(payload, allowedKeys) ==
  \E k \in allowedKeys : Keys[payload] = {k}

Filter_Accept(f, payload) ==
  CASE f.kind = "all" -> TRUE
    [] f.kind = "keys" -> isJSONObjectWithTopLevelKey(payload, f.accepted)
    [] f.kind = "messages" -> payload \in f.accepted

Filter_ValidateBasic(f) ==
  /\ f.kind \in {"all", "keys", "messages"}
  /\ f.kind \in {"keys", "messages"} => f.accepted # {}

-----------------------------------------------------------------------------
(* Contract grants.                                                        *)

ContractGrant_ValidateBasic(g) ==
  Limit_ValidateBasic(g.limit) /\ Filter_ValidateBasic(g.filter)

validateGrants(grants) ==
  /\ grants # <<>>
  /\ \A i \in DOMAIN grants : ContractGrant_ValidateBasic(grants[i])

(* What one grant says to a message.  The filter is asked only when the    *)
(* limit applies; an undefined filter is an error.                         *)
Verdict(g, msg) ==
  LET limit == Limit_Accept(g.limit, msg.funds)
  IN CASE g.contract # msg.contract -> Skip
       [] g.contract = msg.contract /\ limit.verdict # "accept" -> limit
       [] g.contract = msg.contract /\ limit.verdict = "accept" ->
            (CASE g.filter.kind = "undefined" -> Failure
               [] g.filter.kind # "undefined" ->
                    IF Filter_Accept(g.filter, msg.payload)
                    THEN limit ELSE Skip)

RemoveGrant(grants, i) ==
  SubSeq(grants, 1, i - 1) \o SubSeq(grants, i + 1, Len(grants))

(* The grants after grant i has paid for a message.                        *)
UpdatedGrants(grants, i, left) ==
  IF left = Nil THEN RemoveGrant(grants, i)
                ELSE [grants EXCEPT ![i].limit = left]

(* AcceptGrantedMessage: the first grant that does not skip the message    *)
(* decides, and its answer is used only if the new authorization is valid. *)
AcceptGrantedMessage(grants, msg, i) ==
  /\ i \in DOMAIN grants
  /\ Verdict(grants[i], msg).verdict = "accept"
  /\ \A j \in 1 .. i - 1 : Verdict(grants[j], msg).verdict = "skip"
  /\ LET updated == UpdatedGrants(grants, i, Verdict(grants[i], msg).left)
     IN updated = <<>> \/ validateGrants(updated)

-----------------------------------------------------------------------------
(* Code grants.                                                            *)

(* Mutant: an upload that names no permission is taken for the narrowest. *)
CodeGrant_AcceptNil(g, checksum, permission) ==
  /\ g.codeHash \in {Wildcard, checksum}
  /\ Nil \notin {g.permission, permission} =>
       IsSubset(permission, g.permission)

CodeGrant_Accept(g, checksum, permission) ==
  /\ g.codeHash \in {Wildcard, checksum}
  /\ g.permission # Nil =>
       permission # Nil /\ IsSubset(permission, g.permission)

StoreCodeAuthorization_ValidateBasic(grants) ==
  /\ grants # <<>>
  /\ \A i \in DOMAIN grants :
       /\ grants[i].permission # Nil => ValidConfig(grants[i].permission)
       /\ Len(grants) > 1 => grants[i].codeHash # Wildcard
       /\ \A j \in DOMAIN grants :
            grants[i].codeHash = grants[j].codeHash => i = j

(* An upload without permission makes the comparison with a grant's        *)
(* permission panic, and the transaction fails.                            *)
Panics(g, checksum, permission) ==
  /\ g.codeHash \in {Wildcard, checksum}
  /\ g.permission # Nil /\ permission = Nil

(* The first grant that accepts; none may panic before it.                 *)
StoreCodeAuthorization_Accept(grants, checksum, permission, i) ==
  /\ i \in DOMAIN grants
  /\ CodeGrant_Accept(grants[i], checksum, permission)
  /\ \A j \in 1 .. i - 1 :
       /\ ~CodeGrant_Accept(grants[j], checksum, permission)
       /\ ~Panics(grants[j], checksum, permission)

-----------------------------------------------------------------------------
(* The authz keeper.                                                       *)

(* Between transactions, or while a contract runs.                         *)
MayAct == stack = <<>> \/ (stack # <<>> /\ stack[Len(stack)].running)

Ids(grants) == {grants[i].id : i \in DOMAIN grants}

Lapsed(ids) ==
  [id \in DOMAIN book |->
     IF id \in ids THEN [book[id] EXCEPT !.lapsed = TRUE] ELSE book[id]]

(* MsgGrant replaces the authorization of the message type.                *)
Grant(type, offer) ==
  LET first  == Cardinality(DOMAIN book)
      grants == [i \in DOMAIN offer |->
                   [id |-> first + i, contract |-> offer[i].contract,
                    limit |-> offer[i].limit, filter |-> offer[i].filter]]
      lapsed == Lapsed(Ids(authz[type]))
  IN /\ MayAct
     /\ given + Len(offer) <= MaxGrants
     /\ validateGrants(offer)
     /\ authz' = [authz EXCEPT ![type] = grants]
     /\ given' = given + Len(offer)
     /\ book' = [id \in 1 .. first + Len(offer) |->
                   IF id <= first THEN lapsed[id]
                   ELSE [limit |-> offer[id - first].limit, calls |-> 0,
                         funds |-> NoCoins, lapsed |-> FALSE]]
     /\ UNCHANGED <<codeAuthz, codes, stack>>

(* MsgRevoke, and the removal of a grant whose time is over.               *)
Revoke(type) ==
  /\ MayAct
  /\ authz[type] # <<>>
  /\ authz' = [authz EXCEPT ![type] = <<>>]
  /\ book' = Lapsed(Ids(authz[type]))
  /\ UNCHANGED <<codeAuthz, codes, given, stack>>

GrantCode(offer) ==
  /\ MayAct
  /\ StoreCodeAuthorization_ValidateBasic(offer)
  /\ given + Len(offer) <= MaxGrants
  /\ codeAuthz' = offer
  /\ given' = given + Len(offer)
  /\ UNCHANGED <<authz, codes, book, stack>>

RevokeCode ==
  /\ MayAct
  /\ codeAuthz # <<>>
  /\ codeAuthz' = <<>>
  /\ UNCHANGED <<authz, codes, book, given, stack>>

(* The grantee sends a MsgExec, in a transaction or from a contract.       *)
Exec(messages) ==
  /\ MayAct
  /\ messages \in 1 .. MaxMessages
  /\ Len(stack) < MaxDepth
  /\ stack' = Append(stack, [authz |-> authz, codeAuthz |-> codeAuthz,
                             codes |-> codes, book |-> book,
                             rest |-> messages, running |-> FALSE])
  /\ UNCHANGED <<authz, codeAuthz, codes, book, given>>

NextMessage ==
  /\ stack # <<>>
  /\ stack[Len(stack)].rest > 0
  /\ stack' = [stack EXCEPT ![Len(stack)].rest = @ - 1,
                            ![Len(stack)].running = TRUE]

(* The next message is accepted, the grants are saved, the contract runs.  *)
Perform(type, msg, i) ==
  LET grants == authz[type]
      left   == Verdict(grants[i], msg).left
      id     == grants[i].id
  IN /\ NextMessage
     /\ type = "MigrateContract" => msg.funds = NoCoins
     /\ book[id].calls < MaxUses
     /\ AcceptGrantedMessage(grants, msg, i)
     /\ authz' = [authz EXCEPT ![type] = UpdatedGrants(grants, i, left)]
     /\ book' = [book EXCEPT ![id].calls = @ + 1,
                             ![id].funds = [d \in Denom |->
                                              @[d] + msg.funds[d]]]
     /\ UNCHANGED <<codeAuthz, codes, given>>

(* The next message is an upload.  The code gets the permission of the     *)
(* message, or the default one of the chain for the granter.               *)
PerformStoreCode(checksum, permission, i) ==
  LET config == IF permission = Nil THEN With(Default, Granter)
                                    ELSE permission
  IN /\ NextMessage
     /\ Cardinality(codes) < MaxCodes
     /\ StoreCodeAuthorization_Accept(codeAuthz, checksum, permission, i)
     /\ IsSubset(config, With(Default, Granter))
     /\ codes' = codes \cup {[config |-> config,
                              granted |-> codeAuthz[i].permission]}
     /\ UNCHANGED <<authz, codeAuthz, book, given>>

(* The innermost MsgExec fails: a message that no grant accepts, or the    *)
(* contract, or the gas.  What it did is undone.                           *)
Fail ==
  LET top == stack[Len(stack)] IN
  /\ stack # <<>>
  /\ authz' = top.authz
  /\ codeAuthz' = top.codeAuthz
  /\ codes' = top.codes
  /\ book' = top.book
  /\ stack' = SubSeq(stack, 1, Len(stack) - 1)
  /\ UNCHANGED given

Return ==
  /\ stack # <<>>
  /\ stack[Len(stack)].rest = 0
  /\ stack' = SubSeq(stack, 1, Len(stack) - 1)
  /\ UNCHANGED <<authz, codeAuthz, codes, book, given>>

Init ==
  /\ authz = [t \in MsgTypes |-> <<>>]
  /\ codeAuthz = <<>>
  /\ codes = {}
  /\ book = <<>>
  /\ given = 0
  /\ stack = <<>>

Messages == [contract : Contract, payload : Payload, funds : Coins]

Next ==
  \/ \E type \in MsgTypes, offer \in Offers : Grant(type, offer)
  \/ \E type \in MsgTypes : Revoke(type)
  \/ \E offer \in CodeOffers : GrantCode(offer)
  \/ RevokeCode
  \/ \E n \in 1 .. MaxMessages : Exec(n)
  \/ \E type \in MsgTypes, msg \in Messages :
       \E i \in DOMAIN authz[type] : Perform(type, msg, i)
  \/ \E checksum \in Checksum, permission \in Permissions \cup {Nil} :
       \E i \in DOMAIN codeAuthz : PerformStoreCode(checksum, permission, i)
  \/ Fail
  \/ Return

Spec == Init /\ [][Next]_vars

-----------------------------------------------------------------------------
(* Properties.                                                             *)

(* The places, a message type and an index, where the grant is kept.       *)
Live(id) == {p \in MsgTypes \X (1 .. MaxGrants) :
               p[2] \in DOMAIN authz[p[1]] /\ authz[p[1]][p[2]].id = id}

Counted(limit) == limit.kind \in {"calls", "combined"}
Metered(limit) == limit.kind \in {"funds", "combined"}

(* What is used of a grant and what the authz keeper still holds of it add *)
(* up to what the granter gave, however the calls nest and whichever of    *)
(* them fail: no grant pays for more calls or funds than its limit, none   *)
(* without funds in its limit pays any, and a grant that is gone was used  *)
(* up, replaced, revoked or out of time.                                   *)
WithinBudget ==
  \A id \in DOMAIN book :
    LET b    == book[id]
        used == \/ Counted(b.limit) /\ b.calls = b.limit.calls
                \/ Metered(b.limit) /\ b.funds = b.limit.amounts
    IN /\ Counted(b.limit) => b.calls <= b.limit.calls
       /\ IF Metered(b.limit) THEN IsAllLTE(b.funds, b.limit.amounts)
                              ELSE b.funds = NoCoins
       /\ \/ used /\ Live(id) = {}
          \/ b.lapsed /\ Live(id) = {}
          \/ /\ ~used /\ ~b.lapsed
             /\ \E t \in MsgTypes, i \in 1 .. MaxGrants :
                  /\ Live(id) = {<<t, i>>}
                  /\ LET now == authz[t][i].limit IN
                     /\ now.kind = b.limit.kind
                     /\ Counted(now) => now.calls = b.limit.calls - b.calls
                     /\ Metered(now) =>
                          now.amounts = Sub(b.limit.amounts, b.funds)

(* The sanity checks of the code are never met: whatever message comes, no *)
(* grant in the store answers "no calls left" or with an undefined filter, *)
(* and what an accepted message leaves of the grants passes validation, so *)
(* that a limit used to its end does not block the grants behind it.       *)
SanityChecksIdle ==
  \A t \in MsgTypes, msg \in Messages : \A i \in DOMAIN authz[t] :
    LET answer == Verdict(authz[t][i], msg)
        after  == UpdatedGrants(authz[t], i, answer.left)
    IN /\ answer.verdict # "error"
       /\ answer.verdict = "accept" => after = <<>> \/ validateGrants(after)

(* Nobody may instantiate an uploaded code whom the permission in the      *)
(* grant for the upload does not allow.                                    *)
CodeAsGranted ==
  \A code \in codes : \A a \in Account :
    code.granted # Nil /\ Allowed(code.config, a) => Allowed(code.granted, a)
=============================================================================
