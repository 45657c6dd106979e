---------------------------- MODULE TokenFactory ----------------------------
(***************************************************************************)
(* x/tokenfactory: anybody creates denominations of his own, and the admin *)
(* of a denomination mints, burns and moves its coins.  Users send         *)
(* messages to the msg server; contracts also reach it through the custom  *)
(* messages of x/tokenfactory/bindings.                                    *)
(*                                                                         *)
(* `admin' and `creators' are the two key spaces of the module's store.    *)
(* `metadata', `supply' and `balances' belong to the bank module, which is *)
(* modelled from how it is used here.  A message that returns an error is  *)
(* rolled back by the base application or the message dispatcher and is    *)
(* no step.  `sender' records who sent the last message, `recipient' for   *)
(* whom it asked to mint coins.                                            *)
(***************************************************************************)
EXTENDS Integers, FiniteSets

CONSTANTS
  Accounts,      \* accounts that sign messages: users and contracts
  Contracts,     \* the contracts among them
  Subdenoms,     \* subdenominations; Native may be one of them
  Native,        \* the denomination in which the creation fee is paid
  None,          \* the empty admin string; also no sender
  Module,        \* the module account of x/tokenfactory
  Pool,          \* the module account that holds the community pool
  Capabilities,  \* Keeper.enabledCapabilities
  CreationFee,   \* Params.DenomCreationFee
  Wealth,        \* native coins of each account in the genesis
  MaxSupply,     \* bound: supply of a factory denomination
  MaxGenesis     \* bound: denominations in the genesis

VARIABLES admin, creators, metadata, supply, balances, sender, recipient

vars == <<admin, creators, metadata, supply, balances, sender, recipient>>

Blocked == {Module, Pool}
Holders == Accounts \cup Blocked

ASSUME FactoryAssumption ==
  /\ IsFiniteSet(Accounts) /\ Contracts \subseteq Accounts
  /\ Module \notin Accounts /\ Pool \notin Accounts /\ Module # Pool
  /\ None \notin Holders
  /\ Native \notin Accounts \X Subdenoms
  /\ CreationFee \in Nat /\ Wealth \in Nat
  /\ MaxSupply \in Nat /\ MaxGenesis \in Nat

(* factory/{creator}/{subdenom}; DeconstructDenom finds the creator. *)
TokenDenom(creator, subdenom) == <<creator, subdenom>>
CreatorOf(d) == d[1]

FactoryDenoms == Accounts \X Subdenoms
Denoms == FactoryDenoms \cup {Native}

(* Zero coins are refused, or move nothing. *)
Amounts == 1 .. MaxSupply

SentBy(s) == sender' = s /\ recipient' = None

(* An empty list enables everything. *)
IsCapabilityEnabled(capability) ==
  Capabilities = {} \/ capability \in Capabilities

-----------------------------------------------------------------------------
(* The bank module.                                                        *)

Credited(b, d, h, n) == [b EXCEPT ![d][h] = @ + n]

Debited(b, d, h, n) == [b EXCEPT ![d][h] = @ - n]

Sent(b, d, from, to, n) == Credited(Debited(b, d, from, n), d, to, n)

CanSend(d, from, n) == balances[d][from] >= n

HasSupply(d) == d \in Denoms /\ supply[d] > 0

HasMetadata(d) == metadata[d] # "none"

-----------------------------------------------------------------------------
(* The genesis: the admin of every denomination.                           *)

ExportedDenoms == UNION {creators[c] : c \in Accounts}

ExportGenesis == [d \in ExportedDenoms |-> admin[d]]

(* setAuthorityMetadata is not called after createDenomAfterValidation. *)
ImportedAdminsReset(g) ==
  [d \in Denoms |-> IF d \in DOMAIN g THEN CreatorOf(d) ELSE None]

ImportedAdmins(g) == [d \in Denoms |-> IF d \in DOMAIN g THEN g[d] ELSE None]

ImportedCreators(g) == [c \in Accounts |-> {d \in DOMAIN g : CreatorOf(d) = c}]

(* createDenomAfterValidation sets the metadata again, over what the bank *)
(* module's genesis, which is loaded before, has for the denomination.    *)
ImportedMetadata(g, md) ==
  [d \in Denoms |-> IF d \in DOMAIN g THEN "minimal" ELSE md[d]]

Genesis == {g \in UNION {[D -> Accounts \cup {None}] : D \in SUBSET FactoryDenoms} :
              Cardinality(DOMAIN g) <= MaxGenesis}

(* In the bank module's genesis the creator of a denomination holds a coin. *)
GenesisBalance(g, d, h) ==
  IF d = Native THEN (IF h \in Accounts THEN Wealth ELSE 0)
  ELSE IF d \in DOMAIN g /\ h = CreatorOf(d) THEN 1 ELSE 0

InitGenesis(g) ==
  /\ admin = ImportedAdmins(g)
  /\ creators = ImportedCreators(g)
  /\ metadata = ImportedMetadata(g, [d \in Denoms |-> "none"])
  /\ balances = [d \in Denoms |-> [h \in Holders |-> GenesisBalance(g, d, h)]]
  /\ supply = [d \in Denoms |-> IF d = Native THEN Wealth * Cardinality(Accounts)
                                ELSE IF d \in DOMAIN g THEN 1 ELSE 0]
  /\ sender = None /\ recipient = None

Init == \E g \in Genesis : InitGenesis(g)

(* The chain is exported and started again from the export; the bank      *)
(* module restores its own state.                                         *)
ExportImport ==
  /\ admin' = ImportedAdmins(ExportGenesis)
  /\ creators' = ImportedCreators(ExportGenesis)
  /\ metadata' = ImportedMetadata(ExportGenesis, metadata)
  /\ SentBy(None)
  /\ UNCHANGED <<supply, balances>>

-----------------------------------------------------------------------------
(* The msg server.                                                         *)

(* The creator stays in charge whoever became admin. *)
IsAdminOrCreator(s, d) == s = admin[d] \/ d \in creators[s]

IsAdmin(s, d) == s = admin[d]

(* Only the supply is looked at. *)
ValidateCreateDenomOnce(creator, subdenom) ==
  ~HasSupply(subdenom) /\ ~HasSupply(TokenDenom(creator, subdenom))

ValidateCreateDenom(creator, subdenom) ==
  ~HasSupply(subdenom) /\ ~HasMetadata(TokenDenom(creator, subdenom))

ChargeForCreateDenom(creator) ==
  /\ CanSend(Native, creator, CreationFee)
  /\ balances' = Sent(balances, Native, creator, Pool, CreationFee)

(* `md' is the metadata that the bank module has in the end. *)
CreateDenomWith(s, subdenom, md) ==
  LET d == TokenDenom(s, subdenom) IN
  /\ ValidateCreateDenom(s, subdenom)
  /\ ChargeForCreateDenom(s)
  /\ metadata' = [metadata EXCEPT ![d] = md]
  /\ admin' = [admin EXCEPT ![d] = s]
  /\ creators' = [creators EXCEPT ![s] = @ \cup {d}]
  /\ SentBy(s)
  /\ UNCHANGED supply

CreateDenom(s, subdenom) == CreateDenomWith(s, subdenom, "minimal")

(* Only the module's own account is refused. *)
MintToModules(d, n, to) ==
  /\ d \in FactoryDenoms
  /\ to # Module
  /\ supply[d] + n <= MaxSupply
  /\ supply' = [supply EXCEPT ![d] = @ + n]
  /\ balances' = Sent(Credited(balances, d, Module, n), d, Module, to, n)

(* keeper.mintTo; the coins pass through the module account. *)
MintTo(d, n, to) ==
  /\ d \in FactoryDenoms
  /\ to \notin Blocked
  /\ supply[d] + n <= MaxSupply
  /\ supply' = [supply EXCEPT ![d] = @ + n]
  /\ balances' = Sent(Credited(balances, d, Module, n), d, Module, to, n)

Mint(s, d, n, to) ==
  /\ HasMetadata(d)
  /\ IsAdmin(s, d)
  /\ MintTo(d, n, to)
  /\ sender' = s /\ recipient' = to
  /\ UNCHANGED <<admin, creators, metadata>>

(* The coins are collected in the module account and never destroyed. *)
BurnFromCollected(d, n, from) ==
  /\ d \in FactoryDenoms
  /\ from \notin Blocked
  /\ CanSend(d, from, n)
  /\ balances' = Sent(balances, d, from, Module, n)
  /\ UNCHANGED supply

(* keeper.burnFrom; the bank module panics rather than let the supply drop *)
(* below zero.                                                             *)
BurnFrom(d, n, from) ==
  /\ d \in FactoryDenoms
  /\ from \notin Blocked
  /\ CanSend(d, from, n)
  /\ supply[d] >= n
  /\ balances' = Debited(Sent(balances, d, from, Module, n), d, Module, n)
  /\ supply' = [supply EXCEPT ![d] = @ - n]

Burn(s, d, n, from) ==
  /\ IsAdmin(s, d)
  /\ from = s \/ IsCapabilityEnabled("enable_burn_from")
  /\ BurnFrom(d, n, from)
  /\ SentBy(s)
  /\ UNCHANGED <<admin, creators, metadata>>

(* The address whose coins are taken is not looked at. *)
ForceTransferCoins(d, n, from, to) ==
  /\ d \in FactoryDenoms
  /\ to \notin Blocked
  /\ CanSend(d, from, n)
  /\ balances' = Sent(balances, d, from, to, n)

(* Everybody is admin. *)
ForceTransferByAnyone(s, d, n, from, to) ==
  /\ IsCapabilityEnabled("enable_force_transfer")
  /\ ForceTransferCoins(d, n, from, to)
  /\ SentBy(s)
  /\ UNCHANGED <<admin, creators, metadata, supply>>

ForceTransfer(s, d, n, from, to) ==
  /\ IsCapabilityEnabled("enable_force_transfer")
  /\ IsAdmin(s, d)
  /\ ForceTransferCoins(d, n, from, to)
  /\ SentBy(s)
  /\ UNCHANGED <<admin, creators, metadata, supply>>

(* Any address will do, but it must be one. *)
ValidNewAdmin(a) == a \in Holders

ChangeAdmin(s, d, newAdmin) ==
  /\ ValidNewAdmin(newAdmin)
  /\ d \in FactoryDenoms
  /\ IsAdmin(s, d)
  /\ admin' = [admin EXCEPT ![d] = newAdmin]
  /\ SentBy(s)
  /\ UNCHANGED <<creators, metadata, supply, balances>>

SetDenomMetadata(s, d) ==
  /\ IsCapabilityEnabled("enable_metadata")
  /\ d \in FactoryDenoms
  /\ IsAdmin(s, d)
  /\ metadata' = [metadata EXCEPT ![d] = "custom"]
  /\ SentBy(s)
  /\ UNCHANGED <<admin, creators, supply, balances>>

-----------------------------------------------------------------------------
(* The bindings: what contract `c' does with a custom message.             *)

(* With metadata, PerformSetMetadata follows; the contract is admin. *)
PerformCreateDenom(c, subdenom, md) == CreateDenomWith(c, subdenom, md)

(* The coins are minted to the contract and sent on.  When the recipient   *)
(* is blocked, errorsmod.Wrapf(err, ...) wraps a nil error and is nil.     *)
PerformMint(c, d, n, rcpt) ==
  /\ HasMetadata(d)
  /\ IsAdmin(c, d)
  /\ d \in FactoryDenoms
  /\ supply[d] + n <= MaxSupply
  /\ supply' = [supply EXCEPT ![d] = @ + n]
  /\ LET minted == Sent(Credited(balances, d, Module, n), d, Module, c, n)
     IN  balances' = IF rcpt \in Blocked THEN minted
                     ELSE Sent(minted, d, c, rcpt, n)
  /\ sender' = c /\ recipient' = rcpt
  /\ UNCHANGED <<admin, creators, metadata>>

PerformBurn(c, d, n, from) == Burn(c, d, n, from)

PerformForceTransfer(c, d, n, from, to) == ForceTransfer(c, d, n, from, to)

PerformChangeAdmin(c, d, newAdmin) == ChangeAdmin(c, d, newAdmin)

(* Everybody may write metadata. *)
PerformSetMetadataUnchecked(c, d) ==
  /\ metadata' = [metadata EXCEPT ![d] = "custom"]
  /\ SentBy(c)
  /\ UNCHANGED <<admin, creators, supply, balances>>

(* The msg server is not called, and so no capability is asked for. *)
PerformSetMetadata(c, d) ==
  /\ IsAdmin(c, d)
  /\ metadata' = [metadata EXCEPT ![d] = "custom"]
  /\ SentBy(c)
  /\ UNCHANGED <<admin, creators, supply, balances>>

-----------------------------------------------------------------------------
(* Coins also move by the messages of other modules.                       *)

BankSend(s, d, n, to) ==
  /\ to \notin Blocked
  /\ CanSend(d, s, n)
  /\ balances' = Sent(balances, d, s, to, n)
  /\ SentBy(s)
  /\ UNCHANGED <<admin, creators, metadata, supply>>

FundCommunityPool(s, d, n) ==
  /\ CanSend(d, s, n)
  /\ balances' = Sent(balances, d, s, Pool, n)
  /\ SentBy(s)
  /\ UNCHANGED <<admin, creators, metadata, supply>>

Messages(s) ==
  \/ \E sub \in Subdenoms : CreateDenom(s, sub)
  \/ \E d \in Denoms, n \in Amounts, to \in Holders : Mint(s, d, n, to)
  \/ \E d \in Denoms, n \in Amounts, from \in Holders : Burn(s, d, n, from)
  \/ \E d \in Denoms, n \in Amounts, from, to \in Holders :
        ForceTransfer(s, d, n, from, to)
  \/ \E d \in Denoms, new \in Holders \cup {None} : ChangeAdmin(s, d, new)
  \/ \E d \in Denoms : SetDenomMetadata(s, d)

CustomMessages(c) ==
  \/ \E sub \in Subdenoms, md \in {"minimal", "custom"} : PerformCreateDenom(c, sub, md)
  \/ \E d \in Denoms, n \in Amounts, to \in Holders : PerformMint(c, d, n, to)
  \/ \E d \in Denoms, n \in Amounts, from \in Holders : PerformBurn(c, d, n, from)
  \/ \E d \in Denoms, n \in Amounts, from, to \in Holders :
        PerformForceTransfer(c, d, n, from, to)
  \/ \E d \in Denoms, new \in Holders : PerformChangeAdmin(c, d, new)
  \/ \E d \in Denoms : PerformSetMetadata(c, d)

Transfers(s) ==
  \/ \E d \in Denoms, n \in Amounts, to \in Holders : BankSend(s, d, n, to)
  \/ \E d \in Denoms, n \in Amounts : FundCommunityPool(s, d, n)

Next ==
  \/ \E s \in Accounts : Messages(s)
  \/ \E c \in Contracts : CustomMessages(c)
  \/ \E s \in Accounts : Transfers(s)
  \/ ExportImport

Spec == Init /\ [][Next]_vars

-----------------------------------------------------------------------------
(* Properties.                                                             *)

TypeOK ==
  /\ admin \in [Denoms -> Holders \cup {None}]
  /\ creators \in [Accounts -> SUBSET FactoryDenoms]
  /\ metadata \in [Denoms -> {"none", "minimal", "custom"}]
  /\ supply \in [Denoms -> Nat]
  /\ balances \in [Denoms -> [Holders -> Nat]]
  /\ sender \in Accounts \cup {None}
  /\ recipient \in Holders \cup {None}

Exists(d) == \E c \in Accounts : d \in creators[c]

(* The store's two key spaces and the bank module agree on what exists:    *)
(* each denomination is listed once, under the creator in its name; those  *)
(* and no others have metadata, which is what CreateDenom and Mint look    *)
(* at; and only they can have an admin.                                    *)
RegistryAgrees ==
  /\ \A c \in Accounts : \A d \in creators[c] : CreatorOf(d) = c
  /\ \A d \in Denoms : Exists(d) <=> HasMetadata(d)
  /\ \A d \in Denoms : admin[d] # None => Exists(d)

(* Mint and Burn leave nothing behind in the module account they use, and  *)
(* no transfer reaches it.                                                 *)
ModuleEmpty == \A d \in Denoms : balances[d][Module] = 0

(* Exporting the chain and importing it gives every denomination the admin *)
(* and the place in the creators' lists that it had.                       *)
GenesisRoundTrip ==
  /\ ImportedAdmins(ExportGenesis) = admin
  /\ ImportedCreators(ExportGenesis) = creators

(* A denomination gets an admin when its creator creates it; from then on  *)
(* only the admin of the moment names another.  One without admin stays    *)
(* without, creating it anew included.                                     *)
AdminHandedOver ==
  [][\A d \in Denoms : admin'[d] # admin[d] =>
       IF HasMetadata(d) THEN sender' = admin[d]
       ELSE sender' = CreatorOf(d) /\ admin'[d] = sender']_vars

(* Only the admin of the moment changes a supply; nobody that of the       *)
(* native coin, or of a denomination without admin.                        *)
SupplyByAdmin ==
  [][\A d \in Denoms : supply'[d] # supply[d] => sender' = admin[d]]_vars

(* Coins leave an account by its own message or the admin's, and by the    *)
(* admin's only where the chain enables burning from or moving between the *)
(* accounts of others.                                                     *)
BalancesProtected ==
  [][\A d \in Denoms, h \in Holders : balances'[d][h] < balances[d][h] =>
       \/ sender' = h
       \/ /\ sender' = admin[d]
          /\ \/ IsCapabilityEnabled("enable_burn_from")
             \/ IsCapabilityEnabled("enable_force_transfer")]_vars

(* A blocked module account (all but the authority and the fee collector)  *)
(* gets coins only from the account that sends the message: no admin mints *)
(* to it or moves the coins of others to it.                               *)
NothingForcedOnModules ==
  [][\A d \in Denoms, m \in Blocked : balances'[d][m] > balances[d][m] =>
       /\ sender' # None
       /\ balances'[d][sender'] < balances[d][sender']]_vars

(* A mint that succeeds gives the coins to the recipient it was asked for, *)
(* whether it was a message or the custom message of a contract.           *)
MintDelivers ==
  [][recipient' # None => \A d \in Denoms :
       balances'[d][recipient'] + supply[d] = balances[d][recipient'] + supply'[d]]_vars
=============================================================================
