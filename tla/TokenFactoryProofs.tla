------------------------- MODULE TokenFactoryProofs -------------------------
(***************************************************************************)
(* Proofs about TokenFactory.  The inductive invariant is the conjunction  *)
(* of three invariants of the runs: that only the denominations that exist *)
(* have an admin is what lets metadata be set for them alone, and the      *)
(* action properties follow from it.                                       *)
(***************************************************************************)
EXTENDS TokenFactory, FiniteSetTheorems, TLAPS

Inv == TypeOK /\ RegistryAgrees /\ ModuleEmpty

BalanceType == [Denoms -> [Holders -> Nat]]

-----------------------------------------------------------------------------
(* The bank module.                                                        *)

(* What Credited changes. *)
LEMMA CreditedBalances ==
  ASSUME NEW b \in BalanceType, NEW d \in Denoms, NEW h \in Holders, NEW n \in Nat
  PROVE  /\ Credited(b, d, h, n) \in BalanceType
         /\ \A e \in Denoms, k \in Holders : Credited(b, d, h, n)[e][k] =
              IF e = d /\ k = h THEN b[e][k] + n ELSE b[e][k]
<1>1. [b[d] EXCEPT ![h] = @ + n] \in [Holders -> Nat]
  BY DEF BalanceType
<1> QED
  BY <1>1 DEF Credited, BalanceType

(* What Debited changes, when the balance covers it. *)
LEMMA DebitedBalances ==
  ASSUME NEW b \in BalanceType, NEW d \in Denoms, NEW h \in Holders, NEW n \in Nat,
         b[d][h] >= n
  PROVE  /\ Debited(b, d, h, n) \in BalanceType
         /\ \A e \in Denoms, k \in Holders : Debited(b, d, h, n)[e][k] =
              IF e = d /\ k = h THEN b[e][k] - n ELSE b[e][k]
<1>1. [b[d] EXCEPT ![h] = @ - n] \in [Holders -> Nat]
  BY DEF BalanceType
<1> QED
  BY <1>1 DEF Debited, BalanceType

(* What a covered transfer changes; one to oneself changes nothing. *)
LEMMA SentBalances ==
  ASSUME NEW b \in BalanceType, NEW d \in Denoms, NEW from \in Holders,
         NEW to \in Holders, NEW n \in Nat, b[d][from] >= n
  PROVE  /\ Sent(b, d, from, to, n) \in BalanceType
         /\ \A e \in Denoms, k \in Holders : Sent(b, d, from, to, n)[e][k] =
              IF e # d \/ from = to THEN b[e][k]
              ELSE IF k = from THEN b[e][k] - n
              ELSE IF k = to THEN b[e][k] + n ELSE b[e][k]
<1>1. PICK c : c = Debited(b, d, from, n)
  OBVIOUS
<1>2. /\ c \in BalanceType
      /\ \A e \in Denoms, k \in Holders : c[e][k] =
              IF e = d /\ k = from THEN b[e][k] - n ELSE b[e][k]
  BY <1>1, DebitedBalances
<1>3. /\ Credited(c, d, to, n) \in BalanceType
      /\ \A e \in Denoms, k \in Holders : Credited(c, d, to, n)[e][k] =
              IF e = d /\ k = to THEN c[e][k] + n ELSE c[e][k]
  BY <1>2, CreditedBalances
<1>4. \A e \in Denoms, k \in Holders : b[e][k] \in Nat
  BY DEF BalanceType
<1> QED
  BY <1>1, <1>2, <1>3, <1>4 DEF Sent

(* Minting through the module account gives the coins to the recipient. *)
LEMMA MintedBalances ==
  ASSUME NEW b \in BalanceType, NEW d \in Denoms, NEW to \in Accounts, NEW n \in Nat
  PROVE  LET m == Sent(Credited(b, d, Module, n), d, Module, to, n)
         IN  /\ m \in BalanceType
             /\ \A e \in Denoms, k \in Holders :
                  m[e][k] = IF e = d /\ k = to THEN b[e][k] + n ELSE b[e][k]
<1>1. PICK c : c = Credited(b, d, Module, n)
  OBVIOUS
<1>2. Module \in Holders /\ to \in Holders /\ to # Module
  BY FactoryAssumption DEF Holders, Blocked
<1>3. /\ c \in BalanceType
      /\ \A e \in Denoms, k \in Holders : c[e][k] =
              IF e = d /\ k = Module THEN b[e][k] + n ELSE b[e][k]
  BY <1>1, <1>2, CreditedBalances
<1>4. \A e \in Denoms, k \in Holders : b[e][k] \in Nat
  BY DEF BalanceType
<1>5. c[d][Module] >= n
  BY <1>2, <1>3, <1>4
<1>6. /\ Sent(c, d, Module, to, n) \in BalanceType
      /\ \A e \in Denoms, k \in Holders : Sent(c, d, Module, to, n)[e][k] =
              IF e # d \/ Module = to THEN c[e][k]
              ELSE IF k = Module THEN c[e][k] - n
              ELSE IF k = to THEN c[e][k] + n ELSE c[e][k]
  BY <1>2, <1>3, <1>5, SentBalances
<1> QED
  BY <1>1, <1>2, <1>3, <1>4, <1>6

(* Burning through the module account takes the coins of the holder. *)
LEMMA BurntBalances ==
  ASSUME NEW b \in BalanceType, NEW d \in Denoms, NEW from \in Accounts,
         NEW n \in Nat, b[d][from] >= n
  PROVE  LET m == Debited(Sent(b, d, from, Module, n), d, Module, n)
         IN  /\ m \in BalanceType
             /\ \A e \in Denoms, k \in Holders :
                  m[e][k] = IF e = d /\ k = from THEN b[e][k] - n ELSE b[e][k]
<1>1. PICK c : c = Sent(b, d, from, Module, n)
  OBVIOUS
<1>2. Module \in Holders /\ from \in Holders /\ from # Module
  BY FactoryAssumption DEF Holders, Blocked
<1>3. /\ c \in BalanceType
      /\ \A e \in Denoms, k \in Holders : c[e][k] =
              IF e # d \/ from = Module THEN b[e][k]
              ELSE IF k = from THEN b[e][k] - n
              ELSE IF k = Module THEN b[e][k] + n ELSE b[e][k]
  BY <1>1, <1>2, SentBalances
<1>4. \A e \in Denoms, k \in Holders : b[e][k] \in Nat
  BY DEF BalanceType
<1>5. c[d][Module] >= n
  BY <1>2, <1>3, <1>4
<1>6. /\ Debited(c, d, Module, n) \in BalanceType
      /\ \A e \in Denoms, k \in Holders : Debited(c, d, Module, n)[e][k] =
              IF e = d /\ k = Module THEN c[e][k] - n ELSE c[e][k]
  BY <1>2, <1>3, <1>5, DebitedBalances
<1> QED
  BY <1>1, <1>2, <1>3, <1>4, <1>6

-----------------------------------------------------------------------------
(* The actions.                                                            *)

(* The bodies of the action properties. *)
AdminStep ==
  \A d \in Denoms : admin'[d] # admin[d] =>
    IF HasMetadata(d) THEN sender' = admin[d]
    ELSE sender' = CreatorOf(d) /\ admin'[d] = sender'

SupplyStep == \A d \in Denoms : supply'[d] # supply[d] => sender' = admin[d]

BalanceStep ==
  \A d \in Denoms, h \in Holders : balances'[d][h] < balances[d][h] =>
    \/ sender' = h
    \/ /\ sender' = admin[d]
       /\ \/ IsCapabilityEnabled("enable_burn_from")
          \/ IsCapabilityEnabled("enable_force_transfer")

ModuleStep ==
  \A d \in Denoms, m \in Blocked : balances'[d][m] > balances[d][m] =>
    /\ sender' # None
    /\ balances'[d][sender'] < balances[d][sender']

(* What is shown of the bank module's part of every step. *)
CoinStep ==
  /\ supply' \in [Denoms -> Nat]
  /\ balances' \in BalanceType
  /\ \A d \in Denoms : balances'[d][Module] = 0
  /\ SupplyStep /\ BalanceStep /\ ModuleStep

(* Facts of the invariant that every action needs. *)
LEMMA InvFacts ==
  ASSUME Inv
  PROVE  /\ balances \in BalanceType
         /\ \A d \in Denoms, h \in Holders : balances[d][h] \in Nat
         /\ \A d \in Denoms : balances[d][Module] = 0
         /\ supply \in [Denoms -> Nat]
         /\ Accounts \subseteq Holders
         /\ Module \in Holders /\ Pool \in Holders /\ Pool # Module
         /\ Module \notin Accounts /\ Pool \notin Accounts /\ None \notin Accounts
         /\ Native \in Denoms /\ FactoryDenoms \subseteq Denoms
         /\ Amounts \subseteq Nat /\ 0 \notin Amounts
         /\ \A h \in Holders : h \notin Blocked => h \in Accounts
<1>1. balances \in BalanceType /\ supply \in [Denoms -> Nat]
  BY DEF Inv, TypeOK, BalanceType
<1>2. \A d \in Denoms, h \in Holders : balances[d][h] \in Nat
  BY <1>1 DEF BalanceType
<1>3. \A d \in Denoms : balances[d][Module] = 0
  BY DEF Inv, ModuleEmpty
<1>4. /\ Accounts \subseteq Holders
      /\ Module \in Holders /\ Pool \in Holders /\ Pool # Module
      /\ Module \notin Accounts /\ Pool \notin Accounts /\ None \notin Accounts
      /\ \A h \in Holders : h \notin Blocked => h \in Accounts
  BY FactoryAssumption DEF Holders, Blocked
<1>5. Native \in Denoms /\ FactoryDenoms \subseteq Denoms
  BY DEF Denoms
<1>6. Amounts \subseteq Nat /\ 0 \notin Amounts
  BY FactoryAssumption DEF Amounts
<1> QED
  BY <1>1, <1>2, <1>3, <1>4, <1>5, <1>6

(* Only a denomination that exists has an admin who could act. *)
LEMMA AdminFacts ==
  ASSUME Inv, NEW s \in Accounts, NEW d \in Denoms, IsAdmin(s, d)
  PROVE  Exists(d) /\ HasMetadata(d) /\ d \in FactoryDenoms
BY InvFacts DEF Inv, TypeOK, RegistryAgrees, IsAdmin, Exists

(* A transfer between two accounts that the sender may order. *)
LEMMA TransferStep ==
  ASSUME Inv, NEW s \in Accounts, NEW d \in Denoms, NEW from \in Holders,
         NEW to \in Holders, NEW n \in Nat, balances[d][from] >= n,
         from # Module \/ n = 0, to # Module,
         to = Pool => from = s,
         \/ from = s
         \/ s = admin[d] /\ IsCapabilityEnabled("enable_force_transfer"),
         balances' = Sent(balances, d, from, to, n), sender' = s
  PROVE  /\ balances' \in BalanceType
         /\ \A e \in Denoms : balances'[e][Module] = 0
         /\ BalanceStep /\ ModuleStep
<1>1. /\ balances' \in BalanceType
      /\ \A e \in Denoms, k \in Holders : balances'[e][k] =
              IF e # d \/ from = to THEN balances[e][k]
              ELSE IF k = from THEN balances[e][k] - n
              ELSE IF k = to THEN balances[e][k] + n ELSE balances[e][k]
  BY InvFacts, SentBalances
<1>2. \A e \in Denoms : balances'[e][Module] = 0
  BY <1>1, InvFacts
<1>3. BalanceStep
  BY <1>1, InvFacts DEF BalanceStep
<1>4. ModuleStep
  <2> SUFFICES ASSUME NEW e \in Denoms, NEW m \in Blocked,
                      balances'[e][m] > balances[e][m]
               PROVE  sender' # None /\ balances'[e][sender'] < balances[e][sender']
    BY DEF ModuleStep
  <2>1. m \in Holders
    BY DEF Holders
  <2>2. e = d /\ from # to /\ m = to /\ n # 0
    BY <1>1, <2>1, InvFacts
  <2>3. m = Pool
    BY <2>2 DEF Blocked
  <2> QED
    BY <1>1, <2>2, <2>3, InvFacts
<1> QED
  BY <1>1, <1>2, <1>3, <1>4

(* An admin's mint to an account, also through a contract. *)
LEMMA MintStep ==
  ASSUME Inv, NEW s \in Accounts, NEW d \in Denoms, NEW to \in Accounts,
         NEW n \in Nat, IsAdmin(s, d), sender' = s,
         supply' = [supply EXCEPT ![d] = @ + n],
         balances' \in BalanceType,
         \A e \in Denoms, k \in Holders : balances'[e][k] =
           IF e = d /\ k = to THEN balances[e][k] + n ELSE balances[e][k]
  PROVE  CoinStep
<1>1. supply' \in [Denoms -> Nat] /\ SupplyStep
  BY InvFacts DEF SupplyStep, IsAdmin
<1>2. \A e \in Denoms : balances'[e][Module] = 0
  BY InvFacts
<1>3. BalanceStep
  BY InvFacts DEF BalanceStep
<1>4. ModuleStep
  <2> SUFFICES ASSUME NEW e \in Denoms, NEW m \in Blocked
               PROVE  balances'[e][m] = balances[e][m]
    BY InvFacts DEF ModuleStep, Holders
  <2>1. m \in Holders /\ m # to
    BY InvFacts DEF Holders, Blocked
  <2> QED
    BY <2>1
<1> QED
  BY <1>1, <1>2, <1>3, <1>4 DEF CoinStep

(* Mint. *)
LEMMA MintCoins ==
  ASSUME Inv, NEW s \in Accounts, NEW d \in Denoms, NEW n \in Amounts,
         NEW to \in Holders, Mint(s, d, n, to)
  PROVE  CoinStep
<1>1. to \in Accounts /\ n \in Nat /\ IsAdmin(s, d) /\ sender' = s
      /\ supply' = [supply EXCEPT ![d] = @ + n]
      /\ balances' = Sent(Credited(balances, d, Module, n), d, Module, to, n)
  BY InvFacts DEF Mint, MintTo
<1>2. /\ balances' \in BalanceType
      /\ \A e \in Denoms, k \in Holders : balances'[e][k] =
           IF e = d /\ k = to THEN balances[e][k] + n ELSE balances[e][k]
  <2>1. balances \in BalanceType
    BY InvFacts
  <2> QED
    BY <1>1, <2>1, MintedBalances
<1> QED
  BY <1>1, <1>2, MintStep

(* The binding's mint: to the contract, and on to the recipient. *)
LEMMA PerformMintCoins ==
  ASSUME Inv, NEW c \in Accounts, NEW d \in Denoms, NEW n \in Amounts,
         NEW rcpt \in Holders, PerformMint(c, d, n, rcpt)
  PROVE  CoinStep
<1>1. PICK m : m = Sent(Credited(balances, d, Module, n), d, Module, c, n)
  OBVIOUS
<1>2. n \in Nat /\ IsAdmin(c, d) /\ sender' = c
      /\ supply' = [supply EXCEPT ![d] = @ + n]
      /\ balances' = IF rcpt \in Blocked THEN m ELSE Sent(m, d, c, rcpt, n)
  BY <1>1, InvFacts DEF PerformMint
<1>3. /\ m \in BalanceType
      /\ \A e \in Denoms, k \in Holders : m[e][k] =
           IF e = d /\ k = c THEN balances[e][k] + n ELSE balances[e][k]
  <2>1. balances \in BalanceType
    BY InvFacts
  <2> QED
    BY <1>1, <1>2, <2>1, MintedBalances
<1>4. CASE rcpt \in Blocked
  BY <1>2, <1>3, <1>4, MintStep
<1>5. CASE rcpt \notin Blocked
  <2>1. rcpt \in Accounts /\ c \in Holders
    BY <1>5, InvFacts
  <2>2. m[d][c] >= n
    BY <1>2, <1>3, <2>1, InvFacts
  <2>3. /\ balances' \in BalanceType
        /\ \A e \in Denoms, k \in Holders : balances'[e][k] =
              IF e # d \/ c = rcpt THEN m[e][k]
              ELSE IF k = c THEN m[e][k] - n
              ELSE IF k = rcpt THEN m[e][k] + n ELSE m[e][k]
    BY <1>2, <1>3, <1>5, <2>1, <2>2, SentBalances
  <2>4. \A e \in Denoms, k \in Holders : balances'[e][k] =
           IF e = d /\ k = rcpt THEN balances[e][k] + n ELSE balances[e][k]
    BY <1>2, <1>3, <2>1, <2>3, InvFacts
  <2> QED
    BY <1>2, <2>1, <2>3, <2>4, MintStep
<1> QED
  BY <1>4, <1>5

(* Burn. *)
LEMMA BurnCoins ==
  ASSUME Inv, NEW s \in Accounts, NEW d \in Denoms, NEW n \in Amounts,
         NEW from \in Holders, Burn(s, d, n, from)
  PROVE  CoinStep
<1>1. from \in Accounts /\ n \in Nat /\ s = admin[d] /\ sender' = s
      /\ balances[d][from] >= n /\ supply[d] >= n
      /\ supply' = [supply EXCEPT ![d] = @ - n]
      /\ balances' = Debited(Sent(balances, d, from, Module, n), d, Module, n)
  BY InvFacts DEF Burn, BurnFrom, IsAdmin, CanSend, SentBy
<1>2. from = s \/ IsCapabilityEnabled("enable_burn_from")
  BY DEF Burn
<1>3. /\ balances' \in BalanceType
      /\ \A e \in Denoms, k \in Holders : balances'[e][k] =
           IF e = d /\ k = from THEN balances[e][k] - n ELSE balances[e][k]
  BY <1>1, InvFacts, BurntBalances
<1>4. supply' \in [Denoms -> Nat] /\ SupplyStep
  BY <1>1, InvFacts DEF SupplyStep
<1>5. \A e \in Denoms : balances'[e][Module] = 0
  BY <1>1, <1>3, InvFacts
<1>6. BalanceStep
  BY <1>1, <1>2, <1>3, InvFacts DEF BalanceStep
<1>7. ModuleStep
  BY <1>1, <1>3, InvFacts DEF ModuleStep, Holders
<1> QED
  BY <1>3, <1>4, <1>5, <1>6, <1>7 DEF CoinStep

(* ForceTransfer.  The module account has nothing that could be taken. *)
LEMMA ForceTransferMoves ==
  ASSUME Inv, NEW s \in Accounts, NEW d \in Denoms, NEW n \in Amounts,
         NEW from \in Holders, NEW to \in Holders, ForceTransfer(s, d, n, from, to)
  PROVE  CoinStep
<1>1. n \in Nat /\ n # 0 /\ s = admin[d] /\ sender' = s
      /\ balances[d][from] >= n /\ supply' = supply
      /\ balances' = Sent(balances, d, from, to, n)
  BY InvFacts DEF ForceTransfer, ForceTransferCoins, IsAdmin, CanSend, SentBy
<1>2. IsCapabilityEnabled("enable_force_transfer")
  BY DEF ForceTransfer
<1>3. to # Module /\ to # Pool
  BY DEF ForceTransfer, ForceTransferCoins, Blocked
<1>4. from # Module
  BY <1>1, InvFacts
<1>5. /\ balances' \in BalanceType
      /\ \A e \in Denoms : balances'[e][Module] = 0
      /\ BalanceStep /\ ModuleStep
  BY <1>1, <1>2, <1>3, <1>4, TransferStep
<1>6. supply' \in [Denoms -> Nat] /\ SupplyStep
  BY <1>1, InvFacts DEF SupplyStep
<1> QED
  BY <1>5, <1>6 DEF CoinStep

(* A transfer by the holder: a bank send, a gift to the pool, or the fee.  *)
LEMMA OwnTransfer ==
  ASSUME Inv, NEW s \in Accounts, NEW d \in Denoms, NEW n \in Nat,
         NEW to \in Holders, to # Module, balances[d][s] >= n,
         balances' = Sent(balances, d, s, to, n), sender' = s, supply' = supply
  PROVE  CoinStep
<1>1. s \in Holders /\ s # Module
  BY InvFacts
<1>2. /\ balances' \in BalanceType
      /\ \A e \in Denoms : balances'[e][Module] = 0
      /\ BalanceStep /\ ModuleStep
  BY <1>1, TransferStep
<1>3. supply' \in [Denoms -> Nat] /\ SupplyStep
  BY InvFacts DEF SupplyStep
<1> QED
  BY <1>2, <1>3 DEF CoinStep

(* Steps that move no coins. *)
LEMMA NoTransfer ==
  ASSUME Inv, UNCHANGED <<supply, balances>>
  PROVE  CoinStep
<1>1. supply' = supply /\ balances' = balances
  OBVIOUS
<1>2. BalanceStep
  BY <1>1, InvFacts DEF BalanceStep
<1>3. ModuleStep
  BY <1>1, InvFacts DEF ModuleStep, Holders
<1>4. SupplyStep
  BY <1>1 DEF SupplyStep
<1> QED
  BY <1>1, <1>2, <1>3, <1>4, InvFacts DEF CoinStep

(* What is shown of the registry's part of every step. *)
RegistryStep ==
  /\ admin' \in [Denoms -> Holders \cup {None}]
  /\ creators' \in [Accounts -> SUBSET FactoryDenoms]
  /\ metadata' \in [Denoms -> {"none", "minimal", "custom"}]
  /\ RegistryAgrees'
  /\ AdminStep

(* Steps that leave the registry alone. *)
LEMMA NoRegistryChange ==
  ASSUME Inv, UNCHANGED <<admin, creators, metadata>>
  PROVE  RegistryStep
BY DEF Inv, TypeOK, RegistryStep, RegistryAgrees, AdminStep, Exists, HasMetadata

(* CreateDenom, with whatever metadata it ends. *)
LEMMA CreateRegistry ==
  ASSUME Inv, NEW s \in Accounts, NEW sub \in Subdenoms,
         NEW md \in {"minimal", "custom"}, CreateDenomWith(s, sub, md)
  PROVE  RegistryStep
<1> DEFINE d == TokenDenom(s, sub)
<1>1. d \in FactoryDenoms /\ d \in Denoms /\ CreatorOf(d) = s
  BY DEF TokenDenom, CreatorOf, FactoryDenoms, Denoms
<1>2. /\ metadata[d] = "none"
      /\ metadata' = [metadata EXCEPT ![d] = md]
      /\ admin' = [admin EXCEPT ![d] = s]
      /\ creators' = [creators EXCEPT ![s] = @ \cup {d}]
      /\ sender' = s
  BY DEF CreateDenomWith, ValidateCreateDenom, HasMetadata, SentBy
<1> HIDE DEF d
<1>3. /\ admin' \in [Denoms -> Holders \cup {None}]
      /\ creators' \in [Accounts -> SUBSET FactoryDenoms]
      /\ metadata' \in [Denoms -> {"none", "minimal", "custom"}]
  BY <1>1, <1>2, InvFacts DEF Inv, TypeOK
<1>4. \A c \in Accounts : \A e \in creators'[c] : CreatorOf(e) = c
  BY <1>1, <1>2 DEF Inv, TypeOK, RegistryAgrees
<1>5. \A e \in Denoms : Exists(e)' <=> (Exists(e) \/ e = d)
  BY <1>1, <1>2 DEF Inv, TypeOK, Exists
<1>6. \A e \in Denoms : HasMetadata(e)' <=> (HasMetadata(e) \/ e = d)
  BY <1>1, <1>2 DEF Inv, TypeOK, HasMetadata
<1>7. \A e \in Denoms : e # d => admin'[e] = admin[e]
  BY <1>1, <1>2 DEF Inv, TypeOK
<1>8. RegistryAgrees'
  BY <1>4, <1>5, <1>6, <1>7 DEF Inv, RegistryAgrees
<1>9. AdminStep
  BY <1>1, <1>2, <1>7 DEF Inv, TypeOK, AdminStep, HasMetadata
<1> QED
  BY <1>3, <1>8, <1>9 DEF RegistryStep

(* ChangeAdmin. *)
LEMMA ChangeAdminRegistry ==
  ASSUME Inv, NEW s \in Accounts, NEW d \in Denoms, NEW new, ChangeAdmin(s, d, new)
  PROVE  RegistryStep
<1>1. new \in Holders /\ s = admin[d] /\ sender' = s
      /\ admin' = [admin EXCEPT ![d] = new]
      /\ UNCHANGED <<creators, metadata>>
  BY DEF ChangeAdmin, ValidNewAdmin, IsAdmin, SentBy
<1>2. Exists(d) /\ HasMetadata(d)
  BY AdminFacts DEF ChangeAdmin
<1>3. admin' \in [Denoms -> Holders \cup {None}]
  BY <1>1 DEF Inv, TypeOK
<1>4. \A e \in Denoms : e # d => admin'[e] = admin[e]
  BY <1>1 DEF Inv, TypeOK
<1>5. RegistryAgrees'
  BY <1>1, <1>2, <1>4 DEF Inv, RegistryAgrees, Exists, HasMetadata
<1>6. AdminStep
  BY <1>1, <1>2, <1>4 DEF AdminStep
<1> QED
  BY <1>1, <1>3, <1>5, <1>6 DEF Inv, TypeOK, RegistryStep

(* SetDenomMetadata and PerformSetMetadata. *)
LEMMA MetadataRegistry ==
  ASSUME Inv, NEW s \in Accounts, NEW d \in Denoms, IsAdmin(s, d),
         metadata' = [metadata EXCEPT ![d] = "custom"],
         UNCHANGED <<admin, creators>>
  PROVE  RegistryStep
<1>1. HasMetadata(d)
  BY AdminFacts
<1>2. \A e \in Denoms : HasMetadata(e)' <=> HasMetadata(e)
  BY <1>1 DEF Inv, TypeOK, HasMetadata
<1>3. RegistryAgrees'
  BY <1>2 DEF Inv, RegistryAgrees, Exists
<1> QED
  BY <1>3 DEF Inv, TypeOK, RegistryStep, AdminStep

(* What is exported and imported again is what was there. *)
LEMMA RoundTrip ==
  ASSUME Inv
  PROVE  /\ GenesisRoundTrip
         /\ DOMAIN ExportGenesis = ExportedDenoms
         /\ \A d \in Denoms : d \in ExportedDenoms <=> Exists(d)
<1>1. \A d \in Denoms : d \in ExportedDenoms <=> Exists(d)
  BY DEF ExportedDenoms, Exists
<1>2. ExportedDenoms \subseteq Denoms
  BY DEF Inv, TypeOK, ExportedDenoms, Denoms
<1>3. DOMAIN ExportGenesis = ExportedDenoms
      /\ \A d \in ExportedDenoms : ExportGenesis[d] = admin[d]
  BY DEF ExportGenesis
<1>4. \A d \in Denoms : ~Exists(d) => admin[d] = None
  BY DEF Inv, RegistryAgrees
<1>5. ImportedAdmins(ExportGenesis) = admin
  BY <1>1, <1>3, <1>4 DEF Inv, TypeOK, ImportedAdmins
<1>6. ASSUME NEW c \in Accounts
      PROVE  {d \in ExportedDenoms : CreatorOf(d) = c} = creators[c]
  BY DEF Inv, RegistryAgrees, ExportedDenoms
<1>7. ImportedCreators(ExportGenesis) = creators
  BY <1>3, <1>6 DEF Inv, TypeOK, ImportedCreators
<1> QED
  BY <1>1, <1>3, <1>5, <1>7 DEF GenesisRoundTrip

(* ExportImport. *)
LEMMA ExportImportRegistry ==
  ASSUME Inv, ExportImport
  PROVE  RegistryStep
<1>1. admin' = admin /\ creators' = creators
  BY RoundTrip DEF ExportImport, GenesisRoundTrip
<1>2. metadata' = [d \in Denoms |-> IF d \in ExportedDenoms THEN "minimal"
                                    ELSE metadata[d]]
  BY RoundTrip DEF ExportImport, ImportedMetadata
<1>3. metadata' \in [Denoms -> {"none", "minimal", "custom"}]
  BY <1>2 DEF Inv, TypeOK
<1>4. \A d \in Denoms : HasMetadata(d)' <=> HasMetadata(d)
  BY <1>2, RoundTrip DEF Inv, RegistryAgrees, HasMetadata
<1>5. RegistryAgrees'
  BY <1>1, <1>4 DEF Inv, RegistryAgrees, Exists
<1> QED
  BY <1>1, <1>3, <1>5 DEF Inv, TypeOK, RegistryStep, AdminStep

(* The genesis satisfies the invariant. *)
LEMMA InitInv == Init => Inv
<1> SUFFICES ASSUME NEW g \in Genesis, InitGenesis(g)
             PROVE  Inv
  BY DEF Init
<1>1. DOMAIN g \subseteq FactoryDenoms
      /\ \A d \in DOMAIN g : g[d] \in Accounts \cup {None}
  BY DEF Genesis
<1>2. FactoryDenoms \subseteq Denoms /\ Native \in Denoms
      /\ Native \notin FactoryDenoms /\ Accounts \subseteq Holders
      /\ \A d \in FactoryDenoms : CreatorOf(d) \in Accounts
  BY FactoryAssumption DEF Denoms, FactoryDenoms, Holders, CreatorOf
<1>3. Cardinality(Accounts) \in Nat
  BY FactoryAssumption, FS_CardinalityType
<1>4. admin \in [Denoms -> Holders \cup {None}]
      /\ \A d \in Denoms : admin[d] # None => d \in DOMAIN g
  BY <1>1, <1>2 DEF InitGenesis, ImportedAdmins
<1>5. creators \in [Accounts -> SUBSET FactoryDenoms]
      /\ \A c \in Accounts : creators[c] = {d \in DOMAIN g : CreatorOf(d) = c}
  BY <1>1 DEF InitGenesis, ImportedCreators
<1>6. metadata \in [Denoms -> {"none", "minimal", "custom"}]
      /\ \A d \in Denoms : metadata[d] # "none" <=> d \in DOMAIN g
  BY <1>1 DEF InitGenesis, ImportedMetadata
<1>7. \A d \in Denoms, h \in Holders : GenesisBalance(g, d, h) \in Nat
  BY FactoryAssumption DEF GenesisBalance
<1>8. balances \in [Denoms -> [Holders -> Nat]]
  BY <1>7 DEF InitGenesis
<1>9. Wealth * Cardinality(Accounts) \in Nat
  BY <1>3, FactoryAssumption
<1>10. supply \in [Denoms -> Nat]
  BY <1>9 DEF InitGenesis
<1>11. TypeOK
  BY <1>4, <1>5, <1>6, <1>8, <1>10 DEF InitGenesis, TypeOK
<1>12. \A d \in Denoms : Exists(d) <=> d \in DOMAIN g
  BY <1>1, <1>2, <1>5 DEF Exists
<1>13. RegistryAgrees
  BY <1>4, <1>5, <1>6, <1>12 DEF RegistryAgrees, HasMetadata
<1>14. Module \in Holders /\ Module \notin Accounts
  BY FactoryAssumption DEF Holders, Blocked
<1>15. \A d \in Denoms : GenesisBalance(g, d, Module) = 0
  BY <1>1, <1>2, <1>14 DEF GenesisBalance
<1>16. ModuleEmpty
  BY <1>14, <1>15 DEF InitGenesis, ModuleEmpty
<1> QED
  BY <1>11, <1>13, <1>16 DEF Inv

(* The msg server's messages. *)
LEMMA MessageSteps ==
  ASSUME Inv, NEW s \in Accounts, Messages(s)
  PROVE  CoinStep /\ RegistryStep /\ sender' = s /\ recipient' \in Holders \cup {None}
<1>1. CASE \E sub \in Subdenoms : CreateDenom(s, sub)
  <2>1. PICK sub \in Subdenoms : CreateDenomWith(s, sub, "minimal")
    BY <1>1 DEF CreateDenom
  <2>2. CoinStep
    BY <2>1, OwnTransfer, InvFacts, FactoryAssumption
       DEF CreateDenomWith, ChargeForCreateDenom, CanSend, SentBy
  <2> QED
    BY <2>1, <2>2, CreateRegistry DEF CreateDenomWith, SentBy
<1>2. CASE \E d \in Denoms, n \in Amounts, to \in Holders : Mint(s, d, n, to)
  <2>1. PICK d \in Denoms, n \in Amounts, to \in Holders : Mint(s, d, n, to)
    BY <1>2
  <2> QED
    BY <2>1, MintCoins, NoRegistryChange DEF Mint
<1>3. CASE \E d \in Denoms, n \in Amounts, from \in Holders : Burn(s, d, n, from)
  <2>1. PICK d \in Denoms, n \in Amounts, from \in Holders : Burn(s, d, n, from)
    BY <1>3
  <2> QED
    BY <2>1, BurnCoins, NoRegistryChange DEF Burn, SentBy
<1>4. CASE \E d \in Denoms, n \in Amounts, from, to \in Holders :
              ForceTransfer(s, d, n, from, to)
  <2>1. PICK d \in Denoms, n \in Amounts, from \in Holders, to \in Holders :
              ForceTransfer(s, d, n, from, to)
    BY <1>4
  <2> QED
    BY <2>1, ForceTransferMoves, NoRegistryChange DEF ForceTransfer, SentBy
<1>5. CASE \E d \in Denoms, new \in Holders \cup {None} : ChangeAdmin(s, d, new)
  <2>1. PICK d \in Denoms, new \in Holders \cup {None} : ChangeAdmin(s, d, new)
    BY <1>5
  <2> QED
    BY <2>1, ChangeAdminRegistry, NoTransfer DEF ChangeAdmin, SentBy
<1>6. CASE \E d \in Denoms : SetDenomMetadata(s, d)
  <2>1. PICK d \in Denoms : SetDenomMetadata(s, d)
    BY <1>6
  <2> QED
    BY <2>1, MetadataRegistry, NoTransfer DEF SetDenomMetadata, SentBy
<1> QED
  BY <1>1, <1>2, <1>3, <1>4, <1>5, <1>6 DEF Messages

(* The contracts' custom messages. *)
LEMMA CustomMessageSteps ==
  ASSUME Inv, NEW c \in Contracts, CustomMessages(c)
  PROVE  CoinStep /\ RegistryStep /\ sender' = c /\ recipient' \in Holders \cup {None}
<1>1. c \in Accounts
  BY FactoryAssumption
<1>2. CASE \E sub \in Subdenoms, md \in {"minimal", "custom"} :
              PerformCreateDenom(c, sub, md)
  <2>1. PICK sub \in Subdenoms, md \in {"minimal", "custom"} :
              CreateDenomWith(c, sub, md)
    BY <1>2 DEF PerformCreateDenom
  <2>2. CoinStep
    BY <1>1, <2>1, OwnTransfer, InvFacts, FactoryAssumption
       DEF CreateDenomWith, ChargeForCreateDenom, CanSend, SentBy
  <2> QED
    BY <1>1, <2>1, <2>2, CreateRegistry DEF CreateDenomWith, SentBy
<1>3. CASE \E d \in Denoms, n \in Amounts, to \in Holders : PerformMint(c, d, n, to)
  <2>1. PICK d \in Denoms, n \in Amounts, to \in Holders : PerformMint(c, d, n, to)
    BY <1>3
  <2> QED
    BY <1>1, <2>1, PerformMintCoins, NoRegistryChange DEF PerformMint
<1>4. CASE \E d \in Denoms, n \in Amounts, from \in Holders : PerformBurn(c, d, n, from)
  BY <1>1, <1>4, MessageSteps DEF PerformBurn, Messages
<1>5. CASE \E d \in Denoms, n \in Amounts, from, to \in Holders :
              PerformForceTransfer(c, d, n, from, to)
  BY <1>1, <1>5, MessageSteps DEF PerformForceTransfer, Messages
<1>6. CASE \E d \in Denoms, new \in Holders : PerformChangeAdmin(c, d, new)
  <2>1. PICK d \in Denoms, new \in Holders : ChangeAdmin(c, d, new)
    BY <1>6 DEF PerformChangeAdmin
  <2> QED
    BY <1>1, <2>1, MessageSteps DEF Messages
<1>7. CASE \E d \in Denoms : PerformSetMetadata(c, d)
  <2>1. PICK d \in Denoms : PerformSetMetadata(c, d)
    BY <1>7
  <2> QED
    BY <1>1, <2>1, MetadataRegistry, NoTransfer DEF PerformSetMetadata, SentBy
<1> QED
  BY <1>2, <1>3, <1>4, <1>5, <1>6, <1>7 DEF CustomMessages

(* Transfers by other modules' messages. *)
LEMMA TransferSteps ==
  ASSUME Inv, NEW s \in Accounts, Transfers(s)
  PROVE  CoinStep /\ RegistryStep /\ sender' = s /\ recipient' = None
<1>1. CASE \E d \in Denoms, n \in Amounts, to \in Holders : BankSend(s, d, n, to)
  <2>1. PICK d \in Denoms, n \in Amounts, to \in Holders : BankSend(s, d, n, to)
    BY <1>1
  <2>2. n \in Nat /\ to # Module
    BY <2>1, InvFacts DEF BankSend, Blocked
  <2> QED
    BY <2>1, <2>2, OwnTransfer, NoRegistryChange DEF BankSend, CanSend, SentBy
<1>2. CASE \E d \in Denoms, n \in Amounts : FundCommunityPool(s, d, n)
  <2>1. PICK d \in Denoms, n \in Amounts : FundCommunityPool(s, d, n)
    BY <1>2
  <2>2. n \in Nat /\ Pool \in Holders /\ Pool # Module
    BY InvFacts
  <2> QED
    BY <2>1, <2>2, OwnTransfer, NoRegistryChange DEF FundCommunityPool, CanSend, SentBy
<1> QED
  BY <1>1, <1>2 DEF Transfers

(* Every step keeps the invariant and satisfies the action properties. *)
LEMMA NextSteps ==
  ASSUME Inv, [Next]_vars
  PROVE  /\ Inv'
         /\ AdminStep /\ SupplyStep /\ BalanceStep /\ ModuleStep
<1>1. CoinStep /\ RegistryStep
      /\ sender' \in Accounts \cup {None} /\ recipient' \in Holders \cup {None}
  <2>1. CASE \E s \in Accounts : Messages(s)
    BY <2>1, MessageSteps
  <2>2. CASE \E c \in Contracts : CustomMessages(c)
    BY <2>2, CustomMessageSteps, FactoryAssumption
  <2>3. CASE \E s \in Accounts : Transfers(s)
    BY <2>3, TransferSteps
  <2>4. CASE ExportImport
    BY <2>4, ExportImportRegistry, NoTransfer DEF ExportImport, SentBy
  <2>5. CASE UNCHANGED vars
    BY <2>5, NoTransfer, NoRegistryChange DEF vars, Inv, TypeOK
  <2> QED
    BY <2>1, <2>2, <2>3, <2>4, <2>5 DEF Next
<1>2. TypeOK'
  BY <1>1 DEF CoinStep, RegistryStep, TypeOK, BalanceType
<1>3. ModuleEmpty'
  BY <1>1 DEF CoinStep, ModuleEmpty
<1> QED
  BY <1>1, <1>2, <1>3 DEF CoinStep, RegistryStep, Inv

-----------------------------------------------------------------------------
(* Theorems.                                                               *)

(* The inductive invariant holds in every reachable state. *)
THEOREM FactoryInvariance == Spec => []Inv
<1>1. Inv /\ [Next]_vars => Inv'
  BY NextSteps
<1> QED
  BY InitInv, <1>1, PTL DEF Spec

(* Every variable has its type; no balance or supply is negative. *)
THEOREM FactoryTypeCorrect == Spec => []TypeOK
<1>1. Inv => TypeOK
  BY DEF Inv
<1> QED
  BY FactoryInvariance, <1>1, PTL

(* The two key spaces and the bank module's metadata agree. *)
THEOREM RegistryCorrect == Spec => []RegistryAgrees
<1>1. Inv => RegistryAgrees
  BY DEF Inv
<1> QED
  BY FactoryInvariance, <1>1, PTL

(* Nothing is left in the module account that Mint and Burn go through. *)
THEOREM ModuleAccountEmpty == Spec => []ModuleEmpty
<1>1. Inv => ModuleEmpty
  BY DEF Inv
<1> QED
  BY FactoryInvariance, <1>1, PTL

(* InitGenesis of ExportGenesis restores the admins and creators' lists. *)
THEOREM GenesisRestores == Spec => []GenesisRoundTrip
<1>1. Inv => GenesisRoundTrip
  BY RoundTrip
<1> QED
  BY FactoryInvariance, <1>1, PTL

(* After its creation, only the admin hands a denomination over. *)
THEOREM AdminProtected == Spec => AdminHandedOver
<1>1. Inv /\ [Next]_vars => [AdminStep]_vars
  BY NextSteps
<1> QED
  BY FactoryInvariance, <1>1, PTL DEF Spec, AdminHandedOver, AdminStep

(* Only the admin changes a supply. *)
THEOREM SupplyProtected == Spec => SupplyByAdmin
<1>1. Inv /\ [Next]_vars => [SupplyStep]_vars
  BY NextSteps
<1> QED
  BY FactoryInvariance, <1>1, PTL DEF Spec, SupplyByAdmin, SupplyStep

(* Coins leave an account by its holder's message or the admin's. *)
THEOREM HoldersProtected == Spec => BalancesProtected
<1>1. Inv /\ [Next]_vars => [BalanceStep]_vars
  BY NextSteps
<1> QED
  BY FactoryInvariance, <1>1, PTL DEF Spec, BalancesProtected, BalanceStep

(* Blocked module accounts get coins from the sender of a message only. *)
THEOREM ModulesProtected == Spec => NothingForcedOnModules
<1>1. Inv /\ [Next]_vars => [ModuleStep]_vars
  BY NextSteps
<1> QED
  BY FactoryInvariance, <1>1, PTL DEF Spec, NothingForcedOnModules, ModuleStep
=============================================================================
