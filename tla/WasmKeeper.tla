----------------------------- MODULE WasmKeeper -----------------------------
(***************************************************************************)
(* The registry kept by the x/wasm keeper: codes, contracts, the code      *)
(* history of each contract, the two secondary indexes, the id sequences,  *)
(* bound IBC ports, pinned codes, gasless contracts and the parameters.    *)
(*                                                                         *)
(* Messages run inside a transaction.  A contract answers a call with      *)
(* sub-messages, and each of them runs on a cached copy of the store that  *)
(* is written back on success and dropped on failure.  `stack' holds the   *)
(* open calls, with the store each of them started from: stack[1] is the   *)
(* transaction itself, the last element the call whose response is being   *)
(* dispatched.  What wasmvm keeps (byte codes on disk, the pinned part of  *)
(* its memory cache) lies outside the store and is never rolled back.      *)
(*                                                                         *)
(* What a contract does when called is the contract's business: it may     *)
(* dispatch any message it can sign, succeed (Return) or fail (FailCall,   *)
(* AbortTx).  A reply runs in the context of the call that dispatched, so  *)
(* the messages it returns are further messages of that call.  Bank        *)
(* transfers, account checks and gas can only make a message fail here.    *)
(***************************************************************************)
EXTENDS Integers, Sequences, FiniteSets, AccessConfig

CONSTANTS
  User,             \* accounts that sign transactions
  Authority,        \* Keeper.authority, the x/gov module account
  Nil,              \* no admin, or no instantiate config given
  Checksum,         \* checksums of the byte codes that may be uploaded
  IBCCode,          \* the checksums with IBC entry points (AnalyzeCode)
  MigrateVersion,   \* [Checksum -> Nat], 0 when the code declares none
  Salt,             \* the (salt, fixed init message) parts of an address
  Label,            \* contract labels
  AccessConfigs,    \* the access configs that messages carry
  Messages,         \* bound: the messages that are sent in an instance
  Propagate,        \* actions whose gov authorization sub-messages inherit
  MaxCallDepth,     \* Keeper.maxCallDepth
  MaxCodeID,        \* bound: codes stored
  MaxContracts,     \* bound: contracts
  MaxHistory,       \* bound: history entries of a contract
  MaxPosition       \* bound: transaction positions

VARIABLES
  kv,        \* the store as the running message sees it
  stack,     \* the open calls; <<>> between transactions
  position,  \* AbsoluteTxPosition of the current transaction
  vmCodes,   \* checksums of the byte codes wasmvm has on disk
  vmPinned   \* checksums pinned in wasmvm's memory cache

vars == <<kv, stack, position, vmCodes, vmPinned>>

(* A contract address is the hash of what it is derived from, which the    *)
(* model takes to be injective: the address is that data itself.           *)
ClassicAddress(codeID, instanceID) ==
  [kind |-> "classic", codeID |-> codeID, instanceID |-> instanceID]

PredictableAddress(checksum, creator, salt) ==
  [kind |-> "predictable", checksum |-> checksum, creator |-> creator,
   salt |-> salt]

AllMessages ==
  {"StoreCode", "InstantiateContract", "InstantiateContract2",
   "StoreAndInstantiateContract", "MigrateContract",
   "StoreAndMigrateContract", "ExecuteContract", "SudoContract",
   "UpdateAdmin", "UpdateContractLabel", "UpdateInstantiateConfig",
   "UpdateParams", "AddCodeUploadParamsAddresses",
   "RemoveCodeUploadParamsAddresses", "PinCodes", "UnpinCodes",
   "SetGaslessContracts", "UnsetGasless"}

ASSUME ConstantsAssumption ==
  /\ Authority \notin User
  /\ Nil \notin User \cup {Authority}
  /\ IBCCode \subseteq Checksum
  /\ MigrateVersion \in [Checksum -> Nat]
  /\ Messages \subseteq AllMessages
  /\ Propagate \subseteq {"instantiate", "migrate"}
  /\ MaxCallDepth \in Nat
  /\ MaxCodeID \in Nat
  /\ MaxContracts \in Nat
  /\ MaxHistory \in Nat
  /\ MaxPosition \in Nat
  /\ \A c \in AccessConfigs : IsConfig(c) /\ ValidConfig(c)

-----------------------------------------------------------------------------
(* Authorization policies.                                                 *)

Policies == {"default", "gov", "partialInstantiate", "partialMigrate"}

CanCreateCode(policy, params, actor, config) ==
  \/ policy = "gov"
  \/ /\ Allowed(params.uploadAccess, actor)
     /\ IsSubset(config, With(params.instantiateDefault, actor))

CanInstantiateContract(policy, config, actor) ==
  \/ policy \in {"gov", "partialInstantiate"}
  \/ Allowed(config, actor)

(* Mutant: a contract without admin is everybody's. *)
CanModifyUnowned(policy, admin, actor) ==
  \/ policy \in {"gov", "partialMigrate"}
  \/ admin = Nil
  \/ admin = actor

CanModifyContract(policy, admin, actor) ==
  \/ policy \in {"gov", "partialMigrate"}
  \/ admin # Nil /\ admin = actor

CanModifyCodeAccessConfig(policy, creator, actor, isSubset) ==
  \/ policy = "gov"
  \/ creator = actor /\ isSubset

PartialGovPolicy(action) ==
  IF action = "instantiate" THEN "partialInstantiate" ELSE "partialMigrate"

(* Mutant: sub-messages inherit the whole gov policy. *)
PropagateWholePolicy(policy, action) ==
  IF policy = "gov" /\ action \notin Propagate THEN "default" ELSE policy

(* Mutant: the permission is propagated without looking at who has it. *)
PropagateForAnyone(policy, action) ==
  CASE policy \in {"partialInstantiate", "partialMigrate"} -> policy
    [] policy \in {"gov", "default"} /\ action \in Propagate ->
         PartialGovPolicy(action)
    [] OTHER -> "default"

(* The policy that the sub-messages of an authorized action run under.     *)
(* A partial gov policy returns itself, the default policy too.            *)
SubMessageAuthorizationPolicy(policy, action) ==
  CASE policy # "gov" -> policy
    [] policy = "gov" /\ action \notin Propagate -> "default"
    [] OTHER -> PartialGovPolicy(action)

Top == stack[Len(stack)]

(* msgServer.selectAuthorizationPolicy: the authority gets the gov policy, *)
(* everyone else the policy of the context ("none" outside of a call that  *)
(* set one), or the default policy.                                        *)
SelectPolicy(sender) ==
  CASE sender = Authority -> "gov"
    [] sender # Authority /\ Top.policy # "none" -> Top.policy
    [] OTHER -> "default"

-----------------------------------------------------------------------------
(* Store updates, as functions of the store they start from.               *)

(* The function f with x mapped to v. *)
Put(f, x, v) == [y \in DOMAIN f \cup {x} |-> IF y = x THEN v ELSE f[y]]

LastEntry(s, addr) == s.history[addr][Len(s.history[addr])]

(* Key of the contracts-by-code index for a history entry. *)
CodeIndexKey(addr, entry) == <<entry.codeID, entry.updated, addr>>

HasIBCEntryPoints(s, codeID) == s.codes[codeID].checksum \in IBCCode

(* Mutant: the entry replaces the history. *)
HistoryRestarted(s, addr, entry) == Put(s.history, addr, <<entry>>)

(* appendToContractHistory: behind whatever entries the address has.       *)
AppendHistory(s, addr, entry) ==
  Put(s.history, addr,
      Append(IF addr \in DOMAIN s.history THEN s.history[addr] ELSE <<>>,
             entry))

(* create *)
Created(s, creator, checksum, config) ==
  [s EXCEPT
     !.codes = Put(s.codes, s.codeSeq,
                   [checksum |-> checksum, creator |-> creator,
                    config |-> config]),
     !.codeSeq = s.codeSeq + 1]

(* instantiate, once the address is known: indexes, history and contract   *)
(* info are written before the response of the contract is dispatched.     *)
Instantiated(s, codeID, addr, creator, admin, label) ==
  LET port  == HasIBCEntryPoints(s, codeID)
      entry == [operation |-> "init", codeID |-> codeID,
                updated |-> position]
  IN [s EXCEPT
        !.contracts = Put(s.contracts, addr,
                          [codeID |-> codeID, creator |-> creator,
                           admin |-> admin, label |-> label,
                           created |-> position, port |-> port]),
        !.history = AppendHistory(s, addr, entry),
        !.codeIndex = s.codeIndex \cup {CodeIndexKey(addr, entry)},
        !.creatorIndex = s.creatorIndex \cup {<<creator, position, addr>>},
        !.ports = IF port THEN s.ports \cup {addr} ELSE s.ports]

(* Mutant: the sequence is only peeked at. *)
InstanceIDPeeked(s) == s

(* ClassicAddressGenerator: mustAutoIncrementID(KeySequenceInstanceID).    *)
InstanceIDTaken(s) == [s EXCEPT !.instanceSeq = s.instanceSeq + 1]

(* Mutant: the code changes and the history does not. *)
MigratedWithoutHistory(s, addr, codeID) ==
  [s EXCEPT !.contracts[addr].codeID = codeID,
            !.contracts[addr].port = @ \/ HasIBCEntryPoints(s, codeID),
            !.ports = IF HasIBCEntryPoints(s, codeID)
                      THEN s.ports \cup {addr} ELSE s.ports]

(* Mutant: the entry is looked for under the position of the migration. *)
MigratedIndexByPosition(s, addr, entry) ==
  (s.codeIndex \ {<<LastEntry(s, addr).codeID, entry.updated, addr>>})
     \cup {CodeIndexKey(addr, entry)}

(* migrate: the index entry of the code the contract ran is found through  *)
(* the last entry of its history.                                          *)
MigratedIndex(s, addr, entry) ==
  (s.codeIndex \ {CodeIndexKey(addr, LastEntry(s, addr))})
     \cup {CodeIndexKey(addr, entry)}

Migrated(s, addr, codeID) ==
  LET entry == [operation |-> "migrate", codeID |-> codeID,
                updated |-> position]
      port  == s.contracts[addr].port \/ HasIBCEntryPoints(s, codeID)
  IN [s EXCEPT
        !.contracts = Put(s.contracts, addr,
                          [s.contracts[addr] EXCEPT !.codeID = codeID,
                                                    !.port = port]),
        !.codeIndex = MigratedIndex(s, addr, entry),
        !.history = AppendHistory(s, addr, entry),
        !.ports = IF port THEN s.ports \cup {addr} ELSE s.ports]

(* migrate skips the entry point, and so any dispatch, when both codes     *)
(* declare the same migrate version.                                       *)
CallsMigrateEntrypoint(s, oldCodeID, newCodeID) ==
  LET old == MigrateVersion[s.codes[oldCodeID].checksum]
      new == MigrateVersion[s.codes[newCodeID].checksum]
  IN old = 0 \/ new = 0 \/ old # new

(* Mutant: the check for IBC callbacks is forgotten. *)
CanMigrateWithPort(s, policy, sender, addr, codeID) ==
  /\ addr \in DOMAIN s.contracts
  /\ CanModifyContract(policy, s.contracts[addr].admin, sender)
  /\ codeID \in DOMAIN s.codes
  /\ CanInstantiateContract(policy, s.codes[codeID].config, sender)

CanMigrate(s, policy, sender, addr, codeID) ==
  /\ addr \in DOMAIN s.contracts
  /\ CanModifyContract(policy, s.contracts[addr].admin, sender)
  /\ codeID \in DOMAIN s.codes
  /\ CanInstantiateContract(policy, s.codes[codeID].config, sender)
  /\ s.contracts[addr].port => HasIBCEntryPoints(s, codeID)

-----------------------------------------------------------------------------
(* Transactions and calls.                                                 *)

DefaultParams ==
  [uploadAccess |-> AllowEverybody, instantiateDefault |-> "Everybody"]

Init ==
  /\ kv = [params |-> DefaultParams,
           codes |-> [c \in {} |-> Nil], codeSeq |-> 1,
           contracts |-> [a \in {} |-> Nil], instanceSeq |-> 1,
           history |-> [a \in {} |-> <<>>],
           codeIndex |-> {}, creatorIndex |-> {},
           ports |-> {}, pinned |-> {}, gasless |-> {}]
  /\ stack = <<>>
  /\ position = 0
  /\ vmCodes = {}
  /\ vmPinned = {}

(* The base application runs a transaction, or the messages of a passed    *)
(* proposal, on a cached store; `signers' are the accounts whose           *)
(* signatures it verified.  A position is the height with the gas that the *)
(* block has used so far.  A transaction adds to that gas, so that the     *)
(* next one has a later position; the proposals executed at the end of a   *)
(* block do not and share theirs.                                          *)
BeginTx(signers) ==
  /\ stack = <<>>
  /\ \/ position' = position + 1
     \/ signers = {Authority} /\ position' = position
  /\ position' <= MaxPosition
  /\ stack' = <<[snapshot |-> kv, signers |-> signers, policy |-> "none"]>>
  /\ UNCHANGED <<kv, vmCodes, vmPinned>>

CommitTx ==
  /\ Len(stack) = 1
  /\ stack' = <<>>
  /\ UNCHANGED <<kv, position, vmCodes, vmPinned>>

(* A message of the transaction fails, or it runs out of gas. *)
AbortTx ==
  /\ stack # <<>>
  /\ kv' = stack[1].snapshot
  /\ stack' = <<>>
  /\ UNCHANGED <<position, vmCodes, vmPinned>>

(* Mutant: one call too many. *)
DeliveredTooDeep(message, sender) ==
  /\ message \in Messages
  /\ stack # <<>>
  /\ sender \in Top.signers
  /\ Len(stack) - 2 <= MaxCallDepth

(* A message is delivered to the message server for one of the accounts    *)
(* the current context may sign for (SDKMessageHandler.handleSdkMessage    *)
(* compares the signer with the contract), within the call depth           *)
(* (checkAndIncreaseCallDepth).                                            *)
Delivered(message, sender) ==
  /\ message \in Messages
  /\ stack # <<>>
  /\ sender \in Top.signers
  /\ Len(stack) - 1 <= MaxCallDepth

(* The contract at addr is called and its response is to be dispatched.    *)
Call(addr, policy) ==
  stack' = Append(stack, [snapshot |-> kv, signers |-> {addr},
                          policy |-> policy])

(* The called contract's sub-messages are all done: its changes are        *)
(* committed to the context of the caller.                                 *)
Return ==
  /\ Len(stack) > 1
  /\ stack' = SubSeq(stack, 1, Len(stack) - 1)
  /\ UNCHANGED <<kv, position, vmCodes, vmPinned>>

(* A sub-message fails and the dispatching contract handles the error in   *)
(* its reply; when it does not, the failure is that of the caller.  A      *)
(* message of the transaction itself has no one to handle it: AbortTx.     *)
FailCall ==
  /\ Len(stack) > 2
  /\ kv' = Top.snapshot
  /\ stack' = SubSeq(stack, 1, Len(stack) - 1)
  /\ UNCHANGED <<position, vmCodes, vmPinned>>

(* The node stops and starts again: the open transaction is lost, wasmvm's *)
(* cache is empty and InitializePinnedCodes fills it from the store.       *)
Restart ==
  /\ kv' = IF stack = <<>> THEN kv ELSE stack[1].snapshot
  /\ stack' = <<>>
  /\ vmPinned' = {kv'.codes[c].checksum : c \in kv'.pinned}
  /\ UNCHANGED <<position, vmCodes>>

-----------------------------------------------------------------------------
(* The messages.                                                           *)

(* The instantiate config a code is stored with. *)
ConfigOrDefault(config, sender) ==
  IF config = Nil THEN With(kv.params.instantiateDefault, sender) ELSE config

(* Mutant: the byte code is only checked, as in a simulation. *)
StoreCodeSimulated(sender, checksum, config) ==
  LET access == ConfigOrDefault(config, sender) IN
  /\ Delivered("StoreCode", sender)
  /\ kv.codeSeq <= MaxCodeID
  /\ CanCreateCode(SelectPolicy(sender), kv.params, sender, access)
  /\ kv' = Created(kv, sender, checksum, access)
  /\ UNCHANGED <<stack, position, vmCodes, vmPinned>>

StoreCode(sender, checksum, config) ==
  LET access == ConfigOrDefault(config, sender) IN
  /\ Delivered("StoreCode", sender)
  /\ kv.codeSeq <= MaxCodeID
  /\ CanCreateCode(SelectPolicy(sender), kv.params, sender, access)
  /\ vmCodes' = vmCodes \cup {checksum}
  /\ kv' = Created(kv, sender, checksum, access)
  /\ UNCHANGED <<stack, position, vmPinned>>

(* keeper.instantiate on store s, which the message started from kv.  An   *)
(* address "claimed by external account" is refused: accounts that signed  *)
(* a transaction, and module accounts, which are not pruned.               *)
Instantiate(s, policy, sender, codeID, addr, admin, label) ==
  /\ codeID \in DOMAIN s.codes
  /\ CanInstantiateContract(policy, s.codes[codeID].config, sender)
  /\ addr \notin DOMAIN s.contracts \cup User \cup {Authority}
  /\ Cardinality(DOMAIN s.contracts) < MaxContracts
  /\ kv' = Instantiated(s, codeID, addr, sender, admin, label)
  /\ Call(addr, SubMessageAuthorizationPolicy(policy, "instantiate"))

InstantiateContract(sender, codeID, admin, label) ==
  /\ Delivered("InstantiateContract", sender)
  /\ Instantiate(InstanceIDTaken(kv), SelectPolicy(sender), sender, codeID,
                 ClassicAddress(codeID, kv.instanceSeq), admin, label)
  /\ UNCHANGED <<position, vmCodes, vmPinned>>

InstantiateContract2(sender, codeID, admin, label, salt) ==
  /\ Delivered("InstantiateContract2", sender)
  /\ codeID \in DOMAIN kv.codes
  /\ Instantiate(kv, SelectPolicy(sender), sender, codeID,
                 PredictableAddress(kv.codes[codeID].checksum, sender, salt),
                 admin, label)
  /\ UNCHANGED <<position, vmCodes, vmPinned>>

StoreAndInstantiateContract(sender, checksum, config, admin, label) ==
  LET access == ConfigOrDefault(config, sender)
      stored == Created(kv, sender, checksum, access)
  IN
  /\ Delivered("StoreAndInstantiateContract", sender)
  /\ kv.codeSeq <= MaxCodeID
  /\ CanCreateCode(SelectPolicy(sender), kv.params, sender, access)
  /\ vmCodes' = vmCodes \cup {checksum}
  /\ Instantiate(InstanceIDTaken(stored), SelectPolicy(sender), sender,
                 kv.codeSeq, ClassicAddress(kv.codeSeq, kv.instanceSeq),
                 admin, label)
  /\ UNCHANGED <<position, vmPinned>>

(* keeper.migrate on store s, which the message started from kv. *)
Migrate(s, policy, sender, addr, codeID) ==
  /\ CanMigrate(s, policy, sender, addr, codeID)
  /\ Len(s.history[addr]) < MaxHistory
  /\ kv' = Migrated(s, addr, codeID)
  /\ IF CallsMigrateEntrypoint(s, s.contracts[addr].codeID, codeID)
     THEN Call(addr, SubMessageAuthorizationPolicy(policy, "migrate"))
     ELSE UNCHANGED stack

MigrateContract(sender, addr, codeID) ==
  /\ Delivered("MigrateContract", sender)
  /\ Migrate(kv, SelectPolicy(sender), sender, addr, codeID)
  /\ UNCHANGED <<position, vmCodes, vmPinned>>

StoreAndMigrateContract(sender, checksum, config, addr) ==
  LET access == ConfigOrDefault(config, sender) IN
  /\ Delivered("StoreAndMigrateContract", sender)
  /\ kv.codeSeq <= MaxCodeID
  /\ CanCreateCode(SelectPolicy(sender), kv.params, sender, access)
  /\ vmCodes' = vmCodes \cup {checksum}
  /\ Migrate(Created(kv, sender, checksum, access), SelectPolicy(sender),
             sender, addr, kv.codeSeq)
  /\ UNCHANGED <<position, vmPinned>>

(* execute: sub-messages run under the policy of the context. *)
ExecuteContract(sender, addr) ==
  /\ Delivered("ExecuteContract", sender)
  /\ addr \in DOMAIN kv.contracts
  /\ kv.contracts[addr].codeID \in DOMAIN kv.codes
  /\ Call(addr, Top.policy)
  /\ UNCHANGED <<kv, position, vmCodes, vmPinned>>

SudoContract(addr) ==
  /\ Delivered("SudoContract", Authority)
  /\ addr \in DOMAIN kv.contracts
  /\ kv.contracts[addr].codeID \in DOMAIN kv.codes
  /\ Call(addr, Top.policy)
  /\ UNCHANGED <<kv, position, vmCodes, vmPinned>>

(* setContractAdmin, for UpdateAdmin and (newAdmin = Nil) ClearAdmin.      *)
UpdateAdmin(sender, addr, newAdmin) ==
  /\ Delivered("UpdateAdmin", sender)
  /\ addr \in DOMAIN kv.contracts
  /\ CanModifyContract(SelectPolicy(sender), kv.contracts[addr].admin, sender)
  /\ kv' = [kv EXCEPT !.contracts =
              Put(kv.contracts, addr,
                  [kv.contracts[addr] EXCEPT !.admin = newAdmin])]
  /\ UNCHANGED <<stack, position, vmCodes, vmPinned>>

UpdateContractLabel(sender, addr, newLabel) ==
  /\ Delivered("UpdateContractLabel", sender)
  /\ addr \in DOMAIN kv.contracts
  /\ CanModifyContract(SelectPolicy(sender), kv.contracts[addr].admin, sender)
  /\ kv' = [kv EXCEPT !.contracts =
              Put(kv.contracts, addr,
                  [kv.contracts[addr] EXCEPT !.label = newLabel])]
  /\ UNCHANGED <<stack, position, vmCodes, vmPinned>>

(* setAccessConfig: only the access types are compared. *)
UpdateInstantiateConfig(sender, codeID, config) ==
  /\ Delivered("UpdateInstantiateConfig", sender)
  /\ codeID \in DOMAIN kv.codes
  /\ CanModifyCodeAccessConfig(
       SelectPolicy(sender), kv.codes[codeID].creator, sender,
       TypeIsSubset(config.permission, kv.params.instantiateDefault))
  /\ kv' = [kv EXCEPT !.codes =
              Put(kv.codes, codeID, [kv.codes[codeID] EXCEPT !.config = config])]
  /\ UNCHANGED <<stack, position, vmCodes, vmPinned>>

UpdateParams(uploadAccess, instantiateDefault) ==
  /\ Delivered("UpdateParams", Authority)
  /\ kv' = [kv EXCEPT !.params = [uploadAccess |-> uploadAccess,
                                  instantiateDefault |-> instantiateDefault]]
  /\ UNCHANGED <<stack, position, vmCodes, vmPinned>>

AddCodeUploadParamsAddresses(addrs) ==
  /\ Delivered("AddCodeUploadParamsAddresses", Authority)
  /\ kv.params.uploadAccess.permission = "AnyOfAddresses"
  /\ kv' = [kv EXCEPT !.params.uploadAccess.addresses = @ \cup addrs]
  /\ UNCHANGED <<stack, position, vmCodes, vmPinned>>

RemoveCodeUploadParamsAddresses(addrs) ==
  /\ Delivered("RemoveCodeUploadParamsAddresses", Authority)
  /\ kv.params.uploadAccess.permission = "AnyOfAddresses"
  /\ kv' = [kv EXCEPT !.params.uploadAccess.addresses = @ \ addrs]
  /\ UNCHANGED <<stack, position, vmCodes, vmPinned>>

(* Codes are pinned in wasmvm's cache one after the other, then in the     *)
(* store.  A list that fails half-way leaves what PinCodes of its first    *)
(* part followed by AbortTx leaves.                                        *)
PinCodes(codeIDs) ==
  /\ Delivered("PinCodes", Authority)
  /\ codeIDs # {} /\ codeIDs \subseteq DOMAIN kv.codes
  /\ vmPinned' = vmPinned \cup {kv.codes[c].checksum : c \in codeIDs}
  /\ kv' = [kv EXCEPT !.pinned = @ \cup codeIDs]
  /\ UNCHANGED <<stack, position, vmCodes>>

UnpinCodes(codeIDs) ==
  /\ Delivered("UnpinCodes", Authority)
  /\ codeIDs # {} /\ codeIDs \subseteq DOMAIN kv.codes
  /\ vmPinned' = vmPinned \ {kv.codes[c].checksum : c \in codeIDs}
  /\ kv' = [kv EXCEPT !.pinned = @ \ codeIDs]
  /\ UNCHANGED <<stack, position, vmCodes>>

(* Mutant: any sender may ask. *)
SetGaslessForAnyone(addrs) ==
  /\ stack # <<>> /\ \E sender \in Top.signers :
                       Delivered("SetGaslessContracts", sender)
  /\ addrs # {} /\ addrs \subseteq DOMAIN kv.contracts
  /\ kv' = [kv EXCEPT !.gasless = @ \cup addrs]
  /\ UNCHANGED <<stack, position, vmCodes, vmPinned>>

SetGaslessContracts(addrs) ==
  /\ Delivered("SetGaslessContracts", Authority)
  /\ addrs # {} /\ addrs \subseteq DOMAIN kv.contracts
  /\ kv' = [kv EXCEPT !.gasless = @ \cup addrs]
  /\ UNCHANGED <<stack, position, vmCodes, vmPinned>>

(* Reached through the gov permissioned keeper only: there is no message.  *)
UnsetGasless(addr) ==
  /\ Delivered("UnsetGasless", Authority)
  /\ addr \in DOMAIN kv.contracts
  /\ kv' = [kv EXCEPT !.gasless = @ \ {addr}]
  /\ UNCHANGED <<stack, position, vmCodes, vmPinned>>

-----------------------------------------------------------------------------
(* The accounts that may sign a message of the current context, and the    *)
(* accounts a message may name as admin.                                   *)
Senders == IF stack = <<>> THEN {} ELSE Top.signers
Admins  == User \cup DOMAIN kv.contracts

ContractMessage(sender) ==
  \E addr \in DOMAIN kv.contracts :
    \/ ExecuteContract(sender, addr)
    \/ \E codeID \in DOMAIN kv.codes : MigrateContract(sender, addr, codeID)
    \/ \E checksum \in Checksum, config \in AccessConfigs \cup {Nil} :
         StoreAndMigrateContract(sender, checksum, config, addr)
    \/ \E admin \in Admins \cup {Nil} : UpdateAdmin(sender, addr, admin)
    \/ \E label \in Label : UpdateContractLabel(sender, addr, label)

CodeMessage(sender) ==
  \/ \E checksum \in Checksum, config \in AccessConfigs \cup {Nil} :
       \/ StoreCode(sender, checksum, config)
       \/ \E admin \in Admins \cup {Nil}, label \in Label :
            StoreAndInstantiateContract(sender, checksum, config, admin, label)
  \/ \E codeID \in DOMAIN kv.codes :
       \/ \E config \in AccessConfigs :
            UpdateInstantiateConfig(sender, codeID, config)
       \/ \E admin \in Admins \cup {Nil}, label \in Label :
            \/ InstantiateContract(sender, codeID, admin, label)
            \/ \E salt \in Salt :
                 InstantiateContract2(sender, codeID, admin, label, salt)

GovMessage ==
  \/ \E config \in AccessConfigs, type \in AccessTypes : UpdateParams(config, type)
  \/ \E addrs \in SUBSET User \ {{}} :
       \/ AddCodeUploadParamsAddresses(addrs)
       \/ RemoveCodeUploadParamsAddresses(addrs)
  \/ \E codeIDs \in SUBSET DOMAIN kv.codes :
       \/ PinCodes(codeIDs)
       \/ UnpinCodes(codeIDs)
  \/ \E addrs \in SUBSET DOMAIN kv.contracts : SetGaslessContracts(addrs)
  \/ \E addr \in DOMAIN kv.contracts : SudoContract(addr) \/ UnsetGasless(addr)

Next ==
  \/ \E signers \in (SUBSET User \ {{}}) \cup {{Authority}} : BeginTx(signers)
  \/ CommitTx
  \/ AbortTx
  \/ Return
  \/ FailCall
  \/ Restart
  \/ \E sender \in Senders : ContractMessage(sender) \/ CodeMessage(sender)
  \/ GovMessage

Spec == Init /\ [][Next]_vars

-----------------------------------------------------------------------------
(* Properties of a store.                                                  *)

IsCodeInfo(i) ==
  /\ i = [checksum |-> i.checksum, creator |-> i.creator, config |-> i.config]
  /\ i.checksum \in Checksum
  /\ IsConfig(i.config)

IsContractInfo(i) ==
  /\ i = [codeID |-> i.codeID, creator |-> i.creator, admin |-> i.admin,
          label |-> i.label, created |-> i.created, port |-> i.port]
  /\ i.label \in Label
  /\ i.created \in Nat
  /\ i.port \in BOOLEAN

HistoryEntry ==
  [operation : {"init", "migrate"}, codeID : Nat, updated : Nat]

HasStoreFields(s) ==
  s = [params |-> s.params, codes |-> s.codes, codeSeq |-> s.codeSeq,
       contracts |-> s.contracts, instanceSeq |-> s.instanceSeq,
       history |-> s.history, codeIndex |-> s.codeIndex,
       creatorIndex |-> s.creatorIndex, ports |-> s.ports,
       pinned |-> s.pinned, gasless |-> s.gasless]

IsStore(s) ==
  /\ HasStoreFields(s)
  /\ s.params = [uploadAccess |-> s.params.uploadAccess,
                 instantiateDefault |-> s.params.instantiateDefault]
  /\ IsConfig(s.params.uploadAccess)
  /\ s.params.instantiateDefault \in AccessTypes
  /\ s.codeSeq \in Nat
  /\ s.instanceSeq \in Nat
  /\ \A c \in DOMAIN s.codes : IsCodeInfo(s.codes[c])
  /\ \A a \in DOMAIN s.contracts : IsContractInfo(s.contracts[a])
  /\ \A a \in DOMAIN s.history : s.history[a] \in Seq(HistoryEntry)

(* Code ids are 1, 2, ... without a gap, and every id that the store       *)
(* refers to is one of them.                                               *)
CodesResolve(s) ==
  /\ DOMAIN s.codes = 1..(s.codeSeq - 1)
  /\ \A a \in DOMAIN s.contracts : s.contracts[a].codeID \in DOMAIN s.codes
  /\ s.pinned \subseteq DOMAIN s.codes
  /\ s.gasless \subseteq DOMAIN s.contracts

(* Every contract has a history that starts at its creation and ends with  *)
(* the code it runs, in the order of the transactions.                     *)
HistoryOK(s) ==
  /\ DOMAIN s.history = DOMAIN s.contracts
  /\ \A a \in DOMAIN s.contracts :
       /\ s.history[a] # <<>>
       /\ s.history[a][1].updated = s.contracts[a].created
       /\ LastEntry(s, a).codeID = s.contracts[a].codeID
       /\ \A i, j \in DOMAIN s.history[a] :
            i <= j => s.history[a][i].updated <= s.history[a][j].updated

(* The secondary indexes hold exactly one entry for each contract: the one *)
(* of the code it runs now, and the one of its creator.                    *)
IndexesOK(s) ==
  /\ s.codeIndex = {CodeIndexKey(a, LastEntry(s, a)) : a \in DOMAIN s.contracts}
  /\ s.creatorIndex = {<<s.contracts[a].creator, s.contracts[a].created, a>> :
                         a \in DOMAIN s.contracts}

(* A contract holds a port exactly when the code it runs can serve it. *)
PortsOK(s) ==
  /\ \A a \in DOMAIN s.contracts :
       s.contracts[a].port = HasIBCEntryPoints(s, s.contracts[a].codeID)
  /\ s.ports = {a \in DOMAIN s.contracts : s.contracts[a].port}

(* No classic address uses an instance id that is still to be given out. *)
InstanceIDsOK(s) ==
  \A a \in DOMAIN s.contracts :
    a.kind = "classic" => a.instanceID \in Nat /\ a.instanceID < s.instanceSeq

(* The address of a contract tells who created it from what, and goes on   *)
(* doing so when the contract has migrated to other code.  It is not the   *)
(* address of an account.                                                  *)
AddressesOK(s) ==
  \A a \in DOMAIN s.contracts :
    LET first == s.history[a][1].codeID IN
    /\ a \notin User \cup {Authority}
    /\ first \in DOMAIN s.codes
    /\ a.kind \in {"classic", "predictable"}
    /\ a.kind = "classic" => a.codeID = first
    /\ a.kind = "predictable" => /\ a.checksum = s.codes[first].checksum
                                 /\ a.creator = s.contracts[a].creator

(* The store of the running message, and those a failure would restore.    *)
Stores == {kv} \cup {stack[i].snapshot : i \in DOMAIN stack}

-----------------------------------------------------------------------------
(* The type invariant: the shape of the store, of every store that a       *)
(* rollback could bring back, and of the call stack.                       *)
TypeOK ==
  /\ \A s \in Stores : IsStore(s)
  /\ stack \in Seq({stack[i] : i \in DOMAIN stack})
  /\ Len(stack) <= MaxCallDepth + 2
  /\ \A i \in DOMAIN stack :
       stack[i].policy \in {"none", "default", "partialInstantiate",
                           "partialMigrate"}
  /\ position \in Nat
  /\ vmCodes \subseteq Checksum
  /\ vmPinned \subseteq Checksum

(* Migrations, rollbacks and re-entrant calls leave every contract with a  *)
(* history that ends in the code it runs and whose positions never go      *)
(* back.  keeper.migrate relies on it to find the index entry to delete.   *)
HistoryConsistent == \A s \in Stores : HistoryOK(s)

(* The contracts-by-code and contracts-by-creator queries report every     *)
(* contract once, under the code it runs now, also after migrations in one *)
(* transaction and back to an earlier code, and after rollbacks.           *)
IndexesExact == \A s \in Stores : IndexesOK(s)

(* A contract that owns an IBC port never ends up with code that lacks the *)
(* IBC callbacks, and code with callbacks always has its port.             *)
PortMatchesCode == \A s \in Stores : CodesResolve(s) /\ PortsOK(s)

(* "contract address already exists" cannot happen for the classic         *)
(* address generator, whatever was rolled back before: the comment in      *)
(* keeper.instantiate says that only instantiate2 can meet it.             *)
NextClassicAddressFree ==
  \A s \in Stores : \A c \in 1..s.codeSeq :
    ClassicAddress(c, s.instanceSeq) \notin DOMAIN s.contracts

(* A contract's address is derived from its first code (the id for classic *)
(* addresses, the checksum for predictable ones) and its creator; no later *)
(* migration, re-upload of the same byte code or rollback makes the        *)
(* registry disagree with the address.                                     *)
AddressTellsOrigin == \A s \in Stores : AddressesOK(s)

(* The byte code of every code info is on disk, whichever transactions     *)
(* were rolled back: calls and genesis export can load every code.         *)
CodeAvailable ==
  \A s \in Stores : \A c \in DOMAIN s.codes : s.codes[c].checksum \in vmCodes

(* A gov permission reaches sub-messages only in a transaction of the      *)
(* authority, and never as the full gov policy.                            *)
EscalationNeedsAuthority ==
  \A i \in DOMAIN stack :
    /\ stack[i].policy = "partialInstantiate" => "instantiate" \in Propagate
    /\ stack[i].policy = "partialMigrate" => "migrate" \in Propagate
    /\ stack[i].policy \in {"partialInstantiate", "partialMigrate"} =>
         Authority \in stack[1].signers

(* In a transaction that neither the authority nor the admin of a contract *)
(* signed, no sequence of messages and calls changes that contract's code, *)
(* admin, label or port; a contract without admin changes for nobody.      *)
(* Likewise for the access config of a code and its creator.               *)
UnsignedUnchanged ==
  stack # <<>> /\ Authority \notin stack[1].signers =>
    LET base == stack[1].snapshot
        foreign == User \ stack[1].signers
    IN \A s \in Stores :
         /\ \A a \in DOMAIN base.contracts :
              base.contracts[a].admin \in foreign \cup {Nil} =>
                a \in DOMAIN s.contracts /\ s.contracts[a] = base.contracts[a]
         /\ \A c \in DOMAIN base.codes :
              base.codes[c].creator \in foreign =>
                c \in DOMAIN s.codes /\ s.codes[c] = base.codes[c]

(* Parameters, pinned codes and gasless contracts are governed: no call    *)
(* that a user's transaction sets off changes them, and in a transaction   *)
(* of the authority no contract does, whatever permission it inherited.    *)
GovernedByAuthority ==
  LET governed(s) == <<s.params, s.pinned, s.gasless>> IN
  \A i \in DOMAIN stack :
    LET after == IF i < Len(stack) THEN stack[i + 1].snapshot ELSE kv IN
    Authority \notin stack[i].signers =>
      governed(after) = governed(stack[i].snapshot)

(* Unless the chain propagates the migrate permission, a contract can      *)
(* modify another one only as its admin, even in a call that runs under an *)
(* inherited gov permission.                                               *)
SubMessagesNeedAdmin ==
  [][Len(stack) > 1 /\ Len(stack') >= Len(stack) /\ "migrate" \notin Propagate =>
       \A a \in DOMAIN kv.contracts :
         kv'.contracts[a] # kv.contracts[a] =>
           kv.contracts[a].admin \in Top.signers]_vars

(* "IsPinnedCode returns true when codeID is pinned in wasmvm cache"       *)
(* (x/wasm/keeper/keeper.go:1164), between transactions.                   *)
PinnedMeansCached ==
  stack = <<>> => \A c \in kv.pinned : kv.codes[c].checksum \in vmPinned

=============================================================================
