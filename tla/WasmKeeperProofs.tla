-------------------------- MODULE WasmKeeperProofs --------------------------
(***************************************************************************)
(* Proofs about the registry of x/wasm, for every value of the constants:  *)
(* it stays consistent; contracts belong to their admins, codes to their   *)
(* creators, parameters, pinned codes and gasless contracts to the         *)
(* authority, and histories are written in the order of transactions;      *)
(* export and import lose nothing of it but the gasless flags.             *)
(***************************************************************************)
EXTENDS WasmGenesis, SequenceTheorems, TLAPS

(* Every contract has a history that starts at its creation and ends with  *)
(* the code it runs.                                                       *)
HistoryKept(s) ==
  /\ DOMAIN s.history = DOMAIN s.contracts
  /\ \A a \in DOMAIN s.contracts :
       /\ s.history[a] # <<>>
       /\ s.history[a][1].updated = s.contracts[a].created
       /\ LastEntry(s, a).codeID = s.contracts[a].codeID

CodesIn(s, vm) == \A c \in DOMAIN s.codes : s.codes[c].checksum \in vm

IsMap(f) == f = [x \in DOMAIN f |-> f[x]]

(* What every store satisfies when wasmvm has the codes vm.  The order of  *)
(* the histories is left out: it does not survive a genesis import that    *)
(* restarts the block height.                                              *)
StoreInv(s, vm) ==
  /\ IsStore(s)
  /\ IsMap(s.codes) /\ IsMap(s.contracts) /\ IsMap(s.history)
  /\ s.codeSeq >= 1
  /\ CodesResolve(s)
  /\ HistoryKept(s)
  /\ IndexesOK(s)
  /\ PortsOK(s)
  /\ InstanceIDsOK(s)
  /\ AddressesOK(s)
  /\ CodesIn(s, vm)

-----------------------------------------------------------------------------
(* Lemmas about the store updates.                                         *)

(* Byte codes that are added on disk do no harm. *)
LEMMA StoreInvMonotone ==
  ASSUME NEW s, NEW vm, NEW vm2, StoreInv(s, vm), vm \subseteq vm2
  PROVE  StoreInv(s, vm2)
BY DEF StoreInv, CodesIn

(* Put makes a map. *)
LEMMA PutIsMap == \A f, x, v : IsMap(Put(f, x, v))
BY DEF Put, IsMap

(* keeper.create keeps the registry consistent. *)
LEMMA CreatedOK ==
  ASSUME NEW s, NEW vm, StoreInv(s, vm),
         NEW creator, NEW checksum \in Checksum, checksum \in vm,
         NEW config, IsConfig(config),
         NEW t, t = Created(s, creator, checksum, config)
  PROVE  StoreInv(t, vm)
<1>1. PICK info : info = [checksum |-> checksum, creator |-> creator,
                          config |-> config]
  OBVIOUS
<1>2. /\ HasStoreFields(t)
      /\ t.codes = Put(s.codes, s.codeSeq, info)
      /\ t.codeSeq = s.codeSeq + 1
      /\ t.params = s.params /\ t.contracts = s.contracts
      /\ t.instanceSeq = s.instanceSeq /\ t.history = s.history
      /\ t.codeIndex = s.codeIndex /\ t.creatorIndex = s.creatorIndex
      /\ t.ports = s.ports /\ t.pinned = s.pinned /\ t.gasless = s.gasless
  BY <1>1 DEF StoreInv, IsStore, Created, HasStoreFields
<1>3. /\ IsStore(s) /\ s.codeSeq \in Nat /\ s.codeSeq >= 1
      /\ DOMAIN s.codes = 1..(s.codeSeq - 1)
  BY DEF StoreInv, IsStore, CodesResolve
<1>4. /\ DOMAIN t.codes = 1..(t.codeSeq - 1)
      /\ t.codes[s.codeSeq] = info
      /\ \A c \in DOMAIN s.codes : c \in DOMAIN t.codes /\ t.codes[c] = s.codes[c]
  <2>1. /\ DOMAIN t.codes = DOMAIN s.codes \cup {s.codeSeq}
        /\ t.codes[s.codeSeq] = info
        /\ \A c \in DOMAIN s.codes :
             c # s.codeSeq => t.codes[c] = s.codes[c]
    BY <1>2 DEF Put
  <2>2. \A c \in DOMAIN s.codes : c # s.codeSeq
    BY <1>3
  <2>3. DOMAIN t.codes = 1..(t.codeSeq - 1)
    BY <1>2, <1>3, <2>1
  <2> QED BY <2>1, <2>2, <2>3
<1>5. IsCodeInfo(info)
  BY <1>1 DEF IsCodeInfo
<1>6. \A c \in DOMAIN t.codes : c = s.codeSeq \/ c \in DOMAIN s.codes
  BY <1>2, <1>3, <1>4
<1>7. IsStore(t)
  BY <1>2, <1>3, <1>4, <1>5, <1>6 DEF IsStore
<1>8. CodesResolve(t)
  BY <1>2, <1>3, <1>4 DEF StoreInv, CodesResolve
<1>9. \A c \in DOMAIN s.codes : HasIBCEntryPoints(t, c) = HasIBCEntryPoints(s, c)
  BY <1>4 DEF HasIBCEntryPoints
<1>10. PortsOK(t)
  BY <1>2, <1>9 DEF StoreInv, PortsOK, CodesResolve
<1>11. HistoryKept(t) /\ IndexesOK(t)
  BY <1>2 DEF StoreInv, HistoryKept, IndexesOK, LastEntry
<1>12. InstanceIDsOK(t) /\ AddressesOK(t)
  BY <1>2, <1>4 DEF StoreInv, InstanceIDsOK, AddressesOK
<1>13. CodesIn(t, vm)
  BY <1>1, <1>4, <1>6 DEF StoreInv, CodesIn
<1>14. IsMap(t.codes) /\ IsMap(t.contracts) /\ IsMap(t.history)
  BY <1>2, PutIsMap DEF StoreInv
<1> QED BY <1>2, <1>3, <1>7, <1>8, <1>10, <1>11, <1>12, <1>13, <1>14 DEF StoreInv

(* The address generator takes an instance id, and nothing else changes. *)
LEMMA InstanceIDTakenOK ==
  ASSUME NEW s, NEW vm, StoreInv(s, vm),
         NEW t, t = InstanceIDTaken(s)
  PROVE  /\ StoreInv(t, vm)
         /\ t.instanceSeq = s.instanceSeq + 1
         /\ t.codes = s.codes /\ t.contracts = s.contracts
<1>1. /\ HasStoreFields(t)
      /\ t.instanceSeq = s.instanceSeq + 1
      /\ t.params = s.params /\ t.codes = s.codes /\ t.codeSeq = s.codeSeq
      /\ t.contracts = s.contracts /\ t.history = s.history
      /\ t.codeIndex = s.codeIndex /\ t.creatorIndex = s.creatorIndex
      /\ t.ports = s.ports /\ t.pinned = s.pinned /\ t.gasless = s.gasless
  BY DEF StoreInv, IsStore, InstanceIDTaken, HasStoreFields
<1>2. IsStore(t) /\ CodesResolve(t) /\ t.codeSeq >= 1
  BY <1>1 DEF StoreInv, IsStore, CodesResolve
<1>3. HistoryKept(t) /\ IndexesOK(t)
  BY <1>1 DEF StoreInv, HistoryKept, IndexesOK, LastEntry
<1>4. PortsOK(t) /\ AddressesOK(t) /\ CodesIn(t, vm)
  BY <1>1 DEF StoreInv, PortsOK, HasIBCEntryPoints, AddressesOK, CodesIn
<1>5. InstanceIDsOK(t)
  BY <1>1 DEF StoreInv, IsStore, InstanceIDsOK
<1> QED BY <1>1, <1>2, <1>3, <1>4, <1>5 DEF StoreInv

(* What the address of a new contract must satisfy: both generators do. *)
AddressFits(s, addr, codeID, creator) ==
  /\ addr \notin User \cup {Authority}
  /\ \/ /\ addr.kind = "classic"
        /\ addr.codeID = codeID
        /\ addr.instanceID \in Nat
        /\ addr.instanceID < s.instanceSeq
     \/ /\ addr.kind = "predictable"
        /\ addr.checksum = s.codes[codeID].checksum
        /\ addr.creator = creator

(* keeper.instantiate keeps the registry consistent. *)
LEMMA InstantiatedOK ==
  ASSUME NEW s, NEW vm, position \in Nat, StoreInv(s, vm),
         NEW codeID \in DOMAIN s.codes, NEW addr, addr \notin DOMAIN s.contracts,
         NEW creator, NEW admin, NEW label \in Label,
         AddressFits(s, addr, codeID, creator),
         NEW t, t = Instantiated(s, codeID, addr, creator, admin, label)
  PROVE  StoreInv(t, vm)
<1>1. PICK port : port = HasIBCEntryPoints(s, codeID)
  OBVIOUS
<1>2. PICK entry : entry = [operation |-> "init", codeID |-> codeID,
                            updated |-> position]
  OBVIOUS
<1>3. PICK info : info = [codeID |-> codeID, creator |-> creator,
                          admin |-> admin, label |-> label,
                          created |-> position, port |-> port]
  OBVIOUS
<1>4. /\ HasStoreFields(t)
      /\ t.contracts = Put(s.contracts, addr, info)
      /\ t.history = AppendHistory(s, addr, entry)
      /\ t.codeIndex = s.codeIndex \cup {CodeIndexKey(addr, entry)}
      /\ t.creatorIndex = s.creatorIndex \cup {<<creator, position, addr>>}
      /\ t.ports = IF port THEN s.ports \cup {addr} ELSE s.ports
      /\ t.params = s.params /\ t.codes = s.codes
      /\ t.codeSeq = s.codeSeq /\ t.instanceSeq = s.instanceSeq
      /\ t.pinned = s.pinned /\ t.gasless = s.gasless
  <2>1. HasStoreFields(s)
    BY DEF StoreInv, IsStore
  <2> QED BY <1>1, <1>2, <1>3, <2>1 DEF Instantiated, HasStoreFields
<1>5. /\ IsStore(s) /\ s.codeSeq \in Nat /\ codeID \in Nat
      /\ DOMAIN s.history = DOMAIN s.contracts
  BY DEF StoreInv, IsStore, CodesResolve, HistoryKept
<1>6. /\ DOMAIN t.contracts = DOMAIN s.contracts \cup {addr}
      /\ t.contracts[addr] = info
      /\ \A a \in DOMAIN s.contracts : t.contracts[a] = s.contracts[a]
  BY <1>4 DEF Put
<1>7. entry \in HistoryEntry /\ entry.codeID = codeID /\ entry.updated = position
  BY <1>2, <1>5 DEF HistoryEntry
<1>8. /\ DOMAIN t.history = DOMAIN s.history \cup {addr}
      /\ t.history[addr] = <<entry>>
      /\ \A a \in DOMAIN s.history : t.history[a] = s.history[a]
  BY <1>4, <1>5, <1>7 DEF AppendHistory, Put
<1>9. LastEntry(t, addr) = entry
  BY <1>8 DEF LastEntry
<1>10. \A a \in DOMAIN s.contracts : LastEntry(t, a) = LastEntry(s, a)
  BY <1>5, <1>8 DEF LastEntry
<1>11. IsContractInfo(info)
  BY <1>1, <1>3 DEF IsContractInfo, HasIBCEntryPoints
<1>12. IsStore(t) /\ t.codeSeq >= 1
  <2>1. \A a \in DOMAIN t.contracts : IsContractInfo(t.contracts[a])
    BY <1>5, <1>6, <1>11 DEF IsStore
  <2>2. <<entry>> \in Seq(HistoryEntry)
    BY <1>7
  <2>3. \A a \in DOMAIN t.history : t.history[a] \in Seq(HistoryEntry)
    BY <1>5, <1>8, <2>2 DEF IsStore
  <2> QED BY <1>4, <1>5, <2>1, <2>3 DEF StoreInv, IsStore
<1>13. CodesResolve(t)
  <2>1. info.codeID = codeID
    BY <1>3
  <2> QED BY <1>4, <1>6, <2>1 DEF StoreInv, CodesResolve
<1>14. HistoryKept(t)
  <2>1. SUFFICES ASSUME NEW a \in DOMAIN t.contracts
                 PROVE  /\ t.history[a] # <<>>
                        /\ t.history[a][1].updated = t.contracts[a].created
                        /\ LastEntry(t, a).codeID = t.contracts[a].codeID
    BY <1>5, <1>6, <1>8 DEF HistoryKept
  <2>2. CASE a = addr
    BY <1>3, <1>6, <1>7, <1>8, <1>9, <2>2
  <2>3. CASE a \in DOMAIN s.contracts
    BY <1>5, <1>6, <1>8, <1>10, <2>3 DEF StoreInv, HistoryKept
  <2> QED BY <1>6, <2>2, <2>3
<1>15. IsMap(t.codes) /\ IsMap(t.contracts) /\ IsMap(t.history)
  BY <1>4, PutIsMap DEF StoreInv, AppendHistory
<1>16. IndexesOK(t)
  <2>1. t.codeIndex = {CodeIndexKey(a, LastEntry(t, a)) : a \in DOMAIN t.contracts}
    BY <1>4, <1>6, <1>9, <1>10 DEF StoreInv, IndexesOK
  <2>2. info.creator = creator /\ info.created = position
    BY <1>3
  <2>3. t.creatorIndex = {<<t.contracts[a].creator, t.contracts[a].created, a>> :
                            a \in DOMAIN t.contracts}
    BY <1>4, <1>6, <2>2 DEF StoreInv, IndexesOK
  <2> QED BY <2>1, <2>3 DEF IndexesOK
<1>17. PortsOK(t)
  <2>1. info.port = port /\ info.codeID = codeID
    BY <1>3
  <2>2. \A c : HasIBCEntryPoints(t, c) = HasIBCEntryPoints(s, c)
    BY <1>4 DEF HasIBCEntryPoints
  <2>3. \A a \in DOMAIN t.contracts :
          t.contracts[a].port = HasIBCEntryPoints(t, t.contracts[a].codeID)
    BY <1>1, <1>6, <2>1, <2>2 DEF StoreInv, PortsOK
  <2>4. t.ports = {a \in DOMAIN t.contracts : t.contracts[a].port}
    BY <1>1, <1>4, <1>6, <2>1 DEF StoreInv, PortsOK, HasIBCEntryPoints
  <2> QED BY <2>3, <2>4 DEF PortsOK
<1>18. InstanceIDsOK(t)
  BY <1>4, <1>6 DEF StoreInv, InstanceIDsOK, AddressFits
<1>19. AddressesOK(t)
  <2>1. info.creator = creator
    BY <1>3
  <2>2. t.history[addr][1].codeID = codeID
    BY <1>7, <1>8
  <2> QED BY <1>4, <1>5, <1>6, <1>8, <2>1, <2>2
          DEF StoreInv, AddressesOK, AddressFits
<1>20. CodesIn(t, vm)
  BY <1>4 DEF StoreInv, CodesIn
<1> QED BY <1>12, <1>13, <1>14, <1>15, <1>16, <1>17, <1>18, <1>19, <1>20
        DEF StoreInv

(* keeper.migrate keeps the registry consistent: the index entry that it   *)
(* deletes is the one the contract has.                                    *)
LEMMA MigratedOK ==
  ASSUME NEW s, NEW vm, position \in Nat, StoreInv(s, vm),
         NEW addr \in DOMAIN s.contracts, NEW codeID \in DOMAIN s.codes,
         s.contracts[addr].port => HasIBCEntryPoints(s, codeID),
         NEW t, t = Migrated(s, addr, codeID)
  PROVE  StoreInv(t, vm)
<1>1. PICK port : port = (s.contracts[addr].port \/ HasIBCEntryPoints(s, codeID))
  OBVIOUS
<1>2. PICK entry : entry = [operation |-> "migrate", codeID |-> codeID,
                            updated |-> position]
  OBVIOUS
<1>3. PICK info : info = [s.contracts[addr] EXCEPT !.codeID = codeID,
                                                  !.port = port]
  OBVIOUS
<1>4. /\ HasStoreFields(t)
      /\ t.contracts = Put(s.contracts, addr, info)
      /\ t.history = AppendHistory(s, addr, entry)
      /\ t.codeIndex = MigratedIndex(s, addr, entry)
      /\ t.ports = IF port THEN s.ports \cup {addr} ELSE s.ports
      /\ t.params = s.params /\ t.codes = s.codes
      /\ t.codeSeq = s.codeSeq /\ t.instanceSeq = s.instanceSeq
      /\ t.creatorIndex = s.creatorIndex
      /\ t.pinned = s.pinned /\ t.gasless = s.gasless
  <2>1. HasStoreFields(s)
    BY DEF StoreInv, IsStore
  <2> QED BY <1>1, <1>2, <1>3, <2>1 DEF Migrated, HasStoreFields
<1>5. /\ IsStore(s) /\ s.codeSeq \in Nat /\ codeID \in Nat
      /\ DOMAIN s.history = DOMAIN s.contracts
      /\ IsContractInfo(s.contracts[addr])
      /\ s.history[addr] \in Seq(HistoryEntry)
      /\ s.history[addr] # <<>>
  BY DEF StoreInv, IsStore, CodesResolve, HistoryKept
<1>6. /\ DOMAIN t.contracts = DOMAIN s.contracts
      /\ t.contracts[addr] = info
      /\ \A a \in DOMAIN s.contracts : a # addr => t.contracts[a] = s.contracts[a]
  BY <1>4 DEF Put
<1>7. entry \in HistoryEntry /\ entry.codeID = codeID /\ entry.updated = position
  BY <1>2, <1>5 DEF HistoryEntry
<1>8. /\ DOMAIN t.history = DOMAIN s.history
      /\ t.history[addr] = Append(s.history[addr], entry)
      /\ \A a \in DOMAIN s.history : a # addr => t.history[a] = s.history[a]
  BY <1>4, <1>5 DEF AppendHistory, Put
<1>9. /\ t.history[addr] \in Seq(HistoryEntry)
      /\ Len(s.history[addr]) \in Nat /\ Len(s.history[addr]) >= 1
      /\ Len(t.history[addr]) = Len(s.history[addr]) + 1
      /\ t.history[addr][Len(s.history[addr]) + 1] = entry
      /\ \A i \in 1..Len(s.history[addr]) :
           t.history[addr][i] = s.history[addr][i]
      /\ DOMAIN s.history[addr] = 1..Len(s.history[addr])
      /\ DOMAIN t.history[addr] = 1..(Len(s.history[addr]) + 1)
  BY <1>5, <1>7, <1>8
<1>10. LastEntry(t, addr) = entry
  BY <1>9 DEF LastEntry
<1>11. \A a \in DOMAIN s.contracts : a # addr => LastEntry(t, a) = LastEntry(s, a)
  BY <1>5, <1>8 DEF LastEntry
<1>12. port \in BOOLEAN /\ port = HasIBCEntryPoints(s, codeID)
  BY <1>1, <1>5 DEF IsContractInfo, HasIBCEntryPoints
<1>13. /\ IsContractInfo(info) /\ info.codeID = codeID /\ info.port = port
       /\ info.creator = s.contracts[addr].creator
       /\ info.created = s.contracts[addr].created
  BY <1>3, <1>5, <1>12 DEF IsContractInfo
<1>14. IsStore(t) /\ t.codeSeq >= 1
  <2>1. \A a \in DOMAIN t.contracts : IsContractInfo(t.contracts[a])
    BY <1>5, <1>6, <1>13 DEF IsStore
  <2>2. \A a \in DOMAIN t.history : t.history[a] \in Seq(HistoryEntry)
    BY <1>5, <1>8, <1>9 DEF IsStore
  <2> QED BY <1>4, <1>5, <2>1, <2>2 DEF StoreInv, IsStore
<1>15. CodesResolve(t)
  BY <1>4, <1>6, <1>13 DEF StoreInv, CodesResolve
<1>16. IsMap(t.codes) /\ IsMap(t.contracts) /\ IsMap(t.history)
  BY <1>4, PutIsMap DEF StoreInv, AppendHistory
<1>17. s.history[addr][1].updated = s.contracts[addr].created
  BY DEF StoreInv, HistoryKept
<1>18. HistoryKept(t)
  <2>1. SUFFICES ASSUME NEW a \in DOMAIN t.contracts
                 PROVE  /\ t.history[a] # <<>>
                        /\ t.history[a][1].updated = t.contracts[a].created
                        /\ LastEntry(t, a).codeID = t.contracts[a].codeID
    BY <1>5, <1>6, <1>8 DEF HistoryKept
  <2>2. CASE a = addr
    <3>1. t.history[a] # <<>>
      BY <1>9, <2>2
    <3>2. t.history[a][1].updated = t.contracts[a].created
      <4>1. t.history[addr][1] = s.history[addr][1]
        BY <1>9
      <4> QED BY <1>6, <1>13, <1>17, <2>2, <4>1
    <3>3. LastEntry(t, a).codeID = t.contracts[a].codeID
      BY <1>6, <1>7, <1>10, <1>13, <2>2
    <3> QED BY <3>1, <3>2, <3>3
  <2>3. CASE a # addr
    BY <1>5, <1>6, <1>8, <1>11, <2>3 DEF StoreInv, HistoryKept
  <2> QED BY <2>2, <2>3
<1>19. IndexesOK(t)
  <2>1. t.codeIndex = {CodeIndexKey(a, LastEntry(t, a)) : a \in DOMAIN t.contracts}
    <3>1. s.codeIndex = {CodeIndexKey(a, LastEntry(s, a)) : a \in DOMAIN s.contracts}
      BY DEF StoreInv, IndexesOK
    <3>2. \A a, b, e, f : CodeIndexKey(a, e) = CodeIndexKey(b, f) => a = b
      BY DEF CodeIndexKey
    <3> QED BY <1>4, <1>6, <1>10, <1>11, <3>1, <3>2 DEF MigratedIndex
  <2>2. t.creatorIndex = {<<t.contracts[a].creator, t.contracts[a].created, a>> :
                            a \in DOMAIN t.contracts}
    BY <1>4, <1>6, <1>13 DEF StoreInv, IndexesOK
  <2> QED BY <2>1, <2>2 DEF IndexesOK
<1>20. PortsOK(t)
  <2>1. \A c : HasIBCEntryPoints(t, c) = HasIBCEntryPoints(s, c)
    BY <1>4 DEF HasIBCEntryPoints
  <2>2. \A a \in DOMAIN t.contracts :
          t.contracts[a].port = HasIBCEntryPoints(t, t.contracts[a].codeID)
    BY <1>6, <1>12, <1>13, <2>1 DEF StoreInv, PortsOK
  <2>3. s.contracts[addr].port => port
    BY <1>12
  <2>4. t.ports = {a \in DOMAIN t.contracts : t.contracts[a].port}
    BY <1>4, <1>6, <1>12, <1>13, <2>3 DEF StoreInv, PortsOK
  <2> QED BY <2>2, <2>4 DEF PortsOK
<1>21. InstanceIDsOK(t)
  BY <1>4, <1>6 DEF StoreInv, InstanceIDsOK
<1>22. AddressesOK(t)
  <2>1. \A a \in DOMAIN t.contracts :
          /\ t.history[a][1] = s.history[a][1]
          /\ t.contracts[a].creator = s.contracts[a].creator
    BY <1>5, <1>6, <1>8, <1>9, <1>13
  <2> QED BY <1>4, <1>6, <2>1 DEF StoreInv, AddressesOK
<1>23. CodesIn(t, vm)
  BY <1>4 DEF StoreInv, CodesIn
<1> QED BY <1>14, <1>15, <1>16, <1>18, <1>19, <1>20, <1>21, <1>22, <1>23
        DEF StoreInv

(* setContractAdmin and setContractLabel keep the registry consistent. *)
LEMMA ContractSetOK ==
  ASSUME NEW s, NEW vm, StoreInv(s, vm),
         NEW addr \in DOMAIN s.contracts,
         NEW info, IsContractInfo(info),
         info.codeID = s.contracts[addr].codeID,
         info.creator = s.contracts[addr].creator,
         info.created = s.contracts[addr].created,
         info.port = s.contracts[addr].port,
         NEW t, t = [s EXCEPT !.contracts = Put(s.contracts, addr, info)]
  PROVE  StoreInv(t, vm)
<1>1. /\ HasStoreFields(t)
      /\ t.contracts = Put(s.contracts, addr, info)
      /\ t.params = s.params /\ t.codes = s.codes /\ t.codeSeq = s.codeSeq
      /\ t.instanceSeq = s.instanceSeq /\ t.history = s.history
      /\ t.codeIndex = s.codeIndex /\ t.creatorIndex = s.creatorIndex
      /\ t.ports = s.ports /\ t.pinned = s.pinned /\ t.gasless = s.gasless
  BY DEF StoreInv, IsStore, HasStoreFields
<1>2. /\ DOMAIN t.contracts = DOMAIN s.contracts
      /\ \A a \in DOMAIN s.contracts :
           /\ t.contracts[a].codeID = s.contracts[a].codeID
           /\ t.contracts[a].creator = s.contracts[a].creator
           /\ t.contracts[a].created = s.contracts[a].created
           /\ t.contracts[a].port = s.contracts[a].port
           /\ IsContractInfo(t.contracts[a])
  BY <1>1 DEF Put, StoreInv, IsStore
<1>3. IsStore(t) /\ CodesResolve(t) /\ t.codeSeq >= 1
  BY <1>1, <1>2 DEF StoreInv, IsStore, CodesResolve
<1>4. HistoryKept(t)
  BY <1>1, <1>2 DEF StoreInv, HistoryKept, LastEntry
<1>5. IndexesOK(t)
  BY <1>1, <1>2 DEF StoreInv, IndexesOK, LastEntry
<1>6. PortsOK(t)
  BY <1>1, <1>2 DEF StoreInv, PortsOK, HasIBCEntryPoints
<1>7. InstanceIDsOK(t) /\ AddressesOK(t) /\ CodesIn(t, vm)
  BY <1>1, <1>2 DEF StoreInv, InstanceIDsOK, AddressesOK, CodesIn
<1>8. IsMap(t.codes) /\ IsMap(t.contracts) /\ IsMap(t.history)
  BY <1>1, PutIsMap DEF StoreInv
<1> QED BY <1>3, <1>4, <1>5, <1>6, <1>7, <1>8 DEF StoreInv

(* setAccessConfig keeps the registry consistent. *)
LEMMA CodeSetOK ==
  ASSUME NEW s, NEW vm, StoreInv(s, vm),
         NEW codeID \in DOMAIN s.codes,
         NEW info, IsCodeInfo(info), info.checksum = s.codes[codeID].checksum,
         NEW t, t = [s EXCEPT !.codes = Put(s.codes, codeID, info)]
  PROVE  StoreInv(t, vm)
<1>1. /\ HasStoreFields(t)
      /\ t.codes = Put(s.codes, codeID, info)
      /\ t.params = s.params /\ t.contracts = s.contracts
      /\ t.codeSeq = s.codeSeq
      /\ t.instanceSeq = s.instanceSeq /\ t.history = s.history
      /\ t.codeIndex = s.codeIndex /\ t.creatorIndex = s.creatorIndex
      /\ t.ports = s.ports /\ t.pinned = s.pinned /\ t.gasless = s.gasless
  BY DEF StoreInv, IsStore, HasStoreFields
<1>2. /\ DOMAIN t.codes = DOMAIN s.codes
      /\ \A c \in DOMAIN s.codes : /\ t.codes[c].checksum = s.codes[c].checksum
                                   /\ IsCodeInfo(t.codes[c])
  BY <1>1 DEF Put, StoreInv, IsStore
<1>3. IsStore(t) /\ CodesResolve(t) /\ t.codeSeq >= 1
  BY <1>1, <1>2 DEF StoreInv, IsStore, CodesResolve
<1>4. HistoryKept(t) /\ IndexesOK(t)
  BY <1>1 DEF StoreInv, HistoryKept, IndexesOK, LastEntry
<1>5. PortsOK(t)
  BY <1>1, <1>2 DEF StoreInv, PortsOK, HasIBCEntryPoints, CodesResolve
<1>6. InstanceIDsOK(t) /\ AddressesOK(t) /\ CodesIn(t, vm)
  BY <1>1, <1>2 DEF StoreInv, InstanceIDsOK, AddressesOK, CodesIn
<1>7. IsMap(t.codes) /\ IsMap(t.contracts) /\ IsMap(t.history)
  BY <1>1, PutIsMap DEF StoreInv
<1> QED BY <1>3, <1>4, <1>5, <1>6, <1>7 DEF StoreInv

IsParams(p) ==
  /\ p = [uploadAccess |-> p.uploadAccess,
          instantiateDefault |-> p.instantiateDefault]
  /\ IsConfig(p.uploadAccess)
  /\ p.instantiateDefault \in AccessTypes

(* Parameters, pinned codes and gasless contracts may be set at will. *)
LEMMA GovernedSetOK ==
  ASSUME NEW s, NEW vm, StoreInv(s, vm),
         NEW t, HasStoreFields(t),
         IsParams(t.params), t.pinned \subseteq DOMAIN s.codes,
         t.gasless \subseteq DOMAIN s.contracts,
         t.codes = s.codes, t.codeSeq = s.codeSeq,
         t.contracts = s.contracts, t.instanceSeq = s.instanceSeq,
         t.history = s.history, t.codeIndex = s.codeIndex,
         t.creatorIndex = s.creatorIndex, t.ports = s.ports
  PROVE  StoreInv(t, vm)
<1>1. IsStore(t) /\ CodesResolve(t) /\ t.codeSeq >= 1
  BY DEF StoreInv, IsStore, CodesResolve, IsParams
<1>2. HistoryKept(t) /\ IndexesOK(t)
  BY DEF StoreInv, HistoryKept, IndexesOK, LastEntry
<1>3. PortsOK(t) /\ InstanceIDsOK(t) /\ AddressesOK(t) /\ CodesIn(t, vm)
  BY DEF StoreInv, PortsOK, HasIBCEntryPoints, InstanceIDsOK, AddressesOK,
         CodesIn
<1> QED BY <1>1, <1>2, <1>3 DEF StoreInv

-----------------------------------------------------------------------------
(* Lemmas about the call stack.                                            *)

(* q is a finite sequence, of whatever it holds. *)
IsSequence(q) == q \in Seq({q[i] : i \in DOMAIN q})

(* A sequence over any set is a sequence of its own elements. *)
LEMMA SequenceOfAnything ==
  ASSUME NEW S, NEW q \in Seq(S)
  PROVE  IsSequence(q)
<1>1. q \in [1..Len(q) -> {q[i] : i \in DOMAIN q}]
  OBVIOUS
<1>2. Len(q) \in Nat
  OBVIOUS
<1> QED BY <1>1, <1>2, SeqDef DEF IsSequence

(* A call pushed on the stack keeps the entries below it. *)
LEMMA PushFacts ==
  ASSUME NEW q, IsSequence(q), NEW e, NEW r, r = Append(q, e)
  PROVE  /\ IsSequence(r)
         /\ Len(q) \in Nat /\ Len(r) = Len(q) + 1
         /\ DOMAIN q = 1..Len(q) /\ DOMAIN r = 1..(Len(q) + 1)
         /\ r[Len(q) + 1] = e
         /\ \A i \in DOMAIN q : r[i] = q[i]
<1> DEFINE S == {q[i] : i \in DOMAIN q} \cup {e}
<1>1. q \in Seq(S)
  <2>1. q \in [1..Len(q) -> S] /\ Len(q) \in Nat
    BY DEF IsSequence
  <2> QED BY <2>1, SeqDef
<1>2. r \in Seq(S)
  BY <1>1
<1>3. IsSequence(r)
  BY <1>2, SequenceOfAnything
<1> HIDE DEF S
<1> QED BY <1>1, <1>3

(* A call popped from the stack keeps the entries below it. *)
LEMMA PopFacts ==
  ASSUME NEW q, IsSequence(q), Len(q) > 1,
         NEW r, r = SubSeq(q, 1, Len(q) - 1)
  PROVE  /\ IsSequence(r)
         /\ Len(q) \in Nat /\ Len(r) = Len(q) - 1
         /\ DOMAIN q = 1..Len(q) /\ DOMAIN r = 1..(Len(q) - 1)
         /\ \A i \in DOMAIN r : r[i] = q[i]
<1> DEFINE S == {q[i] : i \in DOMAIN q}
<1>1. q \in Seq(S)
  BY DEF IsSequence
<1> HIDE DEF S
<1>2. r \in Seq(S)
  BY <1>1
<1>3. IsSequence(r)
  BY <1>2, SequenceOfAnything
<1> QED BY <1>1, <1>3

-----------------------------------------------------------------------------
(* The invariant.                                                          *)

FramePolicies == {"none", "default", "partialInstantiate", "partialMigrate"}

(* What the call stack satisfies: the frames of contracts are not signed   *)
(* by the authority, so that only a transaction of the authority itself    *)
(* runs a message under the gov policy.                                    *)
StackInv ==
  /\ IsSequence(stack)
  /\ Len(stack) <= MaxCallDepth + 2
  /\ \A i \in DOMAIN stack : stack[i].policy \in FramePolicies
  /\ \A i \in DOMAIN stack : i > 1 => Authority \notin stack[i].signers
  /\ EscalationNeedsAuthority

Inv ==
  /\ StackInv
  /\ \A s \in Stores : StoreInv(s, vmCodes)
  /\ position \in Nat
  /\ vmCodes \subseteq Checksum
  /\ vmPinned \subseteq Checksum

(* A step that calls a contract: the frame of the contract is pushed. *)
LEMMA PushOK ==
  ASSUME StackInv, stack # <<>>, Len(stack) - 1 <= MaxCallDepth,
         NEW addr, addr # Authority,
         NEW policy \in FramePolicies,
         policy = "partialInstantiate" =>
            "instantiate" \in Propagate /\ Authority \in stack[1].signers,
         policy = "partialMigrate" =>
            "migrate" \in Propagate /\ Authority \in stack[1].signers,
         Call(addr, policy)
  PROVE  StackInv' /\ Stores' \subseteq Stores \cup {kv'}
<1>1. PICK f : f = [snapshot |-> kv, signers |-> {addr}, policy |-> policy]
  OBVIOUS
<1>2. stack' = Append(stack, f)
  BY <1>1 DEF Call
<1>3. /\ IsSequence(stack')
      /\ Len(stack) \in Nat /\ Len(stack') = Len(stack) + 1
      /\ DOMAIN stack = 1..Len(stack) /\ DOMAIN stack' = 1..(Len(stack) + 1)
      /\ stack'[Len(stack) + 1] = f
      /\ \A i \in DOMAIN stack : stack'[i] = stack[i]
  <2>1. IsSequence(stack)
    BY DEF StackInv
  <2>2. IsSequence(stack')
    BY <1>2, <2>1, PushFacts
  <2>3. Len(stack) \in Nat /\ Len(stack') = Len(stack) + 1
    BY <1>2, <2>1, PushFacts
  <2>4. DOMAIN stack = 1..Len(stack) /\ DOMAIN stack' = 1..(Len(stack) + 1)
    BY <1>2, <2>1, PushFacts
  <2>5. stack'[Len(stack) + 1] = f
    BY <1>2, <2>1, PushFacts
  <2>6. \A i \in DOMAIN stack : stack'[i] = stack[i]
    BY <1>2, <2>1, PushFacts
  <2> QED BY <2>2, <2>3, <2>4, <2>5, <2>6
<1>4. f.snapshot = kv /\ f.signers = {addr} /\ f.policy = policy
  BY <1>1
<1>5. 1 \in DOMAIN stack
  <2>1. Len(stack) # 0
    BY <1>3 DEF StackInv, IsSequence
  <2> QED BY <1>3, <2>1
<1>6. \A i \in DOMAIN stack' : i \in DOMAIN stack \/ i = Len(stack) + 1
  BY <1>3
<1>7. stack'[1] = stack[1]
  BY <1>3, <1>5
<1>8. Len(stack') <= MaxCallDepth + 2
  BY <1>3, ConstantsAssumption
<1>9. \A i \in DOMAIN stack' : stack'[i].policy \in FramePolicies
  BY <1>3, <1>4, <1>6 DEF StackInv
<1>10. \A i \in DOMAIN stack' : i > 1 => Authority \notin stack'[i].signers
  BY <1>3, <1>4, <1>6 DEF StackInv
<1>11. EscalationNeedsAuthority'
  BY <1>3, <1>4, <1>6, <1>7 DEF StackInv, EscalationNeedsAuthority
<1>12. StackInv'
  BY <1>3, <1>8, <1>9, <1>10, <1>11 DEF StackInv
<1>13. Stores' \subseteq Stores \cup {kv'}
  BY <1>3, <1>4, <1>6 DEF Stores
<1> QED BY <1>12, <1>13

(* A step at the end of a call: the frame of the contract is popped. *)
LEMMA PopOK ==
  ASSUME StackInv, Len(stack) > 1,
         stack' = SubSeq(stack, 1, Len(stack) - 1)
  PROVE  StackInv' /\ Stores' \subseteq Stores \cup {kv'}
<1>1. /\ IsSequence(stack')
      /\ Len(stack) \in Nat /\ Len(stack') = Len(stack) - 1
      /\ DOMAIN stack = 1..Len(stack) /\ DOMAIN stack' = 1..(Len(stack) - 1)
      /\ \A i \in DOMAIN stack' : stack'[i] = stack[i]
  BY PopFacts, ZenonT(30) DEF StackInv
<1>2. \A i \in DOMAIN stack' : i \in DOMAIN stack
  BY <1>1
<1>3. stack'[1] = stack[1]
  BY <1>1
<1>4. Len(stack') <= MaxCallDepth + 2
  BY <1>1, ConstantsAssumption DEF StackInv
<1>5. EscalationNeedsAuthority'
  BY <1>1, <1>2, <1>3 DEF StackInv, EscalationNeedsAuthority
<1>6. StackInv'
  BY <1>1, <1>2, <1>4, <1>5 DEF StackInv
<1>7. Stores' \subseteq Stores \cup {kv'}
  BY <1>1, <1>2 DEF Stores
<1> QED BY <1>6, <1>7

(* A step that ends the transaction. *)
LEMMA EmptyOK ==
  ASSUME stack' = <<>>
  PROVE  StackInv' /\ Stores' \subseteq Stores \cup {kv'}
<1>1. IsSequence(stack') /\ Len(stack') = 0 /\ DOMAIN stack' = {}
  BY DEF IsSequence
<1>2. StackInv'
  BY <1>1, ConstantsAssumption DEF StackInv, EscalationNeedsAuthority
<1> QED BY <1>1, <1>2 DEF Stores

(* A step that leaves the stack alone. *)
LEMMA SameOK ==
  ASSUME StackInv, stack' = stack
  PROVE  StackInv' /\ Stores' \subseteq Stores \cup {kv'}
BY DEF StackInv, EscalationNeedsAuthority, Stores

(* What a policy may be that a frame is pushed with. *)
MayPropagate(policy) ==
  /\ policy = "partialInstantiate" =>
       "instantiate" \in Propagate /\ Authority \in stack[1].signers
  /\ policy = "partialMigrate" =>
       "migrate" \in Propagate /\ Authority \in stack[1].signers

(* The last entry of a non-empty stack is one of its entries. *)
LEMMA TopFacts ==
  ASSUME StackInv, stack # <<>>
  PROVE  Len(stack) \in DOMAIN stack /\ Len(stack) \in Nat /\ Len(stack) >= 1
BY DEF StackInv, IsSequence

(* selectAuthorizationPolicy gives the gov policy to messages of an        *)
(* authority's transaction only, and what the context has to the others.   *)
LEMMA PolicyOK ==
  ASSUME StackInv, NEW message, NEW sender, Delivered(message, sender),
         NEW action \in {"instantiate", "migrate"},
         NEW policy, policy = SelectPolicy(sender),
         NEW sub, sub = SubMessageAuthorizationPolicy(policy, action)
  PROVE  sub \in FramePolicies /\ MayPropagate(sub)
<1>1. Len(stack) \in DOMAIN stack /\ Len(stack) \in Nat /\ Len(stack) >= 1
  BY TopFacts DEF Delivered
<1>2. Top.policy \in FramePolicies /\ MayPropagate(Top.policy)
  BY <1>1 DEF StackInv, Top, MayPropagate, EscalationNeedsAuthority
<1>3. CASE sender = Authority
  <2>1. policy = "gov"
    BY <1>3 DEF SelectPolicy
  <2>2. Authority \in stack[1].signers
    <3>1. Authority \in stack[Len(stack)].signers
      BY <1>3 DEF Delivered, Top
    <3>2. ~(Len(stack) > 1)
      BY <1>1, <3>1 DEF StackInv
    <3> QED BY <1>1, <3>1, <3>2
  <2>3. sub = "default" \/ (action \in Propagate /\ sub = PartialGovPolicy(action))
    BY <2>1 DEF SubMessageAuthorizationPolicy
  <2> QED BY <2>2, <2>3 DEF FramePolicies, MayPropagate, PartialGovPolicy
<1>4. CASE sender # Authority
  <2>1. policy = "default" \/ policy = Top.policy
    BY <1>4 DEF SelectPolicy
  <2>2. policy \in FramePolicies /\ MayPropagate(policy)
    BY <1>2, <2>1 DEF FramePolicies, MayPropagate
  <2>3. policy # "gov"
    BY <2>2 DEF FramePolicies
  <2>4. sub = policy
    BY <2>3 DEF SubMessageAuthorizationPolicy
  <2> QED BY <2>2, <2>4
<1> QED BY <1>3, <1>4

(* A step keeps the invariant if it pushes or pops frames as above, makes  *)
(* a consistent store the current one and lets the codes on disk grow.     *)
LEMMA StepOK ==
  ASSUME Inv,
         StackInv' /\ Stores' \subseteq Stores \cup {kv'},
         StoreInv(kv', vmCodes'),
         position' \in Nat,
         vmCodes \subseteq vmCodes', vmCodes' \subseteq Checksum,
         vmPinned' \subseteq Checksum
  PROVE  Inv'
<1>1. ASSUME NEW s \in Stores'
      PROVE  StoreInv(s, vmCodes')
  <2>1. CASE s = kv'
    BY <2>1
  <2>2. CASE s \in Stores
    <3>1. StoreInv(s, vmCodes) /\ position \in Nat
      BY <2>2 DEF Inv
    <3> QED BY <3>1, StoreInvMonotone
  <2> QED BY <1>1, <2>1, <2>2
<1> QED BY <1>1 DEF Inv

(* The store of the running message, and the one a rollback restores. *)
LEMMA CurrentStore ==
  ASSUME Inv
  PROVE  /\ StoreInv(kv, vmCodes)
         /\ stack # <<>> => StoreInv(stack[1].snapshot, vmCodes)
         /\ stack # <<>> => StoreInv(Top.snapshot, vmCodes)
<1>1. kv \in Stores
  BY DEF Stores
<1>2. ASSUME stack # <<>>
      PROVE  stack[1].snapshot \in Stores /\ Top.snapshot \in Stores
  <2>1. Len(stack) \in DOMAIN stack /\ 1 \in DOMAIN stack
    BY <1>2 DEF Inv, StackInv, IsSequence
  <2> QED BY <2>1 DEF Stores, Top
<1> QED BY <1>1, <1>2 DEF Inv

-----------------------------------------------------------------------------
(* The actions, one lemma each for those that change the registry.         *)

(* The config a code is stored with is well formed, given or default. *)
LEMMA ConfigOrDefaultOK ==
  ASSUME Inv, NEW config \in AccessConfigs \cup {Nil}, NEW sender,
         NEW access, access = ConfigOrDefault(config, sender)
  PROVE  IsConfig(access)
<1>1. CASE config = Nil
  <2>1. kv.params.instantiateDefault \in AccessTypes
    BY CurrentStore DEF StoreInv, IsStore
  <2>2. access = [permission |-> kv.params.instantiateDefault,
                  addresses |-> IF kv.params.instantiateDefault = "AnyOfAddresses"
                                THEN {sender} ELSE {}]
    BY <1>1 DEF ConfigOrDefault, With
  <2> QED BY <2>1, <2>2 DEF IsConfig
<1>2. CASE config # Nil
  BY <1>2, ConstantsAssumption DEF ConfigOrDefault
<1> QED BY <1>1, <1>2

(* keeper.instantiate keeps the invariant, from any store that has it. *)
LEMMA InstantiateOK ==
  ASSUME Inv, NEW message, NEW sender, Delivered(message, sender),
         NEW s, StoreInv(s, vmCodes'),
         NEW codeID, NEW addr, NEW admin, NEW label \in Label,
         addr.kind = "classic" =>
           /\ addr.codeID = codeID
           /\ addr.instanceID \in Nat /\ addr.instanceID < s.instanceSeq,
         addr.kind = "predictable" =>
           addr.checksum = s.codes[codeID].checksum /\ addr.creator = sender,
         addr.kind \in {"classic", "predictable"},
         Instantiate(s, SelectPolicy(sender), sender, codeID, addr, admin, label),
         position' = position, vmPinned' = vmPinned,
         vmCodes \subseteq vmCodes', vmCodes' \subseteq Checksum
  PROVE  Inv'
<1>1. position \in Nat /\ StackInv /\ vmPinned \subseteq Checksum
  BY DEF Inv
<1>2. /\ codeID \in DOMAIN s.codes
      /\ addr \notin DOMAIN s.contracts
      /\ addr \notin User \cup {Authority}
      /\ kv' = Instantiated(s, codeID, addr, sender, admin, label)
      /\ Call(addr, SubMessageAuthorizationPolicy(SelectPolicy(sender), "instantiate"))
  BY DEF Instantiate
<1>3. AddressFits(s, addr, codeID, sender)
  BY <1>2 DEF AddressFits
<1>4. StoreInv(kv', vmCodes')
  BY <1>1, <1>2, <1>3, InstantiatedOK
<1>5. PICK sub : sub = SubMessageAuthorizationPolicy(SelectPolicy(sender), "instantiate")
  OBVIOUS
<1>6. sub \in FramePolicies /\ MayPropagate(sub)
  BY <1>1, <1>5, PolicyOK
<1>7. StackInv' /\ Stores' \subseteq Stores \cup {kv'}
  BY <1>1, <1>2, <1>5, <1>6, PushOK DEF Delivered, MayPropagate
<1> QED BY <1>1, <1>4, <1>7, StepOK

(* keeper.migrate keeps the invariant, from any store that has it. *)
LEMMA MigrateOK ==
  ASSUME Inv, NEW message, NEW sender, Delivered(message, sender),
         NEW s, StoreInv(s, vmCodes'),
         NEW addr, NEW codeID,
         Migrate(s, SelectPolicy(sender), sender, addr, codeID),
         position' = position, vmPinned' = vmPinned,
         vmCodes \subseteq vmCodes', vmCodes' \subseteq Checksum
  PROVE  Inv'
<1>1. position \in Nat /\ StackInv /\ vmPinned \subseteq Checksum
  BY DEF Inv
<1>2. /\ addr \in DOMAIN s.contracts /\ codeID \in DOMAIN s.codes
      /\ s.contracts[addr].port => HasIBCEntryPoints(s, codeID)
      /\ kv' = Migrated(s, addr, codeID)
      /\ \/ Call(addr, SubMessageAuthorizationPolicy(SelectPolicy(sender), "migrate"))
         \/ stack' = stack
  BY DEF Migrate, CanMigrate
<1>3. StoreInv(kv', vmCodes')
  BY <1>1, <1>2, MigratedOK
<1>4. addr # Authority
  BY <1>2 DEF StoreInv, AddressesOK
<1>5. PICK sub : sub = SubMessageAuthorizationPolicy(SelectPolicy(sender), "migrate")
  OBVIOUS
<1>6. sub \in FramePolicies /\ MayPropagate(sub)
  BY <1>1, <1>5, PolicyOK
<1>7. StackInv' /\ Stores' \subseteq Stores \cup {kv'}
  <2>1. CASE Call(addr, sub)
    BY <1>1, <1>4, <1>6, <2>1, PushOK DEF Delivered, MayPropagate
  <2>2. CASE stack' = stack
    BY <1>1, <2>2, SameOK
  <2> QED BY <1>2, <1>5, <2>1, <2>2
<1> QED BY <1>1, <1>3, <1>7, StepOK

(* StoreCode keeps the invariant: the byte code is on disk first. *)
LEMMA StoreCodeOK ==
  ASSUME Inv, NEW sender, NEW checksum \in Checksum,
         NEW config \in AccessConfigs \cup {Nil},
         StoreCode(sender, checksum, config)
  PROVE  Inv'
<1>1. PICK access : access = ConfigOrDefault(config, sender)
  OBVIOUS
<1>2. IsConfig(access)
  BY <1>1, ConfigOrDefaultOK
<1>3. /\ vmCodes' = vmCodes \cup {checksum}
      /\ kv' = Created(kv, sender, checksum, access)
      /\ stack' = stack /\ position' = position /\ vmPinned' = vmPinned
  BY <1>1 DEF StoreCode
<1>4. /\ position \in Nat /\ StackInv
      /\ vmPinned \subseteq Checksum /\ vmCodes \subseteq Checksum
  BY DEF Inv
<1>5. StoreInv(kv, vmCodes')
  BY <1>3, <1>4, CurrentStore, StoreInvMonotone
<1>6. StoreInv(kv', vmCodes')
  BY <1>2, <1>3, <1>4, <1>5, CreatedOK
<1>7. StackInv' /\ Stores' \subseteq Stores \cup {kv'}
  BY <1>3, <1>4, SameOK
<1> QED BY <1>3, <1>4, <1>6, <1>7, StepOK

(* InstantiateContract keeps the invariant: its address is fresh. *)
LEMMA InstantiateContractOK ==
  ASSUME Inv, NEW sender, NEW codeID, NEW admin, NEW label \in Label,
         InstantiateContract(sender, codeID, admin, label)
  PROVE  Inv'
<1>1. PICK s : s = InstanceIDTaken(kv)
  OBVIOUS
<1>2. /\ StoreInv(s, vmCodes) /\ s.instanceSeq = kv.instanceSeq + 1
      /\ kv.instanceSeq \in Nat
  <2>1. StoreInv(kv, vmCodes) /\ position \in Nat
    BY CurrentStore DEF Inv
  <2>2. kv.instanceSeq \in Nat
    BY <2>1 DEF StoreInv, IsStore
  <2> QED BY <1>1, <2>1, <2>2, InstanceIDTakenOK
<1>3. PICK addr : addr = ClassicAddress(codeID, kv.instanceSeq)
  OBVIOUS
<1>4. addr.kind = "classic" /\ addr.codeID = codeID /\ addr.instanceID = kv.instanceSeq
  BY <1>3 DEF ClassicAddress
<1>5. /\ Delivered("InstantiateContract", sender)
      /\ Instantiate(s, SelectPolicy(sender), sender, codeID, addr, admin, label)
      /\ position' = position /\ vmCodes' = vmCodes /\ vmPinned' = vmPinned
  BY <1>1, <1>3 DEF InstantiateContract
<1>6. vmCodes \subseteq Checksum
  BY DEF Inv
<1>7. /\ addr.kind = "classic" =>
           /\ addr.codeID = codeID
           /\ addr.instanceID \in Nat /\ addr.instanceID < s.instanceSeq
      /\ addr.kind = "predictable" =>
           addr.checksum = s.codes[codeID].checksum /\ addr.creator = sender
      /\ addr.kind \in {"classic", "predictable"}
  BY <1>2, <1>4
<1> QED BY <1>2, <1>5, <1>6, <1>7, InstantiateOK

(* InstantiateContract2 keeps the invariant: a taken address is refused. *)
LEMMA InstantiateContract2OK ==
  ASSUME Inv, NEW sender, NEW codeID, NEW admin, NEW label \in Label, NEW salt,
         InstantiateContract2(sender, codeID, admin, label, salt)
  PROVE  Inv'
<1>1. PICK addr : addr = PredictableAddress(kv.codes[codeID].checksum, sender, salt)
  OBVIOUS
<1>2. /\ addr.kind = "predictable" /\ addr.checksum = kv.codes[codeID].checksum
      /\ addr.creator = sender
  BY <1>1 DEF PredictableAddress
<1>3. /\ Delivered("InstantiateContract2", sender)
      /\ Instantiate(kv, SelectPolicy(sender), sender, codeID, addr, admin, label)
      /\ position' = position /\ vmCodes' = vmCodes /\ vmPinned' = vmPinned
  BY <1>1 DEF InstantiateContract2
<1>4. vmCodes \subseteq Checksum /\ StoreInv(kv, vmCodes)
  BY CurrentStore DEF Inv
<1>5. /\ addr.kind = "classic" =>
           /\ addr.codeID = codeID
           /\ addr.instanceID \in Nat /\ addr.instanceID < kv.instanceSeq
      /\ addr.kind = "predictable" =>
           addr.checksum = kv.codes[codeID].checksum /\ addr.creator = sender
      /\ addr.kind \in {"classic", "predictable"}
  BY <1>2
<1> QED BY <1>3, <1>4, <1>5, InstantiateOK

(* Storing and instantiating in one message keeps the invariant. *)
LEMMA StoreAndInstantiateOK ==
  ASSUME Inv, NEW sender, NEW checksum \in Checksum,
         NEW config \in AccessConfigs \cup {Nil}, NEW admin, NEW label \in Label,
         StoreAndInstantiateContract(sender, checksum, config, admin, label)
  PROVE  Inv'
<1>1. PICK access : access = ConfigOrDefault(config, sender)
  OBVIOUS
<1>2. PICK stored : stored = Created(kv, sender, checksum, access)
  OBVIOUS
<1>3. PICK s : s = InstanceIDTaken(stored)
  OBVIOUS
<1>4. PICK addr : addr = ClassicAddress(kv.codeSeq, kv.instanceSeq)
  OBVIOUS
<1>5. /\ Delivered("StoreAndInstantiateContract", sender)
      /\ vmCodes' = vmCodes \cup {checksum}
      /\ Instantiate(s, SelectPolicy(sender), sender, kv.codeSeq, addr, admin, label)
      /\ position' = position /\ vmPinned' = vmPinned
  BY <1>1, <1>2, <1>3, <1>4 DEF StoreAndInstantiateContract
<1>6. IsConfig(access) /\ position \in Nat /\ vmCodes' \subseteq Checksum
  BY <1>1, <1>5, ConfigOrDefaultOK DEF Inv
<1>7. StoreInv(kv, vmCodes')
  BY <1>5, <1>6, CurrentStore, StoreInvMonotone
<1>8. StoreInv(stored, vmCodes')
  BY <1>2, <1>5, <1>6, <1>7, CreatedOK
<1>9. /\ StoreInv(s, vmCodes')
      /\ s.instanceSeq = stored.instanceSeq + 1
  BY <1>3, <1>6, <1>8, InstanceIDTakenOK
<1>10. stored.instanceSeq = kv.instanceSeq /\ kv.instanceSeq \in Nat
  <2>1. HasStoreFields(kv) /\ kv.instanceSeq \in Nat
    BY <1>7 DEF StoreInv, IsStore
  <2> QED BY <1>2, <2>1 DEF HasStoreFields, Created
<1>11. /\ addr.kind = "classic" /\ addr.codeID = kv.codeSeq
       /\ addr.instanceID = kv.instanceSeq
  BY <1>4 DEF ClassicAddress
<1>12. /\ addr.kind = "classic" =>
            /\ addr.codeID = kv.codeSeq
            /\ addr.instanceID \in Nat /\ addr.instanceID < s.instanceSeq
       /\ addr.kind = "predictable" =>
            addr.checksum = s.codes[kv.codeSeq].checksum /\ addr.creator = sender
       /\ addr.kind \in {"classic", "predictable"}
  BY <1>9, <1>10, <1>11
<1> QED BY <1>5, <1>6, <1>9, <1>12, InstantiateOK

(* MigrateContract keeps the invariant. *)
LEMMA MigrateContractOK ==
  ASSUME Inv, NEW sender, NEW addr, NEW codeID,
         MigrateContract(sender, addr, codeID)
  PROVE  Inv'
<1>1. /\ Delivered("MigrateContract", sender)
      /\ Migrate(kv, SelectPolicy(sender), sender, addr, codeID)
      /\ position' = position /\ vmCodes' = vmCodes /\ vmPinned' = vmPinned
  BY DEF MigrateContract
<1>2. vmCodes \subseteq Checksum /\ StoreInv(kv, vmCodes)
  BY CurrentStore DEF Inv
<1> QED BY <1>1, <1>2, MigrateOK

(* Storing and migrating in one message keeps the invariant. *)
LEMMA StoreAndMigrateOK ==
  ASSUME Inv, NEW sender, NEW checksum \in Checksum,
         NEW config \in AccessConfigs \cup {Nil}, NEW addr,
         StoreAndMigrateContract(sender, checksum, config, addr)
  PROVE  Inv'
<1>1. PICK access : access = ConfigOrDefault(config, sender)
  OBVIOUS
<1>2. PICK stored : stored = Created(kv, sender, checksum, access)
  OBVIOUS
<1>3. /\ Delivered("StoreAndMigrateContract", sender)
      /\ vmCodes' = vmCodes \cup {checksum}
      /\ Migrate(stored, SelectPolicy(sender), sender, addr, kv.codeSeq)
      /\ position' = position /\ vmPinned' = vmPinned
  BY <1>1, <1>2 DEF StoreAndMigrateContract
<1>4. IsConfig(access) /\ position \in Nat /\ vmCodes' \subseteq Checksum
  BY <1>1, <1>3, ConfigOrDefaultOK DEF Inv
<1>5. StoreInv(kv, vmCodes')
  BY <1>3, <1>4, CurrentStore, StoreInvMonotone
<1>6. StoreInv(stored, vmCodes')
  BY <1>2, <1>3, <1>4, <1>5, CreatedOK
<1> QED BY <1>3, <1>4, <1>6, MigrateOK

(* execute and sudo: the policy of the context is handed on. *)
LEMMA CallContractOK ==
  ASSUME Inv, NEW message, NEW sender, Delivered(message, sender),
         NEW addr \in DOMAIN kv.contracts, Call(addr, Top.policy),
         UNCHANGED <<kv, position, vmCodes, vmPinned>>
  PROVE  Inv'
<1>1. /\ StackInv /\ position \in Nat /\ vmCodes \subseteq Checksum
      /\ vmPinned \subseteq Checksum /\ StoreInv(kv, vmCodes)
  BY CurrentStore DEF Inv
<1>2. Len(stack) \in DOMAIN stack
  BY <1>1, TopFacts DEF Delivered
<1>3. Top.policy \in FramePolicies /\ MayPropagate(Top.policy)
  BY <1>1, <1>2 DEF StackInv, Top, MayPropagate, EscalationNeedsAuthority
<1>4. addr # Authority
  BY <1>1 DEF StoreInv, AddressesOK
<1>5. StackInv' /\ Stores' \subseteq Stores \cup {kv'}
  BY <1>1, <1>3, <1>4, PushOK DEF Delivered, MayPropagate
<1> QED BY <1>1, <1>5, StepOK

(* Changing the admin or the label of a contract keeps the invariant. *)
LEMMA UpdateContractOK ==
  ASSUME Inv, NEW sender, NEW addr, NEW x,
         \/ UpdateAdmin(sender, addr, x)
         \/ UpdateContractLabel(sender, addr, x) /\ x \in Label
  PROVE  Inv'
<1>1. /\ StackInv /\ position \in Nat /\ vmCodes \subseteq Checksum
      /\ vmPinned \subseteq Checksum /\ StoreInv(kv, vmCodes)
  BY CurrentStore DEF Inv
<1>2. /\ addr \in DOMAIN kv.contracts
      /\ stack' = stack /\ position' = position /\ vmCodes' = vmCodes
      /\ vmPinned' = vmPinned
  BY DEF UpdateAdmin, UpdateContractLabel
<1>3. PICK old : old = kv.contracts[addr]
  OBVIOUS
<1>4. IsContractInfo(old)
  BY <1>1, <1>2, <1>3 DEF StoreInv, IsStore
<1>5. PICK info : /\ kv' = [kv EXCEPT !.contracts = Put(kv.contracts, addr, info)]
                  /\ \/ info = [old EXCEPT !.admin = x]
                     \/ info = [old EXCEPT !.label = x] /\ x \in Label
  BY <1>3 DEF UpdateAdmin, UpdateContractLabel
<1>6. /\ IsContractInfo(info) /\ info.codeID = old.codeID
      /\ info.creator = old.creator /\ info.created = old.created
      /\ info.port = old.port
  BY <1>4, <1>5 DEF IsContractInfo
<1>7. StoreInv(kv', vmCodes)
  BY <1>1, <1>2, <1>3, <1>5, <1>6, ContractSetOK
<1>8. StackInv' /\ Stores' \subseteq Stores \cup {kv'}
  BY <1>1, <1>2, SameOK
<1> QED BY <1>1, <1>2, <1>7, <1>8, StepOK

(* Changing the access config of a code keeps the invariant. *)
LEMMA UpdateInstantiateConfigOK ==
  ASSUME Inv, NEW sender, NEW codeID, NEW config \in AccessConfigs,
         UpdateInstantiateConfig(sender, codeID, config)
  PROVE  Inv'
<1>1. /\ StackInv /\ position \in Nat /\ vmCodes \subseteq Checksum
      /\ vmPinned \subseteq Checksum /\ StoreInv(kv, vmCodes)
  BY CurrentStore DEF Inv
<1>2. PICK old : old = kv.codes[codeID]
  OBVIOUS
<1>3. PICK info : info = [old EXCEPT !.config = config]
  OBVIOUS
<1>4. /\ codeID \in DOMAIN kv.codes
      /\ kv' = [kv EXCEPT !.codes = Put(kv.codes, codeID, info)]
      /\ stack' = stack /\ position' = position /\ vmCodes' = vmCodes
      /\ vmPinned' = vmPinned
  BY <1>2, <1>3 DEF UpdateInstantiateConfig
<1>5. IsCodeInfo(old)
  BY <1>1, <1>2, <1>4 DEF StoreInv, IsStore
<1>6. IsConfig(config)
  BY ConstantsAssumption
<1>7. IsCodeInfo(info) /\ info.checksum = old.checksum
  BY <1>3, <1>5, <1>6 DEF IsCodeInfo
<1>8. StoreInv(kv', vmCodes)
  BY <1>1, <1>2, <1>4, <1>7, CodeSetOK
<1>9. StackInv' /\ Stores' \subseteq Stores \cup {kv'}
  BY <1>1, <1>4, SameOK
<1> QED BY <1>1, <1>4, <1>8, <1>9, StepOK

(* A message that changes only governed fields keeps the invariant. *)
LEMMA GovernedStepOK ==
  ASSUME Inv, HasStoreFields(kv'), IsParams(kv'.params),
         kv'.pinned \subseteq DOMAIN kv.codes,
         kv'.gasless \subseteq DOMAIN kv.contracts,
         kv'.codes = kv.codes, kv'.codeSeq = kv.codeSeq,
         kv'.contracts = kv.contracts, kv'.instanceSeq = kv.instanceSeq,
         kv'.history = kv.history, kv'.codeIndex = kv.codeIndex,
         kv'.creatorIndex = kv.creatorIndex, kv'.ports = kv.ports,
         vmPinned' \subseteq Checksum,
         UNCHANGED <<stack, position, vmCodes>>
  PROVE  Inv'
<1>1. /\ StackInv /\ position \in Nat /\ vmCodes \subseteq Checksum
      /\ StoreInv(kv, vmCodes)
  BY CurrentStore DEF Inv
<1>2. StoreInv(kv', vmCodes)
  BY <1>1, GovernedSetOK
<1>3. StackInv' /\ Stores' \subseteq Stores \cup {kv'}
  BY <1>1, SameOK
<1> QED BY <1>1, <1>2, <1>3, StepOK

(* UpdateParams keeps the invariant. *)
LEMMA UpdateParamsOK ==
  ASSUME Inv, NEW config \in AccessConfigs, NEW type \in AccessTypes,
         UpdateParams(config, type)
  PROVE  Inv'
<1>1. PICK params : params = [uploadAccess |-> config, instantiateDefault |-> type]
  OBVIOUS
<1>2. /\ HasStoreFields(kv) /\ vmPinned \subseteq Checksum
      /\ kv.pinned \subseteq DOMAIN kv.codes
      /\ kv.gasless \subseteq DOMAIN kv.contracts
  BY CurrentStore DEF Inv, StoreInv, IsStore, CodesResolve
<1>3. /\ kv' = [kv EXCEPT !.params = params]
      /\ UNCHANGED <<stack, position, vmCodes, vmPinned>>
  BY <1>1 DEF UpdateParams
<1>4. IsParams(params)
  BY <1>1, ConstantsAssumption DEF IsParams
<1>5. /\ HasStoreFields(kv') /\ kv'.params = params
      /\ kv'.pinned = kv.pinned /\ kv'.gasless = kv.gasless
      /\ kv'.codes = kv.codes /\ kv'.codeSeq = kv.codeSeq
      /\ kv'.contracts = kv.contracts /\ kv'.instanceSeq = kv.instanceSeq
      /\ kv'.history = kv.history /\ kv'.codeIndex = kv.codeIndex
      /\ kv'.creatorIndex = kv.creatorIndex /\ kv'.ports = kv.ports
  BY <1>2, <1>3 DEF HasStoreFields
<1> QED BY <1>2, <1>3, <1>4, <1>5, GovernedStepOK

(* Adding and removing upload addresses keeps the invariant. *)
LEMMA UploadAddressesOK ==
  ASSUME Inv, NEW addrs,
         \/ AddCodeUploadParamsAddresses(addrs)
         \/ RemoveCodeUploadParamsAddresses(addrs)
  PROVE  Inv'
<1>1. /\ HasStoreFields(kv) /\ IsParams(kv.params) /\ vmPinned \subseteq Checksum
      /\ kv.pinned \subseteq DOMAIN kv.codes
      /\ kv.gasless \subseteq DOMAIN kv.contracts
  BY CurrentStore DEF Inv, StoreInv, IsStore, IsParams, CodesResolve
<1>2. PICK new : kv' = [kv EXCEPT !.params.uploadAccess.addresses = new]
  BY DEF AddCodeUploadParamsAddresses, RemoveCodeUploadParamsAddresses
<1>3. UNCHANGED <<stack, position, vmCodes, vmPinned>>
  BY DEF AddCodeUploadParamsAddresses, RemoveCodeUploadParamsAddresses
<1>4. PICK access : access = [kv.params.uploadAccess EXCEPT !.addresses = new]
  OBVIOUS
<1>5. PICK params : params = [kv.params EXCEPT !.uploadAccess = access]
  OBVIOUS
<1>6. kv' = [kv EXCEPT !.params = params]
  BY <1>2, <1>4, <1>5
<1>7. IsConfig(access)
  BY <1>1, <1>4 DEF IsParams, IsConfig
<1>8. IsParams(params)
  BY <1>1, <1>5, <1>7 DEF IsParams
<1>9. /\ HasStoreFields(kv') /\ kv'.params = params
      /\ kv'.pinned = kv.pinned /\ kv'.gasless = kv.gasless
      /\ kv'.codes = kv.codes /\ kv'.codeSeq = kv.codeSeq
      /\ kv'.contracts = kv.contracts /\ kv'.instanceSeq = kv.instanceSeq
      /\ kv'.history = kv.history /\ kv'.codeIndex = kv.codeIndex
      /\ kv'.creatorIndex = kv.creatorIndex /\ kv'.ports = kv.ports
  BY <1>1, <1>6 DEF HasStoreFields
<1> QED BY <1>1, <1>3, <1>8, <1>9, GovernedStepOK

(* Pinning and unpinning codes keeps the invariant. *)
LEMMA PinnedOK ==
  ASSUME Inv, NEW codeIDs, PinCodes(codeIDs) \/ UnpinCodes(codeIDs)
  PROVE  Inv'
<1>1. /\ HasStoreFields(kv) /\ IsParams(kv.params) /\ vmPinned \subseteq Checksum
      /\ kv.pinned \subseteq DOMAIN kv.codes
      /\ kv.gasless \subseteq DOMAIN kv.contracts
      /\ \A c \in DOMAIN kv.codes : kv.codes[c].checksum \in Checksum
  BY CurrentStore
     DEF Inv, StoreInv, IsStore, IsParams, CodesResolve, IsCodeInfo
<1>2. PICK new : /\ kv' = [kv EXCEPT !.pinned = new]
                 /\ new = kv.pinned \cup codeIDs \/ new = kv.pinned \ codeIDs
  BY DEF PinCodes, UnpinCodes
<1>3. /\ codeIDs \subseteq DOMAIN kv.codes
      /\ \/ vmPinned' = vmPinned \cup {kv.codes[c].checksum : c \in codeIDs}
         \/ vmPinned' = vmPinned \ {kv.codes[c].checksum : c \in codeIDs}
      /\ UNCHANGED <<stack, position, vmCodes>>
  BY DEF PinCodes, UnpinCodes
<1>4. vmPinned' \subseteq Checksum /\ new \subseteq DOMAIN kv.codes
  BY <1>1, <1>2, <1>3
<1>5. /\ HasStoreFields(kv') /\ kv'.pinned = new
      /\ kv'.params = kv.params /\ kv'.gasless = kv.gasless
      /\ kv'.codes = kv.codes /\ kv'.codeSeq = kv.codeSeq
      /\ kv'.contracts = kv.contracts /\ kv'.instanceSeq = kv.instanceSeq
      /\ kv'.history = kv.history /\ kv'.codeIndex = kv.codeIndex
      /\ kv'.creatorIndex = kv.creatorIndex /\ kv'.ports = kv.ports
  BY <1>1, <1>2 DEF HasStoreFields
<1> QED BY <1>1, <1>3, <1>4, <1>5, GovernedStepOK

(* Setting and unsetting gasless contracts keeps the invariant. *)
LEMMA GaslessOK ==
  ASSUME Inv, NEW addrs,
         \/ SetGaslessContracts(addrs)
         \/ \E addr \in DOMAIN kv.contracts : UnsetGasless(addr)
  PROVE  Inv'
<1>1. /\ HasStoreFields(kv) /\ IsParams(kv.params) /\ vmPinned \subseteq Checksum
      /\ kv.pinned \subseteq DOMAIN kv.codes
      /\ kv.gasless \subseteq DOMAIN kv.contracts
  BY CurrentStore DEF Inv, StoreInv, IsStore, IsParams, CodesResolve
<1>2. PICK new : /\ kv' = [kv EXCEPT !.gasless = new]
                 /\ new \subseteq DOMAIN kv.contracts
  <2>1. CASE SetGaslessContracts(addrs)
    BY <1>1, <2>1 DEF SetGaslessContracts
  <2>2. ASSUME NEW addr \in DOMAIN kv.contracts, UnsetGasless(addr)
        PROVE  /\ kv' = [kv EXCEPT !.gasless = kv.gasless \ {addr}]
               /\ kv.gasless \ {addr} \subseteq DOMAIN kv.contracts
    BY <1>1, <2>2 DEF UnsetGasless
  <2> QED BY <2>1, <2>2
<1>3. UNCHANGED <<stack, position, vmCodes, vmPinned>>
  BY DEF SetGaslessContracts, UnsetGasless
<1>4. /\ HasStoreFields(kv') /\ kv'.gasless = new
      /\ kv'.params = kv.params /\ kv'.pinned = kv.pinned
      /\ kv'.codes = kv.codes /\ kv'.codeSeq = kv.codeSeq
      /\ kv'.contracts = kv.contracts /\ kv'.instanceSeq = kv.instanceSeq
      /\ kv'.history = kv.history /\ kv'.codeIndex = kv.codeIndex
      /\ kv'.creatorIndex = kv.creatorIndex /\ kv'.ports = kv.ports
  BY <1>1, <1>2 DEF HasStoreFields
<1> QED BY <1>1, <1>2, <1>3, <1>4, GovernedStepOK

(* A new transaction keeps the invariant. *)
LEMMA BeginTxOK ==
  ASSUME Inv, NEW signers, BeginTx(signers)
  PROVE  Inv'
<1>1. /\ position \in Nat /\ vmCodes \subseteq Checksum
      /\ vmPinned \subseteq Checksum /\ StoreInv(kv, vmCodes)
  BY CurrentStore DEF Inv
<1>2. PICK f : f = [snapshot |-> kv, signers |-> signers, policy |-> "none"]
  OBVIOUS
<1>3. /\ stack' = <<f>> /\ kv' = kv /\ vmCodes' = vmCodes /\ vmPinned' = vmPinned
      /\ position' = position + 1 \/ position' = position
  BY <1>2 DEF BeginTx
<1>4. position' \in Nat
  BY <1>1, <1>3
<1>5. <<f>> \in Seq({f})
  OBVIOUS
<1>6. IsSequence(stack')
  BY <1>3, <1>5, SequenceOfAnything
<1>7. Len(stack') = 1 /\ stack'[1] = f /\ (\A i \in DOMAIN stack' : i = 1)
  BY <1>3
<1>8. f.snapshot = kv /\ f.policy = "none"
  BY <1>2
<1>9. StackInv'
  <2>1. Len(stack') <= MaxCallDepth + 2
    BY <1>7, ConstantsAssumption
  <2>2. \A i \in DOMAIN stack' : stack'[i].policy = "none"
    BY <1>7, <1>8
  <2>3. EscalationNeedsAuthority'
    BY <2>2 DEF EscalationNeedsAuthority
  <2>4. \A i \in DOMAIN stack' : ~(i > 1)
    BY <1>7
  <2> QED BY <1>6, <2>1, <2>2, <2>3, <2>4 DEF StackInv, FramePolicies
<1>10. Stores' \subseteq Stores \cup {kv'}
  BY <1>3, <1>7, <1>8 DEF Stores
<1>11. StoreInv(kv', vmCodes')
  BY <1>1, <1>3, <1>4, StoreInvMonotone
<1> QED BY <1>1, <1>3, <1>4, <1>9, <1>10, <1>11, StepOK

(* Commits, rollbacks and restarts. *)
LEMMA EndOK ==
  ASSUME Inv, CommitTx \/ AbortTx \/ Return \/ FailCall \/ Restart
  PROVE  Inv'
<1>1. /\ StackInv /\ position \in Nat /\ vmCodes \subseteq Checksum
      /\ vmPinned \subseteq Checksum
  BY DEF Inv
<1>2. position' = position /\ vmCodes' = vmCodes
  BY DEF CommitTx, AbortTx, Return, FailCall, Restart
<1>3. \/ kv' = kv
      \/ stack # <<>> /\ kv' = stack[1].snapshot
      \/ stack # <<>> /\ kv' = Top.snapshot
  <2>1. Len(stack) > 2 => stack # <<>>
    OBVIOUS
  <2> QED BY <2>1 DEF CommitTx, AbortTx, Return, FailCall, Restart
<1>4. StoreInv(kv', vmCodes)
  BY <1>3, CurrentStore
<1>5. \/ stack' = <<>>
      \/ Len(stack) > 1 /\ stack' = SubSeq(stack, 1, Len(stack) - 1)
  <2>1. Len(stack) \in Nat
    BY <1>1 DEF StackInv, IsSequence
  <2> QED BY <2>1 DEF CommitTx, AbortTx, Return, FailCall, Restart
<1>6. StackInv' /\ Stores' \subseteq Stores \cup {kv'}
  BY <1>1, <1>5, EmptyOK, PopOK
<1>7. vmPinned' \subseteq Checksum
  <2>1. \A c \in kv'.pinned : kv'.codes[c].checksum \in Checksum
    BY <1>4 DEF StoreInv, IsStore, CodesResolve, IsCodeInfo
  <2> QED BY <1>1, <2>1 DEF CommitTx, AbortTx, Return, FailCall, Restart
<1> QED BY <1>1, <1>2, <1>4, <1>6, <1>7, StepOK

-----------------------------------------------------------------------------

(* The empty store of a new chain satisfies the invariant. *)
LEMMA InitOK == Init => Inv
<1> SUFFICES ASSUME Init PROVE Inv
  OBVIOUS
<1>1. IsSequence(stack) /\ Len(stack) = 0 /\ DOMAIN stack = {}
  BY DEF Init, IsSequence
<1>2. StackInv
  BY <1>1, ConstantsAssumption DEF StackInv, EscalationNeedsAuthority
<1>3. PICK empty : empty = [a \in {} |-> Nil]
  OBVIOUS
<1>4. DOMAIN empty = {}
  BY <1>3
<1>5. /\ DOMAIN kv.codes = {} /\ DOMAIN kv.contracts = {}
      /\ DOMAIN kv.history = {} /\ kv.codeSeq = 1 /\ kv.instanceSeq = 1
      /\ kv.codeIndex = {} /\ kv.creatorIndex = {} /\ kv.ports = {}
      /\ kv.pinned = {} /\ kv.gasless = {} /\ kv.params = DefaultParams
      /\ HasStoreFields(kv)
  BY DEF Init, HasStoreFields
<1>6. IsParams(kv.params)
  <2>1. PICK access : access = AllowEverybody
    OBVIOUS
  <2>2. IsConfig(access)
    BY <2>1 DEF IsConfig, AllowEverybody, AccessTypes
  <2>3. kv.params = [uploadAccess |-> access, instantiateDefault |-> "Everybody"]
    BY <1>5, <2>1 DEF DefaultParams
  <2> QED BY <2>2, <2>3 DEF IsParams, AccessTypes
<1>7. IsStore(kv) /\ CodesResolve(kv)
  BY <1>5, <1>6 DEF IsStore, IsParams, CodesResolve
<1>8. /\ HistoryKept(kv) /\ IndexesOK(kv)
      /\ PortsOK(kv) /\ InstanceIDsOK(kv) /\ AddressesOK(kv)
      /\ CodesIn(kv, vmCodes)
  BY <1>5 DEF HistoryKept, IndexesOK, PortsOK, InstanceIDsOK,
              AddressesOK, CodesIn
<1>9. StoreInv(kv, vmCodes)
  <2>1. IsMap(kv.codes) /\ IsMap(kv.contracts) /\ IsMap(kv.history)
    BY DEF Init, IsMap
  <2> QED BY <1>5, <1>7, <1>8, <2>1 DEF StoreInv
<1>10. Stores = {kv}
  BY <1>1 DEF Stores
<1> QED BY <1>2, <1>9, <1>10 DEF Inv, Init

(* Every step keeps the invariant, action by action. *)
LEMMA NextOK == Inv /\ [Next]_vars => Inv'
<1> SUFFICES ASSUME Inv, [Next]_vars PROVE Inv'
  OBVIOUS
<1>1. ASSUME NEW signers, BeginTx(signers) PROVE Inv'
  BY <1>1, BeginTxOK
<1>2. CASE CommitTx \/ AbortTx \/ Return \/ FailCall \/ Restart
  BY <1>2, EndOK
<1>3. ASSUME NEW sender, ContractMessage(sender) PROVE Inv'
  <2>1. PICK addr \in DOMAIN kv.contracts :
          \/ ExecuteContract(sender, addr)
          \/ \E codeID \in DOMAIN kv.codes : MigrateContract(sender, addr, codeID)
          \/ \E checksum \in Checksum, config \in AccessConfigs \cup {Nil} :
               StoreAndMigrateContract(sender, checksum, config, addr)
          \/ \E admin \in Admins \cup {Nil} : UpdateAdmin(sender, addr, admin)
          \/ \E label \in Label : UpdateContractLabel(sender, addr, label)
    BY <1>3 DEF ContractMessage
  <2>2. CASE ExecuteContract(sender, addr)
    BY <2>2, CallContractOK DEF ExecuteContract
  <2>3. ASSUME NEW codeID, MigrateContract(sender, addr, codeID) PROVE Inv'
    BY <2>3, MigrateContractOK
  <2>4. ASSUME NEW checksum \in Checksum, NEW config \in AccessConfigs \cup {Nil},
               StoreAndMigrateContract(sender, checksum, config, addr)
        PROVE  Inv'
    BY <2>4, StoreAndMigrateOK
  <2>5. ASSUME NEW admin, UpdateAdmin(sender, addr, admin) PROVE Inv'
    BY <2>5, UpdateContractOK
  <2>6. ASSUME NEW label \in Label, UpdateContractLabel(sender, addr, label)
        PROVE  Inv'
    BY <2>6, UpdateContractOK
  <2> QED BY <2>1, <2>2, <2>3, <2>4, <2>5, <2>6
<1>4. ASSUME NEW sender, CodeMessage(sender) PROVE Inv'
  <2>1. ASSUME NEW checksum \in Checksum, NEW config \in AccessConfigs \cup {Nil},
               StoreCode(sender, checksum, config)
        PROVE  Inv'
    BY <2>1, StoreCodeOK
  <2>2. ASSUME NEW checksum \in Checksum, NEW config \in AccessConfigs \cup {Nil},
               NEW admin, NEW label \in Label,
               StoreAndInstantiateContract(sender, checksum, config, admin, label)
        PROVE  Inv'
    BY <2>2, StoreAndInstantiateOK
  <2>3. ASSUME NEW codeID, NEW config \in AccessConfigs,
               UpdateInstantiateConfig(sender, codeID, config)
        PROVE  Inv'
    BY <2>3, UpdateInstantiateConfigOK
  <2>4. ASSUME NEW codeID, NEW admin, NEW label \in Label,
               InstantiateContract(sender, codeID, admin, label)
        PROVE  Inv'
    BY <2>4, InstantiateContractOK
  <2>5. ASSUME NEW codeID, NEW admin, NEW label \in Label, NEW salt,
               InstantiateContract2(sender, codeID, admin, label, salt)
        PROVE  Inv'
    BY <2>5, InstantiateContract2OK
  <2> QED BY <1>4, <2>1, <2>2, <2>3, <2>4, <2>5 DEF CodeMessage
<1>5. CASE GovMessage
  <2>1. ASSUME NEW config \in AccessConfigs, NEW type \in AccessTypes,
               UpdateParams(config, type)
        PROVE  Inv'
    BY <2>1, UpdateParamsOK
  <2>2. ASSUME NEW addrs, \/ AddCodeUploadParamsAddresses(addrs)
                          \/ RemoveCodeUploadParamsAddresses(addrs)
        PROVE  Inv'
    BY <2>2, UploadAddressesOK
  <2>3. ASSUME NEW codeIDs, PinCodes(codeIDs) \/ UnpinCodes(codeIDs)
        PROVE  Inv'
    BY <2>3, PinnedOK
  <2>4. ASSUME NEW addrs, SetGaslessContracts(addrs) PROVE Inv'
    BY <2>4, GaslessOK
  <2>5. ASSUME NEW addr \in DOMAIN kv.contracts, UnsetGasless(addr) PROVE Inv'
    BY <2>5, GaslessOK
  <2>6. ASSUME NEW addr \in DOMAIN kv.contracts, SudoContract(addr) PROVE Inv'
    BY <2>6, CallContractOK DEF SudoContract
  <2> QED BY <1>5, <2>1, <2>2, <2>3, <2>4, <2>5, <2>6 DEF GovMessage
<1>6. CASE UNCHANGED vars
  BY <1>6 DEF vars, Inv, StackInv, EscalationNeedsAuthority, Stores
<1> QED BY <1>1, <1>2, <1>3, <1>4, <1>5, <1>6 DEF Next

(* The invariant holds of every reachable state. *)
THEOREM Invariance == Spec => []Inv
BY InitOK, NextOK, PTL DEF Spec

(* The store, the stores that rollbacks restore and the call stack have    *)
(* their types, and no call goes deeper than maxCallDepth.                 *)
THEOREM TypeCorrect == Spec => []TypeOK
<1>1. Inv => TypeOK
  BY DEF Inv, StoreInv, StackInv, IsSequence, FramePolicies, TypeOK
<1> QED BY <1>1, Invariance, PTL

(* The secondary indexes hold one entry for each contract, the right one.  *)
THEOREM IndexesCorrect == Spec => []IndexesExact
<1>1. Inv => IndexesExact
  BY DEF Inv, StoreInv, IndexesExact
<1> QED BY <1>1, Invariance, PTL

(* A contract has an IBC port exactly when its code has IBC callbacks. *)
THEOREM PortsCorrect == Spec => []PortMatchesCode
<1>1. Inv => PortMatchesCode
  BY DEF Inv, StoreInv, PortMatchesCode
<1> QED BY <1>1, Invariance, PTL

(* The classic address generator never meets an existing contract. *)
THEOREM AddressFresh == Spec => []NextClassicAddressFree
<1>1. Inv => NextClassicAddressFree
  <2>1. SUFFICES ASSUME Inv, NEW s \in Stores, NEW c,
                        ClassicAddress(c, s.instanceSeq) \in DOMAIN s.contracts
                 PROVE  FALSE
    BY DEF NextClassicAddressFree
  <2>2. PICK a : a = ClassicAddress(c, s.instanceSeq)
    OBVIOUS
  <2>3. a.kind = "classic" /\ a.instanceID = s.instanceSeq
    BY <2>2 DEF ClassicAddress
  <2>4. a.instanceID \in Nat /\ a.instanceID < s.instanceSeq
    BY <2>1, <2>2, <2>3 DEF Inv, StoreInv, InstanceIDsOK
  <2> QED BY <2>3, <2>4
<1> QED BY <1>1, Invariance, PTL

(* An address goes on telling who created the contract from which code. *)
THEOREM AddressesCorrect == Spec => []AddressTellsOrigin
<1>1. Inv => AddressTellsOrigin
  BY DEF Inv, StoreInv, AddressTellsOrigin
<1> QED BY <1>1, Invariance, PTL

(* Every code info has its byte code on disk. *)
THEOREM CodesCorrect == Spec => []CodeAvailable
<1>1. Inv => CodeAvailable
  BY DEF Inv, StoreInv, CodesIn, CodeAvailable
<1> QED BY <1>1, Invariance, PTL

(* Gov permissions reach sub-messages in transactions of the authority     *)
(* only, and only for the actions that the chain propagates.               *)
THEOREM EscalationCorrect == Spec => []EscalationNeedsAuthority
<1>1. Inv => EscalationNeedsAuthority
  BY DEF Inv, StackInv
<1> QED BY <1>1, Invariance, PTL

-----------------------------------------------------------------------------
(* What a message changes, and what follows from it for a whole            *)
(* transaction.  The proofs go through a summary of any single message     *)
(* (MessageChanges), which the calls, rollbacks and restarts around it     *)
(* then carry on.                                                          *)

Governed(s) == <<s.params, s.pinned, s.gasless>>

(* Store t has the histories of store s, and perhaps one more entry in     *)
(* some of them, of the current transaction.                               *)
HistoryGrows(s, t) ==
  \A a \in DOMAIN t.history :
    \/ a \in DOMAIN s.history /\ t.history[a] = s.history[a]
    \/ \E entry \in HistoryEntry :
         /\ entry.updated = position
         /\ t.history[a] = Append(IF a \in DOMAIN s.history
                                  THEN s.history[a] ELSE <<>>, entry)

(* Store t has the contracts and codes of store s, and those that differ   *)
(* are ones that the sender may change under the policy.                   *)
ChangesOwned(s, t, policy, sender) ==
  /\ Governed(t) = Governed(s)
  /\ HistoryGrows(s, t)
  /\ \A a \in DOMAIN s.contracts :
       /\ a \in DOMAIN t.contracts
       /\ t.contracts[a] # s.contracts[a] =>
            CanModifyContract(policy, s.contracts[a].admin, sender)
  /\ \A c \in DOMAIN s.codes :
       /\ c \in DOMAIN t.codes
       /\ t.codes[c] # s.codes[c] =>
            policy = "gov" \/ s.codes[c].creator = sender

(* Histories that stay, and histories that get an entry. *)
LEMMA HistorySame ==
  ASSUME NEW s, NEW t, t.history = s.history
  PROVE  HistoryGrows(s, t)
BY DEF HistoryGrows

(* An entry at the end, made now.                                          *)
LEMMA HistoryAppended ==
  ASSUME NEW s, NEW t, NEW addr, NEW entry \in HistoryEntry,
         entry.updated = position,
         t.history = AppendHistory(s, addr, entry)
  PROVE  HistoryGrows(s, t)
BY DEF HistoryGrows, AppendHistory, Put

(* A call goes to a contract, whose address is that of no account. *)
CallsContract ==
  \/ stack' = stack
  \/ \E addr, policy : addr \notin User \cup {Authority} /\ Call(addr, policy)

(* Storing a code takes an id that no code has. *)
LEMMA CreatedChanges ==
  ASSUME NEW s, HasStoreFields(s), CodesResolve(s), s.codeSeq \in Nat,
         NEW creator, NEW checksum, NEW config,
         NEW t, t = Created(s, creator, checksum, config)
  PROVE  /\ HasStoreFields(t)
         /\ t.contracts = s.contracts /\ t.instanceSeq = s.instanceSeq
         /\ t.history = s.history /\ Governed(t) = Governed(s)
         /\ \A c \in DOMAIN s.codes :
              c \in DOMAIN t.codes /\ t.codes[c] = s.codes[c]
<1>1. PICK info : t = [s EXCEPT !.codes = Put(s.codes, s.codeSeq, info),
                                !.codeSeq = s.codeSeq + 1]
  BY DEF Created
<1>2. /\ HasStoreFields(t) /\ t.codes = Put(s.codes, s.codeSeq, info)
      /\ t.contracts = s.contracts /\ t.instanceSeq = s.instanceSeq
      /\ t.params = s.params /\ t.pinned = s.pinned /\ t.gasless = s.gasless
      /\ t.history = s.history
  BY <1>1 DEF HasStoreFields
<1>3. s.codeSeq \notin DOMAIN s.codes
  BY DEF CodesResolve
<1> QED BY <1>2, <1>3 DEF Put, Governed

(* A new contract changes none of those the store has. *)
LEMMA InstantiateChanges ==
  ASSUME NEW s, HasStoreFields(s), CodesResolve(s), s.codeSeq \in Nat,
         position \in Nat,
         NEW policy, NEW sender, NEW codeID, NEW addr, NEW admin, NEW label,
         Instantiate(s, policy, sender, codeID, addr, admin, label)
  PROVE  /\ CallsContract
         /\ kv'.codes = s.codes /\ Governed(kv') = Governed(s)
         /\ HistoryGrows(s, kv')
         /\ \A a \in DOMAIN s.contracts :
              a \in DOMAIN kv'.contracts /\ kv'.contracts[a] = s.contracts[a]
<1>1. /\ addr \notin DOMAIN s.contracts /\ codeID \in DOMAIN s.codes
      /\ addr \notin User \cup {Authority}
      /\ kv' = Instantiated(s, codeID, addr, sender, admin, label)
      /\ \E sub : Call(addr, sub)
  BY DEF Instantiate
<1>2. PICK entry : entry = [operation |-> "init", codeID |-> codeID,
                            updated |-> position]
  OBVIOUS
<1>3. PICK info, ci, cr, p :
        kv' = [s EXCEPT !.contracts = Put(s.contracts, addr, info),
                        !.history = AppendHistory(s, addr, entry),
                        !.codeIndex = ci, !.creatorIndex = cr, !.ports = p]
  BY <1>1, <1>2 DEF Instantiated
<1>4. /\ kv'.contracts = Put(s.contracts, addr, info) /\ kv'.codes = s.codes
      /\ kv'.history = AppendHistory(s, addr, entry)
      /\ kv'.params = s.params /\ kv'.pinned = s.pinned
      /\ kv'.gasless = s.gasless
  BY <1>3 DEF HasStoreFields
<1>5. HistoryGrows(s, kv')
  <2>1. codeID \in Nat
    BY <1>1 DEF CodesResolve
  <2>2. entry \in HistoryEntry /\ entry.updated = position
    BY <1>2, <2>1 DEF HistoryEntry
  <2> QED BY <1>4, <2>2, HistoryAppended
<1> QED BY <1>1, <1>4, <1>5 DEF Put, Governed, CallsContract

(* A migration changes the contract that the sender may modify. *)
LEMMA MigrateChanges ==
  ASSUME NEW s, HasStoreFields(s), CodesResolve(s), s.codeSeq \in Nat,
         AddressesOK(s), position \in Nat,
         NEW policy, NEW sender, NEW addr, NEW codeID,
         Migrate(s, policy, sender, addr, codeID)
  PROVE  /\ CallsContract
         /\ kv'.codes = s.codes /\ Governed(kv') = Governed(s)
         /\ HistoryGrows(s, kv')
         /\ \A a \in DOMAIN s.contracts :
              /\ a \in DOMAIN kv'.contracts
              /\ kv'.contracts[a] # s.contracts[a] =>
                   CanModifyContract(policy, s.contracts[a].admin, sender)
<1>1. /\ addr \in DOMAIN s.contracts /\ codeID \in DOMAIN s.codes
      /\ CanModifyContract(policy, s.contracts[addr].admin, sender)
      /\ kv' = Migrated(s, addr, codeID)
      /\ stack' = stack \/ \E sub : Call(addr, sub)
  BY DEF Migrate, CanMigrate
<1>2. PICK entry : entry = [operation |-> "migrate", codeID |-> codeID,
                            updated |-> position]
  OBVIOUS
<1>3. PICK info, ci, p :
        kv' = [s EXCEPT !.contracts = Put(s.contracts, addr, info),
                        !.codeIndex = ci,
                        !.history = AppendHistory(s, addr, entry), !.ports = p]
  BY <1>1, <1>2 DEF Migrated
<1>4. /\ kv'.contracts = Put(s.contracts, addr, info) /\ kv'.codes = s.codes
      /\ kv'.history = AppendHistory(s, addr, entry)
      /\ kv'.params = s.params /\ kv'.pinned = s.pinned
      /\ kv'.gasless = s.gasless
  BY <1>3 DEF HasStoreFields
<1>5. HistoryGrows(s, kv')
  <2>1. codeID \in Nat
    BY <1>1 DEF CodesResolve
  <2>2. entry \in HistoryEntry /\ entry.updated = position
    BY <1>2, <2>1 DEF HistoryEntry
  <2> QED BY <1>4, <2>2, HistoryAppended
<1>6. addr \notin User \cup {Authority}
  BY <1>1 DEF AddressesOK
<1> QED BY <1>1, <1>4, <1>5, <1>6 DEF Put, Governed, CallsContract

-----------------------------------------------------------------------------
(* Every message for a sender: what it changes of the store it runs on.    *)
LEMMA MessageChanges ==
  ASSUME Inv, NEW sender, ContractMessage(sender) \/ CodeMessage(sender)
  PROVE  /\ \E message : Delivered(message, sender)
         /\ ChangesOwned(kv, kv', SelectPolicy(sender), sender)
         /\ CallsContract
<1>1. /\ HasStoreFields(kv) /\ CodesResolve(kv) /\ AddressesOK(kv)
      /\ kv.codeSeq \in Nat /\ position \in Nat
  BY CurrentStore DEF Inv, StoreInv, IsStore
<1> DEFINE Goal == /\ \E message : Delivered(message, sender)
                   /\ ChangesOwned(kv, kv', SelectPolicy(sender), sender)
                   /\ CallsContract
<1> SUFFICES Goal
  OBVIOUS
<1>2. ASSUME NEW addr \in DOMAIN kv.contracts, ExecuteContract(sender, addr)
      PROVE  Goal
  <2>1. kv' = kv /\ Call(addr, Top.policy) /\ Delivered("ExecuteContract", sender)
    BY <1>2 DEF ExecuteContract
  <2>2. addr \notin User \cup {Authority}
    BY <1>1 DEF AddressesOK
  <2> QED BY <2>1, <2>2, HistorySame DEF ChangesOwned, CallsContract
<1>3. ASSUME NEW addr, NEW codeID, MigrateContract(sender, addr, codeID)
      PROVE  Goal
  <2>1. /\ Delivered("MigrateContract", sender)
        /\ Migrate(kv, SelectPolicy(sender), sender, addr, codeID)
    BY <1>3 DEF MigrateContract
  <2> QED BY <1>1, <2>1, MigrateChanges DEF ChangesOwned
<1>4. ASSUME NEW checksum \in Checksum, NEW config \in AccessConfigs \cup {Nil},
             NEW addr \in DOMAIN kv.contracts,
             StoreAndMigrateContract(sender, checksum, config, addr)
      PROVE  Goal
  <2>1. PICK s : s = Created(kv, sender, checksum, ConfigOrDefault(config, sender))
    OBVIOUS
  <2>2. /\ Delivered("StoreAndMigrateContract", sender)
        /\ Migrate(s, SelectPolicy(sender), sender, addr, kv.codeSeq)
        /\ vmCodes' = vmCodes \cup {checksum}
    BY <1>4, <2>1 DEF StoreAndMigrateContract
  <2>3. /\ HasStoreFields(s) /\ s.contracts = kv.contracts
        /\ s.history = kv.history /\ Governed(s) = Governed(kv)
        /\ \A c \in DOMAIN kv.codes :
             c \in DOMAIN s.codes /\ s.codes[c] = kv.codes[c]
    BY <1>1, <2>1, CreatedChanges
  <2>4. AddressesOK(s) /\ CodesResolve(s) /\ s.codeSeq \in Nat
    <3>1. IsConfig(ConfigOrDefault(config, sender))
      BY ConfigOrDefaultOK
    <3>2. StoreInv(kv, vmCodes')
      BY <2>2, CurrentStore, StoreInvMonotone
    <3>3. StoreInv(s, vmCodes')
      BY <2>1, <2>2, <3>1, <3>2, CreatedOK
    <3> QED BY <3>3 DEF StoreInv, IsStore
  <2>5. /\ CallsContract
        /\ kv'.codes = s.codes /\ Governed(kv') = Governed(s)
        /\ HistoryGrows(s, kv')
        /\ \A a \in DOMAIN s.contracts :
             /\ a \in DOMAIN kv'.contracts
             /\ kv'.contracts[a] # s.contracts[a] =>
                  CanModifyContract(SelectPolicy(sender), s.contracts[a].admin, sender)
    BY <1>1, <2>2, <2>3, <2>4, MigrateChanges
  <2>6. HistoryGrows(kv, kv')
    BY <2>3, <2>5 DEF HistoryGrows
  <2> QED BY <2>2, <2>3, <2>5, <2>6 DEF ChangesOwned
<1>5. ASSUME NEW addr, NEW info,
             NEW message, Delivered(message, sender),
             addr \in DOMAIN kv.contracts,
             CanModifyContract(SelectPolicy(sender), kv.contracts[addr].admin, sender),
             kv' = [kv EXCEPT !.contracts = Put(kv.contracts, addr, info)],
             stack' = stack
      PROVE  Goal
  <2>1. /\ kv'.contracts = Put(kv.contracts, addr, info) /\ kv'.codes = kv.codes
        /\ kv'.params = kv.params /\ kv'.pinned = kv.pinned
        /\ kv'.gasless = kv.gasless /\ kv'.history = kv.history
    BY <1>1, <1>5 DEF HasStoreFields
  <2> QED BY <1>5, <2>1, HistorySame DEF ChangesOwned, Governed, Put, CallsContract
<1>6. ASSUME NEW addr, NEW x, UpdateAdmin(sender, addr, x) PROVE Goal
  BY <1>5, <1>6 DEF UpdateAdmin
<1>7. ASSUME NEW addr, NEW x, UpdateContractLabel(sender, addr, x) PROVE Goal
  BY <1>5, <1>7 DEF UpdateContractLabel
<1>8. ASSUME NEW checksum, NEW config, StoreCode(sender, checksum, config)
      PROVE  Goal
  <2>1. /\ Delivered("StoreCode", sender) /\ stack' = stack
        /\ kv' = Created(kv, sender, checksum, ConfigOrDefault(config, sender))
    BY <1>8 DEF StoreCode
  <2>2. /\ kv'.contracts = kv.contracts /\ Governed(kv') = Governed(kv)
        /\ kv'.history = kv.history
        /\ \A c \in DOMAIN kv.codes :
             c \in DOMAIN kv'.codes /\ kv'.codes[c] = kv.codes[c]
    BY <1>1, <2>1, CreatedChanges
  <2> QED BY <2>1, <2>2, HistorySame DEF ChangesOwned, CallsContract
<1>9. ASSUME NEW checksum \in Checksum, NEW config \in AccessConfigs \cup {Nil},
             NEW admin, NEW label,
             StoreAndInstantiateContract(sender, checksum, config, admin, label)
      PROVE  Goal
  <2>1. PICK stored :
          stored = Created(kv, sender, checksum, ConfigOrDefault(config, sender))
    OBVIOUS
  <2>2. PICK s : s = InstanceIDTaken(stored)
    OBVIOUS
  <2>3. /\ Delivered("StoreAndInstantiateContract", sender)
        /\ Instantiate(s, SelectPolicy(sender), sender, kv.codeSeq,
                       ClassicAddress(kv.codeSeq, kv.instanceSeq), admin, label)
        /\ vmCodes' = vmCodes \cup {checksum}
    BY <1>9, <2>1, <2>2 DEF StoreAndInstantiateContract
  <2>4. /\ HasStoreFields(stored) /\ stored.contracts = kv.contracts
        /\ stored.history = kv.history /\ Governed(stored) = Governed(kv)
        /\ \A c \in DOMAIN kv.codes :
             c \in DOMAIN stored.codes /\ stored.codes[c] = kv.codes[c]
    BY <1>1, <2>1, CreatedChanges
  <2>5. /\ HasStoreFields(s) /\ s.contracts = stored.contracts
        /\ s.history = stored.history
        /\ s.codes = stored.codes /\ Governed(s) = Governed(stored)
    BY <2>2, <2>4 DEF InstanceIDTaken, HasStoreFields, Governed
  <2>6. CodesResolve(s) /\ s.codeSeq \in Nat
    <3>1. IsConfig(ConfigOrDefault(config, sender))
      BY ConfigOrDefaultOK
    <3>2. StoreInv(kv, vmCodes')
      BY <2>3, CurrentStore, StoreInvMonotone
    <3>3. StoreInv(stored, vmCodes')
      BY <2>1, <2>3, <3>1, <3>2, CreatedOK
    <3>4. StoreInv(s, vmCodes')
      BY <2>2, <3>3, InstanceIDTakenOK
    <3> QED BY <3>4 DEF StoreInv, IsStore
  <2>7. /\ CallsContract
        /\ kv'.codes = s.codes /\ Governed(kv') = Governed(s)
        /\ HistoryGrows(s, kv')
        /\ \A a \in DOMAIN s.contracts :
             a \in DOMAIN kv'.contracts /\ kv'.contracts[a] = s.contracts[a]
    BY <1>1, <2>3, <2>5, <2>6, InstantiateChanges
  <2>8. HistoryGrows(kv, kv')
    BY <2>4, <2>5, <2>7 DEF HistoryGrows
  <2> QED BY <2>3, <2>4, <2>5, <2>7, <2>8 DEF ChangesOwned
<1>10. ASSUME NEW codeID, NEW config,
              UpdateInstantiateConfig(sender, codeID, config)
       PROVE  Goal
  <2>1. PICK info :
          /\ Delivered("UpdateInstantiateConfig", sender)
          /\ SelectPolicy(sender) = "gov" \/ kv.codes[codeID].creator = sender
          /\ codeID \in DOMAIN kv.codes
          /\ kv' = [kv EXCEPT !.codes = Put(kv.codes, codeID, info)]
          /\ stack' = stack
    BY <1>10 DEF UpdateInstantiateConfig, CanModifyCodeAccessConfig
  <2>2. /\ kv'.contracts = kv.contracts
        /\ kv'.codes = Put(kv.codes, codeID, info)
        /\ kv'.params = kv.params /\ kv'.pinned = kv.pinned
        /\ kv'.gasless = kv.gasless /\ kv'.history = kv.history
    BY <1>1, <2>1 DEF HasStoreFields
  <2> QED BY <2>1, <2>2, HistorySame DEF ChangesOwned, Governed, Put, CallsContract
<1>11. ASSUME NEW codeID, NEW admin, NEW label,
              InstantiateContract(sender, codeID, admin, label)
       PROVE  Goal
  <2>1. PICK s : s = InstanceIDTaken(kv)
    OBVIOUS
  <2>2. /\ HasStoreFields(s) /\ s.contracts = kv.contracts
        /\ s.codes = kv.codes /\ s.codeSeq = kv.codeSeq
        /\ s.pinned = kv.pinned /\ s.gasless = kv.gasless
        /\ s.history = kv.history /\ Governed(s) = Governed(kv)
    BY <1>1, <2>1 DEF InstanceIDTaken, HasStoreFields, Governed
  <2>3. /\ Delivered("InstantiateContract", sender)
        /\ Instantiate(s, SelectPolicy(sender), sender, codeID,
                       ClassicAddress(codeID, kv.instanceSeq), admin, label)
    BY <1>11, <2>1 DEF InstantiateContract
  <2>4. CodesResolve(s)
    BY <1>1, <2>2 DEF CodesResolve
  <2>5. /\ CallsContract
        /\ kv'.codes = s.codes /\ Governed(kv') = Governed(s)
        /\ HistoryGrows(s, kv')
        /\ \A a \in DOMAIN s.contracts :
             a \in DOMAIN kv'.contracts /\ kv'.contracts[a] = s.contracts[a]
    BY <1>1, <2>2, <2>3, <2>4, InstantiateChanges
  <2>6. HistoryGrows(kv, kv')
    BY <2>2, <2>5 DEF HistoryGrows
  <2> QED BY <2>2, <2>3, <2>5, <2>6 DEF ChangesOwned
<1>12. ASSUME NEW codeID, NEW admin, NEW label, NEW salt,
              InstantiateContract2(sender, codeID, admin, label, salt)
       PROVE  Goal
  <2>1. /\ Delivered("InstantiateContract2", sender)
        /\ \E addr : Instantiate(kv, SelectPolicy(sender), sender, codeID,
                                 addr, admin, label)
    BY <1>12 DEF InstantiateContract2
  <2> QED BY <1>1, <2>1, InstantiateChanges DEF ChangesOwned
<1> HIDE DEF Goal
<1>13. CASE ContractMessage(sender)
  BY <1>2, <1>3, <1>4, <1>6, <1>7, <1>13 DEF ContractMessage
<1>14. CASE CodeMessage(sender)
  BY <1>8, <1>9, <1>10, <1>11, <1>12, <1>14 DEF CodeMessage
<1> QED BY <1>13, <1>14

(* What only the authority's messages change. *)
LEMMA GovChanges ==
  ASSUME Inv, GovMessage
  PROVE  /\ \E message : Delivered(message, Authority)
         /\ kv'.contracts = kv.contracts /\ kv'.codes = kv.codes
         /\ kv'.history = kv.history
         /\ \/ stack' = stack
            \/ kv' = kv /\ CallsContract
<1> DEFINE SameRegistry == /\ kv'.contracts = kv.contracts
                           /\ kv'.codes = kv.codes
                           /\ kv'.history = kv.history
<1>1. HasStoreFields(kv) /\ AddressesOK(kv)
  BY CurrentStore DEF StoreInv, IsStore
<1>2. \E message : Delivered(message, Authority)
  BY DEF GovMessage, UpdateParams, AddCodeUploadParamsAddresses,
         RemoveCodeUploadParamsAddresses, PinCodes, UnpinCodes,
         SetGaslessContracts, SudoContract, UnsetGasless
<1>3. ASSUME NEW x, \/ kv' = [kv EXCEPT !.params = x]
                    \/ kv' = [kv EXCEPT !.pinned = x]
                    \/ kv' = [kv EXCEPT !.gasless = x]
      PROVE  SameRegistry
  BY <1>1, <1>3 DEF HasStoreFields
<1>4. ASSUME NEW x, kv' = [kv EXCEPT !.params.uploadAccess.addresses = x]
      PROVE  SameRegistry
  BY <1>1, <1>4 DEF HasStoreFields
<1>5. ASSUME NEW config, NEW type, UpdateParams(config, type)
      PROVE  stack' = stack /\ SameRegistry
  BY <1>3, <1>5 DEF UpdateParams
<1>6. ASSUME NEW addrs, \/ AddCodeUploadParamsAddresses(addrs)
                        \/ RemoveCodeUploadParamsAddresses(addrs)
      PROVE  stack' = stack /\ SameRegistry
  BY <1>4, <1>6 DEF AddCodeUploadParamsAddresses, RemoveCodeUploadParamsAddresses
<1>7. ASSUME NEW codeIDs, PinCodes(codeIDs) \/ UnpinCodes(codeIDs)
      PROVE  stack' = stack /\ SameRegistry
  BY <1>3, <1>7 DEF PinCodes, UnpinCodes
<1>8. ASSUME NEW addrs, SetGaslessContracts(addrs) \/ UnsetGasless(addrs)
      PROVE  stack' = stack /\ SameRegistry
  BY <1>3, <1>8 DEF SetGaslessContracts, UnsetGasless
<1>9. ASSUME NEW addr \in DOMAIN kv.contracts, SudoContract(addr)
      PROVE  kv' = kv /\ CallsContract
  <2>1. kv' = kv /\ Call(addr, Top.policy)
    BY <1>9 DEF SudoContract
  <2>2. addr \notin User \cup {Authority}
    BY <1>1 DEF AddressesOK
  <2> QED BY <2>1, <2>2 DEF CallsContract
<1> QED BY <1>2, <1>5, <1>6, <1>7, <1>8, <1>9 DEF GovMessage

-----------------------------------------------------------------------------
(* The invariant, for all the open calls of a transaction.                 *)

(* A contract signs for its own address, which is no user's. *)
ContractsSignForThemselves ==
  \A i \in DOMAIN stack : i > 1 => stack[i].signers \cap User = {}

OwnershipInv ==
  /\ Inv
  /\ ContractsSignForThemselves
  /\ UnsignedUnchanged
  /\ GovernedByAuthority

(* Store t keeps what store s has of accounts that did not sign. *)
KeepsForeign(s, t, foreign) ==
  /\ \A a \in DOMAIN s.contracts :
       s.contracts[a].admin \in foreign \cup {Nil} =>
         a \in DOMAIN t.contracts /\ t.contracts[a] = s.contracts[a]
  /\ \A c \in DOMAIN s.codes :
       s.codes[c].creator \in foreign =>
         c \in DOMAIN t.codes /\ t.codes[c] = s.codes[c]

(* UnsignedUnchanged in terms of KeepsForeign. *)
LEMMA UnsignedDef ==
  UnsignedUnchanged <=>
    (stack # <<>> /\ Authority \notin stack[1].signers =>
       \A s \in Stores :
         KeepsForeign(stack[1].snapshot, s, User \ stack[1].signers))
BY DEF UnsignedUnchanged, KeepsForeign

(* The store that the call at depth i has left so far. *)
After(i) == IF i < Len(stack) THEN stack[i + 1].snapshot ELSE kv

(* GovernedByAuthority in terms of After. *)
LEMMA GovernedDef ==
  GovernedByAuthority <=>
    \A i \in DOMAIN stack :
      Authority \notin stack[i].signers =>
        Governed(After(i)) = Governed(stack[i].snapshot)
BY DEF GovernedByAuthority, Governed, After

(* How the stack looks after a step that may call a contract. *)
LEMMA CallsContractFacts ==
  ASSUME Inv, stack # <<>>, CallsContract
  PROVE  /\ Len(stack) \in Nat /\ Len(stack) >= 1 /\ 1 \in DOMAIN stack
         /\ DOMAIN stack = 1..Len(stack)
         /\ stack' # <<>> /\ DOMAIN stack' = 1..Len(stack')
         /\ \A i \in DOMAIN stack : stack'[i] = stack[i]
         /\ \/ stack' = stack
            \/ /\ Len(stack') = Len(stack) + 1
               /\ stack'[Len(stack) + 1].snapshot = kv
               /\ stack'[Len(stack) + 1].signers \cap (User \cup {Authority}) = {}
<1>1. IsSequence(stack) /\ StackInv
  BY DEF Inv, StackInv
<1>2. /\ Len(stack) \in Nat /\ Len(stack) >= 1 /\ 1 \in DOMAIN stack
      /\ DOMAIN stack = 1..Len(stack)
  BY <1>1, TopFacts DEF IsSequence
<1>3. CASE stack' = stack
  BY <1>2, <1>3
<1>4. ASSUME NEW addr, NEW policy, addr \notin User \cup {Authority},
             Call(addr, policy)
      PROVE  /\ stack' # <<>> /\ DOMAIN stack' = 1..Len(stack')
             /\ \A i \in DOMAIN stack : stack'[i] = stack[i]
             /\ Len(stack') = Len(stack) + 1
             /\ stack'[Len(stack) + 1].snapshot = kv
             /\ stack'[Len(stack) + 1].signers \cap (User \cup {Authority}) = {}
  <2>1. PICK f : f = [snapshot |-> kv, signers |-> {addr}, policy |-> policy]
    OBVIOUS
  <2>2. stack' = Append(stack, f)
    BY <1>4, <2>1 DEF Call
  <2>3. /\ Len(stack') = Len(stack) + 1
        /\ DOMAIN stack' = 1..(Len(stack) + 1)
        /\ stack'[Len(stack) + 1] = f
        /\ \A i \in DOMAIN stack : stack'[i] = stack[i]
    BY <1>1, <2>2, PushFacts
  <2>4. f.snapshot = kv /\ f.signers = {addr}
    BY <2>1
  <2>5. stack' # <<>>
    BY <1>2, <2>3
  <2> QED BY <1>4, <2>3, <2>4, <2>5
<1> QED BY <1>2, <1>3, <1>4 DEF CallsContract

(* A step of a running call keeps the invariant if what it changes of the  *)
(* governed fields the authority signed for, and what it changes of        *)
(* contracts and codes their owners.                                       *)
LEMMA CallStepOK ==
  ASSUME OwnershipInv, Inv', stack # <<>>, CallsContract,
         Authority \notin Top.signers => Governed(kv') = Governed(kv),
         Governed(kv') = Governed(kv) \/ stack' = stack,
         Authority \notin stack[1].signers =>
           KeepsForeign(stack[1].snapshot, kv', User \ stack[1].signers)
  PROVE  OwnershipInv'
<1>1. /\ Len(stack) \in Nat /\ Len(stack) >= 1 /\ 1 \in DOMAIN stack
      /\ DOMAIN stack = 1..Len(stack)
      /\ stack' # <<>> /\ DOMAIN stack' = 1..Len(stack')
      /\ \A i \in DOMAIN stack : stack'[i] = stack[i]
  BY CallsContractFacts DEF OwnershipInv
<1>2. \/ stack' = stack
      \/ /\ Len(stack') = Len(stack) + 1
         /\ stack'[Len(stack) + 1].snapshot = kv
         /\ stack'[Len(stack) + 1].signers \cap (User \cup {Authority}) = {}
  BY CallsContractFacts DEF OwnershipInv
<1>3. CASE stack' = stack
  <2>1. Stores' \subseteq Stores \cup {kv'}
    BY <1>3 DEF Stores
  <2>2. UnsignedUnchanged'
    <3>1. stack' # <<>> /\ Authority \notin stack'[1].signers =>
            \A s \in Stores' :
              KeepsForeign(stack'[1].snapshot, s, User \ stack'[1].signers)
      BY <1>3, <2>1, UnsignedDef DEF OwnershipInv
    <3> QED BY <3>1 DEF UnsignedUnchanged, KeepsForeign
  <2>3. GovernedByAuthority'
    <3> DEFINE after(i) == IF i < Len(stack) THEN stack[i + 1].snapshot ELSE kv'
    <3>1. ASSUME NEW i \in DOMAIN stack, Authority \notin stack[i].signers
          PROVE  Governed(after(i)) = Governed(stack[i].snapshot)
      <4>1. Governed(After(i)) = Governed(stack[i].snapshot)
        BY <3>1, GovernedDef DEF OwnershipInv
      <4>2. i # Len(stack) => i < Len(stack)
        BY <1>1
      <4> QED BY <3>1, <4>1, <4>2 DEF After, Top
    <3>2. \A i \in DOMAIN stack' : Authority \notin stack'[i].signers =>
            Governed(after(i)) = Governed(stack'[i].snapshot)
      BY <1>3, <3>1
    <3> QED BY <1>3, <3>2 DEF GovernedByAuthority, Governed
  <2>4. ContractsSignForThemselves'
    BY <1>3 DEF OwnershipInv, ContractsSignForThemselves
  <2> QED BY <2>2, <2>3, <2>4 DEF OwnershipInv
<1>4. CASE stack' # stack
  <2>1. PICK n \in Nat : n = Len(stack)
    BY <1>1
  <2>2. /\ DOMAIN stack = 1..n /\ DOMAIN stack' = 1..(n + 1) /\ n >= 1
        /\ Len(stack') = n + 1
        /\ \A i \in 1..n : stack'[i] = stack[i]
        /\ stack'[n + 1].snapshot = kv
        /\ stack'[n + 1].signers \cap (User \cup {Authority}) = {}
    BY <1>1, <1>2, <1>4, <2>1
  <2>3. ContractsSignForThemselves'
    BY <2>2 DEF OwnershipInv, ContractsSignForThemselves
  <2>4. Stores' \subseteq Stores \cup {kv'}
    BY <2>2 DEF Stores
  <2>5. UnsignedUnchanged'
    <3>1. stack'[1] = stack[1]
      BY <2>2
    <3>2. stack' # <<>> /\ Authority \notin stack'[1].signers =>
            \A s \in Stores' :
              KeepsForeign(stack'[1].snapshot, s, User \ stack'[1].signers)
      BY <2>4, <3>1, UnsignedDef DEF OwnershipInv
    <3> QED BY <3>2 DEF UnsignedUnchanged, KeepsForeign
  <2>6. GovernedByAuthority'
    <3> DEFINE after(i) == IF i < n + 1 THEN stack'[i + 1].snapshot ELSE kv'
    <3>1. ASSUME NEW i \in 1..n, Authority \notin stack[i].signers
          PROVE  Governed(after(i)) = Governed(stack[i].snapshot)
      <4>1. Governed(After(i)) = Governed(stack[i].snapshot)
        BY <2>2, <3>1, GovernedDef DEF OwnershipInv
      <4>2. After(i) = after(i)
        <5>1. CASE i < n
          BY <2>1, <2>2, <5>1 DEF After
        <5>2. CASE i = n
          BY <2>1, <2>2, <5>2 DEF After
        <5> QED BY <5>1, <5>2
      <4> QED BY <4>1, <4>2
    <3>2. Governed(after(n + 1)) = Governed(stack'[n + 1].snapshot)
      BY <1>4, <2>2
    <3>3. ASSUME NEW i \in 1..(n + 1), Authority \notin stack'[i].signers
          PROVE  Governed(after(i)) = Governed(stack'[i].snapshot)
      <4>1. CASE i = n + 1
        BY <3>2, <4>1
      <4>2. CASE i # n + 1
        <5>1. i \in 1..n
          BY <4>2
        <5> HIDE DEF after
        <5> QED BY <2>2, <3>1, <3>3, <5>1
      <4> QED BY <4>1, <4>2
    <3> QED BY <2>2, <3>3 DEF GovernedByAuthority, Governed
  <2> QED BY <2>3, <2>5, <2>6 DEF OwnershipInv
<1> QED BY <1>3, <1>4

(* The messages of users and contracts: outside a transaction of the       *)
(* authority their policy is the default one, which changes what the       *)
(* sender owns, and no sender is a user that did not sign.                 *)
LEMMA MessageOwnership ==
  ASSUME OwnershipInv, Inv', NEW sender,
         ContractMessage(sender) \/ CodeMessage(sender)
  PROVE  OwnershipInv'
<1>1. /\ \E message : Delivered(message, sender)
      /\ ChangesOwned(kv, kv', SelectPolicy(sender), sender)
      /\ CallsContract
  BY MessageChanges DEF OwnershipInv
<1>2. stack # <<>> /\ sender \in Top.signers
  BY <1>1 DEF Delivered
<1>3. StackInv
  BY DEF OwnershipInv, Inv
<1>4. Len(stack) \in DOMAIN stack /\ Len(stack) \in Nat /\ Len(stack) >= 1
  BY <1>2, <1>3, TopFacts
<1>5. Governed(kv') = Governed(kv)
  BY <1>1 DEF ChangesOwned
<1>6. ASSUME Authority \notin stack[1].signers
      PROVE  KeepsForeign(stack[1].snapshot, kv', User \ stack[1].signers)
  <2>1. KeepsForeign(stack[1].snapshot, kv, User \ stack[1].signers)
    BY <1>2, <1>6, UnsignedDef DEF OwnershipInv, Stores
  <2>2. Top.policy \in {"none", "default"}
    BY <1>3, <1>4, <1>6 DEF StackInv, FramePolicies, EscalationNeedsAuthority, Top
  <2>3. sender # Authority
    <3>1. CASE Len(stack) = 1
      BY <1>2, <1>6, <3>1 DEF Top
    <3>2. CASE Len(stack) > 1
      BY <1>2, <1>3, <1>4, <3>2 DEF StackInv, Top
    <3> QED BY <1>4, <3>1, <3>2
  <2>4. SelectPolicy(sender) = "default"
    BY <2>2, <2>3 DEF SelectPolicy
  <2>5. sender \notin User \ stack[1].signers
    <3>1. CASE Len(stack) = 1
      BY <1>2, <3>1 DEF Top
    <3>2. CASE Len(stack) > 1
      BY <1>2, <1>4, <3>2 DEF OwnershipInv, ContractsSignForThemselves, Top
    <3> QED BY <1>4, <3>1, <3>2, SMTT(30)
  <2>6. \A a \in DOMAIN kv.contracts :
          /\ a \in DOMAIN kv'.contracts
          /\ kv.contracts[a].admin \in (User \ stack[1].signers) \cup {Nil} =>
               kv'.contracts[a] = kv.contracts[a]
    BY <1>1, <2>4, <2>5 DEF ChangesOwned, CanModifyContract
  <2>7. \A c \in DOMAIN kv.codes :
          /\ c \in DOMAIN kv'.codes
          /\ kv.codes[c].creator \in User \ stack[1].signers =>
               kv'.codes[c] = kv.codes[c]
    BY <1>1, <2>4, <2>5 DEF ChangesOwned
  <2> QED BY <2>1, <2>6, <2>7 DEF KeepsForeign
<1> QED BY <1>1, <1>2, <1>5, <1>6, CallStepOK

(* The messages of the authority: none in a transaction of anyone else. *)
LEMMA GovOwnership ==
  ASSUME OwnershipInv, Inv', GovMessage
  PROVE  OwnershipInv'
<1>1. /\ \E message : Delivered(message, Authority)
      /\ \/ stack' = stack
         \/ kv' = kv /\ CallsContract
  BY GovChanges DEF OwnershipInv
<1>2. stack # <<>> /\ Authority \in Top.signers
  BY <1>1 DEF Delivered
<1>3. StackInv
  BY DEF OwnershipInv, Inv
<1>4. PICK n \in Nat : n = Len(stack) /\ n >= 1 /\ n \in DOMAIN stack
  BY <1>2, <1>3, TopFacts
<1>5. Authority \in stack[n].signers
  BY <1>2, <1>4 DEF Top
<1>6. Authority \in stack[1].signers
  <2>1. ~(n > 1)
    BY <1>3, <1>4, <1>5 DEF StackInv
  <2>2. n = 1
    BY <1>4, <2>1
  <2> QED BY <1>5, <2>2
<1>7. CallsContract
  BY <1>1 DEF CallsContract
<1> QED BY <1>1, <1>2, <1>6, <1>7, CallStepOK

(* A call that returns or fails leaves its caller a store that the caller  *)
(* might have left itself.                                                 *)
LEMMA PopOwnership ==
  ASSUME OwnershipInv, Inv', Return \/ FailCall
  PROVE  OwnershipInv'
<1>1. StackInv /\ IsSequence(stack)
  BY DEF OwnershipInv, Inv, StackInv
<1>2. PICK n \in Nat : n = Len(stack)
  BY <1>1 DEF IsSequence
<1>3. n > 1 /\ stack' = SubSeq(stack, 1, n - 1)
  BY <1>2 DEF Return, FailCall
<1>4. /\ DOMAIN stack = 1..n /\ DOMAIN stack' = 1..(n - 1)
      /\ Len(stack') = n - 1
      /\ \A i \in 1..(n - 1) : stack'[i] = stack[i]
  BY <1>1, <1>2, <1>3, PopFacts
<1>5. kv' = kv \/ kv' = stack[n].snapshot
  BY <1>2 DEF Return, FailCall, Top
<1>6. stack # <<>> /\ stack'[1] = stack[1]
  BY <1>2, <1>3, <1>4
<1>7. ContractsSignForThemselves'
  BY <1>3, <1>4 DEF OwnershipInv, ContractsSignForThemselves
<1>8. UnsignedUnchanged'
  <2>1. Stores' \subseteq Stores
    <3>1. n \in DOMAIN stack /\ \A i \in DOMAIN stack' : i \in DOMAIN stack
      BY <1>3, <1>4
    <3> QED BY <1>4, <1>5, <3>1 DEF Stores
  <2>2. stack' # <<>> /\ Authority \notin stack'[1].signers =>
          \A s \in Stores' :
            KeepsForeign(stack'[1].snapshot, s, User \ stack'[1].signers)
    BY <1>6, <2>1, UnsignedDef DEF OwnershipInv
  <2> QED BY <2>2 DEF UnsignedUnchanged, KeepsForeign
<1>9. GovernedByAuthority'
  <2> DEFINE after(i) == IF i < n - 1 THEN stack'[i + 1].snapshot ELSE kv'
  <2>1. Governed(kv') = Governed(stack[n].snapshot)
    <3>1. Authority \notin stack[n].signers
      BY <1>1, <1>3, <1>4 DEF StackInv
    <3>2. Governed(After(n)) = Governed(stack[n].snapshot)
      BY <1>3, <1>4, <3>1, GovernedDef DEF OwnershipInv
    <3> QED BY <1>2, <1>5, <3>2 DEF After
  <2>2. ASSUME NEW i \in 1..(n - 1), Authority \notin stack'[i].signers
        PROVE  Governed(after(i)) = Governed(stack'[i].snapshot)
    <3>1. Governed(After(i)) = Governed(stack[i].snapshot)
      BY <1>3, <1>4, <2>2, GovernedDef DEF OwnershipInv
    <3>2. After(i) = stack[i + 1].snapshot
      BY <1>2, <2>2 DEF After
    <3>3. CASE i < n - 1
      <4>1. stack'[i + 1] = stack[i + 1] /\ stack'[i] = stack[i]
        BY <1>4, <3>3
      <4> QED BY <3>1, <3>2, <3>3, <4>1
    <3>4. CASE i = n - 1
      <4>1. stack'[i] = stack[i] /\ stack[i + 1] = stack[n] /\ after(i) = kv'
        BY <1>4, <3>4
      <4> HIDE DEF after
      <4> QED BY <2>1, <3>1, <3>2, <4>1
    <3> QED BY <3>3, <3>4
  <2> QED BY <1>4, <2>2 DEF GovernedByAuthority, Governed
<1> QED BY <1>7, <1>8, <1>9 DEF OwnershipInv

(* Every step keeps who owns what. *)
LEMMA OwnershipNext == OwnershipInv /\ Inv' /\ [Next]_vars => OwnershipInv'
<1> SUFFICES ASSUME OwnershipInv, Inv', [Next]_vars PROVE OwnershipInv'
  OBVIOUS
<1>1. ASSUME stack' = <<>> PROVE OwnershipInv'
  <2>1. DOMAIN stack' = {}
    BY <1>1
  <2> QED BY <1>1, <2>1 DEF OwnershipInv, ContractsSignForThemselves,
                            UnsignedUnchanged, GovernedByAuthority
<1>2. ASSUME NEW signers, BeginTx(signers) PROVE OwnershipInv'
  <2>1. PICK f : f = [snapshot |-> kv, signers |-> signers, policy |-> "none"]
    OBVIOUS
  <2>2. stack' = <<f>> /\ kv' = kv /\ f.snapshot = kv
    BY <1>2, <2>1 DEF BeginTx
  <2>3. Len(stack') = 1 /\ stack'[1] = f /\ DOMAIN stack' = {1}
    BY <2>2
  <2>4. Stores' = {kv'}
    BY <2>2, <2>3 DEF Stores
  <2>5. ContractsSignForThemselves'
    BY <2>3 DEF ContractsSignForThemselves
  <2>6. UnsignedUnchanged'
    BY <2>2, <2>3, <2>4 DEF UnsignedUnchanged
  <2>7. GovernedByAuthority'
    BY <2>2, <2>3 DEF GovernedByAuthority
  <2> QED BY <2>5, <2>6, <2>7 DEF OwnershipInv
<1>3. CASE CommitTx \/ AbortTx \/ Restart
  BY <1>1, <1>3 DEF CommitTx, AbortTx, Restart
<1>4. CASE Return \/ FailCall
  BY <1>4, PopOwnership
<1>5. ASSUME NEW sender, ContractMessage(sender) \/ CodeMessage(sender)
      PROVE  OwnershipInv'
  BY <1>5, MessageOwnership
<1>6. CASE GovMessage
  BY <1>6, GovOwnership
<1>7. CASE UNCHANGED vars
  <2>1. kv' = kv /\ stack' = stack
    BY <1>7 DEF vars
  <2> QED BY <2>1 DEF OwnershipInv, ContractsSignForThemselves, Stores,
                      UnsignedUnchanged, GovernedByAuthority
<1> QED BY <1>2, <1>3, <1>4, <1>5, <1>6, <1>7 DEF Next

(* Who owns what holds of every reachable state. *)
THEOREM OwnershipInvariance == Spec => []OwnershipInv
<1>1. Init /\ Inv => OwnershipInv
  <2> SUFFICES ASSUME Init, Inv PROVE OwnershipInv
    OBVIOUS
  <2>1. stack = <<>> /\ DOMAIN stack = {}
    BY DEF Init
  <2> QED BY <2>1 DEF OwnershipInv, ContractsSignForThemselves,
                      UnsignedUnchanged, GovernedByAuthority
<1> QED BY <1>1, OwnershipNext, Invariance, PTL DEF Spec

(* A transaction that neither the authority nor the admin of a contract    *)
(* signed leaves that contract as it was, whatever calls it sets off, and  *)
(* likewise for codes and their creators.                                  *)
THEOREM OwnersCorrect == Spec => []UnsignedUnchanged
<1>1. OwnershipInv => UnsignedUnchanged
  BY DEF OwnershipInv
<1> QED BY <1>1, OwnershipInvariance, PTL

(* Parameters, pinned codes and gasless contracts change through messages  *)
(* of the authority only, never from inside a contract's call.             *)
THEOREM GovernanceCorrect == Spec => []GovernedByAuthority
<1>1. OwnershipInv => GovernedByAuthority
  BY DEF OwnershipInv
<1> QED BY <1>1, OwnershipInvariance, PTL

-----------------------------------------------------------------------------
(* Histories in the order of the transactions.                             *)

(* No entry is younger than the current transaction, without which the     *)
(* order is not inductive, and none than the entries behind it.            *)
Ordered(s, pos) ==
  \A a \in DOMAIN s.history : \A i \in DOMAIN s.history[a] :
    /\ s.history[a][i].updated <= pos
    /\ \A j \in DOMAIN s.history[a] :
         i <= j => s.history[a][i].updated <= s.history[a][j].updated

OrderInv == \A s \in Stores : Ordered(s, position)

(* A message does not move the position of its transaction. *)
LEMMA MessagePosition ==
  ASSUME NEW sender,
         ContractMessage(sender) \/ CodeMessage(sender) \/ GovMessage
  PROVE  position' = position
<1>1. CASE ContractMessage(sender)
  BY <1>1 DEF ContractMessage, ExecuteContract, MigrateContract,
              StoreAndMigrateContract, UpdateAdmin, UpdateContractLabel
<1>2. CASE CodeMessage(sender)
  BY <1>2 DEF CodeMessage, StoreCode, StoreAndInstantiateContract,
              UpdateInstantiateConfig, InstantiateContract, InstantiateContract2
<1>3. CASE GovMessage
  BY <1>3 DEF GovMessage, UpdateParams, AddCodeUploadParamsAddresses,
              RemoveCodeUploadParamsAddresses, PinCodes, UnpinCodes,
              SetGaslessContracts, SudoContract, UnsetGasless
<1> QED BY <1>1, <1>2, <1>3

(* A step keeps the stores that it had, or makes one of the running        *)
(* message's by adding to its histories.                                   *)
LEMMA StepStores ==
  ASSUME Inv, [Next]_vars
  PROVE  /\ Stores' \subseteq Stores \cup {kv'}
         /\ position' \in {position, position + 1}
         /\ kv' \in Stores \/ (position' = position /\ HistoryGrows(kv, kv'))
<1>1. StackInv
  BY DEF Inv
<1>2. ASSUME stack # <<>>, CallsContract
      PROVE  Stores' \subseteq Stores \cup {kv'}
  <2>1. /\ Len(stack) \in Nat /\ DOMAIN stack = 1..Len(stack)
        /\ DOMAIN stack' = 1..Len(stack')
        /\ \A i \in DOMAIN stack : stack'[i] = stack[i]
        /\ \/ stack' = stack
           \/ /\ Len(stack') = Len(stack) + 1
              /\ stack'[Len(stack) + 1].snapshot = kv
    BY <1>2, CallsContractFacts
  <2>2. CASE stack' = stack
    BY <2>2 DEF Stores
  <2>3. CASE stack' # stack
    <3>1. PICK n \in Nat : n = Len(stack)
      BY <2>1
    <3>2. /\ DOMAIN stack = 1..n /\ DOMAIN stack' = 1..(n + 1)
          /\ \A i \in 1..n : stack'[i] = stack[i]
          /\ stack'[n + 1].snapshot = kv
      BY <2>1, <2>3, <3>1
    <3> QED BY <3>2 DEF Stores
  <2> QED BY <2>2, <2>3
<1>3. ASSUME NEW signers, BeginTx(signers)
      PROVE  /\ Stores' \subseteq Stores \cup {kv'} /\ kv' \in Stores
             /\ position' \in {position, position + 1}
  <2>1. PICK f : f = [snapshot |-> kv, signers |-> signers, policy |-> "none"]
    OBVIOUS
  <2>2. stack' = <<f>> /\ kv' = kv /\ f.snapshot = kv
    BY <1>3, <2>1 DEF BeginTx
  <2>3. Len(stack') = 1 /\ stack'[1] = f /\ DOMAIN stack' = {1}
    BY <2>2
  <2> QED BY <1>3, <2>2, <2>3 DEF Stores, BeginTx
<1>4. CASE CommitTx \/ AbortTx \/ Return \/ FailCall \/ Restart
  <2>1. position' = position
    BY <1>4 DEF CommitTx, AbortTx, Return, FailCall, Restart
  <2>2. \/ stack' = <<>>
        \/ Len(stack) > 1 /\ stack' = SubSeq(stack, 1, Len(stack) - 1)
    <3>1. Len(stack) \in Nat
      BY <1>1 DEF StackInv, IsSequence
    <3> QED BY <1>4, <3>1 DEF CommitTx, AbortTx, Return, FailCall, Restart
  <2>3. Stores' \subseteq Stores \cup {kv'}
    BY <1>1, <2>2, EmptyOK, PopOK
  <2>4. \/ kv' = kv
        \/ stack # <<>> /\ kv' = stack[1].snapshot
        \/ stack # <<>> /\ kv' = stack[Len(stack)].snapshot
    <3>1. Len(stack) > 2 => stack # <<>>
      OBVIOUS
    <3> QED BY <1>4, <3>1 DEF CommitTx, AbortTx, Return, FailCall, Restart, Top
  <2>5. stack # <<>> => Len(stack) \in DOMAIN stack /\ 1 \in DOMAIN stack
    BY <1>1 DEF StackInv, IsSequence
  <2> QED BY <2>1, <2>3, <2>4, <2>5 DEF Stores
<1>5. ASSUME NEW sender, ContractMessage(sender) \/ CodeMessage(sender)
      PROVE  /\ Stores' \subseteq Stores \cup {kv'}
             /\ position' = position /\ HistoryGrows(kv, kv')
  <2>1. /\ \E message : Delivered(message, sender)
        /\ HistoryGrows(kv, kv') /\ CallsContract
    BY <1>5, MessageChanges DEF ChangesOwned
  <2>2. stack # <<>>
    BY <2>1 DEF Delivered
  <2> QED BY <1>2, <1>5, <2>1, <2>2, MessagePosition
<1>6. ASSUME GovMessage
      PROVE  /\ Stores' \subseteq Stores \cup {kv'}
             /\ position' = position /\ HistoryGrows(kv, kv')
  <2>1. /\ \E message : Delivered(message, Authority)
        /\ kv'.history = kv.history /\ CallsContract
    BY <1>6, GovChanges DEF CallsContract
  <2>2. stack # <<>>
    BY <2>1 DEF Delivered
  <2> QED BY <1>2, <1>6, <2>1, <2>2, HistorySame, MessagePosition
<1>7. CASE UNCHANGED vars
  BY <1>7 DEF vars, Stores
<1> QED BY <1>3, <1>4, <1>5, <1>6, <1>7 DEF Next

(* An entry of the current transaction goes behind those there are. *)
LEMMA GrowsOrdered ==
  ASSUME Inv, Ordered(kv, position), HistoryGrows(kv, kv')
  PROVE  Ordered(kv', position)
<1>1. SUFFICES ASSUME NEW a \in DOMAIN kv'.history,
                      NEW i \in DOMAIN kv'.history[a]
               PROVE  /\ kv'.history[a][i].updated <= position
                      /\ \A j \in DOMAIN kv'.history[a] :
                           i <= j => kv'.history[a][i].updated
                                       <= kv'.history[a][j].updated
  BY DEF Ordered
<1>2. CASE a \in DOMAIN kv.history /\ kv'.history[a] = kv.history[a]
  BY <1>2 DEF Ordered
<1>3. ASSUME NEW entry \in HistoryEntry, entry.updated = position,
             kv'.history[a] = Append(IF a \in DOMAIN kv.history
                                     THEN kv.history[a] ELSE <<>>, entry)
      PROVE  /\ kv'.history[a][i].updated <= position
             /\ \A j \in DOMAIN kv'.history[a] :
                  i <= j => kv'.history[a][i].updated
                              <= kv'.history[a][j].updated
  <2>1. PICK h : h = IF a \in DOMAIN kv.history THEN kv.history[a] ELSE <<>>
    OBVIOUS
  <2>2. h \in Seq(HistoryEntry)
    <3>1. \A b \in DOMAIN kv.history : kv.history[b] \in Seq(HistoryEntry)
      BY CurrentStore DEF StoreInv, IsStore
    <3> QED BY <2>1, <3>1
  <2>3. \A k \in DOMAIN h : /\ h[k].updated <= position
                            /\ \A j \in DOMAIN h :
                                 k <= j => h[k].updated <= h[j].updated
    <3>1. CASE a \in DOMAIN kv.history
      BY <2>1, <3>1 DEF Ordered
    <3>2. CASE a \notin DOMAIN kv.history
      BY <2>1, <3>2
    <3> QED BY <3>1, <3>2
  <2>4. PICK g : g = kv'.history[a]
    OBVIOUS
  <2>5. PICK n \in Nat : n = Len(h)
    BY <2>2
  <2>6. /\ DOMAIN h = 1..n /\ DOMAIN g = 1..(n + 1)
        /\ g[n + 1] = entry
        /\ \A k \in 1..n : g[k] = h[k]
    BY <1>3, <2>1, <2>2, <2>4, <2>5
  <2>7. position \in Nat
    BY DEF Inv
  <2>8. ASSUME NEW k \in 1..(n + 1)
        PROVE  /\ g[k].updated <= position
               /\ \A j \in 1..(n + 1) : k <= j => g[k].updated <= g[j].updated
    <3>1. g[k].updated <= position
      BY <1>3, <2>3, <2>6, <2>7
    <3>2. ASSUME NEW j \in 1..(n + 1), k <= j
          PROVE  g[k].updated <= g[j].updated
      <4>1. CASE j = n + 1
        BY <1>3, <2>6, <3>1, <4>1
      <4>2. CASE j # n + 1
        <5>1. j \in 1..n /\ k \in 1..n
          BY <3>2, <4>2
        <5> QED BY <2>3, <2>6, <3>2, <5>1
      <4> QED BY <4>1, <4>2
    <3> QED BY <3>1, <3>2
  <2> QED BY <1>1, <2>4, <2>6, <2>8
<1> QED BY <1>1, <1>2, <1>3 DEF HistoryGrows

(* Every step keeps the order. *)
LEMMA OrderNext == Inv /\ OrderInv /\ [Next]_vars => OrderInv'
<1> SUFFICES ASSUME Inv, OrderInv, [Next]_vars, NEW s \in Stores'
             PROVE  Ordered(s, position')
  BY DEF OrderInv
<1>1. /\ Stores' \subseteq Stores \cup {kv'}
      /\ position' \in {position, position + 1}
      /\ kv' \in Stores \/ (position' = position /\ HistoryGrows(kv, kv'))
  BY StepStores
<1>2. ASSUME NEW t \in Stores PROVE Ordered(t, position')
  <2>1. Ordered(t, position) /\ position \in Nat
    BY DEF OrderInv, Inv
  <2>2. \A a \in DOMAIN t.history : \A i \in DOMAIN t.history[a] :
          t.history[a][i].updated \in Nat
    <3>1. \A a \in DOMAIN t.history : t.history[a] \in Seq(HistoryEntry)
      BY DEF Inv, StoreInv, IsStore
    <3>2. \A a \in DOMAIN t.history : \A i \in DOMAIN t.history[a] :
            t.history[a][i] \in HistoryEntry
      BY <3>1
    <3> QED BY <3>2 DEF HistoryEntry
  <2> QED BY <1>1, <2>1, <2>2 DEF Ordered
<1>3. CASE s \in Stores
  BY <1>2, <1>3
<1>4. CASE s = kv' /\ kv' \notin Stores
  <2>1. Ordered(kv, position)
    BY DEF OrderInv, Stores
  <2> QED BY <1>1, <1>4, <2>1, GrowsOrdered
<1> QED BY <1>1, <1>3, <1>4

(* keeper.migrate, keeper.instantiate and rollbacks keep every contract's  *)
(* history in step with its code, and in the order of the transactions.    *)
THEOREM HistoryCorrect == Spec => []HistoryConsistent
<1>1. Init => OrderInv
  <2> SUFFICES ASSUME Init PROVE OrderInv
    OBVIOUS
  <2>1. Stores = {kv}
    <3>1. DOMAIN stack = {}
      BY DEF Init
    <3> QED BY <3>1 DEF Stores
  <2>2. DOMAIN kv.history = {}
    BY DEF Init
  <2> QED BY <2>1, <2>2 DEF OrderInv, Ordered
<1>2. Inv /\ OrderInv => HistoryConsistent
  BY DEF Inv, StoreInv, HistoryKept, OrderInv, Ordered, HistoryConsistent, HistoryOK
<1> QED BY <1>1, <1>2, OrderNext, Invariance, PTL DEF Spec

-----------------------------------------------------------------------------
(* Who modifies contracts from inside a call.                              *)

(* A contract that changes in a step of a call changes for its admin: its  *)
(* message runs under a policy that lets nobody else modify it, unless     *)
(* migrate permissions are propagated.                                     *)
LEMMA ChangedByAdmin ==
  ASSUME Inv, Next, Len(stack) > 1, Len(stack') >= Len(stack),
         "migrate" \notin Propagate,
         NEW a \in DOMAIN kv.contracts, kv'.contracts[a] # kv.contracts[a]
  PROVE  kv.contracts[a].admin \in Top.signers
<1>1. StackInv /\ Len(stack) \in Nat /\ Len(stack) \in DOMAIN stack
  BY DEF Inv, StackInv, IsSequence
<1>2. ASSUME NEW signers, BeginTx(signers) PROVE FALSE
  BY <1>2 DEF BeginTx
<1>3. CASE CommitTx \/ AbortTx \/ Return \/ FailCall \/ Restart
  <2>1. stack' = <<>> \/ stack' = SubSeq(stack, 1, Len(stack) - 1)
    BY <1>3 DEF CommitTx, AbortTx, Return, FailCall, Restart
  <2>2. stack' = <<>> => Len(stack') = 0
    OBVIOUS
  <2>3. stack' = SubSeq(stack, 1, Len(stack) - 1) => Len(stack') = Len(stack) - 1
    BY PopFacts DEF Inv, StackInv
  <2> QED BY <1>1, <2>1, <2>2, <2>3
<1>4. ASSUME NEW sender, ContractMessage(sender) \/ CodeMessage(sender)
      PROVE  kv.contracts[a].admin \in Top.signers
  <2>1. /\ \E message : Delivered(message, sender)
        /\ CanModifyContract(SelectPolicy(sender), kv.contracts[a].admin, sender)
    BY <1>4, MessageChanges DEF ChangesOwned
  <2>2. sender \in Top.signers
    BY <2>1 DEF Delivered
  <2>3. sender # Authority
    BY <1>1, <2>2 DEF StackInv, Top
  <2>4. SelectPolicy(sender) \in {Top.policy, "default"}
    BY <2>3 DEF SelectPolicy
  <2>5. Top.policy \in FramePolicies /\ Top.policy # "partialMigrate"
    BY <1>1 DEF StackInv, EscalationNeedsAuthority, Top
  <2>6. kv.contracts[a].admin = sender
    BY <2>1, <2>4, <2>5 DEF CanModifyContract, FramePolicies
  <2> QED BY <2>2, <2>6
<1>5. CASE GovMessage
  BY <1>5, GovChanges
<1> QED BY <1>2, <1>3, <1>4, <1>5 DEF Next

(* Without propagated migrate permissions a contract modifies another one  *)
(* as its admin only, in whatever transaction and however deep its call.   *)
THEOREM SubMessagesCorrect == Spec => SubMessagesNeedAdmin
<1>1. Inv /\ [Next]_vars =>
        [Len(stack) > 1 /\ Len(stack') >= Len(stack)
            /\ "migrate" \notin Propagate =>
           \A a \in DOMAIN kv.contracts :
             kv'.contracts[a] # kv.contracts[a] =>
               kv.contracts[a].admin \in Top.signers]_vars
  <2> SUFFICES ASSUME Inv, Next, Len(stack) > 1, Len(stack') >= Len(stack),
                      "migrate" \notin Propagate,
                      NEW a \in DOMAIN kv.contracts,
                      kv'.contracts[a] # kv.contracts[a]
               PROVE  kv.contracts[a].admin \in Top.signers
    OBVIOUS
  <2> QED BY ChangedByAdmin
<1> QED BY <1>1, Invariance, PTL DEF Spec, SubMessagesNeedAdmin

-----------------------------------------------------------------------------
(* Export and import, however often a chain is exported and started again: *)
(* they keep the registry, and what was shown of the owners holds across   *)
(* them.                                                                   *)

(* The entries of a genesis file are those of the store it was made from. *)
LEMMA ExportFacts ==
  ASSUME NEW s, NEW g, g = ExportGenesis(s)
  PROVE  /\ g.params = s.params
         /\ g.sequences.codeID = s.codeSeq
         /\ g.sequences.instanceID = s.instanceSeq
         /\ DOMAIN g.codes = DOMAIN s.codes
         /\ \A c \in DOMAIN s.codes :
              /\ g.codes[c].info = s.codes[c]
              /\ g.codes[c].bytes = s.codes[c].checksum
              /\ g.codes[c].pinned = (c \in s.pinned)
         /\ DOMAIN g.contracts = DOMAIN s.contracts
         /\ \A a \in DOMAIN s.contracts :
              /\ g.contracts[a].info = s.contracts[a]
              /\ g.contracts[a].history = s.history[a]
BY DEF ExportGenesis

(* InitGenesis accepts what ExportGenesis wrote. *)
LEMMA ImportOK ==
  ASSUME NEW s, NEW vm, StoreInv(s, vm), NEW g, g = ExportGenesis(s)
  PROVE  CanImport(g)
<1>1. /\ g.sequences.codeID = s.codeSeq
      /\ g.sequences.instanceID = s.instanceSeq
      /\ DOMAIN g.codes = DOMAIN s.codes
      /\ \A c \in DOMAIN s.codes :
           /\ g.codes[c].info = s.codes[c]
           /\ g.codes[c].bytes = s.codes[c].checksum
      /\ DOMAIN g.contracts = DOMAIN s.contracts
      /\ \A a \in DOMAIN s.contracts :
           /\ g.contracts[a].info = s.contracts[a]
           /\ g.contracts[a].history = s.history[a]
  BY ExportFacts, SMTT(30)
<1>2. \A c \in DOMAIN s.codes : c < s.codeSeq
  <2>1. s.codeSeq \in Nat /\ DOMAIN s.codes = 1..(s.codeSeq - 1)
    BY DEF StoreInv, IsStore, CodesResolve
  <2> QED BY <2>1
<1>3. \A a \in DOMAIN s.contracts :
        s.contracts[a].codeID \in DOMAIN s.codes /\ s.history[a] # <<>>
  BY DEF StoreInv, CodesResolve, HistoryKept
<1>4. ClassicAddress(s.instanceSeq, s.instanceSeq) \notin DOMAIN s.contracts
  <2>1. PICK a : a = ClassicAddress(s.instanceSeq, s.instanceSeq)
    OBVIOUS
  <2>2. a.kind = "classic" /\ a.instanceID = s.instanceSeq
    BY <2>1 DEF ClassicAddress
  <2>3. s.instanceSeq \in Nat
    BY DEF StoreInv, IsStore
  <2>4. a \in DOMAIN s.contracts => a.instanceID < s.instanceSeq
    BY <2>2 DEF StoreInv, InstanceIDsOK
  <2> QED BY <2>1, <2>2, <2>3, <2>4
<1> QED BY <1>1, <1>2, <1>3, <1>4 DEF CanImport

(* The store that is built from the file is the one that was exported. *)
LEMMA ImportedStore ==
  ASSUME NEW s, NEW vm, StoreInv(s, vm), NEW g, g = ExportGenesis(s),
         NEW t, t = InitGenesis(g, s.ports)
  PROVE  t = [s EXCEPT !.gasless = {}]
<1>1. /\ g.params = s.params
      /\ g.sequences.codeID = s.codeSeq
      /\ g.sequences.instanceID = s.instanceSeq
      /\ DOMAIN g.codes = DOMAIN s.codes
      /\ \A c \in DOMAIN s.codes :
           /\ g.codes[c].info = s.codes[c]
           /\ g.codes[c].pinned = (c \in s.pinned)
      /\ DOMAIN g.contracts = DOMAIN s.contracts
      /\ \A a \in DOMAIN s.contracts :
           /\ g.contracts[a].info = s.contracts[a]
           /\ g.contracts[a].history = s.history[a]
  BY ExportFacts, SMTT(30)
<1>2. [c \in DOMAIN g.codes |-> g.codes[c].info] = s.codes
  <2>1. [c \in DOMAIN g.codes |-> g.codes[c].info] = [c \in DOMAIN s.codes |-> s.codes[c]]
    BY <1>1
  <2> QED BY <2>1 DEF StoreInv, IsMap
<1>3. [a \in DOMAIN g.contracts |-> g.contracts[a].info] = s.contracts
  <2>1. [a \in DOMAIN g.contracts |-> g.contracts[a].info]
          = [a \in DOMAIN s.contracts |-> s.contracts[a]]
    BY <1>1
  <2> QED BY <2>1 DEF StoreInv, IsMap
<1>4. [a \in DOMAIN g.contracts |-> g.contracts[a].history] = s.history
  <2>1. DOMAIN s.history = DOMAIN s.contracts
    BY DEF StoreInv, HistoryKept
  <2>2. [a \in DOMAIN g.contracts |-> g.contracts[a].history]
          = [a \in DOMAIN s.history |-> s.history[a]]
    BY <1>1, <2>1
  <2> QED BY <2>2 DEF StoreInv, IsMap
<1>5. ImportedCodeIndex(g) = s.codeIndex
  <2>1. ImportedCodeIndex(g)
          = {CodeIndexKey(a, LastEntry(s, a)) : a \in DOMAIN s.contracts}
    BY <1>1 DEF ImportedCodeIndex, LastEntry
  <2> QED BY <2>1 DEF StoreInv, IndexesOK
<1>6. ImportedCreatorIndex(g) = s.creatorIndex
  <2>1. \A a \in DOMAIN s.contracts :
          s.history[a][1].updated = s.contracts[a].created
    BY DEF StoreInv, HistoryKept
  <2>2. ImportedCreatorIndex(g)
          = {<<s.contracts[a].creator, s.contracts[a].created, a>> :
               a \in DOMAIN s.contracts}
    BY <1>1, <2>1 DEF ImportedCreatorIndex
  <2> QED BY <2>2 DEF StoreInv, IndexesOK
<1>7. {c \in DOMAIN g.codes : g.codes[c].pinned} = s.pinned
  <2>1. s.pinned \subseteq DOMAIN s.codes
    BY DEF StoreInv, CodesResolve
  <2> QED BY <1>1, <2>1
<1>8. t = [params |-> s.params, codes |-> s.codes, codeSeq |-> s.codeSeq,
           contracts |-> s.contracts, instanceSeq |-> s.instanceSeq,
           history |-> s.history, codeIndex |-> s.codeIndex,
           creatorIndex |-> s.creatorIndex, ports |-> s.ports,
           pinned |-> s.pinned, gasless |-> {}]
  BY <1>1, <1>2, <1>3, <1>4, <1>5, <1>6, <1>7 DEF InitGenesis
<1>9. HasStoreFields(s)
  BY DEF StoreInv, IsStore
<1> QED BY <1>8, <1>9 DEF HasStoreFields

(* A chain that is exported and started again satisfies the invariant. *)
LEMMA ExportImportOK ==
  ASSUME Inv, ExportImport
  PROVE  Inv' /\ kv' = [kv EXCEPT !.gasless = {}]
<1>1. StoreInv(kv, vmCodes) /\ position \in Nat
  BY CurrentStore DEF Inv
<1>2. PICK g : g = ExportGenesis(kv)
  OBVIOUS
<1>3. /\ stack = <<>> /\ stack' = <<>>
      /\ kv' = InitGenesis(g, kv.ports)
      /\ vmCodes' = {g.codes[c].bytes : c \in DOMAIN g.codes}
      /\ vmPinned' = {g.codes[c].bytes : c \in kv'.pinned}
      /\ position' \in {position, 0}
  BY <1>2 DEF ExportImport
<1>4. kv' = [kv EXCEPT !.gasless = {}]
  BY <1>1, <1>2, <1>3, ImportedStore
<1>5. HasStoreFields(kv)
  BY <1>1 DEF StoreInv, IsStore
<1>6. /\ HasStoreFields(kv') /\ kv'.gasless = {}
      /\ kv'.params = kv.params /\ kv'.pinned = kv.pinned
      /\ kv'.codes = kv.codes /\ kv'.codeSeq = kv.codeSeq
      /\ kv'.contracts = kv.contracts /\ kv'.instanceSeq = kv.instanceSeq
      /\ kv'.history = kv.history /\ kv'.codeIndex = kv.codeIndex
      /\ kv'.creatorIndex = kv.creatorIndex /\ kv'.ports = kv.ports
  BY <1>4, <1>5 DEF HasStoreFields
<1>7. /\ IsParams(kv.params) /\ kv.pinned \subseteq DOMAIN kv.codes
      /\ \A c \in DOMAIN kv.codes : kv.codes[c].checksum \in Checksum
  BY <1>1 DEF StoreInv, IsStore, IsParams, CodesResolve, IsCodeInfo
<1>8. StoreInv(kv', vmCodes)
  BY <1>1, <1>6, <1>7, GovernedSetOK
<1>9. /\ DOMAIN g.codes = DOMAIN kv.codes
      /\ \A c \in DOMAIN kv.codes : g.codes[c].bytes = kv.codes[c].checksum
  BY <1>2, ExportFacts
<1>10. vmCodes' \subseteq Checksum /\ vmPinned' \subseteq Checksum
  BY <1>3, <1>6, <1>7, <1>9
<1>11. StoreInv(kv', vmCodes')
  <2>1. CodesIn(kv', vmCodes')
    BY <1>3, <1>6, <1>9 DEF CodesIn
  <2> QED BY <1>8, <2>1 DEF StoreInv
<1>12. StackInv'
  BY <1>3, EmptyOK
<1>13. Stores' = {kv'}
  <2>1. DOMAIN stack' = {}
    BY <1>3
  <2> QED BY <2>1 DEF Stores
<1>14. position' \in Nat
  BY <1>1, <1>3
<1> QED BY <1>4, <1>10, <1>11, <1>12, <1>13, <1>14 DEF Inv

(* The invariants of the registry and of its owners hold of every state    *)
(* that messages, restarts, exports and imports lead to.                   *)
THEOREM GenesisInvariance == GenesisSpec => []OwnershipInv
<1>1. Init => OwnershipInv
  <2> SUFFICES ASSUME Init PROVE OwnershipInv
    OBVIOUS
  <2>1. stack = <<>> /\ DOMAIN stack = {}
    BY DEF Init
  <2> QED BY <2>1, InitOK DEF OwnershipInv, ContractsSignForThemselves,
                              UnsignedUnchanged, GovernedByAuthority
<1>2. OwnershipInv /\ [GenesisNext]_vars => OwnershipInv'
  <2> SUFFICES ASSUME OwnershipInv, [GenesisNext]_vars PROVE OwnershipInv'
    OBVIOUS
  <2>1. CASE [Next]_vars
    <3>1. Inv'
      BY <2>1, NextOK DEF OwnershipInv
    <3> QED BY <2>1, <3>1, OwnershipNext
  <2>2. CASE ExportImport
    <3>1. Inv'
      BY <2>2, ExportImportOK DEF OwnershipInv
    <3>2. stack' = <<>> /\ DOMAIN stack' = {}
      BY <2>2 DEF ExportImport
    <3> QED BY <3>1, <3>2 DEF OwnershipInv, ContractsSignForThemselves,
                              UnsignedUnchanged, GovernedByAuthority
  <2> QED BY <2>1, <2>2 DEF GenesisNext
<1> QED BY <1>1, <1>2, PTL DEF GenesisSpec

(* A chain can be exported between any two transactions, and InitGenesis   *)
(* accepts what was exported.                                              *)
THEOREM GenesisCorrect == GenesisSpec => []ImportSucceeds
<1>1. OwnershipInv => ImportSucceeds
  <2> SUFFICES ASSUME OwnershipInv
               PROVE  CanExport(kv) /\ CanImport(ExportGenesis(kv))
    BY DEF ImportSucceeds
  <2>1. StoreInv(kv, vmCodes)
    BY CurrentStore DEF OwnershipInv
  <2>2. CanExport(kv)
    BY <2>1 DEF StoreInv, CodesIn, CanExport
  <2>3. CanImport(ExportGenesis(kv))
    BY <2>1, ImportOK
  <2> QED BY <2>2, <2>3
<1> QED BY <1>1, GenesisInvariance, PTL

(* The import builds the store that was exported, up to the gasless flags, *)
(* and the migration from version 1 the index by creator that it has.      *)
THEOREM GenesisRoundTrip == GenesisSpec => GenesisKeepsRegistry
<1>1. OwnershipInv /\ [GenesisNext]_vars =>
        [ExportImport => /\ kv' = [kv EXCEPT !.gasless = {}]
                         /\ kv' = Migrate1to2([kv' EXCEPT !.creatorIndex = {}])]_vars
  <2> SUFFICES ASSUME OwnershipInv, ExportImport
               PROVE  /\ kv' = [kv EXCEPT !.gasless = {}]
                      /\ kv' = Migrate1to2([kv' EXCEPT !.creatorIndex = {}])
    OBVIOUS
  <2>1. Inv' /\ kv' = [kv EXCEPT !.gasless = {}]
    BY ExportImportOK DEF OwnershipInv
  <2>2. StoreInv(kv', vmCodes')
    BY <2>1 DEF Inv, Stores
  <2>3. HasStoreFields(kv')
    BY <2>2 DEF StoreInv, IsStore
  <2>4. PICK t : t = [kv' EXCEPT !.creatorIndex = {}]
    OBVIOUS
  <2>5. /\ t.contracts = kv'.contracts /\ t.creatorIndex = {}
        /\ \A x : [t EXCEPT !.creatorIndex = x] = [kv' EXCEPT !.creatorIndex = x]
    BY <2>3, <2>4 DEF HasStoreFields
  <2>6. kv'.creatorIndex
          = {<<kv'.contracts[a].creator, kv'.contracts[a].created, a>> :
               a \in DOMAIN kv'.contracts}
    BY <2>2 DEF StoreInv, IndexesOK
  <2>7. Migrate1to2(t) = [kv' EXCEPT !.creatorIndex = kv'.creatorIndex]
    <3>1. PICK x : x = t.creatorIndex \cup
                         {<<t.contracts[a].creator, t.contracts[a].created, a>> :
                            a \in DOMAIN t.contracts}
      OBVIOUS
    <3>2. x = kv'.creatorIndex
      BY <2>5, <2>6, <3>1
    <3>3. Migrate1to2(t) = [t EXCEPT !.creatorIndex = x]
      BY <3>1 DEF Migrate1to2
    <3> QED BY <2>5, <3>2, <3>3
  <2>8. [kv' EXCEPT !.creatorIndex = kv'.creatorIndex] = kv'
    BY <2>3 DEF HasStoreFields
  <2> QED BY <2>1, <2>4, <2>7, <2>8
<1> QED BY <1>1, GenesisInvariance, PTL DEF GenesisSpec, GenesisKeepsRegistry
=============================================================================
