---------------------------- MODULE WasmGenesis -----------------------------
(***************************************************************************)
(* Export and import of x/wasm: a chain is stopped, its state exported to  *)
(* a genesis file, and a new chain started from the file on an empty store *)
(* and an empty wasmvm.  Indexes are not part of the file: they are built  *)
(* again from the contracts and their histories.  Neither are the gasless  *)
(* contracts.  Ports are kept by the IBC modules and come with them.       *)
(***************************************************************************)
EXTENDS WasmKeeper

(* Mutant: the sequences hold the ids given out last. *)
ExportGenesisLastUsed(s) ==
  [params    |-> s.params,
   codes     |-> [c \in DOMAIN s.codes |->
                    [info |-> s.codes[c], bytes |-> s.codes[c].checksum,
                     pinned |-> c \in s.pinned]],
   contracts |-> [a \in DOMAIN s.contracts |->
                    [info |-> s.contracts[a], history |-> s.history[a]]],
   sequences |-> [codeID |-> s.codeSeq - 1, instanceID |-> s.instanceSeq - 1]]

ExportGenesis(s) ==
  [params    |-> s.params,
   codes     |-> [c \in DOMAIN s.codes |->
                    [info |-> s.codes[c], bytes |-> s.codes[c].checksum,
                     pinned |-> c \in s.pinned]],
   contracts |-> [a \in DOMAIN s.contracts |->
                    [info |-> s.contracts[a], history |-> s.history[a]]],
   sequences |-> [codeID |-> s.codeSeq, instanceID |-> s.instanceSeq]]

(* Exporting reads the byte code of every code info, or panics.            *)
CanExport(s) == \A c \in DOMAIN s.codes : s.codes[c].checksum \in vmCodes

(* importCode, importContract, and the checks on the sequences: the code   *)
(* id is beyond every code, and a classic address is still unused.  It is  *)
(* the address of the code whose id is the next instance id: InitGenesis   *)
(* hands the peeked instance id to the generator as the code id.           *)
CanImport(g) ==
  /\ \A c \in DOMAIN g.codes :
       /\ g.codes[c].bytes = g.codes[c].info.checksum
       /\ c < g.sequences.codeID
  /\ \A a \in DOMAIN g.contracts :
       /\ g.contracts[a].info.codeID \in DOMAIN g.codes
       /\ g.contracts[a].history # <<>>
  /\ ClassicAddress(g.sequences.instanceID, g.sequences.instanceID)
       \notin DOMAIN g.contracts

(* Mutant: the contract is found under its first code. *)
ImportedCodeIndexFirst(g) ==
  {CodeIndexKey(a, g.contracts[a].history[1]) : a \in DOMAIN g.contracts}

ImportedCodeIndex(g) ==
  {LET entries == g.contracts[a].history
   IN CodeIndexKey(a, entries[Len(entries)]) : a \in DOMAIN g.contracts}

ImportedCreatorIndex(g) ==
  {<<g.contracts[a].info.creator, g.contracts[a].history[1].updated, a>> :
     a \in DOMAIN g.contracts}

(* The store that InitGenesis leaves behind.                               *)
InitGenesis(g, ports) ==
  [params       |-> g.params,
   codes        |-> [c \in DOMAIN g.codes |-> g.codes[c].info],
   codeSeq      |-> g.sequences.codeID,
   contracts    |-> [a \in DOMAIN g.contracts |-> g.contracts[a].info],
   instanceSeq  |-> g.sequences.instanceID,
   history      |-> [a \in DOMAIN g.contracts |-> g.contracts[a].history],
   codeIndex    |-> ImportedCodeIndex(g),
   creatorIndex |-> ImportedCreatorIndex(g),
   ports        |-> ports,
   pinned       |-> {c \in DOMAIN g.codes : g.codes[c].pinned},
   gasless      |-> {}]

(* The new chain goes on at the next height, or starts again at zero.      *)
ExportImport ==
  LET g == ExportGenesis(kv) IN
  /\ stack = <<>>
  /\ CanExport(kv)
  /\ CanImport(g)
  /\ kv' = InitGenesis(g, kv.ports)
  /\ vmCodes' = {g.codes[c].bytes : c \in DOMAIN g.codes}
  /\ vmPinned' = {g.codes[c].bytes : c \in kv'.pinned}
  /\ position' \in {position, 0}
  /\ UNCHANGED stack

GenesisNext == Next \/ ExportImport

GenesisSpec == Init /\ [][GenesisNext]_vars

-----------------------------------------------------------------------------
(* The store migration from version 1, which knew no index by creator.     *)

Migrate1to2(s) ==
  [s EXCEPT !.creatorIndex = @ \cup
     {<<s.contracts[a].creator, s.contracts[a].created, a>> :
        a \in DOMAIN s.contracts}]

-----------------------------------------------------------------------------
(* Between transactions the chain can always be exported, and InitGenesis  *)
(* accepts what was exported: every byte code can be loaded, every         *)
(* contract has its code and a history, and the sequences are beyond the   *)
(* ids in use, whatever was rolled back or imported before.                *)
ImportSucceeds ==
  stack = <<>> => CanExport(kv) /\ CanImport(ExportGenesis(kv))

(* The store that is built from the file is the store that was exported,   *)
(* the indexes included, which are not in the file; only the gasless       *)
(* contracts are lost.  And the migration from version 1 would build the   *)
(* same index by creator.                                                  *)
GenesisKeepsRegistry ==
  [][ExportImport => /\ kv' = [kv EXCEPT !.gasless = {}]
                     /\ kv' = Migrate1to2([kv' EXCEPT !.creatorIndex = {}])]_vars
=============================================================================
