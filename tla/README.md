# A TLA+ model of bignftd

bignftd is a Cosmos SDK chain with an EVM next to CosmWasm.  Its own code is the
`x/wasm` module (a fork of wasmd with gasless contracts), the `x/tokenfactory`
module and a set of EVM precompiles.  This directory models the parts of it that
change state, checks them with TLC on small instances, and proves
their safety properties with TLAPS for every instance.

## 1. The system

| Component | State | Operations | Hard part |
|---|---|---|---|
| Keeper registry (`x/wasm/keeper/keeper.go`, `msg_server.go`) | code infos, contract infos, code history, contracts-by-code and contracts-by-creator indexes, code and instance sequences, IBC ports, pinned codes, gasless contracts, params | the 20 messages of the msg server | contracts are called while a message is half done and may send messages themselves; sub-messages are rolled back one by one; wasmvm keeps state that is never rolled back |
| Authorization policies (`authz_policy.go`, `types/params.go`) | none; the policy travels in the context | default, gov, partial gov; which of them sub-messages inherit | permissions that leak through nested calls |
| Message dispatcher (`msg_dispatcher.go`, `handler_plugin.go`, `keeper.reply`) | cached stores, event managers, gas meters, call depth, all on the Go stack | dispatch, reply, error, out-of-gas panic and its recovery | four kinds of `replyOn`, each with failures at any depth; gas limits inside gas limits |
| IBC (`ibc.go`, `relay.go`, `handler_plugin.go`) | channel capabilities, packets to acknowledge later | handshake, close, packets, immediate and asynchronous acknowledgements, timeouts | two chains and a relayer that repeats, reorders and loses messages; errors that must or must not be turned into acknowledgements |
| Authz grants (`types/authz.go`) | limits that each use updates | accept, update, remove | a `MsgExec` inside of a `MsgExec`, either of which may fail; limits at zero |
| Genesis and migrations (`genesis.go`, `migrations/`) | the whole store | export, import, rewriting of records | indexes that are not in the file; a sequence behind the ids in use |
| Wire format (`*.pb.go`, `legacy_types.go`) | the bytes of messages and records | size, marshal, unmarshal of 137 message types | three pieces of code per message that must agree; truncated, repeated and unknown fields |
| Token factory (`x/tokenfactory`) | denominations, admins, bank supply | create, mint, burn, force transfer, change admin, metadata; contract bindings | admin changes between messages; module accounts |
| EVM precompiles (`precompile/`) | none of their own | bank, wasm, address and json calls | two gas accounts, two address formats |
| Gas register, ante decorators, queries, snapshotter | transaction counter, discount set, query stack | conversions, counting | integer widths |

Calls between them: a message reaches the msg server through the base
application, or as a sub-message through `MessageDispatcher` and
`SDKMessageHandler`; the msg server picks a policy and calls the keeper; the
keeper calls the contract in wasmvm and hands its response back to the
dispatcher, which calls the message handlers again, and `keeper.reply` in the
end.  Everything in one transaction happens in one goroutine: what makes it hard
is not threads but the recursion, with a store, an event manager and a gas meter
per level, and what a failure at one level leaves behind at the others.

What makes each part correct: the registry's records agree with one another
whatever was rolled back; nobody changes what he does not own; a sub-message is
all or nothing, reported once, charged once and answered as asked; the hazards
under `hazards` in PROJECT.json name the lines.

## 2. Modules

| Module | What it models |
|---|---|
| `AccessConfig` | access types and configs, who they allow, which is narrower |
| `WasmKeeper` | the registry, the msg server and the authorization policies, with nested calls, rollbacks and node restarts |
| `WasmGenesis` | extends it with export and import, and the store migration from version 1 |
| `MCWasmKeeper` | the small instances of both |
| `WasmKeeperProofs` | proofs: the records of the registry agree, in every store a rollback may restore; what one message changes, and with it the owners, the authority and the order of histories; export and import |
| `MessageDispatcher` | the execution of a transaction's messages, sub-messages and replies, with caches, events and gas meters |
| `NestedTx` | what `MessageDispatcher` promises: nested transactions |
| `MessageDispatcherProofs` | proofs: the call stack, gas limits, replies, failures, and the refinement of `NestedTx` |
| `DispatcherEffectProofs` | proofs: writes and events are those of the runs that survive; all gas is charged |
| `TokenFactory` | `x/tokenfactory`: its msg server, the contract bindings, export and import |
| `TokenFactoryProofs` | proofs: all the properties of the token factory |
| `WasmIBC`, `MCWasmIBC` | two chains with an IBC contract each, their channels and packets, and a small instance |
| `WasmIBCProofs` | proofs: channel ends agree, acknowledgements are true, senders hear once |
| `ContractGrants`, `MCContractGrants` | the authorizations of `types/authz.go` under the authz keeper, and a small instance |
| `ContractGrantsProofs` | proofs: budgets, idle sanity checks, uploads as granted |
| `Codec`, `WireKinds` | the code that the generated files repeat for each message, given that of the messages it embeds |
| `CodecProofs` | proofs: the laws of the format, for one level of messages |
| `Protobuf` | the codec of all messages: four levels of `Codec`, each embedding the one below |
| `TxWire`, `QueryWire`, `ProposalWire`, `StateWire`, `FactoryWire`, `LegacyWire` | for every message the table of fields that its `MarshalToSizedBuffer`, its `Size` and its `Unmarshal` have |
| `WireFormat` | all messages on their way through the codec, and the store migrations to versions 3 and 4 |
| `MCWireFormat` | the messages and old records that are tried |
| `WireFormatProofs` | proofs: all the properties of the wire format |

### WasmKeeper

`kv` is the store as the running message sees it, a record with one field per
key space of `types/keys.go`.  `stack` holds the open calls; each entry has the
store it started from, the accounts whose messages it may deliver and the policy
that `WithSubMsgAuthzPolicy` put in the context.  The first entry is the
transaction, or an executed proposal, whose signer is the authority.
`position` is `AbsoluteTxPosition`; user transactions advance it, proposals at
the end of a block share it.  `vmCodes` and `vmPinned` are wasmvm's files and
its pinned cache: they are not part of the store, and no action but `Restart`
resets the cache.

Each message of `msg_server.go` is one action that does all that the keeper does
for it: `Instantiate` takes the address, writes contract info, history, both
indexes and the port, and pushes the call whose sub-messages are dispatched
next.  A contract may deliver any message it can sign.  `Return`, `FailCall` and
`AbortTx` end calls.  A message that returns an error early has changed nothing,
so there is no action for it; a message that fails after it wrote is the action
followed by `FailCall` or `AbortTx`.

Addresses are the data they are hashed from (hashing is taken to be injective).
Byte code is its checksum, with the two facts `AnalyzeCode` reports: IBC entry
points and the migrate version.  Left out: funds sent along, account clean-up
(`CleanupExistingAccount`), the contracts' own key-value state, extensions,
gas.  Transactions in which an account acts for another (authz `MsgExec`,
interchain accounts) are not modelled, so "signed" below means the message's own
signer.

### MessageDispatcher

`frames` is the Go call stack: one frame for a message being executed ("call"),
one for a reply being run in its contract's context ("reply").  `caches` are
the stores: each call writes to a cache of its own, which `commit()` merges into
the one below.  `meters` are the gas meters: a limited meter per limited
message and an infinite one per gasless contract.  `control` says what the top
frame does next.  A run of a contract may use any cost in `Costs`, write, fail, or
return up to `MaxMessages` messages; its writes and its events are represented
by its number.  `calls` and `spent` record what happened and guide nothing.

Gas: `consumeRuntimeGas` treats reaching the limit as running out.  A gasless
contract runs on an infinite meter, but `execute` opens its store before the
meter is replaced, so that loading it and its storage accesses use the
caller's meter; running out there is an error of the VM and no panic
(`RunGasless`).  Charging a limited message to its caller can then run out
itself, inside of the deferred function (`Overcharged`).

Response data, redaction of errors and the filtering of event types are left
out: they change nothing else.

### TokenFactory

`admin` and `creators` are the module's two key spaces (`types/keys.go`);
`metadata`, `supply` and `balances` are the bank module's state, modelled from
how the keeper uses it.  A denomination is the pair of creator and
subdenomination that `GetTokenDenom` joins.  A missing authority record is read as
the empty admin (`GetAuthorityMetadata` unmarshals nothing), hence one value
`None` for both.  Each message is one action; `PerformX` is the custom message
of `bindings/message_plugin.go` a contract can send instead.  The coins of a
mint or a burn pass through the module account inside of one action, so a
handler that forgot them there would show.  `ExportImport` is a chain export and
start from it; the bank module's genesis comes first, which is why
`ImportedMetadata` overwrites.  `BankSend` and `FundCommunityPool` stand for the
other modules' messages that move coins; the second is how a blocked account
comes to hold any.

`sender` and `recipient` record who sent the last message and for whom it asked
to mint; no guard reads them.  Left out: the format of names (`Subdenoms` holds
valid ones), gas for creation, parameter changes, spelling of addresses.

### WasmGenesis

`ExportImport` stops the chain between transactions and starts a new one from
the file on an empty store and an empty wasmvm.  `ExportGenesis` has what the
file has: no index, no gasless contract.  `CanExport` and `CanImport` are the
errors and panics on the way, so that `ImportSucceeds` says they do not happen,
and `InitGenesis` is the store that is built.  The ports come back with the IBC
modules.  The chain goes on at the next height or at zero, which is why
`position` may go back.

### WasmIBC

`chain[c]` has the state of the core (channel ends, commitments, receipts,
acknowledgements), of `x/wasm` (capabilities and the packets of
`StoreAsyncAckPacket`) and of the contract (what it processed and what it was
told).  Each message of the relayer is one action: the core's checks and the
module's callback, in the order of ibc-go (the channel is written before
`OnChanOpenAck` and `OnChanOpenConfirm` are called, and closed after the close
callbacks; a packet's receipt is written first, and what the callback did is
dropped when the acknowledgement is an error).  A callback that fails fails the
transaction, and there is no step for it: the relayer can submit it again.
Proofs of the other chain may be of an older height, which is why
`ChanOpenTry` asks for an end that once was in INIT.

A contract answers every call as it likes: an error, or one message, which is
dispatched with the response.  Sub-messages of sub-messages are the matter of
`MessageDispatcher`.  `applied`, `emitted`, `connected`, `told`, `refused` and
`sent` record what happened and guide nothing but the numbering of packets.

### ContractGrants

`authz` and `codeAuthz` are what the authz keeper of the SDK holds for one
granter and one grantee.  The keeper asks the authorization about each message
of a `MsgExec`, saves the updated one and then runs the message; the `MsgExec`
is all or nothing.  The grantee may be a contract that the message calls, so that
the next `MsgExec` comes before the first has ended: `stack` holds those under
way, with the state each falls back to.  `book` records for each grant what the
granter gave and what was used; it is rolled back with the rest.  A limit or a
filter is a record with its kind; JSON payloads are model values with their
top level keys.  `EqualFold` on the hash of a code is modelled as equality.

### Codec, Protobuf and WireFormat

The generated files repeat the same code for each message and field.
`Codec` has that code once, and the tables have what differs: for the
encoder the tag byte, field and kind in the order of the bytes, for `Size` field
and kind, for the decoder field number, field and kind.  Every table is read off
its own function, so that a disagreement between the three functions of a
message shows.  Integers are sequences of 7-bit groups, as on the wire, so that
64-bit values, negative enums and overlong varints fit; a length is exact up to
256 MB, and what does not fit a buffer of that size is cut to it (`MaxLength`).
Messages of other modules (coins, pages, `Any`) are one opaque field.

The functions of a message call those of the messages it embeds, which makes the
code recursive.  In `Codec` those are operator parameters (`InnerSize`,
`InnerUnmarshal` ...), and `Protobuf` instantiates it level upon level: `Flat`
for messages that embed none, then `One`, `Two` and `Top`.  No message of the
chain is nested more deeply; `TablesAgree` says so.  The loops of `Unmarshal`,
of `skipTypes` and over packed fields are functions of the number of rounds.  A
loop ends at the latest with the data, and what it has then does not change any
more, so that `Rounds` may look at any round in which it has ended (TLC looks at
an early one first).

`WireFormat` takes a message of any type, marshals it and reads the bytes as they
are or damaged.  `Migrate` is `Migrate3to4` for one record, in the bytes of the
old type; version 2 wrote its parameters with its own type
(`migrations/v2/store.go`), which are read as version 3's.

## 3. Runs

| Run | Shows | Bounds |
|---|---|---|
| `Registry` | history, indexes, ports, byte codes and addresses agree in the store and in every store a rollback restores; a sub-message needs the admin | 2 byte codes (one with IBC), 2 code ids, 1 contract at a classic or predictable address, 3 history entries, 2 transactions, calls nested 2 deep |
| `Authorization` | owners keep what they own in transactions they did not sign; permissions come from the authority | 2 users, both actions propagated |
| `Genesis` | any state can be exported and imported, again and again, and nothing but the gasless contracts is lost; governed state changes by the authority's own messages only | gov messages, calls and rollbacks between exports; 1 code, 1 contract, 2 history entries, 1 user transaction between two exports at height zero, any number of proposals |
| `PinnedCodes` | violation: see findings | 2 code ids of one byte code, pin and unpin |
| `Dispatch` | atomicity, events, replies, errors, gas; refinement of `NestedTx`; every metered transaction ends | 6 units of gas, costs 1 and 2, limits 2 and 3, 2 messages per response, depth 2: limited calls inside limited calls, refused depth, replies that dispatch again |
| `GaslessDispatch` | limits with gasless contracts | costs 1 and 4, limit 2, so that overruns and the overcharge happen; 5 runs |
| `Factory` | admins, supplies, balances and blocked module accounts are protected; registry and bank agree; export and import restore the registry | a user and a contract, a denomination each, at most 2 coins of each, one of them in the genesis with or without admin |
| `ContractMint` | violation: see findings | as `Factory`, without genesis denominations |
| `Wire` | size, encoder and decoder of every message agree; what is damaged is refused or stable; parts merge; the migration keeps access rights | all message types; of each the zero value, every field alone at its edges (empty, 128 bytes, 2^64-1, -1) and all fields together; every truncation; five values for every byte; unknown fields of each wire type |
| `IBC` | connected ends agree on ordering and version; effects match acknowledgements; the sender hears once | 2 channel ends per chain, both orderings; 2 versions, any of them or none proposed and answered on either side; 2 packets, or 1 when versions differ; close, timeout and late acknowledgement at any time |
| `ChannelRefusal` | violation: see findings | 1 channel end per chain, 1 packet |
| `Grants` | budgets hold; sanity checks stay idle; uploads as granted | 3 grants of every kind of limit and filter, 3 uses of each, 2 `MsgExec`s nested, 2 messages in each |

One contract and two code ids are enough for the registry properties, because
they are about one contract's records each, and the theorems of section 4 have
no bound at all; two users, because owner and stranger is the only distinction
the policies make.  `MaxCalls` bounds the number of runs in
`GaslessDispatch`, where gas does not; in `Dispatch` it is 10, while gas ends
every transaction after at most 9.  In `IBC` one chain proposes
channels and sends packets: packets in opposite directions share no state but
the channel end, and the proposing end is the one that may send while the other
is not open yet.  Two packets are what order and keys need.  No step
on a packet looks at a version, so that `VersionsOrPackets` does not go on from
a state with two versions and two packets; and no step tells one version from
another (`VersionSymmetry`).  Three grants are a list of two and its
replacement.  `Wire` alters and cuts samples of up to 60 bytes and the full one;
longer samples differ from those in a longer string only.

Fairness: `FairSpec` asks that an enabled step of the running transaction is
eventually taken.  The node executes a transaction in one goroutine without
waiting for anyone, so it either goes on or crashes; a crashed node replays the
block.  Termination does not hold for gasless contracts, whose replies cost
nothing and are not limited by the call depth: `Dispatch` leaves them out.  No
liveness is stated for IBC: a relayer may stop, and a contract may never
acknowledge.

### Findings

`PinnedMeansCached` states the comment of `IsPinnedCode`.  wasmvm's cache is
keyed by checksum: two code ids of one byte code are pinned, one is unpinned, and
the other is still marked as pinned while the cache has dropped it.  A rolled
back unpin has the same effect.  The code keeps working, but is charged as
pinned and loaded as unpinned, until the node restarts.

`MintDelivers` states what a contract is told by a mint that succeeds.
`PerformMint` mints to the contract, then wraps a nil error when the recipient
is blocked, and so reports success while the coins stay with the contract.

`ContractDecides` states `x/wasm/IBC.md`: the contract can decide whether it
accepts a channel.  `OnOpenChannel` returns an error of the VM, but a contract
that answers with an error of its own is taken to have no version of its own,
and the channel opens with the version that was proposed.  A contract
can still stop the channel at `OnConnectChannel`, whose errors count.

Further remarks, without a run:

- `MsgChangeAdmin` refuses the empty admin (`types/msgs.go:219`), as does the
  binding, while `x/tokenfactory/README.md:16` says it can be set.
- An import resets the bank metadata of every factory denomination;
  `PerformSetMetadata` asks for no capability, unlike the msg server (the
  application enables it); a force transfer may take coins from a module
  account, which no burn may.
- Gasless contracts and packets that wait for an acknowledgement are not
  exported.  `GenesisKeepsRegistry` says so of the first.
- `InitGenesis` means to "ensure next classic address is unused", but hands the
  next instance id to the generator as the code id, and so looks at one code's
  address only (`CanImport`).  The states an export reaches pass either check.
- `RemoveCodeUploadParamsAddresses` can leave an access config of no address,
  which `ValidateGenesis` refuses on the command line and `InitGenesis` does not.
- An upload without permission under a grant with one makes `CodeGrant.Accept`
  dereference nil; the base application turns the panic into an error (`Panics`).

## 4. Proofs

Every safety property that a passing run of section 3 checks is proved for all
values of the constants.  Each proof rests on the assumptions that the model
states about its constants (`ConstantsAssumption`, `FactoryAssumption`,
`GasAssumption`, `IBCAssumption`, `GrantsAssumption`, and for the wire format
the four named below) and on nothing else.  The assumptions are types, that
model values such as `Nil` differ from the values they stand beside, and facts
of the program: the authority is no user, a step costs gas, there are two
chains.  TLC evaluates them in every run.  The bounds are arbitrary numbers
there, so that no result depends on them.  The inductive invariants were checked
by TLC on the instances of the runs before they were proved, but for `GasInv`,
which says that a division of the gas exists.

The library's induction theorems take an operator as a parameter, which the
provers cannot instantiate.  Where an argument needs induction (sums over
meters, loops over bytes), it is on a set of natural numbers, from its least
element (`Least` and `Induction`, by the library's `WFMin`).

### WasmKeeperProofs

None of the properties of the run `Registry` is inductive alone.  A rollback
brings back an old store, so each must hold of every store on the stack and not
just of `kv`; `Inv` therefore says `StoreInv(s, ...)` of every `s` in `Stores`.
`StoreInv` collects what the properties need from one another: that code ids
are 1 up to the sequence (for ports after an upload), that classic addresses
have instance ids below the sequence (for fresh addresses), that the last
history entry is the code that runs (for the index entry that `migrate`
deletes).  `StackInv` has the policies and the depth.  Each store update
(`Created`, `Instantiated`, `Migrated` ...) has a lemma that it preserves
`StoreInv`; each action combines one of them with the push or pop of the stack.
This gives `TypeCorrect`, `IndexesCorrect`, `PortsCorrect`, `AddressFresh`,
`AddressesCorrect`, `CodesCorrect` and `EscalationCorrect`.

The second part is about who changes what.  `ChangesOwned` summarises what any
message about contracts or codes does to the store: which records it may change,
given its sender and the policy of its call, that it leaves governed state
alone, and that a history grows by at most an entry of the current transaction.
The lemma `MessageChanges` shows it message by message, `GovChanges` the same of
the messages that only the authority may send; the rest of the proofs know
messages through these two.  `OwnershipInv` adds to `Inv` that calls are
signed by the contract that runs, which is what carries `UnsignedUnchanged` and
`GovernedByAuthority` through nested calls (`OwnersCorrect`,
`GovernanceCorrect`).  The order of histories is an invariant of its own,
`OrderInv`, that positions in every store are ascending and not later than the
current one (`HistoryCorrect`).  It is kept apart because an import may set the
position back: the order of a history across an export at height zero is not
something the code promises.  `SubMessagesCorrect` is an action property: a step
that changes a contract's record and is delivered by a call was authorized by
that call's policy, which `StackInv` says is the default one or a partial gov
policy that propagates nothing but `Propagate`; without "migrate" in it,
`CanModifyContract` comes down to the admin being a signer.

The last part shows that `OwnershipInv` holds under `GenesisSpec` too
(`GenesisInvariance`).  `StoreInv` is then what makes an import possible: codes
and sequences fit, addresses are unused, ports can be bound (`GenesisCorrect`);
and because the indexes follow from the contracts, the import builds the very
store that was exported, but for the gasless flags (`GenesisRoundTrip`).

### TokenFactoryProofs

All the properties of the run `Factory`, the capabilities the chain enables
included: the run has all of them enabled, `HoldersProtected` says what each is
needed for.  The inductive invariant `Inv` is
`TypeOK`, `RegistryAgrees` and `ModuleEmpty` together: that only existing
denominations have an admin is why metadata appears for no others, which is
why `CreateDenom`, which looks at metadata, never resets an admin.  Lemmas say
what `Sent` and its compositions in mint and burn do to each balance; `CoinStep`
and `RegistryStep` collect what every action guarantees, so that the invariant
and the four action properties are proved action by action once (`NextSteps`).
`TransferStep` needs `ModuleEmpty`: a force transfer from the module account is
possible in principle, and fails because nothing is there.  That no supply goes
negative rests on the bank module's own panic in `BurnFrom`.

### ContractGrantsProofs

`WithinBudget` compares the book with the limits stored, which says nothing of a
grant while a `MsgExec` that used it may still be rolled back.  `GrantsInv`
states `Budget` of the current state and of every state on the stack: each
stored grant is in the book with exactly the rest (`Booked`), is stored once
(`Single`: otherwise a budget could be spent twice), and each entry of the book
is within its limit and is stored, used up or lapsed (`Accounted`).  `VerdictOK` is
the lemma about `Accept`: what a grant has left is its limit without the funds,
or nothing at all, never an empty limit; this is also why the sanity checks stay
idle.  `Shifted` says what `AcceptGrantedMessage` does to the list of grants:
one of them is updated in place or removed, and the others move up.

### WasmIBCProofs

`IBCInv` has two parts.  `Local` is about one chain: its ends, the packets it
sent and what their senders heard, the packets it received with their
acknowledgements, and the table of asynchronous ones.  `Fits` is about a chain
and its counterpart: which facts an end may rely on before the other end is
open, that what was received was sent, and that what a sender was told is true.
The last needs that a packet which timed out can never be received: it is
expired on the other chain for good, or the other end is closed for good.  Inside
of one step the contract is called with a receipt written and neither an
acknowledgement nor an asynchronous record; `Local` and `Pair` take the packets
in that state as a parameter (`pending`), so that the message a contract sends
from its callback is covered by the same lemmas as one outside of it.

### MessageDispatcherProofs, DispatcherEffectProofs

Every step of the dispatcher begins a run (`Pushes`) or ends one (`Pops`);
`StepCases` proves this action by action, and the invariants are proved of
pushes and pops.  `DispatchInv` has the shape of the stack (`Stack`: caches and
meters belong to frames, so that a pop restores the caller's), its agreement
with the records of runs (`Records`), and then what each property needs.
`Depths`: only a call that is being refused is beyond the limit.  `Excesses`:
a meter beyond its limit belongs to what is failing, so that
`gasRemaining` does not wrap around; this holds with gasless contracts, which
can exceed the caller's meters, too.  `Margins`: without gasless contracts a
limited message is given less than its caller has left.  `Answers` and
`Failures` speak of `Doomed` runs because a failure is recorded before it has
reached the caller.

`NestedCorrect` is the refinement.  A transaction of `NestedTx` is a call, its
saved state the union of the caches below it.  Beginning a call is `Enter` with
its first write, a reply is a write in the transaction of its contract; ending
a call is `Commit` or `Rollback`; ending a reply changes nothing there.

`EffectInv` is what makes `Atomic` and `EventsMatch` inductive: they are false
while a failure is on its way, and so cannot carry themselves across it.
`Caching` says that the caches from a call's own upward hold what was written
in that call, and nothing else; dropping the top one when the call fails thus
removes all of it and only it, however many replies and inner calls wrote
there.  `Written` and `Kept` state both directions of `Atomic` with the exception
of the failing run; `Emitted`, `Reporting` and `Ascending` state of the events
that each is held by one frame, the innermost that the run happened in, that
none is missing and that they are in order.

`GasInv` carries `FullyCharged` (`ChargesCorrect`).  The property compares what
was spent with the sum over the meters that the transaction pays for, and is not
inductive: a run that goes past a limit uses more than it is charged for, and
`dispatchMsgWithGasLimit` charges the whole limit instead.  `Shares` divides
what was spent among the meters: a part `p[i]` lies on meter `i`, is within what
that meter shows and within its limit, and is nothing under an infinite meter.
`Leaves` says that the caller of a limited message has room for all of its
limit, so that charging it moves the share of the limited meter down without
loss.  Without gasless contracts the share of a meter is all it shows, which
gives the equality (the run `Dispatch` has none; the inequality with them is
only proved); there `Emptied` is needed, that what ran out of gas used all of
its limit.  The sum of the property is the library's fold over a set, for which
`DispatcherEffectProofs` first proves its recursion and that sums over the first
`n` meters follow it.

### CodecProofs, WireFormatProofs

`CodecLaws` is about one level: if the messages that are embedded obey five
laws, so do those that embed them.  The laws are that the zero message is
neutral (`DefaultLaw`), that `Size` is the number of bytes that
`MarshalToSizedBuffer` writes (`SizeLaw`), that a merge of two messages is a
message (`MergeLaw`), that reading the bytes of a message into another one
merges the two (`UnmarshalLaw`), and that what `Unmarshal` accepts of any bytes
is a message of bounded size (`AcceptedLaw`).  The last one is needed for what
happens when a message that was accepted is stored: it may be longer than the
bytes it came from, since an embedded message that a peer left out is written
with its zero fields, and a negative enum of five bytes becomes ten; at most 64
bytes for each byte that was read, given that a zero message has at most 100.
`UnmarshalLaw` is an induction over the occurrences of fields: after those of
the first `k`, the loop stands at the end of their bytes with the message they
make (`Reached`).  `CutLaw`, `JoinLaw` and `ExtendLaw` use the same for bytes
that end early, go on with a second message, or have a field that is not known
before or after them.

`WireFormatProofs` applies `CodecLaws` to the four levels, from `Flat`, which
embeds nothing, up to `Top`.  `WireInv` says of each stage which bytes there
are; the properties follow from it by the laws of `Top`.  For
`MigrationKeepsAccess` it says that a migrated record has the bytes of the new
record made from the old one.  That this is also so when the migration runs
again is not obvious, since the new bytes are then read as the old type: a new
access config is written as the old one with the same fields and no address is
(`ConfigBytes`, `CodeInfoBytes`, `ParamsBytes`), and migrating that changes
nothing.

The assumptions are `TablesAgree` (fields and numbers of a message differ, its
tags are one byte and fit the kinds, the three tables have the same rows, zero
messages have at most 100 bytes, nesting is at most four levels),
`SamplesAssumption` (the messages have the types of their fields and are at most
`MaxMessage`, about 2 MB, long), `LegacyAssumption` (old records hold
permissions that their validation admits) and `MigrationAssumption` (the tables
of the records that are migrated are those of the code).  They are about the
generated files, and TLC evaluates them on all the tables.  `MaxMessage` keeps
lengths exact: what is read from two joined messages of that size is less than
256 MB when it is written again.  The messages, accounts and configurations are
otherwise arbitrary.

### Only model-checked

- `Termination` is liveness under fairness, which is out of the prover's reach.
- The three findings of section 3 are counterexamples; there is nothing to prove.

## 5. Plan

Every module of section 2 is there, with the runs of section 3 and the proofs of
section 4.  What could follow: a bound on the replies of gasless contracts, once
the code has one; and the precompiles, once the interfaces they rely on are in the
repository.

## 6. Not modelled

- Message encoders and queries translate or read, and keep no state.
- The gas register multiplies constants.  `MessageDispatcher` leaves the gas of
  every step open.  Its overflow test `x < source` in `ToWasmVMGas` does not
  recognise every overflow; the amounts it is given are far from them.
- Ante decorators, the snapshotter and the EVM precompiles are thin layers over
  dependencies (base application, snapshot manager, state database of the EVM)
  that are not in the repository and that decide about their behaviour.
- The callbacks of ADR-8 (`IBCSourceCallback`, `IBCDestinationCallback`): the
  application installs no middleware that calls them.
- Legacy proposals: no route is registered; their messages are in the wire format.
- Application wiring, command lines, simulations, HTTP gateway, and the
  descriptors and stubs of the generated files.

PROJECT.json lists every component with the reason.
