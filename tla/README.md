# go-fsm in TLA+

TLA+ models of `github.com/robbyt/go-fsm/v2`, the TLC runs that check them on
small instances, and TLAPS proofs of what the core promises for every instance.
The code is referred to by file and line; `PROJECT.json` maps each definition to
the lines it stands for.

## The system

| component | code | state | operations |
|---|---|---|---|
| transition table | `transitions/config.go` | the configuration and its index, fixed by `New` | `New`, `HasState`, `IsTransitionAllowed`, read-only views, `UnmarshalJSON` |
| machine | `fsm.go` | the current state (atomic), a `sync.RWMutex`, the callback executor | `Transition*`, `TransitionIfCurrentState*`, `SetState*`, lock-free readers |
| machine JSON | `json.go` | - | `MarshalJSON` (read lock), `NewFromJSON` |
| Subscribe | `fsm.go:425-489` | a `sync.Once`, the broadcast manager and the cached error | `Subscribe`, `GetStateChan` |
| hook registry | `hooks/registry.go` | the hooks by name, the index by transition, the wildcard lists, the next sequence number | `Register*Hook`, `RemoveHook`, `Clear`, `Execute*Hooks`, `GetHooks` |
| broadcast manager | `hooks/broadcast/manager.go` | a mutex, the subscriptions by channel (`sync.Map`) | `GetStateChan`, `UnsubscribeAll`, `Broadcast`, the `AfterFunc` cleanup |

How they interact.  A transition takes the machine's write lock, asks the table,
runs the registry's guards, stores the state and runs the registry's actions, all
before it unlocks.  `Subscribe` registers one wildcard action per machine that
broadcasts the new state, so a broadcast normally runs inside the write lock and
holds the manager's mutex as well.  Consumers are goroutines of the client that
read the subscribed channels.  Contexts end at any time, and their end runs a
cleanup goroutine.

What is hard.  Several goroutines call one machine; guards may fail or panic;
contexts end between any two steps; hooks run outside the registry's lock while
the registry changes; a broadcast sends from many goroutines, to channels that
may be full, to subscribers that may have left; `UnsubscribeAll` and the cleanups
compete with it.  `PROJECT.json` lists each hazard at its line with the
properties that cover it.

What makes each part correct:

- table: every target of a transition is itself a source; lookups answer from the validated index.
- machine: calls are linearizable; only the writer changes the state, and legally; hooks run in the state they are told; post-transition hooks miss nothing; the state stays defined; every call returns.
- registry: an execution calls exactly the matching hooks that were registered when it began, once, in registration order.
- manager: no send on a closed channel; one order for all; guaranteed delivery misses nothing; live subscriptions stay registered, ended ones leave; only a live guaranteed subscriber can hold up a broadcast.

## Modules

`Transitions` holds the table as pure operators: `BuildIndex` and `Accepts` are
`buildIndex` and `New`, with the errors as predicates.  A name is a model value
and is either valid or not; the order and repetition of targets is left out,
since no lookup tells them apart.

`RWMutex` is Go's `sync.RWMutex` (external): a writer announces itself, waits
for the readers inside to leave, and new readers wait for it.

`Machine` extends both.  Each goroutine has a program counter in its call:

| step | code |
|---|---|
| `CheckContext` | `SetStateWithContext`, before the lock |
| `Lock`, `EnterLock`, `Unlock` | the write lock |
| `ForceState` | `SetStateWithContext`, under the lock |
| `CheckTransition` | the comparison of `TransitionIfCurrentState`, then the context and table checks of `transition` |
| `RunPreTransitionHooks`, `StoreState`, `RunPostTransitionHooks` | the rest of `transition` |
| `RLock`, `ReadState`, `RUnlock` | `MarshalJSON` |

A run of hooks is one step that takes time: everything another goroutine can do
meanwhile can happen between the steps around it.  Guards accept or fail (an
error and a panic look the same from here).  Hooks are assumed not to call the
locking methods of their own machine, as the code's comments ask.  `EndContext`
may end a context at any time.  The history variable `observed` is the last
"to" that post-transition hooks were told.

`AtomicMachine` is what callers rely on: each call takes effect or fails in one
step, and an error is true of the moment it is decided.

`Broadcast` is the manager.  `m.mu` is held across steps by a broadcast only;
every other critical section is one step that needs the mutex free.  A sent
value is the number of its broadcast.  `sent[c]` is all that was ever sent to a
channel and `taken[c]` how much was received, so the buffer is their difference;
a consumer blocked in a receive makes room for one more, which gives unbuffered
channels their rendezvous.  The first pass of `UnsubscribeAll` follows
`sync.Map.Range`: channels registered throughout are visited once, others may be
visited or not.  One `UnsubscribeAll` is under way at a time, although the
code allows more: another one would end subscriptions as a cancelled context does
and remove only those that it ends, so no property depends on it.  A subscription's context is cancelled by its owner, by
`UnsubscribeAll`, or was over when `GetStateChan` was called.

`Subscription` extends `Broadcast` with what `Subscribe` adds: the machine's
`RWMutex` (an instance), the changes that goroutines make under its write lock
and that end with a broadcast, the `sync.Once`, the broadcast hook in the
registry, and the initial send under the read lock.  The state is represented by
the number of the change that stored it.  What uses the machine is a `program`,
fixed in the initial state: which Subscribe calls are made, which goroutines
change the state and how often, which transition another machine on the registry
(and so run this machine's hook without this machine's lock), and whether the
hook is taken out again.

| step | code |
|---|---|
| `SetUp` | the checks and `stateChanSetup.Do` (`fsm.go:425-456`) |
| `RequestRead`, `ReleaseReader` | the read lock |
| `SubscribeChannel`, `WatchContext` | `GetStateChan` of the manager |
| `SendCurrentState`, `AbandonSend` | the `select` of the initial send |
| `Announce`, `Store`, `RunHooks`, `ReleaseWriter` | a change of the state, from lock to unlock |

`SharedRegistry` has many machines on one registry and looks at the names of
their hooks only, which are made from addresses.  A machine may be collected
while its hook stays registered, since the hook refers to the manager and not to
the machine.  The registry was created with a table or without one (`table`, fixed
in the initial state); without one it takes no hook for all transitions, and
`Subscribe` fails.

`TransitionTable` puts the table on the heap: regions of maps and slices that the
caller, the table and a copy refer to, so that a missing clone shows as a shared
slice.  `UnmarshalJSON` is two steps, one for each of its assignments; the index is
built before the first of them and kept in `pending` until the second.

`Persistence` saves a machine and restores it, with the process ending at any
point in between.  `hooks` is what the registry has; it changes at any time,
`MarshalJSON` writes it into the document and `NewFromJSON` drops it, so that a
restored machine is given the state and the table of the document, and the hooks,
guards included, of whatever registry its options name.  `Coerce` is what encoding and decoding make of a name; names
that become equal are the reason why `Encodings` is a set.

`HookRegistry` is the registry with its two kinds of slices, the merge by
sequence number and executions that run from a snapshot.  Calls that return an
error change nothing and are not steps.  `HookList` is its abstract form: one
list in registration order.

`HookSlices` takes one of these slices apart into arrays and headers, to see
which elements `append` and `removeFrom` write to while executions read theirs
without the lock.  It implements `HookList` as well.

The modules named `MC...` give the constants values; `SharedRegistry` and
`HookSlices` need none.  Definitions commented "Seeded fault" are variants of an
action with a plausible bug; no specification uses them, and each property fails
when its variant takes the place of the action.

## Runs

| run | instance | shows |
|---|---|---|
| `machine_safety` | 2 goroutines, every call on 3 defined and 1 undefined name, table with a cycle, a self-loop and a terminal state | types, `StateDefined`, `HooksSeeCurrentState`, `PostHooksFollowEveryChange`, `MarshalReadsStableState`, `ChangesAreLegal` |
| `machine_returns` | 3 goroutines, 4 calls, fair | the inductive invariant `Inv`, `ImplementsAtomicMachine`, `EveryCallReturns` |
| `registry` | 3 names, 4 pairs of pattern lists, 1 execution at a time, 3 registrations between Clears | types, `IndexMatchesHooks`, `SequenceNumbersOrderHooks`, `ImplementsHookList` |
| `broadcast_safety` | 2 subscriptions, 3 modes, own and custom channels, 2 broadcasters, 2 broadcasts, 1 `UnsubscribeAll` | `NoUseOfClosedChannel`, `SameOrderEverywhere`, `GuaranteedDelivery`, `LiveChannelStaysRegistered` |
| `broadcast_returns` | 2 subscriptions, unbuffered channels, blocking modes, 1 broadcast, 1 `UnsubscribeAll`, fair | `EndedSubscriptionsLeave`, `OnlyLiveSubscribersBlock`, `UnsubscribeAllReturns` |
| `registry_slices` | 3 hooks, 1 execution, 3 arrays of capacity 3 at most | types, `SnapshotsStable`, `ImplementsHookList` |
| `subscribe` | 3 programs (below), a channel of capacity 1 and an unbuffered one, 3 modes, fair | types, `InitialStateFirst`, `StatesArriveInOrder`, `HearsEveryChange`, `OnlyLiveSubscribersBlockMachine`, `FailedSubscribeLeavesNothing` |
| `shared_registry` | a registry with a table or without, 4 machines, 3 addresses that are used again | types, `FailuresComeFromReuse`, `NoRivalHooks` |
| `table_aliasing` | 2 states and a blank name, 6 maps, 2 writes of callers | types, `TableAgrees`, `ViewsAgree` |
| `persistence` | 6 names, two of which become a third and one is blank, 98 maps, 1 hook | types, `RestoreNeverFails`, `RestoredAllowsTheSame`, `RestoredSavesStateAndTable` |
| `channel_reuse` | a shared custom channel | violates `LiveChannelStaysRegistered` |
| `unsubscribe_blocked` | a subscription during `UnsubscribeAll` | violates `UnsubscribeAllNeverBlocked` |

The two violations are disagreements between comments and code:

- `removeLocked` (`manager.go:243`) deletes by channel.  If a channel is
  subscribed again, the cleanup of the subscription that ended removes the entry
  of the one that is live, and the promise of `fsm.go:371` (all future
  transitions until the context is cancelled) is broken.  With channels that are
  not shared the property holds (`broadcast_safety`).
- `UnsubscribeAll` (`manager.go:138`) says a parked broadcast is released rather
  than waited on.  That is so for the subscriptions it finds
  (`UnsubscribeAllReturns`); one that is stored between its first pass and the
  mutex, with guaranteed delivery and no reader, blocks it.

Other comments do not hold as they stand, or hold under a condition, which is part
of the property that the passing run checks.  The properties leave out what the
code does outside the condition; none of them would notice it:

- `Subscribe` (`fsm.go:378`) says that hook names are unique to each machine, so
  that machines may share a registry without `Subscribe` failing.  The names
  (`fsm.go:447`) are unique among live machines (`NoRivalHooks`) and not over time:
  the hook of a machine that was collected stays, and a machine allocated at its
  address can never subscribe.  On a registry with a table there is no other way to
  fail (`FailuresComeFromReuse`).
- `Subscribe` (`fsm.go:458`) says that no transition can broadcast between the
  registration and the initial send.  That is so for the machine's own
  transitions; those of another machine on the registry run the same hook under
  another lock.  `InitialStateFirst`, `StatesArriveInOrder` and `HearsEveryChange`
  are about the machine's own states, among which others may come anywhere.
- `transitionDB` (`fsm.go:58`) says that the index of a `Config` is built once and
  never mutated.  `UnmarshalJSON` (`config.go:161`) replaces that of a table in use,
  in a second assignment after that of the configuration.  `TableAgrees` and
  `ViewsAgree` hold outside the window between the two.
- The `sync.Once` (`fsm.go:439`) registers the hook at most once.  Once the
  client has removed it, with `RemoveHook` or `Clear`, later calls of `Subscribe`
  succeed and their channels are sent nothing after the initial state:
  `HearsEveryChange` excludes it.
- `MarshalJSON` (`json.go:79`) says that it serializes all transitions.  State
  names that are not UTF-8 are changed by `encoding/json`, and two of them may
  become one.  What is saved can always be restored, and `RestoredAllowsTheSame`
  is about the names that are kept apart.  A machine that is restored and saved
  again writes the same state and transitions (`RestoredSavesStateAndTable`); the
  document as a whole differs when hooks had been registered
  (`TestFSM_JSONWithHooks`).

Bounds.  Two goroutines are enough for every pairwise interleaving of two calls
and three for a waiting writer between readers; the table has each shape of
source.  One execution is enough for the registry since executions only read it.
Two broadcasts are needed for order and two subscriptions for a late one;
`MaxBroadcasts`, `MaxUnsubscribe` and `MaxSeq` bound the counters, and a program
how many changes there are.  The programs of `subscribe` are two Subscribe calls
beside one change and a client that may take the hook out; one call beside a
change and, at the same time, a transition of another machine; one call beside
two changes by two goroutines.  The runs of `Broadcast` and `Subscription` do not
check deadlock: when every subscription and change of the instance is used up the
system stops.  In `HookSlices` one
execution is enough, since executions write nothing, and an array of capacity 3
can be full, have room, and lose an element from either end or the middle.  Four
machines at three addresses let a hook outlive two others at its address.  In
`TransitionTable` one write suffices to part a shared slice from the index;
`MaxWrites` is 2 so that a second one may hide the first.  In `Persistence` one hook
is enough, for a document with hooks and one without.  Symmetry is used
for the safety runs only.  `registry` has a table (`HasTable = TRUE`); without one
the registry accepts fewer patterns.

Fairness.  A goroutine that can run does (weak fairness of each step).  A Go
mutex gives itself to a goroutine that has waited for a millisecond, and so does
the writers' mutex inside the `RWMutex`: strong fairness of the steps that
acquire one.  A timeout passes.  Clients owe nothing: they need not call, cancel
or receive.  `EndedSubscriptionsLeave` and `OnlyLiveSubscribersBlock` state what
they need of consumers as a premise, and so do `OnlyLiveSubscribersBlockMachine`
and `FailedSubscribeLeavesNothing`.  Writers get into the `RWMutex` by weak
fairness there: a waiting writer stops new readers.

## Proofs

`MachineProofs` proves, for any set of goroutines, any accepted table and any set
of calls, that `Inv` is invariant and with it `TypeOK`, `StateDefined`,
`HooksSeeCurrentState`, `PostHooksFollowEveryChange`, `MarshalReadsStableState`
and the action property `ChangesAreLegal`.  None of these is inductive alone.
`LockInv` ties the steps of each goroutine to its place in the `RWMutex`, so that
the writer is alone with the state; `CheckedInv` keeps what a writer found at its
checks until it stores; `CallInv` says which steps belong to which call.  The
lemmas `NextTypeOK`, `NextLockInv`, `NextStateInv` and `NextCallInv` take the
actions one by one.  The one fact needed of the table is `TargetsDefined`, which
follows from what `New` accepts.

It also proves that `Machine` implements `AtomicMachine` (`Refinement`): a change is mapped to the store, a failure to the check that
finds it, everything else to a stutter.

`BroadcastProofs` proves all five safety properties of `Broadcast`, for any
subscriptions, channels, broadcasters and bounds.  The invariant says where each
subscription is in its life (its channel is closed only when it has been
removed), that a parked send belongs to the broadcast inside the mutex and that
what a channel was sent ends below what is still to come; `LiveChannelStaysRegistered`
and `GuaranteedDelivery` need it to be the only user of its channel
(`SharedChans = {}`), as the violation shows.

`SharedRegistryProofs`, `TransitionTableProofs` and `PersistenceProofs` prove every
property that the passing runs of their modules check.  For the table the
invariant is that no map of a caller refers to a slice of the table.  For the
saved document it is that it is one of the encodings of the saved machine; that
New accepts it follows because `Coerce` takes states to states and valid names to
valid names.  `ViewsOfAccepted` in `TransitionTableProofs` says that on an accepted
table the Machine's listings agree with those of the table.

`SubscriptionProofs` proves the safety properties of `Subscribe`, for any clients,
channels, modes and programs: `SubscribeTypeOK`, `InitialStateFirst`,
`StatesArriveInOrder` and `HearsEveryChange`.  The invariant has two parts.  `Base`
is the machine's lock: a change and an initial send exclude each other, and a
broadcast inside the manager's mutex belongs to the change that has the lock or to
another machine.  `HeardInv` follows one subscriber: until its initial send it has
been sent no state of this machine, and after it the states it was sent are in
order; with guaranteed delivery they are all from the initial one to the current
one, or to the one before while a change is on its way.  The last three properties
take `OwnChannels` as hypothesis, that each channel is passed to one call of
`Subscribe`; a channel passed to two gets the
initial states of both, and is the case of `channel_reuse`.

`HookRegistryProofs` proves `IndexMatchesHooks`, `SequenceNumbersOrderHooks`, `TypeOK`
and the refinement of `HookList`.  Its invariant `RegistryInv` says of every slice
that it is in strict order of sequence numbers and holds the registered entries
that belong in it; the lemmas `AppendHolds` and `RemoveHolds` keep that through
`append` and `removeFrom`, and a slice in strict order has nothing twice
(`OrderedOnce`).  For the merge of an execution, and for the list that the
refinement maps to, one has to know that a set of entries can be sorted at all.
That is an induction over sets, which the provers cannot do; `OrderInv` has it as
an invariant instead.  Every set of registered entries is held by some sequence in
strict order: a registration appends to it, since its number is above all others,
and a removal leaves fewer sets.  `Sorted` then says that the order found by
counting is that sequence, `PlanHolds` that an execution's plan holds exactly the
entries called for, and `BeginRefines` that they are those due in the list.

`HookSlicesProofs` proves `SnapshotsStable`.  The registry writes to a new array
or behind the last element of its own header, so it is enough that no execution
has a longer header into the registry's array (`NoLongerHeader`), which holds
because removal never shortens a header in place.  From it follows that the slice
implements `HookList` too (`Refinement`): what an execution has yet to read is what
the history says it took (`RunningIs`), so a registration or removal during it is a
step of the list alone.

Assumptions: the values that stand for "none" are outside the sets they are told
apart from, a machine's configuration is one `New` accepts, calls are records of
the machine's operations, the sets of subscriptions and of broadcasters are
finite and disjoint from the channels of clients where the modules say so, and
`Coerce` is idempotent and keeps names valid or not.

Only model-checked: liveness (`EveryCallReturns`, `EndedSubscriptionsLeave`,
`OnlyLiveSubscribersBlock`, `UnsubscribeAllReturns`, `OnlyLiveSubscribersBlockMachine`,
`FailedSubscribeLeavesNothing`), and that no reachable state of `Machine`, the
registry and the other systems that never stop is a deadlock.  Both need fairness
or `ENABLED`, which the proof system does not handle.  Every other property of a
passing run is a theorem.

## Not modelled

- Loggers, error texts, `String` methods: they change nothing the rest depends on.
- The sentinel errors and the predefined tables: constants.
- The example program: a client with a fixed sequence of calls.
- A hook that calls a locking method of its own machine: the goroutine waits for
  itself, and the documentation forbids it (`fsm.go:361`).
- The order in which `GetHooks`, and with it a saved document, lists the hooks: it
  is that of a Go map, and nothing reads the list back.
- A data race between `UnmarshalJSON` and lookups: `TransitionTable` has the two
  assignments apart, and states its properties for the time when both are made.
