# LuaJITMT: models, checks and proofs

LuaJITMT is LuaJIT with real threads: several OS threads run Lua in one
process, with a concurrent collector (GC2), and almost all the coordination
between them is lock-free C. This directory models that coordination in TLA+,
checks the models with TLC and proves their central theorems with TLAPS. All
paths below are relative to the root of the repository; the C code is in
`src/`, the design documents in `plan/`.

The specifications model *control*: each access to shared memory that another
thread can observe is a step. Lua values, masks of actions and bodies of thread
states are members of small sets. Every definition that stands for code is
listed in `PROJECT.json` ("map") with the lines it stands for.

## 1. The system

| Component | State it keeps | Operations | What is hard |
|---|---|---|---|
| TG slot token (`lj_tgslot.h`) | one 128-bit word: incarnation, lease count, state | claim, publish, detach, retire, abort, borrow, release, begin and finish reclaim | the word is read by halves and replaced by one exact CAS; keys outlive incarnations; counters at their limit |
| TG registry slot (`lj_tgregistry.h`) | the token and a second word (body pointer, incarnation) | the same, plus publish body, look up, read body, clear | no operation writes both words; a reader of the two may pin the slot as corrupt |
| Thread registry (`lj_tg.c`, `lj_thr.c`) | `tg_list`, flags, TLS bindings | attach, detach, reclaim dead | an attach or detach in the middle of a handshake |
| Channels (`lj_chan.c`) | ring of slots with sequence numbers, `enq`, `deq`, `closed` | send, receive, peek, close, with timeouts; rendezvous | a ticket is taken before the slot is filled or emptied; cancellation races receipt; close races both |
| Safepoints (`lj_safepoint.c`) | `hs_epoch`, `hs_actions`, `hs_pending`, `hs_leader`; per thread `reqmask`, `poll`, `hs_epoch_ack`, `in_native` | handshake, poll, native enter and leave, remote acknowledgement | who consumes a request, who applies it, who waits for whom |
| Universe token (`lj_universe.[ch]`) | 128-bit admission word with build, body and epoch words | build, enter, close, freeze, drain, seal, recycle, poison | multi-step close, a closer that fails between steps |
| GC2 tokens (`lj_gc2token.h`), mark words (`lj_markword.h`) | activation word, table descriptors and tokens, topology version, root descriptors, epoch-tagged bits | transitions, snapshots, claims | seqlock-style snapshots, epochs tagged into CAS words |
| Thread library (`lib_threading.c`, the gates in `lj_tg.c`, `lj_str.c`, `lj_gc.c`, `lib_os.c`) | `mt_live`, `mt_entering`, `mt_active`, `mt_shutdown`, three gate words; per thread its state, `start_ready`, `joined`, a node on the list of live threads; mutex word | spawn, release or abort of the start, join, attach, detach, shutdown, exclusive gates, lock | start against abort, enter against close, enter against a gate, two joiners |
| State ownership (`lj_thr.c`, `lj_state.c`, the thread traversal of `lj_gc2.c`) | owner word and GC preparation word of each `lua_State`; scan stamps, NEEDSCAN token and its aggregate | claim, GC scan claim, release, hand-off of a scan to the owner, preparation for destruction | a claimant against the collector, a hand-off to an owner who is leaving |
| GC2 collector (`lj_gc2.c`, `lj_gc.c`) | phase, grey queues, SSBs, weak and finalizer lists | start, mark, fixpoint, sweep, idle | the phase protocol around the handshakes |
| Arena allocator (`lj_arena.c`) | per-TG arenas, remote-free queues | allocate, free, recycle | a remote free against recycling |
| Tables, strings (`lj_tab.c`, `lj_str.c`) | nodes, resize descriptors, intern table | read, write, resize, intern | resize against concurrent readers |
| Traces and JIT (`lj_trace.c`, `lj_mcode.c`, ...) | trace slots, recording token | record, patch, retire | retirement against a thread inside a trace |
| Interpreter, parser, FFI, hooks, profiler, atomics | per thread, mostly upstream LuaJIT | | sequential, or one CAS publication |

How they interact: a thread that attaches claims and publishes a registry slot,
is linked into `tg_list` and from then on takes part in handshakes. A collector
that walks the registry borrows each slot before it looks at the body. The
collector and the hooks start handshakes; every handshake stops at each
thread's next poll, or acts for it while it is in native code. Blocking
operations (channels, joins, mutexes) enter native code for their waits, of at
most one millisecond each, and poll on the way back.

What makes each component correct: a slot never hosts a new body while a lease
on the old one is out, and old keys are inert; the two words of a registry slot
agree; a channel is a bounded FIFO queue that ends only when drained, and
rendezvous senders are told the truth; a handshake counts every thread exactly
once, applies its actions once, excludes the owner of roots it scans, and ends;
a `lua_State` has one authority over its stack at a time, a scan handed to an
owner is done, and a dead state is reused only when nobody comes back to it; the
two admission counters are exact, gates keep newcomers out, an aborted start
never runs, every OS thread is joined once, and `lua_close` ends. For the
components not modelled yet: a universe is not recycled under a transaction, a
descriptor snapshot is never torn, a freed cell is reused once.

The hazards are listed line by line in `PROJECT.json`.

## 2. Modules

| Module | What it is |
|---|---|
| `TGSlotToken` | constants, well-formed tokens, the table of legal replacements, the early returns (`Admits`) and the new word (`Target`) of each call. No variables. |
| `TGSlot` | clients running those calls on one slot: load hi, load lo, load hi again, decide, CAS. |
| `TGLifecycle` | the abstract specification: an incarnation, a phase and a set of lease holders. |
| `TGSlotTokenProofs` | lemmas about the tokens that calls install, used by the next two. |
| `TGSlotProofs` | the theorems about `TGSlot`. |
| `TGRegistry` | the token next to the body word, one step per read and per CAS. |
| `TGRegistryProofs` | the theorems about `TGRegistry`. |
| `Channel` | the ring of `lj_chan.c`, one step per access. |
| `ChannelQueue` | the abstract specification: a bounded queue with hand-over and withdrawal. |
| `ChannelProofs` | the theorems about `Channel`, its refinement of `ChannelQueue` included. |
| `Safepoint` | the handshake with polls, native regions, attach, detach and competing leaders. |
| `SafepointProofs` | the theorems about `Safepoint`. |
| `StateOwner` | one `lua_State`: its owner word, the scan of its stack by the collector or by its owner, the NEEDSCAN hand-off, and GC preparation. |
| `StateOwnerProofs` | the theorems about `StateOwner`. |
| `Threads` | one `global_State`: admission, spawn, worker, join, attach, detach, the exclusive gates and shutdown. |
| `ThreadsCountProofs` | the first half of the proofs about `Threads`: types, lifecycles and the two counters. |
| `ThreadsProofs` | the second half, and the theorems. |
| `MC...` | symmetry sets; the constants are in the `.cfg` files. |

Variables follow the C fields (`TGSlot!token` is the CX16 word,
`Channel!seq[s]` is `slot[s].seq`, `Safepoint!req[t]` is `reqmask`, and so on;
the declarations name them). Thread-local scratch (`snap`, `at`, `pos`, `fr`) is
reset when a call returns, because the C locals are dead then. `Channel!ledger`
and `Safepoint!applied` are history variables that no guard reads, except that
`SendStore` takes from the ledger the message its sender passed and
`SendStart` counts the messages accepted so far against its bound.
Operators whose comment begins with "Mutant" are plausible bugs; they stand in
front of the definition they would replace, no specification uses them, and for
each checked property one of them breaks it.

### Correspondence and abstractions

*TG slot.* `lj_tgslot_snapshot` reads hi, lo, hi and repeats until both reads of
hi agree. That does not make the pair atomic: state and count may return to the
same value around a change of incarnation. The comment in `lj_universe.h` (184)
says so of the same construction. The model has the three loads, so torn
snapshots occur; they are harmless because the CAS compares the whole word.
`MaxInc` stands for `UINT64_MAX`, `MaxLeases` for `LJ_TGSLOT_MAX_LEASES`. The
contract of the header is a guard of `Call`: only the claimer publishes,
aborts, detaches or retires its incarnation; a lease is returned once. A release
that loses its CAS tries again, as `lj_tgregistry_release_to_completion` does;
other calls return `LOST`.

*Registry.* Calls of `lj_tgslot.h` inside it are one step, at the CAS; the step
may also do nothing (refused or lost). The body snapshot is one read, because its
incarnation half only grows. `Detach`, `Retire` and `Release` take effect at
their CAS and are one step each. `Pin` is `lj_tgslot_try_pin` against the
snapshot the call took.

*Channel.* `lj_chan_init` chooses `cap` and `rendezvous` from one of the
`Capacities`, so a run covers several channels, and `ChannelQueue` has the bound
and the kind as constant variables. The code's memory order is acquire and release on single words; the
model is sequentially consistent. A wait is not a step: it lasts one
millisecond at most and the loop around it starts over, so a wait is the time
between two attempts, and a lost futex wake is a delay. In a rendezvous the
sender then polls `deq`, and may time out, see the channel closed, or throw on a
stop request. `ToldTrue` is `TakenAsSent` (what was received is what was sent)
and `MeetTruthful` (what a rendezvous sender was told is what happened).
`TakenAsSent` and `ImplementsQueue` say that what a receiver is
handed is the message of its ticket.

*Safepoint.* Masks of actions that occur together are one value
(`on`, `scan`, `owner`, `off`, `redispatch`), taken from `gc2_mark_begin`, the
root scans, `gc2_idle_barrier_actions` (without the generational mode) and the
hooks. In `Request` the phase is published and the handshake begins in one
step: what `lj_gc2.c` does in between touches no handshake state. Loads that the
code makes back to back and that decide one branch (`poll` and `reqmask` in
`AckNothing`, `flags` and `hs_epoch_ack` in `Signal`) are one step, and so are
the loads and the store of `poll` that they decide in `AckRestore` and
`ClearPoll`: both are the leader's, and only the leader publishes requests. For
that reason the store of `AckRestore` is never reached here: the duplicate that
its comment guards against would need a second signaler. The
code has full fences at the two places where store buffering would matter (after
`lj_tg_poll_rel` in `safepoint_signal_late` and on the way out of native code),
so sequential consistency is justified there. Waits of the leader and of
contenders have one-millisecond time limits and are loops; the wait of a thread
on its own poll word has none and is modelled with the futex's own check
("asleep").

An attaching thread is in native code until its claim of the Lua state succeeds.
`threading_worker_claim` polls there while the collector has the state
(`ClaimPoll`), and the thread stays in native code afterwards. When the claim fails
or a stop request is in, `threading_attach_cleanup` (`lib_threading.c` 2430-2434)
detaches the thread from there (`Detach` at `a_claim`): `lj_tg_detach` polls first
(`DetachPoll`), clears `in_native` next (`DetachNative`, 829) and sets DEAD last
(`DetachDead`, 866). A leader may therefore have chosen the thread as the target of
a remote acknowledgement before, and still be at it when the thread is gone.
`RemoteScanExclusive` says that this is the only exception. The comment in
`lj_safepoint.c` that calls a still-native TG "a stable owner-private snapshot"
(726) is not true of such a thread; the one about local polls that "retain native
depth during startup or detach" (434) is about the clearing of the poll word. An
ordinary detach starts from Lua.

A leader may wait in `safepoint_finish_prior_epoch` for an epoch it did not
publish (`LeaderPrior`). That wait is never taken: a leader leaves at `pending`
zero and nobody else publishes, which `Quiet` in the proofs states.

*State ownership.* The owner word is a pair of tid and actor, as in the code. The
collector is one thread of control, the holder of the worker token; which worker
carries it may differ from item to item, and the owner word records who. A
traversal of a stack is one step whose outcome is "complete" or "retry"
(an admission of a slot failed). `work` stands for the three places an item can
be in (SSB, grey deque, recovery plane): they differ in who pushes, and all of
them are empty before a phase closes. `Rediscover` is a root that leads to a
marked state; `Unreference` is the program: a state loses its last mark root, or
keeps a bare name in a callback slot or TG field that only
`state_gcprep_roots_absent` looks at. `NewCycle` covers both the start after a
sweep and the restart after a preserve root aborted MARK, where item and token
survive. TGs of owners stay alive here.

*Threads.* `Main` runs Lua from the start, takes the gates and closes; workers are
created by anybody who runs Lua; foreign threads attach and detach themselves.
Every access to a counter, gate or thread state that a decision hangs on is a
step. In `tg_reclaim_writer_try` the first of its three checks, the SMR word and
the conditions on workers and handshakes are left out: none of them looks at a
thread on its way in. The string gate is set before its checks, the other two
after a first round. A stop handshake is one step (`Safepoint` has its parts).
`arg` is the worker a thread spawns or joins, so no two spawners share a thread
object. Until its first count it is for the caller of `lj_threading_attach` to
know that `g` is alive; `Attach` asks for that.

## 3. What TLC checks

The runs of `StateOwner` and `Threads` do not check deadlock, because there the
system stops: the claims are used up or `g` is freed. All others do. `PROJECT.json` names for every property a mutated
definition that breaks it.

| Run | Instance | Question |
|---|---|---|
| `tgslot` | 2 clients, `MaxInc` 2, `MaxLeases` 2, fair | leases protect their incarnation (`LeaseHolds`), one owner (`OneOwner`), old keys are inert (`StaleKeyInert`), the lifecycle is implemented (`ImplementsLifecycle`), retired slots drain to the lease of their owner (`RetiredDrains`) |
| `tgregistry` | 3 threads, 1 body address, `MaxInc` 2, `MaxLeases` 3 | the two words agree (`BodyMatchesToken`), a borrowed body stays (`BorrowedBodyStable`), the body changes twice per incarnation (`BodyWrittenTwice`), no false pin (`PinnedOnlyForCause`) |
| `channel` | 2 senders, 2 receivers, capacity 2, at most 3 messages and tickets each | a bounded FIFO queue (`ImplementsQueue`), exclusive slots (`SlotExclusive`), a truthful end (`EndOfStream`) |
| `channel_live` | 1 sender, 1 receiver, 1 peeker, capacities 0 (1 message over several withdrawn tickets) and 2 (4 messages), fair | values are whole and senders told the truth (`ToldTrue`), the queue on both kinds, every ticket taken (`EveryTicketTaken`), no sender starves (`SendersServed`) |
| `safepoint` | 3 threads, one attaches or gives up, one may detach, `scan`, 1 handshake | `SlotsCounted`, `RemoteScanExclusive`, `TailArmed`, `GraceComplete` |
| `safepoint_live` | 2 threads, one attaches or gives up and may detach, `on`, `owner`, `redispatch`, 2 handshakes, fair | handshakes end and sleepers resume (`HandshakeEndsUnlessLost`, `SleepersResume`), unless a wake was lost or a request was handed back to a thread that gave up: findings 2 and 5 |
| `stateowner` | 2 mutators that claim twice and once, 2 workers, 2 cycles, fair | one authority over the stack (`OneAuthority`), the aggregate counts the token (`PendingExact`), a hand-off outlives no owner (`HandoffKept`), marking closes over no unscanned stack (`ClosureScanned`), reuse without a late visitor (`FreedUntouched`), hand-offs are worked off (`PendingDrains`) |
| `threads` | `Main`, 2 workers, 1 foreign thread that attaches once, fair | exact counters (`CountsExact`), gates exclude (`GateExclusive`), one join each (`JoinedOnce`), aborted starts never run (`AbortedNeverRuns`), whoever runs has been told to stop and the walk over the nodes meets nobody (`WorldStops`), `lua_close` ends (`CloseCompletes`) |
| `channel_one`, `safepoint_wake`, `threads_reclaim`, `threads_close` | the smallest instance that shows it | the findings of section 5: each checks one statement of the documentation or of a comment and is expected to fail |

Why the bounds are enough to be interesting. Two incarnations let a client be
delayed across a whole reuse, and the third claim runs into the limit
(`EXHAUSTED`). With two clients a lease count of two saturates, so `PINNED`
occurs; with three threads in the registry run a scanner, a reclaimer and an
owner interleave, and one body address is the worst case for a helper that
confuses two tenants. Four messages on two slots are two laps of the ring;
three per sender with two senders are three. A rendezvous uses one slot and
runs into finding 1 as soon as a second message is accepted, so that run
accepts one message over several withdrawn tickets. Three threads in a
handshake are a leader, a native thread that may detach and a newcomer; two
epochs are needed for a duplicate of an old request. The kinds are
shared out between the two runs, since a third thread and a second kind are more
than TLC finishes in minutes: `scan` scans roots remotely and is held to the
leader's tail, which is what the five invariants are about; `on` bounds traces
and makes a newcomer wait, `owner` ends a held scan before the tail, and
`redispatch` lets somebody other than the collector lead, which matters for
progress. `off` only sets the mirror; it is left to the proofs, which are about
all five, and so is the part of `GraceComplete` about mirrors. With a single sender `SendersServed` is about the full ring, and says nothing
of one sender starved by another.

A mutator that claims twice comes back to a state it has released while the
collector still acts on the first hand-off; the second mutator takes the state
over in between; the second cycle is there for stamps of an earlier one. Two
workers and one foreign thread give every pair of actors that meet in the thread
library: spawner and worker, two joiners, a joiner and the closer, an entrant and
a gate, and a worker that itself spawns. `MaxRelease`, `MaxCycle` and `MaxAttach`
bound `Enter`, `NewCycle` and `Attach`, nothing else.

`MaxEpoch` bounds requests in `Request`, nothing else. `MaxSends` and
`MaxTickets` bound senders only.

### Fairness

`TGSlot`: a call that was entered goes on. A client with a lease gets to call
release although it may always do something else (strong fairness): the guards in
`lj_gc2.c` release on scope exit. Nobody is assumed to reclaim:
`tg_reclaim_dead_admissible` (`lj_tg.c` 946-959) lets main do it only when it is
the one thread left, both admission counters are zero and no handshake is under
way, or at the terminal close. So `RetiredDrains` ends where the program can be
relied on: the leases of a retired slot are returned down to the one of its owner,
which only a reclaimer takes. That a release is not starved by competing CASes is
not assumed: once a slot is retired only releases change it, and there are
finitely many.

`Channel`: threads inside a call go on; senders and receivers attempt again, as
the loops of `lj_chan_send` and `lj_chan_recv` do. Nobody has to close, and no
timeout has to fire.

`Safepoint`: a call that was entered goes on; running Lua code reaches a poll
(the interpreter polls on back edges and calls); a remote scan that is refused
again and again by the reclaimer succeeds in the end (the reclaimer only tries).
A thread may stay in native code for ever.

`StateOwner`: calls go on; while a scan is pending the collector asks for root
scans again and again (`lj_gc2.c` 22785, 5944), so some owner gets to scan its
stack although owners come and go (strong fairness), and an admission of a stack
slot does not fail for ever. Owners need not let go.

`Threads`: calls go on; a thread that has been told to stop returns from its
function or detaches in the end (strong fairness: the stop request is thrown at
its next poll). A thread that has not been told may run for ever.

## 4. What is proved

`TGSlotProofs` proves for every finite set of clients and all positive
`MaxInc` and `MaxLeases` (the assumptions `TokenAssumption` and
`ClientsAssumption`):

- `SlotInvariant`: `Spec => []IInv`;
- `SlotTypeCorrect`, `SlotLeaseHolds`, `SlotOneOwner`: the invariants of the run;
- `SlotStaleKeyInert`: the action property about old keys;
- `SlotImplementsLifecycle`: `Spec` implements `TGLifecycle!Spec`.

`LeaseHolds` and `OneOwner` are not inductive alone. A CAS is justified by
what its client knew when it entered the call: that it owned the incarnation, or
held the lease, it passes as a key. `CallInv` says that this is still so at
every step of the call (nobody else can release my lease or retire my
incarnation), and that a snapshot that reached the CAS passed the early
returns. `IInv == TypeOK /\ LeaseHolds /\ OneOwner /\ CallInv` is inductive.
Nothing is assumed of a snapshot beyond its type, since it may be torn; the
argument at the CAS is that the word equals it at that moment. The proof has one
lemma per kind of step (`CallStep`, `LoadStep`, `LostStep`, `CasStep`) and one
lemma about the tokens that calls install (`TargetOf`). Cardinalities of the set of borrowers are
tied to the lease count with the theorems of `FiniteSetTheorems`.

For the refinement each successful CAS is mapped to the lifecycle action of its
operation (`CasIsLifecycleStep`); every other step stutters.

`StateOwnerProofs` proves every safety property of `StateOwner` for every finite
set of mutators, any set of workers and any bounds on cycles and claims
(`OwnerAssumption`: the special words are distinct and name no thread, and a
mutator is not a worker):

| Theorem | Property | Rests on |
|---|---|---|
| `OwnerAuthority` | `OneAuthority` | `AuthInv` |
| `PendingCounted` | `PendingExact` | `AuthInv`, `TokenInv` |
| `ReclaimSafe` | `FreedUntouched` | and `ReclaimInv` |
| `HandoffBacked` | `HandoffKept` | and `ScanInv` |
| `MarkingScans` | `ClosureScanned` (an action property) | and `ScanInv` |
| `TypeCorrect` | `TypeOK` | all of them and `ValueInv` |

The invariants are layers; each is inductive once the earlier ones are known:

- `AuthInv`: at most one thread works on L and the owner word names it, and a
  preparation goes none, pending, done. Every CAS of the owner word starts from
  a word that excludes the other parties, so this layer needs no other.
- `TokenInv`: at most one thread is installing the token, and the aggregate
  equals the threads between a token and its count plus the counted token. The
  owner's traversal resets the aggregate to zero, which is exact only because
  by `AuthInv` nobody else is between a token and its count.
- `ReclaimInv`: an owner scan marks L unless an activation is outstanding, and a
  state that is unmarked in SWEEP has no item, no token and no scan. CloseMark
  establishes that: with `pending = 0` and no owner scan, `TokenInv` leaves no
  token (`NoToken`). So a preparer that found no root is alone with L, and stays
  alone, because nothing leads to L any more.
- `ScanInv`: while L is being let go or is free, a counted token is backed by a
  work item or by the collector; a marked state is scanned for this cycle, or an
  item, a token or a scan is left. Marking cannot close over the latter.
- `ValueInv`: ranges of the words, stamps and counters. A counted token and the
  threads between a token and its count together never exceed the number of
  threads, because the collector is not among them (`TypeCorrect`).

Each layer was checked by TLC on the instance of the run `stateowner` before it
was proved. These proofs do not depend on the fairness of the run.

`TGRegistryProofs` proves every safety property of `TGRegistry` for any set of
threads, bodies and bounds (`RegistryInvariant`, then `RegistryTypeCorrect`,
`RegistryBodyMatches`, `RegistryBorrowSafe`, `RegistryBodyWritten`,
`RegistryPinned`). `BodyMatchesToken` relates two words that no step writes
together, so it is inductive only with what a thread between its two writes
knows: the publisher that its token is ATTACHING in its own incarnation, the
reclaimer that it alone works on a RECLAIMING one, a helper or scanner that what
it read of the body word is no newer than the word. That last part keeps a scan
from pinning a slot whose words it read around a reuse. The steps at the token
are the ones of `TGSlotToken`; `TGSlotTokenProofs` proves what each of them
installs, and with it `AdmittedIsValid`: no call that passed its early returns is
refused by the table of legal replacements, so that table is an assertion and
never a control path.

`ThreadsProofs` proves every safety property of `Threads` that its run checks, for
every finite set of workers and foreign threads and every bound on attaches:

| Theorem | Property | Rests on |
|---|---|---|
| `ThreadsCounted` | `CountsExact` | `Shapes`, `Lifecycle` |
| `ThreadsStartReleased` | `AbortedNeverRuns` | `Lifecycle` |
| `ThreadsTypeCorrect` | `TypeOK` | and `Bounded` |
| `ThreadsWorldStops` | `WorldStops` | and `Closing` |
| `ThreadsGateExclusive` | `GateExclusive` | and `Gated` |
| `ThreadsJoinedOnce` | `JoinedOnce` | and `Joining` |

`Shapes` says which variables a thread may have set at each of its steps.
`Lifecycle` ties a worker to its spawner until the release or the abort of its
start. `Bounded` counts: the place a spawner holds in `mt_live` for a worker not
born yet is held for a thread object nobody else has, so `mt_live` counts no
thread twice. `Closing` says that once `mt_shutdown` is set and the counters have
been seen at zero nobody comes back; `Gated`, that whoever counts itself in behind
a gate looks at the gate before it goes on; `Joining`, that the claim of `joined`
goes to one joiner. The counters are compared with cardinalities of sets of
threads; `ThreadsCountProofs` has one lemma per way a step moves a thread between
those sets.

`ChannelProofs` is in two parts. The first holds for every capacity, rendezvous
included:

| Theorem | Property |
|---|---|
| `ChannelInvariant` | the inductive invariant `IInv` |
| `ChannelTypeCorrect` | `TypeOK` |
| `ChannelEndOfStream` | `EndOfStream` (an action property) |
| `ChannelMeetTruthful` | `MeetTruthful`, the part of `ToldTrue` about senders |

`IInv` has the types, the count of tickets (`Budget`, `Numbered`), where the position
of a thread is at each of its steps (`Flow`), and the ownership of tickets
(`Truth`). The part that was not obvious is `SeqBound`. A receiver goes for
a ticket when it read `pos + 1` from the slot, without a look at `enq`; that there
is such a ticket, and so that `deq` never passes `enq`, needs that no slot is ahead
of `enq`. Freed slots are ahead of it, by up to a lap; but a freed slot reads as
the *first* of its next ticket, and with two slots or more that is never `pos + 1`
for a position of the same slot. With one slot a freed slot reads `enq` at most.

The second part is about rings of two slots or more, and its theorems say
`cap >= 2` in their statements; finding 1 is the reason. No other assumption is
made on the capacity.

| Theorem | Property |
|---|---|
| `ChannelRing` | the inductive invariant `RingInv` |
| `ChannelSlotExclusive` | `SlotExclusive` |
| `ChannelToldTrue` | `ToldTrue` |
| `ChannelImplementsQueue` | `ImplementsQueue`: the channel implements `ChannelQueue!Spec` |

`Ring` says what each thread may rely on: a sender with ticket `p` that its slot
reads `p`, a receiver with ticket `p` that it reads `p + 1` and holds the message
of `p`, and that a sequence number read before a CAS is still there or the
ticket is gone. All of it comes down to two facts of arithmetic: a position and
the one a lap later share a slot, two neighbours do not (`SameLap`, `NextSlot`); the
second is false with one slot. For the refinement, a CAS that wins a ticket is
`Put` or `Take`, the release of the slot by a receiver is `Hand`, every other step
stutters; since a receiver with a ticket is handed the message of its ticket before
and after each of its steps, the stuttering needs no look at the slots.

`ChannelAssumption` and `RoundingAssumption` are the assumptions on its constants.
The second says what `lj_chan_round_capacity` returns for the capacities in use: at
least the capacity, and one slot for a rendezvous. `RoundCapacity` chooses among
powers of two, which the provers cannot evaluate for a capacity they do not know;
TLC evaluates the assumption on every run, and `LJ_MAX_UDATA` keeps real capacities
far below the largest power.

`SafepointProofs` proves every safety property of `Safepoint` that its run checks,
for any number of threads and of epochs, any set of newcomers and of threads that
detach, and any of the five kinds of request (`SafepointAssumption`):

| Theorem | Property | Rests on |
|---|---|---|
| `SafepointInvariant` | the inductive invariant `IInv` | |
| `SafepointSlotsCounted` | `SlotsCounted` | `Shapes`, `Slots` |
| `SafepointTypeCorrect` | `TypeOK` | and `Current`, `Grace` |
| `SafepointGraceComplete` | `GraceComplete` | `Shapes`, `Slots`, `Current`, `Grace` |
| `SafepointRemoteScanExclusive` | `RemoteScanExclusive` | `Shapes`, `Slots`, `Current`, `Hold` |
| `SafepointTailArmed` | `TailArmed` | `Shapes`, `Slots`, `Current`, `Hold` |

`IInv == Shapes /\ Slots /\ Current /\ Grace /\ Hold`, and none of the five
properties is inductive without it:

- `Shapes` ties what a thread works at to its program counter: the target and the
  return address of its acknowledgement, who leads, who is linked and who is dead,
  who is in native code (`Natives`), and how far the leader's walk is. Two of its parts are about the request word of
  the thread the leader is at: between the look at it and the store
  (`sig_count`), and while the leader acknowledges on its behalf, nobody else can
  fill it, because only the leader publishes. The second is what keeps
  `safepoint_restore_counted_poll` and the requeue of a refused scan from
  overwriting a request.
- `Slots`: the counter is exact (`Counted`); it is zero outside the publication and
  in the tail (`Quiet`), so a new leader finds nothing to wait for; and the epochs
  published and asked for stay within the bound of the model (`Budget`).
  `TransferStep` is the core: every step leaves the slots alone, or moves one
  from a request word to the thread that consumed it, or back, or drops, adds or
  closes one. `CountedStep` turns that into cardinalities.
- `Current`: every request out and every mask consumed is the published one. At a
  publication that follows from `Counted` and `Quiet`, since with the counter at
  zero nothing is out (`Empty`); in between, because nothing else is published.
- `Grace`: per thread, the actions of an epoch are applied by who moved the
  acknowledged epoch, and only once (`Once`); an acknowledged epoch is applied or
  being applied; and from the leader's signal to the end a thread is dead, has
  acknowledged, has its request, or somebody consumed it and has yet to claim
  (`Done`). When the counter is zero only the first two are left, which is
  `GraceComplete`.
- `Hold`: nothing is under way for a thread before it is signaled (`Fresh`); its
  poll word is then set until it is released (`Armed`, `Polled`), a thread that
  consumed a held request waits (`Holds`), and the target of a remote
  acknowledgement has no request left, is stopped behind a set poll word, or has
  given up its attach and never comes to Lua (`Leaving`; together `Guarded`). `RemoteScanExclusive` needs that last part in exactly this form: the
  leader decides to help on a look at `in_native` that is stale when it acts, and
  what it finds in the request word tells it whether the thread was faster.

The proof of each part has one case for each action, or first reduces the actions to what
they write (`WritesStep`, `DepartsStep`, `ComesStep`, `Bystanders`) and then treats
the few that matter. TLC checked `IInv` on two threads with every kind and two
handshakes and on three threads, attach and detach included, before it was
proved. The actions of `Safepoint` decide by `IF` and disjunction and not by `CASE`
because the provers reason about those better.

Only model-checked, and why:

- liveness, all of it (`RetiredDrains`, `EveryTicketTaken`, `SendersServed`,
  `HandshakeEndsUnlessLost`, `SleepersResume`, `PendingDrains`,
  `CloseCompletes`): fairness and ENABLED are beyond this prover;
- rendezvous channels as queues (`channel_live` has them with a single accepted
  message, because of finding 1).

The properties of the four runs that expect a violation are false and have no
theorem.

## 5. Findings

1. *Capacity one* (`channel_one`). With one slot the sequence number `pos+1`
   means both "full for `pos`" and "free for `pos+1`". Once a receiver has
   advanced `deq` and before it loads the value, another send is admitted and
   overwrites the slot. `threading.channel(1)` and rendezvous channels are
   affected; larger rings are not (`channel`, `channel_live`).
2. *The lost wake* (`safepoint_wake`). A request republished between a waiter's
   look at its `reqmask` and its futex wait does not change the word the waiter
   sleeps on, and the wait has no timeout. `HandshakeEndsUnlessLost` shows
   that handshakes end otherwise, finding 5 apart.
3. *The reclaimer's recheck* (`threads_reclaim`). `tg_reclaim_writer_try` reads
   the number of threads, `mt_live` and `mt_entering` one after the other. A
   foreign thread that had passed its look at `tg_reclaiming` can link its TG
   behind the first read, count itself live behind the second and leave
   `mt_entering` before the third; its own recheck does not look at this gate. It
   is then in the world while dead TGs are unlinked. The other two gates are
   looked at again by the entrant, and `GateExclusive` holds for them although
   they read their counters in the same way.
4. *The last leaver* (`threads_close`). `threading_gc_leave` still works on `g`
   after the count to zero for which `lua_close` waits. For a worker the join of
   its node comes later; a foreign thread has none.

5. *The request nobody wants* (`RequeueReachesOwner` of `Safepoint`). A remote scan
   may be refused by the reclaimer (`lj_gc2_smr_read_try`, `lj_gc2.c` 9844);
   `safepoint_requeue_consumed` (`lj_safepoint.c` 339-349, called at 400 and 406)
   then puts the request back and leaves it to the owner: "it will consume this
   after closing native state". A thread that gives up its attach in native code
   does not: it may have set DEAD and retired its request word in the meantime.
   `safepoint_signal_late` (710) retires a DEAD thread on its behalf, the requeue
   does not, so `hs_pending` never reaches zero and the leader waits for ever. TLC
   shows it in seconds as a violation of this invariant with `N = 2`,
   `Newcomers = {2}`, `Kinds = {"scan"}`, `MaxEpoch = 1`, `MayDetach = {}`; none of
   the listed runs checks it. It needs an attach that fails (a stop request, a
   state that is not to be had) during a handshake with a root scan that is
   refused.

Two more observations, which the definitions `WorldHeld` and `MirrorsCurrent` of
`Safepoint` state and no run checks. `reqmask` is stored before `poll`, so a
thread that polls in between consumes its request and is not held afterwards,
although `safepoint_hold_poll_until_leader` says so (`WorldHeld` fails with two
threads, no newcomer and one `scan`); what does hold is `TailArmed`. And
`lj_tg_attach` adopts the phase before it is on the list the leader walks, so an
activation in between passes the newcomer by (`MirrorsCurrent` fails with one
newcomer and one `on`). The comment in `gc2_sweep_mt_exclusive_try` that an
entrant "cannot enter the VM" under the gate is true of admitted threads only: an
attaching thread links its TG and claims its state before it looks at this gate.

## 6. Not modelled

STOPREQ inside the handshake and its uncounted fresh edge (a sticky flag, re-armed
after the handshake; `Threads` has the handshake as one step), trace quiescence
and `jit_base`, allocator reset and restore, the generational idle mask; the
unlinking and freeing of dead TGs behind its gate; TLS and signal cells.
Of the state ownership: the cold release, the takeover from a dead owner, the TG
hint of a resume claim. Of the thread library: the mutex, the `__gc` of a thread
object, the transfer of results, failures of allocation, and
`lj_tg_reclaim_dead` inside `lua_close`. Of the collector: everything but the
traversal of one thread object. Further the allocator, tables, string table,
traces and the rest of the table in section 1. Upstream LuaJIT (compiler, interpreter, parser) is
sequential per thread and generated or vendored code is left alone. Positions of
a channel are unbounded naturals (`int64_t` differences are exact below 2^63),
and the rounding of absurd capacities is not checked.

## 7. Plan

In this order; each item ends with its runs, mutants and, where marked (P), theorems.

1. `GC2Activation`, `GC2TableToken`, `GC2RootDesc`, `MarkWord`: the words of
   `lj_gc2token.h` and `lj_markword.h`, with an abstract rescan set that the
   table descriptors implement. Two mutators, one collector. (P: no torn
   root-descriptor snapshot, no mark carried between epochs.)
2. `Universe`: build, admission, close and recycle; abstract specification:
   a resource with transactions, not recycled while one is out. (P)
3. `StateOwner` with owners that die, and its composition with `Threads`;
   STOPREQ in `Safepoint`; the mutex of the thread library.
4. Proofs for what items 1 to 3 add; and of a handshake that carries STOPREQ, that
   each thread is told once.
5. Trace quiescence and the JIT token; remote frees of the arena allocator;
   table resize; string interning; the rounding of capacities as an operator
   checked against a reference definition.
