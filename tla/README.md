# Verification of erlang_wasm

TLA+ models of the native file interface of this WebAssembly runtime, through which
every guest reaches the host's files, and of the parts of the runtime where several
processes share state without a lock, or where a process may be killed in the middle
of changing it. Each module is written from the C or Erlang source; `PROJECT.json`
maps every definition to the lines it models.

- [The system](#the-system): inventory of components, state, interactions
- [Plan](#plan): what is modelled, what comes next
- [The file NIF](#the-file-nif), [Ledger and Keeper](#ledger-and-keeper), [Wait](#wait),
  [HeapLease](#heaplease), [CodeSlots](#codeslots)
- [Runs](#runs), [Fairness](#fairness), [Proofs](#proofs), [Findings](#findings)
- [Not modelled](#not-modelled)

## The system

A WebAssembly module is decoded, validated and instantiated into memories,
tables, globals and an object store, and interpreted (`wasm_exec`) or run as
generated BEAM code (`wasm_jit`). The data lives outside the processes that run
guests, in `atomics` arrays, ETS tables and `persistent_term` cells, so that
instances can be linked and shared between processes. This makes most of the
hard behaviour: processes die with `exit(Pid, kill)` (the normal way to stop a
guest that takes too long), and no `after` clause runs.

`wasm_sup` starts `wasm_store`, `wasm_engine`, `wasm_keeper`, the code slots with
the compilers (`rest_for_one`), the module cache and the worker tree, each under
a supervisor of its own.

| Component | State | Operations | Hard behaviour | What makes it correct |
|---|---|---|---|---|
| Resource registry (`wasm_keeper`) | ETS rows: resource, pages, holders, ledger (charges, transaction, outcomes); ceilings; caches in the server | reserve, acquire, release, transfer, discard, reconcile, image rows, growth and arena transactions, DOWN, recovery | killed between two writes of one handler; holders and writers that die; replies lost with the server | counters equal rows; nothing reachable uncharged; a growth happens or not and its caller knows which; what the dead held is released |
| Page budget (`wasm_engine`) | one counter and a limit | reserve, release | counter and rows are separate writes | never below what the rows say |
| Memory (`wasm_memory`) | chunk tuple cell, size word, arena cell, page table | create, grow, extend arena, load, store | readers take size and chunks without a lock | the size is always backed by chunks |
| Wait and notify (`wasm_wait`) | rows of waiters, names of claimers, mailboxes | wait, notify | timeout against notify, kills between two ETS calls | one winner; both sides agree on it |
| Object store (`wasm_heap`) | objects, lease word, reader rows, collector mark, remembered set, pins | lease, unlease, try_exclusive, collect, reclaim, recount | collectors and readers race; both may be killed | a collector is alone; nobody waits for ever |
| Compiled tier (`wasm_code_slots`, `wasm_jit`) | sixteen module names, rows, call counters | reserve, publish, abort, lease, repair, purge | callers in code that is replaced; manager restart | no slot is reloaded under a caller; none is lost |
| Module cache | entries, compiling claims, waiters | load, claim, store, release | compiler killed, waiters, eviction | one compile, every waiter answered |
| Snapshots | owner process, holders, image rows, files | take, restore, acquire, release | owner leaves while a holder asks | image outlives its memories |
| Script workers | worker, guardian, runner; queue, waiters | run, cancel, await, restore ahead | deadline, cancel, death and result race | exactly one outcome per request |
| Request cleanup | reaper, manager, steward; ledger of operations | register, finish, retry, adopt, quarantine | reaper restart with operations in flight | every cleanup once, in order |
| Decode, validate, text format | none | pure functions | encodings at their limits, stack discipline | accepts exactly valid modules |
| Interpreter, numerics, limits | frames, stack, fuel | instructions | control stack, integer widths | agrees with the specification |
| Component model | resource tables, waitables, streams | lift, lower, lend, drop, wait | handles lent and dropped in calls | no handle used after drop |
| File NIF (`c_src/wasi_file_nif.c`) | handles: descriptor, lock, directory stream | open, read, write, stat, times, names, listing, dup, close, destructor | threads that share a handle, numbers that are reused, entries replaced during a walk, numbers and memory that run out | a handle is one file until it is closed; every descriptor is closed once; a path stays under its root; pages have no gaps |
| WASI, HTTP | descriptor table, sockets | host calls | renumber, close, reuse | rights kept |

Interactions: a guest's process calls the keeper synchronously for everything
that changes who holds what, and reads sizes, chunks and the store directly. The
keeper monitors holders and writers. An execution leases the object store and
the code slot it runs in. Workers run a guest in a process of its own, kill it at
the deadline and leave its scratch files to the reaper. `wasi_fs` calls the file NIF on
a dirty scheduler for each file operation of a guest; handles are terms, so any process
may have one, and the garbage collector closes those nobody has.

## Plan

Done: the registry with the page budget and the growth protocol, wait and notify,
the leases of the object store (these three with proofs), the slot pool of the
compiled tier, and the file NIF with the specification of handles that it implements.
Next, in this order:

1. `Cleanup`: reaper, manager and steward; each operation of a request is applied
   once and in order across reaper crashes, and ends done or quarantined.
2. `ScriptWorker`: worker, guardian and runner; one outcome per request.
3. `ModuleCache` with `SnapshotOwner`: one compile per hash, every waiter
   answered, an image has an owner while it has a holder.
4. The collector of `wasm_heap` (nursery as a range of ids, remembered set, pins)
   over a small object graph: what is reachable survives a minor collection.
   It composes with `HeapLease`, which gives it a store of its own.
5. Versioned caches of tables and instances; resource handles and waitables of the
   component model; the WASI descriptor table.
6. Pure algorithms against reference definitions: LEB128, the operand-stack checker
   of `wasm_validate_code` against structured control in `wasm_exec`, integer
   operations at their width, path resolution, page-table and arena geometry
   (`Ledger`) at larger sizes.

Theorems worth proving next are those of the modules above, from the start: every safety
property that the passing runs check is stated by a theorem, but for `ResolvesRight`.

## The file NIF

`c_src/wasi_file_nif.c` is the only native code of the runtime. It is modelled whole:

| Module | Models |
|---|---|
| `FileOps` | what `pread`, `pwrite`, `fstat`, `futimes`, `ftruncate`, `fsync` do to a file and answer |
| `Kernel` | external: descriptor numbers (the lowest free one is handed out), open file descriptions, a tree of files, `openat`, `renameat`, `getdents` and the others with the errors the code can meet |
| `FileHandle` | `file_handle`, `handle_lock`, `new_handle`, `file_dtor`, `dir_dup`, `open_dir_nif`, `dup_nif`, `close_nif` and the calls of `FileOps` |
| `PathWalk` | `walk_from`, `step`, `walk_parent`, `resolve_final`, `open_at_nif`, `path_op_nif`, `path_op2_nif` |
| `DirList` | `readdir_nif`, `readdir_names_nif` |
| `FileApi` | abstract: what a handle promises |
| `FileNif` | all of them together, other operating system processes, the properties |
| `FileNifInv` | the inductive invariants of the proofs |
| `FileNifProofs` | the theorems |

**State.** `handle` is the C structure with its lock, and whether the resource exists;
`file` is added to it, the file it was made for. `call[t]` holds the local variables of
the call a thread is in: the duplicates it walks from (`base`), the frames of the mutual
recursion of `walk_from` and `step` (`walk`), the parents it found (`got`), the number it
read from the handle under the lock (`num`). `todo` is what a thread has still to ask and
`last` what it was answered.

**Steps.** Every wait for a lock and every system call outside one is a step of its own.
Inside a lock there is one system call, except in `readdir_nif`, whose reads are steps
with the lock held. A component of a path is one `openat`; that the directory before it
is then closed, and that an error closes everything the call has opened, is part of the
same step: nobody but the caller uses those numbers. A link is two steps (`openat` fails,
then `readlinkat`), and so is a loop of `resolve_final`; what the tree is may change in
between. `Swap` is another process that replaces an entry. Numbers run out (`emfile`), and so does
memory where the code looks at it (`enomem`). `calm` holds the threads whose call nobody
has disturbed, for the properties that only then hold.

**Data.** A path is a sequence of components, a file its size and times, a read the file
it came from and how many bytes it got. The link budget (`MaxLinks`), path length
(`MaxPath`), chunk (`Chunk`) and header of an entry (`Hdr`) are constants.

**Properties.**

- `AtomicHandles` is `FileApi!Spec` under the mapping that forgets descriptors, locks and
  calls in progress: each call on a handle is one access, at one instant, to the file the
  handle was made for, until it is closed, and `ebadf` afterwards. A number that is closed
  by one thread and handed out to another would show as an access to the wrong file.
- `OneOwner`: each open number has exactly one owner that will close it.
- `Contained`: no directory in which a call looks a name up lies outside the directory
  the call was given, whatever is swapped between two steps. It is claimed while no
  directory is moved to another one (`moved`): a walk that is inside a directory moved
  upwards has counted more levels than there are, and the code has no answer to that.
- `ResolvesRight`: an undisturbed walk agrees with a definition by substitution of link
  texts (`Ref` in `MCFileNif`), for where it leads and for what it refuses.
- `WalkBounded`: a call holds a bounded number of descriptors however links nest.
- `PageExact`: an undisturbed page has the entries after its cookie that fit, in order, and
  of the next one what there is room for, so going on from a cookie skips and repeats none.
- `CallsReturn`: every call returns: each path out of a call gives its locks back. The tree of its
  run has no link that leads to itself; what ends a walk through those is `WalkBounded`.
- `Anchored`, `NamesWhole`: findings 3 and 4.

## Ledger and Keeper

`Ledger` has the arithmetic of pages, chunks and arena slots. `Keeper` is
`wasm_keeper` with the page counter of `wasm_engine` and the caller side of
`wasm_memory:create/4`, `grow/2` and `extend_arena/2`.

**State.** What outlives the server (`reg`, `caps`, `used`, `bytes`, `chunks`,
`size`, `arena`) is kept apart from what dies with it (`held`, `totals`, `images`,
`queued`, `writers`, `todo`). A row has pages, holders, the two physical charges,
the transaction in flight and the outcomes kept for callers that may ask again.
Data is abstracted: a memory is the length of its chunk and arena tuples and its
size word.

**Atomicity.** A handler is a sequence of writes to state that survives a kill, and
the server may be killed between any two. So the action of a handler does its
first write and leaves the rest on a stack, `todo`; the actions `InsertRow`,
`TxnRow`, `PublishChunks`, `PublishSize`, `Finish`, `ForgetMeta`, `DeleteRow`,
`GiveBack` and so on pop it. `Crash` empties the stack with the rest of the
server's state, and `Restart` puts `init/1` on it: retiring rows are finished,
transactions of dead writers settled, orphan images swept, counters reconciled.
No request is handled while the stack is not empty. One write is not a step of its own:
where `sub_total/3` deletes a ceiling, the deletion is part of the neighbouring write. A kill between
the two would leave a ceiling to a token that holds no pages, after the first keeper's life, of which
alone `CeilingHolds` speaks.

**Callers.** `cl[p]` is where a process is: creating, asking to begin, queued,
building chunks, committing, aborting, acknowledging. A call that is cut off by a
crash is made again with the same operation id (`wasm_memory:keeper/1`) or taken
for done, as in the code. A DOWN message is pending while the server monitors a
process that is dead; what the process sent before it died is handled first.

**Properties.** `SizeCovered`, `PublishedOnlyGrows`: a reader that takes the size and
then the chunks always finds enough of them. `PublishedCharged`: nothing
reachable is uncharged. `SizeAgrees`, `AnswerTrue`, `GrantKept`: a growth happens
once or not at all and its caller believes what happened. `BudgetCovers`,
`BudgetExact`: the counter is never below the rows and equals them between
requests. `CachesExact`: caches moved by deltas are what a restart would compute.
`ImageBacked`: an image outlives the memories over it. `CeilingHolds`: an instance
stays under its `max_memory_pages` while it holds a memory that was made with pages; with
none of them the code forgets the ceiling (see [Findings](#findings)). `GrowerAnswered`, `DeadReleased`: growers are
answered, the dead are released.

## Wait

`Wait` is `wasm_wait`: the rows of waiters, the rows that name a claimer, and the
mailboxes. Every ETS call, send and receive is one action; `pc` says where an
agent is in `wait/4` or `notify/3`. A lookup in the bag returns rows in the order
they were inserted, so references are numbered in that order. The value read by
`Read()` is a choice among equal, not equal and trap; a finite timeout may expire at
any moment. `Kill` ends an agent anywhere; its rows and names stay. `counted`,
`answer` and `saw` are history.

Properties: `OneWinner` (two notifiers never count one waiter), `AnswersAgree`
(waiter and notifier agree who won), `AwaitHasMail` (a receive without a timeout
has its message), `SweptAfterPark` (a wait that parked leaves no message behind), `LostOnlyToTheDead` (a notify passes over a
parked waiter only for a killed notifier's name), `TimedWaitReturns`. `SweptAfterPark` says nothing
of a wait that returns not-equal or traps after its row was in the table: a notifier that has claimed
the row by then sends to a process that no longer looks, and the message stays.

## HeapLease

`HeapLease` is the lease protocol of `wasm_heap` with the calls of
`wasm:invoke_at/6` around it. One unsigned word counts readers and has `Excl`
added while a collector has the store; rows say which process holds read leases,
and one row marks the collector. Every atomics and ETS call is one action.
`Patience` is the number of tries before a reader suspects the collector (16 in
the code). What collection does to objects is left out: `sweep` is the interval in
which it must be alone. `repaired` remembers whether `reclaim/2` or `settle/4` has
set the word.

Properties: `CountExact` (the word is the readers plus the collector, killed ones
included, until the first repair), `SweepAloneUnrepaired` (a collector is alone
until then, and nothing is claimed after: a reclaim that takes the store from a
collector that lives is a repair), `RowsLead` (rows cover counts, always), `RequestServed` (a requested
collection is not lost), `ReaderEnters` (readers get in if nobody is killed);
`ReclaimMatches` (the exchange of `reclaim/2` expects what the dead collector left) is
proved only. After a repair exclusion can fail: see [Findings](#findings).

## CodeSlots

`CodeSlots` is the pool of `wasm_code_slots`, the compilers and the call path of
`wasm_jit`, and the stamp that code generated by `wasm_core` asks of its caller.

**State.** `tab` is the table of rows (generation, state, key, leases), which outlives
the manager; `ctr` the atomics counter of each slot, in which callers are ones and
the manager's exclusive hold is `Excl`; `mon`, `refs` and `spent` what the manager
keeps in its own state and loses with it. `hold` is the claim it is handling, `due` a row it has
written whose exclusive hold it has still to give back, `boot` the rows `init/1` has still to go
through. `calls` is its mailbox: a sender has one
call at a time, and a call is handled though its sender is dead. `cslot` is the slot
an instance has adopted, `want` the generation a caller was answered, `ver` whether
it runs the current or the old code of the slot.

**Actions.** `claim_loading/3` that finds no slot with the key is several steps
(`ClaimMissing`, `TakeExclusive`, `Repair`, `Refuse`, `Reserve`, `NoSlot`), because
callers move the counter between them. `Publish`, `Abort` and the `Down` of a compiler write a row,
and `EndHold` gives the exclusive hold back after it and answers; `Release`, `Acquire` and `GiveBack`
change only what is the manager's own and are one step each. `Restart`, at any of these steps, loses
mailbox and monitors; then `init/1` frees the slots that were loading or held one by one
(`FreeRow`, `EndHold`) and `Serve` begins to answer. A compiler goes from `Start` through `Admit` or `Hit`, `Load`, `Loaded` and
`Adopt`, or leaves by `Unclaim` and `Leave`; a caller takes the counter (`Take`), looks
at the row when its module has no content hash (`Check`), enters (`Invoke`), may fall
back to the interpreter and enter again (`Miss`), and gives the lease back
(`GiveLease`). A compiler holds the lease of the instance it compiled for, so that
lease goes when the compiler exits.

**The loader** is outside the repository. Loading makes the current code old, and
first kills whoever runs the code that was old already; `code:soft_purge/1` looks at
old code only, and refuses when somebody runs it.

**Properties.** `RightCode`: a caller is only ever in code generated for the module of
its instance, which is still loaded. `LoadKillsNobody`: the purge made for a
reservation still stands when its compiler loads. `ResidentLoaded`: the row tells the
truth about the code. `HoldersWatched`: who holds a lease or a reservation is watched
by the manager that runs. After a restart a compiler of the manager before it may still
load over what the new one put there, so `LoadKillsNobody` and `ResidentLoaded` are
claimed only without one; `RightCode` and `HoldersWatched` are claimed always.

Left out: shards and the ask/hot thresholds that decide when to compile, the verdicts
of the artifact cache, changes of configuration, diagnostics, `lease/3` (only tests
call it) and the synchronous mode.

## Runs

| Run | Instance | Shows |
|---|---|---|
| `keeper_growth` | two growers of one shared memory of chunks of two pages, one mortal, a holder token of each kind, one keeper crash; page limit reached | types, growth protocol, liveness |
| `keeper_holders` | an instance built over an image, imported by a second process, arena extended, one crash | charges, images, caches |
| `keeper_store` | an object store and two memories, one made without pages, under build, instance and manual tokens; a limit of two pages for the instance, growth by two; one crash | both counters, ceiling |
| `keeper_queue_lost` | as `keeper_growth` | finding 1 |
| `wait_race` | a waiter, a notifier, an agent that does both; one address, two waits, one mortal waiter, one mortal notifier | exclusion, agreement, liveness |
| `heap_leases` | three processes, one of them calling twice, one mortal, `Patience` 0, `Excl` 8 | lease protocol, liveness |
| `heap_recount` | the same processes with the code's `Patience` of 16 | finding 2 |
| `slots_reuse` | one slot; three modules, one with a content hash; three compilers, one mortal; a mortal caller; a manager restart between any two writes; `Excl` 8 | code, leases |
| `nif_calls` | two threads, four handles, four numbers; one thread uses a handle or changes the tree while the other closes, duplicates, opens or changes it; pages of every length from every cookie; numbers running out | refinement, ownership, pages, liveness |
| `nif_paths` | one thread, every path of up to three components over every pair of eight link texts, opened with and without following or looked up; a directory may be replaced by a link | walk, containment |
| `nif_follow` | a stat that follows a one-name link below the root | finding 3 |
| `nif_listing` | two threads list one handle | finding 4 |

Why the bounds are enough for what is asked. Two growers give every order of one
transaction behind another, and a crash may fall between any two writes of either;
a crash of the recovery itself is outside these runs, and inside `ReadersCovered`,
which holds for any number of crashes. A chunk of two pages and growths of one and
two make growth with and without a new chunk. Page limits are set so that requests are refused. In `Wait` a
notifier and an agent that waits and notifies are two claimers of one row, and two
waits let a message for the first arrive in the second. In `HeapLease` a corpse, a
leaver and a reader that leaves and returns are the smallest cast of every race
described in the source; `Excl` only has to exceed the number of processes, and
`Patience` 0 makes the reclaim path short. In `CodeSlots` everything is decided per slot,
so one slot contended for by three keys gives every reuse: a caller may sit in old code
while the slot is reserved, filled and reserved again, which takes three compilers. One restart
puts a kill between any two writes of a handler; a second kill, inside the `init/1` of the first
restart, is in the theorems only. In `keeper_store` growing by two is refused to the instance while
it holds the other memory and granted when it holds the one alone.
In the file NIF a race is between two calls, so two threads give every order of two of them, and
a script of three requests closes a handle, reuses its number and uses the new handle. Four
numbers are enough for every call and few enough to run out. A directory of five entries read in
batches of two, with names of one, two and three bytes, puts the end of the buffer at every place
in a header and in a name. Two links per path in `MaxLinks` make a link in a link and one more
than is allowed; the tree has a directory above the root with a file of the same name, so a
walk that leaves the root finds something.

Deadlock is not checked: calls are bounded, so every model ends; what must not
stop is stated as liveness.

## Fairness

- Keeper: `WF` of the rest of a handler and of a caller's own steps (a scheduled
  process goes on), `WF` of `Restart` (the supervisor, or the next call, which starts
  an unlinked server), `SF` of handling a message or DOWN of one process: a mailbox is
  a queue, so a message is reached however often the server is busy with others.
  Nothing makes a guest grow, release or die.
- Wait: `WF` of each agent's steps inside a call, timers included. Nothing makes an agent
  call `notify`, so a wait without a timeout has no liveness property.
- HeapLease: `WF` of each process's steps on its way in and out and while it collects.
  Nothing makes a guest return.
- File NIF: `WF` of each thread: a dirty scheduler goes on with the call it runs, and a lock that
  is given back is taken by the next that waits. Nothing makes another process change the tree.
- CodeSlots: none, the runs ask for safety only. `HoldersWatched` is what a liveness
  property would rest on: with it, a 'DOWN' for every dead holder is under way.

## Proofs

All hold for every value of the constants, under the named assumptions of the
modules (`ConstantsOK`; `FreshInstances`, that two instances have two ids, each made with
`make_ref()`; `WaitAssumption`; `HeapAssumption`; `RecordAssumption` and the two
`NoneAssumption`s, that `None` is not one of the records it stands in for; of the file NIF
`HandleAssumption`, `RequestAssumption` and `ListAssumption`, terms of the right kinds,
and `KernelAssumption`, `TreeAssumption`, `SwapAssumption` and `SoundAssumption`, what a kernel
keeps true of a tree). TLC evaluates each of them in the runs of its module.

**`SumProofs`**: the laws of `Total` (`Sums`), the sum of a function over a finite set, which
`ets:foldl` computes over the rows and a page of a directory adds up entry by entry: the sum of
nothing, of one element more, changed or less, bounds and monotonicity. The fold of the community
modules is a recursive function that picks elements in any order; that the choice does not matter
is proved by taking a smallest counterexample among the subsets of the domain, so no induction
theorem with an operator parameter is used. With them are the facts about least and greatest
members that `FileNifProofs` needs.

**`KeeperProofs`**: `Typed` (all but the counters) and `ReadersCovered`
(`SizeCovered`). `SizeCovered` is about two cells, and each is written in the middle of
a handler after the row was written by an earlier request, possibly by an earlier
server. So the invariant says what a stack of pending steps can be (`StackOK`), which
handler a caller's phase belongs to (`CallsOK`, `QueueOK`), that a pending publication
has its transaction in the row with the chunk count it needs (`HeadOK`, `TxnOK`),
that the writer of a transaction built a tuple from the current one (`WriterOK`), and
what creation and retirement leave in the cells (`MakeOK`, `RetiringOK`, `CellsOK`).

Its second part is `BudgetKept`, and from it `BudgetCovered`, `BudgetIsExact` and
`CountersNat`. The counters of pages and bytes outlive the server and a handler moves them
in other steps than the rows, so "counter = charges" is true only between requests. The
invariant `Balanced` says what holds in between: the counter is the charges of the rows
plus what the handler in progress has reserved and not yet written to a row, plus what
it has taken from a row and not yet given back, read off the stack of pending steps; after
a crash it is at least the charges until `init/1` has counted again. `RowsFit` (finitely
many rows, each with natural amounts) and `FramesFit` (what the pending step says of the
row it is about to write) make every step move both sides alike.

**`KeeperBooks`**: `CachesKept`, and from it `CachesAreExact`, `ImagesBacked` and `AllTyped`.
The reverse index, the totals of the holders and the memories counted over an image are
moved by deltas in steps of their own. `Caches` says for each what it is in the middle of
a handler: the index is the holders of the rows but those whose rows are still to be
dropped (`IndexOK`, `Leaving`); a total is the pages of the rows a token holds and what the
pending step is still to take or has already taken (`TotalsOK`, `Extra`); an image count is the
rows over the image and the one just deleted (`ImagesOK`, `Uncounted`). `sub_total/3` stops at
zero and a total that had stopped would stay wrong: it never does, because a share is at most
the sum it is taken from. `TokensOK` says who can hold a row. A build's hold becomes its
instance's, which loses no share because no row is held by both; that is where
`FreshInstances` is needed. An image is held by its owner alone, so its last holder and its
last memory can go in either order and only the second starts to reclaim it. Most
handlers touch none of this: `Silent` names what they leave alone, and one lemma covers them.

Its second part is `CellsKept`, and from it `SizesAgree`, `PublishedIsCharged` and the action
property `NothingShrinks`. A growth writes the row in one request and chunks, size and row again
in a later one, and a recovery decides from the cells alone whether it happened. `CellsSay` is
what makes that decision right: no cell has chunks its row is not charged for, and before the
first write of a commit none that undoing would leave uncharged, so the cell tells which; the
size is one end of the growth in flight. `RowSays` ties a row's charge to its pages;
`WriterHas`, that the tuple a writer brings is one its row is charged for, whatever other
growths came between its look and its commit; `HeadSays`, what the pending step relies on.
The rest is geometry: chunks cover pages (`ChunksHold`, `OwnsGrown`) and an arena costs what
its parts cost (`ArenaParts`).

**`KeeperAnswers`**: `ToldKept`, and from it `AnswersTrue` and `GrantIsKept`. They relate what a
process believes of its growth to what became of it, and the reply may come from another
server than the one that did the work. `Told` says what a process can count on in each phase
of its call (`PhaseFor`): before its commit nothing has become of its growth, between grant and
commit the transaction is in flight or its outcome is kept, and one that aborts has published
nothing. A live process has at most its current operation in flight (`TxnFor`), and the outcome
kept under an operation id is the outcome of that one (`DoneFor`). A handler that ends a
transaction of a live writer does so at that writer's word (`HeadTold`); a reply on the stack is
already true or waits for the end of the transaction below it (`ReplyTold`). That recovery
settles no living writer comes from `GoneTold`: only the dead are forgotten. A failed build
of the tuple is an abort; it must not meet a cell that has the chunks already, since
the keeper would see the growth as published. It cannot: `extend/3` and `arena_tuple/5` fail
only if they have something to allocate, or the cell is gone, hence the guard of `ExtendFails`.
`cl[p].ans`, what a process was last told, is about `cl[p].res` and is reset when it goes on to
another resource.

Its second part is `CeilingHeld`. A ceiling is a row of its own beside the totals it is compared
with, it is found by token, and a growth is compared when it begins and charged at once, while
builds import, share, hand over and let go of memories in between. `Ceilings` says that whoever holds
a memory made with pages has its ceiling (`CapsHeld`, or is about to lose the memory, or the ceiling
is in the hand of `move_cap/3`), that what a build and the instance it becomes hold together, each
memory once (`Taken`), is within the limit (`Bounded`), and that the pending step has been compared
with every ceiling it counts against (`HeadFits`). `Taken` is there because `transfer/3` retags
memories one at a time: neither token's total is bounded by what the other held, the union of the
two is. `Piled` and `FramesFollow` say where a frame that retags, drops or moves a ceiling can be on
the stack. (The invariant, the laws of `Taken` and the steps no ceiling is concerned with are the last
part of `KeeperBooks`.)

`sub_total/3` forgets the ceiling with the total when that returns to zero, so a token that holds
memories of no pages only may lose it. All that is said of a ceiling is therefore said while the
token, or the build and its instance together, hold a memory made with pages (`Anchored`): it never
has fewer pages than it was made with (`Paged`), so a token that lets another memory go keeps a total
above zero (`ShareTwo`). Memories without pages are held, grown and let go beside it and count
like the others. A step never makes a party anchored that was not, but by putting a new memory
there (`AnchoredBefore` is the one direction), and then the build's ceiling was just compared.
Only the life of the first keeper is meant (`Capped`): one killed inside `move_cap/3` loses the
ceiling it was moving.

**`WaitProofs`**: `Typed`, `WokenOnce`, `AnswersMatch`, `LoserHasMail`, `ParkedSwept`,
`OnlyTheDeadLose`. The core is that a row is removed once and only by its waiter or by
the notifier it is named by; the invariant ties the row, the name, the message and the
two program counters of a wait together (`RowsOK`, `NamedOK`, `WakeOK`, `WatchOK`,
`MailOK`, `TookOK`), with the freshness of references (`KnownOK`, `FreshOK`).

**`HeapLeaseProofs`**: `CollectorAlone`, `WordExact`, `RowsCover`, `NoRequestLost`,
`DeadHoldMatches`, for any number of processes and kills. Exclusion follows from the
exact word: the exchange of a collector succeeds only at its own contribution, so the
set of counted processes is empty or itself. Every action adds or removes one process
from that set or from the set of holders, and cardinality follows. `NoRequestLost` needs
that an outstanding request always has a process that will still look at it (`Pending`),
which for a leaver that is not last, or a collector that loses its exchange, comes again
from the exact word.

**`CodeSlotsProofs`**: `RightCodeRuns`, `BooksKept`, `Typed`, `Watching`, `Reservations`,
`LoadsKillNobody`, `ResidentIsLoaded`, that is every invariant `slots_reuse` checks. `Inv` is
that a pair of slot and generation belongs to one key for ever, because only `reserve/4`
makes a generation and makes it new: rows, current and old code, reservations, answers
in the mailbox and the generation a caller holds all agree with that assignment, so equal
stamps mean equal keys. A row that was written and whose hold is still to be given back (`due`) has
its answer on the way and is nobody's yet. `Books` is the manager's side: who has a lease or a reservation has
a monitor or a 'DOWN' on its way, every word admitted is owed by one compiler. `Fresh` is
what is true until the manager first restarts: a reservation has one owner, its row stands
until the manager writes the next one, and nobody runs the old code of its slot. After a restart two compilers may hold one slot
and the last two properties do not hold; `Inv` and `Books` still do.

**`FileNifProofs`**: `FullAlways`, and from it `FileTypes`, `SoleOwner`, `HandlesAtomic`,
`WalksBounded`, `WalksContained` and `PagesExact`, for any number of threads and handles, any
scripts, paths and trees, and any replacements. The inductive invariants are definitions of
`FileNifInv`: `Full`, and on top of it `Safe` and `Paging`.

`OneOwner` counts owners, which is awkward to keep through a step; the invariant `Inv` says it
without counting. `Mine(c)` and `Holds(h)` are the numbers that a call or a handle has to close:
`Sole` says that all of them are open, that no two holders share one and that what is open has a
holder, and `Apart` that no call has a number in two of its places. `CallsOK` says for each
`pc` which local variables can be set (`Phase`, `FramesOK`), so that a step that resets them is
known to forget no number: an error return that closed one descriptor too few would leave an open
number without a holder. `Unmade` says that a handle has nothing before the call that makes it has.
`FramesOK` also has the count that `WalkBounded` needs: each frame has one link less to follow.

`AtomicHandles` is the refinement of `FileApi`, and every step is one of its steps or a stutter:
`Access` serves an access, `Lock` on a handle found closed, `Begin` with bad arguments and
`NoBinary` answer without one, `Make` grants, `Close` and `Gc` close, and every other step that
changes the tree is a call by name. `Access` uses the number that the thread read earlier.
`Full` adds to `Inv` why that number still stands for the handle's file: from the test of the
descriptor to the system call the thread has the lock (`Held`), a duplicate is of the
description it was made from (`Copied`), the handles of a call are kept from the garbage collector
(`Live`), and the description behind a handle's number is of the file it was made
for (`ForFile`). A close of another number and its reuse leave all this alone, because of `Sole`.

`WalksContained` is for scripts without `stat_follow` and `settimes_follow`, as those of `nif_paths`
are: with them a call goes on in a parent it has closed (finding 3), and then the number
may be anybody's. `Safe` is `Full` and, until a directory is moved, `Hold`: the depth a frame has
counted is its depth. `Near` says that each frame sits that many levels below the directory
of the call, and each parent found somewhere below its own; `Shape` that the numbers they name are
the call's own, so nobody replaces what is behind them; `Behind` that no open number is of a file
that is gone. The step that could break it is `..`, which opens the parent in the tree as it is now:
one level up is one level up only in a tree where a directory is the entry of its one parent.
That is `SoundTree`, which a kernel keeps, which every call is shown to keep, and which the other
processes' replacements keep as long as none of them puts a directory elsewhere (`SoundSwaps`).
Removed directories, made directories and renamed files change the tree and leave depths as they
were; a directory that is renamed to another parent sets `moved`, and then nothing is claimed.

`PagesExact` is about what `readdir_nif` has between two of its steps. `Lists` says it: the entries
packed are those before the ones still in the batch, in order and whole, with these they are all the
entries after the cookie up to the position of the stream, and `used` is the sum of their sizes.
A batch moves the position to its last entry and leaves none out (`ListsBatch`), one entry
packed moves from the batch to the page (`ListsMore`), and the three ways to end make of it the
page that is claimed: the end of the directory (`PageEnds`), an entry that is cut (`PageCut`), and
a buffer that is full to the byte (`PageFull`). `Paging` is `Full` with that, for the calls that
nobody disturbs, until the next call of the thread. It needs two facts about handles: a stream
shares the description of its handle's descriptor (`Streams`), so it reads the handle's directory, and
a step of another thread leaves the stream of a handle that is locked (`Leaves`).

Only model-checked:

- All liveness (`GrowerAnswered`, `DeadReleased`, `TimedWaitReturns`, `ReaderEnters`, `CallsReturn`):
  out of the prover's reach.
- `ResolvesRight`: its reference definition is recursive.
- `Contained` of calls that follow a last link: checked by no run, and not claimed.

## Findings

1. `keeper_queue_lost`: a memory retired under a growth in flight leaves the growers queued
   behind it unanswered.
2. `heap_recount`: a reader that leaves and returns between the reads of a recount and its
   exchange is not counted, and a collection starts with it inside. With a `Patience` of
   0 the same property fails a second way: a waiting reader keeps a mark it read in an
   earlier collection, whose process then dies, and takes the store from the next collector.
3. `nif_follow`: `resolve_final` closes the parent it hands on when a link's text is one name.
4. `nif_listing`: two listings of one handle share a position and miss entries.

`PROJECT.json` quotes the comment each of them contradicts. Met while modelling, and not
the subject of a run:

- `wasm_keeper:sub_total/3` forgets a ceiling when a holder's total returns to zero, although it
  may still hold a memory of no pages. Without its condition on memories made with pages
  `CeilingHolds` is false in `keeper_store` with growth by three: a build with a limit of two pages
  makes a memory of none and an object store of two, the store gives its pages back, and the instance
  grows the memory past the limit.
- A manager of `wasm_code_slots` killed between the row it writes (`publish`, `abort`, a compiler's
  'DOWN', `init/1`) and `release_hold/2` leaves the slot held, in a row that says free or resident:
  `init/1` gives back the holds of loading rows only, and nobody enters or reuses the slot until the
  node ends.
- A notifier killed between naming a waiter and claiming its row hides the waiter from all other
  notifiers (`wasm_wait:notify/3`); `LostOnlyToTheDead` says that nothing else does.
- A process that fails to get the object store may delete the mark of the one that got it
  (`wasm_heap:unmark_if_mine/1`): the word says exclusive with nobody marked.
- `wasm_code_slots:repair/3` may overwrite the count of a living caller; its release then takes
  the counter below zero.
- `new_handle` releases the resource when `enif_mutex_create` fails, which closes the descriptor,
  and its callers close the number again. The model assumes the mutex is created.
- The link budget counts links inside links, not the links of a path as the comment on
  `MAX_SYMLINKS` has it; and `resolve_final` starts its depth and budget anew at each link, so
  following `..` in a link of a subdirectory is refused there and followed by `open_at`.
- `readdir_names_nif` takes a read error for the end of the directory.

## Not modelled

- In the modelled components: clocks and the length of timeouts (they may expire at any
  moment); loads, stores and the page table of a memory; tracing and sweeping; loss of the
  whole supervision tree, after which the registry is gone; diagnostics; `set_limit/2`
  outside a build.
- In the file NIF: the layout of an entry, file types and inode numbers of entries, the numbers
  of errors, errors of the device on anything but a directory read, loading the library, a
  failing `enif_mutex_create`.
- Code generation (`wasm_core`), the text format, language adapters and most of the WASI and HTTP host functions: translation or I/O with no shared state of their own.
- The rest is in the [plan](#plan). `PROJECT.json` lists every component with its status.
