------------------------------- MODULE Keeper -------------------------------
(***************************************************************************)
(* wasm_keeper: the authority on who still holds a shared resource, with   *)
(* the parts of wasm_engine (the node page counter, the shared cells) and  *)
(* of wasm_memory (the growth and arena protocols of its callers) that it  *)
(* cannot be understood without.                                           *)
(*                                                                         *)
(* The keeper is one gen_server.  A handler is a sequence of writes to     *)
(* state that outlives it (the ETS registry, the page counter, the cells   *)
(* and size words of the memories), and it may be killed between any two.  *)
(* So a handler is an action that does its first write and leaves the rest *)
(* on the stack todo; the actions of the section "the rest of a handler"   *)
(* pop that stack, and Crash empties it.  No other request is taken until  *)
(* the stack is empty.  A DOWN message is not stored: it is pending while  *)
(* the keeper monitors a process that is dead.                             *)
(***************************************************************************)
EXTENDS Ledger, Sums, Sequences, FiniteSets

CONSTANTS
    Pid,          \* processes that use resources
    Mortal,       \* those of Pid that may be killed
    Memory,       \* resource ids that can be minted for memories,
    Heap,         \* for GC object stores,
    Cell,         \* for tables and shared globals,
    Image,        \* for snapshot images
    Token,        \* holder tokens
    Builds,       \* tokens {build, Ref}
    InstanceOf,   \* build token -> the {instance, Id} token it becomes
    SnapOf,       \* image -> the token {snapshot, Id} of its owner
    OwnerOf,      \* token -> the process whose death removes it, or None
    BuildLimit,   \* build token -> its max_memory_pages, or NoCap
    InitPages,    \* memory -> the pages it is created with
    MaxPages,     \* memory -> the ceiling grow_begin is called with
    ImagePages,   \* memory -> the pages of its image region
    ChunkPages,   \* memory -> pages per chunk
    ImageOf,      \* memory -> its image, or None
    Observable,   \* the memories whose size and chunks are published
    ImageBytes,   \* image -> its bytes
    PageLimit,    \* wasm_engine:page_limit/0
    SnapLimit,    \* max_snapshot_bytes
    Deltas,       \* process -> the arguments of its memory.grow
    HeapSizes,    \* the pages a heap can be measured at
    MaxArena,     \* bound: arena chunks asked for
    MaxOps,       \* process -> bound on the transactions it starts
    MaxCrashes    \* bound: times the keeper is killed

CONSTANT None     \* no row, no transaction, no outcome, no owner, no image

Res == Memory \cup Heap \cup Cell \cup Image
NoCap == -1       \* infinity: the token has no ceiling
Absent == -1      \* a cell that was never put, or has been forgotten

Outcome == [op: Nat, res: {"ok", "aborted"}]
Txn == [op: Nat, pid: Pid, kind: {"grow", "arena"}, from: Nat, to: Nat,
        pd: Int, ct: Nat]
Row == [pages: Nat, holders: SUBSET Token, state: {"live", "retiring"},
        growth: Int, arena: Int, txn: Txn \cup {None},
        done: [Pid -> Outcome \cup {None}]]
Phase == {"idle", "create", "free", "look", "begin", "queued", "extend",
          "commit", "abort", "ack"}
Client == [ph: Phase, kind: {"grow", "arena"}, res: Res \cup {None}, tok: Token \cup {None}, op: Nat,
           n: Nat, seen: Nat, tup: Nat, ans: {"none", "ok", "failed", "raised"}]

ASSUME ConstantsOK ==
    /\ Mortal \subseteq Pid
    /\ None \notin Pid \cup Token \cup Res
    /\ None \notin Row \cup Txn \cup Outcome
    /\ Memory \cap Heap = {} /\ Memory \cap Cell = {} /\ Memory \cap Image = {}
    /\ Heap \cap Cell = {} /\ Heap \cap Image = {} /\ Cell \cap Image = {}
    /\ Builds \subseteq Token /\ InstanceOf \in [Builds -> Token \ Builds]
    /\ SnapOf \in [Image -> Token \ Builds]
    /\ OwnerOf \in [Token -> Pid \cup {None}]
    /\ BuildLimit \in [Builds -> Nat \cup {NoCap}]
    /\ InitPages \in [Memory -> Nat] /\ MaxPages \in [Memory -> Nat]
    /\ ImagePages \in [Memory -> Nat] /\ ChunkPages \in [Memory -> Nat \ {0}]
    /\ ImageOf \in [Memory -> Image \cup {None}]
    /\ Observable \subseteq Memory
    /\ ImageBytes \in [Image -> Nat]
    /\ PageLimit \in Nat /\ SnapLimit \in Nat
    /\ Deltas \in [Pid -> SUBSET Nat] /\ HeapSizes \subseteq Nat
    /\ MaxArena \in Nat /\ MaxOps \in [Pid -> Nat] /\ MaxCrashes \in Nat

\* An instance's id is a reference made for it.
ASSUME FreshInstances == \A b, c \in Builds : InstanceOf[b] = InstanceOf[c] => b = c

VARIABLES
    \* What outlives the keeper.
    reg,        \* the ETS registry: resource -> row
    caps,       \* its {cap, Token} rows
    used,       \* wasm_engine's page counter
    bytes,      \* the snapshot byte counter
    chunks,     \* length of each memory's published chunk tuple
    size,       \* each memory's size word (pages_ref)
    arena,      \* length of each memory's published arena tuple
    \* The keeper process.
    up,         \* whether it is running
    todo,       \* the rest of the handler it is in
    held,       \* its reverse index, as pairs <<resource, token>>
    totals,     \* pages each token holds
    images,     \* memory rows that name each image
    queued,     \* memory -> processes waiting for its transaction to end
    writers,    \* process -> memories it has a transaction or an outcome on
    \* Its callers.
    alive,      \* the processes not yet killed
    cl,         \* what each of them is doing
    builds,     \* the build tokens not yet transferred or discarded
    minted,     \* resource ids in use or used
    maker,      \* memory -> the process that finished making it, or None
    fate,       \* what became of each process's last growth (history)
    crashes     \* times the keeper was killed

durable == <<reg, caps, used, bytes, chunks, size, arena>>
cells   == <<chunks, size, arena>>
index   == <<held, totals, images>>
txns    == <<queued, writers>>
callers == <<alive, cl, builds, minted, maker, fate>>
vars == <<durable, up, todo, index, txns, callers, crashes>>


-----------------------------------------------------------------------------
(* Rows.                                                                   *)

Live(r) == reg[r] # None /\ reg[r].state = "live"

\* What a row costs the node budget: a memory its page table, growth chunks
\* and arena; a heap or a cell its pages; an image nothing.
charged(r, row) ==
    CASE r \in Memory -> table_pages(ImagePages[r]) + row.growth + row.arena
      [] r \in Image -> 0
      [] OTHER -> row.pages

\* What a holder counts against its ceiling.
counted(r, row) == IF r \in Image THEN 0 ELSE row.pages

Rows(rg) == {r \in Res : rg[r] # None}
HeldBy(rg, t) == {r \in Rows(rg) : t \in rg[r].holders}

Charges(rg) ==
    Total([r \in Rows(rg) |-> charged(r, rg[r])])
ImageTotal(rg) ==
    Total([i \in Rows(rg) \cap Image |-> ImageBytes[i]])

NoDone == [p \in Pid |-> None]

NewRow(r, t) ==
    [pages |-> IF r \in Memory THEN InitPages[r] ELSE 0,
     holders |-> {t}, state |-> "live",
     growth |-> IF r \in Memory
                THEN growth_pages(InitPages[r], ImagePages[r], ChunkPages[r])
                ELSE 0,
     arena |-> 0, txn |-> None, done |-> NoDone]

MutAdoptHeld(rg) == {x \in Res \X Token : rg[x[1]] # None /\ x[2] \in {}}

\* What init/1 rebuilds from the rows: the reverse index, the totals, the
\* number of memories over each image.
AdoptHeld(rg) ==
    {x \in Res \X Token : /\ rg[x[1]] # None /\ x[2] \in rg[x[1]].holders
                          /\ OwnerOf[x[2]] # None}
AdoptTotals(rg) ==
    [t \in Token |->
        Total([r \in HeldBy(rg, t) |-> counted(r, rg[r])])]
AdoptImages(rg) ==
    [i \in Image |->
        Cardinality({m \in Memory : rg[m] # None /\ ImageOf[m] = i})]

\* Whether a holder can take n more pages under the ceilings cs.
within(cs, t, n) == cs[t] = NoCap \/ totals[t] + n <= cs[t]

\* A ceiling carried by a build's own reservation; only the first sets it.
pending_cap(t) ==
    IF t \in Builds /\ BuildLimit[t] # NoCap /\ caps[t] = NoCap
    THEN [caps EXCEPT ![t] = BuildLimit[t]] ELSE caps

add_total(T, n) ==
    totals' = [t \in Token |-> IF t \in T THEN totals[t] + n ELSE totals[t]]

\* A token with no pages left loses its ceiling with them.
sub_total(T, n) ==
    /\ totals' = [t \in Token |-> IF t \notin T THEN totals[t]
                                  ELSE IF totals[t] > n THEN totals[t] - n ELSE 0]
    /\ caps' = [t \in Token |-> IF t \in T /\ totals[t] <= n THEN NoCap
                                ELSE caps[t]]

\* wasm_engine:reserve_pages/1 answers ok.
CanReserve(n) == n = 0 \/ used + n <= PageLimit

image_ok(r) == r \in Memory /\ ImageOf[r] # None => Live(ImageOf[r])

hold(r, t) == held' = IF OwnerOf[t] = None THEN held ELSE held \cup {<<r, t>>}

watch_writer(p, r) == writers' = [writers EXCEPT ![p] = @ \cup {r}]
unwatch_writer(p, r) == writers' = [writers EXCEPT ![p] = @ \ {r}]

-----------------------------------------------------------------------------
(* The stack of a handler.                                                 *)

Idle == up /\ todo = <<>>
At(op) == up /\ todo # <<>> /\ Head(todo).op = op
Then(s) == todo' = s \o Tail(todo)

Do(op, r) == <<[op |-> op, res |-> r]>>
DoFor(op, r, t) == <<[op |-> op, res |-> r, tok |-> t]>>
Insert(p, r, t) == <<[op |-> "insert", pid |-> p, res |-> r, tok |-> t]>>
SetCapTo(t, n) == <<[op |-> "setcap", tok |-> t, n |-> n]>>
Grant(p) == <<[op |-> "grant", pid |-> p]>>
Reply(p, res) == <<[op |-> "reply", pid |-> p, res |-> res]>>
Each(op, S) == IF S = {} THEN <<>> ELSE <<[op |-> op, set |-> S]>>

\* A process that can make a call: it is not inside another one.
Free(p) ==
    /\ p \in alive /\ cl[p].ph = "idle"
    /\ todo # <<>> => ~(Head(todo).op \in {"insert", "reserved"} /\ Head(todo).pid = p)

Instances == {InstanceOf[b] : b \in Builds}

\* The tokens a process registers holders under.  An instance's token comes
\* from transfer/3 only, and a build's is used by its builder only.
MayHold(p, t) ==
    /\ OwnerOf[t] \in {p, None}
    /\ t \in Builds => t \in builds
    /\ t \notin Instances
    /\ \A i \in Image : SnapOf[i] # t

-----------------------------------------------------------------------------
(* Holders: the handlers of reserve, acquire, release, discard, transfer,  *)
(* reconcile and image_reserve.                                            *)

\* Only a build restores a memory over an image.
Reserve(p, r, t) ==
    LET c == charged(r, NewRow(r, t)) IN
    /\ Idle /\ Free(p) /\ MayHold(p, t)
    /\ r \in Res \ (Image \cup minted)
    /\ r \in Memory /\ ImageOf[r] # None => t \in Builds
    /\ caps' = pending_cap(t)
    /\ IF /\ within(caps', t, NewRow(r, t).pages)
          /\ image_ok(r)
          /\ CanReserve(c)
       THEN /\ used' = used + c
            /\ minted' = minted \cup {r}
            /\ arena' = IF r \in Memory /\ ImageOf[r] # None
                        THEN [arena EXCEPT ![r] = 0] ELSE arena
            /\ todo' = Insert(p, r, t)
       ELSE UNCHANGED <<used, minted, arena, todo>>
    /\ UNCHANGED <<reg, bytes, chunks, size, up, index, txns, alive, cl, builds,
                   maker, fate, crashes>>

\* The counter is moved and the row not yet written.
InsertRow ==
    LET r == Head(todo).res  t == Head(todo).tok  i == ImageOf[r] IN
    /\ At("insert")
    /\ reg' = [reg EXCEPT ![r] = NewRow(r, t)]
    /\ add_total({t}, NewRow(r, t).pages)
    /\ images' = IF r \in Memory /\ i # None THEN [images EXCEPT ![i] = @ + 1]
                 ELSE images
    /\ hold(r, t)
    /\ Then(IF r \in Memory THEN <<[Head(todo) EXCEPT !.op = "reserved"]>> ELSE <<>>)
    /\ UNCHANGED <<caps, used, bytes, cells, up, txns, callers, crashes>>

\* create/4 learns the identity and has the arrays still to make.
Reserved ==
    LET p == Head(todo).pid IN
    /\ At("reserved")
    /\ cl' = IF p \in alive
             THEN [cl EXCEPT ![p] = [@ EXCEPT !.ph = "create",
                                              !.res = Head(todo).res,
                                              !.tok = Head(todo).tok,
                                              !.ans = "none"]]
             ELSE cl
    /\ Then(<<>>)
    /\ UNCHANGED <<durable, up, index, txns, alive, builds, minted, maker, fate,
                   crashes>>

\* {error, gone}, {error, instance_limit} and a token that already holds the
\* resource change at most the ceiling.
Acquire(p, r, t) ==
    /\ Idle /\ Free(p) /\ MayHold(p, t)
    /\ r \in minted \ Image /\ (r \in Memory => maker[r] # None)
    /\ caps' = pending_cap(t)
    /\ IF Live(r) /\ t \notin reg[r].holders /\ within(caps', t, reg[r].pages)
       THEN /\ reg' = [reg EXCEPT ![r].holders = @ \cup {t}]
            /\ add_total({t}, reg[r].pages)
            /\ hold(r, t)
       ELSE UNCHANGED <<reg, totals, held>>
    /\ UNCHANGED <<used, bytes, cells, up, todo, images, txns, callers, crashes>>

\* What wasm:destroy/1 gives up in one call: all but the instance's store.
Shed(t) == {r \in Res \ Heap : reg[r] # None /\ t \in reg[r].holders}

Destroy(p, t) ==
    /\ Idle /\ Free(p) /\ t \in Instances
    /\ Shed(t) # {}
    /\ todo' = Each("drops", {<<r, t>> : r \in Shed(t)})
    /\ UNCHANGED <<durable, up, index, txns, callers, crashes>>

\* The release of one holder, a no-op for a token that is not one.  An instance
\* gives up its store this way, after the rest; a keeper that was killed may
\* never have heard of the rest.
Release(p, r, t) ==
    /\ Idle /\ Free(p) /\ t \notin Builds
    /\ r \in minted /\ (r \in Memory => maker[r] # None)
    /\ t \in Instances => r \in Heap /\ (Shed(t) = {} \/ crashes > 0)
    /\ todo' = Each("drops", {<<r, t>>})
    /\ UNCHANGED <<durable, up, index, txns, callers, crashes>>

Discard(p, t) ==
    /\ Idle /\ Free(p) /\ t \in builds /\ OwnerOf[t] = p
    /\ builds' = builds \ {t}
    /\ todo' = Each("drops", {x \in held : x[2] = t}) \o SetCapTo(t, NoCap)
    /\ UNCHANGED <<durable, up, index, txns, alive, cl, minted, maker, fate,
                   crashes>>

\* A growth that raised while t was being built, which fails the build.
Raised(p, t) ==
    LET r == cl[p].res IN
    cl[p].ans = "raised" /\ reg[r] # None /\ t \in reg[r].holders

\* The ceiling moves first: its row goes, then is written again under the
\* new token, then every resource is retagged.
Transfer(p, t) ==
    LET to == InstanceOf[t]
        moved == {x \in held : x[2] = t} IN
    /\ Idle /\ Free(p) /\ t \in builds /\ OwnerOf[t] = p /\ ~Raised(p, t)
    /\ builds' = builds \ {t}
    /\ caps' = [caps EXCEPT ![t] = NoCap]
    /\ todo' = IF moved # {} /\ caps[t] # NoCap
               THEN SetCapTo(to, caps[t]) \o Each("retags", moved)
               ELSE Each("retags", moved)
    /\ UNCHANGED <<reg, used, bytes, cells, up, index, txns, alive, cl, minted,
                   maker, fate, crashes>>

\* transfer/3 and discard/1 answer ok when the keeper died under them: the
\* build is over for its builder, and not for the registry.
LostBuildCall(p, t) ==
    /\ ~up /\ Free(p) /\ t \in builds /\ OwnerOf[t] = p
    /\ builds' = builds \ {t}
    /\ UNCHANGED <<durable, up, todo, index, txns, alive, cl, minted, maker, fate,
                   crashes>>

SetCap ==
    /\ At("setcap")
    /\ caps' = [caps EXCEPT ![Head(todo).tok] = Head(todo).n]
    /\ Then(<<>>)
    /\ UNCHANGED <<reg, used, bytes, cells, up, index, txns, callers, crashes>>

Retag ==
    /\ At("retags")
    /\ \E x \in Head(todo).set :
         LET r == x[1]  from == x[2]  to == InstanceOf[x[2]]
             n == counted(r, reg[r]) IN
         /\ IF reg[r] # None /\ from \in reg[r].holders
            THEN /\ reg' = [reg EXCEPT ![r].holders = (@ \ {from}) \cup {to}]
                 /\ totals' = [totals EXCEPT
                                 ![from] = IF @ > n THEN @ - n ELSE 0,
                                 ![to] = @ + n]
                 /\ caps' = IF totals[from] <= n
                            THEN [caps EXCEPT ![from] = NoCap] ELSE caps
                 /\ held' = (held \ {x}) \cup
                            (IF OwnerOf[to] = None THEN {} ELSE {<<r, to>>})
            ELSE UNCHANGED <<reg, totals, caps, held>>
         /\ Then(Each("retags", Head(todo).set \ {x}))
    /\ UNCHANGED <<used, bytes, cells, up, images, txns, callers, crashes>>

MutReconcile(p, r, w) ==
    /\ Idle /\ Free(p) /\ r \in Heap /\ Live(r)
    /\ IF w < reg[r].pages
       THEN /\ reg' = [reg EXCEPT ![r].pages = w]
            /\ todo' = <<[op |-> "shrunk", res |-> r, n |-> reg[r].pages - w]>>
            /\ UNCHANGED used
       ELSE /\ used' = IF CanReserve(w - reg[r].pages)
                       THEN used + (w - reg[r].pages) ELSE used
            /\ todo' = <<[op |-> "grown", res |-> r, n |-> w]>>
            /\ UNCHANGED reg
    /\ UNCHANGED <<caps, bytes, cells, up, index, txns, callers, crashes>>

\* A heap charged for what its tables were just measured at, w pages: down,
\* the row first; up, the counter first and whatever the limit says.
Reconcile(p, r, w) ==
    /\ Idle /\ Free(p) /\ r \in Heap /\ Live(r)
    /\ IF w < reg[r].pages
       THEN /\ reg' = [reg EXCEPT ![r].pages = w]
            /\ todo' = <<[op |-> "shrunk", res |-> r, n |-> reg[r].pages - w]>>
            /\ UNCHANGED used
       ELSE /\ used' = used + (w - reg[r].pages)
            /\ todo' = <<[op |-> "grown", res |-> r, n |-> w]>>
            /\ UNCHANGED reg
    /\ UNCHANGED <<caps, bytes, cells, up, index, txns, callers, crashes>>

HeapShrunk ==
    /\ At("shrunk")
    /\ used' = used - Head(todo).n
    /\ sub_total(reg[Head(todo).res].holders, Head(todo).n)
    /\ Then(<<>>)
    /\ UNCHANGED <<reg, bytes, cells, up, held, images, txns, callers, crashes>>

HeapGrown ==
    LET r == Head(todo).res  w == Head(todo).n IN
    /\ At("grown")
    /\ reg' = [reg EXCEPT ![r].pages = w]
    /\ add_total(reg[r].holders, w - reg[r].pages)
    /\ Then(<<>>)
    /\ UNCHANGED <<caps, used, bytes, cells, up, held, images, txns, callers,
                   crashes>>

ImageReserve(p, i) ==
    /\ Idle /\ Free(p) /\ OwnerOf[SnapOf[i]] = p
    /\ i \in Image \ minted
    /\ bytes + ImageBytes[i] <= SnapLimit
    /\ bytes' = bytes + ImageBytes[i]
    /\ minted' = minted \cup {i}
    /\ todo' = Insert(p, i, SnapOf[i])
    /\ UNCHANGED <<reg, caps, used, cells, up, index, txns, alive, cl, builds,
                   maker, fate, crashes>>

-----------------------------------------------------------------------------
(* Dropping a holder and reclaiming what nobody holds.                     *)

Drop ==
    /\ At("drops")
    /\ \E x \in Head(todo).set :
         LET r == x[1]  t == x[2]
             rest == Each("drops", Head(todo).set \ {x}) IN
         IF reg[r] # None /\ t \in reg[r].holders
         THEN /\ sub_total({t}, counted(r, reg[r]))
              /\ held' = held \ {x}
              /\ Then(DoFor("unhold", r, t) \o rest)
         ELSE /\ Then(rest)
              /\ UNCHANGED <<totals, caps, held>>
    /\ UNCHANGED <<reg, used, bytes, cells, up, images, txns, callers, crashes>>

MutReclaimable(r) == r \in Res

\* An image outlives its last snapshot holder while a memory is laid over it.
reclaimable(r) == r \in Image => images[r] = 0

\* Removing the last holder and marking the row are one write.
Unhold ==
    LET r == Head(todo).res  rest == reg[r].holders \ {Head(todo).tok}
        last == rest = {} /\ reclaimable(r) IN
    /\ At("unhold")
    /\ reg' = [reg EXCEPT ![r].holders = rest,
                          ![r].state = IF last THEN "retiring" ELSE @]
    /\ Then(IF last THEN Do("forget", r) ELSE <<>>)
    /\ UNCHANGED <<caps, used, bytes, cells, up, index, txns, callers, crashes>>

\* The cells go before the row that names them ...
ForgetMeta ==
    LET r == Head(todo).res IN
    /\ At("forget")
    /\ IF r \in Memory
       THEN /\ chunks' = IF r \in Observable THEN [chunks EXCEPT ![r] = Absent]
                         ELSE chunks
            /\ arena' = [arena EXCEPT ![r] = Absent]
       ELSE UNCHANGED <<chunks, arena>>
    /\ Then(Do("delete", r))
    /\ UNCHANGED <<reg, caps, used, bytes, size, up, index, txns, callers, crashes>>

\* ... the row before the charge is given back ...
DeleteRow ==
    LET r == Head(todo).res IN
    /\ At("delete")
    /\ reg' = [reg EXCEPT ![r] = None]
    /\ Then(<<[op |-> "giveback", res |-> r, n |-> charged(r, reg[r])]>>)
    /\ UNCHANGED <<caps, used, bytes, cells, up, index, txns, callers, crashes>>

MutGiveBack ==
    LET r == Head(todo).res IN
    /\ At("giveback")
    /\ used' = used - 2 * Head(todo).n
    /\ bytes' = IF r \in Image THEN bytes - ImageBytes[r] ELSE bytes
    /\ Then(IF r \in Memory /\ ImageOf[r] # None THEN Do("uncount", r) ELSE <<>>)
    /\ UNCHANGED <<reg, caps, cells, up, index, txns, callers, crashes>>

GiveBack ==
    LET r == Head(todo).res IN
    /\ At("giveback")
    /\ used' = used - Head(todo).n
    /\ bytes' = IF r \in Image THEN bytes - ImageBytes[r] ELSE bytes
    /\ Then(IF r \in Memory /\ ImageOf[r] # None THEN Do("uncount", r) ELSE <<>>)
    /\ UNCHANGED <<reg, caps, cells, up, index, txns, callers, crashes>>

\* ... and the memory before its image.
AfterRetire ==
    LET i == ImageOf[Head(todo).res]
        orphan == images[i] = 1 /\ reg[i] # None /\ reg[i].holders = {} IN
    /\ At("uncount")
    /\ images' = [images EXCEPT ![i] = @ - 1]
    /\ reg' = IF orphan THEN [reg EXCEPT ![i].state = "retiring"] ELSE reg
    /\ Then(IF orphan THEN Do("forget", i) ELSE <<>>)
    /\ UNCHANGED <<caps, used, bytes, cells, up, held, totals, txns, callers,
                   crashes>>

\* The death of a process that holds something.  What it sent before it died
\* is handled before its DOWN.
NoMailFrom(p) == cl[p].ph \notin {"free", "begin", "commit", "abort", "ack"}

HolderDown(p) ==
    LET mine == {x \in held : OwnerOf[x[2]] = p} IN
    /\ Idle /\ p \notin alive /\ NoMailFrom(p)
    /\ mine # {}
    /\ held' = held \ mine
    /\ todo' = Each("drops", mine)
    /\ UNCHANGED <<durable, up, totals, images, txns, callers, crashes>>

-----------------------------------------------------------------------------
(* Transactions: growth and arena extension, each begun, allocated by its  *)
(* writer, and committed.                                                  *)

\* The pages a request would add to the charge of its memory.
Cost(p) ==
    LET c == cl[p]  r == c.res IN
    IF c.kind = "grow"
    THEN growth_pages(reg[r].pages + c.n, ImagePages[r], ChunkPages[r])
         - growth_pages(reg[r].pages, ImagePages[r], ChunkPages[r])
    ELSE arena_cost(c.seen, c.n)

MutAllFit(row, n) == \E t \in row.holders : within(caps, t, n)

\* Every holder, not just the one asking, can take n more pages.
AllFit(row, n) == \A t \in row.holders : within(caps, t, n)

\* What a begin is answered.  A retry of the caller's own operation is
\* answered from the row, so it never queues behind itself.
transaction(p) ==
    LET c == cl[p]  row == reg[c.res] IN
    CASE ~Live(c.res) -> "gone"
      [] Live(c.res) /\ row.done[p] # None /\ row.done[p].op = c.op -> "done"
      [] Live(c.res) /\ ~(row.done[p] # None /\ row.done[p].op = c.op) ->
           IF row.txn # None
           THEN IF row.txn.pid = p /\ row.txn.op = c.op THEN "resume" ELSE "queue"
           ELSE IF c.kind = "grow"
           THEN IF /\ row.pages + c.n <= MaxPages[c.res]
                   /\ AllFit(row, c.n)
                   /\ CanReserve(Cost(p))
                THEN "start" ELSE "refused"
           ELSE IF arena[c.res] >= c.n THEN "covered"
           ELSE IF arena[c.res] # c.seen THEN "changed"
           ELSE IF CanReserve(Cost(p)) THEN "start" ELSE "refused"

Begin(p, rest) ==
    LET d == transaction(p) IN
    /\ used' = IF d = "start" THEN used + Cost(p) ELSE used
    /\ todo' = (CASE d = "start" -> <<[op |-> "txn", pid |-> p]>>
                  [] d = "resume" -> Grant(p)
                  [] d = "queue" -> <<>>
                  [] OTHER -> Reply(p, d)) \o rest

HandleBegin(p) ==
    /\ Idle /\ cl[p].ph = "begin"
    /\ Begin(p, <<>>)
    /\ IF transaction(p) = "queue"
       THEN /\ queued' = [queued EXCEPT ![cl[p].res] = Append(@, p)]
            /\ cl' = [cl EXCEPT ![p].ph = "queued"]
       ELSE UNCHANGED <<queued, cl>>
    /\ UNCHANGED <<reg, caps, bytes, cells, up, index, writers, alive, builds,
                   minted, maker, fate, crashes>>

\* The transaction of p's request, and the row of its memory with it.
NewTxn(p) ==
    LET c == cl[p]  grow == c.kind = "grow"
        from == IF grow THEN reg[c.res].pages ELSE c.seen
        to == IF grow THEN from + c.n ELSE c.n IN
    [op |-> c.op, pid |-> p, kind |-> c.kind, from |-> from, to |-> to, pd |-> Cost(p),
     ct |-> IF grow THEN chunk_count(to, ChunkPages[c.res]) ELSE c.n]
Started(p) ==
    LET t == NewTxn(p)  grow == t.kind = "grow" IN
    [reg[cl[p].res] EXCEPT !.pages = IF grow THEN t.to ELSE @,
                           !.growth = IF grow THEN @ + t.pd ELSE @,
                           !.arena = IF grow THEN @ ELSE @ + t.pd,
                           !.txn = t, !.done[p] = None]

\* The pages are reserved and the row not yet written.
TxnRow ==
    LET p == Head(todo).pid  c == cl[p]  r == c.res IN
    /\ At("txn")
    /\ reg' = [reg EXCEPT ![r] = Started(p)]
    /\ IF c.kind = "grow" THEN add_total(reg[r].holders, c.n) ELSE UNCHANGED totals
    /\ watch_writer(p, r)
    /\ Then(Grant(p))
    /\ UNCHANGED <<caps, used, bytes, cells, up, held, images, queued, callers,
                   crashes>>

\* The writer learns the size its transaction starts from.
GrantStep ==
    LET p == Head(todo).pid IN
    /\ At("grant")
    /\ cl' = [cl EXCEPT ![p] =
                IF p \notin alive THEN [@ EXCEPT !.ph = "idle"]
                ELSE [@ EXCEPT !.ph = "extend", !.seen = reg[cl[p].res].txn.from]]
    /\ Then(<<>>)
    /\ UNCHANGED <<durable, up, index, txns, alive, builds, minted, maker, fate,
                   crashes>>

MutInFlight(p) ==
    LET row == reg[cl[p].res] IN row # None /\ row.txn # None

\* The operation of p is the one in flight on its memory.
InFlight(p) ==
    LET row == reg[cl[p].res] IN
    row # None /\ row.txn # None /\ row.txn.pid = p /\ row.txn.op = cl[p].op

MutOutcome(p) == IF cl[p].op = 0 THEN "ok" ELSE "failed"

\* The outcome kept for an operation that is not in flight.
outcome(p) ==
    LET row == reg[cl[p].res] IN
    IF /\ row # None /\ row.done[p] # None
       /\ row.done[p].op = cl[p].op /\ row.done[p].res = "ok"
    THEN "ok" ELSE "failed"

HandleCommit(p) ==
    LET r == cl[p].res IN
    /\ Idle /\ cl[p].ph = "commit"
    /\ todo' = IF ~InFlight(p) THEN Reply(p, outcome(p))
               ELSE <<[op |-> IF reg[r].txn.kind = "grow" THEN "chunks" ELSE "arena",
                       res |-> r, pid |-> p]>> \o Reply(p, "ok")
    /\ UNCHANGED <<durable, up, index, txns, callers, crashes>>

\* A tuple goes into its cell only while the cell is shorter than the tuple
\* the transaction is for.
publish(cell, r, n, target) ==
    IF cell[r] < target THEN [cell EXCEPT ![r] = n] ELSE cell

PublishChunks ==
    LET r == Head(todo).res IN
    /\ At("chunks")
    /\ chunks' = IF r \in Observable
                 THEN publish(chunks, r, cl[Head(todo).pid].tup, reg[r].txn.ct)
                 ELSE chunks
    /\ Then(Do("size", r))
    /\ UNCHANGED <<reg, caps, used, bytes, size, arena, up, index, txns, callers,
                   crashes>>

PublishSize ==
    LET r == Head(todo).res IN
    /\ At("size")
    /\ size' = IF r \in Observable THEN [size EXCEPT ![r] = reg[r].txn.to]
               ELSE size
    /\ Then(Do("finish", r))
    /\ UNCHANGED <<reg, caps, used, bytes, chunks, arena, up, index, txns, callers,
                   crashes>>

PublishArena ==
    LET r == Head(todo).res IN
    /\ At("arena")
    /\ arena' = publish(arena, r, cl[Head(todo).pid].tup, reg[r].txn.to)
    /\ Then(Do("finish", r))
    /\ UNCHANGED <<reg, caps, used, bytes, chunks, size, up, index, txns, callers,
                   crashes>>

\* The transaction ends with its outcome kept for its writer.
Finish ==
    LET r == Head(todo).res  t == reg[r].txn IN
    /\ At("finish")
    /\ reg' = [reg EXCEPT ![r].txn = None,
                          ![r].done[t.pid] = [op |-> t.op, res |-> "ok"]]
    /\ watch_writer(t.pid, r)
    /\ fate' = IF cl[t.pid].op = t.op THEN [fate EXCEPT ![t.pid] = "ok"] ELSE fate
    /\ Then(Do("next", r))
    /\ UNCHANGED <<caps, used, bytes, cells, up, index, queued, alive, cl, builds,
                   minted, maker, crashes>>

\* The outcome kept for p's operation is no longer needed.
ForgetOutcome(p) ==
    LET r == cl[p].res  row == reg[r] IN
    IF row = None THEN unwatch_writer(p, r) /\ UNCHANGED reg
    ELSE IF row.done[p] # None /\ row.done[p].op = cl[p].op
    THEN /\ reg' = [reg EXCEPT ![r].done[p] = None]
         /\ unwatch_writer(p, r)
    ELSE UNCHANGED <<reg, writers>>

HandleAbort(p) ==
    LET r == cl[p].res IN
    /\ Idle /\ cl[p].ph = "abort"
    /\ IF InFlight(p)
       THEN /\ todo' = Do("settle", r) \o Reply(p, "raised")
            /\ UNCHANGED <<reg, writers>>
       ELSE /\ todo' = Reply(p, "raised")
            /\ ForgetOutcome(p)
    /\ UNCHANGED <<caps, used, bytes, cells, up, index, queued, callers, crashes>>

MutPublished(r, t) == t.kind = "arena" /\ arena[r] >= t.to
MutPublishedBySize(r, t) ==
    CASE t.kind = "arena" -> arena[r] >= t.to
      [] t.kind = "grow" -> r \in Observable /\ size[r] >= t.to

\* Whether the first visible effect of transaction t happened: the chunk
\* tuple, which is published before the size; the size itself when no chunk
\* was needed; never for a memory that publishes nothing.
published(r, t) ==
    CASE t.kind = "arena" -> arena[r] >= t.to
      [] t.kind = "grow" /\ r \notin Observable -> FALSE
      [] t.kind = "grow" /\ r \in Observable /\ t.pd = 0 -> size[r] >= t.to
      [] t.kind = "grow" /\ r \in Observable /\ t.pd # 0 -> chunks[r] >= t.ct

MutUndo(row, t) ==
    [row EXCEPT !.growth = IF t.kind = "grow" THEN @ - t.pd ELSE @,
                !.arena = IF t.kind = "grow" THEN @ ELSE @ - t.pd,
                !.txn = None,
                !.done[t.pid] = [op |-> t.op, res |-> "aborted"]]

\* The row as it was before transaction t, with the outcome kept.
Undo(row, t) ==
    [row EXCEPT !.pages = IF t.kind = "grow" THEN t.from ELSE @,
                !.growth = IF t.kind = "grow" THEN @ - t.pd ELSE @,
                !.arena = IF t.kind = "grow" THEN @ ELSE @ - t.pd,
                !.txn = None,
                !.done[t.pid] = [op |-> t.op, res |-> "aborted"]]

\* A transaction whose writer cannot finish it.
Settle ==
    LET r == Head(todo).res  t == reg[r].txn  grow == t.kind = "grow" IN
    /\ At("settle")
    /\ IF published(r, t)
       THEN /\ size' = IF grow THEN [size EXCEPT ![r] = t.to] ELSE size
            /\ Then(Do("finish", r))
            /\ UNCHANGED <<reg, fate>>
       ELSE /\ reg' = [reg EXCEPT ![r] = Undo(@, t)]
            /\ fate' = IF cl[t.pid].op = t.op
                       THEN [fate EXCEPT ![t.pid] = "undone"] ELSE fate
            /\ Then(<<[op |-> "undone", res |-> r, n |-> t.pd,
                       d |-> IF grow THEN t.to - t.from ELSE -1]>>)
            /\ UNCHANGED size
    /\ UNCHANGED <<caps, used, bytes, chunks, arena, up, index, txns, alive, cl,
                   builds, minted, maker, crashes>>

MutUndoneStops ==
    LET r == Head(todo).res IN
    /\ At("undone")
    /\ used' = used - Head(todo).n
    /\ IF Head(todo).d >= 0 THEN sub_total(reg[r].holders, Head(todo).d)
       ELSE UNCHANGED <<totals, caps>>
    /\ Then(<<>>)
    /\ UNCHANGED <<reg, bytes, cells, up, held, images, txns, callers, crashes>>

MutUndoneKeepsTotals ==
    LET r == Head(todo).res IN
    /\ At("undone")
    /\ used' = used - Head(todo).n
    /\ Then(Do("next", r))
    /\ UNCHANGED <<reg, caps, bytes, cells, up, index, txns, callers, crashes>>

Undone ==
    LET r == Head(todo).res IN
    /\ At("undone")
    /\ used' = used - Head(todo).n
    /\ IF Head(todo).d >= 0 THEN sub_total(reg[r].holders, Head(todo).d)
       ELSE UNCHANGED <<totals, caps>>
    /\ Then(Do("next", r))
    /\ UNCHANGED <<reg, bytes, cells, up, held, images, txns, callers, crashes>>

\* The next request in the queue of a memory whose transaction has ended.
NextTransaction ==
    LET r == Head(todo).res  p == Head(queued[r]) IN
    /\ At("next")
    /\ IF reg[r] # None /\ reg[r].txn = None /\ queued[r] # <<>>
       THEN /\ Begin(p, todo)
            /\ queued' = [queued EXCEPT ![r] = Tail(@)]
       ELSE /\ Then(<<>>)
            /\ UNCHANGED <<used, queued>>
    /\ UNCHANGED <<reg, caps, bytes, cells, up, index, writers, callers, crashes>>

\* A writer died: the outcome kept for it goes and its transaction is settled.
WriterDown(p) ==
    /\ Idle /\ p \notin alive /\ NoMailFrom(p)
    /\ writers[p] # {}
    /\ writers' = [writers EXCEPT ![p] = {}]
    /\ todo' = Each("gone", {<<r, p>> : r \in writers[p]})
    /\ UNCHANGED <<durable, up, index, queued, callers, crashes>>

WriterGone ==
    /\ At("gone")
    /\ \E x \in Head(todo).set :
         LET r == x[1]  p == x[2]  row == reg[r]
             rest == Each("gone", Head(todo).set \ {x}) IN
         IF row = None THEN Then(rest) /\ UNCHANGED reg
         ELSE /\ reg' = [reg EXCEPT ![r].done[p] = None]
              /\ Then((IF row.txn # None /\ row.txn.pid = p
                       THEN Do("settle", r) ELSE <<>>) \o rest)
    /\ UNCHANGED <<caps, used, bytes, cells, up, index, txns, callers, crashes>>

\* extend_arena/2 starts over after every answer but a failed allocation.
AfterAck(p) ==
    IF p \in alive /\ cl[p].kind = "arena" /\ cl[p].ans # "raised"
    THEN "look" ELSE "idle"

HandleAck(p) ==
    /\ Idle /\ cl[p].ph = "ack"
    /\ ForgetOutcome(p)
    /\ cl' = [cl EXCEPT ![p].ph = AfterAck(p)]
    /\ UNCHANGED <<caps, used, bytes, cells, up, todo, index, queued, alive,
                   builds, minted, maker, fate, crashes>>

\* A reply reaches its caller, if it is still there.  A private memory's new
\* size and chunks are in the handle its grower is given.
ReplyStep ==
    LET p == Head(todo).pid  res == Head(todo).res  c == cl[p]  m == c.res
        ph == CASE res \in {"refused", "gone"} -> "idle"
                [] res \in {"covered", "changed"} -> "look"
                [] res \in {"done", "ok", "failed", "raised"} -> "ack" IN
    /\ At("reply")
    /\ cl' = [cl EXCEPT ![p] =
                IF p \notin alive THEN [@ EXCEPT !.ph = "idle"]
                ELSE [@ EXCEPT !.ph = ph,
                               !.ans = IF res = "ok" THEN "ok"
                                       ELSE IF res = "raised" THEN "raised"
                                       ELSE "failed"]]
    /\ IF p \in alive /\ res = "ok" /\ c.kind = "grow" /\ m \notin Observable
       THEN /\ chunks' = [chunks EXCEPT ![m] = c.tup]
            /\ size' = [size EXCEPT ![m] = c.seen + c.n]
       ELSE UNCHANGED <<chunks, size>>
    /\ Then(<<>>)
    /\ UNCHANGED <<reg, caps, used, bytes, arena, up, index, txns, alive, builds,
                   minted, maker, fate, crashes>>

-----------------------------------------------------------------------------
(* The callers: wasm_memory:create/4, grow/2 and extend_arena/2.           *)

Idle0 == [ph |-> "idle", kind |-> "grow", res |-> None, tok |-> None, op |-> 0,
          n |-> 0, seen |-> 0, tup |-> 0, ans |-> "none"]

\* The arrays of a new memory are made, and its size and tuple published, by
\* the process that reserved it; nobody else has its handle yet.
CreateMem(p) ==
    LET m == cl[p].res IN
    /\ p \in alive /\ cl[p].ph = "create"
    /\ size' = [size EXCEPT ![m] = InitPages[m]]
    /\ chunks' = [chunks EXCEPT ![m] = chunk_count(InitPages[m], ChunkPages[m])]
    /\ maker' = [maker EXCEPT ![m] = p]
    /\ cl' = [cl EXCEPT ![p].ph = "idle"]
    /\ UNCHANGED <<reg, caps, used, bytes, arena, up, todo, index, txns, alive,
                   builds, minted, fate, crashes>>

CreateFails(p) ==
    /\ p \in alive /\ cl[p].ph = "create"
    /\ cl' = [cl EXCEPT ![p].ph = "free"]
    /\ UNCHANGED <<durable, up, todo, index, txns, alive, builds, minted, maker,
                   fate, crashes>>

HandleFree(p) ==
    /\ Idle /\ cl[p].ph = "free"
    /\ todo' = Each("drops", {<<cl[p].res, cl[p].tok>>})
    /\ cl' = [cl EXCEPT ![p].ph = "idle"]
    /\ UNCHANGED <<durable, up, index, txns, alive, builds, minted, maker, fate,
                   crashes>>

\* A private memory's handle never leaves the process that made it.
HasHandle(p, m) ==
    IF m \in Observable THEN maker[m] # None ELSE maker[m] = p

\* A new operation id, and its request in the keeper's mailbox.
Ask(p, kind, m, n, seen) ==
    /\ cl[p].op < MaxOps[p]
    /\ cl' = [cl EXCEPT ![p] = [@ EXCEPT !.ph = "begin", !.kind = kind,
                                         !.res = m, !.op = cl[p].op + 1, !.n = n,
                                         !.seen = seen, !.ans = "none"]]
    /\ fate' = [fate EXCEPT ![p] = "none"]

Grow(p, m, d) ==
    /\ Free(p) /\ HasHandle(p, m)
    /\ Ask(p, "grow", m, d, 0)
    /\ UNCHANGED <<durable, up, todo, index, txns, alive, builds, minted, maker,
                   crashes>>

\* A write faults on a page of the image and needs arena chunk n.
NeedArena(p, m, n) ==
    /\ Free(p) /\ ImageOf[m] # None /\ HasHandle(p, m)
    /\ cl' = [cl EXCEPT ![p] = [@ EXCEPT !.ph = "look", !.kind = "arena",
                                         !.res = m, !.n = n, !.ans = "none"]]
    /\ UNCHANGED <<durable, up, todo, index, txns, alive, builds, minted, maker,
                   fate, crashes>>

\* The published length decides whether there is anything to ask; reading the
\* cell of a reclaimed memory raises.
Look(p) ==
    LET c == cl[p] IN
    /\ p \in alive /\ c.ph = "look"
    /\ IF arena[c.res] = Absent \/ arena[c.res] >= c.n
       THEN cl' = [cl EXCEPT ![p].ph = "idle"] /\ UNCHANGED fate
       ELSE Ask(p, "arena", c.res, c.n, arena[c.res])
    /\ UNCHANGED <<durable, up, todo, index, txns, alive, builds, minted, maker,
                   crashes>>

\* The length of the published tuple a writer extends, and the length it needs.
Have(c) == IF c.kind = "grow" THEN chunks[c.res] ELSE arena[c.res]
Need(c) == IF c.kind = "grow" THEN chunk_count(c.seen + c.n, ChunkPages[c.res])
           ELSE c.n

\* The writer allocates: for a growth the published tuple and what New needs
\* past it, for an arena the chunks up to the target.
Extend(p) ==
    LET c == cl[p]  cell == Have(c)  need == Need(c) IN
    /\ p \in alive /\ c.ph = "extend"
    /\ cell # Absent
    /\ cl' = [cl EXCEPT ![p] = [@ EXCEPT !.ph = "commit",
                                         !.tup = IF cell > need THEN cell
                                                 ELSE need]]
    /\ UNCHANGED <<durable, up, todo, index, txns, alive, builds, minted, maker,
                   fate, crashes>>

\* An array that was needed could not be made, or the memory was reclaimed
\* under its grower.
ExtendFails(p) ==
    /\ p \in alive /\ cl[p].ph = "extend"
    /\ Have(cl[p]) < Need(cl[p])
    /\ cl' = [cl EXCEPT ![p].ph = "abort"]
    /\ UNCHANGED <<durable, up, todo, index, txns, alive, builds, minted, maker,
                   fate, crashes>>

Die(p) ==
    /\ p \in alive \cap Mortal
    /\ alive' = alive \ {p}
    /\ UNCHANGED <<durable, up, todo, index, txns, cl, builds, minted, maker, fate,
                   crashes>>

-----------------------------------------------------------------------------
(* The keeper is killed, and started again.                                *)

\* Its mailbox and its queues go with it.  A caller waiting for an answer
\* gets none: a transaction is asked again with the same operation id, a
\* release is taken for done, an ack is lost.
Crash ==
    /\ up /\ crashes < MaxCrashes
    /\ up' = FALSE
    /\ todo' = <<>>
    /\ held' = {} /\ totals' = [t \in Token |-> 0]
    /\ images' = [i \in Image |-> 0]
    /\ queued' = [m \in Memory |-> <<>>]
    /\ writers' = [p \in Pid |-> {}]
    /\ cl' = [p \in Pid |->
                [cl[p] EXCEPT !.ph =
                   CASE @ = "queued" /\ p \in alive -> "begin"
                     [] @ = "free" -> "idle"
                     [] @ = "ack" -> AfterAck(p)
                     [] @ \in {"begin", "queued", "commit", "abort"}
                          /\ p \notin alive -> "idle"
                     [] OTHER -> @]]
    /\ crashes' = crashes + 1
    /\ UNCHANGED <<durable, alive, builds, minted, maker, fate>>

\* init/1: the caches are rebuilt, then cleanups left half done are finished,
\* transactions recovered, orphan images swept and both counters recomputed.
Restart ==
    /\ ~up
    /\ up' = TRUE
    /\ held' = AdoptHeld(reg)
    /\ totals' = AdoptTotals(reg)
    /\ images' = AdoptImages(reg)
    /\ todo' = Each("retiring", {r \in Res : reg[r] # None
                                             /\ reg[r].state = "retiring"})
               \o Each("recover", Memory) \o Each("sweep", Image)
               \o Do("reconcile", None)
    /\ UNCHANGED <<durable, txns, callers, crashes>>

FinishRetiring ==
    /\ At("retiring")
    /\ \E r \in Head(todo).set :
         Then((IF reg[r] # None THEN Do("forget", r) ELSE <<>>)
              \o Each("retiring", Head(todo).set \ {r}))
    /\ UNCHANGED <<durable, up, index, txns, callers, crashes>>

MutAbandoned(row) == row.txn.pid \in Pid

\* is_process_alive/1 is asked of the writer of a transaction left in flight.
Abandoned(row) == row.txn.pid \notin alive

\* Outcomes for writers still alive stay, watched, and so does a live
\* writer's transaction; a dead writer's is settled.
RecoverRow ==
    /\ At("recover")
    /\ \E r \in Head(todo).set :
         LET row == reg[r]
             kept == {p \in alive : row.done[p] # None}
             rest == Each("recover", Head(todo).set \ {r})
             watched == kept \cup (IF row.txn # None /\ ~Abandoned(row)
                                   THEN {row.txn.pid} ELSE {}) IN
         IF row = None THEN Then(rest) /\ UNCHANGED <<reg, writers>>
         ELSE /\ reg' = [reg EXCEPT ![r].done =
                           [p \in Pid |-> IF p \in kept THEN @[p] ELSE None]]
              /\ writers' = [p \in Pid |-> IF p \in watched THEN writers[p] \cup {r}
                                           ELSE writers[p]]
              /\ Then((IF row.txn # None /\ Abandoned(row)
                       THEN Do("settle", r) ELSE <<>>) \o rest)
    /\ UNCHANGED <<caps, used, bytes, cells, up, index, queued, callers, crashes>>

SweepImages ==
    /\ At("sweep")
    /\ \E i \in Head(todo).set :
         LET rest == Each("sweep", Head(todo).set \ {i}) IN
         IF reg[i] # None /\ reg[i].holders = {} /\ images[i] = 0
         THEN /\ reg' = [reg EXCEPT ![i].state = "retiring"]
              /\ Then(Do("forget", i) \o rest)
         ELSE Then(rest) /\ UNCHANGED reg
    /\ UNCHANGED <<caps, used, bytes, cells, up, index, txns, callers, crashes>>

MutReconcileCounters ==
    /\ At("reconcile")
    /\ bytes' = ImageTotal(reg)
    /\ Then(<<>>)
    /\ UNCHANGED <<reg, caps, used, cells, up, index, txns, callers, crashes>>

ReconcileCounters ==
    /\ At("reconcile")
    /\ used' = Charges(reg)
    /\ bytes' = ImageTotal(reg)
    /\ Then(<<>>)
    /\ UNCHANGED <<reg, caps, cells, up, index, txns, callers, crashes>>

-----------------------------------------------------------------------------
Init ==
    /\ reg = [r \in Res |-> None] /\ caps = [t \in Token |-> NoCap]
    /\ used = 0 /\ bytes = 0
    /\ chunks = [m \in Memory |-> Absent] /\ size = [m \in Memory |-> 0]
    /\ arena = [m \in Memory |-> Absent]
    /\ up = TRUE /\ todo = <<>>
    /\ held = {} /\ totals = [t \in Token |-> 0]
    /\ images = [i \in Image |-> 0]
    /\ queued = [m \in Memory |-> <<>>] /\ writers = [p \in Pid |-> {}]
    /\ alive = Pid /\ cl = [p \in Pid |-> Idle0] /\ builds = Builds
    /\ minted = {} /\ maker = [m \in Memory |-> None]
    /\ fate = [p \in Pid |-> "none"] /\ crashes = 0

Request(p) ==
    \/ \E t \in Token :
         \/ \E r \in Res : Reserve(p, r, t) \/ Acquire(p, r, t) \/ Release(p, r, t)
         \/ Destroy(p, t) \/ Discard(p, t) \/ Transfer(p, t) \/ LostBuildCall(p, t)
    \/ \E r \in Heap, w \in HeapSizes : Reconcile(p, r, w)
    \/ \E i \in Image : ImageReserve(p, i)

\* Messages in the keeper's mailbox.
Handle(p) ==
    \/ HandleBegin(p) \/ HandleCommit(p) \/ HandleAbort(p) \/ HandleAck(p)
    \/ HandleFree(p)
Down(p) == HolderDown(p) \/ WriterDown(p)

\* The rest of a handler, or of init/1.
Continue ==
    \/ InsertRow \/ Reserved \/ SetCap \/ Retag \/ HeapShrunk \/ HeapGrown
    \/ Drop \/ Unhold \/ ForgetMeta \/ DeleteRow \/ GiveBack \/ AfterRetire
    \/ TxnRow \/ PublishChunks \/ PublishSize \/ PublishArena \/ Finish
    \/ GrantStep \/ Settle \/ Undone \/ NextTransaction \/ WriterGone \/ ReplyStep
    \/ FinishRetiring \/ RecoverRow \/ SweepImages \/ ReconcileCounters

\* A caller's own steps, once it has begun something.
Advance(p) ==
    \/ CreateMem(p) \/ CreateFails(p) \/ Look(p) \/ Extend(p) \/ ExtendFails(p)

Next ==
    \/ \E p \in Pid :
         \/ Request(p) \/ Handle(p) \/ Down(p) \/ Advance(p) \/ Die(p)
         \/ \E m \in Memory : \/ \E d \in Deltas[p] : Grow(p, m, d)
                             \/ \E n \in 1 .. MaxArena : NeedArena(p, m, n)
    \/ Continue \/ Crash \/ Restart

\* The mailbox is a queue, so a message is handled however often the keeper
\* is busy with another first; a scheduled process goes on; a killed keeper is
\* restarted by its supervisor or by the next call.
Fairness ==
    /\ WF_vars(Continue) /\ WF_vars(Restart)
    /\ \A p \in Pid : WF_vars(Advance(p)) /\ SF_vars(Handle(p)) /\ SF_vars(Down(p))

Spec == Init /\ [][Next]_vars
FairSpec == Spec /\ Fairness

-----------------------------------------------------------------------------
(* Properties.                                                             *)

\* What a handler can have left to do.
Frame ==
    [op: {"forget", "delete"}, res: Res]
    \cup [op: {"uncount", "settle", "size", "finish", "next"}, res: Memory]
    \cup [op: {"reconcile"}, res: {None}]
    \cup [op: {"unhold"}, res: Res, tok: Token]
    \cup [op: {"insert", "reserved"}, pid: Pid, res: Res, tok: Token]
    \cup [op: {"setcap"}, tok: Token, n: Nat \cup {NoCap}]
    \cup [op: {"reply"}, pid: Pid, res: {"done", "refused", "gone", "covered",
                                        "changed", "ok", "failed", "raised"}]
    \cup [op: {"drops"}, set: SUBSET (Res \X Token)]
    \cup [op: {"retags"}, set: SUBSET (Res \X Builds)]
    \cup [op: {"gone"}, set: SUBSET (Memory \X Pid)]
    \cup [op: {"recover"}, set: SUBSET Memory]
    \cup [op: {"retiring", "sweep"}, set: SUBSET Res]
    \cup [op: {"txn", "grant"}, pid: Pid]
    \cup [op: {"chunks", "arena"}, res: Memory, pid: Pid]
    \cup [op: {"giveback", "shrunk"}, res: Res, n: Int]
    \cup [op: {"grown"}, res: Res, n: Nat]
    \cup [op: {"undone"}, res: Memory, n: Int, d: Int]

\* Types.  The counters are kept apart: they are sums.
CountersOK ==
    /\ used \in Nat /\ bytes \in Nat
    /\ totals \in [Token -> Nat] /\ images \in [Image -> Nat]
StateOK ==
    /\ reg \in [Res -> Row \cup {None}]
    /\ caps \in [Token -> Nat \cup {NoCap}]
    /\ chunks \in [Memory -> Nat \cup {Absent}]
    /\ arena \in [Memory -> Nat \cup {Absent}]
    /\ size \in [Memory -> Nat]
    /\ up \in BOOLEAN /\ todo \in Seq(Frame)
    /\ held \subseteq Res \X Token
    /\ queued \in [Memory -> Seq(Pid)]
    /\ writers \in [Pid -> SUBSET Memory]
    /\ alive \subseteq Pid /\ cl \in [Pid -> Client]
    /\ builds \subseteq Builds /\ minted \subseteq Res
    /\ maker \in [Memory -> Pid \cup {None}]
    /\ fate \in [Pid -> {"none", "ok", "undone"}]
    /\ crashes \in Nat
TypeOK == StateOK /\ CountersOK

\* The page counter never falls behind what the rows are charged, in the
\* middle of any handler and after any crash (reserve before insert, insert
\* before release): a charge that went first could let the node pass its limit.
BudgetCovers == used >= Charges(reg) /\ bytes >= ImageTotal(reg)

\* Between two requests both counters are exactly what the rows add up to,
\* whichever handlers, deaths and restarts came before (reconcile_pages/0).
BudgetExact == Idle => used = Charges(reg) /\ bytes = ImageTotal(reg)

\* The caches the keeper moves by deltas (reverse index, holder totals, image
\* counts) are what init/1 would rebuild from the rows.
CachesExact ==
    Idle => /\ held = AdoptHeld(reg)
            /\ totals = AdoptTotals(reg)
            /\ images = AdoptImages(reg)

\* A reader that takes the size of a memory and then its chunk tuple always
\* finds the chunks that size needs: between the two writes of a commit, after
\* a crash there, and after recovery (grow_commit, settle/4).
SizeCovered ==
    \A m \in Observable : maker[m] # None /\ chunks[m] # Absent =>
        chunk_count(size[m], ChunkPages[m]) <= chunks[m]

\* No chunk can be reached that its row is not charged for, so undoing a
\* growth never leaves its chunks behind (published/2).
PublishedCharged ==
    \A m \in Memory : Live(m) /\ maker[m] # None =>
        /\ m \in Observable =>
             (chunks[m] - chunk_count(ImagePages[m], ChunkPages[m])) * ChunkPages[m]
                 <= reg[m].growth
        /\ ImageOf[m] # None => arena_cost(0, arena[m]) <= reg[m].arena

\* With no growth in flight, the size every process reads is the size the
\* registry charges holders for.
SizeAgrees ==
    \A m \in Observable : Live(m) /\ maker[m] # None /\ reg[m].txn = None =>
        size[m] = reg[m].pages

\* A memory laid over an image never loses the image's row, so the bytes it
\* reads stay accounted (reclaimable/3, after_retire/2, sweep_images/1).
ImageBacked ==
    \A m \in Memory : reg[m] # None /\ ImageOf[m] # None => Live(ImageOf[m])

\* A grower believes of its growth what happened to it, across retries, lost
\* replies and restarts: told {ok, _} only if the growth stands, told anything
\* else only if it does not or the memory is gone.
AnswerTrue ==
    \A p \in alive : cl[p].ph \in {"idle", "ack"} =>
        /\ cl[p].ans = "ok" => fate[p] = "ok"
        /\ cl[p].ans \in {"failed", "raised"} /\ Live(cl[p].res) => fate[p] # "ok"

\* A process that was given the right to grow keeps it: nobody settles the
\* transaction of a live writer, and no second one starts beside it.
GrantKept ==
    \A p \in alive : cl[p].ph \in {"extend", "commit"} /\ Live(cl[p].res) =>
        InFlight(p) \/ (cl[p].ph = "commit" /\ outcome(p) = "ok")

\* A published tuple or size is never replaced by a shorter one; a reader may
\* already be using what it names.  Only reclaiming the memory ends it.
PublishedOnlyGrows ==
    [][\A m \in Observable : maker[m] # None =>
         /\ chunks'[m] >= chunks[m] \/ chunks'[m] = Absent
         /\ arena'[m] >= arena[m] \/ arena'[m] = Absent
         /\ size'[m] >= size[m]]_vars

\* The ceiling an instance was built with bounds the memories it holds, for as
\* long as it holds one that was made with pages; with none of them the total
\* of the instance can return to zero, and sub_total/3 forgets the ceiling then.
\* A keeper killed inside transfer/3 loses it too, so only the life of the
\* first keeper is meant.
CeilingHolds ==
    Idle /\ crashes = 0 => \A b \in Builds :
        LET ours == HeldBy(reg, InstanceOf[b]) \cap Memory IN
        BuildLimit[b] # NoCap /\ (\E m \in ours : InitPages[m] > 0) =>
            Total([m \in ours |-> reg[m].pages]) <= BuildLimit[b]

\* What a dead process held is given back in the end, also when the keeper
\* dies before it hears of the death (adopt/0, forget_holder/3).
DeadReleased ==
    \A p \in Mortal, r \in Res :
        p \notin alive
            ~> reg[r] = None \/ \A t \in reg[r].holders : OwnerOf[t] # p

\* Every grower that asks is answered, unless it dies: "so the rest of the
\* queue is not left waiting" (next_transaction/2).  The queue of a memory that
\* is reclaimed is left waiting.
GrowerHeard ==
    \A p \in Pid :
        cl[p].ph \in {"begin", "queued"}
            ~> cl[p].ph \notin {"begin", "queued"} \/ p \notin alive

\* A grower that waits is answered, unless it dies or the memory is reclaimed
\* (next_transaction/2).
GrowerAnswered ==
    \A p \in Pid :
        cl[p].ph \in {"begin", "queued"}
            ~> cl[p].ph \notin {"begin", "queued"} \/ p \notin alive
               \/ ~Live(cl[p].res)
=============================================================================
