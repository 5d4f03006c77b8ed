# tactmon: TLA+ specifications, model checking and proofs

tactmon watches Blizzard's Ribbit service for new builds of the products it
knows, records them in PostgreSQL, loads their file tables from the CDNs,
announces them on Discord and serves single files out of the CDN archives
through an HTTP proxy. The program is C++ (`src/src/tactmon`), over a library
that speaks Ribbit and reads the TACT formats (`src/src/libtactmon`).

This directory models two things: the parts of the program whose correctness
depends on the order in which things happen, as state machines, and the parts
that compute something from their input (formats, statements, completions), as
operators compared with reference definitions. Each module is named after the
component it models and keeps the names of the code; the lines every
definition stands for are in `PROJECT.json` under `map`.

## 1. The system

| Component | State it keeps | Operations | Talks to |
|---|---|---|---|
| Connection pool (`backend/ConnectionPool.*`, `db/orm/PreparedStatement.hpp`) | deque of 10 connections, a mutex, a condition variable | `Prepare`, `Open`, `Return`, `Execute`, `ExecuteOne` | everything that touches the database |
| Product cache (`backend/ProductCache.*`, `backend/Product.*`) | list of records: product, expiry; the flags and listeners of each product | `LoadConfiguration`, `Load`, `AddListener`, expiry timer | called by Discord commands and by the monitor's listener |
| Ribbit monitor (`backend/RibbitMonitor.*`) and its listener (`Program.cpp`) | a timer; the `products` and `builds` tables; `newBuilds` | `OnUpdate`, the listener | Ribbit, the repositories, the product cache, Discord |
| Proxy session (`net/Session.*`, `net/Server.*`) | a socket, a request, an outgoing queue | `BeginRead`, `HandleRead`, `ProcessRequest`, `BeginWrite`, `UpdateOutgoing`, `HandleWrite` | HTTP clients, the CDNs |
| Repository caches (`backend/db/repository/*`) | a copy of a table under a mutex, a 60 s timer | `LoadFromDB_`, `Get`, `ForEach`, `Any`, `WithValues`, inserts and deletes | the pool, Discord commands, the monitor's listener |
| Discord frontend (`frontend/*`) | registered commands; the `command_states` table | `HandleReady`, `HandleGuildCreate`, the slash commands | Discord, the repositories, the product cache |
| Proxy transfer (`net/Session.cpp`, `beast/*`) | offset and length still wanted, decoder of the BLTE stream | failover between CDNs, `Parse` | the CDNs, the client |
| Resource cache (`tact/Cache.*`, `net/*DownloadTask.*`, `data/product/Utility.hpp`) | files on disk | `Resolve`, `ResolveCachedData`, `Run` | product loading, the CDNs |
| Product loading (`tact/data/product/*`) | configurations, encoding, install, root, indices | `Load`, `FindFile`, `FindArchive` | the resource cache, an executor |
| Ribbit client (`ribbit/*`) | none | requests, parsing of the answers | the monitor, product loading |
| TACT tables, BLTE, tokenizer, configuration files, streams, hashes | cursors of the streams | lookups and parsing | product loading, the proxy |
| ORM templates and tuples (`db/orm/*`, `utility/Tuple.hpp`) | none (compile time) | rendering of SQL, types of arguments and rows | the repositories |
| Command completion (`frontend/commands/ICommand.*`) | none | the choices of an option that is being typed | the repositories, Discord |

Threads: the pool of the database (timers of the repositories), the pool of
the product cache and monitor, the pool of DPP, which runs Discord handlers,
and the threads of the proxy's `io_context`. Almost everything a client can
trigger may run at the same time as the monitor.

What is hard here: several threads in `LoadConfiguration` with no lock;
`notify_one` outside the lock; a sequence number that is committed before the
work it announces is done; statements whose failure looks like an empty
result; a response queue that is emptied before the write it feeds is over;
handlers of one session on several threads; a decoder that is fed by one CDN
after the other and returns in the middle of a step; and, among the pure
functions, orders that have to agree in places far apart (placeholders and
arguments, fields and byte orders, sizes and offsets). `PROJECT.json` lists each hazard
at its line with the properties that watch it.

What makes each component correct:

* pool: a connection is never lost, shared or handed out inside somebody
  else's transaction; nobody waits for a connection that is there;
* product cache: a handler runs at most once, never after its request was
  refused, on a loaded product; records live as long as asked and no longer;
* monitor: what it has caught up with is recorded, publications are noticed,
  builds are announced once, where they belong;
* session: one read and one write at a time, and a session that ends;
* transfer: nothing that was not checked, or was sent before, reaches the
  client, whatever the CDNs send and wherever they break off;
* repository caches: readers see one moment of the table and the copy catches
  up; loops over a copy finish;
* loading: what is taken for a manifest is the whole manifest, leftovers of a
  stop are got over, concurrent downloads of a file do not spoil it, and a load
  outlives its tasks and does not wait for itself;
* commands: a command is sent once while it does not change, a change reaches
  the guilds that appear, and an interaction gets one last word;
* pure functions: what was written is what is read; a link leads to the file it
  was made for; an argument reaches its column; choices are exact.

## 2. Modules

### `ConnectionPool`, `ConnectionRental`, `ConnectionPoolProofs`

`pool` is `Pool::_pool`, `waiters` the threads in `_condition.wait`, `pc[t]`
the place of thread `t` in `Execute`; `conn[t]` is the local `Connection`,
`inWork` the connections with an open transaction, `prepared` what `Prepare`
did on each. Every critical section under `_mutex` is an action (`OpenTake`,
`OpenWait`, `Return`), and `Notify` is a separate one since `Return` unlocks
before `notify_one`. A wait may return by itself (`SpuriousWakeup`), a
transaction may fail to start or to finish (`BeginWork`, `FinishWork`), and a
statement may be refused after some connections have prepared it
(`PrepareThrows`), which ends the start (`ended`).
Start-up is the thread `Main`: the constructors of the repositories prepare
their statements and execute them; the others start afterwards. The code does
not enforce that order: refresh timers armed by the first repositories could
fire before the last `Prepare` if start-up took more than a minute.

`ConnectionRental` is what the pool promises: a connection is free or rented
to one thread. `RentalSpec` states that the pool implements it, with the set
of the deque's elements for `free` and `conn` for `held`.

### `ProductCache`, `MCProductCache`, `ProductCacheProofs`

One record per element of `_products`, with the fields of `backend::Product`
that callers see; records are numbered as they are inserted, and `products` is
the set of those in the list, whose order is that of their numbers. A caller goes through `LoadConfiguration` and
`Product::Load` one access to shared state at a time: `ScanHit` or `ScanMiss`,
`Refresh` (the new expiry), `HitLoading`/`HitLoaded`, `Join`, `Insert`, `Listen`, `Assign`, `Flag`,
`Download`/`DownloadFails`, `ClearFlag`, then one `RunListener` per listener.
`RemoveExpiredEntries` is the timer's walk along the list, `sweep` its place:
`BeginSweep`, then for each record `Examine` (has it expired), `Spare` and
`Prolong` (it is loading: `+=` is a read and a write) or `Erase`, `EndSweep`.
Callers run between any two of these steps, so a request may move an expiry the
timer has already tested, or that it is about to overwrite. Time is counted in
ticks and passes only while a caller downloads or runs a handler. The listener loop may run on a
vector that was reallocated or a record that was destroyed: `Crash` ends the
process there, and the behaviours that survive go on. Two threads inside the
same operation on the `std::list` are not modelled: its links are taken to be
whole. Whether a product has a factory is not part of the state: a miss may
find one (`Insert`) or not (`NoFactory`).

### `BuildMonitor`, `BuildMonitorProofs`

`remoteSeq` and `remoteVer` are Ribbit; `seq` and `builds` the two tables.
`Poll`, `Unchanged`, `NewSequence`, `EndPoll` are `OnUpdate`; `FetchVersions`,
`KnownBuild`, `NewBuild`, `InsertFails`, `ResolveFails`, `Announce` and
`EndListener` are the listener that `Program.cpp` registers. Statements and
requests fail at any time; as in the code, a statement that failed is seen as
one that returned nothing. `AnnounceThrows` is a call of Discord that throws:
the exception leaves `OnUpdate`, the rest of the poll is lost and nobody arms
the timer again (`Stopped`). `Restart` stops the process at any point and keeps
the tables. `excused` remembers, for the properties only, the products for
which a failure or a stop lost something. Records of the summary with a flag
(CDN, BGDL) are skipped by the code and not in `Products`; the HTTP proxy is
assumed to be configured, since without it nothing is announced at all.

### `HttpSession`, `HttpSessionProofs`

`reads`, `writes`, `writers` and `reader` are the asynchronous operations and
handlers of one session; `queue` is `_outgoingQueue`. The client pipelines
requests, closes, resets, sends half a request or lets the timeout expire.
`Threads` bounds how many handlers run at once: the acceptor does not put the
session on a strand. The relay of a file is one step here: `HttpSession` is the
abstract specification of `Proxy`.

### `ProxyTransfer`, `Proxy`, `MCProxy`, `ProxyProofs`

`ProxyTransfer` is what `ProcessRequest` does after the header of a download:
`CheckHost` and `Collected` are `CollectAvailableCDNs`; `Connect`, `NotFound`,
`BodyBreaks`, `BodyEnds` and `GiveUp` the loop over the CDNs; `Put` hands bytes
of any number to the decoder, whose steps are `NeedsMore`, `ParseHeader`,
`ParseTable`, `Deliver`, `BadChecksum`, `BlockFails` and `NestedFails`. A byte
is its position in the archive or `Junk`, so a property can tell which bytes
arrived; sizes count modulo `SizeMod`, because `Length` wraps for loose files.
The requests name their range without its unit, which servers ignore: every
answer is the archive from its first byte, an error page, or breaks off
anywhere, so what is decoded is the file the archive begins with. Its record is
where the file that was asked for starts and how long it is, the size of the
archive, the places where the blocks of its first file begin (and the last one
ends), and their modes. When the decoder asks for more (`need_more`), reading
goes on from the same CDN; other errors lead to the next.
`Proxy` composes it with `HttpSession`: the transfer runs on the thread in
`HandleRead` while other handlers of the session run, and every way it can end
(`HeaderUnwritten`, `TransferRefused`, `TransferEnded`) is a step of the
session.

### `RepositoryCache`, `RepositoryCacheProofs`

The two caches whose entries users edit, `tracked_files` and `bound_channels`.
`Load`, `LoadFails` and `Fill` are the timer: the statement runs without the
mutex, the replacement of `_storage` with it. `TrackAdd`/`TrackRemove` look in
the copy and `InsertFile`/`DeleteFile` change the table afterwards, so two
users, or one user before a refresh, decide on stale entries; `Bind` and
`Unbind` do not look. The push handler of `Program.cpp` walks both copies, one
inside the other, holding both mutexes while it talks to Discord
(`BeginChannels` ... `EndChannels`). A call of Discord may throw in either loop
(`PushThrows`), which unlocks both. `log` keeps every state a table had, and
`version` which of them the copy was read from, for the properties only.

### `CommandSync`, `Frontend`, `FrontendProofs`

`HandleReady` registers the commands, `HandleGuildCreate` walks them: `Skip`
when the recorded hash is the command's, otherwise `RequiresSynchronization`,
`Record`, `Send`, each statement being able to fail. `Answer` is Discord,
`Release` a new start of the program, possibly with other definitions. The row
of `command_states` is written as PostgreSQL executes the code's statement:
the conflict target is the generated `id`, so a row that exists is not updated.
`Frontend` adds the users: `Interact` is an interaction on the thread of the
shard, `HandleSlashCommand` and `HandleAutoComplete` hand it to the first
command that takes it, and the tasks of the pool are the handlers; `/download`
has several steps because it waits for a load. What is said is abstracted to
"thinking", "loading" and "final", and `replies` has what Discord accepted: for
a command that nobody takes the reply is refused, as a second initial response.

### `ProductLoad`, `MCProductLoad`

`name` and `data` are the directory of `tact::Cache`: an entry and its inodes,
since a file that was removed stays readable for whoever has it mapped. A file
is a sequence of parts, each good or bad. `act[<<l, f>>]` is the call of
`Resolve` that loader `l` makes for file `f`: `Look`, `Parse` and `ParseThrows`
are `Cache::Resolve`; `Connect` (which truncates), `WritePart`, `EndRead`,
`ErrorStatus` and `Delete` are `FileDownloadTask`; `NextHost` is the loop over
hosts and records. `stage[l]` is the place in `Product::Load`: `Advance` for the
files that are resolved one by one, `PostTasks`/`RunTask`/`Collect` for the
indices on the executor, `NextRoot` and `Finish` for the override in
`wow::Product`. The monitor's listener occupies a thread of the executor while
it loads (`Busy`), commands do not. Nothing locks the directory. `Stop` ends
the process anywhere, `Fault` where a mapping outlives its file; the next start
is `Init`, which leaves any prefix of every file on disk. `calm`, `hurt` and
`unexplained` are there for the properties only.

### `Formats` and the operators it calls

`Formats` is a machine of one step: a call of one function with one input of a
bounded set, and its result. Its properties compare the result with what the
input was built from. The operators are in modules of their own:

* `Tokenizer`: the overloads of `Tokenize`. The one that takes several strings
  uses a pointer to a dead loop variable, so it returns a set of results.
* `Streams`, `Keys`, `Lookup3`: cursors, integers in either byte order, text,
  hexadecimal, keys, how much is hashed, and Jenkins' hashes by the alignment
  of their input (what is added to which register; the mixing is a symbol).
* `RibbitFormat`: requests, records, both protocol versions, `Refresh`.
* `ConfigFormat`, `BlockTable`: configuration files and the BLTE container as
  `BLTE::Parse` reads it from a file.
* `TactTables`: install, encoding, index and root manifests, all lookups, the
  links of `/download` and of tracked files, and the request they lead to.
* `Statements`, `Tuple`: every SQL statement as the pieces its templates
  render, with the place where a space is missing, whether PostgreSQL accepts
  it (`Accepted`), the arguments the repositories pass, the rows they read back, and the
  tuple that stores its elements in another order than it shows.
* `Completion`: the options commands register and the choices they offer.

Texts are sequences of symbols, not of characters; a symbol is what the code
looks for (a separator, a line end, a known word).

## 3. Runs

Every run uses the configuration of the same name; all bounds are constants.

| Run | Shows |
|---|---|
| `ConnectionPool` | 4 threads, 2 connections, 2 statements, one call each: contention with two threads waiting at once, two returns before a wake-up. Type, conservation, transactions, preparation, wake-ups, completion of every call, refinement of `ConnectionRental`. 49 117 states. |
| `ProductCache` | 2 callers, 2 calls each, one build, lifetimes shorter than, and equal to, the insertion's; 4 ticks with a timer of period 2: joins, duplicates, failures, evictions during and after loads, requests in the middle of a sweep. 2.5 million states (callers are symmetric). |
| `ProductCacheEarlyHandler` | violation of `HandlerSeesLoadedProduct` |
| `BuildMonitor` | one product in two regions, two publications, two starts of the process, three rows (enough for one duplicate), announcements that throw. 412 313 states. |
| `BuildMonitorChannels` | violation of `AnnouncedOnItsChannels`, two products |
| `Proxy` | two pipelined requests, two threads, a queue limit of 2, two CDNs, files that are loose or in an archive, of one or two blocks in all modes. One read at a time, failover and decoding, a clean close ends the session. 240 420 states. |
| `HttpSessionWrites` | violation of `OneWriteAtATime` |
| `ProxyChecksums` | violation of `WholeFileDelivered` |
| `RepositoryCache` | refreshes against commands of users and a push in progress: snapshots, valid iterators, catching up, pushes that end. 88 443 states. |
| `Frontend` | two guilds, one command with two definitions, three releases of three events, two interactions at any time: first synchronisation, change, change back, repeated READY. 3.2 million states. |
| `ProductLoad` | the monitor and a command load the same build at once: one manifest and one index of two parts, one root, two hosts, two threads, over any leftovers. Whole manifests, no disturbance but the ones named, convergence of the downloads, tasks that end first, nobody stuck, every `Load` returns. 462 499 states. |
| `Formats` | every pure function over its bounded inputs. 11 540 calls. |

Types are checked in each machine, mostly as a conjunct of the
invariant that needs them (`LoaderKeepsRecord`, `RecordedBuildIsFound`,
`IteratorsStayValid`, `ManifestsAreWhole`, `OneReaderAtATime`).

Why the bounds are enough: contention needs more threads than connections and
two waiters, hence 4 and 2 (the thread `Main` also calls). In the product
cache each interaction involves a loader and one other caller; two calls each
let a caller come back after an eviction or a failure. In the monitor a
publication is a new build, or one published before with other configurations,
in some of the regions: two publications are enough for a region that lags, a
build that comes back and a configuration that changes alone. The session
reaches its limit with two requests and a backlog of 2. In the transfer one
block and two blocks are the cases that differ, every split of the bytes into
buffers is tried, two CDNs are one failover, and `SizeMod` is larger than any
file. Three releases are what a change that is taken
back needs, and a second guild what a state shared by all guilds needs. For
loading, two parts are what it takes to be cut short or overwritten in the
middle, two hosts what failover takes, and two threads are the fewest with
which `Load` can finish: with one (`thread-count` 1) the listener waits on the
only thread that could run its tasks. The run has no configuration files;
they go through the same `Resolve`, without a checksum. The inputs of
`Formats` have up to three elements of a kind (rows, lines, chunks, keys,
pages, options): none, one, and a neighbour on either side.

Fairness. In the pool, a thread inside `Execute` keeps running (`WF` on
`Step(t)`); calling `Execute` is not assumed. `EveryCallCompletes` relies on
the number of calls being finite: the condition variable is not fair to
waiters. In the monitor, `BeginUpdate` re-arms the timer on every path that
returns to it, hence `WF` on `Work`, which does not include the path that throws
(`AnnounceThrows`); an up-to-date summary and a successful statement on the
products table are assumed to happen again and again (`SF`), which is what
"the services are not down for ever" means. In the session, operations
complete and handlers return (`WF` per operation). In the repository caches
each refresh re-arms its timer (`WF`), the `SELECT` does not fail for ever
(`SF`), and a command or push that started goes on when its mutex is free (that
a call throws is possible and never assumed).
The transfer adds to the session that the connections to the CDNs complete or
time out. In the loading of products threads that can run do (`WF` on
`Progress`: one step of any load, download or task); nobody is obliged to call
`Load`, no fairness between loads is assumed, and requests may all fail.
`LoadsReturn` holds because the steps of a load are finite in number.
`Frontend` has no liveness property: nothing is retried there. Deadlock
is checked in every run; `Terminating`, `Destroyed` and `Stopped` are the only
legal ends.

## 4. Proofs

Every theorem holds for all values of the constants that satisfy the named
assumptions of its module: any number of threads, callers, guilds, products,
files and steps. The bounds of the runs appear in the proofs only as the
parameters they are (`MaxCalls`, `MaxTime`, ...). Each inductive invariant was
checked by TLC on the run of its module before it was proved. `Type`
conjuncts are part of each invariant and are not repeated below.

**`ConnectionPoolProofs`** (threads finite, capacity above zero)

* `PoolConservation`, for `ConnectionsConserved`: the types and that each
  connection is in one place. Neither is inductive alone:
  that the deque has room for a returned connection (`Len(pool) < Capacity`)
  follows from each connection being in one place, and that one needs types.
  Together (`PlacesInv`) they are. The lemma `RoomForMissing` is the counting
  step: a duplicate-free sequence over `1..Capacity` which misses an element
  is shorter than `Capacity`.
* `PoolTransactions`: on top of `PlacesInv`, a transaction belongs to the
  thread that is `working` on its connection.
* `PoolPrepared`, through `StartUpInv`: while statements remain to be prepared
  only `Main` may be away from `idle`, and what is no longer in `toPrepare` is
  prepared on every connection.
* `PoolNoLostWakeup`: with waiters, the deque is not longer than the number of
  threads that are about to take or to notify. `RespondersLeave` and
  `RespondersJoin` say how that number changes.
* `PoolNeverStuck`: while a call is under way some thread is inside `Execute`
  and not blocked. Were all the others blocked, no connection would be rented,
  so the deque would hold all of them, and `NoLostWakeup` forbids waiters then.
  This is the safety half of `EveryCallCompletes`.
* `PoolRefinesRental`: every step of the pool is a `Rent`, a `GiveBack` or a
  stutter of `ConnectionRental`.

**`ProductCacheProofs`** (callers finite; no lifetime is longer than that of
an insertion, since both callers in the code use the default, which is the
same 15 minutes)

* `CacheEvictsOnTime`, `CacheKeepsAsLongAsAsked`, from `CacheInv`. `OwnerInv`:
  a record has one owner from its insertion to the end of its listeners, and
  only the owner changes its loading flag; a record being inserted has not
  expired (time does not pass between statements), one being loaded has the
  flag set, so the timer spares both. `TimeInv`: the timer is due within a
  period, and what it left in the list had expired by less than one. `SweepInv`
  is about the middle of a sweep: the clock stands at the timer's time, what was
  passed has not expired, and the record the timer has found expired was not
  asked to stay longer before that test. A request after the test comes too
  late, which the property says.
* `CacheBoundedDuplication`, from `DuplicationInv`: the records of a build
  together with the callers that missed it and have not assigned it yet are
  not more than the callers. Whoever misses saw no record at all.
* `CacheAnswerIsKept`, from `AnswerInv`. `QueueInv`: no call is in two queues,
  nor twice in one, and only a record just inserted has none. `FreshInv`: a
  call nobody was given yet left no trace. `CallerInv`: the calls a loader is
  going to run (`Awaited`) are pending and in the queue of its own record, so
  no two callers can run the same handler, and its own call is among them or
  has been run. One lemma per kind of step; what other callers keep is
  `OthersKept`.
* `CacheLoaderKeepsRecord`, whose type invariant bounds the number of records:
  `RecordsBounded` maps each record to the call that inserted it, one to one.

**`BuildMonitorProofs`** (the products the program knows of are among Ribbit's)

* `MonitorFound` and `MonitorAnnouncedOnce`, from `BuildsInv` (rows are
  numbered, and what the listener found this run inserted) and `FoundInv`.
* `MonitorCaughtUp`, from `CaughtUpInv`: a product whose stored number is
  Ribbit's has its builds in the table, or the listener is at work on it with
  what Ribbit serves, or a failure excuses it. It rests on stored numbers, and
  those of a summary in hand, never being ahead of Ribbit's (`RemoteInv`).

**`HttpSessionProofs`, `ProxyProofs`** (finitely many CDNs; all the bytes that
they can send in one download are within the range of `std::size_t`)

* `SessionOneReader` for the session alone. `ProxySessionSafe` for the composed
  system: each of its steps is a step of the session or leaves it alone (the
  lemma `ProxyRefinesSession`).
* `ProxyDelivers`, from `BytesInv` (bytes are places in the archive or junk),
  `DecoderInv` (an entry of the table is the file's, or has a checksum nothing
  matches) and `DeliveryInv`: a block is delivered as a whole and once, and a
  block that was sent in part is `Lost`: the decoder does not find its begin
  again, although the next CDN sends the archive from its beginning.

**`RepositoryCacheProofs`**: `RepositorySnapshot` from `CacheInv` (the copy and
the result that is to replace it are states the table had, or empty after a
failure) and `RepositoryIterators` from `PushInv` (the mutexes that are held are
those of the loops, and the loops are over copies nobody changes).
`RepositoryNeverStuck`: who holds a mutex from one step to the next is the push
handler, and it has a step whose guard holds. It takes the two mutexes in one
order and is the only one to hold two, so nobody waits in a circle.

**`FrontendProofs`** (finitely many commands): `FrontendPublishedOnce` and
`FrontendChangeReaches` from `SyncInv`. A row's hash was made with its own
version (`TableInv`); unless a statement failed or the definition changed, the
row is about the definition, was there before the first request and the
command was sent at most once (`OnceInv`). `FrontendAnsweredOnce` from `TaskInv`
(a task works for an interaction that was asked, is the only one to, has still
to say its last word, and runs a command this start registered) and `ReplyInv`
(nothing is said after the last word).

**`ProductLoadProofs`** (loaders finite, the monitor among them; indices,
manifests and roots are different files, as their paths are)

* `LoadTasksEnd`, from `StageInv`: at each place of a Load only the activities
  that belong there run. Forms of the root are tried in order and at most one
  has not failed, so none runs when one was found.
* `LoadManifestsWhole`: what was resolved stays resolved until Load returns, and
  of a keyed file the parsers take nothing but the whole (`ActInv`).
* `LoadUndisturbed`, from `CalmInv`: what a load wrote that nobody disturbed is
  still at the path, good up to where it is. Other downloads may write into the
  same file meanwhile: they write the same parts at the same places
  (`PutGood`); only truncation, removal and the text of an error disturb.
* `LoadDownloadsConverge`, from `ConvergeInv`: of a file no failure touched, all
  parts are good, or some download has written all parts up to its own place
  into the file at the path: the one that truncated it last.
* All steps of `Resolve` are shown to be of one form (`StepOK`), the steps of
  `Load` of another (`Quiet`), and the invariant is carried over each form once.
  `Fresh` is the counting step: there are as many inodes as loaders, and the one
  that connects has none.
* `LoadGoesOn`, for `LoadsNeverStuck`, from `WorkInv`: at each place of a Load
  every activity it needs has been started or posted, and only index tasks are
  posted. If none of them runs and some are posted, a thread of the executor is
  free or is busy with a task: the monitor occupies one thread at most, and
  commands none (`ThreadLeft`). The forms of the root need the first that has
  not been tried (`Smallest`, the least-number principle). The theorem has a
  hypothesis, `PoolThreads > 1`: `thread-count` is an option whose default is
  twice the number of processors (`Program.cpp:76`); with 1 the monitor's
  `Load` waits on the only thread that could run its tasks.
* `LoadMeetsNoLoop`, an action property: a step takes a Load back to its caller,
  or to a later place, or leaves it at its place and takes its files on to a
  later host, a later step with the same host, or a later part. All of these are
  bounded. Together with `LoadGoesOn` this is the argument for `LoadsReturn`;
  only its last, temporal step is left to TLC.

Only model-checked:

* the liveness properties `EveryCallCompletes`, `PublicationsAreNoticed`,
  `CleanCloseEndsSession`, `CacheCatchesUp`, `PushesEnd` and `LoadsReturn`:
  fairness is out of the prover's reach. That nobody is stuck, which three of
  them rest on, is proved with the guards written out in place of `ENABLED`;
* the properties of `Formats`: they are about recursive operators, and what
  these compute for every input needs induction over data.

## 5. Where code and documentation disagree

Four runs end in a violation and are recorded as findings:

* a handler may be given a product that is not loaded: `Product::Load` sets
  `_currentBuild` before `_loading`, and a caller in between finds a record
  that is not loading; a failed load leaves a record that looks loaded;
* `newBuilds` belongs to `Execute`, not to one call of the listener, so builds
  of one product are announced again on the channels of the next;
* `UpdateOutgoing` removes the message before its write completes, so the next
  response starts a second write on the same stream;
* the decoder of the proxy computes a block's checksum over one byte less than
  the block, so no block of a file with the checksums of its format validates.

The program as committed does not start. `Build::Build` prepares
`Builds.SelStatistics` (`Build.cpp:12`), whose `OFFSET` has no number because
`Offset<Constant<0>>` renders no digits (`entity/Build.hpp:97`);
PostgreSQL refuses it, `Pool::Prepare` throws, and `main` catches only errors of
the command line. `BoundChannels.Delete` and `TrackedFiles.Delete` would follow:
`delete/Query.hpp:22` renders `DELETE FROM` and the name of the table without a
space between them. `StatementsBindInOrder` says of every statement whether it
is accepted. The other modules describe the program past its start, as it is
once these statements can be prepared; a `DELETE` is taken to do what it says.

Seen while modelling, without a run of their own: a handler queued after the
listeners ran is never called (`ProductCache.cpp:44`); the insertion uses
15 minutes whatever lifetime was asked (`ProductCache.cpp:55`); a lookup that
failed leads to a second row for the same build (`Program.cpp:191`), after
which `ExecuteOne`, which wants exactly one row, never finds it again; the
session is not on a strand (`Server.cpp:80`); errors other than
`end_of_stream` do not end a session by themselves (`Session.cpp:50`).
A request that prolongs a build's stay is lost when it falls between the timer's
test and its decision, or into its `+=` (`ProductCache.cpp:15-26`), where the
comment at line 39 says that the expiry is updated. A call of Discord that
throws during a push (`Program.cpp:237`, `:279`) ends the monitor's timer chain
for good: the exception is logged by the thread that ran the handler, what was
left of the push and of the poll is lost, and nobody arms the timer again.
The upsert of
`command_states` names `id` as its conflict target (`CommandState.hpp:40`)
while `name` is the unique column: a row that exists is never updated, so a
command that changed is sent at every `GUILD_CREATE` from then on, and one
that changes back is believed to be in place. The table is not per guild
(`Discord.cpp:139`), so a second guild is not sent a command that did not
change; and the row is written before Discord accepts the command. A channel
bound twice has two rows and gets two announcements. `RegisterFactory` keeps the factory
that is there, where its remark says it is overridden (`ProductCache.hpp:42`).

In the loading of products: a failed read is logged and the partial file is
returned as a stream (`DownloadTask.hpp:125`), where the comment promises an
empty optional; the file stays under its final name. Manifests are protected by
their checksums, but a configuration that was cut short is accepted, and an
index without a valid footer becomes an index without entries that is never
downloaded again. A missing key in such a configuration makes `substr` throw
inside `Load`, which is `noexcept`. The guard against underflow in `Index.cpp:18`
compares after the subtraction has wrapped, and its `continue` would not end.
A loader that truncates a file which another has mapped makes that one fault.
`BLTE.cpp:54` feeds `size_t` values to the hash of the header, 8 bytes each
where the format has 4, so on 64-bit builds no manifest matches its encoding
key: with keys `BLTE::Parse` returns nothing, as `DocumentsReadBack` says.
`ProductLoad` takes the check to be the one that was meant. `BuildConfig.cpp:110` keeps empty lines and then looks at their first
character and token.

In the proxy and the commands: `Session.cpp:166` and `:230` send
`Range: a-b` without the unit `bytes=`, which servers ignore. Each CDN answers
with the archive from its first byte, so a client gets the first file of the
archive, whichever it asked for, and the failover that "will make sure we
currectly resume from another CDN" (`Session.cpp:152`) starts over. So does
`DownloadTask.hpp:101`, which sends no range at all for offset 0. A loose file has length 0, which wraps when the
first bytes arrive (`Session.cpp:154`); links of tracked files carry the size
in the archive (`Program.cpp:269`) where `Server.hpp:37` and `Session.cpp:69`
say the decompressed size, as `/download` does, so the proxy announces a wrong
`Content-Length` (`Session.cpp:129`); a size of 0 is refused. They keep the
backslashes of a tracked path, since `path::filename()` does not split there on
Linux, and the proxy refuses a target with one (`Session.cpp:88`); `/download`
cuts the name itself. `HandleSlashCommand` answers a command nobody takes with
`reply` after `thinking` (`Discord.cpp:165`, `:171`), a second initial response:
Discord refuses it and the user is left with "thinking". The handler of `/download`
refers to locals of a task that may have ended (`DownloadCommand.cpp:82`), and
when the load fails the user is left with "Loading...". Choices for the options
of flat commands are not filtered by the product chosen, and the path of a
tracked file is only completed for "add", whose registration does not ask for
completions. `Interrupt` and `Server::Stop` join threads whose work never ends
(the timers and the accept loop re-arm themselves), the first from one of these
threads; a server that could not bind accepts in a loop that fails each time.

In the formats: background downloads are asked for at the path of the CDNs
(`Commands.hpp:62`), and the first record of such a document is removed
(`Commands.cpp:74`) as the row of the column names, which according to the
comment before it parses as a record, and does not; a row whose last column is empty is refused;
a V2 response that is cut off is a shorter document. `ReadCString` does not end
at the end of a stream, `MemoryStream` reads nothing, `SpanStream` copies the
bytes behind those it was asked for (`MemoryStream.cpp:9`), the name
hashes of a root block among them; these are 64 bits wide while `JenkinsHash`
returns 32, so no name is found in a root. A root without the TSFM signature is
read from its second word on (`Root.cpp:72`), and an identifier that is absent
finds the next one (`Root.cpp:183`). Sizes of archives that come before their
names are written past a vector (`CDNConfig.cpp:35`). Statements that select by id are prepared
and never executed.

## 6. Not modelled, and the plan

Not modelled:

* The acceptor, the thread pool and the end of the process. The threads are the
  actors of the modules; a session starts with its connection; a stop is the
  loss of everything in memory, wherever it happens (`Restart`, `Stop`).
* Logging and the text of messages.
* About half of the C++ in the tree is not the program's own: `ctre.hpp` (5 725
  lines), libassert (3 625). They are used in one regular expression and in
  assertions. `lookup3.hpp` is modelled, without its arithmetic.
* The templates `With`, `Replace` and `Raw` of the ORM, `EKeySpecPageTable` and
  `Install::Tag::Matches`: no code instantiates or calls them.
* A torn `std::list` in the product cache, and what a dangling reference does.
* The internals of boost.asio, DPP, libpqxx, PostgreSQL and zlib, which are
  modelled by how the code uses them.

Every safety invariant of the state machines that can be proved here has its
theorem. What is left is to prove along with the model whatever is added to it.
