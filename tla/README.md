# DNS Multiplexer: TLA+ specification

DNS Multiplexer is a DNS forwarder that spreads queries over a pool of upstream
resolvers, tracks which of them work, and optionally runs a DNS tunnel client on
top of itself. This directory holds a specification of its Go implementation
(`src/*.go`), model-checked with TLC; its safety properties are also proved with TLAPS.

## 1. Inventory

| Part | State it keeps | Operations | Interacts with |
|---|---|---|---|
| Resolver pool, `pool.go` | rotation, health map, list of healthy resolvers, statistics, failure streaks, callback, one `RWMutex` | `GetNext`, `MarkSent`, `MarkSuccessWithLatency`, `MarkFailure`, `HealthCheck`, `UpdateResolvers`, `SetOnResolverDown` | everything below calls it |
| UDP and TCP proxy, `proxy.go` | semaphore slots, one goroutine per query, the listening socket | accept, forward with one retry, reply, rebind, stop | pool, cache, `transport.go` |
| Answer cache, `cache.go` | map, LRU list, expiry times | `Get`, `Put` | the two proxies |
| Hot reload, `reload.go` | last modification time, mutex | poll, `Reload` on SIGHUP, `Stop` | pool, the resolvers file |
| Auto-scanner, `autoscan.go` | `readyCh`, `rescanCh`, `stopCh` | initial scan, periodic and emergency scan, thinning check | pool, scanner, findns, `runTunnelMode` |
| Scanner, `scanner.go` | results under a mutex, worker semaphore | verify all resolvers, report early | auto-scanner |
| Tunnel manager, `tunnel.go` | the slipnet and ssh processes, `stopped` | start, monitor, restart, stop | `runTunnelMode`, child processes |
| Compatibility scan, `scanner.go` | results under a mutex | seven tests per resolver, sort, print the best | `main` with `-scan` |
| findns, `findns.go`, `embed.go` | temporary directories, an external process | unpack, `Scan` | auto-scanner, `runTunnelMode` |
| slipnet profiles, `config.go`, `tunnel.go` | none | parse, patch, generate | `runTunnelMode`, tunnel manager |
| Cover traffic, `cover.go` | `done` | send decoy queries, stop | pool (`GetNext`, `SendQuery` only) |
| Program, `main.go` | the flags, where each goroutine stands | check flags, probe, start the parts in order, wait, shut down | all |
| Installer, Python variant | - | - | - |

What is hard about it: handlers, health checks, reloads and scans run in
goroutines that share one lock; two of the pool's operations block while they
hold it; lists and counters are read outside the lock and used later; probes and
queries end in any order or time out; callbacks race with the scan they ask for;
a file changes while it is being read; sockets fail under handlers that still hold
them; startup waits without a timeout for a signal another goroutine has to give;
and shutdown may come at any point of all this, from a signal or from `os.Exit`.

What makes each part correct:

- pool: the list to draw from is never empty or stale; a resolver at its failure
  limit is out of rotation; nobody keeps the lock for ever;
- proxies: every query ends and is counted exactly once; no missing statistics
  are dereferenced;
- listeners: no socket is leaked or closed without a reason, and the proxy comes
  back after an error;
- cache: it is an LRU store, nothing is served once its TTL has passed since it was
  stored, and what clients keep too long stays bounded;
- reload: the watcher takes no version of the file for read that was not, and an empty
  file does not empty the pool;
- auto-scanner: no announced failure is lost, and readiness is signalled on every path
  that ends;
- scanner: one list is handed over per scan, and it names the best resolvers;
- profiles: slipnet gets the profile that was checked, for the address and the
  domain that were meant;
- program: the startup probe ends, a signal ends the program whatever hangs, an
  orderly end leaves nothing behind but a findns scan it cut off, and it fails only for
  a reason;
- tunnel manager: one process of each kind, chained to each other; a dead process
  is restarted; nothing survives `Stop`.

The hazards behind these properties are listed, line by line, in `PROJECT.json`.

## 2. Modules

| Module | Models | Uses |
|---|---|---|
| `ResolverPool` | `pool.go` under a most general client: any goroutine calls any operation at any time | - |
| `ResolverPoolProofs` | theorems about it | `ResolverPool` |
| `DNSProxy` | `forward`, `handle` and `GetNext`, with health checks and reloads | extends `ResolverPool` |
| `DNSProxyProofs` | theorems about it, and that it implements `PoolSpec` | `DNSProxy`, `ResolverPoolProofs` |
| `DNSCache` | `cache.go` | instance of `LRUStore` |
| `LRUStore` | what the cache promises: an abstract LRU store | - |
| `CachedProxy` | the handlers of `proxy.go` over the cache | extends `DNSCache` |
| `CachedProxyProofs` | theorems about it, and that it implements `LRUStore` | `CachedProxy` |
| `Listener` | `Start`, `bindWithRetry` and `Stop` of the two proxies | - |
| `Profile` | `ParseSlipNetURI`, `patchProfile`, `generateProfileURI` | - |
| `CompatScan` | `scanResolver` and `runScan` | instance of `Ranking` |
| `StartupProbe` | `ProbeResolvers` | - |
| `Program` | `main`, `runTunnelMode`, findns, unpacking, cover traffic | extends the four above |
| `ProgramProofs` | theorems about `Program` and the four it extends | `Program`, `RankingProofs` |
| `Reloader` | `reload.go`, the SIGHUP goroutine, the file | extends `ResolverPool` |
| `AutoScanner` | `autoscan.go` and the wait in `runTunnelMode` | extends `ResolverPool` |
| `PoolUsersProofs` | theorems about these two, and that they implement `PoolSpec` | both, `ResolverPoolProofs` |
| `TunnelManager` | `tunnel.go`, its child processes, and `runTunnelMode` as its caller | - |
| `TunnelManagerProofs` | theorems about it | `TunnelManager` |
| `Ranking` | the insertion sort and the picking loop that both scans have | - |
| `RankingProofs` | theorems about them | `Ranking` |
| `VerifyScan` | the verify scan of `scanner.go`, `processResults` of `autoscan.go` | instance of `Ranking` |
| `VerifyScanProofs` | theorems about it | `VerifyScan`, `RankingProofs` |
| `MC*` | the instances TLC explores | the module of that name |

Definitions carry the names of the functions they model. Operators whose comment
begins with "Mutant of" are deliberately wrong variants; they are used by no
specification and serve to show that each property can fail.

### ResolverPool

Critical sections that cannot block are single steps whose guard is `mu = Free`.
`HealthCheck` is five actions, because it reads the list without the lock
(`HCLaunch`), takes the lock, and receives results one at a time while it holds
it. `UpdateResolvers` is one action that ends with the caller still holding the
lock: its last statement calls `ExportVerified`, which requests the read lock of
the same non-reentrant mutex, so there is no later step of that goroutine. A
resolver list is the set of the resolvers in it (the code keeps one that is given twice
twice, which only makes it likelier to be drawn) and latency is left out, since `GetNext`
keeps the best of at most three draws with replacement and so can return every
member of the list.

`PoolSpec` is the unbounded specification that other modules are held to; `Spec`
adds the bound `MaxCalls` on the counters, for TLC.

### DNSProxy

One handler per semaphore slot. A handler goes through `read` (TCP only),
`lookup` (cache), `next`, `draw`, `load`, `scored` (the steps of `GetNext`),
`wait` (upstream), `ok` or `fail` (waiting to mark the outcome), `reply`. The
steps inside `GetNext` are separate because the lock is released between them:
the list copied in `next` may be obsolete in `draw`, and the two counters of the
score are loaded one after the other. A second attempt goes through the same
labels with `failed` set; one that draws the same resolver is given up
(`GiveUp`), as in the code. The cache is a nondeterministic hit or miss.

### DNSCache, LRUStore, CachedProxy

`items` and `order` are the map and the list. An answer is the set of its TTLs.
`lastUse` and `uses` are history; `reply` is the result of the last `Get`.

`LRUStore` has neither list nor map: a set of answers, each with the rank of its
last use, and three operations described by what holds after them. `DNSCache` maps
its map and its history to them (`Store`), and `IsLRUStore` says that it implements
the store: `Get` takes live answers only, `Put` forgets those used longest ago and no
more than it must.

`CachedProxy` runs handlers over the cache: look up, ask upstream, mark the resolver,
store, write. Time passes while a handler waits for upstream and while it waits for
the lock of the pool before it stores. `since` is the moment the upstream answered. The
expiry of an entry is counted from `Put`, so that wait is added to a record's life; an
answer that waits longer than `MaxWait` is never stored, and `KeptAtMostTwice` has the
wait in its bound. The code has no limit on the wait: it is a parameter.

### Listener

`loc` is where `Start` stands: `bind` and `listen` (the two halves of the loop in
`bindWithRetry`), `assign`, `loop`, `read`, `slot` (it has read a query and waits for
the semaphore), `error`, `close`, and `nil` or `err` when it has returned. `proto`
tells the UDP proxy, which replaces a broken socket, from the TCP proxy, which
returns. `Stop` is two steps that interleave with all of them, because it reads
`u.conn` without a lock. A bind is granted only if no socket of the program is open,
as the kernel would have it. `broken` is history: which sockets have failed.

### Profile

A URI is a scheme, the way its base64 text is spelled (padded, unpadded, garbled), and
the fields it stands for. Parsing and patching decode it separately, each with its own
length check, as in the code. Fields only slipnet reads are carried along. The types of
tunnel that end in `_ssh` are the domain of the constant `Stem`, which maps each to what
`strings.TrimSuffix` leaves of it; that may end in `_ssh` again.

### CompatScan

What the network does to the queries for one resolver is a record of replies; the
seven tests and the score are functions of it. Workers append in any order; the sort
of the summary is that of `Ranking`. A "stub" reply is four to seven bytes long, which
some tests accept and others do not.

### StartupProbe

One goroutine per resolver: `todo`, `query`, `send` (it has its result and wants to
deliver it), `delivered`, `received`. `main` starts all of them before it receives. Here
and in `CompatScan` and `VerifyScan` a list is a set of entries: `parseResolvers` does
not remove duplicates, and a resolver given twice is two entries.

### Program

The composition: `main` goes through `flags`, then either `scan`, or `probe`, `start`
(standard mode), or `unpackFindns`, `start`, `wait`, `unpackSlipnet`, `tunnel` (tunnel
mode), and `notify`, `serve`, `stopParts`, `stopProxy`, `return`. Beside it run the
listener, its handlers, the cover traffic, the scanner with its findns process, the
reloader, and signals. `exit` records how the process ended; after that nothing moves.
`os.Exit` in any goroutine ends it without the deferred calls, and so does a panic:
`-scan-interval` is only parsed and `-scan-workers` not looked at, so that a ticker or a
channel may be made with a number it does not take (`ScannerPanics`); with no workers
the built-in scan hangs. `procs` and `temp` are the child processes and the directories
that exist. findns runs without a timeout or a context, and nothing kills it when the
program ends. The auto-scanner, the
tunnel manager and the reloader are reduced to where they can delay `main`, lock the
pool for good, end the program, or leave a process or a directory: their own modules
have the rest.

### Reloader

Two goroutines, the watcher and the SIGHUP receiver, run `doReload` under `r.mu`.
Every edit gives the file a new modification time. `readTime` is history: which
version of the file was last read.

### AutoScanner

The scanner goroutine, the callbacks of the pool, and `runTunnelMode` up to the
start of the tunnel. Each case of the loop's `select` is an action. The thinning
check is two actions because the count is read under the lock and used after it.
`unscanned` is history: a resolver has been announced down since the last scan
began. What a scan finds is any list of `FoundLists`; a findns scan need not end.

### TunnelManager

A slipnet or ssh process is `running`, has been sent SIGTERM or SIGKILL (`term`,
`kill`), or is `gone`; it may exit at any moment. Its monitor goroutine has the
same identifier and goes through `wait` (`cmd.Wait`), `stopSSH` and `stopping`
(only the monitor of slipnet), `pause`, and `waitForPort` if it restarts a chain.
The lock is held across steps only in `waitForPort`, because `startWithSSH` waits
for the port with it. `Stop` is five actions, since it releases the lock before
it signals and awaits the two processes in turn. `Start` failing ends the program
(`exited`) without stopping what it had already started. An identifier is used
again when nothing refers to it, so that restarts are unbounded in a finite model.

### Ranking

A loop is the function from the number of passes to the list after them, and
`CompareSwap` is one comparison of the inner loop. `Picked` is the loop that appends
what passes a test. The comparison `Ahead` is a parameter, because `autoscan.go` and
`scanner.go` have the same loops with different ones.

### VerifyScan

One goroutine per entry of the list, at most `Workers` of them between launch and release
(`sem`). `Verify` is the critical section that records a result, with the early
callback: the worker that reaches the target of an initial scan enters
`UpdateResolvers` (`updating`), which it does not leave, with its slot.
`LateReady` is the code after `wg.Wait`. `SortVerifyResults` is the sort of `Ranking`
by `Better`, and `Qualified` the selection from its result.
`initial` tells `verifyResolversWithEarlyReady` from `verifyResolversQuiet`.

## 3. Runs

| Run | Result | What it shows |
|---|---|---|
| `proxy` | holds | list never empty or stale, streak implies down, health check never starved, conservation of queries, no nil statistics, success rate at most one, use of the pool within `PoolSpec` |
| `proxy_live` | holds | every query ends while the list is not replaced |
| `cache` | holds | list matches map, the cache implements an LRU store, no record is served once its TTL has passed since it was stored, or kept beyond twice its TTL and the wait to be stored |
| `reloader` | holds | the watcher takes no unread version for read once it runs, pool never emptied |
| `scanner` | holds | no announced failure lost, loop only after readiness; until a list is found and unless findns hangs, failures lead to scans and startup completes |
| `tunnel` | holds | one chain of processes, nothing survives `Stop`, `Stop` returns, dead processes come back unless the attempt fails |
| `verify` | holds | one list per scan, sound, and the best in a rescan; slots accounted for; every entry is tested although the callback keeps a worker |
| `program` | holds | sockets neither leaked nor closed without a reason, the proxy comes back; the probe ends; a signal ends the program even with the pool locked; an orderly end leaves at most a findns scan, failure only for a reason; slipnet gets the right profile and domain; the scan names the best |
| `proxy_reload` | violated | after one reload no query ends |
| `pool_callback` | violated | a health check takes resolvers down unannounced |
| `thin_pool` | violated | with every resolver down the thinning check sees a full pool |
| `early_edit` | violated | an edit before the watcher starts is never read |

The cause of `proxy_reload` is the self-deadlock of `UpdateResolvers`. It shows
elsewhere too: a scan that finds resolvers never comes back from handing them
over, so that after a successful initial scan readiness is not signalled and the
tunnel does not start. The liveness properties of `scanner` therefore end where
`UpdateResolvers` is entered, and so does what `NoLostEdit` is worth: after the first
list that is handed over the watcher checks no more, and every later edit stays unread.
The deadlock also hides another problem: if
`ExportVerified` did not block, `HealthCheck` could wait under the lock for results
nobody sends, since it counts them from a second read of a list that may have been
replaced. The mutant `UpdateResolversReturns` shows this as a violation of `ProbesCoverReceives`.

### Bounds

- Two resolvers are enough for a retry on another resolver, for one to be up
  while the other is down, and for a list to shrink, grow or change completely.
- `FailLimit` is 1 or 2 where the code has 10: what matters is that a streak is
  built up, reaches the limit and is reset. The theorems hold for every limit.
- One UDP and one TCP handler with `MaxQueries = 2` make up to four attempts,
  in every interleaving with a health check and a reload.
- Three questions for a cache of two force evictions; two handlers miss on the same
  question; TTLs up to 3 on a clock up to 3 let entries expire and be replaced;
  `MaxUses = 4` stores and hits, and `MaxWait = 1` lets an answer be stored at once or
  late. Questions and handlers are symmetric.
- One handler and three sockets (`program`): one socket in use, one that a handler
  still holds, one to bind next. Rebinds are unbounded, since a socket nobody refers
  to is used again; with more handlers nothing new can happen to a socket, and the
  theorems hold for any number. Twenty-four command lines cover each way to be refused,
  each kind of profile and each kind of number for the scanner. Two of them are served in
  full and two until the scanner panics; the others get an address that does not work, so
  that their startup is explored without the proxies. The types of tunnel include one
  that ends in `_ssh` twice.
- Four probes for two slots and a channel of four: a channel of one deadlocks.
- Three candidates of which two are named, with ties, dead ones and stubs.
- `MaxEdits = 3` puts an edit before, between and after the stat and the read.
- Two slipnet and two ssh identifiers (`tunnel`): one process runs or starts while
  the monitor of another sleeps or waits. Restarts are not bounded, a start never
  lacks an identifier for ever (the liveness properties would fail), and the
  theorems hold for any number of identifiers.
- Three entries, two slots and a target of two (`verify`) let the target be
  reached early, by the last entry, or not at all, while two workers race for
  it; two latencies give ties and inversions. `tested` ranges over all subsets,
  which stands for `maxSteps`. With a single worker the one that keeps its slot
  would stop the others, so two is the least that `EveryoneIsTested` allows.
- `proxy_reload` uses one resolver and one query: its counterexample needs no more.

Deadlock checking is off where the system may stop: when its bounds are used up,
when a goroutine has entered `UpdateResolvers`, when `Stop` has returned, or when the
process has ended.
`proxy_live` has it on.

### Fairness

Only the liveness properties depend on any. A goroutine that can run eventually does. One
that waits for a mutex gets it although others keep taking it (strong fairness):
Go hands a mutex to a waiter that has starved, and a pending `RWMutex` writer
stops new readers. A probe or query ends within its timeout. A `select` picks at
random among the ready cases, so a request that stays in `rescanCh` is received.
A SIGKILL takes effect, and a goroutine that waits for a port or a process goes on
when its timer fires. Nothing is assumed about clients, tickers, signals, edits, or
what a scan finds, and a process need not exit on its own or on SIGTERM. In particular
findns need not: `cmd.Run` waits for it without a timeout. The liveness properties of
`scanner` except the behaviours in which it hangs (`FindNSHangs`). A built-in scan ends,
given at least one worker, since each of its probes has a timeout. In `program`
an address that nothing holds is granted in the end (strong fairness of `Bind`, since
other attempts may fail first); queries may hang for ever there, and `SignalEndsIt`
holds all the same. The scan of
`verify` needs no more than that some goroutine runs while one can.

## 4. Proofs

`ResolverPoolProofs` shows that `PoolInv` is inductive under `PoolStep`, for any
finite non-empty set of resolvers, any updaters and any positive failure limit,
without the counter bound. Three of its conjuncts are properties of the `proxy`
run; the fourth, `ProbeInv`, strengthens `ProbesCoverReceives`: a health
check is receiving exactly while it is the writer, the probes in flight when it
asks for the lock are those of the current list unless an updater has taken the
lock for good, and from then on each receive is matched by a probe. Without the
second clause the induction fails at `HCLock`. There is one lemma per operation.

`DNSProxyProofs` shows the same of `ProxyInv` for any number of handlers. `NoNilStats`
rests on the pool never forgetting a resolver (`TrackedGrows`); `Conservation` is
proved by following the set `InFlight(r)` as a query enters and leaves it;
`RateAtMostOne` needs `LoadInv`, that the value of `ok` already loaded does not
exceed what the load of `sent` will return, which in turn follows from
`Conservation` and from `sent` never decreasing. `ProxyUsesPool` is the refinement:
every step of the service is a step of the pool's most general client, or leaves
the pool alone.

`TunnelManagerProofs` shows that `TunnelInv` is inductive for any number of
identifiers. Beyond the type it has three parts. `MonitorInv` ties each process to
its monitor: one that lives is waited for, the pointers lead to processes that are
waited for, and at most one monitor is on its way to restart slipnet, while there is
no tunnel. `ChainInv` says that an ssh process that has not been killed is the one
the manager points at and uses the current port, and that none is left when the
monitor of slipnet pauses and while the next port is awaited; without the last two,
`OneChain` is lost when the tunnel comes back on another port. `StopInv` follows `Stop` through its
steps: from the moment `stopped` is set nothing is started, and what has been
signalled and awaited so far is gone or killed. The proof shows two checks of the
code to be redundant: `monitorTunnel` never finds `tm.tunnelCmd` pointing at
another process, neither when its own exits nor after its pause.

`PoolUsersProofs` has the two other clients of the pool. Every step of the reloader and
of the auto-scanner is a step the pool's most general client may take, or leaves the
pool alone (`ReloaderUsesPool`, `ScannerUsesPool`), so that the pool's invariant carries over; the obligation is
that `UpdateResolvers` never gets an empty list. (The reloader has no queries or health
checks beside it; `DNSProxy` has those.) `NoLostEdit` needs
`TimesInv`: except between its stat and its read, the watcher remembers no time later
than that of the content last read, whoever has read it. It also needs the file to be
the one the pool was made of when the watcher starts (`UneditedBeforeStart`), which is
the hypothesis `~EarlyEdits` of `EditsAreRead`; the run `early_edit` shows that the
theorem is false without it. `NoLostDown` is inductive next to the type and to the fact
that readiness comes before the first rescan.

`CachedProxyProofs` shows that `CachedInv` is inductive for any questions, handlers and
size. `ListInv` says that the list is in descending order of last use; that a key
occurs once in it follows, since no two uses have the same rank, and with it that
removing one occurrence is enough. `ExpiryInv` and `FreshInv` bound the age of what is
in the cache and of what a handler has in hand, counted from the upstream's answer, by
the TTL and `MaxWait`, and give `KeptAtMostTwice` for every `MaxWait`.
`CacheIsLRUStore` is the refinement: `GetExpired`, `GetHit`, `GetMiss`, `Put` and the
clock are each a step of the store or a stutter. For `Put` the keys that stay are a
prefix of the list, hence the most recently used, and as many as there is room for.

`RankingProofs` proves what the loops compute, for lists of any length. The library's
induction theorems cannot be used here, so induction is over sets of numbers
(`SetInduction`, from the well-foundedness of `<`), and `LoopExists` shows that the
function a loop is written as exists. `SortOrders`: if the comparison is an order with
ties, the sort returns its list rearranged so that none is ahead of one before it. The
invariant of the inner loop, which goes on to the front even when it has nothing left
to swap, is that the list is in order but for one place, which moves to the front.
`PickedInOrder`: the picking loop returns the good ones, and no others, in order.

`VerifyScanProofs` shows that `VerifyInv` and `ListsInv` are inductive for any number
of entries and workers and any target. A list has been handed over exactly when
somebody is in `UpdateResolvers`; whoever claimed the early callback still is, so its
worker is not done and the wait before the late callback does not end.
`SlotsAreAccounted` follows the set of workers that hold a slot. `ListsInv` has one
result for each worker that has recorded one, the verified list in step with the
results, and, for a list handed over while workers are still recording, that all its
entries are verified: without this a later result would make it unsound.
`HandedIsSound` and `RescanTakesTheBest` then come down to what the loops of `Ranking`
compute. `HandedOnce` rests on `UpdateResolvers` not returning: if it did,
`processResults` would hand over a second list.

`ProgramProofs` works in stages. `ListenerInv` is inductive for any handlers and
sockets: beside its four properties it says which socket each place of `Start` has in
hand, without which `NoStraySocket` is lost between bind and assignment and
`ClosedForAReason` between an error and the close. `ProgramUsesListener` shows that
the program, whatever it does, is an environment the listener allows for, so this
carries over. `ProgramInv` then ties each directory and process to the place of the
goroutine that will remove it or waits for it; with `ErrorOnlyOnShutdown` of the listener
it gives `CleanExit` and `FailsForAReason`, for any set of command lines. `ArgsInv` says that
slipnet's arguments are those built from accepted flags; `SlipnetGetsTheProfile` and
`ScannedIsTunnelled` follow from what patching and generating do to the fields. The
first has a hypothesis, `DocumentedFlags`: the port of `-tunnel-listen` is a number or
empty. The code does not check it, and the property does not hold for other values: a
profile with such a port is parsed with the default one. The port of a profile that is
made from the flags is 1080 whatever the flags say; slipnet gets the right one as an
option.
`ProgramTypeOK` rests on `OneResultEach`, that a compatibility scan has one result
per entry, and `BestAreNamed` on that, on the theorems of `RankingProofs`, and on the
program ending with its summary.

Assumptions on the constants are named in the modules that declare them: finite sets of
resolvers or entries, latencies and TTLs that are numbers, flags of the types the code
parses, `Stem` taking `_ssh` off the two types the documentation names. The workers of
the startup probe are at least one because the code counts them itself; those of a verify
scan come from an unchecked flag, and its theorems hold for any natural number, zero
included, with which nothing is tested; a negative number is a panic, which `Program`
has. A bound that a model has for TLC (edits, the clock, uses of the cache, the wait of
an answer) is an arbitrary number in the theorems.

Only model-checked: the liveness properties `EveryQueryCompletes`, `DownLeadsToScan`,
`TunnelStarts`, `TunnelComesBack`, `SSHComesBack`, `StopEnds`, `EveryoneIsTested`,
`ProbeCompletes`, `SignalEndsIt` and `ServesAgain`, because fairness is out of the
prover's reach. Every safety property, and every refinement, of a run that holds is a
theorem.

## 5. Not modelled

- DNS message syntax, transports, base64, logging and banners: their outcomes (an
  answer or an error, a question, a set of TTLs, whether a text decodes) are the
  inputs of the models.
- The latency average and the value of the score in `GetNext`: any member of the list
  can be drawn whatever the scores are, and no property depends on how often.
  `mode` and the round-robin index, which the code never reaches, since a score
  always exceeds -1.
- A host name given to `-listen`: it is resolved again for every rebind, and one that
  has stopped resolving would end the program.
- Functions nothing calls: `scanResolversQuiet`, `ExportLocalResolvers`,
  `ParseFindNSOutput`. The loop that prints statistics only reads.
- findns and slipnet, external programs; the installer, a shell script; the Python
  variant, a second implementation with other rules.

Noticed on the way, without a run: `-scan-min-score` (main.go:106) has no effect;
the list that the reloader watches in standard mode is only looked for next to the
binary (main.go:265), although it is also loaded from elsewhere (main.go:660); a reload
drops the resolvers given with `-r`; a resolver given twice, with `-r` and in the file,
is scanned and handed over twice; an askpass script that could only be written in part
stays behind, since its path is recorded after the write (tunnel.go:176); with a profile, slipnet does not heed
`-tunnel-domain`, while the scanner does; and `os.Exit` on a failed start leaves the
unpacked binaries, and with ssh a slipnet process, behind.

## 6. Plan

1. An abstract scan that `VerifyScan` implements and `AutoScanner` uses: a list that is
   sound is handed over once, or none; and a proof of it from `ListsInv`.
2. Safety halves of the liveness properties, as far as they are invariants: that
   the probes of the startup and their slots never wait for each other.
