# Formal model of nxr-sdk

nxr-sdk is the Rust SDK (with TypeScript, Python and Java clients) of a market-data platform: it
combines provider ticks into index quotes, stores them as daily shards of fixed-size records,
derives bars from them, and moves all of it between processes over WebSocket and signed UDP
multicast. This directory holds TLA+ models of its stateful parts, the TLC configurations that
check them on small instances, and TLAPS proofs for arbitrary ones.

Everything is written against the Rust, TypeScript and Python sources under `src/`; a comment next
to each definition names the function it stands for, and `PROJECT.json` gives the lines.

How to run it, from this directory: `tlc -workers 2 -config idx.cfg MCIdxShard` (each run below takes
from a few seconds to three minutes), `tlapm IdxStoreProofs.tla` (the modules named `...Proofs`; each takes
from seconds to ten minutes).

| run | module | what it explores |
|---|---|---|
| `idx`, `idx_unaligned` | `MCIdxShard` | the idx shard writer, and the store it implements |
| `log`, `health_wrap` | `MCProcess` | append log, latency histogram, liveness probe, datagram window |
| `bar`, `bar_shared`, `bar_race` | `MCBars` | ticks to bars and bricks, the bar writers and the manifest they share |
| `feed`, `ws_keepalive`, `filter_open` | `MCFeed` | publisher, the three client libraries |
| `series` | `MCSeries` | composite mark, ticks to candles and volatility, synthetic crosses |
| `rules` | `MCRules` | configuration, parameters, memory, resolution of symbols, hot reload |

Five of the MC modules put components side by side that share no state. A variable (`part`, `explored`)
says which one a behaviour explores, the others keep their initial state, and an invariant about one
part holds trivially in the states of the others.

A definition called a *wrong version* in a module is a plausible bug of the definition that follows
it (a dropped guard, an off-by-one, a swapped order). No action uses it. Each property of a passing
run is known to fail when one of them takes the other's place; `PROJECT.json` "mutants" says which.

## Inventory

How the parts work together: forwarders seal provider ticks into signed datagrams
(**datagram authentication**) and send them by multicast; the aggregator keeps one leg per provider
and computes the **composite mark** per ticker; marks are published as batches over multicast and
WebSocket (**feed**), and written by the **idx shard writer** to one directory per ticker through the
**append log**; bar writers derive s10 and renko shards next to it and share the ticker's
**manifest**; **series** code (volatility ring, renko, resampling) reads shards back or listens to
ticks; **synthetic crosses** compose two or more stored or live series; rule tables (**resolution**,
**configuration**) are loaded at boot and again by **hot reload**; **telemetry** watches all of it.

| component | state it keeps | operations | who it interacts with | what is hard | correct when |
|---|---|---|---|---|---|
| Idx shard writer (`shard.rs` `IdxShardWriter`) | current day, open log, cached day window, last record; `<day>.idx`, `manifest.json`, `.writer.lock` | `open_with`, `append_with_now`, rotation, `flush`, drop | append log; repair tools over the lock; readers of the files | crash between any two steps, torn tails, midnight, late records, a cached window, failed calls | shards ordered, nothing stored twice or dropped without reason, closed days in a durable manifest |
| Append log (`ipc/append_log.rs`) | file, user-space buffer, last sync, group-commit flag | open (truncates a torn tail), append, periodic sync, flush, sweep, drop | shard writers, the group-commit sweeper | power failure, a buffer above the file, failed syncs | what a barrier covered survives; the loss window is bounded |
| Bar writers and manifest (`shard.rs` `BarShardWriter`, `finalize_manifest`) | one writer per extension, one manifest per ticker | append, rotate, flush, drop, seed; read-modify-rename of the manifest | each other through the manifest | two kinds in one inventory, crash inside the finalization, two finalizations at once | the manifest is whole, forgets nothing and lists every closed day |
| Hot reload (`hot_reload.rs`) | last mtime and hash, published value | boot read, poll, parse, publish | any process that rewrites the file | three reads that a write may fall between | the channel ends with the file's value, and never degrades |
| Datagram authentication (`udp_auth.rs`) | sequence per forwarder; replay window per peer, bounded map | `seal_into`, `verify`, eviction, idle reset | forwarder restarts, the network | loss, duplicates, delay, restart at sequence 0, slot reuse | a datagram counts once but for the allowances; none in time is refused |
| Composite mark (`tdwap.rs`) | legs with two clocks, `WeightCache` | frame, carry, injection, drop, `compute_vwap_throttled`, invalidate | aggregator cycles, triangulator rules, config | which clock counts, cached mark against moved legs, evicted legs coming back | a changed price is never withheld; liveness is not overstated |
| Latency histogram (`lag.rs`) | atomic buckets and maximum | `record`, `take`, `snap`, `since`, `quantile` | recording threads, one reader | cell-by-cell reads against concurrent records, counter wrap, restart | every sample in one window; quantiles bound the truth |
| Transport health (`metrics.rs`) | stamp of the last frame | `mark_frame`, the `/health` probe, metrics routes | receiving thread, HTTP thread | unsigned difference of two clocks read at different times | a dead transport is reported, a live one is not |
| Shard readers (`shard.rs`, `bar_reader.rs`) | none (mmap) | day and range scans, tail reads, listing, retention | the live writer's files | reading a file that grows, or ends in a fragment | every whole record, in order, and no other |
| WebSocket client, Rust (`ws_client.rs`) | stashed frames, keepalive interval | `subscribe`, `unsubscribe`, `next_batch` | server acks | an abandoned `subscribe`, frames that overtake the ack | an ack answers its own request; no frame lost or reordered |
| Publisher and transports (`publisher.rs`, `transport.rs`) | broadcast receiver, sinks, dedupe key | fan-out, replay shots, receive | producers, redundant groups | overflow of the channel, one failing sink, replays after news | each sink gets each frame that was not overrun |
| TypeScript client (`ts/src/client.ts`) | socket, reconnect timer, state, ticker cache, handles | `connect`, `disconnect`, `subscribe`, REST | server, event loop | a close event of an older socket, timers after disconnect, calls that await the same catalogue | one socket while connected, none after disconnect; a handle hears what it asked for |
| Python client (`ergo.py`, `http.rs`) | subscriber buffer, sockets, catalogue | subscribe, iterate, REST | server | buffer across batches, a catalogue that misses a ticker | each record asked for delivered once, in order |
| Rust REST client (`client.rs`, `errors.rs`) | listing cache, map of ids, both shared by clones | listing, `ids`, streams, history, errors | server, concurrent clones | two locks taken one after the other, a filter looked up once | the map is that of one listing; a stream filters what it was asked to |
| Tick accumulator (`agg.rs`) | counters, flags, open/high/low/close | `push`, `reaffirm`, `carry`, `flush` | aggregator | saturating counters, flag-only ticks | counts and flags of exactly one window |
| Bars and resampling (`bar_builder.rs`, `ohlc.rs`) | open bucket, running features | push, roll up | shards, synths | alignment, empty buckets, straddlers | roll-up of parts equals the whole, a batch equals a stream |
| Volatility ring (`vol.rs`, `mtf.rs`, `vol_estimator.rs`) | ring of bins, open bin, `.vol` file | prime, touch, append row, trim tail | bars live and replayed | a bar that straddles bins, append during a trim | bins in order, none twice; rows not lost; estimators defined |
| Renko (`renko.rs`, `grid.rs`) | last brick, size, wick | push, reseed, multiplier | idx records | gaps of many bricks, reversals, resizing | bricks chain, each of one size, and account for every tick |
| Synthetic crosses (`synth/*`) | legs' last records, in-RAM ring | push leg, compose, range read, path search | two stored or live legs | TTL, out-of-order legs, a full ring, dominated routes | a cross speaks only from live legs, and its candles and route follow from theirs |
| Symbol resolution (`resolve.rs`, `ticker.rs`, `asset_class.rs`, `series_alias.rs`) | memo cache | resolve, alias | everything that names a ticker | precedence of rules, tables loaded in any order, a bounded memo | a symbol means one pair of assets |
| Configuration (`config.rs`, `pipeline_config.rs`, `weights_schema.rs`) | the installed storage policy, the parameter file and its lock | load, validate, install, read-modify-rename | every component at boot and reload | cross-field rules, a file that changes between reads, two writers | an accepted file meets what other code assumes; one policy per process |
| Memory guard (`memory.rs`) | cap | clamp, sample | process | floor against cgroup | it acts before the kernel does |
| Statistics, compression, logging, bindings | none | pure functions, wrappers | | floating point | not modelled |

Hazards, each at its line and with the properties aimed at it, are listed in `PROJECT.json`.

## The shard writer: `LogFile`, `IdxShard`

`shard.rs` `IdxShardWriter` over `ipc/append_log.rs` `AppendLog` is the system's storage engine:
every other stored series is derived from what it writes. One directory per ticker holds one
`<date>.idx` file per UTC day, a `manifest.json` and a `.writer.lock`.

`LogFile` abstracts a file of fixed-size records to what a reader at the record stride sees: the
sequence of whole slots (a record, or `Garbage` for a slot whose bytes come from two writes), whether
bytes are left over behind the last slot, and how many slots are on stable storage. Its operators are
the I/O calls of `AppendLog` (open with torn-tail truncation, a write that succeeds, a write that
stops half way, fdatasync) and the outcomes of a power failure.

`IdxShard` is the writer. Its variables are the fields of `IdxShardWriter` (`cur_date`, `log`, the
cached day window, the remembered last record) and the directory. `append_with_now` is one decision
(`Refused`, `Straggler`, `Late`, `Kept`, `SentinelDue`, one operator per test of the code) followed by
the I/O it causes, split where a crash leaves different files behind: `CloseLog`, `FinalizeManifest`,
`OpenLog`, `WriteLog`. Calls that change nothing are not steps; the property `DropsJustified` speaks
about them. `Kill` and `PowerLoss` may strike between any two steps; each I/O call has a disjunct
that fails. The repair tool is the code outside the repository that uses `acquire_idx_writer_lock`
and `write_shard_atomic`.

Abstractions: a quote (bid, ask, volumes, interval) is an element of `Quotes`; a day is `DayLen` ticks
of a clock that stops at `MaxNow`; a rename is assumed to survive a power failure that a synced file
survives (the code does not sync the directory); the storage policy check of `open_with` is left out
(a refused writer has no state).

| run | question | bounds |
|---|---|---|
| `idx` (546 546 states) | `ShardOrdered`, `NothingStoredTwice`, `DropsJustified`, `DaysReadable` (every day opens with a full record, no crash leaves a slot that cannot be decoded), `ManifestTrue` (closed days are listed, nothing listed can be lost), `NeverDetached`, the inductive invariant `IInv`, and the refinement `ReadersSeeAStore` | two symmetric quotes, two days of three ticks, the clock stops at 3, three records per file; in one behaviour at most two kills, or a power failure, or a failed call (`Failures`) |
| `idx_unaligned` | (violated) a record is never appended behind a torn fragment | one failed write, the clock stops at 4 |

Two days are enough for every rotation (the code keeps no memory older than the previous day), three
records are enough for change, repetition and sentinel in one file, and the sentinel interval (2) is
shorter than a day so that it can fall on either side of midnight. Failures do not mix within one
behaviour of the run; the proofs below mix them at will. Several properties say which failures they
exclude (`DaysReadable`, `DropsJustified`: failed calls; the two halves of `ManifestTrue`,
`ManifestDurable` and `ClosedDaysInManifest`: kills and power failures), because the code breaks them
with one; the comment of each property says how.

### What readers see: `ShardStore`

`ShardStore` is the abstract specification: one sequence of slots per UTC day, of which only the newest
grows, by one slot at a time and in time order, and a count of slots per day that no failure takes
back. It knows no writer, lock, memory or open file. The end of `IdxShard` maps its directory to it
(the slots of each file, and how many of them are on stable storage), and `ReadersSeeAStore`, checked
as a property of the run, says that every behaviour of the writer is a behaviour of that store: each
step is a growth, a hardening, a failure or a stutter. A reader that maps a shard while it is written,
or between two restarts, therefore never sees an older day change.

`idx_unaligned` is a divergence between code and comment: `append_log.rs:142` says a torn tail must be
truncated before new appends, or every reader after it sees corrupt records. `open_inner` does that
when a file is opened, but a write that fails part way (a full disk that is freed again) leaves its
fragment in a file that stays open, and the next append lands behind it.

### What is proved

Every property of run `idx`, for every set of quotes, day length, sentinel interval and clock
tolerance, with and without the gate and the manifest, and for any number and combination of kills,
power failures and failed calls. The proofs rest on `ParamsAssumption` and `BoundsAssumption` only (the
day is not empty, the rest are naturals or Booleans). Nothing of a run is inductive by itself; the
invariant that is, `IInv`, has three parts:

| part | module | theorems |
|---|---|---|
| `OrderInv` | `IdxShardProofs` | `OrderInductive`, `TypeCorrect`, `ShardsStayOrdered` |
| `DiskInv` | `IdxStoreProofs` | `ManifestStaysTrue`, `LogStaysNamed`; from `OrderInv` alone, the refinement `WriterIsAStore` |
| `GateInv` | `IdxStoreProofs` | `StoredOnce`, `DropsAreJustified`, `DaysStayReadable`, and `Inductive` for `IInv` |

`OrderInv` says why a shard is ordered. What a writer appends is in order only because its memory
agrees with the tail of the newest shard (`LastIsTail`), the record in flight may follow whatever its shard
holds (`JobFits`), the open log and the cached window are of `cur_date` and nothing later holds a record
(`OnNewestDay`: without it a stale window could route a record to another day), whoever writes holds the
lock (`LockHeld`: a writer that opens finds no other's half-done work), and a new name starts empty
(`AbsentIsEmpty`). And a power failure can cut a file back to a prefix that was hidden behind an
undecodable slot, so it is every prefix up to the first such slot that is ordered (`OrderedPrefix`).

`GateInv` says the same of the delta gate: in every such prefix each record is news (`NewsPrefix`), and so
is the one in flight, against the slot it will follow and not against the memory it was compared with
(`JobIsNews`). That a day can be read by itself needs two facts about calls that did not fail: a writer
remembers something only if the newest shard holds something (`OfThisDay`; a failed rotation breaks it,
and with it `SelfContained`), and the file it has open ends in no fragment (`OpenIsWhole`, which is what
`idx_unaligned` violates). `DropsJustified` speaks of calls that change nothing: they compare with the
memory, and `LastIsTail` and `OfThisDay` make that a comparison with the shard.

`DiskInv` says which files are safe: only the open log has slots that are not on stable storage
(`DurableFits`, `RestDurable`), no log is open while the writer moves from one day to the next (`LogClosed`),
the newest file is that of `cur_date` (`OnNewestFile`), and the entry of the day that is left is in the
manifest before the file of the next day appears (`ListedFirst`), so that a kill between the two cannot
skip a day.

The refinement: a written slot is `Grow` of the newest day, a sync or a closed log `Harden`, a crash
`Fail`, an opened log that truncates its torn tail a stutter, because the tail is no slot. `Grow` asks that
the slot follow the day's last and that no later day exist, which are `JobFits` and `OnNewestDay`.

Each module has one lemma per action; `LogFileProofs` holds what the file operations return, among them
`AfterPowerLossType`: a power failure leaves a prefix of what was written, or no file.
## The log's barriers: `AppendLog`

`IdxShard` asks what is in the files; `AppendLog` asks when it is safe there. A record is the time it
was appended. The sink is the file or a `BufWriter` of `cap` records over it; a barrier is the
periodic sync inside `append`, an explicit `flush`, drop, or, with `set_group_commit`, a sweeper's
`flush_buffer_only` followed by one `syncfs` (the sweeper is outside the repository). The two calls of
a barrier fail separately. `promised` is history: the records covered by a barrier that returned
without an error.

In run `log` (module `MCProcess`, 794 835 states over its four parts): interval 2, a sink without and
with a buffer of two records, three appends over four ticks, one kill, one power failure, one failed
call, in any order. `BarrierHolds`: what was promised is in the file and on stable storage.
`LossWindow`: the records at risk were appended within less than one interval.
`LossWindow` excludes kills and failed calls because both restart the interval over records that stay
at risk. It speaks of the span between the records, not of their age: a log that is no longer
appended to is not synced until the next append, flush or drop (`append_log.rs:202` is only reached by
an append), so its last records stay at risk for as long as it is idle.

`ProcessProofs` proves `BarrierHolds` and `LossWindow` for all constants, from `LogInv`, which run `log` checks.
For the first, `SweepSound`: a sweep turns the length it saw into a promise only later, and nothing may
shrink the file below that length in between; a power failure, which may, ends the sweep. For the
second, `RiskIsRecent`: every record at risk, in the file or in the buffer above it, was appended since
`last_sync` and before one interval had passed, because the first append after that runs the barrier; so
the span between two of them is below one interval whatever the clock does in between
(`SinceSync`). `ClosedIsDurable` carries that over to a log that is opened again.

## Bars, bricks and the manifest: `BarBuilder`, `Renko`, `BarManifest` (`MCBars`)

Run `bar` explores six parts that share no state: ticks to bars, ticks to bricks, the shards of both, and
the three parts of `ShardFiles`.

### Bars: `BarBuilder`

`bar_builder.rs` `BarAccumulator`: the features of a bar, kept one tick at a time. `BarTellsTicks`: the
running features of a bar (prices, realised and bipower variation, regression, order flow, spread) are
those of the ticks since the last flush and of no others. Three ticks of four books a bar.

### Bricks: `Renko`

`renko.rs` `RenkoGenerator` on the grid of `grid.rs`: ticks, the resizing at the first tick of a half hour,
a changed multiplier, a warm restart. Prices and grid steps are integers of the code's own arithmetic.
`RenkoAccounts`: every tick is counted in exactly one brick, the wick of that brick reaches every price
since the one before, the body is one size up to the rounding of the grid, and the bricks of one tick
join. Five ticks of four prices (one of them invalid, one far enough for many bricks), three
sigmas, one restart and one half hour.

Both are checked as `BarsAccount`, and so is `ShardFiles`.

### Shards read and rebuilt: `ShardFiles`

What `shard.rs` does beside its writers. The stream of the offline tools reads a file in pieces of any
length into a buffer of two records while the writer appends byte by byte, dies inside a record, and a
restart cuts the fragment off. `StreamTells`: a stream that reached the end handed out every record
that the file held then, in order, and none that was never written. The exemption is `overtaken`: a stream
that had read a fragment before the restart cut it off continues behind it at an offset that is no
longer a boundary, and joins bytes of two records; the live readers map the file and are not exposed.
`ManifestsAgree`: a rebuild by `set_shards_batch` is the sequence of upserts its comment promises, and
`refresh_kind` changes what it found and nothing else. `OwnersPartition`: a pass over the stored ids
sees every record file once, and an id is renamed without a byte of another's. Nine bytes of two-byte
records, one restart; short lists of entries and of found shards, and every small store.

### Shards: `BarManifest`

`shard.rs` `BarShardWriter`, one per extension, and `finalize_manifest`, whose steps (read and upsert,
create the temporary file, write it, rename it) are actions, so that another writer or a kill fits
between them. Bars are counted, not described. Two names and open descriptors are modelled, because
the interesting failures are about which file a name means: a second `File::create` truncates the
temporary file the first writer still has open, and a rename moves it under the real name.

| run | question | bounds |
|---|---|---|
| `bar` | `OneKindListed`, `ManifestWhole`, `NothingForgotten` | s10 and renko interleaved at every step, two days, two bars per file, one kill of either process or of both |
| `bar_shared` | (violated) `ClosedShardsListed`: every day left behind is in the manifest | the same, no kill |
| `bar_race` | (violated) `NeverTorn`: what is found under the name `manifest.json` is a manifest | the same, no kill |

The lock of a writer is per extension, "so s10 and renko producers can both run concurrently on the same
ticker" (`shard.rs:1580`), and nothing orders their finalizations: the model lets them interleave at
every step. `bar_shared` is a defect that needs no overlap: `Manifest::upsert` replaces by date alone
(`shard.rs:880`), so for a day that both writers close, the second entry replaces the first. `bar_race`
is a defect of the overlap: both write through one `manifest.json.tmp` (`shard.rs:968`), one renames the
file the other has just truncated, and from then on each finalization ends with a parse error, unless
the other still writes its document into what is now `manifest.json`. The third consequence is a lost
update: the read, the upsert and the rename (`shard.rs:1742`) of one writer may enclose those of the
other.

So what may be claimed depends on the overlap, which the history variable `raced` records: a writer has
read the manifest while another was between its own read and its rename, and either is still on its way,
or what they left cannot be parsed. `ManifestWhole` says unconditionally that each entry tells of bars
that are in the shard it names and of a kind the manifest names (`Real`), which neither a torn file nor
a lost update breaks; and that the manifest can be parsed unless `raced`. `NothingForgotten` says that a
rewrite drops neither a day nor a kind unless `raced`; it binds again as soon as both are through and
the file is whole. Without `raced` both are violated. Two writers that both run but do not overlap, a
kill of one in the middle of its finalization while the other goes on, and a temporary file left behind
are all inside the claims. Assumed of the callers: the route day of a producer does not go back. Two
days are enough for a rotation and for the day after a lost one; two bars let an entry fall behind its
file; with two writers every pair of steps meets.

`BarManifestProofs` proves `ManifestWhole`, `OneKindListed` and the action property `NothingForgotten`
for any number of extensions, days, bars and kills, with no hypothesis on who runs when. The invariant
is `OwnerInv`. `Real` holds of the manifest, of the temporary file and of every document in memory, so
that it survives whatever is renamed over what. Until two finalizations overlap, the one under way is
`Alone`: the document it holds is the one that its entry makes of the manifest on disk (`doc =
Drafted`), so that the rename loses nothing, and the descriptor it writes through is the temporary file,
which holds broken bytes until the write is done. A writer opens the next day only after the entry of
the last one is in the manifest. `OlderListed` is what a kill leaves: for a kind that has the directory
to itself, every day but its newest is listed, and the newest is finalized by the writer that is seeded
with it. An overlap takes two kinds that have bars, which is why `OneKindListed` needs no condition.

The other parts of run `bar` are proved there too, for any ticks, prices, reads, heals and restarts
(`BarsAccounted`, `BarsTyped`): the grid and the walk of `Renko`, one lemma per kind of step; the stream
of `ShardFiles`, whose invariant says which bytes of the file its buffer holds; and, for entries and
stores of any size, `RebuildsAgree` and `OwnersPart`. `SizesFit` in `Renko` is the assumption on its
constants.

## Datagrams that count once: `UdpAuth`

`udp_auth.rs`: `seal_into` at a forwarder that restarts on a new source port and counts from 0, and
`verify` behind its stateless checks (length, magic, version, key, tag), with the replay bitmap, its
idle reset and the bounded map of windows. The network is the set of all datagrams ever sealed, each of
which can be delivered again at any time. A forwarder's clock may be ahead of the verifier's by up to
`Ahead`, the verifier admits stamps up to `MaxFuture` ahead (`udp_auth.rs:415`), and the drain grace
(`udp_auth.rs:424`) is armed and disarmed by the aggregator.

In run `log`: a ring and a window of four, one datagram a tick, freshness, future allowance and grace of
one tick each, the grace armed at time 1, a forwarder's clock ahead by at most one, one peer plus the
one being inserted in the map, two ports, five ticks, a restart that takes four. `AtMostOnce` and
`FreshNeverRefused` are about resets, evictions, slot reuse and restarts together. The ring wraps within
the run, the map is smaller than the number of ports, and the sizes are tight: with a window of three
`FreshNeverRefused` is violated, and with a restart of three ticks the eviction forgets what is still
fresh.

That the bitmap makes every datagram count once, as `udp_auth.rs:51` says and a test at
`udp_auth.rs:1033` asserts for the grace, is not so: `twice = {}` is violated in this run. The idle
reset (`udp_auth.rs:503`) forgets a window after `max_age_ms`, because "nothing older than max_age_ms
can pass the staleness gate"; but a datagram stamped ahead of the clock, or admitted under the grace,
stays admissible for longer than that (a datagram stamped 1 that is accepted at 0 is accepted again at
2). `AtMostOnce` says exactly what is left: a datagram counts twice only if its window was idle or
evicted since the first time (`lapsed`) *and* one of the two times it passed on such an allowance
(`exempt`). In particular, within the life of a window nothing counts twice, with or without allowance;
and without one nothing does at all.

`ProcessProofs` proves both for every size. `UdpInv`: sequence numbers of one port grow with the stamps
and by at most `Rate` a tick (`Sealing`), what two starts sealed is `BootTime - Lag - Ahead` apart
(`Starts`; both are left to the proof), and a window tells what it has let through (`Windows`: `highest`
is one such number, and a bit that is set in a slot is one of them and within the ring). Each theorem
has a hypothesis about the sizes, and fails without it. `NoFreshRefused` needs `WindowFits` (`Rate *
(MaxAge + DrainGrace + Ahead + 1) <= Window`, what the boot check of `udp_auth.rs:58` asks, and the
skew): a faster forwarder lets a delayed datagram fall behind the window while it is admitted.
`CountedOnce` needs `PeersFit`: the map has room for every port whose datagrams can be admitted at once;
otherwise an eviction forgets a window whose datagrams are still fresh. From it follows `Remembered`,
the heart of the argument: what was let through would be refused now, as long as its window lives; and
for what is fresh and passed on no allowance it does live, because eviction (`LiveKept`) and the idle
reset keep it as long as it matters. Both hypotheses hold of the run's constants.

## Telemetry: `LagHist`, `TransportHealth`

`lag.rs`: buckets and maximum are separate atomics, so `record` is three steps and a read is one step
per cell. `metrics.rs` `TransportHealth`: the stamp of a frame and the two clock readings of a probe,
and an age that is a `u64`. They share no state with each other or with the log.

| run | question | bounds |
|---|---|---|
| `log` | `WindowsTrue` (`WindowsPartition`, `QuantileBounds`), `DeadIsReported` | two recorders, three samples of 2, 3 and 9 ms in four buckets (two of them in one, the third in the open one); stall 2, grace 1, five ticks |
| `health_wrap` | (violated) `AliveIsUp`: only an old frame makes the probe answer down | as above |

`QuantileBounds` is stated for windows that no record overlaps: with an overlap the maximum and the
counts come from different sets and the quantile can be below the sample it should bound. Outside the
open bucket a quantile is within twice the true value; in it, it is not. `health_wrap` is a defect: a
frame stamped between the probe's clock reading and its load is newer than the clock, the unsigned
difference wraps, and a transport that is alive is reported down.

`ProcessProofs` proves `WindowsTrue` for any number of recorders, cells and samples (`WindowsAreTrue`), under
`CountersHold`: fewer samples than a 32-bit counter can tell apart. Beyond that a diff of snapshots
cannot be right, and `lag.rs` does not claim it. The inductive invariant, `LagInv`, is what `log` checks in
`InstrumentsTypeOK`. `CellInv` speaks of a read that is half way: a cell it has passed is in `part` with what
the history took, a cell ahead of it still holds what is fresh, over the previous snapshot unless the process
restarted. `MaxInv` follows the maximum, which a recorder raises two steps after it counted: between reads a
fresh sample is below the maximum or its thread is about to raise it, and a read that no record overlaps
finds all threads done. The quantile then is a fact about sums: a cumulative count over cells is the count of the
samples in them (`BucketSums`), so the cell at which it passes a rank is the cell of the sample of that
rank (`QuantileIs`), and `BucketFacts` says how far its edge is from that sample. The logarithm in `bucket`
needs powers of two to grow, which `Induction` proves by counting subsets.

It also proves `DeadIsReported` for every stall and grace while the clock stays below
2^64 (`ProbeAssumption`). Its invariant, `ProbeInv`, relates the stamp on its way to the store, the stored one and
the last arrival, and says that a probe past its first test has not answered yet.
## The live feed and the clients (`MCFeed`)

Run `feed` (1 623 508 states) explores six parts that share no state: three ends of the feed, and the
three client libraries.

- `FramePublisher` is `publisher.rs` `Publisher::run`: the broadcast ring overwrites its oldest frames, the
  receiver is told how many it missed, and each frame goes to the sinks one after the other, any of
  which may fail. Replay shots are left out: `with_replay` is dead code and no publisher configures any.
  Its `errors` are the failed sends themselves; the code resets its own counter with each warning.
- `WsClient` is `ws_client.rs`: `subscribe` and `unsubscribe` (`send_sub`) read messages up to the ack and
  stash the frames that overtake it, `next_batch` hands out the stash, pings if a ping is due, and
  reads the socket. Each loop turn between two awaits is an action, and the caller may drop either
  future at an await. The server answers requests in order and may send frames, well formed or not,
  control messages and a close at any time. The answer to a client's ping is one of the control
  messages.
- `NxrClient` is the socket life cycle of `ts/src/client.ts`. The event loop runs one handler at a time; the
  asynchrony is in the events of sockets that have been replaced: the close event of a socket comes
  after the call that closed it.

- `RestClient` is `client.rs`: the cached listing and the map from symbols to ids, each under a lock of its
  own, shared by the clones of a client; and a stream that filters the feed by ids it looked up once.
  Every lock and every await is a step; two tasks, two listings of which the server shows either.
- `ScriptClients` has the catalogue and the subscriptions of TypeScript (an event loop with calls that
  await) and of Python (calls that block).
- `HistoryCall` is the history request of the three libraries: what a ticker, a base, a quote and a kind
  given in any form become, the chained builders, and how a body is cut into records. Its last
  section is what each library takes for a plan error.

| run | question | bounds |
|---|---|---|
| `feed` | `LossIsCounted` (publisher); `NoTickDropped`, `RustSocket` (`AckIsMine`, `KeptOpenBySpeech`); `TsStreams` (`NeverStuck`, `OneStream`); `ClientsHear` (`OneListing`, `StreamExact`, `HearsAsked`); `CallsAgree` | ring of two, six frames, two sinks, two failures each; three frames, two requests, one dropped future, ping interval and longest silence of 2, five ticks; four sockets, three calls, three batches; two tasks, three REST calls, three records fed; every history request over eight texts, chains of four builder calls, every small error body |
| `ws_keepalive` | (violated) `KeptOpen`: the ping is never overdue while the client waits | as above, a server that may be silent |
| `filter_open` | (violated) `FiltersByTicker`: a stream hands out only records of the tickers it was opened for | as above |

`OneListing` says that the map is always one listing that the server has had, although two calls store
two answers under two locks in either order. `HearsAsked` says that a subscription hears every record of
its tickers once, in order, and none of another ticker. `CallsAgree` says that whichever library is used
and whichever way a pair of two legs is written, the server is asked the same and its answer means
the same; what the libraries are known to read differently is excluded in the operators (`Plain`) and
listed under "Seen while modelling".

`filter_open` is a defect: a subscription none of whose tickers resolves to an id (`client.rs:641`) is
opened without a filter and hands out every record of the feed.

The bounds let the ring wrap twice over, a request be abandoned and followed by another, two frames be
stashed and a third arrive, and a third socket open beside the one that replaced the first.

`ws_keepalive` is a divergence from the comment at `ws_client.rs:40`: the age of the last ping is looked at
only when `next_batch` goes round its loop, and it goes round only when the server has sent something.
On a stream that falls silent, the case a keepalive is for, no ping is sent. What holds is
`KeptOpenBySpeech`: the ping is late by at most the longest silence of the server.

`ClientProofs` proves `LossIsCounted` for any number of sinks, ring size, frames and failures. `PubInv`: the
receiver is at most one frame ahead of the sinks, the frame under way is the last it received, no sink
has been sent a later one, and each sink still to be served counts it as under way; with the overflow
counter that makes the sums equal at every step, and not only when the loop is idle.

It proves all but `CallsAgree` of the other parts too, for any number of requests, frames, sockets, tasks and
listings:

- `RustSocket`, from `WsInv`. Its half about acks (`AckInv`): while nobody has dropped a future, the request
  under way is either still on its way up or has its one ack among the messages coming down, and no other
  ack is there; a close is the last message. Its half about pings (`PingInv`): a client begins to wait with a
  ping that is not overdue, and while it waits the server has not spoken. The theorem assumes
  `Keepalive > 0`: with an interval of zero every moment is overdue.
- `TsStreams`, from `TsInv`. `OneLife` is the strengthening: a client connected by one call has at most one socket
  that runs or one timer, never both, and what is still on the wire of that socket is later than
  everything heard, so no batch of a replaced socket can slip in.
- `OneListing`, from `ListingInv`: an answer on its way to the cache or the map is a listing the server has
  had, and while a refresh is undisturbed no older one is in the cache or on its way there.

- `NoTickDropped` and `StreamExact`, from `TickInv` and `StreamInv`: what was handed out, what is
  stashed or stacked and what is still on the way are, joined, the well-formed frames (the records that
  pass the filter) of all that was sent. What a filter keeps is a fold, so they rest on the lemmas of
  `Induction` (a fold of a longer sequence is one more step, a filter of two sequences joined is the two
  filters joined). `TickInv` adds that the stash holds nothing but frames and that the client reads the
  socket only when the stash is empty, which is what keeps an overtaken frame in its place.
- `HearsAsked`, from `HearInv`. `CatInv`: once there is a map it holds the listing. `WireInv`: a filter
  lets through what is listed and was asked for; what the server sends before it takes a subscription is
  listed, what it sends behind its answer was asked for; so TypeScript may drop its filter at the
  answer, and the message behind it is already the server's choice. The theorems assume `SharedIds`: a
  ticker whose id is also that of a listed ticker is itself listed. The server's filter and the client's
  are both sets of ids, so without it the client passes, before the answer, records under an id it was
  asked for by another name.

Two properties of the sockets are stated with a condition because they fail without it. `AckIsMine`
speaks of clients that dropped no future: a `subscribe` under a timeout leaves its ack behind, and the
next one takes it for its own. `OneStream` speaks of a client connected by one call: `onclose`
(`client.ts:757`) does not ask whether its socket is still the current one, so after a second `connect`
it lets go of the new socket and schedules a third, and after a `disconnect` it connects again. Nothing
here assumes fairness: `NeverStuck` is the safety part, that something is always under way which can
reconnect.


## The series: what prices become (`MCSeries`)

Run `series` (681 811 states) explores seven parts that share no state. Together they follow a price
from the legs of a ticker to its mark, from ticks to records, candles and volatility, and through the
synthetic crosses.

### The composite mark: `Composite`, `MarkShares`

`Composite` is the life of the legs of one ticker in `tdwap.rs`: two clocks per leg (the last frame, the
last proof of life), eviction by diffusion or by carry ceiling, divergence of a carried leg from the
median of the legs that really tick, presence and active count, and the `WeightCache` throttle in front
of all of it. Instants are kept as ages, so the state space is finite without bounding the time; ages
beyond the horizon are one age. Of the weights it only keeps which are positive.

`MarkShares` is the arithmetic of one computation, in exact fractions: the weight of a leg by prior,
spread and age, what a silent leg keeps beside a present one, the bound of the unmapped bloc, the
concentration ceiling by the effective number of legs, the cap of a pegged pair by the presence of the
fresher peer, the water filling that moves what the caps free, and the median and the book made of the
result. The exponential of the ceiling is replaced by a hyperbola; `Validate` states what
`Concentration::validate` asks of it.

`MarkIsHonest` is the conjunction of, in `Composite`: `PriceNeverWaits` (a changed price is never
withheld by the cache), `LivenessNotOverstated`, `HeldByLiveLegs`, `NoResurrection`; and in
`MarkShares`: `SharesBounded` (the shares make up the whole, and keep to both caps and to the bloc
bound whatever is freed and wherever it goes), `EvictionIsNoStep` (a leg that has faded out moves no
other leg's share when it is evicted), `BookAmongLegs` (the level lies among the prices of its legs, a
book is invented only when there is none, and a leg at an end with less than two fifths of the mark
cannot move the median).

Bounds: a carried leg, a heavy venue and an injectable one, prices 0 and 1, refresh 2, staleness 3,
short window 3, carry ceiling 4, diffusion and horizon 5, one peer: the refresh is below the staleness,
as the default of a fifth makes it (`tdwap.rs:1300`), and the short window below the ceiling, as
validation asks, so that every boundary is crossed on the way to eviction. `VIEW Unexpired` identifies
states that differ in an expired cache, which is overwritten before it is read. The shares are checked
on every blend of up to three out of nine legs (mapped or not, injected, fading, joining, silent,
invalid), with and without the pair's cap: three legs are the least for which one leg is capped, one
receives and one has no evidence.

Three things do not hold and are not claimed: after a *forced* cycle without a mark the next timed
cycle replays an older one; a carried leg pushed out by divergence returns without a frame of its own
when its peers come back to its price; and the first carry of a leg does not refresh the mark.

### Ticks, records and candles: `Resample`

`Resample` has `agg.rs` `TickAccumulator` (ingest, reaffirm, carry, reject, flush) and `ohlc.rs`
(records to candles in a batch and as a stream, candles to coarser candles). `TicksKept` compares each
with the plain definition over all that was fed: `RecordTellsWindow` (bid, volume, counts and flags of a
record are those of the calls since the last flush, saturated at the width of the field),
`ResampleAgrees` (stream and batch give the same candles for any order of records and any corrupt price;
rolling up gives what the coarser timeframe gives). Bounds: four calls a window with a counter of two;
four records over four time units, corrupt ones included.

### Volatility: `VolRing`, `Sigma`

`VolRing` is `vol.rs` `VolRing` with its `.vol` file: candles are rolled into bins, the sigma of a closed bin is
smoothed and appended, a sweeper trims the file, a kill strikes anywhere and the ring is primed again
from the tail. A smoothed sigma is the term that the arithmetic would evaluate, so that "byte-identical
at the history-live seam" (`vol.rs`) can be checked.

The reference `VolSeam` compares with is never reset: `hist` has each bin closed since the beginning,
rolled up from all its candles, and `seen` the candles of the bin that is open, across kills. After a
kill the ring is primed, and its producer either feeds the candles of the bin that the kill cut again or
goes on with the next; in the second case the bin is `spoiled`. So is the bin of a candle that comes
late, and the one it is merged into. A row is `lost` when it was not appended before the next or before
a kill, when the file ends in a fragment, or when it was appended between the read and the rename of a
trim. These two sets name bins, not behaviours: all other bins of the same behaviour stay claimed.

- `TrueToBins`: in the ring and in the file, each row of a bin that is not spoiled takes in the sigma of
  that bin's own candles, those before the kill included; it is there once, and in its place;
- `NoneMissing`: no bin later than the first of the file is missing but the spoiled and the lost, so
  that a trim costs the rows that raced it and none besides;
- `SameAsOffline`: while nothing was spoiled or lost, the rows are, smoothing included, the newest of an
  offline build over the same candles, and the ring has as many as the file gives it. Restarts in the
  middle of a bin and trims between are inside this claim.

`Sigma` has the arithmetic of `vol_estimator.rs`, `mtf.rs` and `vol.rs` with divisions kept as
fractions; `KernelsSound` says no kernel divides by zero or turns negative whatever bars or legs are
missing, a blend lies among its legs, a spike only raises sigma, and the look-backs reach what they
name. Bounds: bins of two units, a ring and a trimmed file of two rows, a smoothing period of two, two
candles in an open bin, six units of time (three bins and the one that closes them), one kill, one trim;
windows of up to four bars out of five.

### Synthetic crosses: `Synth`, `SynthBar`, `SynthStream`, `CrossGraph`

A price is its logarithm, so the product over the legs of a path is a signed sum. `Synth` has quotes,
the rolling correlation and candles; `SynthBar` composed and aligned bars and their roll-up;
`SynthStream` the live replay of two legs (`replay.rs`) with the ring its readers bisect
(`idx_source.rs`); `CrossGraph` the route search (`cross.rs`), the provenance of a composed quote and the
catalogue. `CrossSound` is checked for every input of `MCSeries`:

- quotes: never inside out, nor surer than the weakest leg; the inverse cross is the book turned round;
- correlation: the running sums are those of the window after any number of samples;
- candles and bars: a range no wider than the legs' together, the inverse the mirror image, no
  look-ahead, a roll-up that loses nothing;
- stream: records come in any order of time, also one of a leg behind a newer one of its own, and up to
  a tick late. Whatever the order, an emission finds both legs heard within the TTL, by the caller's
  clock and by each other; it is neither surer nor better sourced nor deeper than the weaker leg and not
  tighter than both spreads, as long as no older record has replaced a leg's newest; and the ring is the
  end of what was sent. As long as no record of a leg overtook another, the emissions are in order, and
  the bisecting reads answer exactly as a scan does;
- routes: a route is found exactly when one exists, and none is shorter or, of the same length, deeper,
  although the search discards dominated arrivals; all graphs of two to five out of seven primaries over
  four assets, and a wrapped asset, three depths each, with every pair and three barred tickers;
- provenance and catalogue: a quote is as old and as doubtful as its legs; a catalogue cross prices what
  its name says.

## The rules a process starts from (`MCRules`)

Run `rules` (266 414 states) explores seven parts that share no state.

### Configuration: `SignedConfig`, `PipelineConfig`

`pipeline_config.rs` and `config.rs`: what a file resolves to (defaults, upper-casing, gates, carry windows,
calibration bounds, storage quote and overrides, parity rows, signed layouts and domains, sigma
windows), what `load` refuses, and a process that boots from it while an operator replaces the file.
`AcceptedMeans` collects what other code may assume of an accepted file; what is accepted although a
doc or other code says otherwise is under "Seen while modelling". `OnePolicy` says that a process
stores by the file it booted from, whoever asked for the storage policy first and whatever replaced
the file since (`shard.rs:1131`). The inputs are a sound file with one section varied at a time, over a few
values around each threshold.

`RulesProofs` proves `AcceptedMeans` and `OnePolicy` for every file and environment, from `CfgInv`: a
process that runs has booted from a file that `check_config` accepts and installed its storage policy,
and the cadence it resolved is one its environment allows. `CfgAssumption` says of the files what serde
makes true of any (keys have their types, maps are finite). Two clauses of `AcceptedMeans` had to say
more than the run had shown, because the proof found files that validate and break them; both were added
to the inputs. A span of more than 65 534 days wraps the `u16` of `bars_retention_days`, so
`SweepSpares` speaks of spans that fit (`InDays16`). And `validate` accepts overrides of the storage
quote that name the hub, an asset that is itself overridden, or the asset itself, so a pair can be
stored both ways: `StorageCoherent` excludes it only for the others (`PlainOverrides`).

The environment of a process (`EnvMeans`: the
data root and the paths under it, numbers that do not parse) and its list of feed targets (`SinksMean`)
are a part of their own.

### Parameters: `TickerParams`

`weights_schema.rs`: two programs rewrite `ticker-params.json` under an advisory lock, each may time out on
the lock or be killed between any two steps. `NothingReverted`: neither reverts the fields of the
other, and the promoted map is what one run fitted in a pass it completed. Two tickers, two runs of
the calibrator, two edits, one failure.

`RulesProofs` proves `NothingReverted` for any number of tickers, runs, edits and failures. `ParInv`: a writer
past the lock holds it (`LockInv`), so the copy it is about to rename into place is the file with its own
edit and nothing else; `nxr-calibrate` changes the file only inside a run, and beyond the first edit of
the run the file is staged for that run (`RunInv`), so what it promotes was fitted by one run, although a
kill may leave the stages of an earlier one behind.

### Memory: `MemoryGuard`

`memory.rs`: the cap from host, cgroup and request, the rlimit, the watchdog against the kernel.
`GuardFirst`: the operator's request is an upper bound, and the guard ends the program before the kernel
does wherever the container has room for the floor. Every combination of three hosts, three readings
of available memory, five cgroups and four requests. `RulesProofs` proves it for every host on which what the
system reports are naturals (`GuardComesFirst`, from `MemInv`: the cap, once set, is the one of this host, and
the limit is what the kernel made of it); `MemAssumption` says how much one allocation may take.

### Symbols: `Resolve`

`resolve.rs`, `ticker.rs`, `asset_class.rs`, `series_alias.rs` over a table of twenty assets chosen for
their collisions (an alias that is another's name, a wheat and a coin of one letter, companies named
like coins, wrapped coins, and two commodities with one name). A symbol is a sequence of syllables and
delimiters; the score of two unequal names is data, and its pre-filter is checked by itself.
`SymbolsMean`: a symbol that resolves has one shape that the gates admit and its perp none; a crypto
quote never lands on a company; the winner of a lookup does not depend on the order in which the tables
were loaded (`LoadOrderFree`, every entry moved to the front, and the reversed table); the length
pre-filter is conservative. Its last section is the bounded memo, whose map and counter are two
accesses: `MemoTrue`, two threads, a memo of one entry, six calls.

`RulesProofs` proves `MemoTrue` for any cap and any number of threads and calls. The bound is the
proof's finding: the text at `ticker.rs:142` has the memo outgrow its cap by at most the number of
threads, but threads that have cleared the map and not yet zeroed its count forget, one after the other,
what those before them let in, so the j-th thread lets in `cap - 1 + j` entries and the bound is their
sum (`RoomFor`): with two threads twice the cap and one more, where the text allows the cap and two more
(at the cap of one of the run the two are equal; TLC reaches five entries with a cap of two). `MemoInv`
counts by where the threads are: those about to zero have used up their share, and what is in the map
beyond theirs is known to the counter or about to be counted.

`RulesTyped` and `ToldTheTruth` join the parts: the type invariant of the run, which contains the
inductive invariant of each part, and `OneTruth`, of which the environment (`EnvMeans`) and the sinks
(`SinksMean`) are computed from one case, and proved for every case.

### Hot reload: `HotReload`

`hot_reload.rs` `watch_file`: three reads (mtime, hash, parse) at boot and in each poll, with writes of
other processes between any two. A rewrite in place shows as two writes: broken bytes, then new ones.

| run | question | bounds |
|---|---|---|
| `rules` | `Converges` (liveness): a file that stays valid is published; `NeverDegrades` | three valid contents, one broken, no file; four writes, none of bytes the file had before |

Fairness: weak fairness of the watcher's steps. The watcher is a loop over a `tokio::time::interval`
whose blocking reads run on the blocking pool; each of its steps stays enabled until it is taken, and
the runtime runs a task that is ready. Nothing is assumed of the writers.

`RulesProofs` proves `NeverDegrades` for any contents and any number of writes, with `Reuse` or without. `HotInv`:
what is parsed and what is published was in the file at some time, however writes fall between the
three reads. `Converges` needs fairness and is TLC's.

`Reuse` says whether a write may bring back bytes the file had before; the run sets it to FALSE, and
that is a condition of `Converges`, not a convenience. With `Reuse = TRUE` a process that truncates the
file and writes the same bytes again while the watcher boots defeats it: the hash was taken before,
the boot parse read the truncated file, and the poll that sees the new mtime finds the hash unchanged
and keeps the initial value until the bytes next differ.

## Summary of proofs

| module | theorems | from |
|---|---|---|
| `LogFileProofs` | `AfterPowerLossType` and what the file operations return | none |
| `IdxShardProofs` | `OrderInductive`, `TypeCorrect`, `ShardsStayOrdered` | `ParamsAssumption`, `BoundsAssumption` of `IdxShard` |
| `IdxStoreProofs` | `WriterIsAStore` (refinement), `ManifestStaysTrue`, `LogStaysNamed`, `Inductive` (`IInv`), `StoredOnce`, `DropsAreJustified`, `DaysStayReadable` | the same |
| `BarManifestProofs` | `OwnerInductive`, `ManifestIsWhole`, `ClosedDaysListed`, `ManifestOnlyGrows` (action); `RebuildsAgree`, `OwnersPart`; `BarsAccounted`, `BarsTyped` | the assumptions of `BarManifest`, `Renko` (`SizesFit` among them) and `ShardFiles` |
| `ProcessProofs` | `LogInductive`, `BarriersHold`, `LossIsBounded`; `UdpTypeCorrect`; `NoFreshRefused`; `CountedOnce`; `DeadTransportReported`; `WindowsAreTrue`; `InstrumentsTyped` | `ParamsAssumption`, `BoundsAssumption` of `AppendLog`; `UdpAssumption`; `WindowFits`; `PeersFit`; `ProbeAssumption`; `LagAssumption` and `CountersHold` |
| `ClientProofs` | `SocketIsSound`; `TicksArrive`; `OneStreamHeard`; `OneListingAtATime`, `EveryRecordOnce`; `ScriptsHear`, `EveryClientHears`; `EveryLossCounted`; `FeedTyped` | `WsAssumption` (and `Keepalive > 0`); `TsAssumption`; `RestAssumption`; `ScAssumption` and `SharedIds`; `PubAssumption` |
| `RulesProofs` | `ValueStaysGood` (action); `NoEditReverted`; `GuardComesFirst`; `MemoStaysBounded`; `RulesTyped`, `ToldTheTruth`, `ConfigMeansWhatItSays` | `ContentAssumption`, `ParAssumption`, `MemAssumption`, `MemoAssumption`, `CfgAssumption` |
| `Induction` | lemmas only: sums, folds and filters of sequences, counting the elements of a set and adding over it, powers of two | none |

The assumptions on constants are what a configuration must be to make sense (sizes are naturals, a
capacity is not 0, model values differ). `ProbeAssumption` bounds the clock below 2^64. Bounds of the
model (`MaxFails`, `MaxNow` and so on) are arbitrary naturals. The invariants are themselves checked by
the runs: `IInv` by `idx`, `LogInv` by `log`, `OwnerInv` in `BarsTypeOK`, `LagInv`, `ProbeInv`,
`PubInv`, `HotInv`, `ParInv`, `MemInv`, `CfgInv`, `MemoInv`, `WsInv`, `TsInv`, `ListingInv` and
`HearInv` in the type invariants of their runs.

**Induction over data.** The library's induction theorems take an operator as a parameter, which the
installed provers do not instantiate. `Induction` goes around them: well-founded induction is also stated
for a set (`WFInduction` with the set of naturals at which a property holds), and a fold of
the community modules is a function applied to an interval, so that what one step adds can be proved of it.
From that follow the lemmas that the proofs of `Clients`, `Rules` and `Process` cite: `FoldLeft` over an
appended sequence is one more step, filters distribute over `\o`, and cardinalities and sums change by what one
step changes, in whatever order `MapThenSumSet` picks the elements (`SumTaken`).

Only model-checked, on the instances above:

- `Converges`: liveness, which this proof system cannot derive from fairness.
- `VolSeam`, `TicksKept`, `KernelsSound`, `CrossSound`, `MarkIsHonest`: each compares what the code
  computes tick by tick with a definition over the whole input (products of sums, maxima, routes through a
  graph); some use RECURSIVE definitions, in whose modules nothing can be proved. Their type
  invariant `SeriesTypeOK` goes with them.
- `CallsAgree` and `SymbolsMean`: the input is finite data (texts, bodies, tables), and TLC evaluates all of it.

## Fairness

Only `Converges` needs any: weak fairness of the watcher of `HotReload`, which the runtime provides. The
other "must happen" questions are asked as safety: `NeverStuck` (something is under way that can
reconnect), `KeptOpenBySpeech` (late by a bounded time), `DeadIsReported`. Nothing assumes that a network
delivers, a server answers or a caller calls.

## Seen while modelling

Where code and text disagree without a run of their own:

- `bar.rs` says a merged bar inherits its kind from the bucket with the worst confidence; the code keeps
  the first sub-bar's. A test of `tests/synth_tests.rs` says a composed high is above open and close; a
  Rogers-Satchell range of a trending bar is zero.
- `cross.rs` calls the greedy order of routes exact: among equal lengths and depths the tie-break by leg
  symbols is not, because a dominated arrival is dropped before it is compared. A wrapped asset without
  primaries of its own routes but is not listed.
- `renko.rs:44` says each brick opens at the last close; the resizing at a half hour moves the anchor
  (`renko.rs:453`). `ticker.rs:142` bounds the memo's overshoot by the thread count, which fails for any
  cap above one: see `RoomFor` under "Symbols". `idx_source.rs` says a range read is never silently
  wrong and, of the same assertion, that it would be a silently truncated window.
- The clients differ: TypeScript accepts plan errors of unknown codes (`errors.ts:143` says a known
  one); Python raises on a limit that is text; a ticker with two separators splits three ways; Python's
  pair replaces a quote set before it; the "force-refresh" of `client.rs:446` can return an older
  listing than one already asked for; Python's subscription opens its filter as Rust's does.
- Configuration that is accepted: overrides of the storage quote that form a cycle or override the hub,
  a parity row that storage reads as a cross, retention beyond 16 bits (`as u16`), look-backs whose
  documented default is another one (`pipeline_config.rs:837`). `memory.rs` documents 2 s and 95 %, the
  code has 1 s and 80 %.
- `bar.rs:204` puts bars into the buckets of a roll-up by `close_mts`, which counts units of 16
  microseconds, over a width in milliseconds: the buckets are 62.5 times too narrow, so that at the
  usual widths hardly any two bars merge.
- `udp_auth.rs:51` and the test at `udp_auth.rs:1033` say that neither the future allowance nor the
  drain grace lets a datagram count twice, because the bitmap is the control and "nothing older than
  max_age_ms can pass the staleness gate" (`udp_auth.rs:500`): see `AtMostOnce`. The test repeats the
  datagram at once, before the idle reset.
- `idx_source.rs:168` says that a ring in disorder gives the answer of the former front-to-back scan:
  with stamps 3, 1 in the ring a read from 2 on finds nothing, where the scan found the 3.
- `resolve.rs:416` says that of two assets of one class with one name the last one loaded wins; the one
  of lower rank does and, of equal rank, of lower id, in whatever order they come (`SymbolsMean` over a
  table with such a pair).
- `vol.rs`: the lookup of a time leaves out the epoch offset (`vol.rs:645`), and the ring evicts one row
  before its longest blend is full.

## Not covered

By the models above, although the code has it:

- collisions of the 64-bit fingerprint in `tdwap.rs:1431`; the interval `ci` and the measured cadence
  of a leg (floating-point arithmetic in which no two of its outcomes are told apart by a property);
- a bar writer whose route day goes back (`shard.rs:1676` has no straggler test, unlike the idx writer);
- the 32-bit wrap of a histogram bucket (`lag.rs:41`), and the clocks stepping back;
- directory durability: a rename is not followed by a sync of the directory;
- a `manifest.json` that is corrupt from elsewhere than the race of `bar_race`;
- rounding: prices, logarithms and variances are integers or fractions, so properties hold of the
  formulas and not of the last bits of their floating-point evaluation;
- the dedupe by `(mts, sequence)` of the receivers in `transport.rs`.

Components that are not modelled at all are in `PROJECT.json` with the reason; they are stateless
(statistics, compression, logging, the bindings).

## Plan

What is left, in this order:

1. **Proofs**: that a volatility ring primed from its file holds what a live one would (`VolSeam`).
2. **Transports**: the dedupe of redundant groups, and the boot check that couples the window of the
   datagram verifier to its grace.
3. **Readers**: range scans over days, retention, and the listing of a directory that changes.
