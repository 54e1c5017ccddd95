# Verification of sidereon-ex

TLA+ models of the stateful parts of sidereon-ex, checked with TLC on small
instances and proved with TLAPS where a proof is within reach. Paths are
relative to the repository; `PROJECT.json` maps every definition to the lines it
models.

## The system

sidereon-ex is an Elixir library over an external Rust crate (`sidereon-core`)
that does the numerical work. About half of its code is the native library
between the two (`native/sidereon_nif`, 70,000 lines): it decodes terms, calls
the core, encodes answers, and keeps filters, stores and cache guards in handles
that any process may use. What can go wrong over time, between processes, across
failures or across that boundary is in eight places.

| Part | State | Operations | What is hard |
| --- | --- | --- | --- |
| NTRIP stream process, `lib/sidereon/gnss/ntrip.ex` (module `Stream`) | socket, protocol machine, attempt number, time of last bytes, GGA timer reference; mailbox, timers, kernel sockets | `handle_continue`, eleven `handle_info` clauses, seven `handle_event` clauses, `connect_stream`, `reconnect`, `down` | messages of old sockets and old timers, a watchdog made of messages, retries with a budget, what the sink may rely on |
| Flat product cache, `lib/sidereon/gnss/data.ex` | a data file, its provenance sidecar, a no-coverage marker per path | `fetch/2`, `fetch_space_weather/1`, `fetch_dted/3`: classify, download with retries, commit by two renames | no lock between processes, crashes between renames, files read twice |
| Exact acquisition, `lib/sidereon/gnss/distribution.ex`, `exact_cache.ex`, `native/.../cache_lock.rs` | a transaction entry, a cross-process lock and abandoned transactions per source; the walk of each caller | `acquire/2`: lock, cleanup, load, migrate, download, commit, fall back | locks in the order the caller names, errors that must release, failure classes that must or must not fall back |
| FTP client, `lib/sidereon/gnss/ftp_client.ex` | a control and a data socket, replies in flight | `open`, `user`, `type`, `ls`, `recv_chunk_start`, `recv_chunk`, `close` | replies that arrive after their command timed out, completion told by two connections |
| Candidate walks and single flight, `data.ex`, `exact_cache.ex` | position in a list of candidates; an owner with a liveness timeout | `fetch_ionex/3`, `fetch_merged_sp3/3`, `publication_status/3`; `open_single_flight/4`, `heartbeat/1`, `publish/4`, `abandon/1` | absence told from outage; an owner that lost its ownership |
| Native handles, `native/sidereon_nif/src/{fusion,track_estimation,cache_lock,ssr,iono,ntrip,nmea,terrain_store,observable_states}.rs` | a filter, history builder, correction store, protocol machine, assembler, mapped store, guard or token, each behind a lock | about 140 functions: decode, lock, call the core, record, answer | two locks in one call, a panic of the core under a lock, values taken out of a handle, state read under one lock and used under another |
| Stateless bindings, `spp.rs`, `sp3.rs`, `rtk_filter.rs`, `precise_positioning.rs`, `data.rs`, `rtcm.rs`, `sbas.rs`, `observables.rs`, `observable_states.rs`, `rinex_*.rs`, `iono.rs`, `broadcast.rs` | none between calls | about 330 functions of up to forty options each | options decoded and not handed on, rows of a batch out of step, error paths that fail themselves |
| Terms that come back, `rtcm.rs`, `ssr_bias_exclusion.rs` | a message or report at one stage of its way | build, encode, decode, give back; encode, hand back, decode | integers narrower than the caller's, reports that must not be altered |

How they interact: the walks call `acquire/2`, which downloads over HTTP or the
FTP client and commits to the exact cache; `fetch/2` downloads the same way into
the flat cache. The stream process talks to one sink process and drives the
protocol machine and the assembler through their handles. The exact cache holds
its cross-process lock through a guard handle. The two caches share no files.
There is no shared memory between Elixir processes except the native handles,
which any process that was sent one may use at any time.

What makes each correct:

- stream: one wake-up for a lost connection, a watched connection, every socket
  that was in use closed when it is given up (one whose request could not be
  sent never was, and the code leaves it open), the sink's contract, a retry
  after every announcement unless the process dies first;
- flat cache: products and tiles that are served are bytes verified, whatever
  crashes and other callers did, and no state of their files is a dead end for an
  online caller without a pinned digest (space weather keeps neither: the file is
  parsed in a second read, and a mismatch stands until the files are removed);
  an offline call only reads; every call returns;
- native handles: no deadlock, a history that tells what the filter did, state
  bytes that can be read back, a token used once, a publication under its lock,
  damage of a panic confined, every call returns;
- bindings: an option given is an option used, a row is about its item, a
  refusal reaches the caller as a term;
- terms: a value that crosses the boundary and back is the same value or is
  refused;
- exact acquisition: a lock is held exactly while its source is worked at, an
  entry written while a caller waited is reused, sources answer in order, the
  reported failure is the documented one, every call returns.

`PROJECT.json` lists all components, including those not modelled, and the
hazards with the properties that would catch them.

## Modules

Each component has a specification (`X`), its properties (`XProperties`, or the
end of `X`), small instances for TLC (`MCX` and its `.cfg`
files) and proofs (`XProofs`). A
definition named `Faulty_...` is a plausible mistake in the definition below it
and is used only to show that a property would notice it.

### NtripStream

The GenServer with its mailbox, timers and sockets as explicit state. One action
per `handle_info` clause and per `handle_event` clause; a clause that does not
exist (`{:tcp_error, _, _}`, bytes of another socket) is an action that ends the
process, as `FunctionClauseError` does. A handler is split where the world goes
on beside it: the blocking connect is a state (`pc = "connect"`), and the events
of one chunk are taken one by one after `active: :once` was set again. `last_rx`
is kept as the ticks since it, capped at the stall timeout, because only that
comparison is made of it. The protocol machine of the core is external: it may
produce any event its state allows. `StreamContract` is the abstract
specification of what a sink sees (trying, waiting, ended; numbered
announcements); `ImplementsContract` is the refinement.

### DataCache

One cached path, several callers, one action per file operation. A file is the
version it holds and a digest is the version it is of; `Damaged` stands for bytes
no archive published. A sidecar is its digest and whether it is fresh. The layer
of the path (`kind`) selects between the three classifications. A temporary file
is the position of its call in `commit_file/3`: no other call reads it and one
left behind is never read again. The archive may publish, replace or withdraw at
any time. `Load` reads the path a second time, as `SpaceWeather.load/1` does, and
what it finds (`parsed`) is what the caller of a space-weather fetch is given.

### ExactAcquisition

Callers walk their lists of sources. A step is a call that another process can
interleave with: taking the lock, the cleanup, the load, the migration, one
download attempt, the commit. `SourceFails` is the end of an iteration of
`do_acquire/3`: a terminal reason returns, any other is recorded and the walk
goes on. The lock and the transaction store are those of the shared Rust library
and are external: the lock of a dead owner is released, a commit is one atomic
rename that happened or did not, and what it leaves when it did not is `litter`.

### NifHandles

`NifProgram` is the vocabulary of a native function: checks of the arguments in
their order, then steps (lock, unlock, take, core call) over the handles it was
given, by role. `FusionNifs`, `TrackNifs`, `CacheLockNifs`, `SsrNifs`,
`StageNifs`, `StreamNifs` and `MappedStoreNifs` hold one entry per function of
the Rust files (variants that take the same steps share one) and, per core
operation, the set of its outcomes. `NifHandles` runs them: a process begins a
call, and each step interleaves with those of others. A step that fails ends the
call and drops its locks. `Panic` unwinds a call in the middle of a core
operation, with any part of its changes done, and poisons what it held for
writing; each function states what it answers for a poisoned lock, or that it
ignores it (`LockAnyway`, the stages of `iono.rs`).

Values are what the properties tell apart: a filter is the number of its
operations and the epochs of its retained checkpoints, a builder the list of
what was recorded of which filter, a store the list of messages applied to it,
an entry on disk the holders of its lock and flight record, a mapped store its
provenance and whether it is intact. (That a verified store is intact is the
core's doing; here only its locks and poison are at stake.) An owner record may be taken over at any
time: no clock is modelled.

The code does not keep every function that waits for a lock off the BEAM's own
schedulers: `NormalNif` marks those that run there. The comment in `iono.rs`
that gives the rule is about the stage lock alone, so no property states it of
the others.

### Bindings

A stateless function is a list of steps (`NifCalls`): decode these arguments and
raise, answer or ignore a flawed one; pass these to the core's inputs; call the
core with these failures; go through a list. The thirteen `...Nifs` modules
translate the functions file by file; shared decoders (`build_solve_inputs`,
`merge_options_from_terms`, `decode_float_payload`) are operators, so that one
omission shows in every function that uses them. `Bindings` calls one function
after the other, with at most one argument away from its default and every kind
of flaw that its decoder tells apart. An option that comes in a tuple is an
argument of its own, named by the tuple and its place (`fixed_opts.ratio_threshold`),
so that a field which is unpacked and left shows.

`NotForwarded` names what the code reads and does not hand on:

- the looked-up corrections and antenna validity of a single-epoch float solve
  (`precise_positioning.rs:205`);
- the baseline in the float options of relative positioning, on all six paths
  that take them (`rtk_filter.rs:1875`);
- the float-only systems in the fixed options of `rtk_solve_fixed`, which has an
  argument for them (`rtk_filter.rs:269`);
- the float-only systems and the ratio threshold in the update options of the
  three RINEX paths, replaced by those of the fixed options
  (`rtk_filter.rs:2671`); `rinex_update_opts_term` in `rtk.ex` fills both places
  from one value, but a ratio that the caller puts into `:update_options` is lost;
- the carrier's base in `rtk_solve_static_reference_station_rinex`, replaced by
  the reference position (`rtk_filter.rs:1659`), and with the carrier mode off all
  of the carrier's configuration (`rtk_filter.rs:1657`; an entry of its own, with
  the suffix `_code_only`);
- the derived fields of a broadcast record (`broadcast.rs:553`) and the scale of a
  CNAV reference time (`broadcast.rs:848`);
- an unreadable GLONASS channel (`rinex_obs.rs:664`) and band overrides of a
  system without a name (`iono.rs:1260`).

An option is read where its mode reads it: `elevation_weighting` belongs to the
simple stochastic model, and the other model leaves it.

### TermExchange

`RtcmMessages` lists the fields of every message kind with the type the caller's
integer is decoded as and how it is narrowed: the same, checked, cast, a message
number, a named satellite, a mask that is taken from the listed signals when it
is nil, a number that the body of an unsupported message carries too. `Size` gives the number of values of each type; TLC
gets small sizes and sends every value of them, the proofs take any sizes that
grow in the order of the real ones (`SizesGrow`). `SsrExclusionTerms` has
two tables for each of the twenty types of an exclusion, one with the arms of its
`From`, one with those of its `decode`; an arm names the variant it builds, the
field it fills and how its value is converted. The two are written from the two
functions of the code, and that they are inverse to each other is what
`ExclusionReturns` is about; texts are parsed and may be refused. A token and a
source error have no decode of their own: what stands beside the handle is
compared with what the handle holds. `TermExchange` sends a message from the
caller to the wire and back, from the wire to the caller and back, and an
exclusion out and back, changed or not.

Two observations that no run states: a NavIC message of a satellite the core has
no name for is read, and its map is refused when it is encoded again
(`DecodedReencodes` exempts it); and `rtcm.ex:516` says that `:unsupported`
cannot be constructed, while the binding builds one whose body carries its
number (`UnsupportedFields`; its number is cast, and the core compares it with
the body's).

## Runs

| Run | Expected | What it shows |
| --- | --- | --- |
| `ntrip_stream` | pass | Six option lists (plain, GGA, store without mountpoint, injected transport with GGA, refused configuration, unlimited). `TypeOK`, `OneWakeUp`, `StallWatched`, `OnlyCurrentActive`, `StallChecksBounded`, `GgaTickCurrent`, `ReplacedSocketClosed`, `ImplementsContract`, and under fairness `WaitingRetries` (a stream that waits tries again or its process dies first) and `SilenceNoticed`. |
| `ntrip_infinity` | violation | `AnnouncedMeansWaiting`: the exponent of the backoff is the lifetime count of reconnects, and the power overflows. |
| `ntrip_stale_bytes` | violation | `StaleBytesIgnored`: bytes queued before the socket was given up end the process. |
| `data_cache` | pass | Two callers, two versions, all layers, options and faults: `TypeOK`, `ServedIsVerified` (of space weather, what goes on to be parsed was verified), `NoOrphanData`, `MixedCacheHeals`, `OfflineOnlyReads`, and `CallAdvances`: no step takes a call back, and the attempts of a download are counted. |
| `data_cache_atomic` | violation | `AtomicCache`: without any fault, two calls leave data and sidecar of different versions. |
| `space_weather_reread` | violation | `ParsedIsVerified`: without any fault, a space-weather call parses and answers another version than the one it verified. |
| `exact_acquisition` | pass | Two callers, equal and opposite orders of two remote sources, crashes and disk errors: `TypeOK`, `HeldWhereInside`, `FailureReport`, `AcquireReturns`. |
| `exact_reuse` | pass | A remote and a local source, two versions, digests, 0.29 files, all faults: `WaitersReuse`, `ServedInOrder`, `BrokenEntryEndsWalk`, `CleanUnderOwner`. |
| `nif_handles` | pass | Ten scenarios of two processes on shared handles, nine with the functions of one family (eight of them with panics), one with every function and every refusal: `NifTypeOK`, `NoWaitCycle`, `HistoryFollowsFilter`, `FinishedIsPrefix`, `EncodedRestores`, `PublishUnderLock`, `TakenOnce`, `SolveSnapshot`, `PoisonConfined`, and under fairness `CallsReturn`. |
| `nif_bindings` | pass | Every entry of the thirteen files, every argument and every option of a tuple, every flaw, batches of up to three items: `OptionsReachCore`, `BatchIsPointwise`, `RefusalsEncode`. |
| `term_exchange` | pass | Every field of every message kind and every arm of an exclusion's conversions: `NeverAnotherSatellite`, `DecodedReencodes`, `ExclusionReturns`. |
| `rtcm_reproduces` | violation | `EncodeReproduces`: a number beyond its field is cut to the field's low bits and encoded without an error. |

The violations are disagreements between the code and a statement of the
repository, quoted under `findings` in `PROJECT.json`. Three more were met while
modelling and are part of the models, though no run is about them: an error
message of the socket (`{:tcp_error, _, _}`) ends the stream process, because no
clause takes it (`HandleSocketError`); a socket whose request cannot be sent is
forgotten without being closed (`ConnectSendFails`); a cleanup that fails raises
out of `acquire/2` (`ExactAcquisition`, result `raised`).

### Bounds

- Streams: three sockets and seven timer references are as many as can be in use
  at once under the option lists (a socket or reference is reused once nothing
  refers to it; were there none left the connect or the timer would be disabled,
  and deadlock is checked). A stall timeout of two ticks lets a check pass once
  and fail once. `PowOverflow = 2` stands for 1024: the unlimited stream reaches
  it on its third reconnect, and the state space stays finite because it dies
  there.
- Caches: two callers are the least that interleave; two versions are the least
  that can be mixed, and a third would only add callers that agree with one of
  them. Two retries give one that is repeated and one that is final. Two sources
  are the least that have orders.
- Handles: two processes with two calls each, six handles. Deadlock, use of a
  taken value and interleaved records need two calls; the history properties
  need a second call that comes after both. `MaxFilterOps = 4` is the four calls
  of a scenario; `CheckpointCapacity = 3` lets a history fill up and drop its
  oldest; two messages in a store and one retained remainder are the least that
  change between two reads.
- Bindings: one argument away from its default at a time, because a function
  decodes and passes its arguments independently of each other; three items are
  the least with a good one on both sides of a bad one.
- Terms: integer types of 4 to 32 values in the order of the real ones, with
  every value; a cast and a check differ as they do at 8 to 64 bits.
- Symmetry: callers and versions are interchangeable in the runs of the flat
  cache, callers in `exact_reuse`. No liveness run uses symmetry.

### Fairness

- Stream: weak fairness of the process (a GenServer with a message in its
  mailbox runs; a blocking connect ends by its timeout) and of the clock with
  its timers. Nothing is assumed of the caster or the kernel.
- Exact acquisition: weak fairness of each caller's next step. Archives, disks
  and clocks promise nothing, and not even the lock is promised: a caller that
  waits may always time out instead.
- Flat cache: none. That its calls return is stated by a measure instead
  (`CallAdvances`), which needs no fairness to state, holds with any number of
  callers beside it and is within the prover's reach; that a call which is given
  its turns has a step to take is seen from the guards, which leave no case out.
- Handles: while some call can take a step, some call takes one. Nothing is
  assumed of a single call or of the order in which a mutex is granted.
- Bindings and terms have no liveness; an exchange ends (`CHECK_DEADLOCK FALSE`).

## Proofs

For every value of the constants that satisfies the named assumption of the
module TLAPS proves the theorems below. The assumptions are `SizesGrow` of
`RtcmMessages` (the sizes of the integer types are even, at least 4, and grow in
the order of the real ones), `MaxItemsAssumption` of `Bindings` (a batch has a
finite length), `ConstantsAssumption`, `CacheAssumption`,
`AcquisitionAssumption` (nil values are not members of the sets they extend,
options have their type, bounds are natural numbers) and `ScenariosAssumption`
of `NifHandles`: a scenario calls functions of the library, on handles that
start with values they can have and with nothing recorded, and is about at most
one cache entry, whose lock an open guard holds. (A guard belongs to one entry.
The model gives a call any handles of the right kinds, so two entries in one
scenario would let a guard work on an entry that is not its own, which the
code's path inside the guard excludes.)

| Theorem | Statement |
| --- | --- |
| `NtripStreamProofs!TypeCorrect` | `Spec => []TypeOK` |
| `NtripStreamProofs!OneWakeUpAlways` | `Spec => []OneWakeUp` |
| `NtripStreamProofs!StreamImplementsContract` | `Spec => ImplementsContract`, the refinement of `StreamContract` |
| `NtripStreamProofs!StallWatchedAlways` | `Spec => []StallWatched` |
| `NtripStreamProofs!GgaTickCurrentAlways` | `Spec => []GgaTickCurrent` |
| `NtripStreamProofs!OnlyCurrentActiveAlways` | `Spec => []OnlyCurrentActive` |
| `NtripStreamProofs!ReplacedSocketClosedAlways` | `Spec => ReplacedSocketClosed`, an action property |
| `NtripStreamProofs!StallChecksBoundedAlways` | `Spec => []StallChecksBounded` |
| `DataCacheProofs!CacheTypeCorrect` | `Spec => []TypeOK` |
| `DataCacheProofs!ServedIsVerifiedAlways` | `Spec => []ServedIsVerified` |
| `DataCacheProofs!NoOrphanDataAlways` | `Spec => []NoOrphanData`, if the cache starts empty |
| `DataCacheProofs!OfflineOnlyReadsAlways` | `Spec => []OfflineOnlyReads` |
| `DataCacheProofs!MixedCacheHealsAlways` | `Spec => []MixedCacheHeals` |
| `DataCacheProofs!CallAdvancesAlways` | `Spec => CallAdvances`, an action property |
| `ExactAcquisitionProofs!AcquisitionTypeCorrect` | `Spec => []TypeOK` |
| `ExactAcquisitionProofs!HeldWhereInsideAlways` | `Spec => []HeldWhereInside` |
| `ExactAcquisitionProofs!WaitersReuseAlways` | `Spec => []WaitersReuse` |
| `ExactAcquisitionProofs!CleanUnderOwnerAlways` | `Spec => []CleanUnderOwner` |
| `ExactAcquisitionProofs!ServedInOrderAlways` | `Spec => []ServedInOrder` |
| `ExactAcquisitionProofs!FailureReportAlways` | `Spec => []FailureReport` |
| `NifHandlesProofs!LocksFollowPrograms` | `Spec => []LockInv` |
| `NifHandlesProofs!NifTypeOKAlways` | `Spec => []NifTypeOK` |
| `NifHandlesProofs!NoWaitCycleAlways` | `Spec => []NoWaitCycle` |
| `NifHandlesProofs!TakenOnceAlways` | `Spec => []TakenOnce` |
| `NifHandlesProofs!PoisonConfinedAlways` | `Spec => PoisonConfined`, an action property |
| `NifHandlesProofs!SolveSnapshotAlways` | `Spec => []SolveSnapshot` |
| `NifHandlesProofs!RecordsFollowLocks` | `Spec => []RecordInv` |
| `NifHandlesProofs!HistoryFollowsFilterAlways` | `Spec => []HistoryFollowsFilter` |
| `NifHandlesProofs!FinishedIsPrefixAlways` | `Spec => []FinishedIsPrefix` |
| `NifHandlesProofs!PublishUnderLockAlways` | `Spec => []PublishUnderLock` |
| `TermExchangeProofs!NeverAnotherSatelliteAlways` | `Spec => []NeverAnotherSatellite` |
| `TermExchangeProofs!DecodedReencodesAlways` | `Spec => []DecodedReencodes` |
| `TermExchangeProofs!ExclusionReturnsAlways` | `Spec => []ExclusionReturns` |
| `BindingsProofs!OptionsReachCoreAlways` | `Spec => []OptionsReachCore` |
| `BindingsProofs!BatchIsPointwiseAlways` | `Spec => []BatchIsPointwise` |
| `BindingsProofs!RefusalsEncodeAlways` | `Spec => []RefusalsEncode` |

The arguments, first the stream:

- `OneWakeUp` is not inductive alone. While the events of one chunk are handled
  the socket may already be gone, and the wake-up is only started by the last
  event. `EventsEnd` says that such a chunk ends in an event that reconnects or
  ends the process. The proof counts wake-ups in an explicit mailbox and set of
  timers (`Wake`), with one lemma per way a message is taken, queued or fired.
- The refinement maps every handler to a step of `StreamContract` or a stutter.
  It needs `WakeInv` in one place: an announcement is made only by a stream that
  was trying, because one that is waiting has its wake-up still on the way.
- `StallWatched` and `GgaTickCurrent` say that a message is in a timer or in the
  mailbox. `WatchInv` adds that a stream that is gone has neither socket nor
  tick (`NothingLeft`) and that a connected one holds its socket.
- `OnlyCurrentActive` follows from `SocketsHeld`, which follows each socket from
  connect to close through every state a handler can be in.
- `StallChecksBounded` counts the `:stall_check` messages on their way, which
  the code never cancels. `CountInv` says that no two are equal and that they are
  no more than the reconnects announced so far and one for the open connection
  (`Room`); each kind of turn adds at most what `Room` grows by. The counting uses
  the library's theorems about cardinalities.

The caches:

- `TypeOK` of the flat cache is not inductive alone: a commit writes a digest
  into the sidecar, and only a call that verified its bytes may.
  `CarriesVerified` says what a call past its verification holds, and that a call
  that looks at the sidecar has no digest of its own; `ServedIsVerified` follows
  from it. `CallAdvances` goes through the actions with the order of their places
  (`Stage`). `NoOrphanData` also needs
  that a call about to rename its data file has renamed a sidecar, which nothing
  deletes. `OfflineOnlyReads` and `MixedCacheHeals` are proved together from the
  order of a call's steps: what was classified decides which come next.
- In exact acquisition every step of a caller has one of five shapes by what it
  does to its lock (stays, leaves, waits, takes, dies); `HeldWhereInside`
  follows shape by shape. From it no two callers work at one source
  (`Exclusive`), so a caller's entry changes by its own steps only
  (`Undisturbed`), which gives `WaitersReuse` and `CleanUnderOwner`. It also
  excludes hold-and-wait, so opposite orders of sources cannot deadlock.
  `ServedInOrder` and `FailureReport` rest on `Stories`: the attempts on record
  are the list of sources up to the current one, in its order, and the reason
  kept so far is that of the first unavailable one among them.

The native handles:

- A program is `Sound` if it ends in the core, takes a second lock only for a
  builder over a filter, and lets the core change only what it has locked for
  writing (the entry on disk excepted). `NifTableSound` proves that of every
  function in the tables, from one lemma per shape of a program and one per
  group of core operations; a function that forgot a lock would fail here.
- `LockInv` then says that the locks are held by exactly the calls whose programs
  hold them where they are (`Held`), that a call is at a step of its program, that
  its handles have the kinds of its roles, that a taken value has one owner, and
  that a poisoned lock is free. `NoWaitCycle` follows: whoever waits for a held
  lock while holding one waits for a builder and holds a filter, so a cycle would
  need a handle that is both. `TakenOnce` and `NifTypeOK` are
  consequences, `PoisonConfined` a consequence for one step, and `SolveSnapshot`
  needs in addition what a solve has seen between its two reads (`Seen`).
- For the histories each core operation `Tells` what it does to a filter, a
  builder or a new history, and `NifTableTells` proves that every function holds
  what its core steps tell of. Hence a step lets a filter go on, or adds one
  record of what the filter has come to (`Recording`), and `RecordInv` is kept. A
  panic may leave a record of an operation the filter has not done; the builder
  is then poisoned, which is why `Followed` is about the others only, while
  `Copied` is about all.
- For the cache entry the same lemmas tell who takes and who frees its lock.
  `Guarded` says that an open guard that is not poisoned owns the lock of the
  entry: opening takes a free one, and only the guard's own close lets go.
  `Checked` says that a call about to publish or clean still has the open guard
  it looked at, because it holds the guard's mutex. Neither is enough alone.

The bindings:

- A list of steps is `Whole` if every step is in order and it answers only at its
  end, and it `HandsOn` what it decodes if every argument that some step reads is
  passed on by some step. `StepRules` says how both follow from the parts of a
  list; with these rules one step of a proof per function goes through the 32
  tables (`SppSound`, `Sp3Sound`, ..., `TablesSound`). A function whose path
  forgets an option fails at its own step. The encoders of refusals are proved to
  have an atom for every field of every refusal they are given (`Named`).
- `CallInv` follows a call through its list: the given argument is accounted for,
  by what was handed on already or by a step that is still left (`AccountedFor`).
  A flawed one must be accounted for by a decode step that will refuse it
  (`Caught`), since a call that let it through would answer. At the end nothing
  is left, which gives `OptionsReachCore`. `NotForwarded` is the only way out,
  and a step that ignores a flaw is in order only for arguments in it.
- `BatchIsPointwise` needs that results taken up one after the other come back to
  their items (`TakenUpInPlace`): the readable items up to one place are fewer
  than those up to a later readable one, so no two items have the same rank.
  The batch may have any length.

The terms:

- `KindsSound` goes through the fields of every message kind: a satellite or
  signal number is narrowed by a conversion that checks. For a message that a
  caller constructs, `CallerInv` says that such a number is in the built message,
  on the wire and in what is read back as it was given. For one off the wire,
  `WireInv` says that it is the first one at every stage on either side, and that
  only an unnamed satellite is refused. Both rest on the order of the sizes
  alone.
- For each type of an exclusion one lemma compares its two tables arm by arm
  (`ClosedInverse`, `OpenInverse` and `StructInverse` say what is to be compared
  of an enum, an enum that may have grown and a struct). `TablesInverse` collects
  them; `PlaceConverts` and `TermConverts` turn them to a place of the report and
  of the term. `ExclusionInv` then follows a path into a report: only its end can
  be at a variant that the binding does not know, what the caller holds differs
  from the term of the core's report at most where it may be changed, and what is
  handed back is accepted exactly if every place of it is.
  Together with the invariant of the messages it is `ExchangeInv`.

Only model-checked: every liveness property (the prover has no fairness and no
`ENABLED`); and `EncodedRestores`, whose argument is an induction over the list
of checkpoints that are merged. The runs that expect a violation have nothing to
prove.

## What the models do not contain

- Numerics, formats, encodings and the core's protocol machine.
- URLs: redirect, host, cookie and authentication rules are the outcomes
  "refused" and "rejected" of a download. Size limits and decompression are the
  same.
- Time of day: an age is fresh or not, a timeout comes at any time after the
  wait began (in the caches) or in ticks (in the stream).
- The transaction store and lock of the external crate, beyond what the code
  here relies on.
- The components marked `not_modelled`, with reasons, in `PROJECT.json`.

## Not modelled

- `FtpClient`: the control connection's replies against commands that timed out.
  Both cache models take its result as the outcome of one download, which may be
  any.
- The candidate walks of `data.ex` over `acquire/2`, and the consumer
  `Ntrip.stream/1` over the stream process. What they rely on is checked
  (`FailureReport`, `ImplementsContract`); what they do with it is not.
- The clock of the single-flight handle, and its Elixir wrappers: a takeover may
  come at any time in `CacheLockNifs`.
- The bindings of orbits, passes, conjunctions, CCSDS messages, antennas,
  biases, time scales and quality control (`lib.rs`, `time.rs`, `tdm.rs`,
  `cdm.rs`, `omm.rs`, `qc.rs` and others): pure functions of the shape of
  `Bindings` with few options, no batches over refused items and no state.
- The core itself: what a filter computes, what a codec accepts, what a store
  holds after a message.

## Plan

Done: the three Elixir cores, their contract, the native handles, the stateless
bindings and the terms that come back; the theorems above.

Left open are the components under "Not modelled". Those that have state and
hazards of their own are the FTP client and the consumer stream; a model of the
former would replace the free outcome of a download in both cache models, one of
the latter would be composed with `StreamContract`. Every invariant and action
property of a passing run but `EncodedRestores` is a theorem.
