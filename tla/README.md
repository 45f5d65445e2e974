# retrovert-host in TLA+

This directory holds a formal model of `rust/retrovert-host`, the Rust host
that loads Retrovert playback plugins, gives them services and pulls audio out
of them. The models are written from the Rust source; line numbers in comments
and in `PROJECT.json` refer to it. TLC checks small instances of the models and
TLAPS proves some of their theorems for every value of the constants.

## The system

| Component | State it keeps | Operations | What makes it correct |
|---|---|---|---|
| Read path, `session/mod.rs` (`Player::read_prepared`, `seek`) | format lock, resampler, output buffer, carry, finished | `prepare`, `read`, `seek` | frames come out in order, once, from the right place; reads are bounded and stay inside the storage `prepare` reserved |
| Resampler, `session/resample.rs` | position, last frame of the previous block | `process`, `reset`, `source_frames_for` | cutting the source into blocks does not show in the output |
| Conversion, `session/convert.rs` | none | `to_f32`, `adapt` | pure |
| Session lifecycle, `session/mod.rs` (`Plugin`, `OwnedPlaybackRuntime`, `OwnedPreparedSession`) | plugin statics, instances, keepalives | `new`, `open*`, `replace_prepared*`, `metadata`, drops | callbacks come in the order the ABI promises, and nothing outlives its library |
| Settings, `service/settings.rs` | registry of modules, pending registrations, interned strings; the host's store | `register`, `value`, `set_value`, `flush`, the plugin's `reg`/`get_*` | nothing reported saved is lost; ids are unique; pointers stay valid |
| Metadata, `service/metadata.rs` | one shared record | `take`, `discard`, the plugin's pushes | a record holds what one song's calls pushed; a refused song leaves nothing |
| Visualization, `visualization.rs` | layout, caller's snapshots | `prepare_visualization`, `capture_visualization` | counts a plugin reports fit the storage; a snapshot is of one frame |
| Loader, `loader.rs` | the loaded set while loading | `load_plugins*`, `select_playback` | duplicates are dropped, probe order is stable, first Supported wins |
| IO, `service/io.rs` | buffers lent to a plugin | `exists`, `read_url_to_memory`, `free_url_to_memory` | a plugin gets all of a file or nothing |
| Log, `service/log.rs` with `log_shim.c` | none | the variadic shim, the write | a line is cut by its length, never lost for it |
| Service host, `service/mod.rs` | what the plugin can reach | versioned getters, drop | nothing is given out for another version, or outlives the host |
| Plugin strings, `plugin_string.rs`, `metadata.rs` (`decode`) | none | bounded, lossy reads | no byte behind a string is read, its text is whole characters within the limit |
| C ABI, `include/retrovert`, `ffi/` | none | | declarations only |

How they interact: the session calls the plugin's callbacks; the plugin calls
the services back from inside them, on the decode thread, while the host's
threads use the handles (`SettingsHandle`, `MetadataHandle`), which share their
state behind a mutex. `SettingsHandle` calls the host's `SettingsStore` with
the mutex released. Audio is pulled: one `read` asks the plugin any number of
times, and the plugin may answer anything, including a wrong answer.

What is hard: answers of any size against budgets of any size (carry, resampler
state, storage reserved ahead), seeks between them; concurrent and nested calls
of the settings service around the store, panics of the store, and restarts;
strings, lists and files at and over their limits while somebody else takes,
sets or writes what a plugin's call is about.
`PROJECT.json` lists the hazards line by line.


## Modules

| Module | Models | Extends / composes |
|---|---|---|
| `Resampler` | `Resampler` of `session/resample.rs`: pure operators on one record | |
| `ReadPath` | one open song: `prepare`'s reservations, `read`, `seek` | `Resampler` |
| `Metadata` | the record of `service/metadata.rs`: pure operators | |
| `Sessions` | the plugins of one host, owned by an `OwnedPlaybackRuntime` or borrowed by players, their sessions, the record they push into | `Metadata` |
| `Visualization` | `visualization.rs` and the calls of `session/mod.rs` that lead to it | |
| `Loader` | `loader.rs`: one batch and one selection | |
| `Settings` | `service/settings.rs` with the host's `SettingsStore` | instantiates `DurableSettings` |
| `DurableSettings` | abstract: a version per module, the version stored, "changed or not" | |
| `SettingsProofs`, `ReadPathProofs`, `SessionsProofs`, `VisualizationProofs`, `LoaderProofs` | theorems about the module each is named for | that module |
| `ServicesProofs` | theorems about `Services` | `Services`, `PluginStringProofs` |
| `PluginStringProofs`, `PluginStringReadProofs` | lemmas about the operators of `PluginString`, theorems about `PluginStringRead` | those modules |
| `PluginString` | `plugin_string.rs` and the `decode` of `metadata.rs`: pure operators on bytes | |
| `PluginStringRead` | one read of a string, byte by byte and round by round | `PluginString` |
| `ServiceLimits` | the limits of the services, and what a string becomes under each | `PluginString` |
| `TrackMetadata` | the whole `TrackMetadata` record and every push: pure operators | `ServiceLimits` |
| `SettingsArrays` | what `reg` makes of the C arrays it is given: pure operators | `ServiceLimits` |
| `Services` | a plugin's calls of the four services through a `ServiceHost` | `TrackMetadata`, `SettingsArrays` |
| `MC...` | constants for TLC, one per module that is run | |

Operators named in a comment as a *fault* are variants of the definition that
follows them, with the bug the comment describes. No specification uses them;
they are there to be put in place of that definition, to see that the
properties notice.

### Read path

`read_prepared` runs on one thread but gives control to the plugin once per
pull, and the plugin may answer with any status, format and count. So a read is
`BeginRead` (budget, `take_carry`), `Pull` (`source_frames`, `advertised_bytes`,
the call), one of `AnswerFails` / `AnswerEmpty` / `AnswerFrames` (`validate`,
`start`, `consume`, the retry), and `Return` (chunk, carry). The locals of
`read_prepared` are the variables `budget`, `produced`, `request`; the fields of
`Player` are `lock`, `resampler`, `finished`, `carry`, `carry_at`, `out`.

Data: a frame is the pair of source frames it was interpolated from and how far
between them it lies, which is enough to tell a wrong, repeated or stale frame
from the right one. Stale frames stay in `out` as in the code. The resampler's
position is kept in units of 1/`dst_rate` and is exact; the code has an `f64`.
Sample values, sample conversion and channel adaptation are functions of one
frame and are left out; which formats and adaptations are accepted is in.

### Sessions

Every call of a host's plugins is made on one thread: a runtime is counted by an
`Rc`, and what a player borrows cannot be shared. What that thread has still to do
is the sequence `todo`; dropping a value puts the drops of its fields in front in
declaration order, as Rust does. A callback is entered (`Enter`) and left
(`Leave...`, with each of its outcomes) in two steps; between them the plugin
calls `create_url` and pushes (`CreateUrl`, `Push`), and at any point the consumer
takes the record from its own thread (`Take`).

`owned`, drawn at the start, says which interface the host uses.

- Owned: `handles` are the clones of the runtime the host holds, the runtime and
  the selections. An open is `create`, `open`, `viz_info`, `prepare`, `install`,
  after the session in its variable was dropped. Each session holds a clone, its
  `release` step gives it back, and the last to go runs `RuntimeDrop`.
- Borrowed: an open ends after `open()`, and the player that was in the variable
  is dropped when the new one is installed, so both are alive for a while.
  `PreparePlayer` consumes the player, and a failure leaves the variable empty.
  The plugins can be dropped only when no variable holds a player, which is what
  the compiler demands; they go in the same order of steps.

A song that is refused before its first callback (its target, its url, a missing
callback) is `Refused` in both. `Use` stands for every other call of an open song
that goes to its plugin, `seek`, `settings_updated` and `scope_enable` included:
what they do to a read is `ReadPath`'s, and to a snapshot `Visualization`'s.

### Visualization

`PrepareVisualization` is the one call per song that reaches the plugin and
succeeds; equal repeats return the cached layout and refused ones change nothing,
so neither is a step. A layout is known by the order it was made in, as an `Arc`
is by its address. A capture is `BeginCapture`, which stamps and clears the
snapshot, and one action per callback (`AskPosition`, `AskRows`, `AskCells`,
`AskScope` per channel, `AskVu`), each with every count the plugin may report.
An entry of a buffer is the output frame it was written for. `StorageHolds`
compares the capacity a callback is told, from the player's layout, with the
buffer it is given, from the snapshot's. What the library documents as coherent
are position, cells and scope, and `ShowsItsFrame` holds of them after failed
captures too. `channel_rows()` and `vu()` are only of the stamped frame after a
capture that succeeded.

### Loader

A batch takes one path at a time (`TakePath`, with unreadable directories and
entries) and one file at a time (`LoadOne`), then sorts. What a file is, is drawn
at the start: whether it opens, which entry points resolve in it, and the header
each returns. `KindOf` takes the first entry point, `HeaderError` makes the checks
in the code's order, `Claims` inserts the name last; `InOrder` is what a sort leaves, by file for
a directory and by `Precedes` for the plugins; `Valid` states what a good
library is without an order, so `FirstValidWins` compares the two. A selection is
refused for its data or its name (`RefuseSelect`), or asks the playback plugins in turn;
`asked` records what each says of the file itself, and a plugin that is offered
data another has written over may answer anything.

### Settings

A caller is one running call of the service. The mutex makes each critical
section one action; `store.load` and `store.save` are actions of their own
because the mutex is free around them, and other calls, nested ones included,
come in between. `register` is `BeginRegistration`, `Load` or `LoadPanics`,
`FinishRegistration`; `flush` is `BeginFlush`, then `Save` and `SaveReturns` per
module, or `SavePanics` / `SavedPanics` and `Unwind`; `get_string` is `GetString`
and `Intern`. `set_value` is one action, `is_dirty` is the field `dirty`.
`Restart` ends the process anywhere and starts over from the store.

Here a setting is registered with a schema. How the schema comes out of a C array
is in `SettingsArrays`, and its calls through the vtable are in `Services`.

`store`, `durable`, `restarts` are the host's store and history. Defaults and
overrides are one function from `<<extension, id>>`, and extensions are the
normalised ones.

### Plugin strings

A byte is its UTF-8 class: ASCII (with a dot and an upper case letter, which
extensions are normalised by), the lead of two or three bytes, a continuation, or never valid;
a replacement is one character of three bytes. Characters of four bytes add nothing
to those of three, and the second byte's ranges after E0 and ED are left out. `core::str::from_utf8` is external and
is modelled by its contract (`Whole`, `WholeAt`, `ValidUpTo`, `BrokenLen`). `lossy_with_limit`
and `decode` go in rounds; `PluginStringRead` steps through the same rounds
after a scan that reads one byte at a time. What they should return is defined apart
from the rounds, in `PluginStringRead`: a string is cut into pieces at its `Starts`,
each a whole character or a broken one, and `IsLongestText` is the text of the most of
them that fit.

### Services

A plugin asks for vtables (`GetService`) and then calls, one call at a time, each
an action. A read by `StdFsIo` takes several (`BeginRead`, `ReadSome`,
`ReadTrailing`), because the file may be written in between (`WriteFile`); a host's
own `Io` may answer anything (`ReadFromHost`). The consumer takes the record
(`Take`) and the host sets values (`SetValue`) at any time. `Metadata` and
`TrackMetadata` are the same record seen twice: in `Sessions` by which song's
pushes are in it, here by what they say. `Settings` and `SettingsArrays` divide the
settings service in the same way: the registry's interleavings, and what the C side
makes of arguments. `Read` and `Decoded` are tables, so that TLC reads each string
once; `ReadAssumption` says they are `plugin_str` and `decode`, `LimitAssumption` that
every string limit has room for a replacement and every list for an entry, and
`PluginAssumption` that a plugin sends strings and arrays. `Filtered` keeps some entries
of a list without the recursion of `SelectSeq`, which the provers cannot follow.

## What TLC checks

| Run | Question | Bounds |
|---|---|---|
| `read_path` | seven invariants over every answer and budget: order of frames, nothing left behind at the end, the position, the destination's room, the request's reserve, capacity fillers; the end is final; under fairness every read returns | budgets to 2 frames, ratio 3 for 48, 6 source frames, one seek |
| `read_path_leftovers` | *violation*: the carry comment | as `read_path` |
| `sessions` | callbacks in the ABI's order, no leak, sessions usable, refused songs leave nothing, a pass is its own, the runtime ends | both interfaces; three plugins (one that cannot play, one that can do nothing), two variables, two songs, one take |
| `sessions_failed_call` | *violation*: the doc of `discard` | as `sessions` |
| `sessions_foreign_id` | *violation*: the doc of `foreign_record_id` | as `sessions` |
| `visualization` | buffers hold what is asked for, a snapshot is of its frame, own snapshots stay valid | two songs, two variables, two snapshots, two captures, a count limit of 4 |
| `loader` | first valid copy wins, probe order, first claim wins | three files of eleven contents, three batches, three orders |
| `settings_registry` | registration, kinds, order of the list, interned strings, clean modules | two ids, two callers, three registrations, one restart, one write per module |
| `settings_flush` | marks have one owner and are released; `DurablePromise` | two modules, two callers, three writes per module, one restart |
| `settings_flush_all` | *violation*: the doc of `flush` | as `settings_flush`, no restart |
| `plugin_strings` | no byte behind a string is read, the text is the longest that fits, a cut is not reported as broken text | strings to 5 bytes, limits 3 and 4 |
| `services` | every variable's type; records hold the first of what was pushed, entry by entry, and tell of the rest; files come whole, long lines arrive, what was registered is found | three calls, one take, three writes, files to 3 bytes; limits of 3 or 4 bytes and 1 or 2 entries |

Why the bounds are enough:

- `read_path`: with budgets of one and two frames and native rates at a third,
  two thirds, the same and three times the target's, every relation between
  chunk, budget and ratio occurs: surplus that fills none, part or all of the
  next read; blocks that yield no frame; a carry across a finished song; a seek
  at each of these. Six source frames are twice the largest block at the top
  ratio. `MCFormats` also has a rate over the ratio, an unknown format, three
  channels and rate 0, which `validate` and `start` refuse.
- `sessions`: two songs are the fewest with a session to be replaced and a
  record to be mixed up; two variables the fewest in which two sessions outlive
  each other. The take comes at any point once; a second gives no new record
  state.
- `visualization`: two captures are one to fill a snapshot and one to fail over
  it; two songs and two configurations give layouts of different sizes to mix up.
  The reported surfaces exceed each limit once, the count limit included.
- `loader`: the contents are a library of each kind, of each name, and one that
  fails each check, with one that has two entry points. Three files are enough for a copy before, a copy after and another
  plugin between; one batch reaches a file twice; a name is pinned in both lists.
- `settings_*`: ownership and order are relations between two modules and two
  callers. `MCStores` is what an earlier release can leave behind: an unknown
  id, a string with a NUL, an override; `MCSchemasUpgraded` changes a setting's
  kind. Three writes allow an edit before, during and after a save.
- `plugin_strings`: five bytes are a character of three with one before and one behind; the limits
  are the smallest that hold a replacement, and one more; every string is under,
  at and over both. The code's limits are all larger, and only differences between
  a length and a limit decide anything.
- `services`: one more call than the longest list needs to overflow, with a take
  between; each string of `MCStrings` is under, at or over its limit, with and
  without broken bytes. Names come in different texts and subsongs with different indices, so that a list that
  kept the last push, or another's entry, differs. Three writes are a growth, a cut and a growth around one
  read. The take, the writes and the settings are explored only for a plugin that
  has the service they are about; the services share nothing that could change.

`CHECK_DEADLOCK FALSE` is set for all but `ReadPath`: a host need not call anything, its bounded edits, songs and captures
run out, a runtime that was torn down, a finished selection and a string that was
read are at their end. A read path can always seek or be read again, so
`ReadPath` is checked for deadlock.

Fairness. `ReadPath` has weak fairness on `Pull`, on an answer and on `Return`: the
read runs on, and `read_data` returns. It need not return anything of use.
`Settings` has weak fairness per caller for a call that has begun: its thread
runs, and `load` and `save` return or panic. `Sessions` has weak fairness on the
runtime's thread: the host's steps go on and callbacks return. No fairness
obliges anybody to make a call, succeed, or drop anything.

## What the violations show

- `read_path_leftovers`: `take_carry` moves the surplus of the last read into
  this one before the first pull (`session/mod.rs:1092`). If that pull's answer
  is refused the read fails and the surplus is lost, although the comment at
  1075 says it rides to the next read "rather than being dropped".
- `settings_flush_all`: `begin_flush` skips a module another call is saving
  (`settings.rs:603`), though it was edited after that call's snapshot. So a
  `flush` can return with a change on its way nowhere; the module stays dirty. Its
  doc says it "writes every changed module".
- `sessions_failed_call`: only a failed `open()` and a failed `metadata()`
  discard the record. A null `create()`, a refused visualization or refused
  buffers leave what was pushed to the next song (`session/mod.rs:667`), which
  the doc of `discard` excludes.
- `sessions_foreign_id`: a push under an id `create_url` minted is flagged as
  foreign once that record was taken (`metadata.rs:150`); the flag's doc speaks
  of ids "this store never minted".

## What is proved

For every value of the constants: any number of callers, modules, sessions, plugins,
frames, surfaces, files, names and bytes, any rates, budgets and limits, and behaviours of any length
within the bounds on counters, which are arbitrary naturals. Every module proves an
invariant of its own, stated before its lemmas, and the theorems follow from it.

| Module | Theorem | States |
|---|---|---|
| `SettingsProofs` | `TypeCorrect` | `TypeOK`: every value is of its setting's kind |
| | `PendingOwned`, `SavingOwned` | `PendingHasOneOwner`, `SavingHasOneOwner` |
| | `CleanDurable` | `CleanIsDurable` |
| | `KeepsPromise` | `DurablePromise`: `Settings` implements `DurableSettings` |
| | `StringsStay` | `InternedStable` |
| | `ListOrdered` | `ListedInOrder` |
| `ReadPathProofs` | `DeliveredFramesInOrder`, `FinishedMeansDelivered` | `DeliveredInOrder`, `FinishedDeliversAll` |
| | `PositionExact` | `PositionTracks` |
| | `DestinationNeverFull`, `RequestFits`, `FillersFit` | `DestinationHolds`, `RequestFitsReserve`, `CapacityFillersFit` |
| | `EndStays` | `EndIsFinal`: only a seek brings frames after the end |
| | `TypeCorrect` | `TypeOK`: carry and produced frames stay within what is reserved |
| `SessionsProofs` | `CallsInOrder` | `CallbacksLegal` |
| | `EveryInstanceHeld`, `SessionsCanBeRead` | `NothingLeaks`, `SessionsUsable` |
| | `FailedCallsForgotten`, `PassesApart` | `RefusedLeavesNothing`, `PassIsItsOwn` |
| | `RuntimeEndsInFull` | a runtime that ended has torn down and unmapped every plugin: the safety half of `RuntimeEnds` |
| | `TypeCorrect` | `TypeOK` |
| `VisualizationProofs` | `BuffersHold`, `SameInstant`, `SnapshotsMatch` | `StorageHolds`, `ShowsItsFrame`, `OwnSnapshotsMatch` |
| | `TypeCorrect` | `TypeOK`: what an accessor slices lies inside its buffer |
| `LoaderProofs` | `FirstValidLoads` | `FirstValidWins` |
| | `ProbedInOrder`, `FirstClaimChosen` | `ProbeOrderFollowed`, `FirstClaimWins` |
| | `TypeCorrect` | `TypeOK`: the names taken are the plugins' and no others |
| `PluginStringReadProofs` | `ReadsOnly` | `ReadsOnlyItsString` |
| | `Longest`, `CutIsGood` | `TextIsLongest`, `CutIsNotInvalid` |
| `ServicesProofs` | `WholeFile` | `WholeFileOrNothing` |
| | `Logged` | `FormattedIsLogged` |
| | `RecordKept` | `RecordTells`: a list has the entries of the first pushes, in order |
| | `RegistrationsFound` | `RegisteredIsFound` |
| | `TypeCorrect` | `TypeOK`: every variable, each list and text within its limit |

Every invariant and every action property that a passing run checks is stated by one of
these theorems.

The only assumptions are the named ones of the modules (`SettingsAssumption`,
`BoundsAssumption` and `FormatAssumption`, `SessionsAssumption`,
`VisualizationAssumption`, `LoaderAssumption`, `PluginStringAssumption`, `LimitAssumption`,
`ReadAssumption`, `PluginAssumption`), which TLC evaluates on every run: constants are
sets and functions of the right kind, bounds are naturals, what stands for nothing is
not a thing, a chunk is no longer than the largest request, a string limit has room for
a replacement and a list limit for one entry. The last is what `finish` needs: with no
room for a subsong, it would add one where one was reported. The limits in the code are
constants far above both.

### The arguments

*Settings* climbs in three layers, each inductive given the one below:

1. `TypeInv`: types, plus that a module some flush holds a snapshot of is
   registered, plus that values fit their schema. The last is what makes a
   lookup total, and needs `Restored` to drop every stored value the schema
   would refuse.
2. `OwnerInv`: a pending id has one registration, a `saving` mark one flush with
   one snapshot. `SavingHasOneOwner` is not inductive alone: while a save is out,
   the module it is for must not also be among those left (`AtIsOut`).
3. `IInv`: `DurableInv` bounds revisions: what the store holds is no newer than
   the live values and no newer than an outstanding snapshot, and a clean
   module's stored revision is the live one. `StoreInv` says revisions stand for
   values: a store or a snapshot at the live revision is the live values. A clean
   module then restores to its live values by `RestoreRoundTrip`, since values
   that fit their schema survive a save and a restore unchanged.

`KeepsPromise` maps `SetValue` to `Change`, `Save` to `Write`, a successful
`SaveReturns` with no edit since to `Settle`, `Restart` to `StartOver`, and
everything else to a stutter; that `Write` never moves backwards is `DurableInv`.
`ListOrdered` adds that orders are handed out once (`OrdersOnce`): those that come
before a module's are then a prefix of the list, and their number is its place.

*Read path.* `At` places the resampler: its position is
`generated * src_rate - accepted * dst_rate` and is at most a frame before the block
that comes next. From it the k-th frame of a block is frame `generated + k` of the
song (`AfterBlockIs`), by nothing but division; so `DeliveredInOrder` is left with
where frames lie, at the front of `out` in a read (`ReadInv`) and at `carry_at` between
reads (`IdleInv`). `PositionTracks` is inductive only as long as the destination is
never full. That is `AnswerFits`: a request made for what the budget still wants, in
a block of any accepted rates, yields no more than `prepare` reserved; `PullInv` keeps
what was asked for until the answer comes.

*Sessions.* `CallbacksLegal` says nothing of the steps that are still to come, so it
is not inductive. The invariant is about `Plan`, the callback the thread is in followed
by `todo`. A plan is the start of the runtime, its end, or work, and of the first two the
invariant says how far they are (`Starting`, `Ending`). Work is known by its links
(`Chained`: what may follow a step) and by what its first step finds (`Established`);
each step leaves what the next one finds. `Loose` is the one instance that is in no
variable, and belongs to the first step. `NothingLeaks` and `SessionsUsable` follow
because everything else that is alive is in a variable, and `Held` says who keeps the
runtime for it.

*Visualization.* A snapshot outlives what was known when it was allocated. `Fits`
relates it to the layout it was made for: buffers as large as that says, and what it shows
of them is of its stamped frame. A layout of a player is the only one it ever gets
(`LayoutInv`), so comparing two layouts by identity is enough. `CaptureInv` says what a
capture has filled by the stage it is in. The room in a buffer is products of sizes,
which `CellsBounded` and `ScopeBounded` compare.

*Loader.* `FirstValidWins` needs `NamesSeen`: the names taken are those of the valid
libraries tried so far. `ErrorTells` shows that the checks, in their order, accept what
`Valid` describes and nothing else. `Arranged` says that plugins are in the order of their
keys, which needs that a finite set can be sorted (`Sortable`) and that keys are
ordered totally (`LessOrders`); `KeysDecide` reads the pins off two keys. `Asking` is what
is known of a selection half-way: nobody has claimed the file, and who was unsure first.

*Plugin strings.* The text so far is not always the longest text of the bytes read so
far: a round may still find room for more. What holds is the other way round
(`GoesOn`): whatever the longest text of the bytes to go is, in the room that is left,
behind the text so far it is the longest text of all bytes. A round keeps that
(`RoundKeeps`), because what follows the end of a piece is cut up as if nothing had
been before it (`CutPieces`) and sizes add up (`LongestJoined`). At the end nothing
more fits, so the text is the longest. `TrimmedGood` is the cut: a limit
inside the last character of good UTF-8 leaves exactly what `EndsInside` recognises,
and the characters before it are the longest text.

*Services.* Four invariants, one for each part of the state that must be remembered.
`IoInv`: what a read has is the front of the file and no longer than its length when the
read began, unless the file was cut short since; a file only grows otherwise, so the
trailing read that finds nothing has found its end. `RecordInv` says of the record what
`RecordTells` says, but of every list at once (`RecordOf`), and of the one taken that it
is the `finish` of such a record: a list has the entry (`EntryOf`) of each of the first
pushes it is made of, up to its cap (`CappedLonger`). A push adds one entry to the calls that a list is made
of, or none (`AmongLonger`), and `Told` is what it leaves, proved per callback through
the chain of `accept`s it makes; a flag that is set exactly when one of the pushes had
cause stays so when the history grows by one (`FlaggedLonger`). `RegInv` keeps each registered module by
the call it came from (`Kept`): its schemas are those `read_schemas` makes of the array, in
their order, under different ids, and a write changes no id and no kind, so a lookup
finds the one schema with its id and a value of its type. `TypeInv` adds
the rest of `TypeOK`: the counters, the flags and the url of a record (`PlainTrack`), the answer
of each call, and the overrides (`OverridesFit`), which stay of a registered setting because
no id and no kind changes (`SettingStays`). The entries of a record fit because each is the
entry of a push (`EntryFits`, `CappedFits`), the registered modules because of the call they
came from (`ModulesFit`). A setting's own value has no type of its own: it is what plugin or
host gave. `Logged` needs no history: `ShimIs` follows the text
through the shim's buffer and the read behind it. What one string becomes is in
`PluginStringProofs`: text that fits within the limit, the string itself when it is good
UTF-8 that fits (`DecodeIs`, `PluginStrIs`).

Facts about finite sets of any size, such as `Sortable` and `MaxIsMost`, come from a counterexample with
nothing smaller in it (`Innermost`, from the well-founded inclusion of finite sets):
the library's induction theorems take an operator, which the provers cannot instantiate.

### Model-checked only

- What `lossy_with_limit` computes for every string: it is one function, defined by
  recursion on the rounds, and that is induction over data. `Services` needs of it only
  what `PluginStringProofs` shows without: that its text fits, and that good text that
  fits stays as it is. `PluginStringRead` takes the same rounds as steps, and that the
  text is the longest is proved of those.
- Liveness (`ReadReturns`, `SavingIsReleased`, `RuntimeEnds`): the prover does not do
  fairness.

## What is not modelled

- Samples: conversion and channel adaptation are functions of one frame, and the
  resampler's position is exact where the code accumulates an `f64`. TLC has no
  floating point.
- `LogCrate`, `MemorySettingsStore` and the other defaults of `ServiceHost` keep
  nothing the models of their traits do not; `Io`, `Log` and `SettingsStore` are
  modelled by what any host may do, panics included.
- `SettingsStore::save` cannot report failure; a store that loses a write in
  silence is outside the model. So is a discard that starts a static pass and takes
  with it what an open session has pushed: the step is in `Sessions`, but nothing
  promises that session its record.
- Optional callbacks that are missing (`static_init`, `seek`, `settings_updated`)
  make a call that does nothing; the models call a plugin that has them.
- The C ABI declarations, the layout checks of `abi-parity`, and pointers given
  back after they are freed: contracts of unsafe code, which tests under Miri address.

## Plan

Modelled, checked and proved: read path, settings, lifecycle and metadata,
visualization, loader, plugin strings, services. To come: more of what the code does
between the parts, and the safety halves of the liveness properties as theorems.
