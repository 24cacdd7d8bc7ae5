# fss-adsb in TLA+

fss-adsb reads SBS-1 messages from a dump1090 server over TCP, accumulates what
they say of each aircraft, and sends a position report to the Flight Safety
System (FSS) server for every position it receives. This directory holds TLA+
models of the program, the TLC instances they are checked on, and TLAPS proofs.
Paths of the form `dump1090.cpp:476` are relative to the repository's `src/`.

## The system

Three threads and a signal handler:

```
 dump1090 server --TCP--> receive thread                      worker thread --> FSS library
                          processMessages()                   reporting_worker::run()
                            processMessage()                     ^ pop()
                              handle_adsb_data() --fold()--> aircraft_registry
                                                 --push()--> report_queue
 main thread: sleep(1); reconnect(); attemptReconnect(); every 60th time evict_stale_aircraft()
              then, after SIGINT/SIGTERM: dumper.disconnect(); worker.stop(); destructors
```

### Inventory

| component | state | operations | what makes it correct |
|---|---|---|---|
| `report_queue` | `items` (map by ICAO address), `order` (FIFO of addresses), `stopped`, a mutex and a condition variable | `push` `pop` `shutdown` `clear` `size` | map and FIFO agree; bounded; coalescing never changes anyone's place; an aircraft leaves only in turn; no wakeup is lost |
| `reporting_worker` | `drain_deadline`, the thread | `run` `stop` | sends the newest fix with its true age; bounded drain; discards only in a drain; `stop()` ends |
| `aircraft_registry` | `known_aircraft` (map), `evictions`, a mutex | `fold` `evict_stale` `capacity_evictions` `size` | bounded; capacity costs the least recently heard aircraft; a sweep takes exactly the stale ones |
| record logic (`adsb_record.hpp`) | none | `update_record` `report_flags` `build_report` `derive_tslc` `derive_report_timestamp` | valid bits are the truth at the fix; the two ages sent agree; no narrowing wraps |
| `dump1090` link | `fd` (atomic), `recv_thread`, `last_tried`, `retry_delay` | constructor, `reconnect` `connect_to_dump1090` `connect_candidate` `disconnect` | each socket closed once, by its owner; threads joined before reuse; back-off; recovery |
| line framing (`processMessages`) | `accumulator` | append, split, drop overlong fragments | lines do not depend on how TCP cuts the stream |
| SBS-1 parser (`processMessage`, `sbs1_to_*`) | none | one message | clamps or rejects at every limit |
| `units.hpp`, `point.hpp` | none | conversions | saturate and round |
| `main` | `running`, `seconds_elapsed`, `reported_capacity_evictions` | the loop, the teardown | order of the teardown; nothing starves in the loop |
| `args.hpp` | none | start-up checks | -- |
| FSS reporter | the FSS library's connection | `reportAircraft` `connectTo` `sendIdentify` | thread-safe in the library |

What is hard: three threads, two locks and two atomics; a condition variable
notified outside its lock; a blocking send of unknown length during a shutdown
with a deadline; clocks read outside the locks that order the events they stamp;
descriptor numbers that are reused by other parts of the process; two bounded
stores with different policies for the same aircraft. PROJECT.json lists these
under "hazards", each at its line with the properties that cover it.

## Modules

| module | models | composed of |
|---|---|---|
| `CoalescingHandoff` | abstract: what the hand-off between two threads promises | -- |
| `DataFeed` | abstract: what class `dump1090` promises of chunks and of `disconnect()` | -- |
| `ReportQueue` | `report_queue`, one action per critical section | INSTANCEs `CoalescingHandoff` |
| `ReportingWorker` | receive thread, worker and main thread around the queue | EXTENDS `ReportQueue`, INSTANCEs `DataFeed` |
| `AdsbMessage` | what a message can carry: the interface of parser and registry | -- |
| `AircraftRegistry` | the registry, the record logic's times, the receive thread's stamp, the sweep | EXTENDS `AdsbMessage` |
| `Dump1090Link` | the connection: both threads, the descriptor table, the back-off | INSTANCEs `DataFeed` |
| `LineFraming` | the accumulator of `processMessages()`, over all connections | -- |
| `Units` | the unit conversions | -- |
| `Sbs1Message` | `processMessage()` and the parsers of its columns | EXTENDS `AdsbMessage`, `Units` |
| `ReportContent` | the values on their way from line to record to report | EXTENDS `Sbs1Message` |
| `FssAdsb` | the program in normal operation: fold and push, worker, main loop and sweep | EXTENDS `AircraftRegistry`, INSTANCEs `ReportQueue` |
| `MC...` | TLC instances of the module they are named after | |
| `...Proofs` | theorems about the module they are named after | |

### How state and actions correspond to the code

**ReportQueue.** `items`, `order` and `stopped` are the members of those names;
`popped` is what the last `pop()` returned, the moved-from item being gone from
the map. Every operation holds the mutex from its first to its last access, so
it is one action. `push` is `Coalesce`, `Append1` or `Displace`; `pop` is
`PopItem` or `PopNullopt`; `clear` is allowed at any time, because the drain
deadline can pass before `shutdown()` is reached.

**ReportingWorker.** Each thread has a program counter (`rpc`, `wpc`, `mpc`). A
step is one critical section, one clock read, one atomic access or one blocking
call. The condition variable is modelled as it is used: `pop()` tests and goes
to sleep in one step (`PopWaits`), may wake for no reason (`SpuriousWakeup`), and
is woken by `NotifyOne`/`NotifyAll`, which are steps of their own after the
critical sections of `push()`/`shutdown()`. A position report is reduced to its
aircraft, its receive stamp and a number telling fixes apart (`fixes`, `newest`).
The wall clock is the monotonic one plus an `offset` that NTP changes at any time.
`lateSends` is a history variable. On shutdown the main thread takes the
connection, joins the receive thread (which still handles the rest of its chunk, and
one more if `recv()` had data when the socket was shut down),
reads the clock, stores the deadline made of it (which may have passed by then),
shuts the queue down and joins the worker. The destructor's second `stop()` finds
no thread left and is not modelled. A connection that
is lost and re-established before that is only a pause in the pushes here; what entitles
the model to that is `DataFeed`.

**DataFeed.** The interface between the link and the program: one reader that waits,
handles a chunk or is gone for good, and the phase of `disconnect()`. `Dump1090Link`
maps any number of connections and receive threads to that one reader (`Reading`,
`Disconnecting`; between connections the reader waits) and implements it, the
destructor's second `disconnect()` included (`ProvidesFeed`); the receive thread and the
teardown of `ReportingWorker` are the same feed (`FeedAsProvided`). So what is shown of
the worker with its one receive thread holds over drops and reconnections.

**AircraftRegistry.** `known` is `known_aircraft`; a record is its `last_seen`
and, for each field, the time its value was observed at (`Never` if it was not),
which stands for the value too. `Fold(m)` is the whole of `fold()` with
`update_record` and `build_report`; its three disjuncts are a known aircraft, a
new one with room, and a new one that evicts. Of several records with the oldest
`last_seen` any may be evicted (the code takes the first in key order). The sweep
is three steps, because `main` reads the clock before `evict_stale()` takes the
lock and the counter after it. `lastHeard` and `heard` are history variables:
they record what was received, independently of what the registry made of it.

**Dump1090Link.** `table` is the process's descriptor table: each number is free,
the link's, or somebody else's (the FSS library opens sockets in the same
process). `cur`, `owned`, `newFd` and `taken` are the local copies of `fd` that
the functions hold. The connection attempt goes through the candidates one by
one. Only the difference of the clock and `last_tried` is kept, up to one more
than the cap, which is all `reconnect()` compares. `retries` is a history
variable. The destructor's second `disconnect()` is part of the model.

**LineFraming.** A byte is its position in the stream of everything received; of its
value only whether it is CR or LF is kept. The accumulator is then an interval, from
`base` to `received`, and `start` is the loop's offset into it. Each turn of the loop is
one `HandleLine`; `EndChunk` is the erase and the test of the limit. `arrival` and
`opened` (where each connection begins) are history variables, from which the properties
say what the lines of the stream are without looking at the accumulator. `Heads` tells
where a text begins that would parse as a message.

**Sbs1Message, Units, ReportContent.** A column is what `from_chars` and `strtol` can
tell of it: a sign, digits before and after a point, something left over. Every
integer type keeps its width as a constant, the types the parsers only use in between
included (`long` has 32 bits on armhf). Values that may have decimals are counted in
thousandths, and the conversions are exact fractions. The state is the records' values
(`record`), the last message, and two history variables: `said`, what each aircraft's
valid columns said last, unlimited; and `located`, whether the last line gave a position.
Both follow every line by a reference that reads aircraft, type and columns off the texts
(`Names`, `IsType`, `Says`) and uses none of the parsers, so that a line accepted or
refused wrongly, or counted as the wrong type, shows. `MessagesAsAssumed` ties the module to
`AircraftRegistry`, which leaves the values out and keeps their times.

**FssAdsb.** `handle_adsb_data()` is two steps, `FoldMessage` and `PushReport`, as its
two critical sections are. The main loop's turn is one step that may take any time; the
turn that reaches `evict_interval_secs` reads the sweep's clock, the others only count.
The registry's and the queue's actions are taken whole from their modules. The worker is
reduced to pop and send, the queue to what it is before shutdown; both are in
`ReportingWorker` in full. `latest` is a history variable: the last report of each
aircraft.

## What the runs check

All bounds are constants of the configuration or guards named in the module.

| run | states | shows |
|---|---|---|
| `queue` (`MCReportQueue.cfg`) | 434 | `OrderMatchesItems`, `NoOvertaking`, `LeavesInTurn`, and that the queue implements `CoalescingHandoff`, its bound and its fairness included (`HandoffSpec`) |
| `worker` (`MCReportingWorker.cfg`) | 5.0 million | `NoLostWakeup`, `ClockNeverBehind`, `AgeAgrees`, `DrainBounded`, `DiscardsOnlyInDrain`, `StopLeavesNothing`, `SendsNewestFix` |
| `worker_live` (`MCReportingWorkerLive.cfg`) | 62 000 | `QueueUsed` (the threads get the hand-off's liveness), `ShutdownCompletes`, `FeedAsProvided` |
| `registry` (`MCAircraftRegistry.cfg`) | 846 000 | `TypeOK` (the capacity), `FlagsHonest`, `EvictsLeastRecentlyHeard`, `SweepExact` |
| `link` (`MCDump1090Link.cfg`) | 76 000 | `UsesOwnSocket`, `OneOwner`, `JoinedBeforeSpawn`, `BackoffSchedule`, and, with fairness, `Recovers`, `LinkStops`, `ProvidesFeed` |
| `framing` (`MCLineFraming.cfg`) | 590 000 | `WholeLinesHandled`, `LinesSound`, `HandledInOrder`, `ChunkHandled` |
| `fields` (`MCReportContent.cfg`) | 14 000 | `TypeOK` (every value fits its C++ type), `MessagesAsAssumed`, `RecordFollowsFeed`, `ReportAccurate` |
| `compose` (`MCFssAdsb.cfg`) | 191 000 | `SendsLatest`, `StaleForgotten`, `ForgettingNears` |
| `backlog_attempted` (`MCBacklogAttempted.cfg`) | violation | finding 1 |
| `sweep_clock` (`MCSweepClock.cfg`) | violation | finding 2 |
| `fragments` (`MCFragments.cfg`) | violation | finding 3 |
| `capacity` (`MCCapacities.cfg`) | violation | finding 4 |

Why the bounds are enough:

* queue: three aircraft and room for two, so that each of two queued aircraft can
  be coalesced, overtaken or displaced by a third; two fixes tell a replaced report
  from a kept one.
* worker: two aircraft make a backlog behind a blocked send; three fixes allow a
  coalesced report plus a fresh one; the clock goes to four with a drain timeout
  of one, seconds of two ticks and a saturation at one, so that ages saturate and
  the deadline passes with a backlog left. Two wall-clock offsets are one NTP step
  in either direction, at any time, any number of times.
* registry: three aircraft and room for two, so that one is evicted while another stays,
  and comes back. Messages of type 1 (raw callsign, possibly unusable) and 3 (altitude,
  possibly a position, possibly neither) cover a field with each window and messages
  that carry nothing. The motion window of 1, the identity and stale windows of 2 and a
  clock up to 3 let a field of either kind be valid in later reports than its own message's
  (the identity kind after it has outlived the motion kind), expire before, at and after its
  limit, and the aircraft be swept and readmitted. `MaxEvictions` bounds the counter. The
  state constraint `HeardBound` keeps at most three usable receptions in `heard` at a time:
  enough for a field heard twice, for one of each kind beside a newer position, and for
  two aircraft with fields of their own, of which one is evicted.
* framing: a buffer of two bytes and a stream of seven: a run can be as long as the
  buffer, one longer, or long enough to be dropped twice, with whole lines before and
  after it; two values of the clock tell one chunk's stamp from another's. The
  number of connections is bounded only by the bytes between them.
* fields: the widths of the types are small and in the order of the real ones on armhf,
  with room between the limits of a field and those of its parser's intermediate type:
  each kind of text (in range, beyond the field, beyond the intermediate type, of either
  sign, nan, empty, trailed, signed) is in each column. A column varies while the
  others of its line are empty, and the records remember. `uint16_t` keeps its
  real width, and the reports reach its end through the speed.
* compose: two aircraft, room for one in the registry and for two in the queue, so that
  a queued aircraft is evicted and readmitted; two turns between sweeps; a window of one
  tick. One transmission type is enough, since what the others carry is checked in
  `registry`.
* link: two addresses; two descriptor numbers (one can be taken by
  others while the link's is closed); a cap of three that is
  not a doubling of the start, like the code's 30 s over 1 s.

Deadlock checking is off where the program ends (all threads joined) or where the
bounded clock or stream runs out, which is every run but `queue` and `fields`.

### Fairness

* `ReportQueue`: weak fairness of `PopItem`: the worker pops again after each send.
* `ReportingWorker`: weak fairness of each thread as a whole, which says that the
  scheduler runs it and that its blocking calls return. That includes
  `reportAircraft()`: `reporting_worker.hpp` says that `stop()` does not bound a send in
  flight, so `ShutdownCompletes` is conditional on it. Nothing is assumed of new
  data, the clocks, NTP or the signal.
* `Dump1090Link`: weak fairness of both threads (a connect ends when `poll()` times out
  at the latest), of time, and of the kernel's keepalive. That a live peer ever
  sends anything is not assumed, so a `recv()` may block for ever until the socket is
  shut down. If setting the keepalive options fails, which the code only logs, a
  silent peer stays unnoticed; that case is outside the model.
* `DataFeed`: weak fairness of finishing a chunk, of leaving a `recv()` that was shut down,
  and of `disconnect()`'s end. Both modules that map to it derive it from the
  fairness of their threads.
* `LineFraming`: weak fairness of the loop over a chunk that has arrived, nothing of data.
* `FssAdsb`: weak fairness of the push after a fold, of the worker and of the main loop,
  whose turns end however long `reconnect()` blocks (it is bounded by the resolver's and
  `poll()`'s timeouts). Nothing is assumed of messages or of the clock: `StaleForgotten`
  says only that an aircraft does not stay tracked *and* silent beyond the window.

### Findings

1. `main.cpp:170-176` says that every report ever queued gets at least an attempt
   before the worker stops. Once the drain deadline has passed `run()` clears the
   queue, so it does not (`backlog_attempted`, `EveryQueuedAttempted`). The later
   comment in the same function and `reporting_worker.hpp` describe the bounded
   drain correctly.
2. `dump1090.hpp:117-121` says that `isStale()` can never be called with `now` behind
   `last_seen`. `evict_stale_aircraft()` reads its clock before it waits for the
   registry's lock, so it can (`sweep_clock`, `SweepClockNotBehind`). The code is right,
   as `SweepExact` shows, but because of the guard the comment belittles.
3. `test/test_dump1090.cpp:1811` says that the fragment the loop resumes into after an
   overlong run must not reach the callback. It does if it reads like a message
   (`fragments`, `FragmentsNotDelivered`): the loop forgets that it is inside a run. The
   test passes because the fragment it sends is rejected by the parser. `LinesSound` shows
   how far it goes: only the tail of a run of more than `buffer_length` bytes is ever taken
   for a line, and `WholeLinesHandled` that none of the lines after it is lost.
4. `aircraft_registry.hpp:14` argues that a registry with less capacity than the queue
   could never fill the queue. An aircraft evicted from the registry stays queued, so it
   can (`capacity`, `SmallRegistryNeverFillsQueue`). Nothing depends on it: `SendsLatest`
   shows that reports of evicted aircraft are still right.

Also observed: `adsb_record.hpp:38` says that every numeric field of the wire goes through
an `sbs1_to_*` helper; the transmission type goes through `strtol()`, so "3x", "3.5" and " +3"
count as 3. The reference (`IsType`) takes a type by the number its column begins with, as
the code does, and is otherwise independent of `strtol()`: `RecordFollowsFeed` and
`ReportAccurate` show that no negative or huge number, and no column without one, is
taken for a type. Also, the deadline can pass between arming it and `shutdown()`, so the
worker can clear the queue and leave before `stopped` is set. `DiscardsOnlyInDrain`
and `StopLeavesNothing` show that nothing is pushed by then.

## What is proved

For every set of aircraft, times, capacities, windows, descriptors and delays that
satisfies the named ASSUMEs of the modules:

| module | theorem | property |
|---|---|---|
| `ReportQueueProofs` | `QueueTypes` `QueueConsistent` `QueueBounded` `QueueFifo` `QueueLeavesInTurn` | `QueueTypeOK` `OrderMatchesItems` `Bounded` `NoOvertaking` `LeavesInTurn` |
| | `QueueImplementsHandoff` | every step is a step of `CoalescingHandoff` or a stutter |
| | `QueueAdvances` | a queued aircraft never falls back, and each `pop()` brings it a place nearer the front |
| `ReportingWorkerProofs` | `WorkerTypes` `WakeupsKept` `ReceptionPrecedesSend` `AgesAgree` `DrainIsBounded` `DiscardsInDrain` `StopIsClean` `NewestIsSent` | the safety properties of the run `worker`, in that module's order |
| | `WorkerUsesQueue` `WorkerHandsOff` | the threads use the queue as `ReportQueue` specifies, so its theorems hold here |
| | `WorkerIsFed` | every step is a step of `DataFeed` or a stutter |
| | `NeverDeadlocked` `DrainEnds` | the three threads are all blocked only when the program idles or has ended, with an empty queue; the backlog only shrinks once the receive thread is gone |
| `AircraftRegistryProofs` | `RegistryTypes` `FlagsAreHonest` `EvictionIsFair` `SweepIsExact` | `TypeOK` `FlagsHonest` `EvictsLeastRecentlyHeard` `SweepExact` |
| `Dump1090LinkProofs` | `LinkTypes` `OwnSocketOnly` `SpawnsAfterJoin` `OwnedOnce` `BackoffKept` | `TypeOK` `UsesOwnSocket` `JoinedBeforeSpawn` `OneOwner` `BackoffSchedule` |
| | `UpMeansAttended` `NoJoinHangs` `DisconnectIsClean` | a connection always has its receive thread; no join waits for one that nothing will wake; after `disconnect()` no socket and no thread is left |
| | `LinkProvidesFeed` | every step is a step of `DataFeed` or a stutter |
| | `EveryAddressTried` `AttemptEnds` | an attempt passes over no address that accepts, and takes two steps for each at most |
| `LineFramingProofs` | `FramingTypes` `WholeLines` `SoundLines` `OrderedLines` | `TypeOK` `WholeLinesHandled` `LinesSound` `HandledInOrder` |
| | `LoopTerminates` | each turn of the loop over a chunk's lines leaves it fewer bytes |
| `ReportContentProofs` | `ContentTypes` `MessagesFit` `RecordsFollow` `AccurateReports` | `TypeOK` `MessagesAsAssumed` `RecordFollowsFeed` `ReportAccurate` |
| | `AltitudeParsed` `VertRateParsed` `SquawkParsed` `ConversionsNearest` | each parser and conversion against its reference, for every text, value and width |
| `FssAdsbProofs` | `SystemTypes` `LatestIsSent` `SilenceIsCounted` | `SystemTypeOK` `SendsLatest` `ForgettingNears` |
| | `SystemUsesQueue` | the program uses the queue as `ReportQueue` specifies |
| | `RegistryHolds` `QueueHolds` | so what is proved of the registry and of the queue holds in the program |

The arguments:

* Queue. Consistency (`order` is injective and its range is the map's domain) is
  inductive together with the types; the bound then needs only that an injective
  sequence is as long as its range is large. The refinement needs consistency (the
  displaced front is in the map) and the bound ("full" means exactly at capacity).
* Worker. The queue's invariant is reused step by step. The age properties rest on
  an ordering of clocks: no queued stamp exceeds the receive thread's stamp, which
  does not exceed the clock, which the worker reads after the pop. The drain rests on
  an ordering of control: after the receive thread is joined nobody pushes, and once
  a send has begun late the worker's next look at the clock must see the deadline
  passed. `SendsNewestFix` needs that a queued report carries the aircraft's newest fix
  and that fixes sent before are older.
* Registry. `FlagsHonest` is no invariant of the registry alone: the inductive part
  is `SeenIsNewest`, that a record's field is the newest of the receptions since the
  aircraft was admitted, with `HeardOfKnown`, that an evicted aircraft leaves none
  behind. The sweep rests on `Clocks`: `last_seen` is the time last heard, and neither
  stamp nor sweep clock is ahead of the clock.
* Link. `Sockets` says which places hold the link's descriptors, `Places` that no two
  do at once, `Reads` that the receive thread's `cur` is either still `fd` or the one
  `disconnect()` took, which it will not close before the join recorded in `Threads`. The
  back-off needs only that the delay is the capped power of two the retries call for
  (`DelayIsDue`); what the proof uses of powers is the assumption `PowersOfTwo`, a fact of
  arithmetic that the provers do not know and TLC evaluates. `Attended` (a thread that may
  be joined is there as long as its descriptor is anywhere) and `Stops` (how far
  `disconnect()` has got says what is left) carry `UpMeansAttended`, `NoJoinHangs` and
  `DisconnectIsClean`, and the refinement of `DataFeed`: a receive thread that is still
  handling a chunk when `disconnect()` begins is the one its join waits for.
* Framing. The cursor is the last byte the loop is done with. `CursorPlaced` is the heart
  of `FramingInv`: the cursor is at the start of a line, or so deep in a run that the run
  is too long already, which is why dropping it costs no line that fits a buffer.
  `BeyondCursor` says that every terminator not handled yet came with the current chunk,
  so its line gets the right stamp; `BehindCursor` gives the order. The run's properties
  are inductive together with these three.
* Content. The parsers are compared with the reference column by column. The step that
  matters is `ClampedThroughWidth`: limiting to the intermediate type and then to the
  field equals limiting to the field, because the intermediate type is the wider one,
  which `WidthAssumption` states. Which aircraft and type a line is taken for equals what
  the reference reads (`AddressParsed`, `TypeParsed`, `LinesAccepted`): `strtol()` limits to
  `long`, which is wider than the types the switch knows. `ContentInv` then says entry by entry that a record
  is what was said, limited, and the conversions' theorem carries that into the report.
* Program. `SystemInv` is the registry's and the queue's invariant with `LatestQueued`: a
  queued report is its aircraft's last one, unless the receive thread is between fold
  and push of that very aircraft. Every step is then a step of the registry's and of the
  queue's specification, whose theorems are used through their instances.
  `SilenceIsCounted` counts the steps of the main loop that are left (`StepsLeft`): a sweep
  whose clock was read too early costs one more round of turns.

Only model-checked: what is claimed under fairness, which this prover does not reach:
`ShutdownCompletes`, `Recovers`, `LinkStops`, `ChunkHandled`, `StaleForgotten`, and the
liveness halves of `HandoffSpec`, `QueueUsed` (of the worker), `ProvidesFeed` and
`FeedAsProvided`, whose safety halves are proved. The facts such a proof would combine
with the scheduler's fairness are proved for every instance: for `HandoffSpec`,
`QueueAdvances`; for `ChunkHandled`, `LoopTerminates`; for
`ShutdownCompletes`, `NeverDeadlocked` and `DrainEnds`; for `LinkStops`, `NoJoinHangs` and
`DisconnectIsClean`; for `Recovers`, `BackoffKept`, `UpMeansAttended`,
`EveryAddressTried` and `AttemptEnds`; for `StaleForgotten`, `SilenceIsCounted` (`ForgettingNears` counts
while the aircraft is not heard again: TLC's clock ends, so there the messages of ever
newer chunks do too). What is left to TLC is to put them together. (That the predicates of a blocked thread in these theorems are
the negations of ENABLED is not proved either, for the same reason.)

## Not modelled

* Floating point: the conversions and decimal columns are exact here. A double's rounding
  can move a result that lies halfway between two units by one.
* The characters of callsigns, the digits of coordinates, exponents in decimal columns and
  the splitting of a line at its commas (`Line` starts from the columns).
* `args.hpp` and the command line: pure checks before any thread exists, with neither state
  nor order, which the unit tests reach branch by branch.
* The FSS library: reconnection and TLS are not in this repository. `attemptReconnect()`
  runs on the main thread beside `reportAircraft()` on the worker; the library is
  documented to synchronise the two (`fss-reporter.cpp:37`).
* Failures of `std::thread`, of memory allocation and of `fcntl()`; a `shutdown()` of
  the socket that fails for another reason than a peer already gone.
* Logging, packaging, build, tests and tools.

## Plan

Done: every component with state of its own, the pure logic between wire and report, and
the compositions receive thread + queue + worker + teardown (`ReportingWorker`) and receive
thread + registry + queue + main loop (`FssAdsb`), joined to the link through `DataFeed`,
with their proofs. What would add most next:

1. Composition of `LineFraming` with `ReportContent`, lines carrying content: only worth it
   for lines that are tails of runs, which `LinesSound` delimits.
