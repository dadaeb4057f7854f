# A TLA+ model of the sicks300_ros2 driver

`sicks300_ros2` is a ROS 2 lifecycle node that reads distance telegrams of a
SICK S300 laser scanner from a serial line and publishes them as `LaserScan`
messages. This directory holds a TLA+ model of it, the TLC configurations
that check the model on small instances, and theorems proved by TLAPS for all
values of the parameters. Source lines below refer to the repository;
`PROJECT.json` maps every definition to the lines it translates.

## 1. Inventory

| Part | State | Operations | Makes it correct |
|---|---|---|---|
| `SickS300`, lifecycle node (`src/sicks300.cpp`) | lifecycle state, publishers, timer, updater, `scanner_status_`, `pending_scan_` and `point_time_communication_ok_` (guarded by `scan_mutex_`), `acquisition_thread_`, `acquisition_running_` | `on_configure` … `on_shutdown`, destructor, `receiveScan` (timer), `produceDiagnostics` (updater's timer), `acquisitionLoop` (thread) | no scan published twice, late, out of order or misreported; silence reported; joins end; the thread never meets a callback that changes what it uses |
| `ScannerSickS300` (`src/common/ScannerSickS300.cpp`) | receive buffer and its fill, standby flag, field parameters | `open`, `getScan`, destructor | newest scan returned, nothing left behind, order kept, finds telegrams again after junk |
| `TelegramParser` (`common/TelegramS300.hpp`) | copies of header and field, `user_data_size_` | `parseHeader`, `readDistRaw`, `getField`, `getCompletePacketSize`, `createCRC` | accepts nothing but complete telegrams, overlooks none of its device, members describe the accepted one |
| `SerialIO` (`src/common/SerialIO.cpp`) | descriptor, terminal settings, byte period | `openIO`, `closeIO`, `setTimeout`, reads, writes | reads are bounded; no descriptor is leaked or used after it was closed |
| `createCRC` and its table (`src/common/ScannerSickS300.cpp`) | – | one call | the sum is CRC-CCITT; damage of one or two of the summed bytes changes it |
| data of a scan (`convertScanToPolar`, `publishLaserScan`) | field parameters, `inverted_` | one call per scan | every range keeps its angle, intensity and time, inverted or not |
| `ScanFilter` (`scan_filter.hpp`), a node of its own | two angles | `scan_callback` | what is published is the part of the scan within the angles |
| program (`src/main.cpp`) | single-threaded executor | `spin` | callbacks run one after the other |
| parameters, launch files, scripts, tests | – | – | – |

How they interact. The executor calls the callbacks of the node, one at a
time. `on_configure` opens the serial port through `ScannerSickS300`;
`on_activate` starts the acquisition thread, which calls `getScan()` again and
again and puts what it returns in a mailbox of one scan; the timer callback
takes the scan out and publishes it, and looks at the time of the last one;
`on_deactivate` and the destructor join the thread. `getScan()` reads bytes
from `SerialIO` behind those it kept and tries `TelegramParser` at every
offset, backwards.

What is hard about it: two threads and a mailbox; a lock that is released
between taking a scan and judging its age; transitions that fail half way;
joins on the executor thread; a byte stream that is cut, damaged and lost
anywhere, in a buffer that holds stale bytes; a size field with three
meanings. `PROJECT.json` lists each of these hazards at its line with the
property that watches it.

## 2. Modules

```
SickS300_topics_proofs ── SickS300_proofs ── SickS300 ── EXTENDS ── ScanSource
                             MCSickS300      │    │ implements          ▲ implements
                                             │    ▼                     │
Driver = SickS300 + SerialIO  ◄──────────────┘  ScanTopics        ScannerSickS300
MCDriver, Driver_proofs                                           MCScannerSickS300,
                                                                  ScannerSickS300_proofs

TelegramParser_proofs ── TelegramParser     ScanFilter_proofs ── ScanFilter ── LaserScan
                         MCTelegramParser                        MCScanFilter
CRC_proofs ── CRC ── MCCRC
```

**ScanSource** is the abstract specification of all that lies below the node:
a port, a set of telegrams on the line, and a `getScan()` that returns one of
them, drops the older ones and keeps the newer ones. It is stated as actions
that the node composes with its own, and as a specification of its own,
`SourceSpec`.

**SickS300** is the node. `lifecycle` is the primary state, `executor` what
the executor thread is in the middle of, `acquisition_thread` where the loop
is. A callback is one step unless something can happen in the middle of it
that matters: `on_deactivate` and the destructor are split at the join,
`receiveScan` where it releases the mutex. The acquisition loop is three
steps: the test of the flag, `getScan()`, the critical section. Exceptions
that leave a callback lead to Finalized, since `on_error` is not overridden;
`std::terminate` (assigning to a joinable thread) and the use of a reset
publisher lead to `executor = "aborted"`. The clock is `Tick`, which makes the
age of the last scan grow up to the first value beyond the timeout.
`published`, `diagnostics`, `activation` and `old` observe what the outside
sees and are never read by the code's actions, except that `activation` bounds
the run.

**ScanTopics** is what the node promises to its listeners: scans are offered,
ever newer ones of them are shown, each once and as it was, one is passed over
only for a newer one that is still on offer, and an activation forgets them
all. `Offered` in SickS300 is the refinement mapping: the scans in the mailbox,
in `receiveScan()` and between `getScan()` and the handoff.

**ScannerSickS300** is `getScan()` with its buffer. The unit is a *cell*, a
fixed part of a telegram: a telegram is `TelegramSize` cells, a read delivers
any number of cells that are there, a cell arrives whole, damaged or not at
all. Between two telegrams the scanner may send up to `MaxNoise` cells that
belong to neither: noise, or telegrams without distances, such as those of its
inputs and outputs. Junk stands for every byte that is no part of a distance
telegram. The buffer keeps its cells beyond `m_actualBufferSize`, as the array
does.

**TelegramParser** is what `parseHeader()` makes of the bytes at one place.
The bytes are what the parser can tell of them; the scanner's side of the
protocol (the three conventions for the size field, quoted in the comments of
`TelegramS300.hpp:253-311`) is `SizeField`. A telegram that was not received
whole may be followed by stale bytes, those of one like it included. That a
CRC matches by accident is left out.

**SerialIO** is the descriptor, the VMIN/VTIME setting, and a read that begins
in one step and returns in another. `openIO()` ends in one of four ways, each
an operator of its own with what it does to `m_Device` and to the descriptors
the process holds: `open()`, `tcgetattr()` or `tcsetattr()` fails
(`openFails`, `tcgetattrFails`, `tcsetattrFails`), or none does (`opens`).
`overwritten` observes the descriptors that `openIO()` overwrote in `m_Device`.
The kernel's side is external: descriptors are given lowest first, a read with
VMIN=1 waits.

**Driver** composes the node with SerialIO in place of the port it takes for
granted: `port` of SickS300 is whether `m_Device` is a descriptor. Each action
of the node is conjoined with what it does to the serial port; `getScan()`
becomes a read that begins (`getScanReads`), while callbacks and the clock go
on, and returns (`getScanReturns`, `getScanFails`). A read that returns bytes
may or may not complete a telegram; one that returns none gives `false`.

**CRC** runs `createCRC()` over a message, next to the division by the
polynomial one bit at a time and to the sum of a copy in which up to two
neighbouring bytes were damaged. A word or a byte is the set of its bits that
are 1: `<<` and `>>` move elements, `^` is `(+)`, and a cast to `uint16_t`
drops what is beyond 15. That each of the 256 entries of the table is the
remainder of its index is `TableAssumption`, which TLC evaluates on every run.

**LaserScan** holds the arithmetic of a scan as operators, from the raw values
to the message (`convertScanToPolar`, `publishLaserScan`), in exact integers.
**ScanFilter** is the second node: the driver publishes such a message, and
`scan_callback()` is a loop with one action per turn of it.

## 3. Runs

Passing runs:

| Run | Instance | Shows |
|---|---|---|
| `node_safety` | four kinds of telegram, 3 telegrams, 2 activations, timeout 1 tick (4.5 million states) | type and inductive invariant, `NeverAborts`, `ScannerNotShared`, `ReadsOpenPort`, `PublishesNewScans`, `PublishesWhatWasScanned`, `MailboxKeepsNewest`, `SilenceNeverMissed`, `ImplementsTopics`: the node refines ScanTopics |
| `driver` | one kind, 2 telegrams, 2 activations, 2 descriptors, 1 byte, timeout 0, with fairness | `m_Device` is open or -1 (`DeviceIsOpen`), whichever step of opening fails no descriptor stays open but its own and those a later opening overwrote (`OnlyOverwrittenLeak`), nobody touches the port under a read, a waiting read has a timer (`ReadEndsByItself`), a joined thread only comes nearer its end (`JoinedThreadEnds`), reads return, joins end, silence is reported, a scan handed over is published |
| `buffer_stream` | telegrams of 2 cells, up to 2 cells between them, buffer and queue of 5, with fairness | bounds of the buffer, `StreamInOrder`, `ReachedScanIsReturned`, `LosesNoTwoInARow`, `Resynchronises` |
| `buffer_refinement` | two kinds, telegrams of 3 cells, buffer and queue of 6 | `NoScanLeftBehind`, the invariant `IInv` of the proofs, and `ImplementsSource`: the class refines ScanSource |
| `parser_safety` | 0 and 2 points, receptions cut around each end, all conventions and types, two addresses | `AcceptsCompleteTelegrams`, `MembersDescribeAccepted` |
| `scan_filter` | 1 to 4 points, a field 6 units wide, bounds from beyond its left end to beyond its right one, inverted and not | `MessageShowsBeams`, `FilteredIsPiece`, `KeepsWithinBounds`, and the invariant `IInv` of the loop |
| `crc_sums` | messages of up to 4 bytes, every first byte, every error in one byte, 24 patterns in two | `SumIsRemainder`, `BurstChangesSum` |

Why the bounds are enough. Three telegrams are one published, one in
`receiveScan` and one in the mailbox or in `getScan`, the most that are on
their way at once but for the line; two activations let a scan, a thread or a
buffer survive from one into the next; an age is compared with the timeout
only, so values beyond the first above it behave alike. The order and
abort properties of the node are proved without these bounds. For the buffer,
in `buffer_refinement` a telegram of three cells has a first, a middle and a
last part, and a buffer of two telegrams can hold two whole ones, or a rest, a
whole one and the beginning of the next. In `buffer_stream` the cells between
the telegrams let a buffer of five cells, no multiple of a telegram's two, run
full at any offset of a telegram, with nothing but noise in it too. Telegrams of a field that is not configured (`foreign`) are the
second kind because they keep the standby flag, which measuring ones clear.
`LosesNoTwoInARow` and `Resynchronises` need a buffer of at least
`2 * TelegramSize - 1 + MaxNoise` cells (`BufferAssumption`), which is what
`buffer_stream` has: with one cell less, a buffer may be emptied once in each
of two telegrams and return neither. The real buffer has 9998 bytes and a
telegram of 541 points 1108, so the assumption holds as long as no more than
7783 bytes come between two distance telegrams. In `driver` the timeout is 0 ticks, since only
whether an age exceeds it matters, one byte is enough to tell an empty line
from another, and two descriptors are what two openings need. In `crc_sums`
the first byte alone selects every entry of the table. In `scan_filter` the
width of 6 units is a multiple of the steps between two, three and four
points, so the quotients are exact, and the bounds fall on readings, between
them and outside the field.

Runs that end in a counterexample each contradict a sentence of the
repository; `findings` in `PROJECT.json` quotes it:

| Run | Disagreement |
|---|---|
| `node_timeout` | a communication error is set although a scan was just handed over: `receiveScan` judges a copy of the time made earlier |
| `node_stamp` | the line is not purged on activation, so old scans are published as new |
| `node_diagnostics` | a failed `on_configure` leaves diagnostics that say "sick scanner running" |
| `filter_bounds` | readings outside the bounds are left in a filtered scan that came from an inverted driver |
| `driver_close` | configure, cleanup, configure leaves a descriptor open that nobody closes |

Disagreements met while modelling that have no run of their own:

- A telegram of a field that is not configured is published with the standby
  flag of an earlier one (`getScan()` returns true without converting it),
  against `README.md:91`. ScanTopics leaves that flag open.
- Telegrams of any device address are accepted, since the mask in `check()`
  clears all its bits; `ScannerSickS300.cpp:167` speaks of a "correct scan id".
  `AcceptsCompleteTelegrams` does not ask for it: it forbids to overlook a
  telegram of the configured device, and leaves those of other devices open.
- With `SettingsMayFail = TRUE` `ReadReturns` fails, since the result of
  `tcsetattr()` in `setTimeout()` is ignored. `readBlocking()` returns 0 on a
  timeout, which is neither a byte nor an error as `ISerialIO.hpp:111` has it
  (`getScan()` handles it). The byte period of `writeIO()`, which nobody calls,
  is lost after the first byte and scaled to milliseconds.
- The filter keeps one reading of a scan that lies entirely beyond
  `upper_angle`, or has no reading between the two angles; its `angle_max` is
  one increment too far when the loop ends without a break; its stamp is not
  shifted when the beginning is cut.
- The stamp of an inverted scan does not take `scan_delay_` into account.
- The angles of a field configured with a start above its stop do not end at
  its stop: the width is taken as an absolute value (`InputsAssumption` of
  ScanFilter excludes such fields).

## 4. Fairness

Stated in Driver:

- The executor and the acquisition thread are scheduled (`WF` on the ends of
  the joins, on both halves of `receiveScan`, on `acquisitionLoop`): operating
  system threads that are not blocked run.
- `acquisitionLoop` includes that the kernel completes a read that can be
  completed: bytes are there, or the terminal's timer was set and runs out. A
  read in a terminal without a timer waits as long as no byte comes. That a
  read fails (`getScanFails`) is possible at any time and never has to happen.
  `ReadReturns` is therefore a result about `setTimeout()`, not an assumption;
  it assumes that `tcsetattr()` succeeds (`SettingsMayFail = FALSE`).
- The diagnostics have `SF`: the scan timer takes the executor again and again
  but is not due all the time. With a `scan_cycle_time` of 0 it would be, and
  the executor decides alone; this case is outside the liveness claims.
- `Tick` has `WF`: time passes. Neither the scanner nor a user of the
  lifecycle services has to do anything.

In ScannerSickS300 a read returns something when something is there, and the
port is opened only while it is closed.

## 5. What is proved

`SickS300_proofs` proves the inductive invariant `IInv` of the node for every
number of telegrams and activations, every timeout and every subset of the
kinds, from the two named assumptions on the constants. None of the safety
properties is inductive alone. `IInv` joins

- `Structure`: a thread exists only in Active or Finalized, the port is open
  while it does, the timer exists only in Active with active publishers, the
  local copies of `receiveScan` are empty outside it, and the copy of the age
  is never younger than the age itself. This gives `NeverAborts`,
  `ScannerNotShared` and `ReadsOpenPort`, and, since the copy is the older
  one, `SilenceNeverMissed`.
- `Ordered`: line, `getScan()`, mailbox, `receiveScan()` and topics hold ever
  older scans. Each step moves a scan one place on or drops it, which gives
  `PublishesNewScans` and `MailboxKeepsNewest`.
- `Faithful`: a scan on its way carries the standby flag of its own telegram
  and the number of this activation. It is what makes
  `PublishesWhatWasScanned` survive the handoff, where the flag is read from
  the scanner after `getScan()` returned.

The proof has one lemma per group of actions and, in it, a step per action.

`TelegramParser_proofs` proves that `parseHeader()` accepts complete telegrams
only, overlooks none of the configured device, and that its members describe
those it accepts, for every number of
points, every content of a size field and every number of bytes received. The
argument: a telegram has an even number of bytes, so its size field is exact
(`SizeFieldExact`); of the sizes that are tried the first at whose end there
is a CRC is the right one, because under the other convention the size tried
first is six bytes short (`GuessedRight`). Assumed: the points of a telegram
fit a `size_t`, and a CRC matches nowhere but at the end of a telegram.

`SickS300_topics_proofs` proves that the node implements ScanTopics under the
mapping `Offered`: reading a telegram is `Offer`, a handoff that overwrites the
mailbox is `PassOver`, the second half of `receiveScan()` is `Show`, activation
is `Activate`, everything else stutters. `Ordered` is what makes `Show` and
`PassOver` legal.

`Driver_proofs` shows first that the driver implements the node
(`NodeImplemented`): under the mapping `port <- Port` every step of Driver is
one of SickS300 or a stutter, so all theorems about the node carry over, its
refinement of ScanTopics among them (`TopicsImplemented`). It
then adds `PortInv` to the node's invariant: the descriptor is -1 or open, the open
descriptors are that one and those overwritten, an open port is one whose reads
time out, and a read waits only while the
acquisition thread is in `getScan()`. With `ReadsOpenPort` of the node this
gives `ReadEndsByItself`, the reason why reads return. The reason why joins
end is `JoinedThreadEnds`: whoever joins has cleared `acquisition_running_`
(`Structure`) and holds the executor, so that nobody sets it again, and every
step the thread then takes lowers `StepsLeft`, which begins at 5. Together
they are the safety half of `ReadReturns`, `DeactivationCompletes` and
`DestructionCompletes`; that the steps are taken is fairness, and TLC's.
`OnlyOverwritten` has a step for each way in which `openIO()` ends: what a
failing `tcgetattr()` or `tcsetattr()` closes is what `open()` gave, which was
unused, so nothing else is closed with it. That the descriptor `open()` gives is unused rests on a lemma that a set of numbers has
a smallest one (`MinInSet`), taken from the well-foundedness of strict subsets.
Settings may fail or not; the number of descriptors, bytes, telegrams and
activations is arbitrary.

`ScanFilter_proofs` covers the data of a scan for any number of points, any
field that does not end below where it begins, both mountings and any two
bounds. `MessageOf` computes the message field by field; from it follows
`MessageShowsBeams`. The invariant of the loop of `scan_callback()`, `LoopInv`,
says that the readings copied so far follow a number of skipped ones, all of
them below `lower_angle`, and that `start_angle` and `current_angle` are the
angles of the first and of the next of them. At the end of the loop it gives
`FilteredIsPiece`, and, since angles rise with the index if the increment is
positive (`Sorted`), `KeepsWithinBounds` (`AllWithin`).

`ScannerSickS300_proofs` covers the receive buffer for telegrams, buffers and
queues of any size and any number of telegrams; only `NoTwoLost` uses that the
buffer is large enough. Its invariant `IInv` says that the stream, which is the valid
part of the buffer and then the queue, was sent by now (`StreamSent`), is in
order and newer than the scan returned last (`StreamInOrder`), and has no
complete scan within the buffer (`NoScanLeftBehind`). `StreamSent` is what
makes the next cell newer than all that is in the stream. The argument is
about streams only: a read moves no cell within the stream (`FilledStream`),
returning a scan drops the cells up to its end (`ShiftedStream`) and emptying
a full buffer drops all it held (`KeptStream`). Since scans of an ordered
stream do not overlap (`ScanOrder`), the first drop takes exactly the scans
that are not newer (`DroppedThrough`) and the second at most the oldest one
(`DroppedPartly`), which are the steps ScanSource allows. So the assumption of
the node's proofs about its scanner is itself proved
(`SourceImplemented`), from no more than that the sizes are positive numbers.

Two theorems are the safety half of `Resynchronises`. A scan is *in reach* if
it ends within the buffer at the place it has in the stream. Then the buffer
cannot run full before that scan is complete, so nothing is dropped before it
and it only moves to the front (`ReachedReturned`): every read that delivers
something brings its end nearer. A drop, on the other hand, takes with it a
scan of which the buffer held a beginning, at most `TelegramSize - 1` cells of
whose end are still to come; no more than `MaxNoise` cells follow before the
scan after it (`NextScan`), and so that one ends within
`2 * TelegramSize - 1 + MaxNoise` cells: it is in reach, and not lost in turn
(`NoTwoLost`, from `BufferAssumption`). How far apart two scans are is
`NothingInserted`, a part of `StreamSent`: between two cells of the stream, and
behind the last one, there are no more cells than the scanner may have sent
there.

`CRC_proofs` covers `createCRC()` for messages of any length and content and
any set of error patterns. `Divided` is linear (`ShiftedXor` and its likes)
and loses nothing (`ShiftedInjective`). The low byte of a sum only moves to
the upper one, and the upper one is looked up; since the table holds the
remainders (`TableAssumption`), one turn of the loop is one byte of the
division (`StepDivides`), which gives `RemainderComputed`. For a damaged copy
`SumsDiffer` says how the two sums differ: not before the burst, by the
remainder of the first pattern after its first byte, and from then on by
something that is not 0. A second damaged byte cannot undo the first, because
it touches the upper byte only, where the remainder of a byte that is not 0
does not lie alone (`BurstStays`), and what follows keeps sums apart
(`StepInjective`). That is `BurstDetected`.

Only model-checked: the liveness properties `ReadReturns`,
`DeactivationCompletes`, `DestructionCompletes`, `SilenceReported`,
`ScanPublished` and `Resynchronises`, since liveness under fairness is out of
the prover's reach. What each of them rests on is proved: beside the theorems
named above, `SilenceDetected` and `MailboxKept` of the node for the two about
silence and publishing.

## 6. Not modelled

- Rounding: the angles, ranges and times of LaserScan and ScanFilter are exact.
- Byte order of a telegram, debug output, logging. Whether a telegram is
  damaged is one bit in TelegramParser, and the parser is taken to notice it.
  For one or two neighbouring bytes of those that are summed this is
  `BurstChangesSum` of CRC. It says nothing of damage that reaches from the data
  into the CRC, of damage of the size field, which decides what is summed, or of
  longer bursts: that such a telegram passes by accident is left out.
- Writes and non-blocking reads, which have no caller; terminal configuration
  other than VMIN and VTIME.
- A clock that is stepped back. `sicks300.cpp:221` and its likes read the ROS
  clock, and a step back between copy and handoff hides a silence; the
  properties about silence assume that the clock advances.
- How often a thread runs: a read that fails at once, as after the adapter was
  unplugged, makes the acquisition loop spin.
- The declaration of parameters, except that a value of the wrong type throws;
  launch files, scripts, build files, tests.

## 7. Plan

Done, in this order: ScanSource and SickS300 with their invariant proved;
ScannerSickS300 and its refinement, then proved; SerialIO; TelegramParser with
its proofs;
LaserScan and ScanFilter; CRC; ScanTopics with the proof of its refinement;
Driver, which took over the liveness of the node; the proofs about CRC, about
the end of reads and joins, and about scans in reach.

Next:

1. A clock that may be stepped back, and what it does to a silence.
2. `openIO()`'s terminal settings and `writeIO()`, should they get callers.
3. The node put directly over the receive buffer, ScannerSickS300 in place of
   ScanSource, as one theorem instead of the two that meet at ScanSource.
