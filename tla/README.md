# TLA+ models of nucleo-h723zg-udp-echo

Models, model-checking runs and machine-checked proofs for the protocols and
state machines of this repository: the leased benchmark service and its firmware
task, the client session that uses it, the field update with its trial boots, the
messaging firmware from reset to its command and publication tasks, the codecs of
both protocols with the generated code they rest on, and a trial of the load
generator.

    tlc -config service.cfg MCBenchmarkReplies      # a run
    tlapm BenchmarkServiceProofs.tla                # a proof

`PROJECT.json` names every run with its properties, maps every definition to
the source lines it stands for, and lists hazards, mutants and theorems.

## The system

The repository holds several firmware images for a NUCLEO-H723ZG board and the
host programs that talk to them over UDP.

| Part | State | Operations | Talks to | What is hard | What makes it correct |
|---|---|---|---|---|---|
| Benchmark service (`messaging/src/benchmark/service.rs`) | epoch, lease (owner, configuration, last control, expiry), two publication schedules, reply bucket, counters | `new`, `tick`, `end`, `reject`, `handle`, `publication` | called by the firmware task and by the host responder | delayed, repeated and reordered controls; equality at expiry; the last epoch; late calls that skip slots | only the owner's fresh controls change a run; a number is used for one run; a lease ends on time; schedules stay on their grid; replies within budget |
| Benchmark task (`src/servers/embassy_benchmark.rs`) | the service, three sockets, the generation they were opened for, the address last seen | one loop: tick, link check, one datagram, reply, two publications | network stack (shared executor) | a run that ends or starts between any two steps while packets are queued | no packet crosses runs; every slot accounted for; timers run under flood |
| Field update (`src/firmware_update.rs`, `boot_confirmation.rs`, `lib.rs`, `bin/native_rmii_managed.rs`) | flash: active slot, workspace, staging area, trailers; the upload in progress | header, erase, write, verify, mark, reset; confirm | MCUboot through flash; the SSH server through a stream | power loss anywhere, failing flash, vanished client, second upload | only a verified image is pending; only intended images run; an unconfirmed trial is reverted |
| SSH server (`src/ssh_server.rs`) | one connection, one opened channel, a request channel of one | authenticate, open, shell / exec / subsystem | TCP, the updater | two futures raced by `select`; the channel consumed by a refused request | one upload at a time; whatever ends the connection drops the upload at an await |
| Messaging firmware (`src/servers/embassy_messaging.rs`, `messaging/src/schedule.rs`, `service.rs`, `bin/native_rmii_messaging.rs`) | shared counters, command policy, two publisher schedules, start bits | command loop, two publisher loops, start-up checkpoint | network stack, each other through `COUNTERS` and `STARTED` | link loss racing a drain limit and a deadline; skipped slots | slots counted once; error replies within budget; confirmation only after every task started |
| Benchmark client (`tools/message-demo/python/benchmark_live.py`) | session, control identity, lease end as the host believes it, pending control | capabilities, configure, renew, stop with retries | the service, over UDP | replies to earlier copies; a configure that is carried out after the client gave up | the host's lease never outlasts the board's; cleanup never reports a stop of a run that goes on |
| Codecs (`messaging/src/{lib,framing,csv,cells,validation,benchmark}.rs`, `generated/`) | none between calls | `encode`, `decode`: framing, Protobuf, CSV, JSON, validation | every other part; peers | tables that exist once per direction; declared lengths; unknown, repeated and mistyped fields | what is sent is what is received; what is accepted can be sent again; the first layer at fault answers |
| Receivers (`stream_state.py`, `load_metrics.py`, `client.py`) | reorder windows, missing sets, pending and recent probes | observe, tick, finish, sent, reply | datagrams in any order | wrap at 2^32, window edges, replies at the deadline | every datagram classified once; counts add up |
| Load generator (`tools/udp-benchmark/src/runner.rs`) | packet states and times in atomics, window count | `load()`: sender and receiver thread | echo server | races of reply, expiry and send error | window never exceeded, each packet counted once |
| Network bring-up (`src/bringup/*`) | link, address, LEDs, bound sockets | supervise, poll | stack, W5500 chip | DHCP against time-out against link loss | an address whenever the link is up; LEDs tell the truth |
| C firmware (`src/Src`) | DHCP state, receive pool status, netif | periodic handlers, callbacks | lwIP, HAL | link flap between two periodic steps; pool exhaustion | address after every link up; reception resumes |

Calls are synchronous inside a firmware task and messages are UDP datagrams
between host and board. All tasks of a firmware image share one cooperative
executor: between two awaits nothing else runs. The three places where state is
shared are the network stack (by all tasks), `COUNTERS`/`STARTED` (by the
messaging tasks) and flash (by the updater and, across a reset, MCUboot).

## Modules

### Benchmark service

- **Counters** - `struct Counters` as operators on a record; saturating.
- **BenchmarkLease** - `struct Service`. Its state is one record
  (`ServiceState`), and every method is an operator from a state (and a clock
  reading) to the next state, with the reply beside it for `handle`
  (`Handle`) and `publication` (`Publish`). `Tick` = `RolledBack`, `Expired`,
  `Refilled` in the order of the source; `HandleControl` = `Assess` (the ladder
  of result codes), `Applied`, `Remaining`, `Bucketed`. Being operators they are
  used unchanged by every module below.
- **BenchmarkService** - the service under arbitrary callers. An action per
  public method; the caller chooses request, stream and clock reading freely, so
  any loss, duplication, delay or reordering in the network, and a clock that
  goes back, are covered without a network in the model. `started` is a history
  variable (when the run was acquired).
- **BenchmarkRun** - the abstract specification: runs are numbered, a number is
  used once, at most one client holds the board, the deadline moves only with a
  larger control identity. `BenchmarkService!Run` is the refinement mapping;
  `RunSpec` is checked as a property and proved. An expired run that is ended by
  the `tick()` inside the next client's `configure` is one step of the
  implementation and one `Grant` of the abstraction.
- **BenchmarkReplies** - the reply budget, with history variables for the
  replies sent since boot. A clock that goes back ends the run and refills the
  bucket in `tick()`, so the account starts anew there (`Reckon`).

Data: a client is an opaque identity (address, port and session together); a
pattern string is its length and the alphabet index of its first character,
which determine it, so comparing two patterns is comparing the two numbers; a
datagram that fails validation, or is for another device or boot, is a request
with `addressed = FALSE`. Time is in microseconds, scaled by the constants.

### Benchmark task

- **BenchmarkFirmware** - `run()` of `embassy_benchmark.rs` with the network
  stack. A step of the loop is the code between two readings of the clock, which
  is the granularity at which anything can change under it; the network acts
  only while the loop awaits. `stage` is the program counter: `asleep` (the
  awaits), `receive`, `reply` (encoded, not sent), `publish`, `offer` (encoded
  sample), `halted`. Binds may fail wherever the code binds; an encoding may
  fail wherever it encodes. Each entry of the receive queue carries, as history,
  the generation during which it arrived.
- **BenchmarkBoard** - the abstract specification of the board as a whole: the runs
  of BenchmarkRun, and nothing is granted or renewed while the board is off the
  network. `BenchmarkFirmware!Board` is the refinement mapping; it shares
  `RunNumber`, `RunHolder`, `RunLast` and `RunDeadline` of BenchmarkLease with the
  mapping of BenchmarkService. Its `Abort` is the one thing the board adds to the
  service: a configure is granted, the command socket cannot be bound for its reply,
  and the run is ended in the same step of the loop (`embassy_benchmark.rs:189`).

### Field update

- **FirmwareUpdate** - flash as two slots with their trailers; one action per
  step of `receive()` (header, each erased sector, each written block,
  verification, each marker, reset), the two `confirm_running_trial`s with the
  start-up order of their binaries, power loss between and inside steps, a
  client that vanishes at any await, flash operations that fail or leave wrong
  bytes. MCUboot (external) tries a pending image that is intact and signed,
  puts the old image into the swap workspace, reverts an unconfirmed one, and
  otherwise starts what is there. It is atomic in the model: its own swap is
  resumable and is not this repository's code. Erasing goes sector by sector:
  workspace, staging area, trailer.
- **FieldUpdate** - the abstract specification, without sectors, blocks and words:
  which image runs, whether it is on trial, what a trial would be undone with, what
  was verified, what is pending. Activation is one step. `FirmwareUpdate!Field` maps
  `pending` to the images a reset would accept, so that `FieldSpec` says that nothing
  on the way to the last marker, nor an erase that stops half-way, makes the next
  reset behave differently from what the owner of the board was told.

### Benchmark session

- **BenchmarkSession** - `run()` and `exchange()` of `benchmark_live.py`
  together with `BenchmarkLease` on the board and the network between them.
  `client.phase` follows the program (three exchanges and the load loop);
  `client.first` is the time an exchange or a pending renewal began, from which
  the lease is counted. `requests` and `replies` are sets to which datagrams are
  only added: delivery leaves them there, so one may be delivered never, once or
  again, at any later time and in any order. Losing a reply and suppressing it
  look the same to the client. `EndLocally` and `Reboot` are the board's, the
  second changes the boot identity. Probes and publications are left out: they
  never change a lease (`OnlyOwnerActs`).
  Each client step reads the clock once; host and board time advance together
  (the protocol exchanges durations only, so the offset of the clocks is
  irrelevant, their difference in rate is neglected).

### Messaging firmware

- **Startup** - from reset to the confirmation of a trial image, for the
  messaging and for the managed binary (`firmware` is chosen in `Init`). The
  executor polls the tasks of its run queue in passes; a task woken in a pass is
  polled in the next. `main` halts when it has no nonce, spawns the tasks, and
  then waits at the checkpoint (every period of 100 ms until all bits of
  `STARTED` are set or two seconds are over) or yields three times. A service
  binds its socket in its first poll, which panics if it fails.
- **Messaging** - `commands()` and `publisher()` of `embassy_messaging.rs` with
  `Schedule`, `CommandPolicy` and the shared `Counters`. An action is what a task
  does from one await to the next. Timers are relative (time to the next slot,
  rest of the drain limit, time since the credit was counted), so that no clock
  bounds the behaviours and liveness can be stated. `grid`, `owed` and `lost` are
  history variables: the ideal slots of each publisher, the slots no counter has
  accounted for yet, and what a publisher has lost that no complete send has made
  good. No guard reads them. Losses are of two sorts, because a complete send makes
  good what was lost before its sample was taken, but not the slots skipped on the
  way to that sample: those keep the failure bit set until the next complete send
  (`embassy_messaging.rs:348`).
- **ErrorBudget** - the abstract specification of the error limiter: a budget
  that grows with time without losing fractions, a reply withheld only when the
  budget does not cover it. `Messaging!Budget` is the refinement mapping.

### Codecs

- **Wire** - what micropb and the loops of the generated code do with the tables
  of a message type: writing fields, computing sizes, reading records, merging.
  A message is a function from the fields present to their values, a datagram a
  sequence of records (number, wire type, size, value); texts are a length and
  a class of characters.
- **MessagingSchema**, **BenchmarkSchema** - the tables themselves, each stated
  separately where the code has it separately: tags written, sizes computed,
  match arms read, `MAX_SIZE`, the conversions `to_pb` and `from_pb`, the CSV
  columns written and read. Nothing forces them to agree but the properties.
- **Formats** - the trailer (`seal`, `open`) and the two text formats, as
  sequences of cells or of entries.
- **MessagingCodec**, **BenchmarkCodec** - validation, `encode` and `decode`.
- **Codec** - a datagram's way: made by `encode` (with a buffer of any relevant
  capacity) or by a peer without validation; edited (a record or cell dropped,
  repeated, spoilt or cut; a record no arm takes; a known field with another
  wire type; a second message appended) and sealed again, damaged or swollen on
  the way; then judged by `decode`.

The match arms of the benchmark decoders carry no condition on the wire type
(`benchmark_protobuf.rs:3782` and following), those of the messaging decoders do
(`generate.py:30`: "Known field numbers with another wire type are unknown fields
in Protobuf"). A known field of another wire type is therefore skipped by the one
(`UnknownSkipped`) and read as if it had its own type by the other, against its
contract (`BenchmarkMistypedSkipped`, see *Findings*). The contents of such a field
are one zero byte in the model, which reads as zero or as an empty text; most messages
are then refused. With other contents the code may read a value that it accepts
(`PROTOBUF_REVIEW.md:23-26` shows one).

### Load generator

- **LoadRunner** - `BenchSocket::load`: an action is a thread's code from one
  access to a shared atomic to the next. The network loses, repeats, delays,
  reorders and damages replies. `left` is history: when a packet really left.

### Model-checking and proof modules

The modules `MC...` define the small constants. `MCCodec` puts the two codecs
side by side (`protocol` tells which one a behaviour uses). The theorems are in
`BenchmarkServiceProofs` (which also covers `BenchmarkReplies`),
`BenchmarkFirmwareProofs`, `BenchmarkSessionProofs`, `FirmwareUpdateProofs`,
`StartupProofs`, `MessagingProofs` and `LoadRunnerProofs`, each beside the module it
is named for; `BenchmarkLeaseProofs` holds the lemmas on the operators of
`BenchmarkLease` that the first three share.

Operators named `X_Something` before a definition `X` are mutated forms of it:
plausible mistakes that the property named in `PROJECT.json` detects.

## Runs

| Run | Question | Bounds and why they are enough |
|---|---|---|
| `service` | May anyone but the owner, or anything but a fresh control, change a run? Is each number used once, does a run end on time? Do schedules follow the run and stay on their grid? Can the reply budget be exceeded? | two symmetric clients, two epochs (an ordinary and the last), identities 1 and 2 (equal and larger; the smaller one is a stale 1), instants 0-3 in any order with leases, periods and one invalid configuration around them, sequences modulo 2 so that they wrap within one lease, a bucket of one token and period 2: empty, fraction, full |
| `firmware` | Does anything cross from one run to the next? Is every slot delivered, queued or counted, and is the sample that waits the newest? Do loop, sockets and network implement BenchmarkBoard? Do runs end and samples get taken under a flood? | three sorts of traffic, one per behaviour (variable `traffic`): *takeover*, two runs, the first of which may be stopped or taken over; *probes*, one run probed until it expires; *flood*, one run and a receive queue that never empties of repeated and damaged requests. Queues of the real size (2 receive, 2 and 1 transmit), both streams, clock to 3, one address that comes and goes; the slot equation is checked until the skip counter saturates at 2 |
| `session_lease` | Can the host believe in a lease the board no longer grants, or mistake a late reply for a refusal? Does a cleanup reported as done mean the run is over for good? | a lease of 3 units and a clock to 3, so that it may expire; a renewal of two copies, and a stop that may overtake the configuration; a copy once sent is delivered any number of times, so an exchange needs only one; two boots, two epochs, a second client that takes the board; one unit to the millisecond: what rounding down takes from the reported time only shortens the host's belief, and the instances with two units find no violation either, within a clock that does not reach the end of the board's lease; the counters, which no rule of the lease reads, are saturated from the start |
| `update_staging` | Can an unverified or unintended image become pending or run, is an unconfirmed trial always reverted? Do the steps implement FieldUpdate? | images of one and two blocks (two tell an interrupted from a complete write) and of all kinds: managed, messaging, rollback-test, and an unsigned one; erasing, programming and power fail anywhere, confirming does not |
| `update_unconfirmed` | The last of these with a confirmation that may fail. Expected to be violated, see *Findings* | as above |
| `messaging_publishers` | Is every slot published, waiting or counted once? Does an old sample wait for the next slot? Does a failure show until it is made good, and no longer? Are due slots taken? | one publication task of period 3 and the idle command task that shares its counters; it may be 7 late (two slots skipped), the drain limit (2) is shorter than a period as in the code, sequences wrap at 4 |
| `messaging_commands` | Do error replies keep to their budget, and does the task come back to receiving? | datagrams of every decision, a receive queue of two, credit 3 at a price of 2 so that fractions matter, an address that comes and goes |
| `startup` | Is only a serving image confirmed, and does the checkpoint decide? | the tasks of both binaries, three yields as in the code, three periods of the checkpoint, any of which may be missed |
| `load_trial` | Are window, expiry and counters exact under every interleaving of the two threads, and does a trial end? | three packets in a burst and a window of two, so that the sender waits; a time-out of one, a reply that is repeated, preemption anywhere |
| `load_offered` | Is what is reported as offered what was sent? Expected to be violated, see *Findings* | three packets and a window of one that holds back the last; no preemption, no fault of the network but a loss |
| `codec` | Do the tables of both directions agree, are unknown fields skipped and repeated messages merged, in which order do the layers answer, can what is accepted be sent again? | every kind of both protocols, valid ones at the boundaries of the varint sizes and around ten invalid ones each, three formats, both CRC modes, buffers one byte too small to ample; one edit of every sort at every place, under the trailer mode and the full buffer; damaged and over-long datagrams are otherwise unedited, and the peer sends only the values that encode() refuses |
| `codec_mistyped` | Do the benchmark's decoders skip a known field of another wire type? Expected to be violated, see *Findings* | as above, Protobuf with the trailer |

In `session_lease` the reply bucket holds one token and is refilled every unit;
an empty bucket only adds lost replies. The second client uses one identity, so
it cannot stop its run; its runs end by expiry or locally, which is all the same
to the session.

Deadlock is checked except in `startup` and the two load runs, where a panic, a halt or the end of the
trial stops the system. `MaxTime` caps a clock; the capped clock is why
`firmware` speaks of what the loop does at a given time and never of time
passing. The sorts of traffic of `firmware` are kept apart for the size of the
state space only; that the safety properties hold for any mixture of requests is
proved.

**Fairness.**
- `firmware`: weak fairness of the loop as a whole (`WF_vars(Firmware)`), assumed
  in `MCSpec` only under the flood, whose liveness properties need it:
  the executor polls a task again after `yield_now`, and after each of its
  timers (100 us, 1 ms). Nothing is assumed of the network or the clock, and
  nothing of any single branch: which branch runs is the code's choice. A bind
  that fails halts the loop in the code as in the model, after the run was
  ended; the properties hold there too.
- `messaging_publishers`, `messaging_commands`: weak fairness of each task as a
  whole and of time. A task that waits is woken by its timer: every wait of these
  tasks has one (next slot, 50 ms drain limit, poll of the network) or is for a
  datagram. Nothing is assumed of the network, which may never transmit.
- `startup`: weak fairness of main, of each task's turn in a pass, of the next
  pass and of the checkpoint's timer: the executor's promise, and the hardware
  timer's. Tasks may wake themselves in every pass.
- `load_trial`: the two threads run and time passes; the receiver gives up at
  its deadline however many datagrams arrive (the loop looks at the clock each
  time round). No reply need arrive.

## Proofs

For all values of the constants, under the named assumptions on them:

- `BenchmarkLeaseProofs`: what each method of the service does to a state that is
  `Sound` (typed, its lease unexpired, its schedules following the run). There is
  one lemma per operator (`End`, `Tick`, `Reject`, `Applied`, `HandleControl`,
  `Publish`, ...): it stays sound, and the run stays, ends, is granted or is renewed
  (`Moves`) as the code of the reply says (`CarriesOut`). An unexpired lease is
  kept only because every operation ticks first, and the lease's configuration has
  to be valid for the schedules' periods to be in range.
- `BenchmarkServiceProofs`: `TypeCorrect`, `LeasesExpire` and `StreamsFollow` are
  the parts of `Sound`, which the lemmas show to be inductive. `OwnerActs` follows
  state by state: between two calls the lease is unexpired, so a `Tick` at an
  instant before its expiry changes nothing, and `Assess` then decides.
  `Refinement` maps each action to the abstract steps; the case that needs care is
  a configure that finds an expired run (release and grant in one step, unless the
  epochs are exhausted). `GridKept` and `NewestTaken` rest on `StepSchedules` (a
  schedule of a run stays, advances because it is due, or is fresh because the run
  is) and on the arithmetic of whole periods and of numbers modulo their width.
  `RepliesBounded` needs the stronger `BudgetLeft`,
  which relates tokens left, replies sent and the time up to which the bucket was
  filled; the argument is the arithmetic of whole tokens and remainders. A tick
  that finds the clock gone back (`TickRestarts`) refills the bucket and starts the
  account anew; every other call spends what `BudgetLeft` allows.
  `EffectsUnsuppressed` compares two states that differ in the bucket only
  (`Alike`): every operator takes alike states to alike states.
- `BenchmarkFirmwareProofs`: `QueuesFresh`, `RequestsFresh` and `TypeCorrect` for any
  traffic, from `IInv`: at every instant the sockets hold only packets of `generation`
  (`Good`), and `StageStands` says how far `generation` may be from the run of the
  service at each place of the loop. A run may end between two synchronisations (a
  `tick` finds it expired) but never begin between two; whoever sleeps with another
  generation has closed its sockets. One lemma per operation on sockets and one per
  action of the loop and of the network. `SlotsCorrect` adds `SInv`: the slots
  numbered so far are those delivered, queued, in the loop's hands (`InHand`) or
  skipped, while the skip counter is not saturated. Its premises are that a
  publication socket queues one sample (`SinglePlaces`, as in the code: the sample
  that gives way is counted once) and that the board is not up for so long that a
  stream could use up its numbers (`Unwrapped`: 2^32 slots of the shortest period,
  1 ms, are 49 days); `Ahead` carries the bound from the clock to the numbers.
  `NewestQueued` ("instead of keeping stale work while discarding the newest
  scheduled opportunity", `embassy_benchmark.rs:224`) needs no such premise. Its
  invariant `QInv` adds the sample in the loop's hands: it is the last one numbered,
  and the queue it is for is empty (`TakenLast`), because the socket was closed in the
  same step in which `Publish` numbered it. A run never begins between
  two synchronisations of the sockets, so what was queued in another run is gone when
  the next one begins.
  `Refinement` maps every step of the loop and of the network to `BenchmarkBoard`.
  All steps but the handling of a request keep the run or end it
  (`LoopKeepsOrEnds`, which composes the two or three ends a step may contain); a
  request is handled only while the board is on the network (`Reachable`: the loop
  looks when it wakes up, and link and address change only while it sleeps), and
  what it does is read off `Moves` and `CarriesOut` of `BenchmarkLeaseProofs`.
- `BenchmarkSessionProofs`: `LeaseHeld`, `RejectionsTruthful` and
  `CleanupsTruthful` from one invariant about client, board and all datagrams
  under way. Three facts carry it. (1) A lease the client believes in counts from
  before the first copy of its request, and the board rounds down what it reports,
  so the board's expiry is never earlier (`HeldIn`); a renewal only moves it on.
  (2) A run of the session that is over (`OverIn`: the board has left its boot or
  epoch, or the board is exhausted or another's) is over for good, because an
  epoch is never used twice and a boot makes a new one. What a late reply says of
  the run is therefore still true when it is read (`Truthful`). (3) Control
  identities grow, so a reply that answers the awaited one answers nothing older;
  the last identity is kept for the stop.
- `FirmwareUpdateProofs`: `PendingVerified` and `TypeCorrect` from `IInv`, which
  adds what is known at each place of the upload (after verification the staging
  area holds the announced image; while marking, the first marker is set) and
  that an activation is remembered. `SwapsIntended` follows for every step from
  it (no run repeats it: in FieldUpdate a reset has no other image to go to).
  `TrialsRollBack` has the additional premise `ConfirmsReliably` (reading and
  programming `image_ok` does not fail; a rollback-test build on trial is outside
  the property) and the strengthening `TrialRevertible`: while an image is on
  trial, the workspace still holds its predecessor and nothing is pending.
  `FieldRefinement` has no premise: it holds with a confirmation that fails, too
  (what is then given up is the way back, and FieldUpdate says so: the next upload
  discards it). It needs `WorkspaceGone`: the swap workspace is the first sector to be
  erased, so that from then on, and while an image waits, a reset finds no second
  way to go. An erase that stops half-way leaves the image that waits whole or
  unacceptable (`EraseSparesOrEnds`), since at most one image can wait (`OneWaits`),
  and the last marker makes exactly the verified image wait, if it is signed
  (`MarkedWaits`).
- `StartupProofs`: `ConfirmsServing` for any set of tasks in any order of polling.
  The strengthening `YieldsWait` says how far the tasks are by the yields main has
  left: after one they are queued, after two polled. Two yields are what the proof
  needs (`Yields >= 2`; the code has three). For the messaging firmware it is the
  bits of `STARTED` that tell, under the assumption, read off the code, that every
  service that binds a socket also reports.
- `MessagingProofs`: `GridKept`, `AccountCorrect`, `QueueFresh` and
  `HealthTruthful` form one inductive invariant with the type, with `Opened` and with
  `LossesRecorded` (slots skipped on the way to a sample are recorded exactly while
  that sample is being sent), without which the end of a send could not tell whether
  the failure bit it leaves is right.
  The account is a sum over both publishers, so each step has to leave the other's
  share alone; the slots skipped by a late publisher are the quotient that
  `TakeDue` computes. `BudgetRefined` maps every step to a step of `ErrorBudget`:
  only `assess` touches the budget, and it is paid for the whole time since the
  last one.
- `LoadRunnerProofs`: `WindowCorrect`, `ExpiryCorrect` and `CountsCorrect` for any
  number of packets and every interleaving of the two threads. The invariant says
  where the sender stands in its two-step release of a packet, that only packets
  that left are answered, and that each reply on the wire is counted once; the
  window is the cardinality of the outstanding packets, and a lemma tells how it
  changes when one packet changes its state. That the place seen free is still free
  when it is taken (`SenderStands`) is what bounds the window.

The types of `BenchmarkLease`, `BenchmarkFirmware`, `BenchmarkSession`,
`FirmwareUpdate`, `Startup`, `LoadRunner` and `Messaging` are proved for every value of
the constants and not repeated by the runs. That of the session includes that renewals
leave a control identity for the stop. What `NoStalePacket` says of replies is proved
(`QueueFresh`); in the run that checks it only the publisher has packets to send.

The safety properties of the codecs are model-checked only: they depend on what the folds over records, cells and entries compute, which takes an induction
over data, out of the provers' reach here. Every other safety property of the
passing runs is also a theorem. Liveness (`RunEndsInFlood`, `SamplesTakenInFlood`,
`SlotsTaken`, `CommandsResume`, `CheckpointDecides`, `TrialEnds`) stays with TLC: the proof
system does not reason about fairness and ENABLED.

## Findings

- `update_unconfirmed`: `firmware_update.rs` says MCUboot "rolls back unless the
  new application confirms itself". `confirm_running_trial` ignores the result of
  programming `image_ok` (line 47) and the managed binary starts the updater all
  the same. An upload then erases the whole secondary partition, including the
  swap workspace that holds the previous image; a reset now finds nothing to
  revert to and the unconfirmed image starts again. The rollback-test build, which
  withholds confirmation on purpose, has the same property if an upload follows.
  `boot_confirmation.rs` (messaging firmware) checks the write, and serves no
  updater.
- `load_offered`: the offered rate is computed from every packet whose state is
  not "error" (`runner.rs:675-680`). A packet that was never sent, because the
  loop broke off at the measurement boundary, still has state 0 and counts. The
  plan defines the rate as bits "sent by the host". The same boundary is checked
  before the wait for a place in the window and not after it, so that one packet
  may go out after it.

- `codec_mistyped`: the benchmark's contract promises "normal Protobuf
  unknown-field/duplicate-field semantics" (`BENCHMARK_CONTRACT.md:57`), by which a
  known field of another wire type is an unknown one (`generate.py:30`) and "must be
  skipped" (`PROTOBUF_REVIEW.md:31`). `generate.py:229` guards the match arms of
  `protobuf.rs` only; those of `benchmark_protobuf.rs` look at the number alone. In
  the trace a valid request with the record `0A 00` behind it (field 1,
  length-delimited, empty) is decoded with `protocol_version` 0 and refused.

## Not modelled, and why

- The SSH server beyond what an upload sees: which channel events follow one
  another is decided by the Sunset library, which is not in the repository.
- The network supervisor and the W5500 boards: link, address and DHCP are
  library and chip state; the firmware models let link and address change at
  any instant, which is all that their users may rely on.
- The C firmware: an echo server of its own around lwIP and the vendor's HAL.
- Host tools that measure or display and steer nothing: load metrics, stream
  listener, demonstration client and server, Python twins of codecs and service,
  statistics, campaigns, reports. The stop-and-wait and handshake exchanges of
  the load generator.
- In the codecs: characters, digits and escapes (a text is its length and class
  of characters, a number a boundary value), the polynomial of the checksum (a
  trailer fits its body or does not), floating-point arithmetic (five classes
  of temperature), the generated accessors. A record that overruns the declared
  length of the body it is in has no error of its own in `Wire`; no edit makes one.
- Saturation of a publisher's next due time at 2^64 ms (`schedule.rs:29`): the
  model's times are unbounded. `RepliesWithinBudget` bounds the replies from above;
  that the bucket is never filled too slowly is not stated for the benchmark (for
  the messaging firmware `BudgetKept` states both directions).
- Peripheral, clock and interrupt set-up (straight-line vendor code), MCUboot,
  Embassy, smoltcp and the other libraries beyond what the code here relies on,
  build files and IDE projects. Cryptography is a predicate (`Signed`) and
  equality of digests is equality of contents.

## Plan

Order of work; each module composes the ones before it where it says so.

1. *(done)* Counters, BenchmarkLease, BenchmarkRun, BenchmarkService,
   BenchmarkReplies; proofs of invariants and refinement.
2. *(done)* BenchmarkFirmware (uses BenchmarkLease).
3. *(done)* FirmwareUpdate; proofs.
4. *(done)* BenchmarkSession (uses BenchmarkLease); proofs.
5. *(done)* Startup, Messaging, ErrorBudget; proofs of invariants and refinement.
6. *(done)* Wire, Formats, the two schemas and codecs, Codec.
7. *(done)* LoadRunner; proofs.
8. *(done)* Proofs about BenchmarkFirmware: its queues, its slots.
9. *(done)* BenchmarkBoard and FieldUpdate; proofs that BenchmarkFirmware and
   FirmwareUpdate implement them.
10. Open: the host tools that only classify what they receive (`stream_state.py`,
   `load_metrics.py`, `client.py`) and the two ways to an address
   (`embassy_network.rs`, `w5500_offload.rs`), whose hazards no property covers yet.

Known limits on the bounds: TLC gets a few minutes per run, so a run of
BenchmarkFirmware has at most two runs of the service; the generation
comparison only distinguishes equal from different, which two runs show.
