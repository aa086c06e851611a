# NetPerfTest: a TLA+ model

NetPerfTest loads a host with packets and with work per packet and watches what
that does to it. Its parts run side by side, as goroutines, as processes and as
eBPF programs on every CPU, and share counters and pinned maps with few locks
or none. This project models that sharing: who may see what of a counter, what
is left behind when a process dies, and whether everything ends that was
started.

## The system

| Component | State | Operations |
|---|---|---|
| `ebpf-stress/bpf/stress.c`, an XDP or TC program | two configuration maps, four per-CPU statistics maps | for each packet: read `config_enabled` and `config_loop_count`, perform the loops, add to four maps |
| `ebpf-stress` (`cmd/ebpf-stress`, `pkg/ebpf/loader.go`) | the collection, its link or filter, the pins under `/sys/fs/bpf/ebpf-stress` | load or reuse the maps, chmod, configure, attach; read statistics; disable, detach, close, unpin |
| `ebpf-exporter` (`cmd/ebpf-exporter`) | five map handles, the previous sample, Prometheus gauges | open the maps; collect at every tick; `/metrics`, `/ready`, `/health`, `/config`; shut down |
| `ebpf-exporter/bpf/latency.c` | timestamps by packet hash, histogram, per-interface and global statistics | take a timestamp on ingress, account for the latency on egress |
| `ebpf-exporter/pkg/latency` | maps, links, running flag | start, attach, collect, stop; not used by the exporter's main |
| `traffic-generator/cmd/afpacket-stress` | the socket slice, atomic counters, `stopChan`, two WaitGroups | open AF_PACKET sockets at once or in batches, receive, send, report, stop, close, join |
| `traffic-generator/cmd/traffic-gen` | two counters | send at a rate or as fast as possible, report |
| `af_packet_reproducer` | `tcpdump` processes, samples of cluster metrics | start captures, query Prometheus through a port forward, draw charts, clean up |

How they interact:

* The stress program and both user-space processes share **maps**. Nothing is
  locked: a packet is counted in four maps one after another, and a reader
  copies one map after another, and in each map one CPU after another.
* `ebpf-stress` and `ebpf-exporter` share the **pin directory**. A process
  finds there whatever an earlier one left; it may go away at any time.
* In the exporter `collector.mu` orders the poller, `/ready` and `close`.
* In `afpacket-stress` one **channel** stops everybody, `socketMu` guards the
  slice, and main waits for a **WaitGroup**, but not for more than 5 seconds.
  `traffic-gen` is built alike, without sockets to close and with a join that
  waits for as long as it takes.
* The latency programs share their **timestamps** with one another on all CPUs,
  and their statistics with every collector that has opened the pins.
* `af_packet_reproducer` has **child processes** it signals and never waits for,
  and samples **Prometheus** through a goroutine whose end it does not notice.

What is hard, and what correctness means there, is listed at its line in
`PROJECT.json` under `hazards`, with the properties that speak of it. In short:
a snapshot of the statistics must be nearly consistent although nothing is
atomic; a run must be configured as asked whatever a dead predecessor left; a
run that ends in order must leave nothing that works; the exporter must never
show a total that decreases or a rate that wraps, and must find the maps
however the two are started; a stop must end every goroutine, and the final
statistics must be exact if the join succeeded; a latency must be that of its
packet as long as no other has its hash; a collector must read the maps its programs and
everybody else's write; a sender must keep the rate asked for; and the
reproducer must stop, leave no capture behind and sample what can be measured.

## Modules

| Module | Models |
|---|---|
| `StressProgram` | the eBPF program on every CPU, the writers of the configuration, and one reader of the statistics |
| `RegularCounter` | what a statistics map promises: a counter that grows, and reads that take time |
| `StressTotals`, `MCStressTotals` | `StressProgram` with the sums `sumPerCPUMap` returns; implements `RegularCounter` |
| `StressLoader`, `MCStressLoader` | the life of `ebpf-stress` processes around the pin directory |
| `Exporter`, `MCExporter` | the exporter in an environment that may do anything to the pins |
| `StressExporter`, `MCStressExporter` | `StressLoader` and `Exporter` together; implements `Exporter` |
| `AfPacketStress`, `MCAfPacketStress` | the goroutines of `afpacket-stress` |
| `LatencyProgram`, `MCLatencyProgram` | the hooks of `latency.c` on every CPU, and one reader of their statistics |
| `LatencyCollector`, `MCLatencyCollector` | the `Collector` of `pkg/latency` in several processes around one pin path |
| `TrafficGen` | the goroutines of `traffic-gen` and the rate they keep |
| `Reproducer`, `MCReproducer` | main of `af_packet_reproducer` among its children, signals, timers and queries |
| `SumTheorems` | lemmas about sums over a finite set, least and greatest numbers, and remainders |
| `StressProgramProofs` | the theorems about `StressProgram` and `StressTotals` |
| `StressLoaderProofs` | those about `StressLoader` and `StressExporter` |
| `LatencyProofs` | those about `LatencyProgram` and `LatencyCollector` |
| `ExporterProofs`, `AfPacketProofs`, `TrafficGenProofs`, `ReproducerProofs` | those about the module of that name |

Every module is parameterised by constants; a definition called `MUTANT of X`
is a wrong variant of `X`, used to see that a property notices it.

### StressProgram and StressTotals

The variables `enabled`, `loopCount` and `stats` are the contents of the maps.
`pc` and `pkt` are where each CPU is in the program and its locals; one packet
is in flight on a CPU, because the program runs with migration and softirqs
disabled. `Enter` is the check of `is_enabled`, `StressLoop` is
`get_loop_count` and `perform_stress_loop` between the two clock readings, and
`Add` is one of the four atomic adds of `update_stats`. `StartRead` and
`CopyCPU` are `GetStats`, and equally `collect`, which reads the same maps in
the same order; `at` is the map being copied and `todo` the CPUs still to copy.
`performed` and `packetsAtDisable` are history. The XDP and TC entry points do
the same to the maps and are one program here; the socket entry point is never
attached, as `attachSocket` fails. The packet contents, the verdict and the
arithmetic inside the loop are abstracted away. Both 32-bit arguments of
`update_stats` are far below their limits and the 64-bit counters do not
overflow, so they are natural numbers.

### StressLoader

`pins`, `readable`, `dir` and `value` are the pin directory and the maps;
`prog[i]` is the set of maps the attached program of process `i` was loaded
with. Each step of `LoadAndAttach` and `Detach` is an action, in the order of
the code: `Start` (which makes the directory), `ReuseMap`/`CreateMap` for each
map in any order, `ChmodMap`, `SetLoops`, `Enable`, `Attach` or `AttachFails`,
then `Stop`, `Disable`, `DetachHook`, `CloseCollection`, `UnpinMap` and
`RemoveDir`. A failed attach goes the way of `Detach` too (`undo`), past the
hook. `Die` is a kill at any point, and also the returns of `LoadAndAttach`
that do not call `Detach`: an XDP link ends with its process, a TC filter and
the pins do not. `Packet` counts one packet in one step.

Only `--pin-maps` (the default) is modelled; without it the processes share
nothing. How `NewCollection` treats a pinned map is taken from the library's
contract, as the code relies on it: reuse it if pinned, else create and pin.

### Exporter

The environment (`pins`, `readable`, `value`) may change in any way between any
two steps, except that a statistics map does not decrease. `OpenMap` and
`OpenFails` are one turn of the loop in `openMaps`, in the random order of a Go
map, called from main (`pc = "boot"`) or from `collect` (`"open"`); `Poll`
begins a `collect`, `ReadMap` is one `sumPerCPUMap`, `Publish` the rest of it.
`Probe` is `/ready`, and `Signal`, `Cancel`, `Close` and `Exit` the shutdown of
main. The mutex is held from `Poll` to `Publish`: it is free exactly when `pc`
is `wait` or `returned`, which is the guard of the two actions that take it.
Every interface gets the same values, so one stands for all. `rates` are the
differences `collect` computes, with the wrap of a `uint64`, before the
division by the elapsed time.

### StressExporter

Both processes as they are, with `StressLoader` supplying what `Exporter`
leaves open. The exporter does not open `config_enabled`, so what it sees is
the restriction of the loader's state to the maps it exports.

### AfPacketStress

`main`, `creator`, `receiver[s]`, `worker[w]` and `helper[h]` say where each
goroutine is; `wg` and `creatorWg` are the two WaitGroups, as sets. The four
atomic adds of `receivePackets` and the two of a sender are steps of their own.
Creation is one socket at a time: `CreateInBatch` asks for a descriptor, which
may fail, and `AppendInBatch` puts it in the slice and starts its receiver
(main does the same without `--progressive`). `RecvFails` may happen at any
time: an interface may go down. A descriptor main has closed may by then be the
number of a socket opened since, hence the guard `open # {}` of the two other
outcomes. The sleep of main before it closes the sockets guarantees nothing and
is left out.

### LatencyProgram

A packet meets XDP, TC ingress and TC egress in this order, or only some of
them, each time on any CPU; a hook program is not interrupted by another on its
CPU. `Enter` is the head of a hook: the time and the hash are taken, and a hash
of 0 ends it. `Stamp` is the update of `packet_timestamps`, an LRU map that may
give up other entries for the new one (`Store`) or refuse it (`Refuse`), which the
program does not look at. `Lookup` reads the entry, whoever's it
is, and subtracts it from the time taken at the head; `UpdateHistogram`,
`UpdateGlobal`, `Delete` (egress only) and `Account` are the helper functions,
in the order of the code, each on the slot of its CPU. `StartCollect` and
`CopySlot` are the sums of `Collect`, key by key and CPU by CPU;
`MinExported` and `MaxExported` are what `readInterfaceStats` computes.

`calculate_packet_hash` is any function of the packet and the hook (`hash`,
`Key`): every hook computes it anew from the headers it finds, and forwarding
rewrites the MAC addresses, NAT the addresses and ports, and a VLAN tag that was
stripped moves the fields. So a hook may find no entry, or that of another packet,
although its own packet left one. A timestamp is looked up and read in one step,
so that the kernel reusing the LRU entry in between is left out, as is a map of 256 interfaces that is full; the lookup and the update of a
new interface are one step, which loses nothing, since the update of a per-CPU
map writes the slot of its own CPU only. `owner`, `arrival`, `forgotten`,
`measures` and `accounted` are history.

What the code does, as the properties state it: a hook whose hash no other packet
had at XDP never uses the arrival of another packet, and its latency does not wrap,
although the clock is read before the lookup; it goes unmeasured if the packet
met no XDP hook, if its headers have changed, if the map gave up or refused its
entry, or if the egress hook of a packet with that hash there deleted it, and for
no other reason (`UniqueIsExact`). If another packet did have that hash at XDP, the
hook may use the arrival of a later packet, and the latency then does wrap. `global_packets` counts measurements, not packets: a packet measured at
ingress and at egress is counted twice. The egress hook deletes whatever entry
is there, so a packet may lose its arrival to another of the same hash.
`ExtremesExact` speaks of interfaces with a latency; what the others export is
listed under the disagreements.

### LatencyCollector

`pins` is the pin path and `hooked` the XDP link of each interface; the fields
of a `Collector` and its gauges are functions of the process. `Start`,
`OpenMap` and `OpenFails` are `openPinnedMaps`, in the order of its list;
`ReuseMap`, `CreateMap`, `LoadFails` and `Loaded` the loading of the
collection; `Attach`, `AttachFails` and `Started` the loop over the interfaces.
`Collect` and `Stop` hold the mutex from end to end and are one step each; the
steps of `Start` interleave only with other processes. `Die` takes the links of
a process with it and leaves the pins.

Nobody calls `Start` on a running collector, and the guard says so. Nothing in
the code unpins a map: a process that finds all five becomes running and
attaches nothing, for ever, even if nobody alive has a program attached. No TC
program is attached anywhere, so with this loader alone the timestamps are
never looked up and the global counters stay 0.

### TrafficGen

`Share` and `Pacing` are the arithmetic of main and of `sendPacketsRateLimited`
(`afpacket-stress` has the same), with its literals as constants: seconds of
50 ticks of the clock instead of 10^9 keep the numbers within what TLC can
enumerate and leave the structure as it is. `Dial`, `TakeTick` or `BeginBurst`,
`Write`, `WriteFails`, `AddBytes`, `EndBatch` and `SeeStop` are a worker, `Fire` is its
ticker, whose channel holds one tick; `Report` is `reportStats`; `Stop`, `Join`
and `Exit` are main. Asked for less than one packet per worker, each worker
sends the default of 10000 instead.

### Reproducer

`main` says where the program is: discovery, port forward, the test of the
connection, the creation of the captures, the monitoring loop, the parts of a
sample, and the clean-up, capture by capture. `Collect` is split at its four
groups of queries, since the port forward may break between any two; a query
ends within its timeout, and answers or does not. Several sample points are
kept as the latest, as how many there are, up to the two that charts need, and as
whether one counted an active socket (`seen`).
`tcpdump[c]` is the process of capture `c`: it may end at any time, be asked to
(`termed`), or be killed (`cut`). It stays a zombie once it has ended, as main
never waits for it, so signals still reach it.

`WellFormed` is the one thing the text of a query decides here: `getCPUMetrics`
puts a filter with braces of its own inside the braces of `mode="..."`.
`log.Fatalf` ends the program without the deferred `Close`; a negative
`--sockets` panics in `make` and a `--metrics-interval` of 0 or less in
`NewTicker`, after the captures were created. A panic, unlike `log.Fatalf`, runs
the deferred `Close` (`Panic`). Another server listening on local port 9090 is left
out.

`SaveCharts` begins nine charts, one after the other; `tried` counts them. One that
cannot be drawn or saved is only logged, so that the number begun, not the number
of files, is what the code settles; the message that the charts were saved comes
in any case. A third panic is in the fifth chart: `plotCombinedMetrics` divides by
the most active sockets of any sample, and if every capture failed to start that
is 0, the quotient NaN, and the line that `NewLine` then does not return is used.
By `ChartsAfterTen` no other run meets it. It is assumed that Prometheus does not answer NaN,
which `ParseFloat` accepts and the same chart would take as badly.

## Runs

| Run | Shows |
|---|---|
| `stress_program` | what a snapshot may miss, the disabling, recorded against performed loops; a summed per-CPU map is a regular counter |
| `stress_loader` | three runs of a TC process with crashes: pinned and configured while running, nothing at work after an orderly end |
| `exporter` | what the exporter's metrics may say and never take back; it connects, catches up and lets the rates settle |
| `stress_exporter` | loader and exporter together implement `Exporter`; a run that stays is exported in the end |
| `afpacket_stress` | the join, the final counters, the creation of the sockets; a stop drains the goroutines |
| `latency_program` | which latencies are right, why a packet goes unmeasured, and how histogram, counters and extremes agree over the CPUs |
| `latency_collector` | two processes that fail, die and restart around one pin path: running means sharing the pins, attached means measured |
| `traffic_gen` | the rate that the arithmetic yields, the ticker, the final counters, the end |
| `reproducer` | no capture is left or cut without need, samples survive failing queries, the charts are begun, signals and the duration stop it |

A property that a theorem settles for every instance, and that a run would show
on a small one without adding anything (`TypeOK` of all modules but `StressLoader`,
`LoopsWithinCap`, `ConnectionIsForLife`, `ReadyIsKept`, `OneBurstLate`), is proved and not run.

Bounds. `StressTotals` has two CPUs, the least with which a sum can mix moments,
and two packets, on either of them or on one after the other, so that a reader can
fall two packets behind a CPU; the settings 75 and 3000 have a remainder in the
division and exceed the cap. All packets have one length, for a longer one only
moves a counter further from its bound.
`StressLoader` starts the process three times: the first can die, the second
reuse what it left and die again, the third run on the mixture. Two objects for
each name are enough, for an object is created only when none is pinned.
`Exporter` has two statistics maps, the first being the one that decides about
reconnecting and the other standing for the rest; the first can be pinned again
as a second object, which is what a restarted process does to it.
`AfPacketStress` has three
sockets in batches of two, so the last batch is cut; one worker and one helper,
as these do not interact. `LatencyProgram` has two CPUs and two packets, two
hashes and a map that may forget one when it stores the other, and as many buckets
as make a last one without a bound; the clock has a tick between XDP and the TC
hooks. A packet has no hash at any hook, or one that changes at most once on the way
(`Routes`): a hash that leaves and comes back adds nothing that a second packet
with that hash would not do.
`LatencyCollector` has two processes, two maps and two interfaces, the least
with which a load can find one map and create the other, or attach half of what
it should. `TrafficGen` checks every rate up to 60 for one and two workers,
past the point where the batch has reached its maximum; its goroutines are two
workers, each with two ticks or bursts. `Reproducer` has three captures, with a
sample after every second one instead of every tenth, and one metric in each of
the three groups of queries. `MaxPackets`, `MaxCount`, `MaxSent`, `MaxRecv`,
`MaxFires`, `MaxBursts`, `MaxStarts`, `MaxClock` and
`MaxRuns` bound counters only. `MaxUInt64` is larger than any
count a run reaches: a value that wrapped would show as a number near it.

`CHECK_DEADLOCK FALSE` stands where the bounds end the run or the program ends:
when every process has been started as often as allowed, every packet has been
sent or main has exited, nothing is left to do. `AfPacketStress` has an explicit
`Exited` step and is checked for deadlocks.

Fairness. The exporter's poller is weakly fair: its goroutine is scheduled and
its ticker ticks. Nothing is assumed of the operators who start and stop
processes, of the loader, or of main being stopped. In `AfPacketStress` and
`TrafficGen` every goroutine is weakly fair; one whose `select` may find both its
ticker and `stopChan` ready is strongly fair towards its end, since Go chooses
among ready cases at random. The same holds of the `select` of `Reproducer`,
whose main is weakly fair because its queries have a timeout and its sleeps end.
Main of `afpacket-stress` is not obliged to give up.

### Disagreements

Three runs end in a violation; each checks one sentence of a document
against the code, and is explained under `findings` in `PROJECT.json`:

* `stress_shared`: a second process that stops unpins the maps of the first.
* `reproducer_active`: "number of currently active AF_PACKET sockets" includes the
  captures that have ended, which are zombies that signal 0 reaches.
* `reproducer_measured`: with nodes in the cluster no CPU metric, the softirq
  time included, ever gets into a sample.

Where the code falls short of its words by a known amount, a property of a
passing run says by how much:

* `stats_loops`, "total loop iterations performed", counts the iterations
  configured: up to 49 per packet more than those performed
  (`RecordedNearPerformed`).
* "Close all sockets" misses up to one batch of sockets that the creator appends
  after it (`LeakIsOneBatch`).
* "All sockets created" and "Active sockets" count what was tried and what was
  ever opened (`EverySocketTried`).
* `/ready`, "200 if connected to maps", looks at `stats_packets` alone; the
  gauge `ebpf_exporter_up` is the honest one (`UpMeansAllOpen`).
* "Try to reconnect if maps are not open" is true of a missing `stats_packets`
  only: handles never change once that one is set (theorem `ConnectedForLife`), so
  maps that an `openMaps` failing behind it left closed stay closed.
* "Minimum observed packet latency in nanoseconds" is right for an interface that
  has accounted for a latency (`ExtremesExact`). For one whose packets had none, the
  minimum of its slots is ~0, of which the reader skips 0 only, so the gauge shows
  about 1.8e19. With this loader, which attaches no TC program, no packet ever
  has a latency, and every interface with packets shows it.

Three more follow from the models without a property: "Metrics charts saved" is
printed whatever became of the charts (`SaveCharts`); the help text of
`ebpf_stress_interface_up` says "attached", but the gauge stays 1 after a detach,
as it only says that a packet was counted in the maps held; and the latency
metrics are not "independently" measured, as `collect` returns before them when
the maps of `ebpf-stress` cannot be opened (`Poll`, `OpenFails`).

## Proofs

The theorems hold for every value of the constants that satisfies the
assumption of the module (`SettingsAssumption`, `ProcessorsAssumption`,
`LoaderAssumption`, `ServiceAssumption`, `ExporterAssumption`,
`StressAssumption`, `LatencyAssumption`, `CollectorAssumption`,
`TrafficAssumption`, `ReproducerAssumption`). Two things are assumed that the
code takes for granted: there are finitely many processors and interfaces, of
which sums are taken, and a counter or a loop count fits a `uint64`.

Every safety property and every refinement that a passing run checks is also
proved; liveness is not.

**SumTheorems.** A sum over CPUs, buckets, sockets or workers is the
`SumFunction` of the community modules, a fold. Its definition is an equation
that a function on the subsets of the domain satisfies; that there is one, and
only one, is shown on a smallest subset where it fails, as are the lemmas the
other modules cite: what a sum does when one addend changes (`SumChangesAt`),
when all grow (`SumIsMonotone`), and when all are 0 (`SumIsZero`). `Remainder`
says that a number has one remainder, from which sums may be reduced to 64 bits
before or after an addition (`SameRemainder`, `Turns`).

**StressProgramProofs.** `TypeCorrect` is inductive as it stands. The others
add what is in flight: a CPU that has added a packet but not its loops is ahead
in one map, and the reader's copy is behind both. The snapshot theorem relates
what was copied from `stats_packets` to what `stats_loops` holds *now*, which
stays true while the reader is elsewhere because both only grow.
`TotalsRegularly` is the refinement of `RegularCounter` by the sum that
`sumPerCPUMap` takes slot by slot, for any number of CPUs: a copy finished at
once would be at least the sum there was when it began, and no slot copied is
more than what the map holds now (`RegularInv`).

**StressLoaderProofs.** The types hold for any number of processes: whatever
stage a process is in past the load, it holds an object for every name (`Held`).
The three other theorems assume `OneInstance`, at most one process, started,
killed and started again any number of times; run `stress_shared` shows that two
break them. With one process nobody removes a pin under a run, so the maps it
holds are the pinned ones (`Holding`), and what it wrote into two of them stays
(`Configured`). A filter that a killed run left behind is `Disarmed`: it reads a
`config_enabled` that is 0, or the one that is pinned and that the next run
reuses, and disables when it ends.

`Served` is the composition: any number of processes, with `OneInstance` not
assumed, implement together with the exporter the specification of the exporter
in its open environment. The initial states are by definition among those of
`Exporter`; a step of the exporter is one of `Exporter`; and a step of a process
is one of its environment (`Serves`), as it only replaces pins and modes, and no
step takes a statistics map backwards or beyond a `uint64` (`Grows`).

**ExporterProofs.** `RatesDoNotWrap` and `TotalsAreMonotonic` need that the
order `totals = last <= sample <= value` holds map by map, which in turn needs
that a handle is never exchanged once a sample was taken through it. It is not,
although `openMaps` overwrites handles, because it is called again only while
`packetsMap` is nil, when no `collect` has got past its first lines
(`ConnectionHolds`, `OrderHolds`). This holds in any environment whose maps do
not decrease, and `Served` says that the loader is one, so that what is proved here
of the exporter's rates and totals is true next to `ebpf-stress`.

**AfPacketProofs.** The join is complete because every goroutine that has not
ended is registered where somebody waits for it (`Registered`): the receivers
of a progressive test in the creator's group, as long as the creator itself has
not ended. `Progress` ties the counters of the loop together, so that the next
id is always one of those configured, and `Lateness` bounds the sockets
created since the stop by the index in the batch. `Asked` says that the ids
tried are the first ones without a gap, which makes the last batch end at the
number asked for. The leak is bounded because what is open when main has closed
the slice was created by the one batch then in progress (`Opened`). The
counters printed at the end are exact (`FinalTotals`) because at any moment the
sum over the sockets, less what the receivers have not added yet, is in the
global counters, and by the join nobody is between two adds (`Received`, `Sent`).
A receiver belongs to a socket created, and the socket of the next id has none
yet, so that starting it forgets no packet (`OneReceiver`).

**LatencyProofs, the programs.** An entry of the timestamp map is the arrival of a
packet that had that hash at XDP (`Entries`). Where no other packet had it there, the
entry is missing (`Lost`) for a few reasons only (`Kept`): the map gave it up or refused
it, the egress hook of another packet with that hash deleted it, the packet itself has
passed egress, or it has not stored its arrival yet. A hook whose hash no other packet had at XDP
therefore finds its own packet's arrival or none, and why none is one of the reasons
of `UniqueIsExact` (`Reason`); as the hook took its time after that arrival, the
difference does not wrap. `Once`: a packet that one CPU has measured at egress has no entry any
more, or that CPU is between its lookup and its deletion; and only a packet not
measured yet leaves a timestamp (`Fresh`).

`TotalsAgree` follows from `SumsInv`, which has what is on its way from one map
to the next: the packet that is in the histogram and not in `global_packets`
yet, and the latency that is in `global_latency_ns` and not in the slot of its
interface, all of it modulo 2^64. `SlotsInv` says what the extremes of one slot
are before and after its first latency, and that the slots of an interface
without an entry are 0, whoever registers it first; `ExtremesExported` takes the
least and the greatest over the CPUs from there. For `SnapshotsCover`, a CPU
whose counter of packets has been copied `Owes` the buckets still to copy, and
`ReaderInv` says that what is owed covers the difference of the two sums; the
programs can only add to it, since a packet enters the histogram before it is
counted.

**LatencyProofs, the collectors.** A running collector shares the pins because a name,
once pinned, keeps its object (nothing unpins), and every map a process holds,
is opening or has loaded is the pinned one (`Pinned`). What is attached is
measured, and found by `Stop`, because links exist only between the load and
the end of a run (`Linked`), and `Complete` says that by then no field is
empty. `ShownTotalsGrow` needs that what is shown came from the object that the
next `Collect` reads too (`Shown`).

**TrafficGenProofs.** A worker is never ahead of its ticker because a tick in
the channel is worth a batch not begun (`Covered`); that the batch is a number,
whatever the flags, is `BatchIsNumber`. `FinalTotals` adds the workers up, with
those between their two adds. `RatesKept` holds for every rate, every number of
workers and any literals that satisfy `TrafficAssumption`, those of the code
among them: `SlowPace` is the case of ten packets at an interval of at least a
microsecond, `FastPace` that of a microsecond and as many packets as it holds.
The proof also shows that the floor of one packet in the code is never needed,
since an interval below a microsecond with ten packets means at least one packet
in a microsecond.

**ReproducerProofs.** `Before` and `Cleaned` follow the program counter: no
capture exists before the creation, none beyond the next one, and behind the
loops of the clean-up those up to the next one have been signalled or have
ended. `Sampled` counts the points the tenth capture and the end take, and
`Counted` says that a sample taken once a capture was started has counted it,
since a capture that has ended still exists for signal 0: the last sample of such a
run has seen an active socket, and the charts do not panic (`ChartsAreTried`).

Only model-checked: all liveness (`ConnectsWhenUntouched`, `TotalsCatchUp`,
`RatesSettle`, `RunGetsExported`, `StopDrains`, `Termination`,
`StopsWhenAsked`), as this prover reasons neither about `ENABLED` nor about
fairness. The three violations are counterexamples and stay with TLC as well. The
theorems of `Exporter` are not restated for `BothSpec`: the prover does not
instantiate the theorems of another module, so that step is left to the reader
of `Served`.

## Not modelled

* Parsing, formatting, the drawing of the charts, banners, the YAML
  configuration, `/health` and `/config`: no state that anything depends on.
* The text of `mpstat`, and the sizes of the capture files.
* Makefiles, manifests and documents: no behaviour of the programs.

## Plan

1. Proofs: that the buckets of the histogram are powers of two (`Bucket`), from
   lemmas about `^`; the safety halves of the liveness properties.
2. `LatencyProgram` and `LatencyCollector` together, each object of the pin path
   being the statistics of a program.
3. The rates of the senders of `afpacket-stress`, on the pacing of `TrafficGen`.
