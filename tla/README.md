# Voltadomar in TLA+

Voltadomar measures routes from anycast sites. A **controller** takes user
requests, hands each one a block of session IDs, and sends a job to the agent of
the source site; **agents** send UDP probes whose ports are the IDs of the block
and pass the ICMP errors that come back on to the controller, from whichever
site they reach; the controller assigns them to the programs that wait for them
and formats a report. Beside it the repository keeps, in `ref/`, the C
traceroute whose behaviour the project takes for its reference: one process with
an event loop. This directory holds TLA+ models of both, the TLC runs that check
them and the proofs that TLAPS checks. `PROJECT.json` maps every definition to
the lines it models.

Paths below are relative to `src/src/voltadomar/` of the repository, those that
begin with `ref/` to `src/`.

## 1. Inventory

| component | state | operations | talks to |
|---|---|---|---|
| session blocks (`internal/controller/controller.go`) | `nextSessionID`, `inUseBlocks`, under `c.mu` | `AllocateSessionID`, `ReleaseSessionID` | called by `UserRequest` |
| user requests (same file) | `programs`, under `c.mu`; one goroutine per request | `UserRequest` and its two deferred calls | allocator, traceroute, `SendJob` |
| traceroute program (`internal/controller/traceroute.go`) | `results`, `receivedDone`, `waitingResults` under `tr.mu`; the unbuffered channel `finished` | `NewTraceroute`, `Run`, `HandleDone`, `HandleReply`, `checkDone`, `formatResults`, `ParseTracerouteArgs` | called by handlers and by the streams |
| control streams (`controller.go`) | `agentStreams`, under `c.mu`; one goroutine per agent connection | `ControlStream`, `processAgentMessage`, `SendJob` | agents, programs |
| agent process (`internal/agent/agent.go`) | the stream, `outgoingMessages`, `ctx`, `wg` | `Run`, `Stop`, `register`, `handleController`, `handleSniffer`, `handleOutgoingMessages` | controller, worker pools |
| worker pools (`internal/agent/worker.go`) | `jobChan`, `ctx`, `wg` | `Start`, `Stop`, `AddJob`, `worker`, `senderWorker`, `listenerWorker` | the agent's loops, `outgoingMessages`, sockets |
| packets (`pkg/packets`) | none | build and parse packets, resolve names | gopacket, DNS |
| constants, protocol, commands | none | literals, generated messages, flags and signals | |
| reference traceroute, command line (`ref/traceroute.c`, `main`) | `conf` | one `getopt` option after the other, then the rest of `main` | its own event loop |
| reference traceroute, event loop (`ref/traceroute.c`, `ref/worker.c`) | the table `tr_results`, `waiting_ttls`, the cursors of `catchup_result_rows`, the `seq` of `send_timer` | `send_timer`, `sock_read`, `getnameinfo_async_done`, `getrrsetbyname_async_done`, `catchup_result_rows` | raw sockets, the resolver |
| reference traceroute, reading a message (`ref/worker.c`) | positions in the packet buffer | `packet_ok4`, `packet_ok6`, `get_udphdr`, `print_exthdr`, `in_cksum` | called by `sock_read` |
| reference traceroute, output (`ref/worker.c`) | none | text of a row, TOS, packet dump | |

What makes each part correct, and what makes it hard:

* *Session blocks.* Two users never share an ID; a block is refused only when
  there is none; every call returns. Hard: the search wraps around a range that
  is no multiple of the block size.
* *User requests.* On every path, early returns included, the block and the
  entry of `programs` are given back exactly once, in the order that protects
  the next owner of the block. Hard: two deferred calls with other handlers
  running between them.
* *Traceroute program.* A reply is recorded in the program that sent the probe,
  a run ends early only when it is complete, and it always ends. Hard: messages
  in any order on several streams, late messages of a former owner of the block,
  a program that is looked up under a lock and used after the unlock, and a
  non-blocking send on an unbuffered channel.
* *Control streams.* `agentStreams` holds live streams and finds a connected
  agent. Hard: an agent that returns before its death has been noticed.
* *Agent and pools.* `Register` comes first, no send on a closed channel, a job
  is answered at most once, `Stop` ends the process. Hard: three loops and two
  pools joined by bounded queues, with the context cancelled at any point.
* *Reference traceroute.* Every answer is credited to the probe it answers, the
  counter of a row is what the row waits for, hops are printed once, in order and
  only when nothing more can come, and the program ends. Hard: probes,
  duplicated and late answers, timeouts and two kinds of lookups in any order;
  ports that wrap at 65536; a table read up to one row past its end unless the
  last row ends the process.
* *Reading a message.* The loops end, and what is read lies in the message or no
  further behind it than can be said, whatever lengths the message gives for
  itself. Hard: checks of one length before a byte at another place is used, two
  counters of the same position, chains of headers, objects and labels that lie
  about their size.

The places where this can go wrong, with their lines and the properties that
cover them, are the `hazards` of `PROJECT.json`.

## 2. Modules

| module | models | variables and what they are in the code |
|---|---|---|
| `SessionAllocator` | `AllocateSessionID` and `ReleaseSessionID`, one step each: both hold `c.mu` throughout and nothing else touches their fields | `nextSessionID`, `inUseBlocks` (the keys of the map) |
| `AllocateLoop` | the same code, one loop iteration per step, callers competing for `c.mu`; extends `SessionAllocator` | the fields, the locals `currentID` and `blocksChecked`, the holder of the lock |
| `Controller` | `UserRequest`, `Traceroute`, and the Done and Reply paths of `processAgentMessage`; extends `SessionAllocator` | `pc` and `sid` per handler, `programs`, the program's fields, and `handling`: the program a stream has looked up for a Done and not yet called |
| `MeasurementService` | nothing: the promise to users that `Controller` keeps | the block and the answer of each request |
| `ControllerLocks` | `c.mu` and the `tr.mu` of every program as `sync.RWMutex`, and the sections of `UserRequest`, `Run`, `formatResults`, `ControlStream`, `processAgentMessage` under them | where each goroutine is, `programs`, the program a stream is about to call, the programs it has asked; of each lock its readers, its writer, and the readers a waiting writer still waits for |
| `AgentStreams` | `ControlStream`, Register, the deferred delete, `SendJob`; agents that start, die and start again | `agentStreams`, the local `agentID` of each call, the state of each connection |
| `Agent` | `Agent.Run`, the three loops, both worker pools, `Stop` | where each goroutine is and what it is busy with, both `jobChan`s, `outgoingMessages` |
| `AgentRelay` | nothing: what an agent promises the controller, and `Agent` keeps | what has arrived, what has been sent, what has been given up |
| `RefOptions` | `main` up to the end of the options: each is checked against those before it | `conf`, the number of options read, how the process stands |
| `RefProbes` | pure: `build_probe4`/`build_probe6` and the test of what an answer quotes in `packet_ok4`/`packet_ok6`, with 16-bit words and byte order | none |
| `RefTraceroute` | the event loop; extends both | the table, `waiting_ttls`, `timeout_row`, `print_row`, `seq`, the number of probes whose time is over, and the rows on the standard output |
| `RefReplies` | the same two functions and `print_exthdr` seen from the other side: where in the message they read, the dumps of `-v` included | the position, the end of what the last step has read, the rest the code takes for left, the room in the text buffer |

`MC*` modules instantiate them for TLC. `M_proofs` holds the theorems about `M`.

How actions correspond to code: an action is a section under a lock, or a piece
of a goroutine between two points where others can notice. `UserRequest`, for
example, is `Allocate`/`Refuse`, `ParseFails`/`CreateFails`/`Create`,
`Register`, `SendJob`/`SendJobFails`, `EnterSelect`, `TimerFires` (or the end
of the select that `CheckDone` causes), `Format`, `Unregister`, `Release`.
`HandleReply` is one step with the search through `programs`, because
`processAgentMessage` holds `c.mu.RLock` around both; `HandleDone` is a step of
its own, because the lock is released before it. `ControllerLocks` takes these
sections apart: there, calling a lock, getting it and leaving the section are
steps of their own, and what the section computes is left to `Controller`. In
`RefTraceroute` an action is a whole callback of the event loop, the trailing
`catchup_result_rows` included; in `RefReplies` it is one iteration of a loop of
the parser. Definitions whose comment begins with *Mutation* are not part of the
model: each is a plausible bug, and replacing the definition it sits next to by
it must break a property.

Abstractions in `Controller`: times, addresses, host names and agent IDs of
results are left out. A result holds instead the request whose Done set `T1`
(`t1`) and the request whose probe the reply is about (`reply`): the code cannot
see these, the properties compare them.

### The environment of the controller

Everything outside the controller is assumed as the code uses it:

* An agent that got a job sends at most one Done for it, for any subset of the
  probes, at any time. `Agent` justifies "at most one" (`ItemsConserved`,
  `ImplementsRelay`).
* A reply quotes the destination port of a probe, which is the job's base port
  plus the sequence number, and may come through any stream, at any time after
  the job was sent, up to `MaxCopies` times. The sender worker of this commit
  builds such a probe but discards it and writes to port 0 instead
  (`worker.go:94-100` and `116-143`); the model takes the packet that is built.
* `HandleReply` finds the UDP header of the quoted probe as a layer of the
  packet. That is how `extractSequenceFromPacket` uses the gopacket library,
  which is not part of the repository; the model relies on it.
* gRPC delivers the messages of one stream in order. In `Controller` messages
  are unordered: a Reply may reach any site, so order is lost between streams,
  and the safety properties hold without it.

## 3. Runs

| run | instance | shows |
|---|---|---|
| `allocate_loop` | range 1..10, blocks of 3 (one ID left over), 4 callers for 3 blocks | the loop implements `SessionAllocator`; it fails only when all blocks are taken; every call returns |
| `controller_isolated` | 2 requests with a block each, 1 or 2 probes, 2 streams, the range across the end of the 16-bit ports | replies are recorded with their owner; an early end is a complete one; implements `MeasurementService` with its liveness |
| `controller_reuse` | 3 requests on 2 blocks | no block leaks or is shared; `programs` is exact; no mixing; messages go astray only to a later owner of the block; implements `MeasurementService` (safety) |
| `controller_locks` | 1 request, 2 streams whose messages never end | nobody waits in a circle; a report shows one state of the results; `programs` rests during a search; who asks for a lock gets it |
| `agent_streams` | 2 agents, 3 connections, 2 starts each, 1 `SendJob` caller | no dangling stream; dead streams are forgotten |
| `agent` | 2 jobs, 1 packet, 1 worker per pool, queues of 1 | no send on a closed channel; every item in one place; implements `AgentRelay` (Register first, every message once or not at all); shutdown ends; nothing waits forever |
| `ref_traceroute` | up to 3 options, 1 or 2 hops and probes, base port 65535, IPv4 and IPv6 | `waiting_ttls` is exact; rows are printed once, in order and for good; answers are credited; no read past the table; a trace from the first hop ends |
| `ref_replies` | 15 message sizes, lengths that are small, large and inconsistent | which reads leave the message and by how much; the two positions agree; no label is cut off; a sound checksum is accepted; every message is worked off |

Runs that end in a counterexample, each against what a comment or document says:

| run | statement | what the code does |
|---|---|---|
| `lost_completion` | a run waits "for completion or timeout" | a completion before the select is lost; the run takes its full timeout |
| `oversize_request` | each program has a block of `blockSize` IDs | 150 probes (`-m 30 -q 5`, in the repository's README) run over a block of 100, and the programs of both blocks take the IDs beyond it |
| `stale_stream` | agent connection state is maintained | the old connection's deferred delete removes the new stream |
| `silent_tail` | silent hops are skipped "until the maximum TTL/hop limit is reached" (`ref/traceroute.8`) | with `-f k`, k > 1, and a silent rest of the path the row of the maximum never comes; the process runs on |

None of the four needs a message whose contents depend on the sender worker
(section 2). In `oversize_request` no message is sent at all: two registered
programs that both accept one ID are enough. The trace of
`lost_completion` has one probe and its reply, but the loss needs none: with no
probe (`-q 0`) the Done alone completes the measurement.

Four limits of the properties above that are worth knowing:

* A Done carries a session ID and nothing else, so a late one marks the next
  owner of the block. `NoMixing` and `OnlyFormerOwners` say what holds: what
  reaches another program has the same block and is about a request that has been
  answered. Nothing goes the other way, from the present owner to an ended
  program, although a stream may hold one that it looked up before.
* A late Reply, too, reaches the next owner of the block. `RepliesToOwner` and
  `FinishedIsComplete` are therefore about programs on a fresh block
  (`OnFreshBlock`), under whose session no other job ran. In
  `controller_isolated` every block is fresh, and `FirstLapIsFresh` proves that
  all are until the allocator has gone round its range once.
* `packet_ok4` uses `ip_p` of the quoted header after a check of another length
  (`ref/worker.c:534`, `:543`) or of none (`:554`), and the dumps of `-v` run up
  to 8 bytes past the message (`:565`, `:661`). `ReadsBounded` does not say that
  only received bytes are used, but where others are and how many. A verdict
  never rests on bytes behind the buffer; a dump of a message that fills it
  leaves it, by 4 bytes (IPv4) or 8 (IPv6).
* `FinishedIsComplete` holds when a reply is delivered once. `HandleReply` counts
  replies and not probes, so with `MaxCopies = 2` and two probes a duplicate
  stands in for a missing reply.

Bounds, and why they are enough. The range of `allocate_loop` has a rest that is
too short for a block and fewer blocks than callers, so the search wraps, cuts
off and fails. Two requests with own blocks are what it takes to confuse two
programs, and a third request on two blocks is what it takes to hand a block on
while another is held. In `controller_isolated` IDs go from 65533 to 65536, so
one block has a port that `worker.go:113` cuts to 0. Two probes separate the
first from the last of a program. `controller_locks` has the least that lets two
readers overlap for ever and two writers compete; that two programs can be
offered one Reply is left to the proofs, which hold for any number. `MaxConnects`
bounds how often an agent starts: two is needed for an old and a new stream of
one agent. Queues of one item in `agent` make full queues the normal case;
`ChanSize` is 100 in the code.

In `ref_traceroute` `MaxOptions` of 3 allows each pair of options in both orders
and one given twice; numbers are 1 and 2, so `-f` and `-m` clash and there are
tables of one to four probes; the base port is the last, so that all but the
first probe wrap. `Answers` has one message on the way, one that IPv4 takes from
the destination and IPv6 from on the way, and one that a UDP traceroute turns
down; each may come any number of times. `Stack` has a number outside the table
and one inside. In `ref_replies` `Sizes` lies around the smallest messages the
code accepts at each step, with quoted headers of 0, 4, 12 and 20 bytes, so that
each of the bounds 6, 10 and 8 of `ReadsBounded` is reached; `LenBytes` and `ObjectLens` around what the code
compares them with, and `Sums` leaves no, one and two carries.

`SYMMETRY` is used only in `controller_reuse`, which has no liveness. Deadlock is
checked in every run; where the system may stop (`Controller.Quiescent`,
`ControllerLocks.Idle`, `Agent.Terminated`, `RefTraceroute.Ended`,
`RefReplies.Returned`) that is an explicit step.

Fairness: a handler, loop or worker that can take a step does (goroutines are
scheduled, timers fire, deadlines expire). `AllocateLoop` and `ControllerLocks`
take strong fairness for `Lock`: a Go mutex hands itself over to a waiter that
starves. `ControllerLocks` also assumes that the resolver answers, which ends
`formatResults`. `AgentStreams` assumes that `Recv` returns what arrived and then
the error. `Agent` assumes that `Send` returns, since the controller reads its
streams. `RefTraceroute` assumes that the timer keeps firing, that time passes
and that the resolver gives up at last; `RefReplies` that a callback is not
suspended for ever. Nothing is assumed about users calling, messages arriving,
probes being answered, or agents being stopped; the liveness of
`controller_isolated` holds with agents that say nothing, that of
`ref_traceroute` with a silent network.

## 4. Proofs

All theorems hold for every value of the constants that meets the named
assumptions. Those that restrict something: `RangeAssumption` (what
`NewController` accepts), `Int32Assumption` (`EndID + BlockSize` fits an `int32`;
IDs are ports), `ConfsAssumption` (no negative number of probes),
`ChanSizeAssumption` (a queue holds an item), `DefaultsAssumption` (the defaults
are values their options would accept), `IdentAssumption` and `AnswersAssumption`
(ranges of 16-bit and 8-bit fields) and `BytesAssumption` (the size of the buffer
and the ranges of fields). The others (`SentinelAssumption` in `Controller` and
in `AgentStreams`, `CallersAssumption`, `ItemsAssumption`, `GoroutinesAssumption`,
`ThreadsAssumption`) only say that names differ. All of them are evaluated by TLC
in the runs.

* `SessionAllocator_proofs`: `BlocksDisjoint` (arithmetic: `BlockID(i)` are
  `BlockSize` apart) and `AllocatorTypeCorrect` (the cursor is always a block
  start below `EndID`). The lemmas on single steps are reused below.
* `Controller_proofs`:
  * `TypeCorrect`, one step per action.
  * `BlocksSafe` and `ProgramsSafe`. Neither is inductive alone: `Unregister`
    deletes the right program only because no two holders share a block, and
    `Release` frees the right block only because the handler is its only holder.
    The invariant is `Ownership`, the two together with `TypeOK`.
  * `ControllerImplementsService`: under `heldBlock` and `response`, every step
    is a step of `MeasurementService` or a stutter. It needs `Ownership` (the
    blocks in use are the taken ones) and `CodeDecided` (a handler on its way
    out has an answer).
  * `MeasurementsNeverMix`, for measurements that fit their block (`ConfsFit`,
    which the code does not check, as `oversize_request` shows) and a range no longer than
    the ports (`PortsFit`; it may still cross their end). The invariant is
    `Provenance`: what a stream is about to call was looked up under the same
    session ID, and every result came from a request with the same block that
    did not hold it at the same time. `BlocksDisjoint` gives that a port belongs
    to one block.
  * `RepliesReachTheirOwner` follows from `NoMixing` and `Provenance`: a foreign
    reply is about a job with the same session, and a fresh block has none.
  * `FinishedRunsAreComplete`, for `ConfsFit`, `PortsFit` and `MaxCopies <= 1`.
    The invariant is `Bookkeeping`: on a fresh block `waitingResults` is the
    number of probes without an answer (`CountExact`), because whoever counts
    down also fills an entry that was empty: an entry is filled by a reply to
    that very probe (`PortIdentifiesBlock`), and that one has not come before.
    `FreshBefore` says that a block which is fresh after a step was so before.
  * `FirstLapIsFresh`, for no more requests than blocks. The invariant
    `FirstLap`: the m sessions given out so far are the first m blocks of the
    range, and the search goes on from block m, which no handler holds. So it
    finds that one, past all that were given back. `FirstLapKeepsApart` adds that
    no result is then about another job, those of a Done included.
  * `NothingFlowsBack`, under the same assumptions. `OnlyFormerOwners` is
    inductive with `Ownership` and `Provenance`: a program that is found for a
    message is registered, so it holds its block, and a job that ran in the same
    block is its own or that of a request which has given the block back
    (`FormerOwner`). For a Done that is settled when the program is looked up,
    and stays so until it is called, because answered requests stay answered.
  * `IDsIdentifyPrograms`, for `ConfsFit` only: two programs that take one ID hold
    blocks that share it, against `BlocksDisjoint`. So the missing check that
    `oversize_request` shows is the only thing missing.
* `ControllerLocks_proofs`: `WaitsAreOrdered`, for any number of requests and
  streams. `Rank` says how far a goroutine is from going on: 0 for one that is
  inside a section, 1 and 2 for those that wait for a `tr.mu` (as its announced
  writer, or behind that), 3 and 4 for those that wait for `c.mu`. Whoever
  a goroutine waits for has a lower rank, so in every group there is one that
  waits for none of the others. This needs `LockInv`: the holders of a lock are
  where that lock is held (`LocksHeld`). `ReportsAreSnapshots` and
  `SearchesAreUndisturbed` follow from the same invariant.
* `AllocateLoop_proofs`: the search, one iteration at a time, for any range and
  any number of callers. The invariant `LoopInv` counts blocks by index: the
  search began at an index `s`, has looked at `blocksChecked` further ones modulo
  `MaxBlocks`, and found all of them in use. So the candidate is the first free
  block in search order (`CandidateIsFirstFree`), which is what
  `LoopImplementsAllocator` needs, and after `MaxBlocks` of them none is free
  (`GivesUpWhenFull`), which is `SearchIsComplete`. `LoopBlocksExclusive` adds
  that each block is held once (`HeldOnce`). This justifies using the one-step
  allocator in `Controller`.
* `AgentStreams_proofs`: `StreamsNeverDangle`. What is added to make
  `NoDanglingStream` inductive is `Unopened`: an unused connection has no
  `ControlStream` call yet. `FirstConnectionsReachable` is the other side of
  `stale_stream`: without an older connection of the same agent nothing removes
  a stream that is in use, since a call deletes under its own agent's ID only
  (`OwnIDs`).
* `Agent_proofs`, for any number of workers, jobs and packets and any channel
  size:
  * `NoSendOnClosedChannel` and `RegisterComesFirst`. The invariant `OrderInv` has
    three parts: pools are stopped only after the wait for all loops
    (`ShutdownOrder`); until `Register` is queued nothing runs and every queue is
    empty (`NothingYet`); from then on `Register` has been sent, or nothing has
    and it is the head of the queue, in the hand of the sending loop, or given up
    with the connection (`RegisterLeads`).
  * `ItemsStayInOnePlace`. `Places` counts, which the provers do badly over queues
    and hands, so the invariant `PlaceInv` says the same without numbers: a
    message is at most once among the places of one kind (`OnceEach`), at places
    of one kind at most, and at some place exactly when it is inside (`OneKind`).
    Every step takes a message from one kind to another (`MoveKeepsOneKind`);
    that it replaces nothing needs that idle goroutines have empty hands
    (`IdleHands`). `PlacesCounted` turns the three into the sum.
  * `AgentImplementsRelay`: what a goroutine holds is owed in the sense of
    `AgentRelay` (`HeldIsOwed`, from `PlaceInv`), and what is sent is `Register`
    or comes after it (`RegisterLeads`). All other steps are stutters.
  * `OnlyStopEndsConsumers`: as long as the context is not cancelled, the loop
    that sends and the workers go on and `Run` does not get past its wait. This
    is the safety half of `ItemsSettled`.
* `RefTraceroute_proofs`, for any options, hops, probes per hop and base port:
  * `FirstHopBeforeLast` by `OptionsInv` alone, in whichever order `-f` and `-m`
    come; `TypeCorrect` by `TypeInv`.
  * `LedgerIsExact` and `AnswersAreCredited`. The invariant is `LedgerInv`: what
    has been sent is what the table says (`SentOK`), each row's counter is what
    the row waits for (`Ledger`), and rows before `timeout_row` wait for nothing
    (`Settled`). That the port a message quotes leads back to its probe is
    arithmetic on `Htons` twice, wrap included. `Ledger` counts sets of probes,
    so each callback needs a lemma on how it changes one cardinality.
  * `TableIsNotOverrun`, `HopsAreInOrder`, `LeftOutIsSilent` and `OutputIsFinal`.
    The invariant is `PrintInv`, which adds `OutputInv`: while the process runs
    the output is all rows below `print_row`, which is below `max_ttl`; once it
    has exited the output is in order and what it leaves out has timed out. A
    settled row cannot change any more, which is why its output is final.
  * All but the first two are stated under `WellUsed`, the rules of use the
    program does not check: a flag is given once, the protocol is one that
    `packet_ok` knows, and the probes fit a 16-bit sequence number.
* `RefReplies_proofs`, for any message up to the size of the buffer: one
  invariant, `IInv`, which adds to the properties what has been read so far
  (`ReadSoFar`) and that the room left is enough for the text still to come
  (`RoomLeft`). From it come `ReadsAreBounded`, `ExtensionPositionsAgree` and
  `LabelsNeverCutOff`. A verdict of `packet_ok4` stays inside the buffer
  because neither of the two IPv4 headers is longer than 60 bytes; how far it
  leaves the message follows from what each protocol's length check covers. `SoundExtensionsAccepted` is about `in_cksum`: folding
  twice is enough for the sum of a whole buffer.

Only proved: the type invariants of `ControllerLocks`, `AgentStreams` and
`RefReplies`, which no run repeats, the arithmetic of `BlocksDisjoint` and
`AllocatorTypeCorrect`, `RegisterComesFirst` (which `ImplementsRelay` contains),
`OnlyStopEndsConsumers`, `FirstConnectionsReachable`, `IDsIdentifyPrograms`, and
the two theorems on the first lap.

Only model-checked: everything temporal beyond safety (`CallsReturn`,
`ImplementsLiveService`, `LocksGranted`, `DeadStreamsForgotten`, `Stops`,
`ItemsSettled`, `Terminates`, `Ends`), since the prover has no ENABLED and no
fairness rules. Every safety property of a passing run is also the statement of
a theorem.

## 5. What is not modelled

* `formatResults` beyond the instant it reads the results, and
  `ParseTracerouteArgs` beyond success and failure (what it parses is `Confs`).
* Negative or zero counts in a request (`make` panics on a negative product).
* How long a lock is held: while `formatResults` asks the resolver under `tr.mu`
  and a Reply is offered to that program under `c.mu`, the whole controller
  waits. `ControllerLocks` shows that the wait ends if the resolver answers.
* Concurrent `Send`s on one stream: what they do is up to gRPC.
* `Controller.Run` and `Stop`, `cmd/`, generated protocol code, packet building
  and parsing: start-up, flags, and calls of libraries.
* Of the reference traceroute: sockets and privileges; options that change no
  decision of the event loop (`-g`, `-s`, `-t`, `-V`, `-w`, `-x`, `-l`, `-S`,
  `-d`, `-D`, `-v`); the wording of a row, `check_tos` and `map_tos`, the dump of
  a packet; errors of `recvmsg`; other processes with the same `ident`.
* In `RefReplies` the contents of a message are chosen when they are read, so
  that any two of them may disagree.

## 6. Plan

Done: all modules of section 2 and the proofs of section 4. What would come next,
in order:

1. `TracerouteReport` and `TracerouteArgs`: `formatResults` and
   `ParseTracerouteArgs` as operators, checked against reference definitions.
2. `System`: controller, agents and first-in first-out streams in one module,
   with `Controller`'s message environment as its abstraction.
3. Proofs: the step from `System` to the message environment of `Controller`,
   and what the counters of a program say on a block that is not fresh.
