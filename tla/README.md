# Formal model of the CWSandbox TypeScript SDK

TLA+ specifications of `packages/cwsandbox` (the SDK `@coreweave/cwsandbox`), TLC
models that check them on small instances, and TLAPS proofs of their safety
properties for every value of the constants. Paths below are relative to
`packages/cwsandbox/src/`; `README.md` with a line number is the package's own
`packages/cwsandbox/README.md`.

```
tlc -workers 2 -config MCAsyncQueue.cfg MCAsyncQueue.tla     # one run
tlapm AsyncQueueProofs.tla                                   # one module of proofs
```

`PROJECT.json` lists the runs, the source lines each definition stands for, a
plausible bug (a mutant) that each property catches, the hazards, the findings
and the theorems.

## 1. The system

The SDK is a client library. It has no threads and stores nothing: its
concurrency is that of asynchronous code, where one task at a time runs from one
`await` to the next, and everything the task looked at may have changed when it
goes on. Around it are a server that loses, delays and repeats answers, users
who call several methods of one object at once and abort any of them, and
timers.

| Component | State | Operations | Interacts with |
| --- | --- | --- | --- |
| **Channel pool** `transports/node-grpc/direct-data-plane.ts` `DirectChannelPool` | the Map of entries in order of use; per entry a lease counter, `closed`, `discardWhenIdle`, a shared readiness promise | `acquire`, `release`, lease `discard`, `discard(key)`, eviction | one per process; every direct call of every client leases from it |
| **Direct data plane** same file, `DirectDataPlane` | per client a Map of sandbox states: cached credential, request under way, cool-down | `acquire` (auto, direct, gateway), `discardSandbox`, `trimStates` | the credential RPC, the pool, the callers' signals and timeouts |
| **Async queue** `streaming/async-queue.ts` | items, parked producers, parked consumers, end | `push`, `tryPush`, `next`, `close`, `fail` | the output of every command, shell and log stream |
| **Streaming command** `streaming/command-process.ts`, `transports/node-grpc/command-stream.ts`, `exec-session.ts`, `stdin-ready-gate.ts` | process status and outcome, accumulated output, chain of stdin operations, gate, duplex call, lease | start, dispatch of frames, `write`, `close`, `cancel`, `wait`, ready timer, abort | queue, data plane, server |
| **Log stream** `streaming/log-stream.ts`, `transports/node-grpc/log-stream.ts` | line buffer, end, settled error, lease | dispatch of entries, `cancel`, `close`, abort, the reader's `next` | queue, data plane, server |
| **Terminal session** `streaming/terminal-session.ts`, `terminal-stream.ts` | as a command, with one output queue that blocks | `write`, `resize`, `close`, `cancel`, `wait` | queue, data plane, server |
| **Sandbox handle** `sandbox.ts`, `runtime/wait.ts` | last status, kept exit code, the shared stop's promise | `wait`, `inspect`, `stop`, `delete` | server; all users of the handle |
| **Client** `client.ts` | none of its own | `create`, `run`, `withSandbox`, `fromId`, `list` | handle, server |
| **Unary calls** `transports/node-grpc/grpc-transport.ts`, `retry-*.ts`, `internal/retry-transient-rpc.ts` | attempts, budget, deadline of the call | `get`, `stop`, `exec`, `create`, `list` with their retries | data plane, server |
| **File transfer** `runtime/file-transfer.ts`, `runtime/files.ts`, `transports/node-grpc/file-adapter.ts` | attempt, lease, deadline, collected frames, a size cap learned from refusals | read, write, streamed forms, batches, fallback to a command | data plane, exec session, server |
| **Snapshots** `runtime/snapshot*.ts` | deadline, request id, retry budget | capture, get, inspect, list | server |
| **Network configurations** `runtime/network-config.ts`, `sandbox.ts` `updateNetwork` | etag, id known to the handle | read, then write pinned to the etag | server, other writers |
| **Listing** `runtime/list-all.ts`, `sandbox-list.ts` | page token, pages, deadline | iterate, collect | server, its consumer |
| **Validation and mapping** `internal/validation/`, `internal/network.ts`, `transports/node-grpc/mappers.ts` | none | options to requests, rules both ways | every call |
| **From-file contents** `internal/from-file-contents.ts` | file handle, timer, listener | read a path up to a cap | caller's signal, file system |
| **Errors** `transports/node-grpc/error-info.ts`, `errors.ts`, `internal/error-info.ts` | none | parse details, map, decide | every retry, the data plane |
| **ComputeSDK provider** `../../cwsandbox-computesdk/src/index.ts` | per config: one client promise, one owner tag | `create`, `list`, `destroy`, `getUrl`, commands, files | client, handle |
| **Others**: W&B credentials, TanStack adapter, type declarations, grpc-js channel | none | - | - |

What makes each of them hard, and what makes it correct:

- *Pool.* The lease is counted before the caller awaits the channel; meanwhile
  others release, discard and evict. Correct: no channel closes under a caller,
  no channel is left open and forgotten, counters are exact, the idle bound
  holds, the oldest idle channel goes first.
- *Data plane.* A credential request is shared by callers with different
  deadlines; its state may be dropped or trimmed while it is under way; a new
  credential must push out the channels of the old. Correct: one request per
  state, and per sandbox while its state is not dropped, only current channels in the pool, nothing left of a deleted sandbox,
  every acquisition ends.
- *Queue.* A woken producer is not a running one: another may take its place and
  the stream may end before it resumes. Correct: order, no loss, no lost
  wake-up, a final end.
- *Command.* `cancel()`, an abort, the last frame, the ready timer and the user's
  writes race; output may never be read. Correct: one outcome, all bytes counted,
  stdin in order behind readiness, no call and no lease left behind.
- *Log stream.* Every line is an awaited push, so an end can fall between two
  lines of one entry, and a closing flush is a second producer. Correct: no gap,
  no repetition, whole lines, a quiet cancel, an end that reaches the reader.
- *Handle.* Answers of `wait`, `inspect` and `stop` arrive out of order; a Delete
  that was carried out may be repeated; the record of a stopping sandbox comes
  and goes. Correct: a resolved `wait` shows what it waited for, a resolved
  `stop` means the sandbox ended, an exit code is not forgotten, a failed `run`
  leaves no sandbox behind.
- *Unary calls and files.* A write may be repeated on another runner or through
  the gateway. Correct: it is applied at most once, within the caller's time,
  and every lease is given back.
- *Terminal session.* Output waits for its reader, and behind it the exit and the
  end of the call; `resize()` waits for the gate beside the queue of writes.
  Correct: no output lost before an exit, one end for all observers, a session
  that settles although the reader stops.
- *File streams and batches.* A collector of frames runs beside a reader that
  stops or a source that fails; the workers of a batch share an index and a cap.
  Correct: a resolved transfer is whole, every failure settles and ends its call.
- *Snapshots, listing, create.* Several RPCs, each with retries of its own, inside
  one deadline; a request whose answer was lost may have been carried out.
  Correct: created once, in time, every page once.
- *Network configurations.* A read-then-write update against other writers.
  Correct: rules this SDK cannot represent survive it, and the caller's etag
  means the version the caller saw.
- *Mapping and errors.* Tables of several files that must agree. Correct: an
  accepted option is sent, rules survive a read and a write, and one failure
  means the same to every layer that looks at it.
- *From-file contents.* Each `await` may be interrupted, and `open()` before the
  listener is there. Correct: nothing is left open or armed, the contents are
  whole, and an abort is reported as an abort.
- *Services of a handle.* Answers may omit an address and arrive in any order. Correct: an
  address lasts as long as its service and is the latest told; URLs are of the last answer.
- *Provider.* Overlapping first calls share what is made once. Correct: its own
  sandboxes are found again by tag; the poll for a URL ends with its time.

The hazards in `PROJECT.json` say where each of these bites.

## 2. The modules

| Module | Models | Composed of |
| --- | --- | --- |
| `DirectChannelPool` | the pool, an action per operation | - |
| `ChannelLifetime` | abstract: what a borrower of a shared channel relies on | implemented by `DirectChannelPool` |
| `DirectDataPlane` | credentials, modes, retries, deletion, trimming | `INSTANCE DirectChannelPool`, its own map of states |
| `AsyncQueue` | the queue | - |
| `LogStream` | the loop, the line cutter, two ends, one reader | `INSTANCE AsyncQueue` |
| `CommandSession` | one command from start to the release of its lease | keeps only the length of the live queue |
| `TerminalSession` | one shell from start to the release of its lease | `INSTANCE AsyncQueue` for its output |
| `DataCalls` | one `exec()` or file operation: leases, repeats, retries, overflow, fallback, times | leases as counters |
| `FileStreams` | the streaming command that carries one file: collector, reader or source, server | - |
| `FileBatch` | the workers of a batch of files, the size cap, the choice of transport | - |
| `SandboxLifecycle` | handle, waits, shared stop, `run`, `withSandbox`, server | - |
| `ControlCalls` | create under a capacity budget, snapshot capture and inspection, listings, with a clock | - |
| `NetworkConfigUpdate` | overlapping updates of a stored configuration beside a foreign writer | - |
| `NetworkRules` | rule lists to the wire and back, edits included | - |
| `CreateRequest` | options of the three ways to create: refused, sent, remembered | - |
| `ContainerParts` | variables, secrets, files, volumes, services and resources of a container: refused, sent | - |
| `ContentsRead` | the interruptible read of a from-file path | - |
| `ErrorMapping` | details of a status, class of the error, verdicts at both layers | - |
| `ComputeProvider` | shared client and owner tag of a provider config, `create`, `list`, `destroy` | - |
| `SandboxView` | a record's services mapped and merged into what the handle shows | - |
| `ServiceUrl` | the poll of `getUrl()` | - |
| `<module>Proofs` | inductive invariant and theorems of the module | extends it |
| `OutputStreamProofs` | the same of `LogStream` and `TerminalSession` | extends `MCOutputStreams`; `INSTANCE AsyncQueueProofs` for either queue |
| `DataCallsProofs` | the same of `DataCalls`, `FileStreams`, `FileBatch` | extends `MCDataCalls` |
| `ControlPlaneProofs` | the same of all that `MCControlPlane` puts side by side | extends it |
| `MC*` | instances for TLC | extend the module |

Three MC modules put components side by side that share no state, so that one
run covers each: `MCOutputStreams` (log, shell), `MCDataCalls` (calls, one stream, a
batch), `MCControlPlane` (calls, updates, errors, rules, options, parts,
contents, services shown, provider, URL). A behaviour belongs to one component; the others keep one fixed
initial state, so that the run is the union of the models and not their product.
`TerminalSession`, `LogStream` and `DirectDataPlane` are compositions proper.

Conventions. An action is one synchronous stretch of code, from one `await` to
the next, with every call made in it. Inputs are `\E` over small sets. Names are
those of the source. A promise that was resolved only schedules its
continuation: what continues is a later action and other actions may come
first. The exception is where the code's order is fixed by the microtask queue
against a network event or a timer: `DirectDataPlane` says with `Quiet` that
what a settled promise triggers runs before the next such event. The callers' own
code (an `acquire()`, an abort, a release) may come in between.
Variables the code does not have record history; each module's header names
them. The server, grpc-js and the readers are actions without a line in `src/`
(external in the map).

**DirectChannelPool.** `entries` and `older` are the Map with its iteration
order, `activeLeases`, `closed`, `discardWhenIdle` and `ready` the fields of an
entry. A lease is a call of `acquire()`: `AcquirePooled`, `AcquireNew` and
`AcquireThrows` are its synchronous part, `Connected` and `ConnectFails` what
follows the readiness wait (which can also fail for this caller alone, by its
timeout or signal), `ReleaseHeld` and `DiscardLease` what its owner does, `DiscardKey`
what the data plane does. Each release evicts in the same step.

**DirectDataPlane.** A caller is one `acquire()`: `AcquireFirst` and `AcquireKnown`
create or touch the state, join or start the request; `IssueSettles` is the
answer; then `Connect`, `Ungranted`, `RetryLater`, `IssueFails`, `IssueRefused`,
`CredentialTimesOut`, `Aborts` are the ways on, by mode and error. Keys are issued
credentials. A `SandboxState` object is a value of its own, because
acquisitions go on using one that left the Map.

**AsyncQueue.** `Push` runs `push()` up to its first wait, `Resume` the loop after
a wake-up, `NextTakes`, `NextEnds`, `NextWaits` the three ways of `next()`, `End` both
`close` and `fail`.

**CommandSession.** `ServerSends`, `SignalAborts` are the environment; `Receive` the
frame generator; `Dispatch*` the process object; `FinishRequests` and
`SettleLease` the end of `dispatchSessionFrames`; `Write`, `CloseStdin`, `BeginOp`,
`SendOp`, `SendFails`, `CompleteClose` the chain of stdin operations; `GateTimeout`
and `GateFailed` the gate; `Cancel`, `Waiting`, `WaitAnswered`, `ConsumerTakes` the user.
Standard output and error are treated alike and are one stream; a chunk is its
size.

**SandboxLifecycle.** Every RPC is two steps, the server's answer from its state at
one moment (`Responds`) and the handle's use of it at a later one, so answers
cross. `Wait` is `waitForSandbox` with the grace polls for an exit code, `Stop` the
shared shutdown (lookup, Delete with retries, terminal polls with a not-found
window), `Call` the callers of `stop()` and the owners `run()` and `withSandbox()`.
The server moves a sandbox on, ends it, hides its record, stamps an exit code late
and forgets it. The clock is the two facts the code asks of it. `recorded` is history:
whether the exit code was stamped when the wait last asked.

**DataCalls.** One operation at a time, with a clock. `Acquire` starts a lease wait that
`Leased`, `Ungranted` or `AcquireFails` end; `Fails` is the answer to a call, of any kind,
with or without a hint, and either goes to sleep (`Retries`) or leaves the pass:
`Again` on another lease after a runner that retires, `Overflow` to the gateway after
one that is overloaded, `Fallback` to a streaming command for a file too large, or
`GiveUp`; each of the four gives the lease back, as the `finally` of the source does.
`Wakes` and `BackoffAborted` end a sleep, `Chunk`, `Succeeds` and `Abandons` a stream.
The size of a file is in the kind of answer: `tooLarge` for one that a command may
carry, `oversize` for one above that limit. A refusal comes before the server runs
the call; after any other failure the call may have run.

**LogStream.** A log is a sequence of one-byte pieces; a line, a chunk and the line
buffer are ranges of it, so gaps and repetitions are visible. `ReceiveData` cuts
an entry, `LinePushed`, `RawPushed`, `LongPushed` go on after an awaited push,
`StreamEnds`, `StreamFails`, `Flushed`, `Settle` end the loop, `EndBegins`, `CancelEnds`,
`CloseFlushes`, `CloseEnds` are `cancel()` and `close()`.

**TerminalSession.** `ReceiveOutput`, `PushReturns`, `ResumePush` and the other steps of
`LoopStep` are the loop, whose output goes through the queue with back-pressure,
`Settle` the release of the lease. `Write`, `CloseStdin` and `Resize` are the input,
`BeginOp`, `SendOp` and `SendResize` its way to the wire, and the gate that holds it back may
fail by its timer (`GateFails`, then `OpRefused` and `ResizeRefused`). `StopReading` is a user
who leaves the output unread.

**FileStreams.** Two sides. The collector (`Collect`, `PushGoesOn`) takes frames and
pushes chunks into a bounded queue; the caller's side reads them (`ReadChunk`), or
obtains chunks from the user's source and writes them (`SourceGives`, `Write`), comes to
a `Verdict` and ends in `CleanupEnds`. A chunk may be lost; the size check
of a read compares with the size learned before. A write that is sent before the
server attached stdin is dropped by the server, which the gate prevents.

**FileBatch.** `Take` claims an index and `Begin` chooses the transport; `Carried`, `TooLarge`,
`LooksTooLarge` and `TransferFails` are the ends of a unary call or a stream; a refusal for
the size names the cap that later files look at.

**ControlCalls.** `op` chooses the call. `Send`, `RpcFails`, `Backoff`, `Wake` are the two retry
helpers, `FirstAttempt`, `Poll`, `IntervalEnds` the capture, `AfterPage`, `Resume` the listing. The
server carries a request out and its answer may be lost (`Serve`, `carried`).

**NetworkConfigUpdate.** Per updater a request is taken up by the server at one step
and answered at a later one; the stored configuration has a version, its etag,
and the lists that hold rules this SDK cannot represent. Every answer shows an etag
(section 3, what is assumed of the server).

**NetworkRules**, **CreateRequest** and **ContainerParts** build every list and set of options up to a bound,
one step each, and pass it through validation and mapping. `Meaning` says what a stored
rule grants; `OptionsSent` compares the caller's options with the request field by field, and
`PartsSent` the parts with what the container then sees. A path is its segments and how it
is spelled.

**ErrorMapping.** `ParseDetail` goes through the details of a status as the parser does;
`MapGrpcError` gives the class and the fields; the verdicts are the predicates that
retries, the data plane and the fallbacks ask, on the raw and on the mapped error.

**ContentsRead.** An action per `await` of `readCappedFilePath`, with `Interrupt` between any two.

**SandboxView.** The server gives a record (`Gives`), whose rows may omit a visibility, an endpoint,
an address or a URL, and the handle takes it up at a later step (`Applies`), so that answers cross.
`ServiceUrls`, `ServiceAddresses` and the like are the mapping, `Updated` the merge into the
metadata, field by field as `updateMetadata` spreads them.

**ComputeProvider, ServiceUrl.** A call waits for the config's client, resolves its tag, is
served and answered. The URL poll has a clock.

## 3. What the runs show

Deadlock is not checked where the program may
simply come to rest (a released pool, an ended stream, a finished call). The two lifecycle runs
check it: `SandboxLifecycle` has a `Quiet` step for the states in which everything
is settled, so any other halt would be a caller that hangs.

| Run | States | Shows |
| --- | --- | --- |
| `pool` | 127 k | `ChannelsHeld` (no channel closes in use, none leaks), `OldestEvicted`; condemned channels close (`DiscardedEventuallyClosed`); the pool implements `ChannelLifetime` (`ImplementsLifetime`) |
| `plane` | 758 k | `PooledIsCurrent`, `StatesShared` (one request per state, one per sandbox while its state is not dropped, the Map's bound); every acquisition ends (`AcquireEnds`) |
| `queue` | 7.8 k | `StreamWhole`, `PushReturns` |
| `command` | 391 k | `OneOutcome`, `ResultComplete`, `StdinKept`, `LeaseOutlivesCall`, `CallEndSettles` |
| `calls` | 0.5 M | of a call `AppliedOnce`, `WithinBudget`, `ChunksOnce`, `OperationEnds`; of a streamed file and a batch `FilesWhole`, `FailureSettles` |
| `logs` | 335 k | of a log `LogWhole` and `EndReachesReader`; of a shell `ShellWhole` (no output lost before an exit, one end for everybody) and `CallEndSettles` |
| `stop` | 199 k | `StoppedMeansEnded`, `MissingIsReal`, `NoOrphan`; every wait and every shutdown ends (`CallsEnd`) |
| `wait` | 3.5 M | `ResolvedWaitMeetsTarget`: the status meets the target, and the exit code is shown if the server had it when the wait last asked |
| `control` | 1.4 M | of a call `CreatedOnce`, `WithinDeadline`, `PagesOnce`, `CallEnds`; of updates `ForeignRulesSurvive`, `EtagHonoured`; `VerdictsAgree` of errors, `RequestKept` of options and rules, `ContentsKept` of from-file contents, `HandleShows` of the services a handle shows, `ProviderKept` of the provider and its URLs |
| `command_cancel` | | finding: `CancelEndsCall` is violated |
| `log_repeats` | | finding: `LinesOnly` is violated |
| `log_close_hangs` | | finding: `CloseReturns` is violated |

### Findings

Three places where the code does not do what the package's README says.

1. `command_cancel`: `process.cancel()` "cancels the client-side streaming call"
   (README.md:473). Without stdin there is no input to cancel: `wait()` rejects,
   the call goes on and its lease stays held until the server ends it.
2. `log_repeats`: "Log streams are line-oriented" (README.md:533). `close()` between
   two pushes of the loop flushes a buffer that still holds lines already
   pushed, as one item.
3. `log_close_hangs`: README.md:488-493 awaits `logs.close()` in the body of the
   reading loop. With a full queue and a buffered partial line, `close()` waits
   for room only its caller can make.

### Other behaviours the models show

The first three are about points the package's README also speaks of; the others
contradict no statement of the repository. No run is about them.

- `readStream({ timeoutMs })` is "one wall-clock" from the start of the iteration
  (README.md:585-587): in `DataCalls`, as in the code, the lease wait comes before
  the clock (`StartCalls`) and a second attempt after a retired runner starts it
  again (`PassEnd`).
- A unary read or write repeated after a retired runner gets the whole `timeoutMs`
  again and counts up to three calls of its own on another runner; README.md:1465-1474
  and 1477-1485 say that retries stay within the time. `WithinBudget` therefore bounds
  each pass, and all passes together only where the source does: `exec()` and the
  overflow to the gateway.
- `stop({ missingOk: true })` treats "already gone" as success (README.md:1433). When
  the sandbox goes between the lookup and the Delete, `allowMissing` hides that,
  the poll never sees a terminal state, and the tolerant caller gets
  `CWSandboxTerminalStateUnavailableError`.
- A `ready` frame dispatched after `cancel()` sets the status back to `running`.
- `truncated` is raised by an empty chunk when the result is exactly at its limit.
- `waitPromise` of a command nobody waits for rejects unobserved after `cancel()`.
- An acquisition that waited for a credential when its sandbox was discarded goes
  on to put a channel of it into the pool; `PooledIsCurrent` names these
  (`raced`).
- With more producers than places the queue could lose a wake-up; the SDK has at
  most two producers and 64 places (the assumption of `AsyncQueue`).
- After `stop()` resolved, an answer given earlier may set the handle's status back.
- A `stop()` whose signal is already aborted starts the shared stop and leaves its
  promise unobserved.
- An abort during the grace sleep rejects a `wait()` although `completed` was seen;
  during the grace poll it resolves.
- A tolerant `stop()` whose lookup hits a hidden record resolves while the sandbox
  may still be terminating.
- `offset` and `sessionId` of a log stream are ahead of what its reader got; a
  resume from them skips the other lines of the same entry.
- The collector of a streamed write rejects on an error frame while the user's
  source is still being read; the rejection is unobserved until the source
  yields, and a source that never yields hides the server's exit.
- A streamed write to a directory fails with `FILE_IO_FAILED` only if the command's
  exit arrives before the last chunk is sent.
- `timeoutMs` of the inspection of a snapshot bounds each RPC; retries go on up to
  their own budget of 30 s. The readiness check before a capture is outside of
  `timeoutMs`, and the deadline of a page iterator includes its consumer's time.
- Overlapping refreshes of a handle may leave it with the older answer.
- `list({ status: "creating" })` asks for one of the two states that read back as
  `creating`.
- `inspect()` of a paused sandbox whose record still carries an address returns that address,
  although the handle drops it. Exposed ports stay when a later answer lists none. A record
  in a state this client does not know rejects the call, as does a list page with one.
- `isFileTooLargeReason` does not look at the error's domain, as the other predicates do. A gRPC
  `NOT_FOUND` with another reason of the service is a missing sandbox on the raw
  status and another error when mapped; `VerdictsAgree` makes the exception.
- Volumes may be mounted inside one another, and two mounted files may be one path in two
  spellings. An endpoint's `kind` is checked without regard to case and sent with it: an
  untyped caller's `"TLS_PASSTHROUGH"` passes the check and fails in the mapping.
- `run({ containerImage: "" })` sends no image in place of the default. `network: {}`
  replaces a template's network by an empty one; `run()` leaves it out.
- `timeoutMs` of `runFromFile()` bounds the read of the path, and the create after it a
  second time; `open()` and `stat()` that hang are not bounded. An abort during
  an `open()` that then fails is reported as that failure.
- A provider config whose client could not be made keeps the rejected promise:
  every later call of that config fails too. The last sleep of `getUrl()` ends at
  the deadline and is not followed by an inspection. A sandbox that is being
  created is shown as `stopped` by `getInfo()`.

### Bounds, and why they are enough

- `pool`: 2 keys, 3 channels, 3 leases, room for 1 idle channel. Three leases give
  two callers on one channel while a third evicts; three channels let a key be
  discarded and made again while the old channel drains. Model values stand for
  identities, and no identity is compared by order.
- `plane`: 2 sandboxes, 2 states, 2 keys, 2 channels, 2 callers, `MaxSandboxStates`
  = 1, one idle channel, one retry. A Map of one state makes trimming happen with
  every second sandbox, also while its state has a request under way. A second request
  for one sandbox comes about after a deletion; after its new state was trimmed it would
  take a third state and key, which are beyond the run, and `StatesAreShared` covers them.
- `queue`: 2 producers, 2 calls of `next()`, 2 places, 3 pushes each: full, empty
  and hand-over all happen, and a woken producer can lose its place.
- `command`: 2 frames before the last, 2 stdin operations, chunks of 0 and 2 bytes
  against a limit of 1, live queue of 1: empty, cut and dropped chunks, and a
  close behind a write.
- `calls`: a unit of time is 2.5 s, so that the five seconds a retry needs are 2,
  the second the overflow needs is rounded up to 1, a lease wait takes up to 1 and
  the longest accepted hint is 3. `timeoutMs` of 1 is too short for any retry, 5 leaves
  room for one or two; hints of 0, 1 and 4 are taken at once, after a wait, and
  refused. A sleep wakes up to 2 late (`MaxLate`), which the reserve covers; a later
  one would leave the pass. Two chunks: an error before, between and behind them.
  A streamed file has up to 4 chunks, a queue of 2 (full with chunks to come) and
  a size check from 2 chunks on (`CheckMin`), so files below and above it. A batch has 3
  files and 2 workers, sizes around the default cap of 2, the caps 1, 2, 3 a server may
  name, and the limit 4 of the stream; 5 is too large for either.
- `logs`: 5 pieces, entries of at most 3, a buffer of 2, a queue of 2: lines longer
  than the buffer, entries of several lines, a full queue with the loop and the
  flush both waiting. The queue's bound on pushes is the length of the log. The shell
  has a queue of 1 place, 2 outputs, a server that is 2 messages ahead of the loop, and
  1 operation of input: the second output waits for the reader with the exit
  behind it, and a write, a close or a resize meets each of these.
- `stop`: two user stops, one of them tolerant, with cleanup and disposal; 2 failed
  RPCs, so that a retried Delete can follow a failed one; sandboxes that end as
  terminated or with an unspecified status. A Delete is sent at most `MaxAttempts`
  times, as in the code.
- `wait`: one user wait over three targets, one inspect, the disposal's stop, 1
  failed RPC. `GracePolls` is the code's.
- `control`, calls: an RPC takes up to 3 (`RpcTimeout`), is not begun with less than 2 left
  (`MinRpc`), polls are at most 2 apart, a budget for capacity is 0 (none) or 4, a call has 3
  units or the budget of its polls; timers are up to 1 late. `Slack` is what the
  assumption of the module asks for, no more. Three tokens and 3 pages: a token may be
  repeated at once or later, and the limit of pages is met.
- `control`, the rest: two updaters and a foreign writer over 3 versions (each may come
  between the read and the write of another); 2 details per error, as the first and a
  conflicting second; rule lists of 2 with 1 edit; 3 options given together; 3 parts of a
  container (2 services), with paths above, under, beside and equal to one another and one in
  another spelling; a file one
  byte above the cap; a TLS service that is given 2 addresses, an HTTPS one, each by itself (both at once would
  pass the time of the run, `HandleDoesShow` covers every set), 3 answers of which 2
  overlap; one provider config with 2 callers, 4 calls and 2 sandboxes, so
  that both callers start before the client exists; a URL poll of 5 units every 3, so
  that the last sleep is cut.

The bounds on pushes, frames, operations, log and faults are guards of the actions
that add one; there are no state constraints.

### What is assumed of the server

The server and grpc-js may fail, delay, lose and reorder as the actions say. Beyond
that the models assume, each where its module says so:

- a sandbox that still runs is never reported with the state `UNSPECIFIED`, which `wait()`
  takes for completed (runtime/wait.ts:140); a status this client does not know rejects the
  call (mappers.ts:1220) and is left out of `SandboxLifecycle`;
- the exit or error response of a streaming command is the server's last and ends the call.
  The client gives the lease back behind that response, so `LeaseOutlivesCall` rests on it;
  closing the request side does not fail (`CompleteClose`);
- every network configuration is shown with its etag. After an answer without one,
  `updateNetworkConfigRecord` would write unpinned (runtime/network-config.ts:183), and
  `ForeignRulesSurvive` would not hold;
- a service row that shows an address has a visibility. A row without either
  is not exposed (mappers.ts:1128), and the handle drops the address it kept for it
  (sandbox.ts:594-617), as `SandboxView` does: an address is kept while its service is exposed;
- `list()` of the provider asks for active sandboxes, and in `ComputeProvider` none ends by
  itself: `ProviderKept` is about those that have not ended.

### Fairness

Weak fairness only, and only of what the event loop, a timer or a server that
answers provides:

- continuations of resolved promises (`Resume`, `Receive`, `Dispatch`, `Settle...`,
  `LoopStep`, `StreamClient`, `OwnerSteps`, `CallerSettles`): the event loop runs what is
  scheduled;
- timers the code sets: the readiness timeout of a channel, the credential timeout,
  the ready gate's timer, a wait's deadline, the deadlines and sleeps of
  `ControlCalls` (`Timer`, which includes the passing of time);
- for the pool, that a caller ends its stream at some time (`ReleaseHeld`), which
  `DiscardedEventuallyClosed` needs;
- for an operation with `timeoutMs`, its timer, the end of the lease wait (which has
  a budget of its own) and the end of a backoff; the server need not answer;
- for the lifecycle, that the server answers or the call fails, that a
  terminating sandbox ends, and that the not-found window expires, which is a fact of the
  clock. The lookup and the Delete of the shared stop carry no
  deadline (sandbox.ts:322-345), so this is an assumption about the server and the
  connection: `NoOrphan` does not hold against a call that is never answered;
- for the queue, the logs, the shell and a streamed read, a consumer that keeps
  reading. A shell's consumer may instead stop for good by `StopReading`, and what
  `CallEndSettles` promises then is in its definition. `CallEndSettles` of a command does
  without a reader.

No fairness for the users' calls, for aborts, for frames the server may send, for
a credential request that is answered (its callers time out), for a user's source of
chunks, or for a running sandbox that ends by itself. `NoOrphan` and `CallsEnd` run under
`FairSpec`; the other lifecycle properties are safety and run under `Spec`.

## 4. What is proved

TLAPS, for all values of the constants, from the named assumptions of each module.

| Module | Theorems | Assumptions |
| --- | --- | --- |
| `DirectChannelPoolProofs` | `TypeCorrect`, `ActiveStreamsSurvive`, `NoLeaks`, `PoolBounded`, `LeasesExact`, `PoolUsable`, together `ChannelsSafe`; `NoReinsertion`, `EvictsOldest`, `LifetimeImplemented` | the idle limit is a natural number; `None` is no entry |
| `DirectDataPlaneProofs` | `TypeCorrect`, `PoolCurrent`, `StatesAreShared` | the limits are natural numbers, finitely many callers, `None` is no object |
| `AsyncQueueProofs` | `TypeCorrect`, `WakeupsSuffice`, `StreamKept`, `QueueSafe`, `EndStands` | a positive capacity, no more producers than places |
| `OutputStreamProofs` | logs: `TypeCorrect`, `LogIsWhole`; shells: `ShellTypeCorrect`, `ShellIsWhole` | the bounds are natural numbers, a log's queue has two places, a shell's one |
| `CommandSessionProofs` | `TypeCorrect`, `OutcomeAgrees`, `ResultAccounts`, `LeaseSafe`, `StdinOrdered`, `StdinSafe` | the constants are natural numbers or sets of them |
| `DataCallsProofs` | `CallTypes`, `CallsApplyOnce`, `CallsKeepTheirTime`, `ReaderGetsChunksOnce`; `FilesArriveWhole` of streamed files and batches | times and hints are natural numbers, at least two calls, a sleep is late by no more than the reserve; sizes, caps and places are positive, finitely many workers |
| `SandboxLifecycleProofs` | `TypeCorrect`, `StoppedSandboxEnded`, `AppliedStopNeverMissing`, `GapsBridged`, `MissingReportsReal`, `WaitMeetsTarget` | the actors are distinct and finitely many, the targets and ends are statuses |
| `ControlPlaneProofs` | calls: `ControlTypes`, `CreateOnce`, `CallsKeepTime`, `PagesKept`; updates: `UpdateTypes`, `ForeignRulesKept`, `CallersEtagHonoured`; `VerdictsDoAgree`, `RequestIsKept`, `ContentsSafe`, `HandleDoesShow`, `ProviderIsKept` | times are natural numbers, `Slack` exceeds a poll interval, a late timer and two prompt answers; finitely many updaters; random tags differ from the configured ones; normalising a path twice changes nothing more |

The arguments:

- *Pool.* No property is inductive alone. A counter of zero closes a channel, so
  `ActiveNeverClosed` needs the counter to be exact, and that needs the entry a
  closure captured to be a real one. `IInv` adds: a closure's entry was made, under
  its one key (`LeasesKnown`, `OneKeyPerEntry`); unmade entries are untouched;
  closing follows the counter (`ClosedByCount`); the map is finite, so that the
  idle bound can be counted when a release evicts (`EvictionBounds`).
  `LifetimeImplemented` maps an entry to its stage and a lease to the entry it
  uses: making and joining are `Borrow`; everything else retires channels nobody
  uses, or stutters.
- *Queue.* `NoLostWakeup` says there are at least as many buffered items as parked
  producers, each of which will wake one. It is preserved by parking because a
  full queue has `Capacity` items and fewer producers than that are parked already
  (`ParkedFewer`, from the assumption and `ParkedOnce`). `InOrder` needs that numbers
  in the stream are below the number of a pending push (`Numbered`), and that a
  waiting consumer means an empty buffer (`WaitersMeanEmpty`). For the same reason
  nobody is told of the end before the buffer is empty (`EndTold`).
- *Data plane.* The invariant of the pool comes with it: `P` is `DirectChannelPoolProofs`
  under the names of the plane, and each step of the plane is one of the pool or leaves
  it alone. `PooledIsCurrent` needs that a pooled key is the one its state caches
  (`PooledAreOwned`); that holds when an acquisition goes on because the credential it
  waited for is still cached (`WaitsAreCurrent`), whose state is in the Map unless
  somebody dropped it (`NeededAreKnown`). A request and its state know each other
  (`RequestsMatch`), which is the sharing of a state; as the Map has a sandbox's
  state under that sandbox (`MadeFirst`), two acquisitions of it that were not overtaken have
  one state, and so one request.
- *Log.* A line is a range, and the proof is about ranges: what the loop has pushed
  ends at the `Frontier`, what it holds begins there, and the rest of the entry follows
  (`SplitWhole`). A line that is cut ends at the least newline of its range (`Least`, by
  the library's fact that the natural numbers are well-founded). `InStep`: as long as nobody flushes, the queue's stream is
  the loop's pushes, whole until it closes; with `EndsAgree` an end that nobody asked for
  comes behind the last push.
- *Shell.* The same fact about its queue, `InStep("loop")` of `AsyncQueueProofs`, and a
  count: an output frame is pushed or still unread (`ResponsesInv`). Nothing but the
  status of the call comes behind an exit, and the loop does not read while it
  pushes (`ShellLoopInv`), so at an exit all output is in the stream, and what is closed
  stays so. `ShellEndInv` ties the outcome to the queue's end, `ShellGateInv` refused input
  to the end of the call.
- *Command.* `CallInv` follows the last frame through the generator, the loop and
  the lease; `StdinInv` equates what is on the wire with what has resolved, with a
  close message between its two halves as the one exception; `HeadInv` says the
  operation under way is an accepted one. `BytesInv` is the sum over the frames under
  way without a recursive sum: there is a function of running totals that begins
  with what the accumulator has and ends with what the server sent; receiving a frame
  shifts it, sending one extends it.
- *Calls.* `TimeInv` gives each place its timer and relates the timers: a lease wait of
  a repeated `exec()` and the overflow end with the deadline, and a sleep ends early
  enough to be late. `RunInv`: a command or write that is under way has not run, as
  every failure that leads to another call is a refusal. `ReadInv`: the reader has
  exactly what this pass has read, as a pass is repeated only if it has read nothing.
- *Files.* `StreamInv`: chunks grow on their way from the frames through the queue to
  the reader (`FramesInOrder`, `LineInv`), so as many chunks as the file has are the
  file; on the other side stdin received what the source gave as long as the call
  is open (`StdinInv`), and an exit with 0 comes from a script that has done its work
  (`ExitInv`). `BatchInv`: an index is claimed by one worker (`FilesOwned`), and a
  worker that may still be refused is one more refusal to come (`RefusalsLeft`).
- *Lifecycle.* `StopInv` relates the shared stop's place and the answer it holds to
  the server: an answer of a terminal status implies an ended sandbox although the
  answer is old; a first Delete that is pending or was answered "not found" was
  not carried out; an open window has seen a miss. `WaitInv`: a wait asks again
  for an exit code only if `completed` satisfies its target, which is why whatever
  another call stores in the handle meanwhile does not matter when it resolves. `CodeInv`:
  a wait that asks when the code is recorded is answered with it and does not sleep for
  it again.
- *Control calls.* `OnceInv`: a create that was carried out is settled or its answer is
  on the way, so nothing repeats it. `ClockInv`: every wait ends inside the deadline and
  the budget (`TimeInv`), and an observation of a capture that does not show the archive
  was sent by the time the archive was due (`SlackInv`), so that `Slack` leaves room for
  one more. `PageInv`: the pages the consumer has form a chain of tokens without
  repetition, and the token under way is not among them.
- *Network configurations.* A write is pinned to the etag of a read that saw no
  foreign rules in the lists it replaces, or to the caller's; the server carries it
  out only at that version, and a version never changes its contents.
- *Contents.* `ContentsSettled`: a handle is open only between `open()` and `close()`, no
  way to settle leaves that stretch but through the close, and the timer goes when the
  promise settles. `ContentsWhole`: what has been read is a part of the file and within
  the cap, and a read that returns has come to the end of the file.
- *Errors.* `Scanned`: the parser has kept the first detail of each kind of those it is
  past, all of which decode; or one did not, and nothing is kept (`Spoiled`). Both readers of
  a failure then see one reason, one domain and one delay.
- *Requests.* What is accepted and sent is a function of the options or parts
  (`RequestInv`, `PartsInv`); the work is in the lemmas about those functions: a field
  is on the wire once, under the name it has there, and the places of what a
  container mounts are apart. For rules, `RulesInv` says that a rule the client shows
  it also takes back (`GoesBack`) and that the rule written then means the one read.
- *View.* `AddressesLatest`: the handle shows the address it was last told of each service.
- *Provider.* A sandbox that `create()` has answered or will answer is on the server
  under the config's tag until somebody destroys it (`MineStored`, `ArrivingStored`),
  and a config gets one tag before its first request (`TagKnown`). `UrlInv`: an
  inspection without a URL was answered before one was assigned.

`ControlPlaneProofs` and `DataCallsProofs` prove each invariant over the steps of its own
component; the others leave its variables alone. The proofs that reuse another
module's invariant take it through `INSTANCE ... Proofs WITH`, after showing that its
assumptions follow.

### Only model-checked

Liveness: `DiscardedEventuallyClosed`, `PushReturns` (but for its safety half `EndIsFinal`),
`CallEndSettles` of commands and shells, `AcquireEnds`, `NoOrphan`, `EndReachesReader`,
`OperationEnds`, `FailureSettles`, `CallEnds`, `CallsEnd`. TLAPS does not reason about fairness and
`ENABLED` here. Every safety property of the runs is also a theorem.

## 5. What is not modelled

- W&B credentials (read once from the environment and a netrc file) and the TanStack
  adapter (one call of another interface for one of this): stateless.
- Of the ComputeSDK provider `getById`, `getInfo`, commands and files: one call each, and a
  translation of its result.
- grpc-js, the generated client and the server: the environment of every model.
- Type declarations.
- Of validation and mapping, the checks and the spelling of single values (tags, names,
  quantities) and the mapping of responses but for services and rules: unit tests reach
  each branch, and no order of events plays a part.
- Within modelled parts: the lengths of sleeps and backoffs (but for `DataCalls` and
  `ControlCalls`), wording and metadata of errors, timestamps and session ids of log
  entries, multi-byte characters split across chunks, metadata of a sandbox other than
  status, exit code and services, `waitUntilRunning: false`, deletion by id, `stderr` as a
  stream of its own. A sandbox has one permission per state in `DirectDataPlane`
  although the code keeps one credential for each.

The definitions stand for about 5,700 of the repository's 35,600 implementation
lines, or 16 %. Some 16,800 of these lines are generated protobuf code and about
6,000 type tests, examples and declarations, which have no behaviour to model; of
the hand-written rest the larger part of what is left is validation of single
values, mapping of messages and documentation comments of the public interface.

## 6. What comes next

In this order:

1. `EndStands` for the composed streams: nothing follows the end a log's or a shell's
   reader was told of.
2. That the queue implements the stream it promises: an abstract sequence that grows at
   one end and is read at the other, refined by `AsyncQueue` under waiting and hand-over.
3. A clock for `readStream` over both passes as a question of its own
   (README.md:585-587).
4. The rest of the mapping of responses (`mappers.ts`): what a missing field or an exit code
   of zero becomes, against what `wait()` and `run()` decide on it.
5. The provider's commands and files, where they add a decision of their own.
