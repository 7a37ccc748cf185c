# VOSS runtime: TLA+ models, checks and proofs

VOSS runs an untrusted worker process and lets it act only through a
capability broker: every action of the worker is a request that policy allows,
denies, or sends to an operator; what is allowed runs once, under a capability
that is consumed before it, and is on a write-ahead ledger first. A worker can
be killed from the host or by a separate process, and four services
(watch-guard, operator console, audit relay, outbox accounting) talk to the
host over authenticated local sockets.

The repository holds two implementations of this design: a Python prototype
(`voss/`, with `tests/`) and the Rust crate (`rust/`). The models follow the
Rust crate; paths below are relative to `rust/src/` unless they say otherwise.

The modules here state what that design has to guarantee under crashes, failing
storage, lost connections and unlucky interleavings; TLC checks it on small
instances, and TLAPS proves the safety part of it, and the refinements of the
abstract specifications, for instances of every size.

- [Inventory](#inventory) · [Modules](#modules) · [Runs](#runs) ·
  [Fairness](#fairness) · [Proofs](#proofs) · [Where code and docs disagree](#where-code-and-docs-disagree) ·
  [What is not modelled](#what-is-not-modelled) · [Plan](#plan)

## Inventory

| Component | Source | State it keeps | Operations | Talks to |
|---|---|---|---|---|
| Capability broker | `broker.rs` | issued capabilities (used, revoked), the replay set of executed request ids, `recovery_ok`; one mutex over every call | `execute_action`, `resolve_and_execute`, `use_capability`, `revoke_all` | approval flows, ledger, audit log, policy, tools, watchdog |
| Approval flows | `approval.rs` | flows and their states `PENDING_APPROVAL`, `AUTHORIZED`, `EXECUTING`, `COMPLETED`, `UNKNOWN`, `DENIED_OR_EXPIRED`; expiry times | `request`, `resolve`, `mark_executing`, `mark_outcome`, `restore_flow`, purge at expiry | write-ahead ledger |
| Runtime recovery | `runtime.rs`, `crashpoint.rs` | what a boot rebuilds | `open`, `recover`/`replay_wal`, `kill_worker`, `close` | broker, ledger |
| Request intake and drift containment | `runtime.rs` | drift counters, the `contained` mark | `handle_envelope`, `resolve_approval`, `observe_exchange`, `tally`, `maybe_contain`, `console_intercept` | protocol, policy, broker, watchdog, console |
| Watchdog | `watchdog.rs` | suspended flag, registered worker, health | `suspend`, `kill`, health checks | broker (guard), runtime |
| Audit log and write-ahead ledger | `audit.rs` | one HMAC-chained JSON-lines file each; head of the chain and closed flag in memory | `open_chain` (trim, scan, verify), `emit`, `records`, `close` | broker, approvals, recovery |
| Watch-guard and link | `watchguard.rs`, `bin/watchguard.rs`, `confine.rs` | worker pid, last heartbeat, triggered latch; on the host: connected/failed/triggered latches | hello, register, heartbeat, terminate; monitor; reconnects | runtime, watchdog |
| Outbox accounting | `outbox.rs`, `bin/outbox.rs` | receipt ledger, effect files, receipts in memory, refuse flag; on the host: one session and a failed latch | session set-up, `deliver`, `accept_delivery`, `load_receipts` | `tools.rs` |
| Operator console | `console.rs`, `bin/console.rs` | on the host: connected and failed flags, counters, writer; in the console: the session's counters, the socket, waiting voters, the transcript | publish a view or a result, vote, typed commands, sessions, `console_intercept` | runtime approvals |
| Audit relay | `relay.rs`, `bin/relay.rs` | in the relay: its own chained file, the record ids in it, `compromised`; on the host: the cursor, the first violation, the stop flag | sessions, `tail_once`, `ingest_record`, `load_store`, `stop` | audit log |
| Worker channel | `chan.rs`, `runtime.rs`, `bin/*worker.rs` | link, job and pid slots, the bootstrap file, send and receive counters, the line pump | `spawn_worker`, `worker_propose`, handshake, `kill_worker`, `close` | worker process, watchdog |
| Policy engine | `policy.rs` | the signed bundle in force, its validity interval | `load_and_verify`, `evaluate`, `valid_now` | broker, watchdog |
| Protocol, canonical JSON | `protocol.rs`, `canonical.rs` | none | parsing, normalising, digests | all |
| Tools | `tools.rs` | workspace files | read, write, mock send | broker, outbox |
| Keys, CLI | `keys.rs`, `bin/voss.rs` | key file | create, load | runtime |

Interaction in short: worker line → `worker_propose` → `handle_envelope` → broker guard (health of
logs, watchdog, links) → policy → either a capability at once, or an approval
flow that an operator resolves → capability consumed → `request_executed` on the
ledger → `execution_start` on the audit log → tool → outcome. After a crash
`open` replays the ledger into flows, capabilities and the replay set.

### What is hard here, and what correct means

- *Broker and ledger.* A crash or a failing append between any two steps of a
  call; a kill that does not wait for the broker's lock; several flows for one
  request id; expiry that is noticed lazily. Correct: one effect per request id
  over all boots, no effect without its claim on disk, none without a durable
  approval where one is needed, none after a kill returned, one grant per approval,
  and memory equal to what a replay would rebuild.
- *Log files.* An append cut off anywhere, a trim that rewrites in place.
  Correct: acknowledged records stay, a crash never makes the file unopenable. (A
  record that lacks exactly its newline breaks this; see below.)
- *Watch-guard.* Two processes with timers, a connection that breaks, a host
  that hangs or dies. Correct: no kill of a healthy worker, a hung host loses
  its worker, a host without a guard stops serving.
- *Outbox.* Storage failures between receipt and effect file, replies that come
  too late, retries by another host, restarts. Correct: each key delivered at
  most once and callers never told wrong.
- *Console.* Frames numbered under one lock and written under another, a health
  check that is stale when the view is published, voters that outlive their
  session, a client replaced while its thread runs. Correct: the console never
  takes a frame after one it missed, a call denied as unavailable is not granted
  after all, and no flow is left to a console that never answers.
- *Relay.* A client that tails a file another thread appends to, a cursor that
  starts again at zero with each session, appends that are cut off on either side,
  a stop that must drain. Correct: the store is the log without gap, repeat or
  invention, also after a crash of either process; it closes only for a reason of
  its own; it catches up; a clean `stop` means complete.
- *Worker channel.* Answers that come after their timeout, lines that repeat or skip
  a number or are no proposal, a spawn while another thread waits for an answer, a
  worker that hangs with its pipe full, `close` in the middle of a call. Correct: an
  honest worker is never suspended; whatever a worker says, no number is taken twice,
  and answers are taken in the order of the prompts until a line is refused; calls
  return.
- *Intake.* Counting, judging and acting are three locks; what was read before
  is stale after; flows outlive the policy they were requested under. Correct: a
  score over its threshold ends in suspension or containment, nothing runs that
  the policy in force does not permit, and a worker told that nobody can approve
  is not granted later.

`PROJECT.json` lists the hazards one by one, each with its line and with the
properties that cover it.

## Modules

| Module | Role |
|---|---|
| `Broker` | broker, approval flows, the write-ahead ledger as seen by them, watchdog suspension, kill, crash and replay |
| `GovernedEffects` | abstract: request ids are claimed, then run at most once, and never while a kill is in force |
| `BrokerRefinement` | `Broker` implements `GovernedEffects`; `MemoryIsReplay` |
| `BrokerProofs` | theorems about `Broker` and `BrokerRefinement` |
| `Ledger` | one log file down to the pieces a cut-off write leaves |
| `DurableLog` | abstract: an acknowledged append stays, a failed one closes the log, an open brings back what landed, as long as the file can be read line by line |
| `WatchGuard` | guard process, link thread, host, worker, with time in ticks |
| `Relay` | relay process, client thread, the host's log and what a crash leaves of it |
| `Mirror` | abstract: a store that follows the log in order, once, and keeps what it has |
| `Channel` | host threads that spawn and propose, line pumps, workers |
| `Policy` | which bundles load, and what a bundle says of a request: operators, no state |
| `Envelope` | the normalizer and path resolution: operators, no state |
| `Intake` | envelopes, decisions and exchanges on several threads; drift scores; policy in force; restarts; uses `Policy` and `Envelope` |
| `IntakeProofs` | theorems about `Policy` and `Intake` |
| `Outbox` | accounting service and host link, with storage failures, timeouts and restarts |
| `ExactlyOnce` | abstract: one delivery per key, never taken back, "ok" only for what was delivered |
| `Console` | console process, client thread, calls that need consent |
| `LedgerProofs`, `WatchGuardProofs`, `RelayProofs`, `ChannelProofs`, `OutboxProofs`, `ConsoleProofs` | theorems about the module each is named for |
| `MC*` | instances for TLC |

`Broker` uses the ledger at the level of `DurableLog`: `WalEmit` lands, fails, or
lands and still reports failure, and closes the ledger when it fails. `Ledger`
shows that the file keeps that contract; the two are composed by contract, not
by one product state space. In the same way `Broker`'s `Effect(res)` with an
unknown result stands for a tool call whose outcome is in doubt, and `Outbox`
shows when an external delivery returns such an outcome. `Intake` takes the broker's
calls as one step under the broker's lock, adds the policy that decides them, and
leaves faults of the logs to `Broker`.

### Broker

| State | Code |
|---|---|
| `wal`, `walOk` | records of the ledger on disk; the ledger is open in this boot |
| `auditOk`, `recoveryOk`, `suspended` | what `Broker::guard` consults |
| `flows`, `caps`, `executed` | `ApprovalController.flows`, `BrokerState.caps`, `BrokerState.executed` |
| `op` | the call that holds the broker's mutex, and how far it is |
| `phase`, `cursor` | process down, replaying (next record), or up |
| `effects`, `ran`, `denied`, `fenced` | history: effects per request, flows that had an effect, denials returned, a kill that returned |

The mutex serialises calls, so one `op` is enough; each action is the code
between two points where the process can die or where the watchdog, which
takes no broker lock, can act: `NoteRequest`, `NoteApproved`, `Store`,
`Consume` (replay check, then the mark in memory and `capability_used`),
`NoteExecuted` (`request_executed`), `StartExecution` (audit record, then the
health of both logs), `Effect`, `NoteOutcome`. `ProposeAllowed` and
`ProposeForApproval` are `execute_action` for a request that policy allows or
sends to the operator; `ResolveUndecided` is a decision that decides nothing, because
the flow has expired or because the word is none that `resolve` knows; the digests, bindings and rule sets that decide between
the two and `Refuse` are abstracted to that choice. `Expire` is the wall clock
passing `expires_at`; the purge itself is lazy and part of the resolving
actions, as in the code. `RevokeBegin`, `RevokeOne`, `RevokeEnd` are
`revoke_all`; a kill is `Suspend` followed by it. `Boot`, `ReplayRecord`,
`Recovered`, `RecoveryFails` are `open` and `recover`.

A tool call that returned failure may have had its effect (half a file, a
delivery whose receipt was lost), so `Effect` chooses; only a call that
completed certainly had it.

### Ledger

The file is a sequence of pieces: "whole", "bare" (every byte but the newline)
or "torn". A cut append leaves nothing or any of the three. The piece that follows a
bare or a torn one is on the same line, and a line parses only if it is a single
piece; `Joined` says that this has happened to a bare one: neither of the two records
can be read any more. `schema` chooses the write-ahead
ledger, which `open_chain` trims, or the audit log, which it does not. HMACs are
abstracted to the id of the previous record. The rewrite in `trim_partial_tail`
is two steps because `fs::write` truncates first; `CutRewrite` is a rewrite cut
off (crash or full disk), whose result the code ignores.

### WatchGuard

One tick is the link's heartbeat period; `Idle` and `CloseTicks` are the guard's
idle timeout and the time `graceful_close` lingers. `Tick` is enabled only when
no step of a running process is due, which states that the monitor (0.1 s), a
reply on a live connection and an expired timer act within one period; a hung
host owes nothing. A connection that breaks costs the link a tick, and `lost` counts
those that broke since the guard last reset its clock. The guard reads `triggered` before the blocking read and not
after it (`polled`), as the code does. The confinement job is the rule that a
worker dies with its host, and that `kill_worker` and a respawn end the old one.

### Outbox

A delivery is a pair of a key (the request id) and a digest (what is sent, and
to whom). A receipt is named by its place in the ledger, which stands for the
fresh `receipt_id`. Every storage operation may fail, and an append may leave
nothing, a part, or the whole record (a `sync_all` that fails). The host side is
one call at a time: `deliver` holds the link's lock until it returns. A session
is "half" open when the host has left and the handler has not noticed; frames
sent before that may still be handled. Handshake, frame MACs and frame numbers
are one action, since between honest peers on one ordered connection they do
not fail.

### Console

A sender (a call's thread publishing a view, the client's thread publishing a
result) first takes a number and the session key (`Available`, `ApplyVote`), then
writes (`Write`), and other threads run in between; `send_conn` in the console is
`Say` and `SendConn` in the same way, and reads the key under a second lock, so that a
number of one session may go out under the key of the next. A session key stands for all MACs made with
it, so a frame written into a later session is recognised as foreign. `Connect`
is the whole handshake up to `hello_ok`, and `HelloLost` its failure, by a lost
connection or the client's read timeout; the client being connected (`HelloOk`),
having a writer (`SetWriter`) and the console having its socket (`Serve`) are
separate steps, as in the code. "left" is a connection whose console end is
gone or lingers in `graceful_close`: a write into it is swallowed or fails.
`ReadFails` is a read that finds the connection closed or that waited for two
seconds; it may happen whenever nothing is there to read. What the broker does
with a decision is `Decide`: a pending flow is granted or denied unless the host is
suspended. `Detach` and `Attach` are `attach_console`, which holds the console slot
while it joins the old client's thread (`SlotFree`) and leaves it empty until the
new client runs. The command line takes any flow id; ids are random and first leave
the host with a view, so an operator types (`TypeVote`) only an id the console showed.

### Relay

| State | Code |
|---|---|
| `log`, `tail` | complete and incomplete lines of `audit.jsonl` |
| `pc`, `cursor`, `next`, `violation`, `stage` | the client thread, `ClientState`, and how far `stop` is |
| `wire`, `answer`, `conn`, `aligned` | the stream between them, and whether the server reads at a frame boundary |
| `ids`, `compromised`, `file` | `ServerState` and `relay-audit.jsonl` |
| `cause` | history: the relay's own reasons to close |

The server serves one client at a time and a client waits for each
acknowledgement, so at most one frame is under way. The handshake is one step
(`Accept`), since none of its rounds leaves a trace. `BeginEmit` and `EndEmit` are
one append of the host, which `tail_once` may see in the middle. `HostDies` leaves
the line as far as it was written, or loses the end of the log that was flushed
and not synced. `Stored` is what is in the bytes of the relay's file: a record without
its newline counts, though `load_store` refuses the file once another record shares its
line (`Loadable`). `IngestFails` and `RelayDies` cut off the relay's append.
`LosesPlace` is the server's read timeout in the middle of a frame, which drops
what was read; what follows is `ReadsGarbage`. `Join` is `stop` after the thread
ended: its last session is the same client actions with `stage = "pass"`.

### Channel

| State | Code |
|---|---|
| `pc`, `mine`, `lock` | host threads in `spawn_worker` and `worker_propose`; the link's mutex |
| `link`, `bootstrap`, `job`, `pid`, `closing`, `violated` | the slots of the runtime, how far `close` is, a suspension for a violation |
| `worker`, `input`, `output` | each process and its pipes |
| `asked`, `replies` | the reads its pump owes, and what it read |
| `sendSeq`, `recvSeq` | the counters of the two ends of a session |
| `sent`, `accepted`, `strayed`, `cause` | history: prompts written, proposals taken, links with a refused line or an invented proposal, reasons for a violation |

A propose holds the link's lock from prompt to answer, a spawn takes it twice for a
moment. A line carries the session whose key authenticates it, its number, its type and
the prompt it answers; `Receivable` is the check of `ChannelSession::receive`, which
advances the counter before `worker_propose` looks at the type. `Misbehaves` lets a
worker put such a line in place of its answer or besides it: forged, with the last
number again, the next or the one after, a proposal or not (`OtherLines`), as
`bin/evil_worker.rs` does. A violation leaves the link installed, so a later propose
may take the next line. The pump answers each read it was asked for, also when the
reader gave up (`TimesOut` leaves `asked`). `Overlaps` marks two spawns at once, which
share the bootstrap file and the job slot. `Kill` and the three steps of `close` run
against any of it; a hung worker reads nothing, and its pipe may be full, or too small
for the prompt (`Large`).

### Policy, Envelope and Intake

`Policy` is `evaluate` over rules of any number, with the prefix match, the gate
and the conflict of matching rules, and `Loads` is `load_and_verify`, with
signature, clock and JSON shape as flags. `Envelope` is `normalize`: exact fields,
identity, resource and constraint checks, and the lexical resolution of paths,
over components. `MCIntake` compares `Lexical` with what it means on all paths of
up to five components.

`Intake` has a step per lock of `handle_envelope` (`Receive`, `Classify`, `Execute`,
`Tally`, `Judge`, `Act`, `Seal`, `Intercept`), of `resolve_approval` (`Decide`, `Resolve`,
then the same) and of `observe_exchange` and `channel_violation`. A score is a
numerator and a window, compared with 0.30 and 0.50 by multiplication; the window's
least size is `MinWindow`, 10 in the code and smaller in the run. `Restart` starts
with any package that loads, brings back flows and claims, and forgets counters,
suspension and containment, as `open` does.

The code compares the score after `round_4`. `Exceeds` does the same in exact
arithmetic, half rounded up: a quotient that lies on the half of the fourth digit may
round either way in floating point. `maybe_contain` reads its three inputs under three
locks; `Judge` is one step, because within a boot no score falls and no mark is taken
back, so that what was read first still holds when the last is read.

## Runs

Twelve: one that passes for each of the eight modules with state, and four that end in
a violation.

| Run | Configuration | What it shows |
|---|---|---|
| `broker` | 1 request, 2 flows, 2 capabilities, 1 crash, both logs may fail | claims, consent, a recorded denial is final, one grant per flow, `ClaimInv`, memory equals replay, the kill fence, the refinement to `GovernedEffects` |
| `broker_denied_forgotten` | 1 flow, 1 crash, ledger may fail | *violation*: a denial that was not written is forgotten |
| `ledger` | 5 records, 3 crashes, 1 cut rewrite, both schemas; a cut leaves nothing, a torn record, one without its newline, or all of it | the contract `DurableLog`, tolerated crashes included, until two records share a line; a later boot opens |
| `ledger_bare` | 3 records, 1 crash | *violation*: a crash before the newline makes a later boot refuse |
| `guard` | 2 hosts, 2 workers, 2 broken connections, a hang, a guard death, a kill; idle timeout 2 | no kill without cause, registration, kill of a hung host's worker, suspension without a guard |
| `guard_respawn` | 1 host that spawns twice, no faults | *violation*: the second worker is never registered |
| `outbox` | 2 keys, 2 digests, 3 calls, 2 hosts, 2 storage or network faults, 2 crashes; a cut record with or without its last byte | one receipt per key and an effect file and memory that agree with it, "unavailable" is final, the contract `ExactlyOnce`, sessions freed |
| `console` | 2 calls, 2 clients, 2 sessions, a console death, a typed command, auto and interactive | no gap in what the console takes, a denied call stays denied, no flow left to a silent console |
| `relay` | 3 records, 1 crash of the host, 2 of the relay, 2 stalls, timeouts or failed appends | the contract `Mirror`, closing only with cause, a clean stop is complete, the store catches up |
| `channel` | 2 threads, 2 workers, 2 prompts, one of them too large for the pipe, 1 fault, `close` | no false violation, answers in order against a worker that lies, calls and `close` return |
| `channel_late_answer` | the same | *violation*: a propose returns the answer to the prompt before |
| `intake` | 2 threads, 3 calls, 6 envelopes, 3 packages, `MinWindow` 4, 1 restart | scores acted on, effects permitted by the package in force, a request denied for want of a console stays closed, containment implies suspension |

Why the bounds are enough. Broker properties relate one request id to its flows
and capabilities, and calls are serialised, so a second request adds only
independent copies; two capabilities let a request be granted twice, and a
crash in each step is covered by one crash followed by a full replay and a
second proposal of the same id. A second flow is what a repeated consent needs.
The constraint `OneTroubleAtATime` stops this run where a boot has met a failure, a
suspension or a revocation and then gets its second flow, and where both flows have
expired; all of it with one flow, and two flows over a crash, are explored. For the
ledger, five records and three crashes give torn tails before, after and next to
trimmed ones; the rewrite matters once. In the guard, two hosts show a restart against a
guard that remembers the first, two breaks a loss during the reconnection after a loss;
with an idle timeout of two periods one lost connection is forgiven and two in a row are
not, so both sides of `calm` are met. In
the outbox three calls give store, retry and conflict on one key next to
another key. In the console two calls race for numbers and for the write, the
second client meets the first one's voters and its calls, and one death hits
every step of a session. In the relay, three records are one behind, one at and
one after the cut; the second relay crash hits the redelivery after the first;
two faults let a stall be followed by the server's timeout. In the channel, two
prompts are what a late answer or a line after a refused one needs, two workers a
respawn, a prompt that the pipe cannot hold a write that is stuck on a worker spawned
behind the back of `close`, with one proposer and one spawner. In the intake, one policy denial in a window of four
crosses the first threshold and two cross the second, so three calls leave one
that meets a worker already judged; a restart changes the package under a pending
flow; of the three packages two load, which between them allow, gate, contradict and
omit, and one does not, for want of a gate.

Deadlock is checked in `guard` and `guard_respawn`. The others switch it off:
their bounds (crashes, calls, records, ids that are never reused) let the model
come to a rest that the program would leave with fresh ids.

Each property of a passing run has a mutant, an operator marked `mutant` next to
the definition it replaces, under which TLC finds the property violated.

## Fairness

- `Ledger`: a boot finishes, and an operator starts a refused host again. The
  latter is needed only by `OpensAgain`, which is about what some later boot does.
- `WatchGuard`: weak fairness of the guard's threads, the link thread and time.
  A hung host is modelled by disabling its steps, so nothing is promised for it.
- `Console`: weak fairness of every thread of the host and the console that can
  run, and of a voter's delay. Nobody has to type, to attach a client or to start
  a console that died. A read may time out, and does if nothing else comes, as its
  socket timeout says; this is what `Decides` rests on. The bound on typed commands
  leaves out a console that decides other flows for ever and never this one; there
  `purge_expired`, which every resolve runs first (`approval.rs:364`), ends the flow at
  its expiry.
- `Relay`: weak fairness of the steps of the client thread, of the server and of
  the end of an append, and somebody starts a relay that died. No timeout, failure,
  stop or crash is forced. `Mirrored` promises only for a host that from some time
  on stays up, with a log that parses and a relay that does not refuse it.
- `Channel`: weak fairness of each step of a call that runs or whose timer ends, of
  the pumps, of workers that are not hung, and of `close` once it began. Nobody has to
  call, kill or close.
- `Broker`, `Intake`: none; their properties are safety.
- `Outbox`: weak fairness of the service's handler thread only. Hosts, crashes and
  restarts owe nothing.

## Proofs

Each theorem holds for every value of the constants that the module's assumptions
allow: sets of any size, any number of calls, crashes and faults.

| Theorem | Module | States |
|---|---|---|
| `TypeCorrect` | `BrokerProofs` | `Spec => []TypeOK` |
| `ClaimsAgree` | `BrokerProofs` | `Spec => []ClaimInv` |
| `RequestsRunAtMostOnce` | `BrokerProofs` | `Spec => []AtMostOnce` |
| `EffectsAreClaimed` | `BrokerProofs` | `Spec => []EffectIsClaimed` |
| `EffectsHaveConsent` | `BrokerProofs` | `Spec => []EffectHasConsent` |
| `GrantsAreSingle` | `BrokerProofs` | `Spec => []OneGrantPerFlow` |
| `RecordedDenialsAreFinal` | `BrokerProofs` | `Spec => []DenialOnRecordIsFinal` |
| `DenialsAreFinal` | `BrokerProofs` | `~WalCanFail` implies `Spec => []DeniedNeverRuns` |
| `KillsFence` | `BrokerProofs` | `Spec => NoEffectAfterKill` |
| `RestartsForgetNothing` | `BrokerProofs` | `Spec => []MemoryIsReplay` |
| `BrokerKeepsPromise` | `BrokerProofs` | `Spec => ImplementsPromise` |
| `RulingIsUnanimous` | `IntakeProofs` | a ruling is what every matching rule says, and there is one |
| `OrderIsIrrelevant` | `IntakeProofs` | bundles with the same rules rule the same |
| `RulesOnlyTighten` | `IntakeProofs` | one more rule never lets run what the rules before it spoke of and held back |
| `ExpiryIsBounded` | `IntakeProofs` | the inherited time limit is between a second and a day |
| `TypeCorrect` | `IntakeProofs` | `Spec => []TypeOK` |
| `EffectsArePermitted` | `IntakeProofs` | `Spec => []EffectIsPermitted` |
| `UnavailableStaysClosed` | `IntakeProofs` | `Spec => []UnavailableIsClosed` |
| `ScoresAreActedOn` | `IntakeProofs` | `Spec => []ScoreIsActedOn` |
| `TypeCorrect` | `LedgerProofs` | `Spec => []TypeOK` |
| `KeepsTheContract` | `LedgerProofs` | `Spec => ImplementsDurableLog` |
| `TypeCorrect` | `OutboxProofs` | `Spec => []TypeOK` |
| `ServesOneReceipt` | `OutboxProofs` | `Spec => []OneReceiptServed` |
| `UnavailableMeansNot` | `OutboxProofs` | `Spec => []UnavailableIsNotDelivered` |
| `PromiseKept` | `OutboxProofs` | `Spec => ImplementsExactlyOnce` |
| `TypeCorrect` | `RelayProofs` | `Spec => []TypeOK` |
| `PoisonsHaveCause` | `RelayProofs` | `Spec => []PoisonHasCause` |
| `StopsDrain` | `RelayProofs` | `Spec => []StoppedIsDrained` |
| `MirrorKept` | `RelayProofs` | `Spec => ImplementsMirror` |
| `TypeCorrect` | `ChannelProofs` | `Spec => []TypeOK` |
| `TakenInOrder` | `ChannelProofs` | `Spec => []AnswersInOrder` |
| `NeverBlamed` | `ChannelProofs` | `Spec => []NoFalseViolation` |
| `TypeCorrect` | `WatchGuardProofs` | `Spec => []TypeOK` |
| `KillsHaveCause` | `WatchGuardProofs` | `Spec => []NoFalseKill` |
| `TypeCorrect` | `ConsoleProofs` | `Spec => []TypeOK` |
| `DenialsAreFinal` | `ConsoleProofs` | `Spec => []DeniedIsFinal` |
| `SkipsNoFrame` | `ConsoleProofs` | `Spec => []NoFrameSkipped` |

### What they assume

The modules' own assumptions: bounds are naturals, "none" values are not members of
the sets they stand beside (`NoneAssumption`, `0 \notin Callers`, `NoFlow \notin Flows`),
timeouts and pipes are not zero, a call's thread is none of the clients' own
(`ConsoleAssumption`), a version names one package (`IntakeAssumption`). The last is
what the code relies on too: capabilities and flows are bound to `policy_version`, a
string of the bundle, and an operator who signs two bundles with one version can have
a flow approved under the other.

One theorem has a hypothesis of its own: `DenialsAreFinal` of the broker, for a ledger
that takes every append. Without it `broker_denied_forgotten` is a counterexample, and
what holds then is `RecordedDenialsAreFinal`. Three properties name the circumstances
they speak of, and the theorems prove them as they are:

- `ImplementsDurableLog` promises nothing for a file in which a record shares the line
  of one without its newline, or of which a rewrite was cut off.
- `NoFalseKill` speaks of calm runs. A connection that breaks costs the heartbeat a
  tick, so a run stays calm while fewer break in a row, with no heartbeat between them,
  than the timeout has ticks. How many break in all is not bounded.
- `AnswersInOrder` compares answers with prompts until the link has had a line refused,
  which suspends its worker, or a proposal made up; that no number is taken twice it
  says of every link.

### The arguments

*Broker.* `AtMostOnce` is not inductive: a state with one effect and an empty
replay set satisfies it and is about to break it. `ClaimInv` adds what links the
three places that know a request was executed: a call past the guard runs on
recovered memory (`RecoveredCall`); while a boot replays, claims before the
cursor are in the replay set (`ReplayedClaims`); a recovered broker knows every
claim on the ledger (`KnownClaims`); a call between its replay check and its
effect owns an id with no effect, and has its claim on the ledger unless the
ledger closed (`OwnClaim`). The step that could break it is the effect after a
failed append of the claim, and what rules it out is the health check after
`execution_start`: past it the ledger is open, so the claim landed. `ConsentInv`
is the same argument for the approval record of a flow, and `FenceInv` says that
a fenced host is suspended and has no governed call in flight. The refinement maps
`claimed` to the request ids whose claim is on the ledger and `runs` to the effects;
`ClaimInv` and `FenceInv` give the preconditions of `Claim` and `Run`.

`GrantInv` is about the ledger, the capabilities in memory and the call that is about to
add to them. A flow's request comes first (`RequestFirst`); it is resolved once, and what
is resolved on the ledger is not pending in a memory that serves (`ResolvedOnce`,
`NotPending`); a grant on the ledger follows its approval there (`GrantsFollow`); one in
memory belongs to a flow that is not pending, and while a boot replays it comes from the
ledger (`HeldFollow`). An approval or a grant that missed the ledger dies with its
process, so the flow may be pending again at the next boot and be granted again; but the
ledger was closed by then, so that the first grant was never consumed and is nowhere on
it, and `OneGrantPerFlow` holds of ledger and memory together. `DenialOnRecordIsFinal`
is `ResolvedOnce` with the consent of every effect. `DenialsLogged` adds that a returned
denial is on a ledger that never fails.

`ReplayInv` says that memory is a rebuild of the ledger at every step and not only between
calls: during a boot, of the records before the cursor (`BootReplays`); while the broker
serves on an open ledger, of all of them, but for what the call in flight has done in memory
and not yet written, the id it consumed (`ExecutedReplay`) or the flow it opened or resolved
(`Untold`). A capability is used or revoked on the ledger only after it was issued there
(`IssuedCall`), which is what a replay asks of it. `Rebuilt` is a recursive function of the
number of records, so what it computes needs induction over data. The library's induction
theorems take an operator, which the provers here cannot instantiate; `Induct`, induction
for a set of numbers below a bound, is proved from the pigeonhole theorem instead. With it
the rebuild exists (`RebuildExists`), a longer ledger rebuilds what the shorter one did and
then its new record (`RebuildGrows`), and types are kept (`RebuiltFlows`).

*Policy and Intake.* `EffectIsPermitted` needs to know, when an approved flow runs, why
it was held: the policy is asked when the request comes in and not again. `IntakeInv`
says of every flow that its package sends its request to the operator (`Held`), of
every call that the flow it names exists (`CallOK`), and of every effect that it was
allowed outright or ran under the package of its flow (`PermittedNow`), which is the
version check of `use_capability`. `RulingIsUnanimous` turns the ruling into what the
matching rules say. `UnavailableIsClosed` needs `DenialInv`: a denial made for want of
a console never approves, and from the moment it has resolved its flow is shut
(`DenialOK`), whatever `resolve_approval` answered and `console_intercept` ignored; flows
are never of a later boot (`BootsBound`), so that a restart, after which the host serves
again, ends what the property promises.

`ScoreIsActedOn` speaks of quiet moments only. `ScoreInv` says what holds in between:
whoever raises a score over a threshold owes its judgement, so there is either the
suspension or a thread that has still to judge or to act. Counting, judging and acting
take three locks, and a thread may judge a score that others have raised since; the
invariant is kept because raising and owing is one step, and scores never fall within
a boot (`FormInv` holds the types this needs).

*Ledger.* Until a rewrite is cut off or two records share a line the file is `Sane`: only
the last piece can be bare (`Single`), the pieces form a chain, only the last one can be torn, a process that appends has none torn and its
`last_hash` is the last record, and the write-ahead ledger that is being scanned has
none either. `WholeIs` and `TornIs` turn `Readable` and `Trimmed`, which look for the
first line that does not parse, into "all pieces" and "all but the last". Each step
is then one of four for the users of the log: `Silent`, `Opening`, `Landing`, `Cutting`.
After a cut rewrite the contract promises nothing, and only the types are kept.

*Outbox.* `StoreInv`: a key is on the ledger once (`OncePerKey`), memory points at the
record of its key (`Remembered`), a store that serves remembers all of them
(`Complete`), each has its effect file unless the store refuses or the file is being
written (`Written`, `Storing`). `CallInv` follows one call through the link: in an open
session what the service works on is what the host waits for (`OneUnderWay`), so that
what the host hears (`Heard`) is about its own call. The refinement's `delivered` is what
has a receipt and an effect file.

*Relay.* `RelayInv` has a part per question. `StoreOK`: the ids in memory are those of
the file, of which only the last piece can be torn, and then the relay is down or closed.
`PoisonInv`: a closed or misaligned server has a cause. `SessionOK`: within a session all
records before `next` are stored, and what is on the wire is the one at `next`.
`StopOK`: the last pass reads to the end of a log nobody appends to. The mapping to
`Mirror` takes the store as it is on disk, and as under way what was sent and not yet
acknowledged.

*Channel.* `OrderInv` follows the lines of the linked worker, in its pipe and with its
pump (`Stream`): from the next number on they answer the next prompts one for one
(`Flow`), up to a line that will be refused, or to the prompts that still wait in its
input; readers that gave up leave this as it is. It begins with a hello nobody else
reads (`Greets`, `Greeted`), for a worker is spawned by one caller and linked once
(`SpawnedOnce`). Once a line was refused the stream says nothing, and what is left is
that the counter is ahead of all that was taken (`InOrder`). `BlameInv` says what a worker
nobody wronged looks like: before its link its hello is to come, never comes, or is on
its way (`Polite`); after it everything it says is the next proposal (`Calm`).

*WatchGuard.* `CalmInv`, for calm runs: requests and replies match the state of both ends
(`WireInv`), the link knows whether the guard holds its worker (`LinkInv`), and
`ClockInv` is the budget: the age of the last heartbeat, the waiting still to come and a
break not yet seen are paid for by one period and the connections lost since the
guard's clock was reset. Time can pass only when no step is due; `Due` lists those steps
as predicates on the state, since ENABLED cannot be reasoned about here.

*Console.* `Carries(S)` types everything that travels with flows of `S` only. Used with
all flows it is the type invariant; used with the flows whose view was numbered it says
that nothing about any other flow exists anywhere, so that no vote can approve it: a
call denied as unavailable never numbers its view (`ViewInv`, `DenyInv`). `FrameInv`
names a frame by its session's key and its number: keys are not used twice (`KeyInv`), a
frame is in one place of three, unwritten, on a wire or lost (`TagInv`), the client's
counter is ahead of all of them (`SentInv`), and what the console has not seen of its
session comes after what it has (`GapInv`). As far as frames can tell, a step is one of
five kinds, `Quiet`, `Numbered`, `Written`, `Opened`, `Taken`; each action is one of them,
and each keeps the invariant.

### What is only model-checked

- Liveness: `CallReturns`, `OpensAgain`, `GuardHoldsWorker`,
  `HungWorkerIsKilled`, `LostGuardSuspends`, `FreesSession`, `Decides`, `Mirrored`. The
  prover has no rule for fairness or ENABLED.
- `Lexical`, a fold over path components, whose meaning `MCIntake` checks on all short
  paths (`LexicalMeans`): `FoldLeft` takes an operator and is defined through a recursive
  one, neither of which the provers see through. `MemoryIsReplay` was restated with a
  recursive function in place of a fold for this reason.
- That every finite set of numbers has a least one is not used: `TornTail` and `Stored` are
  stated with quantifiers instead.

The inductive invariants above were checked by TLC on the runs' instances before they
were proved; `ClaimInv`, of which `EffectIsClaimed` is a conjunct, stays in `broker`.

## Where code and docs disagree

Four are runs that end in a counterexample:

- *A denial can be forgotten* (`broker_denied_forgotten`). `PROTOTYPE.md:122` makes
  DENY terminal; `note` (`approval.rs:352`) drops the result of the append. With the
  ledger failing, the operator is told DENIED and the next boot restores the flow
  as pending; it can then be approved and run.
- *A record without its newline* (`ledger_bare`). `PROTOTYPE.md:235` tolerates a crash in
  an append: the incomplete record is trimmed. One that lacks only its newline
  (`write_all`, `audit.rs:202`) parses, so it stays, and the next append continues its
  line. While that line is the last one, a boot trims it with both records; once another
  follows, every boot refuses.
- *A respawned worker is unguarded* (`guard_respawn`). `watchguard.rs:4` says the
  guard holds the worker's pid; a second `spawn_worker` on the same link keeps
  `registered` set, so its pid is never sent.
- *A late answer shifts all later ones* (`channel_late_answer`). `PROTOTYPE.md:128`
  says every round trip is timed and a stalling worker accumulates anomalies. After
  a timeout (`runtime.rs:1672`) the pump still owes its line; the next propose finds it
  at once, returns it as its own answer and times it as fast.

Three were met while modelling and have no run of their own:

- *The trim itself.* It truncates and rewrites the ledger in place and ignores
  errors (`audit.rs:311`): cut off there, acknowledged records are lost and the
  shorter chain still verifies. `DurableLog` calls such a log `damaged` and
  promises nothing for it.
- *The outbox after a crash.* `PROTOTYPE.md:137` says idempotency state is rebuilt
  on restart; a crash in `append_ledger` leaves a line that makes `load_receipts`
  fail on every later start (`BindRefuses`).
- *An approval queued for nobody.* `console.rs:8` says consequential approvals are
  denied, never queued, when the console is not live. A call that finds the client
  connected but without a writer (`console.rs:672`, `751`) has its view dropped and
  is told to wait.

### Noted

- Broker. The denial in `console_intercept` ignores its own result
  (`runtime.rs:1172`), so on a suspended host the flow stays pending;
  `UnavailableIsClosed` states the two ways this can happen. A flow that was
  AUTHORIZED when the process died stays so for ever: it is neither resolvable nor
  runnable. `relay_ok`, one of the gates of `Broker::guard` (`broker.rs:418`), is set
  when a relay is attached and never cleared, so a relay violation is audited and
  stops nothing on the host.
- Console. An interactive console on which nothing happens for the client's two
  seconds of read timeout is latched as failed, and every later consequential
  request is denied although the console is there.
- Watch-guard. A register reply lost with its connection makes the link register
  again, be refused, and lose its worker; `NoFalseKill` therefore speaks of
  behaviours in which no registration is interrupted.
- Relay. A violation is remembered in memory only, so a restarted relay serves
  again if its file parses. One torn append makes every later start refuse, and a
  host that stalls in the middle of a frame for the server's read timeout closes
  the store; both are causes in `PoisonHasCause`. A record in flight when the host
  loses the end of its log is then in the relay only. The "busy" reply cannot be
  reached with one client at a time, and `attach_relay` does not stop the client
  that was attached before.
- Channel. Two spawns at once share the bootstrap file and the job slot: one worker
  may start with the other's credential, which counts as a violation, and a failed
  handshake ends whatever worker the slot holds. `write_all` to the pipe of a worker
  that does not read has no timeout and holds the link's lock (`runtime.rs:1626`,
  `Stuck`); only a kill or `close` ends it; and `close`
  does not end a worker that a spawn starts after it emptied the job slot
  (`runtime.rs:879`), so a write stuck on that one keeps `close` waiting for ever, the
  case `CallReturns` names. A violation leaves the link installed.
- Intake. An approval that came too late, a claim whose policy changed over a
  restart, and a log that failed are counted against the worker, which had no part
  in them; a tool that fails is not. Channel violations raise the score but are not
  judged (`ScoreIsActedOn` leaves them out of the 0.50). A restart ends suspension and
  containment. What `normalize` checked of the file system may have changed when
  the tool runs; the tool checks again.

## What is not modelled

- *Authentication.* HMACs, keys and nonces are taken as unforgeable, and peers as
  honest about their protocol; the models are about failure, not about forgery.
- *Power loss.* A process crash keeps what was written. `Relay` also lets the host
  lose the end of its audit log; the write-ahead ledger after a power loss is not
  modelled, and `PROTOTYPE.md` names durable ordering as production work.
- *Text.* Canonical JSON, digests, identifier characters, letter case and symbolic
  links. A digest is the value it is taken of.
- *Tools' file effects.* Reading and writing workspace files and the local mock
  outbox; their outcomes are `Effect` in `Broker`, and the accounted send is in
  `Outbox`. The path check the tools repeat is the one of `Envelope`.
- *Console.* Decisions made without it are in `Broker` and `Intake`, and the kill
  command's effect on the worker in `WatchGuard`; no module holds them together. What
  `DeniedIsFinal` calls never is therefore within one boot and by way of the console;
  a denial that missed the ledger (`broker_denied_forgotten`) or met a suspended host
  (`UnavailableIsClosed`) can come back with the next.
- *Keys, CLI, platform confinement.* Pure I/O around the parts above.
- *The Python prototype.* Same design, superseded by the crate.

## Plan

In order of weight; step 9 and the rest of step 10 are open.

1. `Broker`, `GovernedEffects`, refinement and proofs.
2. `Ledger`, `DurableLog`.
3. `WatchGuard`.
4. `Outbox`, `ExactlyOnce`.
5. `Console`.
6. `Relay`, `Mirror`.
7. `Channel`.
8. `Policy`, `Envelope`, `Intake` with drift and containment, and their proofs.
9. Composition of `Broker` with `Outbox` through the tool's outcome and with `Console`
   through the decisions it brings.
10. Proofs: the safety properties of every module and the refinements are proved;
    left is what the compositions of step 9 would promise.

The number of runs stays small: one passing run per module, with the violations
above.
