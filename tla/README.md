# httpmate in TLA+

A verification development of httpmate, an intercepting HTTP(S) proxy: a Rust
core (`crates/httpmate-core`), a Tauri shell (`src-tauri`) and a React front
end (`src`). The modules model the parts that keep state and run concurrently;
TLC checks them on small instances, TLAPS proves the main results for every
value of the constants. `PROJECT.json` lists runs, mutants, the code each
definition stands for, hazards and theorems.

## 1. Inventory

| Component | State | Operations | Interacts with |
|---|---|---|---|
| Capture engine (`proxy.rs`, `intercept.rs`, `controller.rs` start/stop) | accept loop, connection tasks, detached tasks, `dynamic_passthrough`, transaction counter | start, stop, accept, CONNECT (tunnel or interception), handle, forward, finish_transaction | publishes on the bus, inserts into the store, mints from the CA |
| Body tee (`tee.rs`) | capture buffer, total, truncated | push, finish, drop | delivers to the finalize task |
| Session store (`store.rs`) | tables `transactions` and `bodies`, blob files, the writer's channel, `inserts_since_prune` | open, insert, query, get, clear, prune | called by engine and controller |
| System proxy (`networksetup.rs`, `macos.rs`, `controller.rs`) | settings of the OS, snapshot and guard files, `system_proxy_enabled` | enable, disable, restore_if_dangling, stop, prepare_exit | runs on blocking threads, reads the engine's port |
| Event pump and view (`main.rs`, `store.ts`) | broadcast channel, buffer, table (`txs`, `order`), selection, detail pane | publish, receive, tick, init, applyBatch, select, clear | consumes the bus, queries the store |
| Certificate authority (`ca.rs`) | certificate file, key in a secret store, CA in memory, cache of leaves | ensure_ca, cert_pem, mint | made at start, used by handshakes, exported and installed by commands |
| Settings and session (`config.rs`, `controller.rs`) | settings file and its copy in memory, the slot `running`, listeners | load, save, set_settings, start, stop, status | starts engines over the authority |
| Request policy (`proxy.rs`) | none: pure functions | pattern_matches, strip_hop_headers, display_host, absolute_uri | used by the engine |
| Upstream client, keychain, UI components | library or rendering | — | — |

Hard behaviour, by kind (`PROJECT.json` "hazards" has it line by line):

* *Concurrency.* Connection tasks aborted by the accept loop against detached
  tasks that watch for a stop themselves; a handle future dropped at an await;
  hosts pinned by one connection while another asks for them; UI requests and
  event batches interleaving; commands of the system proxy against stop and exit.
* *Ordering.* Events against ids; completion against the store's reply; inserts
  hoisted before other messages of a drain; prune by id against late inserts.
* *Failure and crash.* Multi-statement clear and prune, files outside the
  database transaction, snapshot and guard files, lag of the bus.
* *Files written in place.* A certificate, a key and a settings file that a
  crash or a full disk cuts short.
* *Locks.* An async mutex held across the end of the accept loop, a mutex held
  while a CA is made, and handshakes that need the second.
* *Liveness.* Finalize tasks waiting for two captures, stop draining, callers of
  the store, rows of the table.

What makes each component correct: one story per transaction on the bus, stored
before it is announced (engine); rows intact with their bodies, ids ordered over
restarts, clears final, replies true (store); settings repairable wherever the
process dies and a truthful switch (system proxy); a consistent table and a pane
that starts to show nothing but what is selected (view); one CA on disk, in memory, behind every leaf
and in the user's hands (authority); one listener, settings in memory that are those
acknowledged and saved, and commands that return (session); captures that are prefixes and found once announced (tee
to detail).

## 2. Modules

| Module | Models | Notes |
|---|---|---|
| `Recording` | what engine and store promise about a transaction (abstract) | begun in the order of ids, sent, answered for once, announced once after that; all forgotten with the process |
| `Engine` | the capture pipeline | Implements `Recording`. The bus is the sequence of events of each transaction, the store one answer per insert. |
| `SessionLog` | what the store promises about its table (abstract) | grows by whole batches, wiped as a whole, trimmed of its surplus |
| `Store` | the store's writer thread, callers, disk and restarts | implements `SessionLog` under `log[i] = rows[i].run` |
| `SystemProxy` | the system-proxy switch, command by command | a slot is one setting of one network service |
| `TrafficView` | bus, event pump, live table and detail pane | |
| `CertAuthority` | the root CA, its files, the leaf cache and their callers | |
| `Session` | the controller's start, stop and settings, over runs of the program | extends `CertAuthority` and implements it |
| `Tee` | the capture of a streamed body | operators and the reference `IsPrefix` |
| `Pipeline` | body, tee, finalize task, store and detail request together | extends `Store` and `Tee`; implements `Store` and `Recording` |
| `EngineProofs`, `StoreProofs`, `CertAuthorityProofs`, `SessionProofs`, `PipelineProofs`, `SystemProxyProofs`, `TrafficViewProofs` | theorems | |
| `OrderFacts` | lemmas about least and greatest elements and ranks in finite sets of numbers | used by `StoreProofs` and `TrafficViewProofs` |
| `MC*` | instances for TLC | |

### Engine

`conn[c]` is what the task of a connection does (`open`: `serve_conn`; `dialing`:
`start_tunnel`; `upgrading`, `handshaking`, `mitm`: the task of `mitm_serve`;
`handed over`: to the task of a tunnel, which looks at the watch itself; `bridged`: to the
task of a websocket, which does not). `tx[i]` joins `TxData` with the
task that holds it. Every await of the code separates two actions; code between
two awaits is one action. `Cancelled(c) /\ HangUp(c)` is what `abort_all` and the
select on the watch do; a client may hang up at any time as well. `DropExchange`
is the handle future dropped at the await of `forward`. `events[i]` and `row[i]`
record what consumers saw and what the store answered.

### Store

The writer is modelled statement by statement: `Drain`, `Stage` (one insert of
the open database transaction, a file written at once), `Commit`, `Reply`, the
three steps of `prune` and of `clear`, with a failure or a crash possible
between any two of them. `rows[i].run` names the run of the program that
recorded a row: ids are reused after a clear and a restart, so a body or a file
that belongs to an earlier run must not be taken for the row's own. `Crash` may
leave a torn file. Queries change nothing and are abstracted to `Read`.

### SystemProxy

`job[w]` is how far worker `w` is in `enable` or `disable`; each command of
`networksetup` and each file operation is a step, and may fail or be the last
one before the process dies. `own` remembers the user's settings. `Start` and the
part of `stop` behind the lock `running` are atomic; the flag is not. Neither
`Enable` nor `Disable` looks at the flag, as `set_system_proxy` does not: the interface
sends the opposite of the status it last showed.

A slot that is off is `Off` with the server the user left in it, or none, and `Spent`
with 127.0.0.1 and a port of ours: `restore_one` only switches a proxy off that was
off, so what `enable` wrote there stays (`Restored`). An `Absent` slot belongs to a
service that is not there yet. The services are listed anew by each `enable` and by a
`disable` without a snapshot (`Listing`); `Appears` adds one, in the runs only while the
switch is off and neither guard nor snapshot is left (`Roaming = FALSE`).

### TrafficView

The engine's side keeps only what the view tells apart: a transaction is
announced (Started, Updated), stored, completed. `Publish` drops the oldest event
of a full channel. The pump moves events to its buffer and emits them on a tick.
The three requests of the view (`init`, `select`, `clear`) each have a sending, a
serving and an answering step; `Overtaking` says whether answers may arrive out
of order, `Faults` whether requests may fail. A `select` that fails ends the loading
and leaves the details that were shown (`GetFails`), as the `catch` of the code does.

### CertAuthority

A generation is a key pair with its certificate. `certFile` and `keyFile` hold a
generation, nothing, or a torn write; `inner` is the CA loaded by this process,
`cache` the leaves, `given` every certificate that was exported or installed as
trusted. `task[t]` is a caller: a command or a handshake, with one step per
region of the code between two locks or two writes. The mutex of `inner` is held
across the two writes of `generate_ca` (`SetKey`, `WriteCert`), so there the
holder is named by its pc; loading and signing happen under the lock in one step
each. `Breaks` is any `?` of the code, with what a cut-short write leaves
behind, `Restart` the same for the whole process. The user may delete the
certificate, as an error message asks, and may lose the key.

### Session

The `Controller` as its commands see it: `ctl[c]` says how far command `c` is in
`start`, `stop` or `set_settings`; the guard of `running` lives across
`Guarded`. The engine is its listener: told to stop, its accept loop ends some
time later (`AcceptLoopEnds`), which `stop` awaits. Once a proxy has listened (`served`),
handshakes mint, after a stop too: the task of an upgrade is detached. `export_ca` and `install_ca_trust` take no lock of the
controller. `acked` remembers the settings the user was last told are in force.

### Recording

The engine and the store meet in `finish_transaction`, and each was modelled with
a simple picture of the other: `Engine` sees one answer per insert, `Pipeline` one
body per transaction. `Recording` is what both pictures must agree on. `Engine`
maps to it what the outside sees (`StageOf`: the events on the bus and the
store's answer, not the phase alone); `Pipeline` maps its calls and announcements,
with a batch answered in one step and a crash as `Forget`. `PromiseSpec` is the
refinement in both modules.

### Tee and Pipeline

`Push` is `CaptureGuard::push`; bytes are their positions in the body. In
`Pipeline` a body flows in frames of any size, ends in any way, and leaves its
capture to the finalize task, which calls the store of `Store` and announces the
transaction after the reply. `AskGet` is a request for the detail, sent at any
time; its answer is computed by the writer from `rows`, `bodies` and `files`
(`Detail`, `LoadBody`), so that what is stored and what is read back are two
different computations. `wanted[n]` remembers whether the transaction was
announced when it was asked for.

## 3. Runs

| Run | Bounds | What it shows |
|---|---|---|
| `MCEngine` | 2 connections, 1 host, 2 starts, 2 transactions; 3.3 M states | `TypeOK`, `OneStory`, `StoredWhenAnnounced`, `PromiseKept` |
| `MCEngineFair` | 1 connection, 2 hosts (one configured for passthrough), 1 start, 2 transactions | `StopDrains`, `AnsweredIsRecorded` |
| `MCEngineLost` | 1 connection, 1 transaction | refutes `EveryExchangeRecorded` |
| `MCStore` | 3 ids, 2 runs, 1 read or clear, batches of 2, cap of 1 row, prune every 2; 3.2 M states | `TypeOK`, `RowBodyIntact`, `OrderAcrossRuns`, `ClearIsFinal`, `AnswerIsTrue`, `LogSpec` |
| `MCSession` | 2 commands (1 saves) and 1 handshake, 2 hosts, 2 generations, cache of 1 leaf, 2 ports, every fault; 1.8 M states | `TypeOK`, `KeyBehindCert`, `LeavesChain`, `GivenIsSigner`, `OneListener`, `HandshakeNeverLoads`, `SavedIsKept`, `NoDeadlock`, `EveryPathGoesOn` |
| `MCPipeline` | 2 ids, 2 reads or clears, bodies up to 3 bytes in frames up to 2, capture of 2, inline up to 1, cap of 1 row, prune after each insert; 0.2 M states | `PTypeOK`, `CaptureIsPrefix`, `RetentionInRun`, `GetIsTrue`, `PromiseSpec`, `CallsAnswered`, `OverIsAnnounced` |
| `MCSystemProxy` | 1 caller, 3 slots, 2 ports, crashes and faults, services that appear while the switch is off; 0.3 M states | `TypeOK`, `Repairable`, `SnapshotIsUsers`, `SwitchIsTrue` |
| `MCSystemProxyUndo` | 1 caller, no crash, no fault | refutes `Reversible` |
| `MCSystemProxyExit` | quitting while a command is in flight | refutes `NothingLeftOnExit` |
| `MCTrafficView` | 2 transactions, bus of 2, table of 1 row, 1 clear, a request of the user and a refresh, requests that fail; 4.1 M states | `TypeOK`, `TableIsWhole`, `LoadingEnds`, `RowsAreOwed`, `NoOtherShown` |
| `MCTrafficViewStale` | 2 transactions; answers in order, requests that fail | refutes `DetailIsSelected` |
| `MCTrafficViewDetail` | 2 transactions; no fault, lag or overtaking | refutes `FreshDetail` |

Why these bounds: two connections and two starts are what the engine's hazards
need (one connection pins, the other asks; an old engine's task acts during the
next engine); with one connection all properties but `PromiseKept` are still
exercised, which is why liveness uses one. For the store, two runs give id reuse
and leftovers of an earlier run; with a cap of one row and three ids a prune has
something to delete, and a late insert something to be older than. Three slots
give a first, an inner and a last command. In the view a bus of two and a table
of one row make lag and the dropping of rows the normal case.

In the session two commands and a handshake put every pair of callers at the two
locks at once, with a third behind them; two generations tell an old CA from a new
one (a generation that is nowhere any more may be used again), and a cache of one
leaf is emptied by the second host. In the pipeline a body may be empty, inline,
in a file, at the limit and beyond it; a prune that keeps one row removes
announced transactions, and the two requests let a clear overtake a read.

Bounds that are not in the code: `MaxTx`, `MaxId`, `MaxStarts`, `MaxRuns`,
`MaxAsks`, `MaxPort`, `MaxClears`, `MaxGets`, `MaxBatches`, `NumGens`, `MaxBytes`,
`MaxFrame`, and the numbers of `Tasks`, `Callers` and `Savers`. `MaxGets` leaves
room for a refresh, so the view never waits for the user because of a bound.
`StopDrains` has an escape for a connection that waits for a transaction
number beyond `MaxTx`. TLC's deadlock check is off except for `SystemProxy`: the other systems may
stop when their bounds are used up, and a proxy with silent clients rightly does
nothing. In `Session`, where commands could wait for each other, `NoDeadlock`
says what must not happen.

### Fairness

* Engine: weak fairness of every step a task takes by itself (the runtime polls
  ready tasks, drops aborted ones) and of the store's reply. None for clients and
  upstreams, with one exception: `DropBodies` assumes that the upstream client lets go
  of a request body, and with it of its capture, once the exchange is over.
  `StopDrains` excepts what nothing in the code cancels: a TLS upgrade or handshake
  that a silent client leaves hanging, and a websocket, whose bridge is a detached
  task in `copy_bidirectional` that never selects on the watch. A websocket outlives
  the stop, and the proxy that is started next, for as long as its two peers keep it
  open (`BridgeEnds` has no fairness). A tunnel counts as ended only when its own task
  has left `copy_bidirectional` (`Tunnelling`).
* Pipeline: the store's writer is one thread in a loop, the finalize tasks are
  polled by the runtime; weak fairness of both. None for bodies, requests,
  crashes or failures.
* Session: none. `NoDeadlock` is an invariant: whoever waits, for a lock or for the
  accept loop, waits for somebody who is on the move. Which steps are open to whom
  is written there as a predicate on the state (`TaskGoes`, `CommandGoes`), so that it
  can be proved; `EveryPathGoesOn` checks with ENABLED that those predicates
  say no more than the actions' guards. That each command returns would need the
  fairness of both mutexes, and the instances get too large for TLC.
* View (`FreshDetail` only): the pump's loop and timer, the handling of batches, and
  answers. None for the engine or the user.

### What the refuted properties say

* `EveryExchangeRecorded`: a client that hangs up (or a stop) while `forward`
  awaits the upstream leaves a transaction that was announced, is never completed
  and never stored; its row stays active in the table.
* `Reversible`: a `disable` that finds no snapshot switches every service off, the
  user's own proxy included. The run finds it without a crash, a fault or an overlap:
  `set_system_proxy(false)` does not look at the flag, so it is enough to ask for it
  while the switch is off, as a second click on a switch that has not been redrawn
  does. With crashes there is another way to it: `disable` removes the snapshot, then
  the guard, and dying in between leaves a guard without a snapshot to the next launch.
  With faults a guard that cannot be removed stays behind in the same way. All of them go
  through such a disable (`Blind`): `ReversibleTheorem` proves the promise of every behaviour
  without one, within the limits of the model (see 5), and `OrderlyTheorem` that without
  crashes and faults only a switch-off of what is off (`AskedOff`) is one.
  `Reversible` compares what is in effect. It does not see that a proxy
  which was configured but off comes back with our address in place of the user's:
  `restore_one` never puts that back, though the snapshot has it.
* `NothingLeftOnExit`: `prepare_exit` looks at a flag that is set after `enable`
  returns. `NothingLeftTheorem` proves the promise of a user who waits for the
  command in flight, when commands succeed.
* `DetailIsSelected`: A's details are shown, B is selected, and the request for B fails.
  `select` ends the loading and keeps the old details, and the pane shows A under B's
  selection until something else is selected. `DetailTheorem` proves the
  property of views whose requests do not fail; `NoOtherShown`, which holds with
  failures too, says that the pane never *starts* to show what is not selected.
* `FreshDetail`: B is selected while A's details are shown; B completes before
  its own request is answered (with nothing, as B was active when it was served).
  `applyBatch` sees A's details, which are final, and does not ask again.

`RetentionInRun` is stated within a run because it is not true across runs:
`inserts_since_prune` is lost at exit and nothing prunes at open, so short
sessions add up beyond the cap that `store.rs` documents.

## 4. Proofs

All theorems are checked by `tlapm` with Z3, Zenon and LS4, from the assumptions
on constants that the modules name (bounds are natural numbers, the batch cap is
at least two, caps are positive, one save at a time). The safety theorems of
`SystemProxyProofs` also assume `OneAtATime`: one command of the switch at a time, a
user who does not quit during it, and services that appear only while the switch is
off and nothing is left to repair (`~Roaming`); `NothingLeftTheorem` adds that no command
fails (`~Faults`), `ReversibleTheorem` that no disable is `Blind`, and `OrderlyTheorem` that
no command fails, nothing is killed (`~Crashes`) and nobody switches off what is off
(`AskedOff`). `OverlapTheorem`, `FlagTheorem` and
`LeaveTheorem` of the same module keep `~Roaming` and replace the rest of `OneAtATime` by a
condition on the behaviour: which commands may be in flight together. `DetailTheorem`
assumes that no request fails. They hold for any number of
connections, hosts, starts, transactions, ids, runs, tasks, commands and ports,
and any limits.

* `EngineProofs`: `EngineInv` is type correctness plus, for each transaction, what its
  phase implies (which fields are set, which ids are allocated, its story so far,
  the store's answer), and for each connection and pinned host, that every host an
  engine has shown as opaque is configured or pinned. The strengthening is needed
  because neither `OneStory` nor `PromiseKept` is inductive: the first needs the
  kinds and errors that go with a phase, the second that a recorded handshake
  failure was preceded by the pin. `TxStepInv`, `ConnStepInv` and `NextInv` take
  the actions one by one. Results: `TypeTheorem`, `OneStoryTheorem`,
  `StoredWhenAnnouncedTheorem`, `PromiseKeptTheorem`. `EnginePromiseTheorem` is the
  refinement of `Recording`: by `StageIsPhases` what the outside sees of a transaction is
  told by its phase, so `PhaseMoves` takes the actions one by one, and a fresh
  id is above all that are in use (`AllocateBegins`). `NothingElseLostTheorem` is what
  holds where the run refutes `EveryExchangeRecorded`: an exchange is lost only
  while its upstream is awaited; what has been answered or tunnelled goes on to the
  store and its announcement, and keeps its row, its error and its story.
* `StoreProofs`: `StoreInv` relates the writer's phase to the batch, the queue to the
  calls, ids to runs, and rows to bodies and files. Results: `TypeTheorem`,
  `RowBodyTheorem`, `OrderTheorem`, `AnswerTheorem` and `LogTheorem` (the refinement
  of `SessionLog`: `Commit` maps to `Store`, `ClearRows` to `Wipe`, `PruneRows` to
  `Trim`, everything else stutters).

* `ClearTheorem`, also in `StoreProofs`, needs to know of each transaction on its
  way to the table whether an unacknowledged clear covers it: `WaitingInv` (what
  waits in the channel or in a drain), `CoverInv` (a clear ahead of its inserts
  never covers them) and `ClearInv`, which carry a clear from its sending to its
  acknowledgement through drains, failures and crashes.
* `CallsTheorem` and `GoOnTheorem` follow from the same invariants. They are the safety
  part of `CallsAnswered`: a call that waits is in the channel exactly once
  (`QueueInv`, `WaitingInv`) or in the batch at work (`PhaseInv`), and unless the process dies
  a call only goes on, to one answer.
* `RetentionTheorem`, there as well: `KeptInv` ties the number of rows of the run to
  `sincePrune`, the batch on its way and the cap, phase by phase. A prune keeps the
  newest rows (`NewestFit`: as many as the cap, and closed upwards), a commit adds as
  many rows as `Reply` will count. `RetentionInRun` alone is not inductive: between
  the commit and the reply the counter lags behind the table.
* `CertAuthorityProofs`: `CAInv` says who holds the lock, what the task that makes
  a CA has written so far, and that file, secret, memory, cache and gifts agree.
  `KeyBehindCert` alone is not inductive: that no second task is between the two
  writes is what the lock is for.
* `SessionProofs`: every step of `Session` is a step of `CertAuthority` or a stutter
  (`ImplementsTheorem`), so the authority's theorems hold of the session. On top of
  it `SavedInv`, `ProxyInv` (who holds the guard of `running`, and what it implies
  about listeners) and `LoadedInv` (a listener implies a loaded CA). For
  `NoDeadlockTheorem`, `OpenInv` says that a command is in a call of the authority exactly while it is in
  `start` (or has none of its own to finish), and `CAInv` that who holds the CA's lock
  waits for nobody; so the waiting for `running` ends at a command that moves, or at
  an accept loop that was told to stop, and no cycle of waiting can close.
* `PipelineProofs`: every step of `Pipeline` is a step of `Store` or a stutter
  (`PipelineImplementsTheorem`), so `StoreProofs` applies. `TeeInv` is `CaptureIsPrefix`
  with the lengths; `PushGood` is the lemma about `Push`. `PlaceInv` (a row says where
  the captured bytes are) and `ToldInv` (who was announced, and what was promised to
  a read) give `GetIsTrueTheorem` and, of the table itself at any time, `AnnouncedTheorem`.
  `OverTheorem` is the safety part of `OverIsAnnounced`: a transaction that is over is to be
  sent, is with the store (`CallsTheorem`), or has its answer. `PipelinePromiseTheorem` is the refinement of
  `Recording`: `Handle`, `Record`, `Announce` and `Dies` map to `Begin`, `Send`,
  `Announce` and `Forget`, `Reply` to the `Answer` of its batch, all else stutters. With
  `EnginePromiseTheorem` it is what entitles `Engine` to a store of one answer per
  insert.
* `SystemProxyProofs`: `TypeTheorem` holds for any number of commands at a time. Under
  `OneAtATime`, `ProxyInv` gives `RepairableTheorem`, `SnapshotIsUsersTheorem` and
  `SwitchIsTrueTheorem`. Its parts: `AloneInv` (at most one worker, and in which
  stage of the process), `EnableInv` and `DisableInv` (what each command of a worker
  implies: which slots are already ours or already restored, whether the guard file
  exists, that the sheet it saves or restores is the user's) and `SheetInv` (the guard file
  exists or the settings are clean; the snapshot is clean; the switch is true). None
  of the three properties is inductive: that the guard file may go needs every slot
  to have been restored by then, and that the snapshot is the user's needs the
  settings to have been clean when they were listed. Without `OneAtATime` an enable
  and a disable interleave command by command and the argument fails, as the code
  takes no lock (`controller.rs`, `set_system_proxy`). Two promises that runs refute
  are proved under the conditions that exclude what the counterexample does:
  `LeftInv` (a program that has exited left clean settings, unless a command failed) gives
  `NothingLeftTheorem`; `BackInv` (without a guard file the settings are in effect the user's,
  and a snapshot is of them, as are the sheets that commands work from) gives
  `ReversibleTheorem`, which excludes the one thing `BackInv` does not survive, a disable that
  reads no whole snapshot (`Blind`). That is a condition on the behaviour and not on the
  environment; `OrderlyTheorem` derives it, from `OrderInv` (where guard, snapshot and flag go
  together when nothing fails and nothing is killed), for those who only switch off
  what is on. Both need `PresentInv`: a snapshot, and a sheet that is saved or restored,
  covers the services there are, which is false with `Roaming`.
* `SystemProxyProofs`, with any number of callers and a user who quits at any moment.
  TLC shows that nothing of the above holds of two callers without a condition: an
  enable that has read the guard file before a disable removes it sets slots
  without one (`Repairable`), an enable that lists while another sets saves settings
  of ours as the user's (`SnapshotIsUsers`), and the second of two disables finds no
  snapshot and switches off what the first has restored (`Reversible`, with the
  user's settings lost). `OverlapTheorem` proves the first two of every behaviour in
  which an enable overlaps no other enable and no disable (`EnablesApart`). Its `HeldInv`
  keeps of `EnableInv` and `DisableInv` what a worker can rely on while others disable:
  a disable only ever makes slots cleaner, so a slot that was restored stays clean and the
  guard file may go (`OthersHold`). `FlagTheorem` proves `SwitchIsTrue` when nothing is in
  flight beside an enable (`EnablesAlone`: a stop or an exit takes the flag down first, so it
  must not fall into an enable either), and `LeaveTheorem` the promise of `NothingLeftOnExit`
  under the same condition for a user who waits and commands that succeed. By `AloneTheorem` one
  command at a time is a special case. For `Reversible` no such condition was found but
  `OneAtATime`: two disables are enough to break it.
* `TrafficViewProofs`: `ViewInv` is the type plus the shape of the live table: each row
  once, no more than the cap, and an answer to `init` no longer than its limit; `TypeTheorem` and `TableTheorem` follow. `InOrder` sorts the ids of an answer,
  and the lemmas of `OrderFacts` about ranks say that it lists each of them once.
  `LoadingTheorem` (whoever loads has asked) follows requests through a queue from which
  answers and failures take any element. `OtherTheorem` is `NoOtherShown`, action by
  action: an answer is shown only while what it answers is selected. `DetailTheorem` is
  `DetailIsSelected` of a view whose requests do not fail, where it is inductive as it stands.
* `TrafficViewProofs`, completions: `OwedTheorem` is `RowsAreOwed`. A row
  that is active though its transaction is complete has the completion on its
  way, in the bus, the pump's buffer or a batch, unless the bus dropped it; with nothing on its way the
  table has caught up (`CaughtUpTheorem`). `OwedInv` alone is not inductive: that an event
  of a batch does not turn a final row back needs `StreamInv`, that the completion
  is the last event about its transaction in the bus, in the buffer, in each batch and
  from each of them to the next. `AppendEvent` and `TailEvent` say what a sequence holds
  after an event joins or leaves it, `AppliedRow` what a batch makes of a row.

* `OrderFacts`: `MinIsLeast`, `MaxIsGreatest` and what follows for the elements above
  and below one another, which the prune and the sorted table need.

Only model-checked: the liveness properties (`StopDrains`, `AnsweredIsRecorded`,
`CallsAnswered`, `OverIsAnnounced`) and `EveryPathGoesOn`, because liveness
under fairness and ENABLED are out of the prover's reach. The safety part of two of
them is proved: what they wait for is never lost (`CallsTheorem`, `OverTheorem`). Every other property of a
passing run, invariant, action property or refinement, is a theorem.

## 5. Not modelled

The pure request policy functions (`pattern_matches`, `strip_hop_headers`,
`display_host`, `absolute_uri`: stateless, and unit-tested case by case); byte
counts of tunnels; the flag `completed` of a capture, which nothing reads; the
contents and validity of certificates; ephemeral ports (port 0); the upstream
client, TLS and HTTP themselves (libraries: the engine sees how they end);
the commands behind keychain and trust; data types, command wrappers and
rendering. Two saves of settings at a time are excluded (`SessionAssumption`):
the view saves after a start has returned, and with two no lock would cover disk and memory. SQLite and the file system are assumed to
do what the code relies on: a database transaction is atomic, a single statement
is atomic, a file write may be torn. Two concurrent callers of the system-proxy
switch are outside the runs; the model allows them (`Callers`), and the proofs say when
they do no harm.

Of the system proxy: services that appear while the switch is on, while it is being
moved, or before what a crash left is repaired are outside runs and theorems but
in the model (`Roaming = TRUE`), and TLC then refutes `Repairable`, `SnapshotIsUsers`,
`SwitchIsTrue` and `NothingLeftOnExit` with one command at a time, no crash and no fault:
a second `enable` sets the new service to our port, and no `disable` gives it back, as the snapshot
does not know it. Services never go (or become disabled) in the model, though a command
on one that went would fail, and the user edits no setting while the program runs. A
snapshot that is whole but cannot be read for once counts as none in the code; that
is left out. A crash of the operating system, which may lose a file written before it, is too.

`exists()` in `ensure_ca` is taken at its word: in the code it also says no when the data
directory cannot be searched, and `generate_ca` would then replace the key of a whole
certificate, against `KeyBehindCert`. `SavedIsKept` is about the order of file and memory
in one save: settings acknowledged earlier do get lost when a later save is cut short, which
it excuses, as it takes what a launch loads for acknowledged. `TableIsWhole` and
`RowsAreOwed` say that the table is consistent and owes nobody a completion; that it is
sorted (`store.ts:17` says it is), that a row overwritten by `init` comes back, and that no
row reappears after a clear are not properties here, as the code does nothing to ensure
them. Nor does any property say how an exchange whose body
broke off should be recorded: the code finalizes it as completed.

## 6. Plan

What is left, in this order:

1. A run with two callers of the system-proxy switch under the condition of
   `FlagTheorem`, should the interface come to serialize its commands.
2. `Policy`: the pure functions against reference definitions.
