# Tractus in TLA+

Tractus is a scope firewall for coding agents. A user agrees on a *contract*
(paths, operations, git operations, dependency changes, network), and every
shell command or native edit the agent wants to run is first put to a daemon,
which allows it, blocks it with a proof, or holds it until a human decides.
This directory models the parts of that program where order, interleaving and
failure decide whether the promise is kept, checks them with TLC on small
instances, and proves the central ones with TLAPS for every instance.

Paths below are relative to `src/`. "Modelled" means that every operation of
the part that changes state is an action.

## 1. The system

    agent (Codex) -- hook / shim --> tractusd --> classifier, checker, loop detector
                                      |   \--> Docker twin (pool of warm containers)
       console <-- event stream ------/
          \------ set_contract, resolve --> tractusd
    tractus new/use/codex --> contract store --> launcher --> tractusd, agent

| Component | State | Operations | What makes it correct | Here |
|---|---|---|---|---|
| Connection handlers and shared state: `tractusd/src/server.rs`, `state.rs` | active contract, registered contracts, session bindings, histories, pending holds and reports; one task per connection | `set_contract`, `propose`, `propose_edit`, `resolve`, `report`, the hold's timer | nothing is let through that the governing contract does not permit, unless a human approved it; a decision reaches the client that waits; executions are recorded once, under their own contract; no handler wedges | `Daemon` |
| Loop detector: `tractus-core/src/history.rs` | a window of executed commands per session key | `record_execution`, `loop_detected` | the window is bounded; only failures of one signature add up | `History` |
| Contract checker: `tractus-core/src/verdict.rs`, `contract.rs` | none | `check`, `combine_verdicts` | in scope exactly when every clause permits the effects; severity orders a compound's verdict | `Verdict` |
| Docker twin and its pool: `tractusd/src/twin.rs` | ready units, generation, replenishing tasks, containers | `speculate`, `invalidate`, replenish, reap | a unit serves one command; no unit survives an invalidation; no container leaks; writes to the workspace are noticed; the pool refills | `TwinPool` |
| Event bus: `server.rs` (`subscribe`, `emit`) | a broadcast channel of 128 events and each receiver's place in it | publish, receive, lag | a subscriber misses nothing without its stream ending | `Session` |
| Socket bind: `server.rs` (`bind_default_listener`), `tractus_socket.rs` | the socket file | probe, connect, unlink, bind, listen | a live daemon keeps its path | `SocketBind` (not the choice of the path) |
| Shim client: `tractus-shim` | one proposal's connection | propose, read, wait, run, report | runs a command only after `allow`, and gives up only when no answer can come | `Session` |
| Codex hook: `tractus-hook` | none | reads the paths off an edit; one proposal per tool call | names every path an edit touches; denies whenever it is not answered, if it lives to say so | `PatchPaths`, `Session` |
| Contract store: `tractus/src/store.rs` | contract documents, the state file | create, list, activate, load the active one, prune, set the limit | the active id names a document; pruning spares it | `ContractStore`, with `Shelf` |
| Launcher: `tractus/src/launcher.rs`, `main.rs` | a started daemon, the attempts left | choose, activate, register, start a daemon, start Codex | Codex runs under the contract chosen, taken by a live daemon; a launch that gives up on its daemon leaves none behind | `Launch`; the prompts of `new`: `Grants` |
| Parser: `tractus-core/src/parse.rs` | none | `parse_with_env` | a command line is read as the shell reads it, or not at all | `Parser` |
| Classifier: `tractus-core/src/classify.rs`, `corpus.ron` | none | `classify` | what a command is declared to do does not depend on how it is spelled | `Classifier` |
| Console: `tractus-console` | the page's ledger, explanations under way | relays events and `resolve`; makes a contract of a request | the ledger shows what happened; its contracts mean what the launcher's do | `Session`, `Grants` (not the language model, the terminal, the cards) |
| Project initialiser: `tractus/src/init.rs` | `hooks.json`, `config.toml`, their backups | read, back up, truncate, fill | nothing of the user's is lost; one entry, however often it is run | `Setup` |
| Evaluation harness: `tractus-eval` | a benchmark's results | a sequential driver | outside the product | not modelled |

What is hard, and where it bites, is listed line by line under `hazards` in
`PROJECT.json`. In short: a proposal is judged with a contract and a history
cloned before an await on Docker; proposal ids are the client's and may be
reused while one of them is held; a human's decision races the hold's timer;
reports are taken and recorded in two critical sections; clients and the daemon
die at any moment, and the daemon keeps nothing on disk; the twin's pool makes,
invalidates and hands out snapshots in tasks of their own while the workspace
changes under it; the adapter that waits has a timer of its own, and reads an
answer as if lines came one at a time; the store is a directory that several
processes read and write without a lock; and a contract is only as good as the
reading of the command and of the grant, which are functions of text with many
corners.

## 2. The modules

`History` and `Verdict` are pure. `Daemon` extends them and is the core.
`Firewall` is the abstract specification that `Daemon` implements. `TwinPool`
stands alone: to the daemon the pool is what `speculate` returns. `Session`
looks at one agent's commands from both ends of the connection, with the daemon's
judgement left open, since `Daemon` is about that. `Launch` composes the store
and the socket; `ContractStore` implements `Shelf`. The five modules under
`MCFrontEnd` are about texts and files and share nothing.

    History <- Verdict <- Daemon <- MCDaemon, DaemonProofs
                               \-- INSTANCE Firewall
    TwinPool <- MCTwinPool, TwinPoolProofs
    Session <- MCSession, SessionProofs
    ContractStore, SocketBind <- Launch <- MCLaunch, LaunchProofs
          \-- INSTANCE Shelf
    Parser, Classifier, PatchPaths, Grants, Setup <- MCFrontEnd
    Parser, Classifier <- CommandProofs   PatchPaths <- PatchPathsProofs
    Grants <- GrantsProofs                Setup <- SetupProofs

**History.** A history is a sequence of entries; `RecordExecutions` is
`record_execution` for each segment of a compound, trimmed to `Window`
(`WINDOW_SIZE`), `LoopDetected` the scan for `Threshold` (3) failures of one
signature. A signature is the command's shape with its exit class, as
`command_signature` makes it: two lines that it normalises alike have one
`Shape`. Entries carry two auxiliary fields: which execution they come from and
the segment's place in it.

**Verdict.** A contract is what its compiled form can answer: the set of paths
its globs match, its operation bits, its flags. `Breaches` collects the traces
of `check` clause by clause; `CombineVerdicts` is `combine_verdicts`. `Permits`
is the independent definition of what a contract allows, against which the
verdicts are judged.

**Daemon.** tractusd runs on one thread (a `current_thread` runtime), one task
per connection, and a task yields only where it awaits. An action is the code between two awaits that another task could tell
apart; `handlers[c]` is the frame of the task of connection `c`, so a contract
and a history cloned before an await stay in the frame while the shared state
moves on.

| Action | Code |
|---|---|
| `SetContract` | the `set_contract` request: checked, stored as active or under its id, acknowledged |
| `Propose`, `ProposeEdit` | look-up and binding of the contract, cloning, parsing, every classified segment judged |
| `TwinObserves`, `TwinFails` | the await on the twin for the next unclassified segment |
| `RespondAllow`, `RespondBlock`, `RespondHold`, `RespondHoldToClient` | the verdict acted on; a report owed, a sender registered |
| `Resolve` | a decision removed from `pending_holds` and sent |
| `HoldExpire`, `HoldFinish` | the timer; the end of a hold whichever way, with the removal of the id's entry |
| `ReportTake`, `ReportAppend` | `record_report`'s two critical sections |
| `ClientGone`, `Restart` | a closed connection; the daemon dies and starts empty |

The command line itself is an input: parsed into segments with their declared
effects or `Unknown`, opaque, or with an unresolved variable.

**Firewall.** What the other end of a connection may rely on: fit commands are
allowed, unfit ones blocked, unsure ones handed back or held until a human
approves; failure never allows. Under the refinement mapping "fit" means that
the contract *permits* every effect, by `Permits`, and not that a verdict said
so.

**TwinPool.** `ready`, `generation` and each replenishing task, invalidating
task and speculation with its own program counter. `CopyWorkspace` and
`RunContainer` keep apart the copy and the later fingerprint of
`create_ready_unit`; `Push`, `DropUnwanted` the second look under the lock;
`SpeculatePooled`, `SpeculateStale`, `SpeculateWithout` the three ways a call
begins, with no await between pop and freshness check; `Try` takes any ending
of `docker exec` for an observation, as the code does. `RunFallback` starts the
call's own container, with an overlay or with a copy, and `FallbackEnds` and
`FallbackTooLong` end it: the overlay's script makes the upper layer before it
runs the command, so that a container which dies in between leaves effects of a
command that did not run. `ListContainers` and `KillContainer` are the reaper, which runs
while requests are served and takes whatever container it sees, a fallback's too.

The workspace is edited by anyone at any time: a file is written, removed,
renamed (over another one, perhaps), or brought in from elsewhere with an old
modified time (`mv`, `cp -p`, unpacking). A fingerprint has the number of files and
the newest time, as in the code. Time is the number of edits: what is written has a
time of its own, later than all before it. A file system with coarse times, a clock
that goes back and files dated in the future are outside the model.

**Session.** A command has an adapter (`client`), the daemon's handler of its
connection (`handler`), the lines on their way (`arrived`), and its events; a
dashboard has a place in the event stream and a card for each command.

| Action | Code |
|---|---|
| `Submit`, `ReadFirst`, `ReadSecond`, `TimeOut`, `EndOfStream` | `submit_proposal`, `read_response`, `read_json_value`; the hook's single read |
| `Execute`, `Acknowledged` | the command run, the report sent and its acknowledgment waited for |
| `Propose`, `Evaluate`, `Respond`, `Decide`, `Conclude`, `Report` | the handler, with the event it emits before each line it writes |
| `Subscribe`, `Forward`, `Lagged` | the `subscribe` loop: broadcast channel, connection, the console's bridge |
| `Show`, `Explain`, `Click`, `Resolve`, `Answered` | the page: an event rendered, an explanation, a button, what becomes of the click |
| `Killed`, `HookFails` | Ctrl-C; a hook that is killed before it answered, after which Codex runs the tool |
| `DaemonDies`, `Tick` | the daemon's end, time |

A read takes everything that has arrived and keeps the first line, because each
call of `read_json_value` makes a `BufReader` and drops it. Time is counted per
command; the daemon does what is due before the next unit, the twin takes any time.

**SocketBind, ContractStore, Launch.** `SocketBind` is `bind_default_listener`
one system call at a time for several daemons, one of which may be foreign (of
another workspace) at the path. `ContractStore` is a call of the store one
access to the disk at a time: the state, the directory, then each listed
document in any order, then the writes, each an atomic rename. `calls[p]` holds
the locals of the call, so a state read at the beginning is written back at the
end. `Launch` is a command of `tractus` on top of both: `RunNew`, `RunCodex`,
`RunLaunch`, `RunRetain` begin it, `SelectContract` is the human's choice,
`CheckSocket`, `Register`, `Attempt`, `TryWait`, `KillChild` the launcher, with the
failures of `spawn` and `try_wait`; `CodexEnds` and `CodexFails` the agent, which may
also not start; `Interrupt` and `Die` deaths anywhere. `Shelf` is what the store promises to one
command at a time: under the mapping, steps taken after two calls have
overlapped (`contended`) are left free.

**Parser.** A line is a sequence of characters. `Modes` gives the state of quotes
and escapes at each, which the three scanners of the source share; `Cut`, `Extract`,
`Replace` and `Read` are one turn of a scanner's loop each, and
`SplitTopLevel`, `ExtractRedirects`, `Substitute`, `Words`, `ParseSegment` and
`Parse` are its functions by their names. **Classifier.** `Corpus` is `corpus.ron`
row by row; a word is its dashes and its parts, so that a bundle of flags and a
path with `..` are told apart without letters. **PatchPaths.** One action per
header of a patch, with the update kept back. **Grants.** The prompts of
`tractus new` one line at a time, the console's normalisation and bit layout,
and the daemon's compilation of globs. **Setup.** `tractus init` one access to the
disk at a time: `ReadHooks`, `BackupHooks`, `TruncateHooks`, `FillHooks`, and
the same for the configuration; other runs, `Kill` and the user's `Edit`s between.

## 3. The runs

| Run | Question | Instance |
|---|---|---|
| `daemon` | all safety properties of the daemon | 2 connections, 1 id (reused), 1 named and 1 active contract, a compound of a classified and an unclassified segment, an opaque line, an edit, 3 proposals |
| `daemon_live` | refinement of `Firewall`; every request ends | 2 connections, 2 ids, 1 contract, 2 proposals, threshold 1 |
| `twin_pool` | types and size, generations, ownership of containers | pool of 2, 2 replenishing tasks, 1 call, 1 invalidation, 1 docker failure, 1 crash, 4 container names |
| `twin_edits` | units used once, writes noticed | pool of 1, 1 replenishing task, 2 concurrent calls, 2 files, 2 edits (write, remove, rename, bring in), 6 container names |
| `twin_live` | the pool refills | pool of 2, 1 call, 1 invalidation, 6 container names |
| `launch` | the store implements `Shelf`; the choice is enforced; registration; no stray daemon; failures have a rival's cause; the socket is kept | 2 commands in 2 processes, 4 contracts, limits 3 and 4, 2 daemons and a foreign one, one fault |
| `session` | nothing runs unpermitted; decisions carried out; timers; the ledger; every command ends | 1 command of the shim, 1 of the hook, 2 dashboards, a channel of 1, one fault |
| `front_end` | how a line, a command, a patch, a grant are read; how the configuration is written | lines of up to 6 characters out of 13, commands of up to 4 words out of 16, patches of 4 lines, all ways through the prompts, 2 overlapping runs of init |
| `daemon_legacy_loop` | *violation*, see section 6 | 2 anonymous contracts in turn |
| `session_lost_answer` | *violation* | as `session` |
| `twin_stale_copy` | *violation* | 1 edit |
| `twin_failed_exec` | *violation* | no edits |

Why these bounds are enough. Two connections on *one* id are the worst case of
the id maps: a held id is proposed again, both handlers race to remove the
entry, reports overwrite each other. Three proposals let a failure be recorded
twice (the loop threshold is 2 in the instance, the window 3, so that a trim, a
loop and the loss of a failure by trimming all happen) and a third be judged
by them. `MaxProposals` is the only bound of `Daemon`; everything else is finite
by itself. Liveness uses two ids so that the two connections hold independently,
and a threshold of 1 so that one recorded failure already makes a loop.
In `TwinPool` the bounds are the numbers of edits, calls, invalidations,
failures and crashes, of tasks under way (the code has no limit: a step that
would spawn one waits for a slot) and of container names (in the code never used
twice; the model takes one that nothing refers to, the least for a unit and the
greatest for a fallback). The six names of `twin_edits` and `twin_live` are as
many as their tasks, calls, pool and invalidation can hold at a time, with one
left over; the four of `twin_pool` make a step that would need a fifth wait until
one is removed, which still leaves room for a full pool and a unit in the hands
of each of the two tasks. Two replenishing tasks
are what it takes to overfill a pool or to push across an invalidation; two
calls to share a unit. The dimensions are split over three runs because their
product is out of reach: the invalidation and the crash need no edits, as a
unit's contents decide only between fresh and stale.

`Launch`: a limit of 3 stands for the code's 10 to 30 and an initial shelf of 3 is
full, so that one creation prunes; four contracts let two processes create, or one
create what the other prunes. `Now` is one instant: `next_timestamp` then has to
make the order itself. Two attempts stand for the launcher's
`DAEMON_STARTUP_ATTEMPTS`: one that fails and one that ends it. Action
constraints, all in `MCLaunch`: `StoreFirst` takes the steps on the store before
those at the socket (they touch different variables, so every other order comes
to the same states), `ByHandOnlyAsSecond` lets a human start a daemon only
beside the one in use, `OneFault` allows one fault at a time, a death or a failed
call of the system; once a daemon was started, `View` forgets the store's
variables, which nothing changes any more, and tells contracts apart by the
processes that run under them only. `contended`, `raced` and
`displaced` are auxiliary: they say that the exemption a property names has
happened, and change nothing. A machine that crashes with writes unsynced is
outside: processes die, the file system does not.

`Session`: a hold of 1 unit and a wait of 2 keep the order of 60 and 65 seconds; a
channel of one event and a backlog of one make every dashboard lag that does not
keep up. `AtMostThree` lets three of the two commands, two dashboards and one
death take part, `OneAfterAnother` keeps the two commands apart while a dashboard
watches (without one they run side by side), `InOrder` numbers the dashboards.
The handler's loop detection is part of `Evaluate`: both a violation and a loop are
"unfit".

`MCFrontEnd`: five characters hold two operators with something on either side, a
redirection inside a quote, an escape before an operator; the lines of five or six
begin with a letter, and those of six have only letters, blanks and redirections before
the last character (`LongLines`), which holds two redirections with a word each. Four words hold a program, its subcommand and two flags or paths. Two
runs of init, one kill, two edits and two seconds make every overlap of one
file's read, backup, truncate and fill; `fs::copy` is one step, and the user does
not save a file in the middle of a run. `#`, newlines and characters of several
bytes are not among the characters.

Deadlock checking is off in every run: when the proposals, or calls and edits, of the
bound are used up and everyone has finished, the model stops, as an idle daemon does.
Symmetry (connections, ids; tasks, calls, files) is used in runs without
liveness only.

### Properties

*Daemon.* `AllowJustified`: whatever is allowed without a human is permitted,
effect by effect, by the contract that governed on arrival, with no loop against
it. `ApprovalOnlyWhenUnsure`: a human is asked only when no segment violates or
loops. `HoldsReachable`: every waiting handler is in `pending_holds` under its
own id, whatever ids are reused. `ResolveHonoured`: an acknowledged decision is
the answer. `NamedContractGoverns`: nothing that carries a contract id ever runs
under a contract not registered for it. `BindingRegistered`: no session is
bound to an id that cannot be resolved. `RecordedOnce`: an execution is recorded
once, under one key. `EveryRequestEnds`, `KeepsPromise`: see above.

*Launch.* `KeepsShelf`: the store implements `Shelf` until two calls overlap. `ChoiceEnforced`: Codex
runs under the contract picked, unless another process activated its own in
between. `AgentRegistered`: it runs only after a daemon of this workspace, not a
foreign one, took its contract. `NoStrayDaemon`: a launch that gives up on the
daemon it started has ended it; where the system fails it, in waiting for that daemon or in
starting Codex, the daemon goes on (section 6). `FailsOnlyByRivals`: a launch fails on a document
or on its daemon's early end only by another process's doing.
`LiveSocketKeptAlone`: no step takes the path from a live daemon, unless two
start at once; section 6 has what happens then.

*Session.* `RunsOnlyIfPermitted`: what runs was judged fit, or approved by a human
before the hold expired, or its hook was killed before it answered (section 6); whatever
lines are lost, and whichever shim or daemon dies. `DecisionCarriedOut`: a decision that the daemon counted
is what happens. `WaitOutlastsHold`: the shim gives up on a hold only if it lost
the answer itself or the daemon is dead. `LedgerFollows`: a card shows the last
verdict emitted, and no event is skipped while the stream is open.
`AllowShownIfPermitted`: "allow" is shown for what was let through, or for an approval that came
too late (section 6). `EveryCommandEnds`: liveness.

*Front end.* `SequencesCompose`: a line cut at a semicolon outside quotes is read
as its halves are. `QuotedStaysTogether`: any text, quoted whole or escaped, is one
argument. `RedirectionIsAnEffect`: what each redirection of its own names is among the
writes or the reads of its command, however many there are; a line with a sign has an
effect; none stays in an argument. A redirection is of its own if a word ends before it
since the last sign, and the word behind it has no sign; the others, and `2>>` and `&>>`,
are exempt, for the code misreads them (section 6). It is stated from the places of the
signs, blanks and operators, and not from what `extract_redirects` goes through.
`FlagsAnywhere`: moving a flag or taking a bundle apart changes nothing, and a flag more
never makes a declaration milder. `EscapesByClimbing`: a path escapes exactly if it climbs out.
`EveryTouchedPathReported`: a patch's writes and deletes are exactly those its
headers mean. `SameContract`: prompts, console and daemon agree bit for bit.
`GrantMeans`: a path is in scope exactly if a grant names it or it is a build artifact.
`NothingLost`, `OneEntry`: what init does to the user's files.

*TwinPool.* `OneGeneration`: units in the pool were copied after the last
invalidation. `ContainersOwned`: a running container has someone who will
remove it, unless its daemon died or its `docker run` was given up.
`UnitsUsedOnce`: a unit in use is neither in the pool nor with another call.
`EditsNoticed`: a unit is used only if nothing was written since its fingerprint, and
nothing is gone without something older having come; renames go unnoticed (section 6).
`PoolRefills`: the pool is full in the end, unless docker failed.

### Fairness

`Daemon`: weak fairness of each connection's twin, answer, timer, end of hold
and recording. tokio polls every runnable task, `speculate` is bounded by
`TWIN_TIMEOUT` for each docker command and a hold by `HOLD_TIMEOUT`. Clients,
humans, crashes and `set_contract` owe nothing, so `EveryRequestEnds` holds
with nobody there to resolve. `TwinPool`: weak fairness of each spawned task, of
calls under way and of the reaper. `docker run` and `docker exec` are timed out by
`run_docker`; `cp`, `docker ps` and `docker kill` have no timer in the code, so
`PoolRefills` also rests on these ending by themselves. `Session`: weak fairness of
each adapter, of each handler and of time; none of the twin, the human, the dashboards or
of `Submit`, so `EveryCommandEnds` holds even if the twin never answers.

## 4. What is proved

Of the properties that the passing runs check, every one of `Daemon`, `TwinPool`,
`Session`, `Launch` and the front end that is not about liveness is also a
theorem: `Spec => []P`, or for `KeepsPromise` and `KeepsShelf` that
`Spec` implements the abstract specification. The theorems hold for any sets of
connections, ids, sessions, processes, files, tasks, daemons, words, grants and
paths, for texts of any length, and any sizes and bounds, from the named
assumptions on the constants only:

* `Daemon`: `Commands`, `Edits`, `TwinEffects`, `Registrable` and `Exits` are within
  their types, the bounds are naturals, `None` is none of the other values.
* `TwinPool`: finitely many files, a pool of at least one, the bound on edits a natural,
  `Absent` neither a time nor a content and `NoUnit` no unit.
* `Session`: a command comes through the shim or the hook, not both; `HoldTimeout <
  HoldWait`, which is 60 s and 65 s in the code (`tractusd/src/server.rs:22`,
  `tractus-shim/src/lib.rs:14`) and what `WaitOutlastsHold` stands on; the channel and its window have room.
* `Launch`: documents are numbered `1..n`, limits are positive, the clock yields any
  naturals, backwards too; an `Initial` store is within its limit.
* The front end: words, lines and grants are within their types; the place of
  the project's root is not the whole disk, and the agent works in it or below;
  `Nothing` is no file; no shell builtin that makes a line opaque is called `a`, which
  stands for any command in `QuotedStaysTogether`; the user's own `hooks.json` has the Tractus hook at most once
  (section 6 has what `init` does with two).

An invariant of the runs is seldom inductive. What each proof adds, and why:

**The daemon** (`DaemonProofs`, section by section).

* What a verdict means. `NoBreachIffPermitted`: `check` finds a breach exactly when
  `Permits` fails. `CheckInScope`, `CombineInScope`, `CombineNeedsHuman`: what
  a verdict of a segment and of a compound means. Also what recording keeps
  of a history's type and length.
* Types and frames: `TypeCorrect`. To write a report or a verdict well typed one
  must know that a judging frame's lists have one length, that a frame awaiting
  the twin has a contract and that a recording frame has a key: `Typed == TypeOK
  /\ Frame` for every handler.
* What the answers mean: `AllowIsJustified`, `ApprovalIsForTheUnsure`,
  `DecisionIsHonoured` from one invariant, `Sound`, which adds to `Typed` that
  each frame is `Kept`. The step that carries it is that a verdict in scope
  stands for permitted effects (`Grounded` in `Frame`, with the lemmas on
  verdicts). `HoldsAreReachable` is about frames *and* `pending_holds`; it is
  inductive together with `Typed`.
* What is remembered: `NamedContractIsUsed` and `BindingIsRegistered` from
  `Governed`: who names an id - frame, pending report, history - ran under a
  contract registered for it, and registrations are never withdrawn but by a
  restart, which empties everything. `RecordedAtMostOnce` from `Ledger`: a proposal's
  serial sits in one of frame, pending report and history, so the report that
  is taken can be recorded by nobody else.
* The promise: `DaemonKeepsPromise`, the step simulation of `Firewall`:
  from `Faithful` (`Sound`, `HoldsReachable`, and what a frame has answered so
  far) every action moves each connection's image as `Firewall` allows or leaves it.

**The twin's pool** (`TwinPoolProofs`). `TypeCorrect` needs to know in which
states a task, a call and an invalidation have a unit. `PoolIsOfOneGeneration`:
`Generations`, a task's unit is at least as young as the generation the task has read, and
neither is ahead of the pool's, so that a push that finds the task's generation
standing pushes a unit of it. `FreshMissesNoWrite`: `Noticing`, what the workspace holds
was there when a unit was fingerprinted, or was made after everything that was
(`Watched`), no content is in two places and none is of the future (`DiskDated`). So
with an equal newest time nothing written is new (`SameFingerprint`), and contents that
are all old ones and equal in number are the same (`ContentsCounted`).
`UnitsServeOneCall`: `Apart`, no two of the units that wait, that a task makes or that
a call tries are in the same container. `NoContainerLeaked`: `Owned`, on top of `Apart`.

**One agent's commands** (`SessionProofs`). `OnlyPermittedRun` and
`ShimOutlastsHold` from `Conversation`: what the adapter has read, what is on its way
to it, what its handler has decided and whether the daemon lives fit together;
in particular, while both are alive, the clock of an adapter that has read its hold is
not ahead of the handler's; and a hook that failed has decided nothing. `CountedIsCarriedOut` adds `Counted` (a click that was
counted is the handler's decision). `LedgerIsFaithful` and `AllowShownIsPermitted`
from `Emitted` (an event says nothing the handler's state belies, and a verdict
that ends the matter is the last event of its id) and `Shown`
(what a page shows of a command is the last it has read of it).

**Launching** (`LaunchProofs`). `TypeCorrect`, `NoDaemonLeftBehind`,
`AgentIsCovered` from `Orderly`: types, the stage of a process with its call and its
child. `SocketKeptAlone` from `Alone`: while no two daemons were between connect and
bind at once, whoever is there knows what the path names. `PickedIsEnforced` from
`Choosing`, which follows the picked document through the calls of a command, up to
the registered contract. `OnlyRivalsMakeItFail` from `Launching` (each child has one
parent, and exits only if raced or killed) and `Surviving` (no id is given twice,
and a call that nobody overlaps finds what it listed). `StoreIsAShelf`: each access
to the disk is a step of `Shelf` or a stutter while no two calls have overlapped and
the processes that died number at most two less than the smallest limit, which is
the property's own premise. Pruning comes before the state file is written, so
nothing local says that the active document survives it. `Shelved` counts: a death
between writing a document and the state file lets at most one document overtake the
active one, so pruning it would take more deaths than there were. That a set of
timestamps has a greatest is obtained from well-foundedness.

**Initialising** (`SetupProofs`). `NothingIsLost` from `Copied`: as long as no
backup was overwritten, what the user wanted in a file is in it or in a backup, and
in a backup from the moment that a run is about to empty the file. `EnteredOnce` from
`Entered`: every plan a run carries has the hook exactly once, and so has what `init`
leaves behind, whichever runs and edits came between.

**Reading a patch** (`PatchPathsProofs`). `TouchedPathsAreReported` from `Reading`:
the update kept back is the last header if that is an update, and what is
listed are the headers before it, the moved ones among the deletes.

**Making a contract** (`GrantsProofs`). `SameContractSaved`: the two normalisations
give the same globs, by what `Deduplicated` keeps of any list, and the bits are
those chosen. `GrantsMeanThemselves`: matching is restated as a placing of the
path's components in the glob's (`Placed`), which turns the matcher's recursion into a
statement about one function, and then into `Reaches`.

**Reading a line** (`CommandProofs`). What each scanner knows after a character is named
by `Runs`, so that every loop of the parser has its own invariant, kept from one character
to the next. `ModesOfPart`: a part of a line that begins outside quotes is scanned as it
is in the line. So the pieces of a line are parts of it (`SplitIsPieces`), those of the two
sides of a semicolon are those of the line (`SplitComposes`), and a line is read exactly
if every piece is (`Good`, `ParseRead`), which gives `SequencesAreComposed`.
`RedirectionsAreEffects`: `extract_redirects` meets a redirection of its own where it begins
(`Begin`, `BeginFacts`), since no target that it has passed reaches so far
(`TargetEndsBefore`), and finds the word that stands there (`WordFound`); `Naming` keeps
what was met among the writes and reads, however many follow. Any sign outside quotes lies
in some piece (`SignedPiece`), where it leaves a target or ends the parse (`Extracting`);
without quotes, escapes and variables nothing between two targets is a sign (`Quietly`).
`QuotedIsOneArgument`: where
only a command, blanks, quotes and backslashes stand unprotected, nothing is cut and
nothing taken out (`Protected`), and the argument is gathered character by character.

**Following a path** (`CommandProofs`). `PathsEscapeByClimbing`: while the depth of
what was read so far was never negative, the place reached is that deep below the
project's root (`Below`). The component that takes it below zero leaves it above the root
or beside it (`Beside`), and what follows returns only by naming a
directory of the root's own path, which the property's premise excludes.

**Counting the flags** (`CommandProofs`). `FlagsCountAnywhere`: each of the commands that
`FlagsAnywhere` compares is one command with flags put between its words (`Amid`).
The positional arguments are the same (`SameArguments`, place by place); the row is the
same (`SameRow`), since the corpus has a single row for each program that takes no
subcommand (`OneRowForAny`); and what is raised is what the words raise and what
the flags between bring (`RaisedAmid`), which for the letters of a bundle is what the
bundle means (`ApartMeans`). No escalation touches a path (`EscalatedFields`).

The proofs about texts do not use an induction theorem over sequences, which is out
of the prover's reach. They give the recursive function's values a name, as a function
of the place in the text, and take the first place at which the claim fails
(`FirstPlace`, from the well-foundedness of `<`).

Model-checked only:

* `EveryRequestEnds`, `PoolRefills` and `EveryCommandEnds`: liveness under
  fairness, which is about ENABLED and out of the prover's reach.

## 5. What is not modelled

* The evaluation harness: a sequential driver around the product. In the console,
  the language model's answers, the terminal and the contract cards; in
  `tractus_socket.rs`, how a path is chosen (every process of a workspace chooses
  the same); in init, the search for the repository and its report.
* Composition of `Daemon` with `Session`, and of `Parser` and `Classifier` with
  `Daemon`: each takes every result of the other as an input, so no property
  depends on the other's inside. `Daemon` has every verdict of `Session`'s
  `Evaluate`; the commands of `Daemon` include segments classified, unclassified
  and opaque.
* In `Session`: the shim's prompt loop and environment snapshot, payloads of the
  hook that do not decode (denied unasked), events of `set_contract`,
  `REPORT_ACK_WAIT` (the acknowledgment is ignored whether it comes or not).
* In `ContractStore`: files that do not decode, and `get`, which only reads.
* In `Daemon`: malformed requests (answered with an error, no state changes),
  the emitted events, and a `report` whose id owes nothing (an error answer).
* In `TwinPool`: times that are not those of the edits (coarse clocks, clocks that go
  back, files dated in the future), the observed effects themselves, the image warm-up, the `closed`
  flag that only tests set, and a `docker run` that outlives a crashed daemon
  and starts its container after the next one has listed them.

## 6. Where the code and its documents disagree

* `daemon_legacy_loop`: `tractusd/src/state.rs:19` says failures under an old
  contract do not count under a new one. They do for sessions without a contract
  id, whose key stays the same when `set_contract` replaces the active contract.
* `session_lost_answer`: `DESIGN.md:91` says that on approval the command runs
  normally. If the human approves before the shim has read the hold, hold and
  `allow` are in one read; `read_json_value` (`tractus-shim/src/lib.rs:221`) drops
  its buffer with the `allow` in it, and the shim waits out its 65 seconds and
  gives up. The failure is on the safe side.
* `twin_stale_copy`: `tractusd/src/twin.rs:694` says the fingerprint catches
  direct editor writes. It is taken after the copy, so a write between the
  two is in the fingerprint but not in the snapshot.
* `twin_failed_exec`: `TRACTUS_CORE.md:81` says that twin failure always asks a
  human. A container that ends before its command ran - an overlay's after its script has
  made the upper layer, a copy's at any time, a pooled one that is gone when `docker exec`
  comes - is read as a command without effects. The reaper may end any of these.

Found on the way, without a run of their own (a property that has to make room
for one says so):

* `server.rs:50` says never to unlink a live peer's address. The connect that
  finds a file stale and `remove_file` are two calls: of two daemons that start
  together, the slower may remove the socket of the one already listening
  (`raced` in `LiveSocketKeptAlone`).
* The fingerprint is a count and a newest time, so that it misses what changes neither:
  `mv a b`, a file replaced by one with an older time, a removal together with such a
  file brought in. A unit from before passes for fresh (`EditsNoticed` says what it does notice).
* A hook that is killed, or fails in any way that leaves no answer, stops nothing:
  Codex takes a failed hook's tool call as allowed (`README.md:62`,
  `tractus-hook/src/main.rs:150`). "Denies unresolved or unavailable requests" holds of a
  hook that lives to answer (`FailedHook` in `RunsOnlyIfPermitted`).
* `launcher.rs:132` says that a slow or malformed daemon must not survive. One that the
  launcher gives up on does not. But a launch also fails when `try_wait` fails
  (`launcher.rs:122`), and after the registration when Codex cannot be started
  (`launcher.rs:77`): the daemon it started goes on, with the contract it took, and the
  next launch uses it (`NoStrayDaemon` makes room for both).
* `TRACTUS_CORE.md:178` says that only failures count. The exit class of a compound
  is recorded against each of its segments (`server.rs:602`), those that succeeded too.
* The page's `resolve` takes any HTTP 200 for a success, `"resolved": false` too,
  and shows "allow" for a hold that has expired or that nobody awaits, such as the
  hook's (`shownLate` in `AllowShownIfPermitted`). After `Lagged` nothing opens the
  stream again.
* Commands the agent runs after the hook's allow are never reported, so they
  enter no history and make no loop.
* `parse.rs:383` says that redirections are taken out and their effects retained. Signs
  that touch make one target: `a >b<c` and `a >b>c` write `b<c` or `b>c`, and `c`
  is no effect of its own. `2>>f` and `&>>f` are read as `2>` and `&>` to a file `>f`
  (`parse.rs:430`). Either way the line has a write, of a file that is not the one the
  shell writes (`Redirects` in `RedirectionIsAnEffect` leaves them out). In `file2>out`
  the `2>` is taken for a file number in the middle of a word; `$` is substituted inside
  single quotes.
* `--` does not end the flags for the classifier: `rm -- -x` deletes nothing it knows of.
* The console turns `**/*.rs` into `**/*.rs/**`; a grant `./src`, or `.` in the
  console, matches nothing. The launcher rejects an absolute grant that the console
  strips of its slash. `Ordinary` in `SameContract` and `GrantMeans` leaves these out.
* `init.rs:197` promises exactly one entry without disturbing other hooks:
  `ensure_tractus_hook` replaces a whole entry, a user's hook in it included,
  and leaves a second Tractus entry. An inline `features` table is replaced as a whole.
  In both cases what was there is in the backup only, which is named by the second,
  so that a second change within it overwrites it (`collided` in `NothingLost`).

## 7. Plan

The system is modelled and the safety that the runs check is proved. What is left is
liveness: `EveryRequestEnds` needs only the weak fairness of one connection's
actions, but stays with TLC until the prover has ENABLED.
