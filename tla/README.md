# Verification of agent-runtime-harness

`arh` is a daemon that lets several coding agents share one machine. An agent
opens a *session*; in it it takes *leases* on machine-wide resources, allocates
*ports* and executes *runs*, which start processes. The promises of the program
are about what happens when sessions die, calls race and the daemon restarts.
This directory states those promises in TLA+, model-checks them with TLC on
small instances and proves the safety ones with TLAPS.

Paths below are relative to `src/internal/` unless they start with `docs/`.

## 1. Inventory

| Component | State | Operations | Interacts with |
|---|---|---|---|
| Lease manager `lease/manager.go` | resources, leases, holder set and FIFO of waiters per resource, id counter; `leases.json` | Acquire (blocks), Release, ReleaseAll, Renew, ExpireNow, Sweep, ReapOrphans, EnsureResource, Persist, Restore | called by the daemon for RPCs, by adapters during a run, by the sweep ticker of `cli/daemon.go`; a waiter is woken through a channel |
| Daemon service `daemon/service.go` | env specs, adapters; everything else is in the managers | CreateSession, TerminateSession, Execute, AcquireLease, ReleaseLease, AllocatePort, RemoveWorkspace, Recover, Shutdown | calls all managers, one critical section at a time, with no lock across two of them |
| Session manager `session/manager.go` | sessions with their state, id sequence; `sessions.json` | Create, Mutate, MarkRunning, MarkStopping, Finish, Restore | saves after it has unlocked |
| Run manager `runs/runs.go` | runs; one `metadata.json` per run | NewRun, Update, Finish, List, RestoreFromDisk | written by Execute and by TerminateSession |
| Process supervisor `supervisor/`, `proc/` | sets of processes per session, records by pid; lost when the daemon ends | Launch, await, KillSession, KillRun, ReconcileOrphans | OS processes, pids, start times |
| Port manager `ports/ports.go` | allocations, held listeners; `ports.json` | Acquire, ReleasePort, ReleaseBySession, ReapOrphans, Restore | the host's port space |
| Workspace manager `workspace/manager.go` | workspaces by name; `workspaces.json`; git worktrees | Create, CreatePlain, GetByName, MarkSession, Remove, Restore | RemoveWorkspace asks the sessions first |
| Store `store/store.go` | one JSON file per key | Save (temp file and rename), Load | every manager |
| Policy, registry, env | configuration only | Evaluate; Resolve and version comparison; Build | pure functions |
| Adapters `adapter/` | none, or per device | Prepare, Launch: leases, one or more processes, a result | Runtime interface of the daemon |
| RPC `rpc/`, MCP `mcp/server.go`, CLI `cli/` | one connection per client, the id of the last request | Dial, Call with or without a deadline, Close; Serve, ServeConn | a goroutine per connection, in which one handler after the other calls the daemon |

What is hard in this code, and what makes each part correct:

* *Lease manager.* Five methods end leases and hand a freed slot to the queue in
  one critical section; a blocked call may be granted, cancelled by the death of
  its session and given up by its context all at the same time. Correct means:
  the capacity is never exceeded, never idle while someone waits, the queue is
  served in order and each call is answered once.
* *Daemon service.* TerminateSession is seven critical sections of five
  managers, and Execute about ten, with nothing that makes either atomic. Correct
  means: a STOPPED session has lost what it had, every run ends, statuses tell
  the truth, two terminations do not harm each other.
* *Crash and recovery.* The daemon can die between any two steps, in Recover too.
  Correct means: after Recover nothing is half alive.
* *Files.* Snapshots are taken under a lock and written after it. Correct means:
  a restart finds a state that is not older than what was answered.
* *Pids and ports.* They are reused by the host. Correct means: no stranger is
  killed and no port is given out twice.
* *The transport.* A call that has timed out is still handled, and its answer
  comes later, perhaps in two pieces. Correct means: a call returns the answer of
  its own request, requests take effect in order, and a shutdown ends.
* *Runs of tools.* A run takes several leases one after the other, holds them
  while it waits, and they may lapse. Correct means: runs do not wait for each
  other, what runs has the lease that matters, and it is the tool that was
  asked for, permitted, in an environment that is isolated.

`PROJECT.json` lists the hazards one by one, with their lines, and the
properties that would catch each.

## 2. Plan

| Order | Module | Of | State |
|---|---|---|---|
| 1 | `FairSemaphore`, `LeaseManager`, `LeaseSemaphore`, `LeaseManagerProofs`, `LeasePromises` | the leases, and the abstract promise they implement | done |
| 2 | `Daemon`, `SessionContract`, `DaemonSessions`, `DaemonProofs` | sessions, runs, processes, terminations, crash and recovery, and the abstract promise to a session | done |
| 3 | `StateFiles`, `StateFilesProofs` | `sessions.json` and `leases.json`: snapshots in flight, saves out of order, crash, Restore, id counters, Recover on stale files | done |
| 4 | `Rpc`, `OrderedCalls`, `RpcChannel`, `RpcProofs` | clients, connections, deadlines, shutdown, and the abstract promise to a client | done |
| 5 | `Holdings`, `HoldingsProofs` | ports with their listeners and `ports.json`; workspaces with `workspaces.json`; the operations of the daemon on both | done |
| 6 | `Policy`, `Registry`, `Environment`, `DecisionProofs` | pure operators, and theorems about them | done |
| 7 | `ToolRun`, `ToolPlaces`, `ToolRunProofs` | Execute and the Unity adapter on top of module 6, with leases that lapse, and their queues as `FairSemaphore` | done |
| 8 | `Supervisor` | pids that are reused, start-time identity, KillSession's last sweep, ReconcileOrphans | later |
| 9 | metadata files | `metadata.json` torn by a crash, run numbers, disk errors while the daemon starts | later |

Composition: `LeaseManager` is the detailed form of the lease table that `Daemon`
keeps as one function; `StateFiles` and `Holdings` lift the write-through
assumption of `Daemon`; `ToolRun` composes `Policy`, `Registry` and `Environment`
with queues of its own; `Rpc` is the layer through which every action of
the others is called.

Three abstract specifications say what the parts promise. `FairSemaphore` is what one resource
promises: `LeaseManager` implements it for each of its resources, and so do the
queues of `ToolRun`, so that what `ToolRun` shows of queues it shows of those of
the lease manager. `SessionContract` is what becomes of one session, and `Daemon`
implements it for each session. `OrderedCalls` is what the transport promises one
client, and `Rpc` implements it for each client.

Every property of a passing run is proved for all values of the constants but
the six liveness properties, which are out of the prover's reach.

## 3. The lease manager

`LeaseManager.tla` has the manager's own tables (`res`, `leases`, `holders`,
`waiters`, `seq`), the calls of `Acquire` that are under way, one per goroutine,
and the loop that holds the mutex. An operation that is one critical section is
one action. Three operations are loops over `m.leases` (ReleaseAll, Sweep,
ReapOrphans); Go's map order is arbitrary and a map may change while it is ranged
over, so a loop is `Begin`, one `Step` per lease in any order, `Cancel` of the
waiters where the code does that, and `Unlock`; a lease granted inside the loop
may or may not be visited, as the language leaves open. `MutexFree` keeps everybody else out.
`AcquireWait` queues the call and unlocks; `Wake` is the receive from the
waiter's channel, `GiveUp` the branch of the context, which then removes the
waiter, and both may be ready at once. `EndAndHandOff` is the end of a lease
together with trySatisfy: holder set, queue, new lease, woken call.

`FairSemaphore.tla` is what a client of one resource may rely on: a number of
slots, a queue served from its head, no slot idle while someone waits.
`LeaseSemaphore.tla` maps the manager to it for one resource, `Slot`, and
`SlotIsSemaphore` states that it implements it.

Runs:

* `lease_safety` (pass). Two goroutines, two sessions, a resource of capacity 2
  and an adb device that exists only after EnsureResource, four lease ids, and
  leases without ttl (time is in `lease_liveness`). `TypeOK`; `HoldersExact`: the
  holder set that decides grants is the set of LEASED leases;
  `CapacityRespected`; `NoIdleCapacity`: no lost wakeup; `QueuesExact`: a blocked
  call is in its queue once; `GrantMatchesCall`: what a call gets is on its
  resource and session; `DoomedLeasesEnd`: what ReleaseAll met when it began has
  ended when it unlocks; `SlotIsSemaphore`, which contains that nobody overtakes
  the queue. Two calls are enough for a holder, a waiter and the race for a freed
  slot, and two sessions for one that dies while the other waits.
* `lease_liveness` (pass). `LapsedLeaseEnds` and `EveryCallAnswered`, under the
  fairness below.

Fairness. A goroutine that holds the mutex goes on; the ticker of `cli/daemon.go`
calls Sweep again and again; a woken goroutine runs. Holders owe nothing, except
in the premise of `EveryCallAnswered`, which assumes that every lease is ended
sooner or later.

## 4. The daemon

`Daemon.tla` puts sessions, runs, leases, ports, processes and terminations
together. A goroutine in Execute is the `pc` of its run, one in
TerminateSession an element of `term`; each step is one critical section of one
manager or one system call, so every interleaving of the managers' calls is
there. A process goes from `live` to `zombie` (it has exited) to `gone`
(`cmd.Wait` has returned); `tracked` is the supervisor's table, `killed` the flag
that markKilled sets, `known` what `metadata.json` says of it. `Crash` ends the
daemon between any two steps, `Recover` is one action per session, resource
manager, process and run, and may itself be cut short by another crash. `claim`
and `struck` are history variables: no action reads them. `claim` remembers what a
session had when it was marked STOPPING and has had without a break since, `struck`
the sessions that crashes have interrupted since the daemon last served, those
among them that a Recover that was cut short has already written STOPPED.

A process has a `kind`, because the adapter stands between it and the status of
its run (`AdapterStatus`). A tool's adapter passes on what Exec says; buildAPK of
the Android adapter looks only at what its processes left behind.

`SessionContract.tla` is the life of one session without goroutines, managers and
stages: what it has, which of its runs are open, and the endings under way, each
of which owes what the session had when it was marked. `Stop`, the end of
an ending, asks that nothing is owed; `Serve`, the end of a recovery, asks that
the session is stopped and none of its runs is open. `DaemonSessions.tla` maps
`Daemon` to it for one session, `Session`.

Abstractions. What a manager changes is on disk at once (the files are
the subject of `StateFiles`). A run starts at most one process; the up to six
that a build starts one after the other are one. A run that starts none (the list
of Android targets) is left out. A pid is not used again. SIGKILL works at once, so the grace period of
KillSession is the step `ProcessesKilled`, which waits for nothing. A lease is
free or taken; the queues are in `LeaseManager`.

Runs:

* `daemon_safety` (pass; 1 session, 1 run, 2 termination goroutines, 1 resource,
  1 port, 2 crashes; the termination goroutines are symmetric, and
  none of the formulas checked is a liveness property). `PipelineComplete`: when a
  termination is about to write STOPPED, its session has lost everything it had
  when it was marked STOPPING, while another termination is under way too.
  `NoAbandonedRun`: an open run has a goroutine that
  will close it, although TerminateSession finishes runs that Execute still
  drives and Update may reopen one. `KilledIsReported`: a run of a tool whose
  process was killed does not end SUCCEEDED or FAILED. `RecoveryClean`: when Recover
  ends, sessions and runs are terminal, recorded processes are dead, and what the
  interrupted sessions held is free. The last is why there are two crashes:
  the second one in the middle of Recover leaves sessions that are already
  STOPPED, which the next Recover passes over. A run is listed by one termination
  and slips past the other; a second session would only share the lease and
  port tables, where a session is named by each entry.
* `daemon_liveness` (pass; 1 run, 1 resource, 2 terminations of one session, 1 crash).
  `RunsEnd`: every open run ends although its process need not. `StoppingStops`:
  MarkStopping may take a STOPPED session back to STOPPING, and then there is
  somebody to stop it again. `SessionKeepsContract`: the daemon implements
  `SessionContract`, with two terminations that overtake each other and each owe
  what they found.
* `daemon_stopped_process` (violation, `StoppedHasNoProcess`): docs/sessions.md:52
  says that the children of a dead session are terminated. A process that is
  started or registered after KillSession has made its list is not. This, and
  the leases and ports of section 9, are the reason why `PipelineComplete` speaks
  of what the session had when it was marked: what comes later is not taken.

Fairness. Weak fairness of each goroutine. It is what the code's scheduling
gives: nothing in Execute, await, TerminateSession and Recover waits longer than
a bounded time, because Exec selects on a timeout and KillSession on a grace
period. The one exception is a run that waits for a lease; `LeaseManager`'s
`EveryCallAnswered` is what is needed there. Clients and processes are not
fair: a process may run for ever.

## 5. The state files

`StateFiles.tla` asks what a restart finds. Each manager changes its table and
takes a snapshot in one critical section, unlocks, and calls Save; so a request
is an action that ends with a save in the goroutine's `call`, followed by
`Marshal`, once per record, and `Rename`, or `SaveFails`: the old file stays, and
the change in the table stays too, whether the caller is told (Create,
AcquireNow) or not. The snapshot fixes which records the
file will have; it holds pointers, so json.MarshalIndent reads what a record
contains while other goroutines change it. Marshalling is outside the mutex of
the store, which orders the renames and not the snapshots. `Crash` loses the
tables and the calls, `Restore` takes the tables, the holder sets and the two id
counters from the files, and the steps of Recover follow; since nothing
else runs then, a change and its save are one step.

Abstractions. The disk does not fail during Recover and the files parse.
Resources are exclusive. A lease that is released may go to any session at once (`HandOff`),
as if that session were queued: the queues are in `LeaseManager`. Processes, ports
and runs do not appear.

Runs (2 goroutines, 2 sessions, 2 leases of one resource; two saves in flight
are what it takes for one to overtake the other, two leases for a grant
after a release):

* `files_safety` (pass; 2 faults, each a crash or a failing save: two crashes, so
  that Recover is cut short too, or a save that fails before a crash).
  `OneHolder`: a resource is leased once, in the table and in the file. It
  depends on an order: which leases the file will have is fixed before any of
  them is read, so that a lease in it finds its predecessor ended.
  `HistoryKept`: no record is overwritten by another one of its id.
  `RecoveredSettled`: after Recover the two files agree, although one may have
  been older than the other.

What the model also shows and no run states: a stale `leases.json` can show a
lease as LEASED whose session is STOPPED in `sessions.json`. Recover passes over
the session, because it is terminal, and over the lease, because the session is
known. That is why `RecoveredSettled` asks that the session of a LEASED lease
is known, and not that it is live.

## 6. The transport

`Rpc.tla` has one `rpc.Client` per connection and the goroutine of ServeConn at
the other end. `up` and `down` are the bytes on the way, as lines. A deadline can
pass in the middle of a line: `Torn` is the part of a request that was written,
`Rest` what is left of an answer that was read in part. `Call` increases `seq`
and writes; `Receive` compares the id and skips what is not its own; `Timeout`
ends the call while its request is still to be handled. After a failed write
nothing more is written (`CallBroken`), because json.Encoder keeps its error.
`done` and `answer` are history variables: how each handler ended, what each call
returned.

The daemon ends in three ways. `Signal`, `CloseListener` and `ServeReturns`: the
context ends, and Serve returns when the last connection has (wg.Wait).
`AcceptFails` and `Exit`: Accept fails for another reason, Serve returns at once
(rpc.go:210), and daemonForeground shuts the sessions down and exits;
connections are served on until then, and what is being handled at the exit
is `cut`. `Killed`: the process of the daemon is gone between any two steps.

Abstractions. The end of a handler and the writing of its answer are one step, so
`cut` is a request whose answer was not written, whatever its handler had done.
What was written to a socket can be read after the other end has closed. Every
request is one that rpc.Client writes.

Runs (a client with deadlines, as the MCP frontend, and one without, as most
commands of the CLI; two calls each, so that the late answer of one meets the
other; more clients would not interact, since connections share only the end of
the daemon):

* `rpc_calls` (pass). `AnswersAreTrue`: what a call returns is how the handler of
  its own request ended; a call without a deadline that returns an error of
  the connection was not handled to its end and never will be; and only a
  daemon that was killed or whose Accept failed leaves a request in the middle.
  `NoCallLost`: the request of a waiting call is on the way or being handled, or
  its answer is in the connection, or the daemon ended during its handler. `PeerIsServed`: the client, the connection and
  the daemon implement `OrderedCalls`, where calls are made one after the other,
  each request is worked on at most once, one at a time and in the order of the
  calls, and a call is told how its own request ended or that the answer is lost.
  `RpcChannel.tla` is the mapping; a request that was written and that nobody
  will read any more stays `waiting` for good, which the abstract specification
  allows. `UntimedCallsEnd`, `ServeEndsWithClients` (liveness).
* `rpc_shutdown` (violation, `ServeEnds`): a client that is connected and silent
  keeps the daemon from ending.

Fairness. The goroutines of the daemon and a client that is in `Call` go on; a
handler that does not wait ends; the shutdown of the sessions has a time limit.
No user need call or close, no lease need be granted, no process need exit and
Accept need not fail, so `UntimedCallsEnd` speaks of quick handlers
and `ServeEndsWithClients` assumes that the clients close.

## 7. Ports and workspaces

`Holdings.tla` has the two managers, their files, and the operations of the daemon
that use them. `taken` is the table of ports, `held` the listeners that the daemon
keeps open, `foreign` what other processes are bound to. The workspaces are a
function on keys, and a key is a name or, after a restart, an id: Create files a
workspace under its name and Restore under its id. A goroutine that writes a
file has its snapshot in `call` between taking and writing it, so that saves
overtake each other. Recover is one step: nothing else runs then, and done again
after a crash it ends in the same state.

Abstractions. A port is a number that the host can give out; tcp and udp share
the table. `sessions.json` lacks only sessions that Create has not saved yet. A
worktree is a directory that did not exist before; git may refuse.

Runs:

* `holdings` (pass; 2 goroutines, 2 ports, 2 names, 2 sessions, 2 worktrees, 5
  operations, 1 crash, the goroutines, ports and names symmetric: two of each is
  what it takes for a port or a name to be given to another, and five operations
  contain every pair that shares a port or a workspace). `LivePortsHeld`: the port of a
  live session has a listener, across restarts too, because those that come back
  without one belong to sessions that are over. `PortsKept`: a port goes from its
  session only when that is terminated, although the table has ports that are not
  bound. `RemovalSpares`: a workspace is not removed while a session that was
  there when the caller looked uses it by name; one that was created between the
  look and the removal is not seen (section 9).
* `workspaces_survive` (violation, `WorkspacesSurvive`; 1 goroutine, 2 crashes):
  two workspaces of one id, of which Restore keeps one.

## 8. Runs of tools

`Policy.tla`, `Registry.tla` and `Environment.tla` are the pure parts of the
daemon as operators: which rule decides, how versions compare and which tool a
requirement is resolved to, which variables a session's process gets and from
where. Texts are sequences of letters where prefixes matter, segments with a number
and a rank where versions are compared, and model values with a relation `Starts`
where names are matched.

`ToolRun.tla` uses them in the steps of Execute and of the Unity adapter's
Launch: `Accept`, `ResolveTool`, `Prepare`, one `AcquireNow` or `Enqueue` for each
resource of the command, `Launch`, `ProcessEnds`, and in between `Expire` (the
sweep) and `DetectTools`. Time counts in half hours and passes only while nothing
is due. A lease that is granted from the queue has no ttl, as in the code; the
adapter releases none. The time limit of a run is that of its command or, as
timeoutMinutes has it, the one its request sets, of any length (`RunLimit`). (A
request for a fraction of a minute gets the limit of the policy instead, which is
one more length.) A tool is chosen without regard to the case of its type and its
adapter looked up with the exact type, so that `ResolveTool` refuses a tool that
has been chosen. The environment of a process is that of the session with the
accelerator and the variables of the tool on top (`ProcessEnv`, `Overlaid`),
which the deny list does not see.

Runs. A scenario is a configuration with the requests that are made under it.

* `tool_runs` (pass). One scenario has three runs of all commands that compete for
  two slots, a license and a gpu, one command with a limit beyond the ttl; in the
  others one run meets every pair of rules out of 32, every pair of six versions
  with every constraint and two spellings of a type, and every allow
  and deny list over four patterns with a tool that has an environment or none.
  `LastLeaseHeld`: a process that runs has the
  lease it acquired last, if its time limit is within the ttl, as those of the
  commands are; earlier ones may be gone. `WithinCapacity`: hence no more of these
  processes than the scarcest resource admits, whatever runs with longer limits
  are beside them; those go on without their leases (section 9).
  `NoCycle`: no runs wait for each other. `RunsAsAsked`: what runs was
  permitted by a longest rule that matches and is a tool that satisfies the
  requirement.
  `EnvironmentIsolated`: what is denied is there from the tool or the accelerator
  only, isolated roots are private unless set: or the tool gives them, and of the
  daemon's values there are only inherited ones and the `_ORIG` copies.
  `PlaceIsSemaphore`: the license is a `FairSemaphore` whose clients are the runs
  (`ToolPlaces.tla`); of the three resources it is the one that is scarce and
  granted both at once and from its queue.
  `RefusedOnlyForWant`: a requirement is refused only if no enabled tool meets it or
  one that does has a type without an adapter.
  `RunsAsAsked` and `EnvironmentIsolated` state what the answer must be with
  quantifiers, next to the order of steps that the code computes it by.
* `tool_highest` (violation, `HighestChosen`): not the highest version is chosen.

## 9. Known disagreements

Four runs end in a violation on purpose; their findings in `PROJECT.json` quote
the sentence that is not kept. These were met too, and have no run of their
own:

* ReleaseAll calls trySatisfy before it drops the waiters of the session
  (lease/manager.go:408-425) and so can grant a lease to the session it is ending;
  if the loop does not visit the new lease, it stays. docs/leases.md:31:
  "session death releases everything the session held and cancels its queued
  waiters". `DoomedLeasesEnd` therefore speaks of the leases the loop met.
* A waiter has no ttl, and trySatisfy grants with ttl 0 (lease/manager.go:318,
  362). docs/leases.md:28: "leases with `ttl_seconds` expire on the sweep tick".
* The Unity adapter releases no lease (unity.go:92-96) though its comment ends with
  "-> release" (unity.go:10). With the point before, a slot that was waited for
  stays taken until its session ends.
* A request can set a time limit beyond the ttl of two hours (unity.go:93, 207-222;
  in the Android adapter lines 157 and 199-201). The lease lapses, another run is
  given the place, and the process goes on; android.go:151 says "device commands
  hold them for the run". `LastLeaseHeld` and `WithinCapacity` therefore speak of
  limits within the ttl.
* policy.go:3-5 says a call is allowed only if some rule allows it "and no rule denies
  it". Evaluate asks the longest rule that matches only (policy.go:96-106), so a
  shorter one that denies has no effect; `RunsAsAsked` is about the former.
* supervisor.go:240: "markKilled flags a record so the finalizer reports KILLED".
  buildAPK drops the status of each process it has run (android.go:347-452), so a
  build whose compiler was killed can end SUCCEEDED; `KilledIsReported` is
  about the other adapters.
* When Accept fails while the context lives, the daemon exits without waiting for
  the requests that are being handled (rpc.go:210); the comment of Serve has it
  serve "until ctx ends" (rpc.go:166).
* A STOPPED session can be given leases and ports (daemon/service.go:437, 479);
  docs/sessions.md:53: "Resources held by A are freed when A dies".
* LaunchDetached records a pid without start time (daemon/service.go:785), and
  ReconcileOrphans skips such records; ROADMAP.md:411: "A daemon restart must not
  leave unmanaged processes."
* Two saves of `sessions.json` can overtake each other, and after a crash an id that
  Create has returned is given again; session/manager.go:67-69 says never.
* After a restart workspaces are found by id and no longer by name, so that a
  session created with the name silently has no directory.
* RemoveWorkspace looks at the sessions and removes the workspace in two critical
  sections, and compares by name where a session may have named the id;
  docs/sessions.md:42: "workspaces refuse removal while" a session uses them.
* A pattern like `LC_*` in the allow list matches the name `LC_` and no other
  (env/env.go:78); the comment above it gives it as an example.

## 10. What is proved

For all values of the constants, with no assumption but those named in the
modules (that `None` is not a session, call or run, that names of different
kinds differ, that bounds are natural numbers, that the configuration of
resources is well formed).

*LeaseManagerProofs.* The inductive invariant is the conjunction of `TypeOK`,
`HoldersExact`, `CapacityRespected`, `NoIdleCapacity`, `QueuedCallsWait` (an
element of a queue is a call that waits for that resource, and occurs once) and
`WalkExact`. Capacity alone is not inductive: the code tests the size of the holder
set, so the set must be exact; it is only exact if a loop does not end a lease
twice; and nobody overtakes the queue only because a queue is empty when there
is room. Each part has a lemma, with a step per action. From it follow
`TypeCorrect`, `HoldersAreExact`, `CapacityIsRespected`, `NoCapacityIsIdle`,
`WalksAreExact` and the action property `NobodyJumpsTheQueue`; a second
invariant, that a waiting call is in its queue, gives `QueuesAreExact`.

*DaemonProofs.* The inductive invariant `DaemonInv` has eight parts: `TypeOK`;
`Down` (no goroutine and no table during Recover); `Phases` (each phase of
Recover leaves its work done, which no later one undoes); `Struck` (an interrupted
session that is STOPPED already has nothing left, which is what Recover's order
of steps is for); `Settled` (a run that
nobody drives is not open, and a pending result is terminal); `Honest` (the kill
flag and the result agree, for a process that may still be killed too);
`Claims` (what a termination still has to take, stage by stage); `Stopping` (a
STOPPING session has a termination at work). Steps are grouped by what
they leave alone, so that each part looks at the groups that can disturb
it. From it follow `TypeCorrect`, `PipelineIsComplete`, `RunsAreNotAbandoned`,
`StoppingIsTerminated`, `KillsAreReported` and the action property
`RecoveryIsClean`. `DaemonInv` was checked by TLC on both daemon
configurations before it was proved. `StoppingHasTerminator`, the part of
`Stopping` that `StoppingIsTerminated` is about, says that a STOPPING session has
a termination at work while the daemon serves.

`KeepsContract` is the refinement of `SessionContract`, for every `Session`. It
needs two more invariants (`SessionInv`): `Born`, that runs and terminations are
of sessions that exist, and `Claimed`, that nothing is owed that the session no
longer has. Most steps change one thing only, so there is one lemma per kind of
change (`LoseStep`, `GainStep`, `OpenStep`, `ShutStep`), and each group of steps
is brought to one of them. The guard of `Stop` is where `Claims` is used, that
of `Serve` where `Phases` and the last test of Recover are, and that of `Close`
where `Down` is: after a crash no process is in a table.

*LeasePromises* builds on the invariant of LeaseManagerProofs. `GrantsMatchCalls`
needs that no call has a lease id that is still to be given out. `DoomedLeasesHaveEnded` needs that
the snapshot a loop began with is, at each step, among what it has visited and
what it still has to. `ImplementsSemaphore` is the refinement, for every `Slot`:
Init maps to Init, and each action to one of `FairSemaphore` or to a stutter;
since the holder set is the set of LEASED leases, the end of a lease is a freed
slot or a handover. `Bounded` (lease ids and blocked calls together stay below
`MaxLeases`) is what keeps the bound of the ids from stopping a handover.

*StateFilesProofs.* What matters of a save that is under way is the table it
will write: what it has read, and for the rest the table as it is now (`Mixed`).
`Sounds` says that this mixture leases each resource at most once. It holds of a
new snapshot because the table does; reading a record does not change the
mixture; a step of another goroutine ends leases, or adds one that the save has
not listed; and when nothing is left to read, the mixture is the file. The rest
(`Numbered`, `Exact`, `Quiet`, `Reaped`) is about ids below the counters, holder
sets, no goroutine during Recover, and what each phase of Recover leaves done.
A save that fails leaves a file that was sound.

*RpcProofs.* `Ordered` puts the ids of a connection in one order: handled, being
handled, on the way to the daemon, given out. `Truthful` says that each answer
on the way is how the handler of its id ended; since `seq` is fresh, a call that
compares ids cannot take an old answer for its own. From it follow
`AnswersMatchHandlers` (a request is `cut` only in the step that ends the daemon
with requests in hand, which `ServeReturns` is not) and `OneRequestAtATime`; with `Untorn` (a client without
deadlines leaves no part of a line behind) also `NoCallIsLost`.
`ImplementsOrderedCalls` is the refinement, for every `Peer`: Call maps to Send or
SendInVain, Receive to Tell, GiveUp or a stutter, ReadRequest to Begin because
`Ordered` makes the request that is read the first of those on the way, and the
end of a handler to End.

*HoldingsProofs.* `Owned`: a port in the table belongs to a session that is known,
so that a new session can not find itself with the port of an older one;
`NamesKeyed`: what is filed under a name has that name; `AllChecked`: what a
caller that is about to remove a workspace has seen is still so, because a
session's workspace does not change and a session that is over stays over.
From them follow `LivePortsAreHeld`, `PortsAreKept` and `RemovalSparesSessions`.

*ToolRunProofs.* For each run, `Commanded` (how far it is in the list of its
command), `Asked` (permission, request and tool stay what they were found to be,
and the environment is Build's until the launch adds to it), `HeldBefore` (the
leases of a run are of resources before its position) and
`LastFresh` (the last lease was taken at the instant of the launch or has no end,
so it outlives the deadline of a run whose limit is within the ttl); for each
resource, `Full` and `Room`. One assumption is that the commands name resources in
one order (`NeedsOrdered`), from which `NobodyWaitsInACycle` follows by looking at
the highest resource in a cycle; none is about limits. `RunsAreAsAsked` and
`EnvironmentIsIsolated` hold for all rules, tools, versions and lists of names.
`PlacesAreSemaphores` is the refinement of `FairSemaphore`: a run comes to a
resource once (`Commanded`, `HeldBefore`), which makes it a client that is granted
its place once; `AcquireNow` and `Enqueue` are Take and Join, and `Expire` is
Return or PassOn.

*DecisionProofs* is about functions, so it has no steps. Policy: exactly one rule
decides, the first of the longest that match (`OneRuleDecides`); rules that do
not match have no part in it (`OtherRulesDoNotMatter`), nor has a rule that is
added at the end and is no longer (`LaterRuleMustBeLonger`). Registry: comparison
is antisymmetric and reflexive (`CompareIsAntisymmetric`), trailing zeros do not
matter (`TrailingZerosDoNotMatter`), and versions whose segments are numbers are
totally ordered (`NumbersAreOrdered`). The last cannot be said of all versions:
10 is after 9, 9 is after 1x, because a number and another segment compare as
strings, and 1x is after 10. `ResolveFindsOne`: a requirement is resolved to
exactly one tool if any enabled tool of its type meets it, from which
`NoneIsRefusedATool` follows for the steps of `ToolRun`. Environment:
`OnlyTheVisibleMatters`, what is built does not depend on the daemon's other
variables.

The inductive invariants of these modules were checked by TLC on the
instances of their runs before they were proved.

*Only model-checked.* The six liveness properties: `LapsedLeaseEnds`,
`EveryCallAnswered`, `RunsEnd`, `StoppingStops`, `UntimedCallsEnd` and
`ServeEndsWithClients`. And, by nature, the violations.

## 11. What is not modelled

The wire formats of RPC and MCP, command lines, printing, log files and
artifacts: no property here depends on them. Git commands of the workspace
manager and tool detection: I/O on the host. Windows process trees: the model
follows the unix files, where a child lives on when the daemon is killed. The
Android adapter has only its emulator and the status of its builds, in runs of
`Daemon`; the rest of it is command lines. Configuration files are taken as parsed and valid.
Metadata files torn by a crash, disk errors while the daemon starts, pids that are reused,
and a second daemon on the same directory are faults no model has yet (rows
8 and 9 of the plan, and the hazards without a property).

## 12. Running

    tlc -workers 2 -config lease_safety.cfg MCLeaseManager.tla
    tlc -workers 2 -config daemon_safety.cfg MCDaemon.tla
    tlc -workers 2 -config files_safety.cfg MCStateFiles.tla
    tlc -workers 2 -config rpc_calls.cfg MCRpc.tla
    tlc -workers 2 -config holdings.cfg MCHoldings.tla
    tlc -workers 2 -config tool_runs.cfg MCToolRun.tla
    for m in LeaseManagerProofs LeasePromises DaemonProofs StateFilesProofs \
             RpcProofs HoldingsProofs DecisionProofs ToolRunProofs; do tlapm $m.tla; done

An `MC` module defines an instance, a `cfg` names its constants and the
properties; the violation runs end with a trace on purpose. The definitions
marked "Mutant" in the modules are plausible bugs that replace the definition
after them; each property of a passing run is known to fail under one.
