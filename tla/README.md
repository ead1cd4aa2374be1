# Verification of VPNGuard

TLA+ models of VPNGuard, a fail-closed VPN kill switch for Windows: a Go service
that keeps a default-deny rule set in the Windows Filtering Platform (WFP) and
supervises ssh tunnels, a command line tool, and a C# tray.  TLC checks small
instances; TLAPS proves the most important results for every instance.

Contents: 1 the system, 2 the modules, 3 the runs, 4 what was found, 5 the
proofs, 6 assumptions and limits, 7 the plan.


## 1 The system

| Part | State | Operations | Interacts with |
|---|---|---|---|
| `killswitch.Manager` (internal/killswitch) | a WFP session; our provider, sublayer and filters in the engine, which outlive the process in iron mode | `New`, `Close`, `Apply`, `Disable`, `ActiveRuleCount` | every other process that opens a session: filters are found by provider, not by owner |
| `buildRules` | none | configuration -> about thirty filters | the WFP arbitration |
| adapter discovery | none | `FindTunnelAdapters`, `FindTunnelLUIDs` | Windows |
| `vpnmon.Monitor` | its configuration, the last status | `Run`, `poll`, `OnChange` | discovery, OpenVPN's management port, the service |
| `wsvc` service | `svcState`: config, `ksCfg`, `tm`, `last`, `wasConnected`, one lock | `runLoop`, `onVPNChange`, `handleIPC` (ping, status, enable, disable, reload), SCM `Execute`, `Install`, `Uninstall` | all of the above |
| `tunnels.Manager` | per tunnel: cancel function, state; per supervisor: process, job object, backoff | `StartAll`, `StopAll`, `Start`, `Stop`, `Restart`, `supervise`, `watch` | service (under its lock), processes |
| `config` | `config.yaml`, `resolve-cache.json` | `Load`, `ParseOVPN`, `Resolve` | service, tool, tray |
| `ipc` | none | one request per pipe connection, 5 s deadline | tray -> service |
| `cmd/vpnguard` | none | `enable`, `disable`/`panic`, `status`, `service ...` | engine, beside the service |
| tray | last status, a copy of the config per form | refresh, toggle, forms, reload, panic | pipe, config file, tool |
| installer, scripts, CI | none | fixed sequences of commands | - |

What is hard here, and what makes each part correct:

- **Engine, several processes.** Apply and Disable are some thirty WFP calls
  each, without a transaction, in any number of processes at once, and each may
  fail or die between two calls.  Correct means: no moment without the default
  deny between a completed Apply and a request to lift it; nothing of ours left
  after a Disable that says so; no stale permit after a successful Apply.
- **Rule set.** A connection passes exactly where the documentation says, and
  the VPN is never locked out by its own kill switch.
- **Service.** The monitor polls without the lock and delivers later; commands,
  reloads, restarts and failures come in between.  Correct means: the network
  opens only when asked to, tunnels run only behind a VPN, and everything
  converges on the state of the VPN once it settles.
- **Tunnels.** Stop does not wait, select picks at random, processes spawn
  children.  Correct means: one supervisor in charge, no orphans, a stop always
  lands, a tunnel always comes back.
- **Life cycle.** Execute, runLoop, the monitor, the pipe's listener and its
  connections are goroutines of one process; shutdown cancels some, waits for one
  and takes no lock, while a handler may hold it through DNS.  Correct means: the
  guard is up whenever the lock is free, nothing of a closed session comes back,
  a stop ends, clients are released, a crash is recovered from.
- **Tray.** One thread with a status up to 2 s old, forms with copies of the
  file, answers that fail, come late or say ok of half a success, beside an editor
  and the command line tool.  Correct means: the kill switch is not turned off
  unasked, no option is lost by a toggle, what "ok" promises holds, the icon comes
  to show the service.
- **.ovpn file.** The endpoints the VPN may reach are read line by line, with
  defaults that may come after their use.
- **Resolve cache.** It has to be there when DNS is not: over failures of single
  hosts, crashes and concurrent writers.

PROJECT.json lists these hazards one by one, each at its line.


## 2 The modules

| Module | Models | Built on |
|---|---|---|
| `KillSwitch` | Apply and Disable, one WFP call per action, any number of processes | |
| `EngineOutcomes` | what Apply and Disable may leave in the engine | |
| `Engine` | the promise of `Manager` to one process: Apply and Disable as one step each | `EngineOutcomes` |
| `SoleManager` | KillSwitch with one process implements Engine | `KillSwitch`, `Engine` (INSTANCE ... WITH) |
| `FilterRules` | buildRules as sets of rules, WFP arbitration | |
| `RuleSwap` | one configuration exchanged for another, rule by rule, and what connections meet | `FilterRules` |
| `Handlers` | what `svcState.mu` promises: every handler as one step | |
| `Service` | service, monitor, pipe commands, config file, command line tool; implements Handlers | `Handlers` (INSTANCE ... WITH), outcomes of Engine (ServiceProofs) |
| `Lifecycle` | the goroutines of the service step by step, pipe connections, SCM, installation | |
| `Serial` | Lifecycle implements Handlers | `Lifecycle`, `Handlers` (INSTANCE ... WITH) |
| `Tray` | the tray's thread, its forms, config file, the client's end of the pipe | |
| `Tunnels` | supervisors and processes of one tunnel | |
| `OvpnFile` | ParseOVPN line by line, and what the file means | |
| `ResolveCache` | Resolve and the cache file | |
| `*Proofs` | the proofs of section 5 | the module of their name |
| `MC*` | values of the constants for TLC | |

Three views of the service complete one another.  `Service` has configurations,
adapters and the engine's rules, and a handler as one step.  `Lifecycle` has the
steps within a handler and what runs beside them without the lock, and the engine
reduced to no, a soft or an iron block.  `Handlers` is what the two have in common:
that a handler may be taken for one step, because it holds the lock from beginning
to end, is no assumption of `Service` but what Lifecycle is shown to implement.
`Tray` sees the service from the other end of the pipe.

**KillSwitch.** Each process has a program counter over the WFP calls of
`Apply` (`ListProviders` ... `Swap`) and `Disable` (`ListAll`, `Purge`,
`DropProvider`); `todo`, `old`, `err` and `ret` are the locals `rules`,
`oldIDs`/`ids`, `firstErr` and the result.  `ApplyFails` is every error return;
`PurgeRule`, `DropSublayer` and `DropProvider` remember an error and go on, as
the code does.  `EndSession` is `Close`, the end of the process and its death at
any call; filters of a dynamic session go with it.  The text search of
`isNotFound` may or may not recognise a missing object, so both are possible.
`goal`, `mark`, `floor` and `armed` are history variables: the rules asked for,
the age of the listing, the age of the last event that may lift the block, and
"an Apply that listed after that event has completed".  A filter id is the
number of filters added before it; the code's random GUIDs are only compared.

**FilterRules** and **RuleSwap.** A rule's conditions are a set of matches, each a
field and the values it accepts.  The sections of buildRules are one operator each,
in the order of the code; a rule stands for all rules of the same content, which
differ in their id only.  `Permitted` is the arbitration: in our sublayer the
heaviest rule that matches decides.  `RuleSwap` adds `BuildRules(c)` rule by rule
(`added`), the default denies first, then deletes what it found (`kept`).  Which of
the other rules comes next, and in which order the engine lists the old ones, is a
parameter, `Turn`: the proofs take any, TLC one.

**Service.** `svcState.mu` is held for the whole of each handler, so a handler
is one action; `Poll` and `OnVPNChange` are two, because polling is outside the
lock.  The engine is a set of <<rule, persistent>>; Apply and Disable end in any
state that their sequence of calls can leave (`ApplyOutcomes`,
`DisableOutcomes`).  `ksOn` is `ksCfg # nil`, `hard` the mode of the session
that was opened at start, `monCfg` the config the monitor was created with.

**Engine** and **SoleManager.** A call in progress is a record (`call`); it may
succeed, fail, or end with its session, and `EngineOutcomes` says what each can
leave: a failed Apply never deletes before it has added.  In `SoleManager` the
abstract rules are the filters between calls and, during a call, those found at
its start (`before`, a history variable), because Engine changes its rules only
when the call is over.

**Lifecycle.** `pc` has a place for each goroutine between any two steps that
another could observe; the lock is held exactly in the places `Critical`.  Apply,
Disable, StopAll and StartAll are one step each: their inside is `KillSwitch` and
`Tunnels`.  `ProcessEnds` is what Windows does when a process is gone: its memory,
pipe, jobs and dynamic session go.  The SCM's side (`svc`, `installed`) is
external; `Stopped` is the end of Execute, after a stop or after runLoop's error.

**Handlers** and **Serial.** The memory of `svcState` is reduced to
`last.Connected`, `wasConnected` and whether `ksCfg` is there, the tunnels to whether
they were started, the engine to its block.  `Handler` is a delivery of the monitor,
`enable`, `disable` or `reload`, with what each may leave when a call fails.  The
shutdown takes no lock, so the promise ends with `Cancel`: a handler then in progress
may have come to any point (`Cut`) and may go on until the session is closed
(`Overlap`), after which nothing changes the block.  `Serial` adds one history variable
to Lifecycle, `before`: what the lock protects as it was when the lock was last free.
The abstract state is `before` while the service serves (`Seen`), so that all steps of
a handler are stutters but the one that gives the lock back.  Service maps its own
state to Handlers directly (`Block` is the block among its filters); the command line
tool is `Outside` there, and absent from Lifecycle (`Shared`).

**Tray.** `ui` is the handler the thread is in; other handlers run only when it
takes messages, that is when idle or with a dialog open (`asking`, `forms`).
`Written` replaces the whole file, because Save moves a temporary file over it.
An option per form stands for the fields that form edits.  The engine is seen as the
service's calls leave it: "all" or "none" of the rules after an `Applied` or
`Disabled` that has succeeded, "any" after one that has failed - the service logs
its error and answers ok all the same - after another process (`CommandLine`,
`Panic`), and while no service runs.  An error of a reload is shown before Refresh,
in a dialog that takes messages, so `Sent` leads to "idle", where the next refresh
is the timer's; Toggle's locals end with it (`ToggleEnds`).  `inSync`, `touched` and
`consent` are history variables: a reload was answered with ok and nobody has
written since; somebody has written since Toggle read; the Toggle at work has had
its question answered with yes.

**OvpnFile.** A line is the sequence of its fields; constants say what each token
is as a number, a protocol or a directive.  `Meaning` defines the endpoints of a
file without reading it in order, and shares no operator with the parser: what a
line gives (`Gives`, `Endpoint`) is said anew, in terms of the tokens.

**Tunnels.** `handle` is the supervisor that `tunnel.cancel` belongs to; every
start makes a new one, and old ones run on until they see their context.  The
program counter follows `supervise` and `watch`; each case of a select is an
action.  `NewManager` is what reload does: the old supervisors then write to an
object that nobody reads (`bound`).  `prev`, a history variable, is the pause before
the present one, 0 when a long run lies between.

**ResolveCache.** One lookup per action, `os.WriteFile` as truncation and write;
processes overlap and die anywhere.  `fresh`, `latest` and `disturbed` are history
variables: what DNS has answered in this call, the last answer of a successful
call, and "two calls have overlapped or one has died while it wrote".


## 3 The runs

| Run | Instance | Shows |
|---|---|---|
| `killswitch_race` | 2 processes, each soft or iron; 1 default deny, 1 permit; 4 filters ever | `NoFailOpenWindow`, `StaleRulesGone`, `DisableTellsTruth` |
| `killswitch_service` | 1 process, all kinds of rules, 6 filters ever | `KeepsPromise` (the refinement of Engine), `OnlyConfiguredRules` |
| `rules_policy` | 192 configurations, 1792 connections | `OnlyLifelineOutsideTunnel`, `CanReconnect`, `AllowlistHolds`, `TunnelIsUsable` |
| `rules_swap` | 3 configurations (no, one, two adapters), 2 Applies, failures anywhere | `NoWindow`, `NoInterruption` |
| `service_faults` | 1 adapter, 4 configurations, all faults, the tool at any time | `TunnelsOnlyBehindVPN`, `NetworkOpensOnlyOnRequest`, `HandlersAsPromised` (it implements Handlers) |
| `service_quiet` | 2 adapters, 4 configurations, no faults, the tool while the service is stopped | `EngineMatchesStatus`; liveness: `Converges`, `EnabledMeansBlocked`, `TunnelsFollowVPN` |
| `lifecycle` | 1 connection at a time, an iron and a soft file, every fault but those of Apply and of the recovery actions, 1 crash | `HandlersAreSerial` (the refinement of Handlers), `GuardHolds`, `NothingOutlivesItsOwner`, `OpensOnlyOnCommand`; liveness: `StopTerminates`, `ClientsAreReleased`, `GuardReturns` |
| `tray` | 1 form, 2 values of its option, files missing and broken, all faults, the tool at any time | `OkMeansApplied`, `AsksBeforeOpening`, `ToggleKeepsOptions`; liveness: `IconFollowsService` |
| `tunnels` | 2 supervisors, check with threshold 2, pauses 1 and 2, failing launches | `OneMaster`, `NoOrphans`, `QuietMeansStopped`, `PausesDouble`; liveness: `StopIsEffective`, `ProcessComesBack` |
| `ovpn` | every file of up to 3 lines | `ReturnsWhatTheFileMeans` |
| `cache` | 2 processes that overlap and die anywhere, 2 hosts, 2 answers, 4 .ovpn files | `CacheServesLatest`, `FailsOnlyWithoutDns` |

`TypeOK` is an invariant of the runs of RuleSwap and OvpnFile; that of every module
is proved (section 5).  One more run,
`service_reload_fails`, ends in a counterexample: section 4.

**Bounds.** `MaxId` (filters ever added) bounds KillSwitch: 4 with two rules are
two complete Applies in any interleaving, 6 with one process are an Apply with an
adapter on top of leftovers of others; the proofs lift the bound.  `MaxSup`
(supervisors ever started): two are enough for an old and a new one, the only
pair that shares a status; pauses 1 and 2 are a first one, a doubled one and one that
the cap holds.  A missing job object is a fault of the proof (`TreeDies`), not of
the run, and what it promises then is the end of the root only.  `MaxApplies` 2: a first Apply, complete or failed,
and its replacement.  1792 connections are one per class the conditions can tell
apart (direction, version, loopback, eight protocol and port classes, seven kinds
of address, four programs, tunnel or not).  `MaxCrashes` 1: a crash, and the
restart that it leads to, in every state; one connection at a time competes with
the monitor and the shutdown for everything that more would compete for, and the
proofs take any number of connections and crashes, and every fault.  Three
lines of an .ovpn file are a default before its use, after it and overridden; the
proof takes any file.  Two processes are enough for the cache: one that writes and
one whose knowledge is older.  One adapter is enough where only presence matters,
two where the set does.  Deadlock checking is off where a bound ends behaviours
(KillSwitch, RuleSwap, Tunnels) or the algorithm ends (OvpnFile), and on for
Service, Lifecycle, Tray and ResolveCache, which never stop.

**Fairness.** Service: weak fairness of `Poll` and `OnVPNChange`, which are the
loop of one goroutine driven by a ticker; handlers hold the lock for a bounded
time.  Lifecycle: weak fairness of every goroutine's next step, of the SCM's
start, stop and recovery; strong fairness of taking the lock (`Deliver`, `Lock`),
because sync.Mutex hands it to a goroutine that has waited a millisecond; strong
fairness of `MonitorDone` and, in Tunnels, of the cases of a select that wait for
the context or the end of the process, because Go's select chooses among ready
cases at random and a ticker cannot win for ever.  A handler's build is fair
because the resolver has time limits.  Tray: weak fairness of the handler in
progress, strong fairness of the timer's message, which Windows delivers when the
queue is empty, and a user's clicks leave it empty now and then.  None for users,
adapters, commands, clients, faults.  KillSwitch, RuleSwap, OvpnFile and
ResolveCache state safety only and have no fairness.

**Conditions of the liveness properties.** `Converges` asks for a VPN that
settles; `EnabledMeansBlocked` and `TunnelsFollowVPN` ask that only the monitor
still moves (`Quiet`).  All three are checked without failing Applies: section 4
shows what a failing one does.  `GuardHolds` and `GuardReturns` are about an Apply that
does not fail, for the same reason; the other properties of Lifecycle hold, and
are proved, with it.  `IconFollowsService` asks that the service's answer settles.


## 4 What was found

The run checks one sentence of a comment, and TLC finds a behaviour of the code
against it.

| Run | The code | Against |
|---|---|---|
| `service_reload_fails` | a reload that cannot build the kill switch has stopped the tunnels, does not start them again, and keeps `wasConnected`: they stay down until the VPN itself goes down and up or a later reload succeeds | service_windows.go 224 |

Other sentences that the modelled code does not keep, read off the models and
the source.  No run checks them; the properties above are stated so as to say
what does hold.

| The code | Against |
|---|---|
| `vpnguard enable` in soft mode beside the service deletes the service's filters and takes its own along when it exits: the block is gone while the service runs (`EndSession` resets `floor` in KillSwitch) | README 16-17 |
| an old supervisor's last write, "stopped", lands after the new one's "running" and stays for as long as the tunnel runs, when it has no check (`Ending` after `Mark` in Tunnels) | TEST-PLAN 55-56 |
| a form writes back the whole copy it read when it was opened: what a toggle, another form or an editor saved since is lost, and a form opened while the kill switch was off turns it off again without a question (the exception in `AsksBeforeOpening`) | tray: "turn the kill switch off?" |
| a reload answers ok although its Disable has failed (220-222) or its Apply has (147-151): both errors are only logged.  The tray then says that the kill switch is off and the network open while rules of ours stay, or that the service has reread the config while the old rules stay or the block is incomplete (the "any" in `OkMeansApplied`) | TrayAppContext.cs 112 and 204 |
| a config.yaml without the key `enabled` is off for the service and on for the tray, so that a form's save turns it on (Tray's files have every key) | GuardConfig.cs 58, config.go 96 |
| when runLoop returns an error (no config, no session, no endpoints) Execute reports Stopped, which is no crash: the recovery actions do not run (`Stopped`, the exception in `GuardReturns`) | service_windows.go 329 |
| Uninstall ignores the error of a stop and deletes after two seconds: a service that is starting runs on until it is stopped some other way (`UninstallStop`) | service_windows.go 350-352 |
| a handler in flight at shutdown may start tunnels after the deferred StopAll; only their job objects end them, with the process (`NothingOutlivesItsOwner` says with the process, not with StopAll) | service_windows.go 95 |
| a command may take effect and its answer be lost, when the lock or DNS takes more than 5 s: the tray shows an error (the "late" outcome of `Reloaded`; `OkMeansApplied` has only one direction) | pipe_windows.go 103 |
| `persistent: true` takes effect by a restart: reload keeps the session (`hard` in Service), so a stopped service takes the block along | TEST-PLAN 64 |
| a service that starts with `enabled: false` leaves the rules of an iron predecessor in the engine | tray: "OFF - the network is open" |
| after `vpnguard panic` beside the service the status still reads as enabled, and the icon stays yellow or green (`ksOn` is memory, `filters` is the engine; `Panic` in Tray) | tray: "the network is BLOCKED" |
| a failed Apply is logged and not retried before the next change of the VPN; so `EnabledMeansBlocked` is checked without failing Applies | service_windows.go 146-147 |
| reload does not reach the monitor's `tunnel_interfaces` (`monCfg`); so `Converges` speaks of `monCfg.matches` | README 86 |
| stop does not wait: after a quick stop and start the old process runs beside the new one | manager.go 92-94 |
| a `restart_delay_seconds` above the cap is the first pause all the same, and the later ones are shorter: the cap is looked at after the doubling only (`PauseAfter` says so) | manager.go 7-8 |
| without a job object a restart leaves a .bat file's children; so `NoOrphans` asks for one | README 71-72 |
| `allow_lan` permits port 53 on the LAN although `dns_when_down` is "off" (`IsLan` in RuleSwap) | killswitch_windows.go 46 |
| `openvpn.binary` does not restrict the DNS permits | config.go 116-117 |
| under an allowlist every program may use port 53 through the tunnel, and the VPN program everything (`AllowlistHolds`); a comment in the code explains it | README 58-59 |
| overlapping Resolves overwrite one another's cache entries, a crash between truncation and write empties the cache (`disturbed` in ResolveCache) | config.go 293-296, README 60-61 |
| when a later host fails, the answers for the earlier ones are not saved (`latest` counts successful calls only) | README 60 |


## 5 The proofs

`KillSwitchProofs` proves, for any set of processes, rules, adapters and any
`MaxId`:

- `TypeCorrect`: Spec => []TypeOK
- `NeverFailsOpen`: Spec => []NoFailOpenWindow
- `NoLeftovers`: Spec => []StaleRulesGone
- `PanicTellsTruth`: Spec => DisableTellsTruth

from three assumptions on the constants: there is a default deny, "persistent"
is not the name of a process, `MaxId` is a natural number.

`NoFailOpenWindow` is not inductive: it says nothing of the Apply that is half
way through deleting.  The inductive invariant `IInv` has seven parts:

| Part | Says |
|---|---|
| `Hierarchy` | no filters without sublayer, no sublayer without provider |
| `Ages` | ids are unique and below `nextId` |
| `Owners` | a filter of a dynamic session belongs to a session that is open |
| `Control` | which locals are empty at which program counter |
| `Listing` | what a process has listed is older than its `mark` |
| `Progress` | an Apply that is adding or deleting has every rule of its goal either in `todo` or in the engine with an id not below its `mark`, unless the block was lifted since |
| `Armed` | once armed, every baseline rule is in the engine with an id not below `floor` |

The argument: a process deletes only what it listed, so only ids below its mark,
and only after all of its own rules are in, with ids from its mark on.  So for
any baseline rule, the youngest of the two copies survives whoever deletes
(`DeletionSafe`).  Processes that die leave old copies alone; those that end a
soft session or disable reset `floor`.  `StaleRulesGone` is the same
comparison read the other way.  `PanicTellsTruth` needs `Hierarchy` only: the
provider cannot be deleted over a sublayer, nor the sublayer over a filter, so
the last call of `Disable` cannot succeed while anything is left.

The second half of the module is about `SoleManager`.  For one process alone
(`OneProcess`), any rules and adapters that are told apart (`DistinctRules`) and any
`MaxId` it proves

- `Implements`: SoleSpec => KeepsPromise, the refinement
- `LeavesItsRules`: SoleSpec => []OnlyConfiguredRules

Its invariant `SInv` adds to KillSwitch's what a lone call has done so far: its goal
is a configuration (`Configured`), nothing changes before the listing (`Untouched`),
the rules added are those of the goal, default denies first, and what was found is
deleted only when all are added (`Swapping`), Disable only deletes (`Purging`).
So every end of a call maps to a step of Engine and each step before it to a
stutter (`Maps`, one step per action; `Reached` is what an unfinished Apply can
hold).
`ApplyAsPromised` in ServiceProofs ties the other end: what `Service` assumes of an
Apply is what Engine lets it leave.

`RuleSwapProofs` proves, for any endpoints, adapters, programs, prefixes and other
settings, any order of the rules and any number of Applies:

- `PolicyExact`: the rules of a configuration let through exactly what `Allowed`
  says, which states each section of buildRules in terms of the connection
- `TypeCorrect`
- `NeverOpens`: Spec => []NoWindow, and `NeverInterrupts`: Spec => []NoInterruption
- `OutsideTunnel`, `Reconnecting`, `Allowlisted`, `Usable`: Spec => [] of
  `OnlyLifelineOutsideTunnel`, `CanReconnect`, `AllowlistHolds`, `TunnelIsUsable`

from two assumptions: the engine asks about a connection at the layer of its
direction and of the family of its remote address, and `MaxApplies` is a natural
number.  Every permit outweighs every block (`Ranked`), so one matching permit
decides (`PermitDecides`), and a union of rules permits what one of its parts does
(`HitCup`); `HitDhcp` ... `HitLan` go through the sections with that.  The invariant of
the exchange is `Exchange`: an Apply that adds has deleted nothing, one that deletes
has added everything, and a failed one leaves it at that.  So the engine always
holds all of the old or all of the new rules and none besides (`AllOfOne`).  After a
successful Apply it holds the new ones only, whatever failed before, and
`PolicyExact` turns the policy properties into statements about `Allowed`.

`ServiceProofs` proves, for any adapters, config files, faults and any use of the
tool:

- `TypeCorrect`, `TunnelsAreGated`: Spec => []TunnelsOnlyBehindVPN
- `StaysClosed`: Spec => NetworkOpensOnlyOnRequest
- `StatusIsTrue`: Spec => []EngineMatchesStatus, if nothing fails and the tool is
  not used beside a running service

Its invariant adds two parts to the type invariant (which has the equality of
`wasConnected` and `last.connected` in it) and the gate itself.  `Idle`: a stopped
service knows nothing and runs nothing, so that a start finds no leftovers in
memory.  `SessionFilters`: filters that go with a session exist only while a
soft-mode service runs; without it the end of an iron-mode service might take
the block along.  `ApplyLeaves` says what every outcome of Apply has in
common - it holds a block set if there was one - and `StaysClosed` follows step
by step.

- `Promised`: Spec => HandlersAsPromised, the refinement of Handlers, for any
  adapters, config files, faults and use of the tool

`ApplyBlocks` and `DisableBlocks` say what the outcomes of the two calls are for the
block alone: the mode of the session after an Apply that succeeds, also what was there
after one that fails; anything no stronger than before after a Disable.  With
`SessionFilters`, a soft block ends with its session (`StepMaps`, one step per action).

`TunnelsProofs` proves, for any number of supervisors, thresholds, delays and any
faults:

- `TypeCorrect`, `OneInCharge`: Spec => []OneMaster
- `TreeDies`: Spec => []NoOrphans
- `StatusComesToRest`: Spec => []QuietMeansStopped
- `PausesGrow`: Spec => []PausesDouble

`Masters` relates handle, contexts and program counters: every supervisor ever
started is cancelled except the one the handle belongs to, and only a cancelled
one comes to its end.  `Reporter` is what makes `QuietMeansStopped` inductive: a
status other than "stopped" has a supervisor of the current manager at work, who
will write again.  `Pauses` adds to `PausesDouble` the time between two pauses: a run
that has become long has ended the row before supervise resets its backoff.

`ResolveCacheProofs` proves, for any processes, hosts, answers and .ovpn files:

- `TypeCorrect`, `CacheIsComplete`: Spec => []CacheServesLatest
- `CacheNeverHinders`: Spec => FailsOnlyWithoutDns

`Serves` says of the map of a running call what `CacheServesLatest` says of the
file at rest; `Recorded` that an answer of this call is in the map and will be
saved.

`LifecycleProofs` proves, for any number of connections and crashes and any
faults:

- `TypeCorrect`, `GuardAlwaysHolds`: Spec => []GuardHolds
- `NothingLeftBehind`: Spec => []NothingOutlivesItsOwner
- `OnlyCommandsOpen`: Spec => OpensOnlyOnCommand

`Alive` says where the goroutines can be: before runLoop has started them there are
none, and a service that is stopped, starting or crashed has no process.  `Guard` is
`GuardHolds` with what may be pending: a kill switch that is on but not in the
engine has an actor whose next step is `Apply`, or the first delivery is still to
come.

- `Serialised`: SerialSpec => HandlersAreSerial, the refinement of Handlers

Its invariant `SInv` adds two parts.  `Order`: at most one goroutine is between taking
and giving back the lock, which places it can be in with which request, and what there
is before the goroutines are started.  `Track`: while the service serves and the lock is
free, `before` is the present; while it is held, the present is `before` changed by
exactly what the holder has done so far (`Path`, one line per place of a handler), and by
nobody else.  So a step within a handler maps to a stutter (`Holds`), the step that gives
the lock back to a handler of Handlers (`Releases`; `ReloadMaps` ... `DeliverMaps`, one
lemma per step of a handler), the rest to a stutter (`Elsewhere`).  `HalfWay` turns `Path`
into `Cut` when a shutdown or a crash comes in between; from then on
`NothingOutlivesItsOwner` limits what a handler beside the shutdown can leave
(`Overlaps`).

`TrayProofs` proves, for any forms, values and faults:

- `TypeCorrect`, `OkIsApplied`: Spec => []OkMeansApplied
- `ToggleKeeps`: Spec => ToggleKeepsOptions
- `Asks`: Spec => AsksBeforeOpening

The invariant adds three parts: between Toggle's read and its save, what it has read
is the file unless somebody has written (`ReadIsFile`); a Toggle that will turn the
kill switch off has had its yes, from the answer to the write (`Consented`); of the
engine nothing is known while the service is down (`AnyWhenDown`).

`OvpnProofs` proves, for any tokens and files of any length:

- `TypeCorrect`, `Correct`: Spec => []ReturnsWhatTheFileMeans

by a loop invariant: the locals hold what the lines before `at` say
(`PortBefore`, `ProtoBefore` and the remotes of those lines), and one more line
changes them as it changes the definition.  `SwitchSees` and `FilledLater` relate the
parser's view of one line to the definition's.

The assumptions of all these are the named ASSUMEs of the modules, which TLC
evaluates in every run: sizes are natural numbers, delays and thresholds are
positive, None is no value of any other kind.

Model-checked only: liveness, which is under fairness and with ENABLED and so out
of the prover's reach.  Every other property of every run is proved.


## 6 Assumptions and limits

- **WFP** is external.  One call is atomic; adding needs the parent object,
  deleting needs that nothing refers to the object; a dynamic session takes the
  filters it added along, but not the provider and the sublayer, which are added
  as persistent; any call may fail.  Reboot is the end of every session.
- **Arbitration.** Our sublayer has the maximum weight; what other sublayers
  decide is not modelled.  Existing connections are taken to be authorised anew
  when rules change.
- A connection's layer and the family of its remote address agree
  (`TrafficAssumption` in RuleSwap); an IPv4 address written as IPv6 counts as IPv6,
  as in `Addr.Is6`.
- **The first Apply** on a clean engine cuts everything between its first
  default deny and the permit of a connection: `NoInterruption` is about what rules of
  ours permitted before.
- In `Service` a handler is one action; that it may be is `HandlersAreSerial`, for
  the state that the two share.  In `Lifecycle` Apply, Disable and StopAll are one
  action, and one of the shutdown that overlaps an Apply comes before or after it.
- Resolvers answer or fail within bounded time (`Build`); the SCM keeps its word.
- Tray's files have every key; a file is one value, so that Save, a rename, is
  atomic, and so is Notepad.  The service's monitor and commands are reduced to the
  answer they give and to whether their last call on the engine has succeeded.
- The cache file is not written by anything but Resolve; a write that fails (a
  full disk) counts as a crash while writing.
- Tunnels are independent, so one is modelled.  The child that a process starts
  before it is put into the job object (proc_windows.go 50-51) counts as the
  fault of the job object.
- Display data (names, addresses, restart counters, detail texts), logging and
  YAML are left out.
- Not modelled, by choice: the installer, scripts and CI, the tray's autostart
  and Notepad commands, the log and its rotation: sequences of commands without
  state of their own; the management protocol's text, adapter names.
- Hazards without a property, because the code does nothing about them: the
  status is not the engine's (service_windows.go 236), a new address of the same
  adapter is not delivered (monitor_windows.go 41), a missing `enabled` key means
  two things (GuardConfig.cs 58), a failed start is not retried
  (service_windows.go 66).


## 7 The plan

Done: the engine, its promise and the refinement; the rules; the service, its life
cycle and the refinement of both to `Handlers`; the tunnels, the cache, the .ovpn
file, the tray; proofs of every module.

Next:

1. Tray with two forms of different fields at once, for the interplay of their
   saves.
2. A promise for `Tunnels` as `Handlers` is one for the service - started, stopped,
   and a process while started - which Lifecycle's `StartAll` and `StopAll`, one step
   each, would be steps of.
