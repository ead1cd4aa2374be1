------------------------------ MODULE Lifecycle ------------------------------
(***************************************************************************)
(* The goroutines of the service's process and the Service Control Manager *)
(* (SCM): Execute, runLoop, the VPN monitor, ipc.Serve with one goroutine  *)
(* per connection, and svcState.mu that orders the handlers.  Service.tla  *)
(* takes a handler as one step; here it is its steps, and the shutdown,    *)
(* which does not take the lock, runs between them.                        *)
(*                                                                         *)
(* The engine is what the service has it do: no block, one that ends with  *)
(* the session ("soft"), or one that stays ("iron").  The tunnels of the   *)
(* current tunnels.Manager all run or all stand still.                     *)
(***************************************************************************)
EXTENDS Naturals, FiniteSets

CONSTANTS Conns,       \* pipe connections
          Monitor,     \* the monitor's goroutine
          Files,       \* config files: [enabled, persistent]
          Faults,      \* what may fail: a subset of Fault
          StopOnDown,  \* StopOnVPNDown of the config
          MaxCrashes   \* bound: crashes of the process

File == [enabled : BOOLEAN, persistent : BOOLEAN]
Fault == {"load", "open", "build", "apply", "disable", "pipe", "recovery"}

ASSUME ActorsAssumption == Monitor \notin Conns
ASSUME FilesAssumption == Files \subseteq File /\ Files # {}
ASSUME FaultsAssumption == Faults \subseteq Fault
ASSUME BoundAssumption == MaxCrashes \in Nat /\ StopOnDown \in BOOLEAN

Actor == Conns \cup {Monitor}

VARIABLES
  vpn,       \* a tunnel adapter is up
  file,      \* config.yaml
  installed, \* "no", "yes", "bare" (no recovery actions), "deleting"
  admin,     \* Uninstall sleeps between Control and Delete
  svc,       \* the SCM's state of the service; "crashed" waits for its restart
  crashes,
  loop,      \* where runLoop is
  cfg,       \* runLoop's cfg
  pc,        \* where the monitor and the connections' goroutines are
  cmd,       \* the request of a connection
  seen,      \* Run's last: "none" or the status delivered or being delivered
  pipe,      \* the listener: "off", "opening", "open"
  last,      \* svcState.last.Connected
  wasConnected,
  ksOn,      \* svcState.ksCfg # nil
  started,   \* the tunnels of svcState.tm run
  blocked    \* "no", "soft" or "iron"

env == <<vpn, file>>
scm == <<installed, admin, svc, crashes>>
run == <<loop, cfg>>
threads == <<pc, cmd, seen, pipe>>
memory == <<last, wasConnected, ksOn>>
world == <<started, blocked>>
vars == <<env, scm, run, threads, memory, world>>

May(f) == f \in Faults

\* svcState.mu is held from Lock to the end of the handler.
Critical == {"load", "build", "disable", "apply", "tunnels"}
\* A shutdown that holds the lock while it waits for the monitor.
LockIsFree_HeldByShutdown ==
  loop # "join" /\ \A a \in Actor : pc[a] \notin Critical

LockIsFree == \A a \in Actor : pc[a] \notin Critical

\* The context is cancelled; the session of killswitch.New is open.
Cancelled == loop \in {"join", "close", "stopAll", "ended"}
SessionIsOpen == loop \in {"build", "wait", "join", "close"}

Mode == IF cfg.persistent THEN "iron" ELSE "soft"

NoConfig == CHOOSE f \in Files : TRUE

Idle ==
  /\ loop = "none" /\ cfg = NoConfig
  /\ pc = [a \in Actor |-> "none"] /\ cmd = [c \in Conns |-> "status"]
  /\ seen = "none" /\ pipe = "off"
  /\ last = FALSE /\ wasConnected = FALSE /\ ksOn = FALSE

Init ==
  /\ vpn \in BOOLEAN /\ file \in Files
  /\ installed = "no" /\ admin = "idle" /\ svc = "stopped" /\ crashes = 0
  /\ Idle
  /\ started = FALSE /\ blocked = "no"

\* The process is gone: its memory, its pipe, its jobs (kill on close) and,
\* when its session was a dynamic one, its filters.
ProcessEnds ==
  /\ loop' = "none" /\ cfg' = NoConfig
  /\ pc' = [a \in Actor |-> "none"] /\ cmd' = [c \in Conns |-> "status"]
  /\ seen' = "none" /\ pipe' = "off"
  /\ last' = FALSE /\ wasConnected' = FALSE /\ ksOn' = FALSE
  /\ started' = FALSE
  /\ blocked' = IF blocked = "soft" THEN "no" ELSE blocked

-----------------------------------------------------------------------------
(* The surroundings. *)

VpnChanges ==
  /\ vpn' = ~vpn
  /\ UNCHANGED <<file, scm, run, threads, memory, world>>

Edit ==
  /\ file' \in Files \ {file}
  /\ UNCHANGED <<vpn, scm, run, threads, memory, world>>

(* The SCM and the installer. *)

\* SetRecoveryActions' error is ignored; the last call starts the service.
Install ==
  /\ installed = "no"
  /\ installed' \in {"yes"} \cup {i \in {"bare"} : May("recovery")}
  /\ svc' = "starting"
  /\ UNCHANGED <<env, admin, crashes, run, threads, memory, world>>

Start ==
  /\ installed \in {"yes", "bare"} /\ svc = "stopped"
  /\ svc' = "starting"
  /\ UNCHANGED <<env, installed, admin, crashes, run, threads, memory, world>>

\* Execute reports that it runs and starts runLoop.
Execute ==
  /\ svc = "starting"
  /\ svc' = "running" /\ loop' = "load"
  /\ UNCHANGED <<env, installed, admin, crashes, cfg, threads, memory, world>>

\* Execute takes a Stop: close(stop).
StopRequest ==
  /\ svc = "running"
  /\ svc' = "stopping"
  /\ UNCHANGED <<env, installed, admin, crashes, run, threads, memory, world>>

\* Execute returns after <-done: after a stop, or after runLoop's error.
Stopped ==
  /\ loop = "ended" /\ svc \in {"running", "stopping"}
  /\ svc' = "stopped"
  /\ ProcessEnds
  /\ UNCHANGED <<env, installed, admin, crashes>>

Crash ==
  /\ svc \in {"starting", "running", "stopping"} /\ crashes < MaxCrashes
  /\ svc' = "crashed" /\ crashes' = crashes + 1
  /\ ProcessEnds
  /\ UNCHANGED <<env, installed, admin>>

\* The recovery action: also after a crash during a stop.
Recover ==
  /\ svc = "crashed" /\ installed = "yes"
  /\ svc' = "starting"
  /\ UNCHANGED <<env, installed, admin, crashes, run, threads, memory, world>>

\* Without a recovery action a crashed service is a stopped one.
GiveUp ==
  /\ svc = "crashed" /\ installed # "yes"
  /\ svc' = "stopped"
  /\ UNCHANGED <<env, installed, admin, crashes, run, threads, memory, world>>

\* Uninstall: Control, whose error (a service that is not running) is
\* ignored, two seconds' sleep, Delete.
UninstallStop ==
  /\ installed \in {"yes", "bare"} /\ admin = "idle"
  /\ svc' = IF svc = "running" THEN "stopping" ELSE svc
  /\ admin' = "sleeping"
  /\ UNCHANGED <<env, installed, crashes, run, threads, memory, world>>

\* The SCM keeps a deleted service until it has stopped.
UninstallDelete ==
  /\ admin = "sleeping"
  /\ installed' = "deleting" /\ admin' = "idle"
  /\ UNCHANGED <<env, svc, crashes, run, threads, memory, world>>

Removed ==
  /\ installed = "deleting" /\ svc = "stopped"
  /\ installed' = "no"
  /\ UNCHANGED <<env, admin, svc, crashes, run, threads, memory, world>>

Scm ==
  \/ Install \/ Start \/ Execute \/ StopRequest \/ Stopped \/ Crash
  \/ Recover \/ GiveUp \/ UninstallStop \/ UninstallDelete \/ Removed

-----------------------------------------------------------------------------
(* runLoop and its deferred calls. *)

Load ==
  /\ loop = "load"
  /\ \/ cfg' = file /\ loop' = "open"
     \/ May("load") /\ cfg' = cfg /\ loop' = "ended"
  /\ UNCHANGED <<env, scm, threads, memory, world>>

\* killswitch.New; when it fails only the deferred StopAll is there to run.
OpenSession ==
  /\ loop = "open"
  /\ \/ loop' = "build"
     \/ May("open") /\ loop' = "stopAll"
  /\ UNCHANGED <<env, scm, cfg, threads, memory, world>>

\* BuildKillswitchConfig, then the goroutines of the pipe and the monitor.
BuildAndServe ==
  /\ loop = "build"
  /\ \/ /\ ksOn' = cfg.enabled
        /\ loop' = "wait" /\ pipe' = "opening"
        /\ pc' = [pc EXCEPT ![Monitor] = "poll"]
     \/ /\ cfg.enabled /\ May("build")
        /\ loop' = "close" /\ UNCHANGED <<ksOn, pipe, pc>>
  /\ UNCHANGED <<env, scm, cfg, cmd, seen, last, wasConnected, world>>

\* <-stop; cancel(); then <-done for the monitor, without the lock.
Cancel ==
  /\ loop = "wait" /\ svc = "stopping"
  /\ loop' = "join"
  /\ UNCHANGED <<env, scm, cfg, threads, memory, world>>

Join ==
  /\ loop = "join" /\ pc[Monitor] = "done"
  /\ loop' = "close"
  /\ UNCHANGED <<env, scm, cfg, threads, memory, world>>

\* A close that takes the rules out of the engine.
CloseSession_Opens ==
  /\ loop = "close"
  /\ loop' = "stopAll" /\ blocked' = "no"
  /\ UNCHANGED <<env, scm, cfg, threads, memory, started>>

\* ks.Close: a dynamic session takes its filters along.
CloseSession ==
  /\ loop = "close"
  /\ loop' = "stopAll"
  /\ blocked' = IF blocked = "soft" THEN "no" ELSE blocked
  /\ UNCHANGED <<env, scm, cfg, threads, memory, started>>

StopAll ==
  /\ loop = "stopAll"
  /\ loop' = "ended" /\ started' = FALSE
  /\ UNCHANGED <<env, scm, cfg, threads, memory, blocked>>

RunLoop ==
  \/ Load \/ OpenSession \/ BuildAndServe \/ Cancel \/ Join \/ CloseSession
  \/ StopAll

-----------------------------------------------------------------------------
(* The monitor's goroutine. *)

Goto(a, label) == pc' = [pc EXCEPT ![a] = label]

\* A first status that is delivered only when it is a connected one.
Poll_SkipsFirst ==
  /\ pc[Monitor] = "poll"
  /\ IF (seen = "none" /\ ~vpn) \/ seen = (IF vpn THEN "up" ELSE "down")
     THEN Goto(Monitor, "select") /\ seen' = seen
     ELSE Goto(Monitor, "lock") /\ seen' = IF vpn THEN "up" ELSE "down"
  /\ UNCHANGED <<env, scm, run, cmd, pipe, memory, world>>

\* poll, and onVPNChange when the status is a new one.
Poll ==
  /\ pc[Monitor] = "poll"
  /\ seen' = IF vpn THEN "up" ELSE "down"
  /\ Goto(Monitor, IF seen' = seen THEN "select" ELSE "lock")
  /\ UNCHANGED <<env, scm, run, cmd, pipe, memory, world>>

\* A delivery that does not take the lock.
Deliver_WithoutLock ==
  /\ pc[Monitor] = "lock"
  /\ last' = (seen = "up")
  /\ Goto(Monitor, "apply")
  /\ UNCHANGED <<env, scm, run, cmd, seen, pipe, wasConnected, ksOn, world>>

\* onVPNChange has the lock: s.last = st.
Deliver ==
  /\ pc[Monitor] = "lock" /\ LockIsFree
  /\ last' = (seen = "up")
  /\ Goto(Monitor, "apply")
  /\ UNCHANGED <<env, scm, run, cmd, seen, pipe, wasConnected, ksOn, world>>

Tick ==
  /\ pc[Monitor] = "select"
  /\ Goto(Monitor, "poll")
  /\ UNCHANGED <<env, scm, run, cmd, seen, pipe, memory, world>>

\* The select prefers neither the ticker nor the context.
MonitorDone ==
  /\ pc[Monitor] = "select" /\ Cancelled
  /\ Goto(Monitor, "done")
  /\ UNCHANGED <<env, scm, run, cmd, seen, pipe, memory, world>>

-----------------------------------------------------------------------------
(* ipc.Serve and its connections. *)

Listen ==
  /\ pipe = "opening"
  /\ \/ pipe' = "open"
     \/ May("pipe") /\ pipe' = "off"
  /\ UNCHANGED <<env, scm, run, pc, cmd, seen, memory, world>>

ClosePipe ==
  /\ pipe = "open" /\ Cancelled
  /\ pipe' = "off"
  /\ UNCHANGED <<env, scm, run, pc, cmd, seen, memory, world>>

Accept(c) ==
  /\ pipe = "open" /\ pc[c] = "none"
  /\ Goto(c, "read")
  /\ UNCHANGED <<env, scm, run, cmd, seen, pipe, memory, world>>

\* A line that is no request is answered without the lock.
Request(c) ==
  /\ pc[c] = "read"
  /\ \/ Goto(c, "lock") /\ cmd' \in {[cmd EXCEPT ![c] = r] :
                                       r \in {"status", "enable", "disable", "reload"}}
     \/ Goto(c, "write") /\ cmd' = cmd
  /\ UNCHANGED <<env, scm, run, seen, pipe, memory, world>>

\* The connection's deadline, or its client's end, with nothing read.
Deadline(c) ==
  /\ pc[c] = "read"
  /\ Goto(c, "none")
  /\ UNCHANGED <<env, scm, run, cmd, seen, pipe, memory, world>>

\* handleIPC has the lock.
Lock(c) ==
  /\ pc[c] = "lock" /\ LockIsFree
  /\ Goto(c, CASE cmd[c] = "status" -> "write"
               [] cmd[c] = "enable" -> "build"
               [] cmd[c] = "disable" -> "disable"
               [] cmd[c] = "reload" -> "load")
  /\ UNCHANGED <<env, scm, run, cmd, seen, pipe, memory, world>>

\* reload: config.Load, StopAll, the new manager, ksCfg = nil.
Reload(c) ==
  /\ pc[c] = "load"
  /\ \/ /\ started' = FALSE /\ ksOn' = FALSE
        /\ Goto(c, IF file.enabled THEN "build" ELSE "disable")
     \/ /\ May("load") /\ Goto(c, "write")
        /\ UNCHANGED <<started, ksOn>>
  /\ UNCHANGED <<env, scm, run, cmd, seen, pipe, last, wasConnected, blocked>>

\* enable that leaves the engine to the next change of the VPN.
Build_NoReconcile(c) ==
  /\ pc[c] = "build"
  /\ \/ /\ ksOn' = TRUE
        /\ wasConnected' = (wasConnected /\ cmd[c] # "reload")
        /\ Goto(c, IF cmd[c] = "reload" THEN "apply" ELSE "write")
     \/ /\ May("build") /\ Goto(c, "write")
        /\ UNCHANGED <<ksOn, wasConnected>>
  /\ UNCHANGED <<env, scm, run, cmd, seen, pipe, last, world>>

\* A build that may hang: a resolver without a time limit.
Build_Hangs(c) ==
  /\ pc[c] = "build"
  /\ ksOn' = TRUE
  /\ wasConnected' = (wasConnected /\ cmd[c] # "reload")
  /\ Goto(c, "apply")
  /\ ~May("build")
  /\ UNCHANGED <<env, scm, run, cmd, seen, pipe, last, world>>

\* enable and reload: BuildKillswitchConfig; its failure ends the handler.
Build(c) ==
  /\ pc[c] = "build"
  /\ \/ /\ ksOn' = TRUE
        /\ wasConnected' = (wasConnected /\ cmd[c] # "reload")
        /\ Goto(c, "apply")
     \/ /\ May("build") /\ Goto(c, "write")
        /\ UNCHANGED <<ksOn, wasConnected>>
  /\ UNCHANGED <<env, scm, run, cmd, seen, pipe, last, world>>

\* ks.Disable: for disable the handler's end, for reload a logged error.
Disable(c) ==
  /\ pc[c] = "disable"
  /\ ksOn' = FALSE
  /\ \/ SessionIsOpen /\ blocked' = "no"
     \/ (May("disable") \/ ~SessionIsOpen) /\ blocked' = blocked
  /\ wasConnected' = (wasConnected /\ cmd[c] # "reload")
  /\ Goto(c, IF cmd[c] = "reload" THEN "apply" ELSE "write")
  /\ UNCHANGED <<env, scm, run, cmd, seen, pipe, last, started>>

\* An Apply that puts up its filters without a session.
Apply_WithoutSession(a) ==
  /\ pc[a] = "apply"
  /\ blocked' = IF ksOn THEN Mode ELSE blocked
  /\ Goto(a, "tunnels")
  /\ UNCHANGED <<env, scm, run, cmd, seen, pipe, memory, started>>

\* reconcileLocked, 1: a failed Apply is logged.
Apply(a) ==
  /\ pc[a] = "apply"
  /\ \/ blocked' = IF ksOn /\ SessionIsOpen THEN Mode ELSE blocked
     \/ May("apply") /\ blocked' = blocked
  /\ Goto(a, "tunnels")
  /\ UNCHANGED <<env, scm, run, cmd, seen, pipe, memory, started>>

\* reconcileLocked, 2: the tunnels follow the VPN; the lock is given back.
Tunnels(a) ==
  /\ pc[a] = "tunnels"
  /\ started' = IF last THEN started \/ ~wasConnected
               ELSE started /\ ~(wasConnected /\ StopOnDown)
  /\ wasConnected' = last
  /\ Goto(a, IF a = Monitor THEN "select" ELSE "write")
  /\ UNCHANGED <<env, scm, run, cmd, seen, pipe, last, ksOn, blocked>>

\* The answer, lost when the deadline has passed or the client is gone.
Write(c) ==
  /\ pc[c] = "write"
  /\ Goto(c, "none") /\ cmd' = [cmd EXCEPT ![c] = "status"]
  /\ UNCHANGED <<env, scm, run, seen, pipe, memory, world>>

Step(a) == Apply(a) \/ Tunnels(a)
Handle(c) == Reload(c) \/ Build(c) \/ Disable(c) \/ Write(c)
Connection(c) == Accept(c) \/ Request(c) \/ Deadline(c) \/ Lock(c) \/ Handle(c)

Next ==
  \/ VpnChanges \/ Edit \/ Scm \/ RunLoop
  \/ Poll \/ Deliver \/ Tick \/ MonitorDone \/ Listen \/ ClosePipe
  \/ \E a \in Actor : Step(a)
  \/ \E c \in Conns : Connection(c)

(***************************************************************************)
(* Every goroutine runs on; a goroutine that waits for the lock gets it    *)
(* though others take it meanwhile (sync.Mutex hands it over after a       *)
(* millisecond); the select takes the context sooner or later; the SCM     *)
(* keeps its word.  Nobody has to stop, start, edit or connect.            *)
(***************************************************************************)
Fairness ==
  /\ WF_vars(Execute) /\ WF_vars(Stopped) /\ WF_vars(Recover) /\ WF_vars(RunLoop)
  /\ WF_vars(Poll) /\ SF_vars(Deliver) /\ WF_vars(Tick) /\ SF_vars(MonitorDone)
  /\ \A a \in Actor : WF_vars(Step(a))
  /\ \A c \in Conns : WF_vars(Deadline(c)) /\ SF_vars(Lock(c)) /\ WF_vars(Handle(c))

Spec == Init /\ [][Next]_vars
FairSpec == Spec /\ Fairness

-----------------------------------------------------------------------------
\* Every variable has its type.
TypeOK ==
  /\ vpn \in BOOLEAN /\ file \in Files /\ cfg \in Files
  /\ installed \in {"no", "yes", "bare", "deleting"} /\ admin \in {"idle", "sleeping"}
  /\ svc \in {"stopped", "starting", "running", "stopping", "crashed"}
  /\ crashes \in 0 .. MaxCrashes
  /\ loop \in {"none", "load", "open", "build", "wait", "join", "close", "stopAll", "ended"}
  /\ pc \in [Actor -> {"none", "poll", "select", "done", "read", "lock", "write"} \cup Critical]
  /\ cmd \in [Conns -> {"status", "enable", "disable", "reload"}]
  /\ seen \in {"none", "up", "down"} /\ pipe \in {"off", "opening", "open"}
  /\ last \in BOOLEAN /\ wasConnected \in BOOLEAN /\ ksOn \in BOOLEAN /\ started \in BOOLEAN
  /\ blocked \in {"no", "soft", "iron"}

(***************************************************************************)
(* "Even with zero adapters the block set must be in place": from the      *)
(* first delivery to the end of the session, whenever nobody holds the     *)
(* lock, an enabled kill switch is in the engine, in the mode the session  *)
(* was opened with.  Stated for an engine that does not fail.              *)
(***************************************************************************)
GuardHolds ==
  /\ "apply" \notin Faults /\ LockIsFree /\ SessionIsOpen /\ ksOn
  /\ seen # "none" /\ pc[Monitor] # "lock"
  => blocked = Mode

(***************************************************************************)
(* A handler that overlaps the shutdown puts no block of its session up    *)
(* after ks.Close, and the tunnels it may start after runLoop's StopAll    *)
(* are gone with the process, as those of a crashed one are.  No service   *)
(* runs on that is not installed any more.                                 *)
(***************************************************************************)
NothingOutlivesItsOwner ==
  /\ installed = "no" => svc = "stopped"
  /\ blocked = "soft" => SessionIsOpen /\ ~cfg.persistent
  /\ started => loop # "none"

(***************************************************************************)
(* "We deliberately do NOT remove the WFP rules here": no stop, crash or   *)
(* restart opens the network behind an iron block.  It opens in a handler  *)
(* of disable or reload, and with the end of a soft session.               *)
(***************************************************************************)
OpensOnlyOnCommand ==
  [][blocked # "no" /\ blocked' = "no" =>
       \/ \E c \in Conns : pc[c] = "disable"
       \/ blocked = "soft" /\ ~SessionIsOpen']_vars

\* A stop ends, whatever the monitor and the handlers are doing: runLoop does
\* not wait for the lock, and what it waits for gets it.
StopTerminates == svc = "stopping" ~> svc # "stopping"

\* Every client gets its answer or the end of its connection: the tray's
\* ReadLine has no time limit of its own.
ClientsAreReleased == \A c \in Conns : pc[c] # "none" ~> pc[c] = "none"

(***************************************************************************)
(* After a crash the kill switch comes back by itself, unless the file has *)
(* it off, the service is stopped, cannot start or has lost its recovery   *)
(* actions, or a client turns it off.                                      *)
(***************************************************************************)
GuardReturns ==
  svc = "crashed" ~>
    \/ SessionIsOpen /\ blocked # "no"
    \/ ~file.enabled \/ installed # "yes" \/ svc \in {"stopping", "stopped"}
    \/ \E c \in Conns : cmd[c] \in {"disable", "reload"}
=============================================================================
