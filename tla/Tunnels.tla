------------------------------ MODULE Tunnels ------------------------------
(***************************************************************************)
(* tunnels.Manager (internal/tunnels) for one tunnel: tunnels share only   *)
(* the manager's lock.  Every start makes a supervisor goroutine with a    *)
(* context of its own; stopping cancels the context and does not wait, so  *)
(* an old supervisor and a new one can be at work at the same time, both   *)
(* writing the status of the tunnel.                                       *)
(*                                                                         *)
(* Abstractions.                                                           *)
(*  - A process is a root and, perhaps, a child that lives on when the     *)
(*    root ends; the job object takes both.  Kill and the wait for the end *)
(*    of the root are one step.  Without the "job" fault the job object    *)
(*    comes into being, takes the root, and does so before the root has a  *)
(*    child; the fault stands for each of the three failing.               *)
(*  - Time: a run is short or long (healthyRun); delays are small numbers; *)
(*    a timer or ticker may fire whenever it is waited for.                *)
(*  - The restarts counter and the detail text, which are only displayed,  *)
(*    are left out.                                                        *)
(***************************************************************************)
EXTENDS Naturals

CONSTANTS MaxSup,      \* bound: supervisors ever started
          HasCheck,    \* the config has a tcp check
          Threshold,   \* Check.Threshold()
          Delay,       \* RestartDelay()
          MaxBackoff,  \* maxBackoff
          Faults       \* what may fail: "launch" the process, "job" objects

ASSUME BoundAssumption == MaxSup \in Nat
ASSUME TimesAssumption == Delay \in Nat \ {0} /\ MaxBackoff \in Nat \ {0}
ASSUME CheckAssumption == HasCheck \in BOOLEAN /\ Threshold \in Nat \ {0}

VARIABLES
  handle,     \* tunnel.cancel: the supervisor it cancels; 0 for nil
  state,      \* tunnel.state
  next,       \* the next supervisor
  pc,         \* pc[s]: where supervise (s) is
  cancelled,  \* cancelled[s]: the context of s is done
  bound,      \* bound[s]: s belongs to the tunnel of the current manager
  backoff,    \* backoff[s]
  prev,       \* history: the last pause of s since its last long run, 0 for none
  fails,      \* fails[s]: failed checks in a row
  long,       \* long[s]: the run has lasted healthyRun
  root,       \* root[s]: the process of s lives
  child,      \* child[s]: a process it has spawned lives
  job         \* job[s]: there is a job object around them, if they are any

tunnel == <<handle, state, next>>
ctx == <<cancelled, bound>>
waits == <<backoff, prev>>
locals == <<pc, waits, fails, long>>
procs == <<root, child, job>>
vars == <<tunnel, ctx, locals, procs>>

Sup == 1 .. MaxSup
State == {"stopped", "starting", "running", "unhealthy", "restarting", "failed"}
Pc == {"none", "begin", "launch", "mark", "watch", "check", "after", "pause",
       "ending", "done"}
AtWork(s) == pc[s] \notin {"none", "done"}

Init ==
  /\ handle = 0 /\ state = "stopped" /\ next = 1
  /\ pc = [s \in Sup |-> "none"]
  /\ cancelled = [s \in Sup |-> FALSE]
  /\ bound = [s \in Sup |-> TRUE]
  /\ backoff = [s \in Sup |-> Delay]
  /\ prev = [s \in Sup |-> 0]
  /\ fails = [s \in Sup |-> 0]
  /\ long = [s \in Sup |-> FALSE]
  /\ root = [s \in Sup |-> FALSE]
  /\ child = [s \in Sup |-> FALSE]
  /\ job = [s \in Sup |-> TRUE]

Goto(s, l) == pc' = [pc EXCEPT ![s] = l]

\* A supervisor of a manager that was replaced writes to an object nobody reads.
SetState(s, x) == state' = IF bound[s] THEN x ELSE state

-----------------------------------------------------------------------------
(***************************************************************************)
(* The manager's operations, under its lock.                               *)
(***************************************************************************)
StartTunnel_Again ==
  /\ next <= MaxSup
  /\ handle' = next /\ next' = next + 1
  /\ Goto(next, "begin")
  /\ UNCHANGED <<state, ctx, waits, fails, long, procs>>

StartTunnel ==
  /\ handle = 0 /\ next <= MaxSup
  /\ handle' = next /\ next' = next + 1
  /\ Goto(next, "begin")
  /\ UNCHANGED <<state, ctx, waits, fails, long, procs>>

Cancelled == IF handle = 0 THEN cancelled ELSE [cancelled EXCEPT ![handle] = TRUE]

StopTunnel ==
  /\ handle # 0
  /\ cancelled' = Cancelled /\ handle' = 0
  /\ UNCHANGED <<state, next, bound, locals, procs>>

RestartTunnel ==
  /\ next <= MaxSup
  /\ cancelled' = Cancelled
  /\ handle' = next /\ next' = next + 1
  /\ Goto(next, "begin")
  /\ UNCHANGED <<state, bound, waits, fails, long, procs>>

\* Reload: StopAll, then NewManager.
NewManager ==
  /\ next > 1 /\ \E s \in Sup : s < next /\ bound[s]
  /\ cancelled' = Cancelled /\ handle' = 0
  /\ bound' = [s \in Sup |-> s >= next]
  /\ state' = "stopped"
  /\ UNCHANGED <<next, locals, procs>>

-----------------------------------------------------------------------------
(***************************************************************************)
(* supervise(s).                                                           *)
(***************************************************************************)
Begin(s) ==
  /\ pc[s] = "begin"
  /\ SetState(s, "starting")
  /\ Goto(s, "launch")
  /\ UNCHANGED <<handle, next, ctx, waits, fails, long, procs>>

\* startProcess; without a job object the process runs unconfined.  What such a
\* process has left behind is nobody's any more.
Launch(s) ==
  /\ pc[s] = "launch"
  /\ root' = [root EXCEPT ![s] = TRUE]
  /\ child' = [child EXCEPT ![s] = FALSE]
  /\ \E j \in IF "job" \in Faults THEN BOOLEAN ELSE {TRUE} :
       job' = [job EXCEPT ![s] = j]
  /\ long' = [long EXCEPT ![s] = FALSE]
  /\ Goto(s, "mark")
  /\ UNCHANGED <<tunnel, ctx, waits, fails>>

LaunchFails(s) ==
  /\ pc[s] = "launch" /\ "launch" \in Faults
  /\ SetState(s, "failed")
  /\ long' = [long EXCEPT ![s] = FALSE]
  /\ Goto(s, "after")
  /\ UNCHANGED <<handle, next, ctx, waits, fails, procs>>

Mark(s) ==
  /\ pc[s] = "mark"
  /\ SetState(s, "running")
  /\ fails' = [fails EXCEPT ![s] = 0]
  /\ Goto(s, "watch")
  /\ UNCHANGED <<handle, next, ctx, waits, long, procs>>

(***************************************************************************)
(* watch: the select takes any of its ready cases.                         *)
(***************************************************************************)
\* Closing the job kills the whole tree, Process.Kill only the root.
KillTree(s) ==
  /\ root' = [root EXCEPT ![s] = FALSE]
  /\ child' = [child EXCEPT ![s] = @ /\ ~job[s]]
  /\ UNCHANGED job

\* watch returns: its locals are gone.
LeaveWatch(s) ==
  /\ fails' = [fails EXCEPT ![s] = 0]
  /\ Goto(s, "after")
  /\ UNCHANGED <<tunnel, ctx, waits, long>>

WatchCancelled_RootOnly(s) ==
  /\ pc[s] = "watch" /\ cancelled[s]
  /\ root' = [root EXCEPT ![s] = FALSE] /\ UNCHANGED <<child, job>>
  /\ LeaveWatch(s)

WatchCancelled(s) ==
  /\ pc[s] = "watch" /\ cancelled[s]
  /\ KillTree(s)
  /\ LeaveWatch(s)

WatchExited_LeavesJob(s) ==
  /\ pc[s] = "watch" /\ ~root[s]
  /\ LeaveWatch(s) /\ UNCHANGED procs

\* proc.Close: the end of the root takes the rest of the tree along.
WatchExited(s) ==
  /\ pc[s] = "watch" /\ ~root[s]
  /\ KillTree(s)
  /\ LeaveWatch(s)

WatchTick(s) ==
  /\ pc[s] = "watch" /\ HasCheck
  /\ Goto(s, "check")
  /\ UNCHANGED <<tunnel, ctx, waits, fails, long, procs>>

CheckOk(s) ==
  /\ pc[s] = "check"
  /\ fails' = [fails EXCEPT ![s] = 0]
  /\ SetState(s, "running")
  /\ Goto(s, "watch")
  /\ UNCHANGED <<handle, next, ctx, waits, long, procs>>

CheckFails(s) ==
  /\ pc[s] = "check"
  /\ SetState(s, "unhealthy")
  /\ IF fails[s] + 1 >= Threshold
     THEN KillTree(s) /\ Goto(s, "after") /\ fails' = [fails EXCEPT ![s] = 0]
     ELSE UNCHANGED procs /\ Goto(s, "watch") /\ fails' = [fails EXCEPT ![s] = @ + 1]
  /\ UNCHANGED <<handle, next, ctx, waits, long>>

(***************************************************************************)
(* The rest of the loop of supervise.                                      *)
(***************************************************************************)
After_NeverResets(s) ==
  /\ pc[s] = "after"
  /\ IF cancelled[s]
     THEN Goto(s, "ending") /\ UNCHANGED state
     ELSE SetState(s, "restarting") /\ Goto(s, "pause")
  /\ long' = [long EXCEPT ![s] = FALSE]
  /\ UNCHANGED <<handle, next, ctx, waits, fails, procs>>

After_Returns(s) ==
  /\ pc[s] = "after"
  /\ IF cancelled[s] \/ long[s]
     THEN Goto(s, "ending") /\ UNCHANGED state
     ELSE SetState(s, "restarting") /\ Goto(s, "pause")
  /\ long' = [long EXCEPT ![s] = FALSE]
  /\ UNCHANGED <<handle, next, ctx, waits, fails, procs>>

\* startedAt belongs to the iteration that ends here.
After(s) ==
  /\ pc[s] = "after"
  /\ IF cancelled[s]
     THEN Goto(s, "ending") /\ UNCHANGED <<backoff, state>>
     ELSE /\ backoff' = [backoff EXCEPT ![s] = IF long[s] THEN Delay ELSE @]
          /\ SetState(s, "restarting")
          /\ Goto(s, "pause")
  /\ long' = [long EXCEPT ![s] = FALSE]
  /\ UNCHANGED <<handle, next, ctx, prev, fails, procs>>

PauseCancelled(s) ==
  /\ pc[s] = "pause" /\ cancelled[s]
  /\ Goto(s, "ending")
  /\ UNCHANGED <<tunnel, ctx, waits, fails, long, procs>>

\* The timer may win even when the context is done.
PauseEnds(s) ==
  /\ pc[s] = "pause"
  /\ LET twice == 2 * backoff[s]
     IN  backoff' = [backoff EXCEPT ![s] =
                       IF twice > MaxBackoff THEN MaxBackoff ELSE twice]
  /\ prev' = [prev EXCEPT ![s] = backoff[s]]
  /\ Goto(s, "begin")
  /\ UNCHANGED <<tunnel, ctx, fails, long, procs>>

\* The deferred function; the other locals of supervise are gone.
Ending_Silent(s) ==
  /\ pc[s] = "ending"
  /\ backoff' = [backoff EXCEPT ![s] = Delay] /\ prev' = [prev EXCEPT ![s] = 0]
  /\ Goto(s, "done")
  /\ UNCHANGED <<tunnel, ctx, fails, long, procs>>

Ending(s) ==
  /\ pc[s] = "ending"
  /\ SetState(s, "stopped")
  /\ backoff' = [backoff EXCEPT ![s] = Delay] /\ prev' = [prev EXCEPT ![s] = 0]
  /\ Goto(s, "done")
  /\ UNCHANGED <<handle, next, ctx, fails, long, procs>>

-----------------------------------------------------------------------------
(***************************************************************************)
(* The processes.                                                          *)
(***************************************************************************)
RootExits(s) ==
  /\ root[s]
  /\ root' = [root EXCEPT ![s] = FALSE]
  /\ UNCHANGED <<tunnel, ctx, locals, child, job>>

RootSpawns(s) ==
  /\ root[s] /\ ~child[s]
  /\ child' = [child EXCEPT ![s] = TRUE]
  /\ UNCHANGED <<tunnel, ctx, locals, root, job>>

RunGetsLong(s) ==
  /\ pc[s] \in {"watch", "check"} /\ ~long[s]
  /\ long' = [long EXCEPT ![s] = TRUE] /\ prev' = [prev EXCEPT ![s] = 0]
  /\ UNCHANGED <<tunnel, ctx, pc, backoff, fails, procs>>

Supervise(s) ==
  \/ Begin(s) \/ Launch(s) \/ LaunchFails(s) \/ Mark(s)
  \/ WatchCancelled(s) \/ WatchExited(s) \/ WatchTick(s)
  \/ CheckOk(s) \/ CheckFails(s)
  \/ After(s) \/ PauseCancelled(s) \/ PauseEnds(s) \/ Ending(s)

Next ==
  \/ StartTunnel \/ StopTunnel \/ RestartTunnel \/ NewManager
  \/ \E s \in Sup :
       Supervise(s) \/ RootExits(s) \/ RootSpawns(s) \/ RunGetsLong(s)

\* Goroutines run and timers fire (weak fairness).  A select among ready cases
\* picks one at random, so a case that is ready again and again is taken
\* (strong fairness for the context and for the end of the process).
Fairness ==
  \A s \in Sup :
    /\ WF_vars(Supervise(s))
    /\ SF_vars(WatchCancelled(s)) /\ SF_vars(WatchExited(s))
    /\ SF_vars(PauseCancelled(s))

Spec == Init /\ [][Next]_vars /\ Fairness

-----------------------------------------------------------------------------
(***************************************************************************)
(* Properties.                                                             *)
(***************************************************************************)

\* Every variable has its type.
TypeOK ==
  /\ handle \in {0} \cup Sup /\ state \in State /\ next \in 1 .. MaxSup + 1
  /\ pc \in [Sup -> Pc]
  /\ cancelled \in [Sup -> BOOLEAN] /\ bound \in [Sup -> BOOLEAN]
  /\ backoff \in [Sup -> Nat \ {0}] /\ prev \in [Sup -> Nat]
  /\ fails \in [Sup -> 0 .. Threshold - 1]
  /\ long \in [Sup -> BOOLEAN]
  /\ root \in [Sup -> BOOLEAN] /\ child \in [Sup -> BOOLEAN]
  /\ job \in [Sup -> BOOLEAN]

\* A started tunnel has exactly one supervisor that is not cancelled, the one
\* its cancel function belongs to, and that supervisor does not end by itself;
\* a stopped tunnel has none.  So a stop reaches every supervisor that would
\* go on restarting the process.
OneMaster ==
  {s \in Sup : AtWork(s) /\ ~cancelled[s]} = {handle} \ {0}

\* When a supervisor pauses or ends its process is gone, and with a job object
\* nothing of the tree lives on, not even what a .bat file has left behind.
NoOrphans ==
  \A s \in Sup :
    pc[s] \in {"after", "pause", "begin", "launch", "ending", "done"}
      => ~root[s] /\ (job[s] => ~child[s])

\* When every supervisor has ended the tunnel reads as stopped.
QuietMeansStopped == (\A s \in Sup : ~AtWork(s)) => state = "stopped"

\* The pauses between short runs start at the configured delay and double up to
\* the cap; a long run, and nothing else, starts them anew.
PauseAfter(p) ==
  CASE p = 0 -> Delay
    [] p # 0 /\ 2 * p <= MaxBackoff -> 2 * p
    [] p # 0 /\ 2 * p > MaxBackoff -> MaxBackoff

PausesDouble == \A s \in Sup : pc[s] = "pause" => backoff[s] = PauseAfter(prev[s])

\* A stop is effective: the supervisor it cancels ends and its processes too,
\* wherever it was - pausing, launching, in the middle of a check.
StopIsEffective ==
  \A s \in Sup :
    cancelled[s] ~> (pc[s] = "done" /\ ~root[s] /\ (job[s] => ~child[s]))

\* The supervisor in charge never gives up: while its process is down for good -
\* it ended, was killed by failed checks or never came up - it launches again
\* and again.
ProcessComesBack ==
  \A s \in Sup :
    <>[](handle = s /\ ~root[s]) => []<>(pc[s] = "launch")

=============================================================================
