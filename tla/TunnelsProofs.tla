---------------------------- MODULE TunnelsProofs ----------------------------
(***************************************************************************)
(* The safety of the tunnel supervisors, for any number of supervisors,    *)
(* any threshold, any delays and any faults.                               *)
(***************************************************************************)
EXTENDS Tunnels, TLAPS

\* Supervisors are started in order, and every one that was ever started is
\* cancelled except the one the handle belongs to; only a cancelled supervisor
\* comes to its end.
Masters ==
  /\ handle # 0 => handle < next
  /\ \A s \in Sup :
       /\ pc[s] = "none" <=> s >= next
       /\ pc[s] = "none" => ~cancelled[s]
       /\ pc[s] # "none" => (cancelled[s] <=> s # handle)
       /\ pc[s] \in {"ending", "done"} => cancelled[s]

\* Outside watch there is no root, and no child in a job object.
Trees ==
  \A s \in Sup :
    pc[s] \notin {"mark", "watch", "check"}
      => ~root[s] /\ (job[s] => ~child[s])

\* Any other status than "stopped" has a supervisor of the current manager at
\* work, who will write another one.
Reporter == state # "stopped" => \E s \in Sup : bound[s] /\ AtWork(s)

IInv == TypeOK /\ Masters /\ Trees /\ Reporter

USE DEF Sup

-----------------------------------------------------------------------------
(***************************************************************************)
(* The inductive invariant holds at first and is preserved.                *)
(***************************************************************************)
LEMMA InitIInv == Init => IInv
<1> SUFFICES ASSUME Init PROVE IInv
  OBVIOUS
<1>0. MaxSup \in Nat /\ Delay \in Nat \ {0} /\ Threshold \in Nat \ {0}
  BY BoundAssumption, TimesAssumption, CheckAssumption
<1>1. TypeOK
  BY <1>0 DEF Init, TypeOK, State, Pc
<1>2. Masters
  BY <1>0 DEF Init, Masters
<1>3. Trees /\ Reporter
  BY DEF Init, Trees, Reporter
<1> QED
  BY <1>1, <1>2, <1>3 DEF IInv

LEMMA TypeStep == TypeOK /\ [Next]_vars => TypeOK'
<1> SUFFICES ASSUME TypeOK, [Next]_vars PROVE TypeOK'
  OBVIOUS
<1>0. MaxSup \in Nat /\ Delay \in Nat \ {0} /\ MaxBackoff \in Nat \ {0}
      /\ Threshold \in Nat \ {0}
  BY BoundAssumption, TimesAssumption, CheckAssumption
<1> USE <1>0 DEF TypeOK, State, Pc, Goto, SetState, waits
<1>1. CASE StartTunnel
  BY <1>1 DEF StartTunnel, ctx, procs
<1>2. CASE StopTunnel
  BY <1>2 DEF StopTunnel, Cancelled, locals, procs
<1>3. CASE RestartTunnel
  BY <1>3 DEF RestartTunnel, Cancelled, procs
<1>4. CASE NewManager
  BY <1>4 DEF NewManager, Cancelled, locals, procs
<1>5. ASSUME NEW s \in Sup, Supervise(s) PROVE TypeOK'
  <2>1. CASE Begin(s)
    BY <2>1 DEF Begin, ctx, procs
  <2>2. CASE Launch(s)
    BY <2>2 DEF Launch, tunnel, ctx
  <2>3. CASE LaunchFails(s)
    BY <2>3 DEF LaunchFails, ctx, procs
  <2>4. CASE Mark(s)
    BY <2>4 DEF Mark, ctx, procs
  <2>5. CASE WatchCancelled(s)
    BY <2>5 DEF WatchCancelled, KillTree, LeaveWatch, tunnel, ctx
  <2>6. CASE WatchExited(s)
    BY <2>6 DEF WatchExited, KillTree, LeaveWatch, tunnel, ctx
  <2>7. CASE WatchTick(s)
    BY <2>7 DEF WatchTick, tunnel, ctx, procs
  <2>8. CASE CheckOk(s)
    BY <2>8 DEF CheckOk, ctx, procs
  <2>9. CASE CheckFails(s)
    <3>1. fails' \in [Sup -> 0 .. Threshold - 1]
      <4>1. CASE fails[s] + 1 >= Threshold
        <5>1. fails' = [fails EXCEPT ![s] = 0]
          BY <2>9, <4>1 DEF CheckFails
        <5> QED
          BY <5>1
      <4>2. CASE ~(fails[s] + 1 >= Threshold)
        <5>1. fails' = [fails EXCEPT ![s] = @ + 1]
          BY <2>9, <4>2 DEF CheckFails
        <5>2. fails[s] + 1 \in 0 .. Threshold - 1
          BY <4>2
        <5> QED
          BY <5>1, <5>2
      <4> QED
        BY <4>1, <4>2
    <3>2. pc' \in [Sup -> Pc]
      <4>1. pc' = [pc EXCEPT ![s] = "after"] \/ pc' = [pc EXCEPT ![s] = "watch"]
        BY <2>9 DEF CheckFails
      <4> QED
        BY <4>1
    <3>3. /\ root' \in [Sup -> BOOLEAN] /\ child' \in [Sup -> BOOLEAN]
          /\ job' \in [Sup -> BOOLEAN]
      BY <2>9 DEF CheckFails, KillTree, procs
    <3> QED
      BY <2>9, <3>1, <3>2, <3>3 DEF CheckFails, ctx
  <2>10. CASE After(s)
    BY <2>10, ZenonT(60) DEF After, ctx, procs
  <2>11. CASE PauseCancelled(s)
    BY <2>11, SMTT(30) DEF PauseCancelled, tunnel, ctx, procs
  <2>12. CASE PauseEnds(s)
    BY <2>12 DEF PauseEnds, tunnel, ctx, procs
  <2>13. CASE Ending(s)
    BY <2>13 DEF Ending, ctx, procs
  <2> QED
    BY <1>5, <2>1, <2>2, <2>3, <2>4, <2>5, <2>6, <2>7, <2>8, <2>9, <2>10,
       <2>11, <2>12, <2>13 DEF Supervise
<1>6. ASSUME NEW s \in Sup, RootExits(s) \/ RootSpawns(s) \/ RunGetsLong(s)
      PROVE TypeOK'
  <2>1. CASE RootExits(s) \/ RootSpawns(s)
    BY <2>1 DEF RootExits, RootSpawns, tunnel, ctx, locals
  <2>2. CASE RunGetsLong(s)
    BY <2>2 DEF RunGetsLong, tunnel, ctx, procs
  <2> QED
    BY <1>6, <2>1, <2>2
<1>7. CASE UNCHANGED vars
  BY <1>7 DEF vars, tunnel, ctx, locals, procs
<1> QED
  BY <1>1, <1>2, <1>3, <1>4, <1>5, <1>6, <1>7 DEF Next

\* Only the four operations of the manager touch handle, next and cancelled;
\* each starts supervisors in order and cancels the one it replaces.
LEMMA MastersStep == TypeOK /\ Masters /\ [Next]_vars => Masters'
<1> SUFFICES ASSUME TypeOK, Masters, [Next]_vars PROVE Masters'
  OBVIOUS
<1>0. MaxSup \in Nat
  BY BoundAssumption
<1> USE <1>0 DEF TypeOK, Masters, Goto
<1>1. CASE StartTunnel
  BY <1>1 DEF StartTunnel, ctx, Pc
<1>2. CASE StopTunnel
  BY <1>2 DEF StopTunnel, Cancelled, locals
<1>3. CASE RestartTunnel
  BY <1>3 DEF RestartTunnel, Cancelled, Pc
<1>4. CASE NewManager
  BY <1>4 DEF NewManager, Cancelled, locals
<1>5. ASSUME NEW s \in Sup, Supervise(s) PROVE Masters'
  <2>1. /\ UNCHANGED <<handle, next, cancelled>>
        /\ pc[s] \notin {"none", "done"}
        /\ pc' = [pc EXCEPT ![s] = pc'[s]] /\ pc'[s] # "none"
        /\ pc'[s] \in {"ending", "done"} => cancelled[s]
    <3>1. CASE Begin(s)
      BY <3>1 DEF Begin, ctx
    <3>2. CASE Launch(s) \/ LaunchFails(s) \/ Mark(s)
      BY <3>2 DEF Launch, LaunchFails, Mark, tunnel, ctx
    <3>3. CASE WatchCancelled(s) \/ WatchExited(s) \/ WatchTick(s)
      BY <3>3 DEF WatchCancelled, WatchExited, WatchTick, LeaveWatch, tunnel, ctx
    <3>4. CASE CheckOk(s) \/ CheckFails(s)
      BY <3>4 DEF CheckOk, CheckFails, ctx
    <3>5. CASE After(s)
      BY <3>5 DEF After, ctx
    <3>6. CASE PauseCancelled(s) \/ PauseEnds(s)
      BY <3>6 DEF PauseCancelled, PauseEnds, tunnel, ctx
    <3>7. CASE Ending(s)
      BY <3>7 DEF Ending, ctx
    <3> QED
      BY <1>5, <3>1, <3>2, <3>3, <3>4, <3>5, <3>6, <3>7 DEF Supervise
  <2> QED
    BY <2>1
<1>6. ASSUME NEW s \in Sup, RootExits(s) \/ RootSpawns(s) \/ RunGetsLong(s)
      PROVE Masters'
  BY <1>6, SMTT(30) DEF RootExits, RootSpawns, RunGetsLong, tunnel, ctx, locals
<1>7. CASE UNCHANGED vars
  BY <1>7 DEF vars, tunnel, ctx, locals
<1> QED
  BY <1>1, <1>2, <1>3, <1>4, <1>5, <1>6, <1>7 DEF Next

\* Every way out of watch closes the job; only Launch lets processes in.
LEMMA TreesStep == TypeOK /\ Masters /\ Trees /\ [Next]_vars => Trees'
<1> SUFFICES ASSUME TypeOK, Masters, Trees, [Next]_vars PROVE Trees'
  OBVIOUS
<1>0. MaxSup \in Nat
  BY BoundAssumption
<1> USE <1>0 DEF TypeOK, Trees, Goto
<1>1. CASE StartTunnel \/ RestartTunnel
  <2>1. CASE StartTunnel
    BY <2>1 DEF StartTunnel, procs, Masters
  <2>2. CASE RestartTunnel
    BY <2>2 DEF RestartTunnel, procs, Masters
  <2> QED
    BY <1>1, <2>1, <2>2
<1>2. CASE StopTunnel \/ NewManager
  BY <1>2 DEF StopTunnel, NewManager, locals, procs
<1>3. ASSUME NEW s \in Sup, Supervise(s) PROVE Trees'
  <2>1. CASE Begin(s) \/ LaunchFails(s) \/ Mark(s)
    BY <2>1 DEF Begin, LaunchFails, Mark, procs
  <2>2. CASE Launch(s)
    BY <2>2 DEF Launch
  <2>3. CASE WatchCancelled(s) \/ WatchExited(s)
    BY <2>3 DEF WatchCancelled, WatchExited, KillTree, LeaveWatch
  <2>4. CASE WatchTick(s) \/ CheckOk(s)
    BY <2>4 DEF WatchTick, CheckOk, procs
  <2>5. CASE CheckFails(s)
    BY <2>5 DEF CheckFails, KillTree, procs
  <2>6. CASE After(s) \/ PauseCancelled(s) \/ PauseEnds(s) \/ Ending(s)
    BY <2>6 DEF After, PauseCancelled, PauseEnds, Ending, procs
  <2> QED
    BY <1>3, <2>1, <2>2, <2>3, <2>4, <2>5, <2>6 DEF Supervise
<1>4. ASSUME NEW s \in Sup, RootExits(s) \/ RootSpawns(s) \/ RunGetsLong(s)
      PROVE Trees'
  <2>1. CASE RootExits(s)
    BY <2>1 DEF RootExits, locals
  <2>2. CASE RootSpawns(s)
    BY <2>2 DEF RootSpawns, locals
  <2>3. CASE RunGetsLong(s)
    BY <2>3 DEF RunGetsLong, procs
  <2> QED
    BY <1>4, <2>1, <2>2, <2>3
<1>5. CASE UNCHANGED vars
  BY <1>5 DEF vars, locals, procs
<1> QED
  BY <1>1, <1>2, <1>3, <1>4, <1>5 DEF Next

\* Only a supervisor of the current manager writes the status, only Ending
\* takes one from its work, and that writes "stopped".
LEMMA ReporterStep == TypeOK /\ Masters /\ Reporter /\ [Next]_vars => Reporter'
<1> SUFFICES ASSUME TypeOK, Masters, Reporter, [Next]_vars,
                    state' # "stopped"
             PROVE  \E s \in Sup : bound'[s] /\ pc'[s] \notin {"none", "done"}
  BY DEF Reporter, AtWork
<1>0. MaxSup \in Nat
  BY BoundAssumption
<1> USE <1>0 DEF TypeOK, Reporter, AtWork, Goto, SetState
<1>1. CASE StartTunnel \/ RestartTunnel
  BY <1>1 DEF StartTunnel, RestartTunnel, ctx
<1>2. CASE StopTunnel \/ NewManager
  BY <1>2 DEF StopTunnel, NewManager, locals
<1>3. ASSUME NEW s \in Sup, Supervise(s)
      PROVE  \E t \in Sup : bound'[t] /\ pc'[t] \notin {"none", "done"}
  <2>1. CASE Ending(s)
    <3>1. ~bound[s] /\ state' = state
      BY <2>1 DEF Ending
    <3>2. PICK t \in Sup : bound[t] /\ AtWork(t)
      BY <3>1
    <3> QED
      BY <2>1, <3>1, <3>2 DEF Ending, ctx
  <2>2. CASE ~Ending(s)
    <3>1. /\ bound' = bound /\ (bound[s] \/ state' = state)
          /\ pc' = [pc EXCEPT ![s] = pc'[s]] /\ pc'[s] \notin {"none", "done"}
      <4>1. CASE Begin(s) \/ Launch(s) \/ LaunchFails(s) \/ Mark(s)
        <5>1. CASE Begin(s)
          BY <5>1 DEF Begin, ctx
        <5>2. CASE Launch(s)
          BY <5>2 DEF Launch, tunnel, ctx
        <5>3. CASE LaunchFails(s) \/ Mark(s)
          BY <5>3 DEF LaunchFails, Mark, ctx
        <5> QED
          BY <4>1, <5>1, <5>2, <5>3
      <4>2. CASE WatchCancelled(s) \/ WatchExited(s) \/ WatchTick(s)
        BY <4>2 DEF WatchCancelled, WatchExited, WatchTick, LeaveWatch, tunnel, ctx
      <4>3. CASE CheckOk(s) \/ CheckFails(s)
        BY <4>3 DEF CheckOk, CheckFails, ctx
      <4>4. CASE After(s)
        BY <4>4 DEF After, ctx
      <4>5. CASE PauseCancelled(s) \/ PauseEnds(s)
        BY <4>5 DEF PauseCancelled, PauseEnds, tunnel, ctx
      <4> QED
        BY <1>3, <2>2, <4>1, <4>2, <4>3, <4>4, <4>5 DEF Supervise
    <3>2. CASE bound[s]
      BY <3>1, <3>2
    <3>3. CASE ~bound[s]
      <4>1. PICK t \in Sup : bound[t] /\ AtWork(t)
        BY <3>1, <3>3
      <4> QED
        BY <3>1, <3>3, <4>1
    <3> QED
      BY <3>2, <3>3
  <2> QED
    BY <2>1, <2>2
<1>4. ASSUME NEW s \in Sup, RootExits(s) \/ RootSpawns(s) \/ RunGetsLong(s)
      PROVE  \E t \in Sup : bound'[t] /\ pc'[t] \notin {"none", "done"}
  BY <1>4 DEF RootExits, RootSpawns, RunGetsLong, tunnel, ctx, locals
<1>5. CASE UNCHANGED vars
  BY <1>5 DEF vars, tunnel, ctx, locals
<1> QED
  BY <1>1, <1>2, <1>3, <1>4, <1>5 DEF Next

LEMMA Inductive == Spec => []IInv
<1>1. IInv /\ [Next]_vars => IInv'
  BY TypeStep, MastersStep, TreesStep, ReporterStep DEF IInv
<1> QED
  BY InitIInv, <1>1, PTL DEF Spec

-----------------------------------------------------------------------------
(***************************************************************************)
(* The pause between two launches.  A run that has become long has ended   *)
(* the row of pauses before supervise resets its backoff; a supervisor     *)
(* that ends after it does not reset it any more.                          *)
(***************************************************************************)
Pauses ==
  \A s \in Sup :
    /\ long[s] => prev[s] = 0 /\ pc[s] \in {"watch", "check", "after"}
    /\ long[s] \/ pc[s] = "ending" \/ backoff[s] = PauseAfter(prev[s])

LEMMA PausesStep == TypeOK /\ Masters /\ Pauses /\ [Next]_vars => Pauses'
<1> SUFFICES ASSUME TypeOK, Masters, Pauses, [Next]_vars PROVE Pauses'
  OBVIOUS
<1>0. /\ MaxSup \in Nat /\ Delay \in Nat \ {0} /\ MaxBackoff \in Nat \ {0}
      /\ backoff \in [Sup -> Nat \ {0}] /\ prev \in [Sup -> Nat]
      /\ pc \in [Sup -> Pc] /\ long \in [Sup -> BOOLEAN] /\ next \in 1 .. MaxSup + 1
  BY BoundAssumption, TimesAssumption DEF TypeOK
<1> USE <1>0 DEF Pauses, Goto, waits
<1>1. CASE StartTunnel \/ RestartTunnel
  <2>1. UNCHANGED <<backoff, prev, long>> /\ pc' = [pc EXCEPT ![next] = "begin"]
    BY <1>1 DEF StartTunnel, RestartTunnel
  <2>2. \A s \in Sup : s = next => pc[s] = "none"
    BY DEF Masters
  <2> QED
    BY <2>1, <2>2
<1>2. CASE StopTunnel \/ NewManager
  BY <1>2 DEF StopTunnel, NewManager, locals
<1>3. ASSUME NEW s \in Sup, Supervise(s) PROVE Pauses'
  <2>1. CASE Begin(s) \/ WatchTick(s) \/ Mark(s)
    BY <2>1 DEF Begin, WatchTick, Mark
  <2>2. CASE Launch(s) \/ LaunchFails(s)
    BY <2>2 DEF Launch, LaunchFails
  <2>3. CASE WatchCancelled(s) \/ WatchExited(s)
    BY <2>3 DEF WatchCancelled, WatchExited, LeaveWatch
  <2>4. CASE CheckOk(s) \/ CheckFails(s)
    BY <2>4 DEF CheckOk, CheckFails
  <2>5. CASE After(s)
    <3>1. CASE cancelled[s]
      BY <2>5, <3>1 DEF After
    <3>2. CASE ~cancelled[s]
      <4>1. /\ backoff' = [backoff EXCEPT ![s] = IF long[s] THEN Delay ELSE @]
            /\ pc' = [pc EXCEPT ![s] = "pause"]
            /\ long' = [long EXCEPT ![s] = FALSE] /\ prev' = prev
        BY <2>5, <3>2 DEF After
      <4>2. PauseAfter(0) = Delay /\ pc[s] = "after"
        BY <2>5 DEF PauseAfter, After
      <4> QED
        BY <4>1, <4>2
    <3> QED
      BY <3>1, <3>2
  <2>6. CASE PauseCancelled(s)
    BY <2>6 DEF PauseCancelled
  <2>7. CASE PauseEnds(s)
    <3>1. backoff' = [backoff EXCEPT ![s] = PauseAfter(backoff[s])]
      <4>1. backoff' = [backoff EXCEPT ![s] = IF 2 * backoff[s] > MaxBackoff
                                             THEN MaxBackoff ELSE 2 * backoff[s]]
        BY <2>7 DEF PauseEnds
      <4>2. backoff[s] \in Nat \ {0}
        BY <1>0
      <4>3. PauseAfter(backoff[s]) = IF 2 * backoff[s] > MaxBackoff
                                     THEN MaxBackoff ELSE 2 * backoff[s]
        BY <1>0, <4>2, Z3 DEF PauseAfter
      <4> QED
        BY <4>1, <4>3
    <3>2. /\ pc[s] = "pause" /\ pc' = [pc EXCEPT ![s] = "begin"]
          /\ prev' = [prev EXCEPT ![s] = backoff[s]] /\ UNCHANGED long
      BY <2>7 DEF PauseEnds
    <3> QED
      BY <3>1, <3>2
  <2>8. CASE Ending(s)
    BY <2>8 DEF Ending, PauseAfter
  <2> QED
    BY <1>3, <2>1, <2>2, <2>3, <2>4, <2>5, <2>6, <2>7, <2>8 DEF Supervise
<1>4. ASSUME NEW s \in Sup, RootExits(s) \/ RootSpawns(s) \/ RunGetsLong(s)
      PROVE  Pauses'
  BY <1>4 DEF RootExits, RootSpawns, RunGetsLong, locals
<1>5. CASE UNCHANGED vars
  BY <1>5 DEF vars, locals
<1> QED
  BY <1>1, <1>2, <1>3, <1>4, <1>5 DEF Next

-----------------------------------------------------------------------------
(***************************************************************************)
(* The theorems.                                                           *)
(***************************************************************************)
\* Type correctness of supervise, watch and the manager's operations.
THEOREM TypeCorrect == Spec => []TypeOK
<1>1. IInv => TypeOK
  BY DEF IInv
<1> QED
  BY Inductive, <1>1, PTL

\* A stop reaches every supervisor that would go on (manager.go, startLocked
\* and stopLocked): the one the handle belongs to is the only one in charge.
THEOREM OneInCharge == Spec => []OneMaster
<1>1. IInv => OneMaster
  <2> SUFFICES ASSUME IInv
               PROVE  \A s \in Sup : AtWork(s) /\ ~cancelled[s] <=> s = handle
    BY BoundAssumption DEF OneMaster, IInv, TypeOK
  <2> QED
    BY BoundAssumption DEF IInv, TypeOK, Masters, AtWork
<1> QED
  BY Inductive, <1>1, PTL

\* Whichever way a supervisor leaves watch, nothing of its process tree that a
\* job object held lives on (manager.go, supervise and watch).
THEOREM TreeDies == Spec => []NoOrphans
<1>1. IInv => NoOrphans
  BY DEF IInv, Trees, NoOrphans
<1> QED
  BY Inductive, <1>1, PTL

\* Old supervisors may write the status late, but when all have ended it reads
\* as stopped (manager.go, the deferred setState).
THEOREM StatusComesToRest == Spec => []QuietMeansStopped
<1>1. IInv => QuietMeansStopped
  BY DEF IInv, Reporter, QuietMeansStopped
<1> QED
  BY Inductive, <1>1, PTL

\* For any delay and any cap: the first pause is the configured one, each later
\* one twice the one before or the cap, until a run was long (manager.go,
\* "Backoff: reset after a healthy run, otherwise double up to cap").
THEOREM PausesGrow == Spec => []PausesDouble
<1>1. Init => Pauses
  BY DEF Init, Pauses, PauseAfter
<1>2. IInv /\ Pauses /\ [Next]_vars => Pauses'
  BY PausesStep DEF IInv
<1>3. Pauses => PausesDouble
  BY DEF Pauses, PausesDouble
<1> QED
  BY Inductive, <1>1, <1>2, <1>3, PTL DEF Spec

=============================================================================
