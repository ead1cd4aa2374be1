--------------------------- MODULE LifecycleProofs ---------------------------
(***************************************************************************)
(* The safety of the service's process for any number of connections and   *)
(* crashes and any faults.  The inductive invariant adds to the properties *)
(* where the goroutines can be: before runLoop has started them none is    *)
(* there, and an Apply that is due is somebody's next step.                *)
(***************************************************************************)
EXTENDS Serial, TLAPS

\* A process that is not there or has not reached its goroutines.
Young == loop \in {"none", "load", "open", "build"}

Alive ==
  /\ svc \in {"stopped", "starting", "crashed"} => loop = "none"
  /\ Young => /\ pc = [a \in Actor |-> "none"] /\ seen = "none" /\ pipe = "off"
              /\ ~started /\ ~ksOn

\* The kill switch is in the engine unless an Apply is about to put it there.
Guard ==
  /\ "apply" \notin Faults /\ SessionIsOpen /\ ksOn /\ seen # "none"
  /\ pc[Monitor] # "lock" /\ \A a \in Actor : pc[a] # "apply"
  => blocked = Mode

IInv == TypeOK /\ Alive /\ Guard /\ NothingOutlivesItsOwner

-----------------------------------------------------------------------------
LEMMA NoConfigTyped == NoConfig \in Files
BY FilesAssumption DEF NoConfig

LEMMA MonitorIsActor == Monitor \in Actor /\ Conns \subseteq Actor
BY DEF Actor

LEMMA CfgTyped == TypeOK => cfg.enabled \in BOOLEAN /\ Mode \in {"soft", "iron"}
BY FilesAssumption DEF TypeOK, File, Mode

LEMMA InitInv == Init => IInv
<1> SUFFICES ASSUME Init PROVE IInv
  OBVIOUS
<1> USE MonitorIsActor DEF Init, Idle
<1>1. TypeOK
  <2>1. pc \in [Actor -> {"none", "poll", "select", "done", "read", "lock", "write"} \cup Critical]
    OBVIOUS
  <2>2. cmd \in [Conns -> {"status", "enable", "disable", "reload"}]
    OBVIOUS
  <2>3. cfg \in Files /\ crashes \in 0 .. MaxCrashes
    BY NoConfigTyped, BoundAssumption
  <2> QED
    BY <2>1, <2>2, <2>3 DEF TypeOK
<1>2. Alive
  BY DEF Alive, Young
<1>3. Guard
  BY DEF Guard
<1>4. NothingOutlivesItsOwner
  BY DEF NothingOutlivesItsOwner
<1> QED
  BY <1>1, <1>2, <1>3, <1>4 DEF IInv

-----------------------------------------------------------------------------
LEMMA TypeStep == ASSUME TypeOK, Alive, [Next]_vars PROVE TypeOK'
<1> USE MonitorIsActor DEF TypeOK, Goto, env, scm, run, threads, memory, world
<1>1. ASSUME VpnChanges PROVE TypeOK'
  BY <1>1 DEF VpnChanges
<1>2. ASSUME Edit PROVE TypeOK'
  BY <1>2 DEF Edit
<1>3. ASSUME Install PROVE TypeOK'
  BY <1>3 DEF Install
<1>4. ASSUME Start PROVE TypeOK'
  BY <1>4 DEF Start
<1>5. ASSUME Execute PROVE TypeOK'
  BY <1>5 DEF Execute, Alive
<1>6. ASSUME StopRequest PROVE TypeOK'
  BY <1>6 DEF StopRequest
<1>7. ASSUME Stopped PROVE TypeOK'
  BY <1>7, NoConfigTyped DEF Stopped, ProcessEnds
<1>8. ASSUME Crash PROVE TypeOK'
  <2>1. crashes' \in 0 .. MaxCrashes
    BY <1>8, BoundAssumption DEF Crash
  <2> QED
    BY <1>8, <2>1, NoConfigTyped DEF Crash, ProcessEnds
<1>9. ASSUME Recover PROVE TypeOK'
  BY <1>9 DEF Recover
<1>10. ASSUME GiveUp PROVE TypeOK'
  BY <1>10 DEF GiveUp
<1>11. ASSUME UninstallStop PROVE TypeOK'
  BY <1>11 DEF UninstallStop
<1>12. ASSUME UninstallDelete PROVE TypeOK'
  BY <1>12 DEF UninstallDelete
<1>13. ASSUME Removed PROVE TypeOK'
  BY <1>13 DEF Removed
<1>14. ASSUME Load PROVE TypeOK'
  BY <1>14 DEF Load
<1>15. ASSUME OpenSession PROVE TypeOK'
  BY <1>15 DEF OpenSession
<1>16. ASSUME BuildAndServe PROVE TypeOK'
  <2>1. ksOn' \in BOOLEAN
    BY <1>16, CfgTyped DEF BuildAndServe
  <2> QED
    BY <1>16, <2>1 DEF BuildAndServe, Critical
<1>17. ASSUME Cancel PROVE TypeOK'
  BY <1>17 DEF Cancel
<1>18. ASSUME Join PROVE TypeOK'
  BY <1>18 DEF Join
<1>19. ASSUME CloseSession PROVE TypeOK'
  BY <1>19 DEF CloseSession
<1>20. ASSUME StopAll PROVE TypeOK'
  <2>1. started' \in BOOLEAN
    BY <1>20 DEF StopAll
  <2> QED
    BY <1>20, <2>1 DEF StopAll
<1>21. ASSUME Poll PROVE TypeOK'
  BY <1>21 DEF Poll, Critical
<1>22. ASSUME Deliver PROVE TypeOK'
  BY <1>22 DEF Deliver, Critical
<1>23. ASSUME Tick PROVE TypeOK'
  BY <1>23 DEF Tick
<1>24. ASSUME MonitorDone PROVE TypeOK'
  BY <1>24 DEF MonitorDone
<1>25. ASSUME Listen PROVE TypeOK'
  BY <1>25 DEF Listen
<1>26. ASSUME ClosePipe PROVE TypeOK'
  BY <1>26 DEF ClosePipe
<1>27. ASSUME NEW a \in Actor, Apply(a) PROVE TypeOK'
  <2>1. blocked' \in {"no", "soft", "iron"}
    BY <1>27, CfgTyped DEF Apply
  <2>2. UNCHANGED <<vpn, file, cfg, installed, admin, svc, crashes, loop, cmd, seen, pipe,
                    last, wasConnected, ksOn, started>>
    BY <1>27 DEF Apply
  <2>3. pc' \in [Actor -> {"none", "poll", "select", "done", "read", "lock", "write"} \cup Critical]
    BY <1>27 DEF Apply, Critical
  <2> QED
    BY <2>1, <2>2, <2>3
<1>28. ASSUME NEW a \in Actor, Tunnels(a) PROVE TypeOK'
  BY <1>28 DEF Tunnels, Critical
<1>29. ASSUME NEW c \in Conns, Accept(c) PROVE TypeOK'
  BY <1>29 DEF Accept
<1>30. ASSUME NEW c \in Conns, Request(c) PROVE TypeOK'
  BY <1>30 DEF Request
<1>31. ASSUME NEW c \in Conns, Deadline(c) PROVE TypeOK'
  BY <1>31 DEF Deadline
<1>32. ASSUME NEW c \in Conns, Lock(c) PROVE TypeOK'
  BY <1>32 DEF Lock, Critical
<1>33. ASSUME NEW c \in Conns, Reload(c) PROVE TypeOK'
  <2>1. started' \in BOOLEAN /\ ksOn' \in BOOLEAN /\ wasConnected' \in BOOLEAN
    BY <1>33 DEF Reload
  <2>2. UNCHANGED <<vpn, file, cfg, installed, admin, svc, crashes, loop, cmd, seen, pipe, last>>
    BY <1>33 DEF Reload
  <2>3. blocked' \in {"no", "soft", "iron"}
    BY <1>33 DEF Reload
  <2>4. pc' \in [Actor -> {"none", "poll", "select", "done", "read", "lock", "write"} \cup Critical]
    BY <1>33 DEF Reload, Critical
  <2> QED
    BY <2>1, <2>2, <2>3, <2>4
<1>34. ASSUME NEW c \in Conns, Build(c) PROVE TypeOK'
  <2>1. started' \in BOOLEAN /\ ksOn' \in BOOLEAN /\ wasConnected' \in BOOLEAN
    BY <1>34 DEF Build
  <2>2. UNCHANGED <<vpn, file, cfg, installed, admin, svc, crashes, loop, cmd, seen, pipe, last>>
    BY <1>34 DEF Build
  <2>3. blocked' \in {"no", "soft", "iron"}
    BY <1>34 DEF Build
  <2>4. pc' \in [Actor -> {"none", "poll", "select", "done", "read", "lock", "write"} \cup Critical]
    BY <1>34 DEF Build, Critical
  <2> QED
    BY <2>1, <2>2, <2>3, <2>4
<1>35. ASSUME NEW c \in Conns, Disable(c) PROVE TypeOK'
  <2>1. started' \in BOOLEAN /\ ksOn' \in BOOLEAN /\ wasConnected' \in BOOLEAN
    BY <1>35 DEF Disable
  <2>2. UNCHANGED <<vpn, file, cfg, installed, admin, svc, crashes, loop, cmd, seen, pipe, last>>
    BY <1>35 DEF Disable
  <2>3. blocked' \in {"no", "soft", "iron"}
    BY <1>35 DEF Disable
  <2>4. pc' \in [Actor -> {"none", "poll", "select", "done", "read", "lock", "write"} \cup Critical]
    BY <1>35 DEF Disable, Critical
  <2> QED
    BY <2>1, <2>2, <2>3, <2>4
<1>36. ASSUME NEW c \in Conns, Write(c) PROVE TypeOK'
  BY <1>36 DEF Write
<1>37. CASE UNCHANGED vars
  BY <1>37 DEF vars
<1> QED
  BY <1>1, <1>2, <1>3, <1>4, <1>5, <1>6, <1>7, <1>8, <1>9, <1>10, <1>11, <1>12, <1>13, <1>14, <1>15, <1>16, <1>17, <1>18, <1>19, <1>20, <1>21, <1>22, <1>23, <1>24, <1>25, <1>26, <1>27, <1>28, <1>29, <1>30, <1>31, <1>32, <1>33, <1>34, <1>35, <1>36, <1>37
     DEF Next, Scm, RunLoop, Step, Handle, Connection

LEMMA AliveStep ==
  ASSUME TypeOK, Alive, NothingOutlivesItsOwner, [Next]_vars PROVE Alive'
<1> USE MonitorIsActor DEF TypeOK, Alive, Young, Goto, env, scm, run, threads, memory, world
<1>1. ASSUME VpnChanges PROVE Alive'
  BY <1>1 DEF VpnChanges
<1>2. ASSUME Edit PROVE Alive'
  BY <1>2 DEF Edit
<1>3. ASSUME Install PROVE Alive'
  BY <1>3 DEF Install, NothingOutlivesItsOwner
<1>4. ASSUME Start PROVE Alive'
  BY <1>4 DEF Start
<1>5. ASSUME Execute PROVE Alive'
  BY <1>5 DEF Execute
<1>6. ASSUME StopRequest PROVE Alive'
  BY <1>6 DEF StopRequest
<1>7. ASSUME Stopped PROVE Alive'
  BY <1>7 DEF Stopped, ProcessEnds
<1>8. ASSUME Crash PROVE Alive'
  BY <1>8 DEF Crash, ProcessEnds
<1>9. ASSUME Recover PROVE Alive'
  BY <1>9 DEF Recover
<1>10. ASSUME GiveUp PROVE Alive'
  BY <1>10 DEF GiveUp
<1>11. ASSUME UninstallStop PROVE Alive'
  BY <1>11 DEF UninstallStop
<1>12. ASSUME UninstallDelete PROVE Alive'
  BY <1>12 DEF UninstallDelete
<1>13. ASSUME Removed PROVE Alive'
  BY <1>13 DEF Removed
<1>14. ASSUME Load PROVE Alive'
  BY <1>14 DEF Load
<1>15. ASSUME OpenSession PROVE Alive'
  BY <1>15 DEF OpenSession
<1>16. ASSUME BuildAndServe PROVE Alive'
  BY <1>16 DEF BuildAndServe
<1>17. ASSUME Cancel PROVE Alive'
  BY <1>17 DEF Cancel
<1>18. ASSUME Join PROVE Alive'
  BY <1>18 DEF Join
<1>19. ASSUME CloseSession PROVE Alive'
  BY <1>19 DEF CloseSession
<1>20. ASSUME StopAll PROVE Alive'
  BY <1>20 DEF StopAll
<1>21. ASSUME Poll PROVE Alive'
  BY <1>21 DEF Poll
<1>22. ASSUME Deliver PROVE Alive'
  BY <1>22 DEF Deliver
<1>23. ASSUME Tick PROVE Alive'
  BY <1>23 DEF Tick
<1>24. ASSUME MonitorDone PROVE Alive'
  BY <1>24 DEF MonitorDone
<1>25. ASSUME Listen PROVE Alive'
  BY <1>25 DEF Listen
<1>26. ASSUME ClosePipe PROVE Alive'
  BY <1>26 DEF ClosePipe
<1>27. ASSUME NEW a \in Actor, Apply(a) PROVE Alive'
  BY <1>27 DEF Apply
<1>28. ASSUME NEW a \in Actor, Tunnels(a) PROVE Alive'
  BY <1>28 DEF Tunnels
<1>29. ASSUME NEW c \in Conns, Accept(c) PROVE Alive'
  BY <1>29 DEF Accept
<1>30. ASSUME NEW c \in Conns, Request(c) PROVE Alive'
  BY <1>30 DEF Request
<1>31. ASSUME NEW c \in Conns, Deadline(c) PROVE Alive'
  BY <1>31 DEF Deadline
<1>32. ASSUME NEW c \in Conns, Lock(c) PROVE Alive'
  BY <1>32 DEF Lock
<1>33. ASSUME NEW c \in Conns, Reload(c) PROVE Alive'
  BY <1>33 DEF Reload
<1>34. ASSUME NEW c \in Conns, Build(c) PROVE Alive'
  BY <1>34 DEF Build
<1>35. ASSUME NEW c \in Conns, Disable(c) PROVE Alive'
  BY <1>35 DEF Disable
<1>36. ASSUME NEW c \in Conns, Write(c) PROVE Alive'
  BY <1>36 DEF Write
<1>37. CASE UNCHANGED vars
  BY <1>37 DEF vars
<1> QED
  BY <1>1, <1>2, <1>3, <1>4, <1>5, <1>6, <1>7, <1>8, <1>9, <1>10, <1>11, <1>12, <1>13, <1>14, <1>15, <1>16, <1>17, <1>18, <1>19, <1>20, <1>21, <1>22, <1>23, <1>24, <1>25, <1>26, <1>27, <1>28, <1>29, <1>30, <1>31, <1>32, <1>33, <1>34, <1>35, <1>36, <1>37
     DEF Next, Scm, RunLoop, Step, Handle, Connection

LEMMA GuardStep == ASSUME TypeOK, Alive, Guard, [Next]_vars PROVE Guard'
<1> USE MonitorIsActor DEF TypeOK, Alive, Young, Guard, SessionIsOpen, Mode, May, Goto,
        env, scm, run, threads, memory, world
<1>1. ASSUME VpnChanges PROVE Guard'
  BY <1>1 DEF VpnChanges
<1>2. ASSUME Edit PROVE Guard'
  BY <1>2 DEF Edit
<1>3. ASSUME Install PROVE Guard'
  BY <1>3 DEF Install
<1>4. ASSUME Start PROVE Guard'
  BY <1>4 DEF Start
<1>5. ASSUME Execute PROVE Guard'
  BY <1>5 DEF Execute
<1>6. ASSUME StopRequest PROVE Guard'
  BY <1>6 DEF StopRequest
<1>7. ASSUME Stopped PROVE Guard'
  BY <1>7 DEF Stopped, ProcessEnds
<1>8. ASSUME Crash PROVE Guard'
  BY <1>8 DEF Crash, ProcessEnds
<1>9. ASSUME Recover PROVE Guard'
  BY <1>9 DEF Recover
<1>10. ASSUME GiveUp PROVE Guard'
  BY <1>10 DEF GiveUp
<1>11. ASSUME UninstallStop PROVE Guard'
  BY <1>11 DEF UninstallStop
<1>12. ASSUME UninstallDelete PROVE Guard'
  BY <1>12 DEF UninstallDelete
<1>13. ASSUME Removed PROVE Guard'
  BY <1>13 DEF Removed
<1>14. ASSUME Load PROVE Guard'
  BY <1>14 DEF Load
<1>15. ASSUME OpenSession PROVE Guard'
  BY <1>15 DEF OpenSession
<1>16. ASSUME BuildAndServe PROVE Guard'
  BY <1>16 DEF BuildAndServe
<1>17. ASSUME Cancel PROVE Guard'
  BY <1>17 DEF Cancel
<1>18. ASSUME Join PROVE Guard'
  BY <1>18 DEF Join
<1>19. ASSUME CloseSession PROVE Guard'
  BY <1>19 DEF CloseSession
<1>20. ASSUME StopAll PROVE Guard'
  BY <1>20 DEF StopAll
<1>21. ASSUME Poll PROVE Guard'
  BY <1>21 DEF Poll
<1>22. ASSUME Deliver PROVE Guard'
  BY <1>22 DEF Deliver
<1>23. ASSUME Tick PROVE Guard'
  BY <1>23 DEF Tick
<1>24. ASSUME MonitorDone PROVE Guard'
  BY <1>24 DEF MonitorDone
<1>25. ASSUME Listen PROVE Guard'
  BY <1>25 DEF Listen
<1>26. ASSUME ClosePipe PROVE Guard'
  BY <1>26 DEF ClosePipe
<1>27. ASSUME NEW a \in Actor, Apply(a) PROVE Guard'
  BY <1>27 DEF Apply
<1>28. ASSUME NEW a \in Actor, Tunnels(a) PROVE Guard'
  BY <1>28 DEF Tunnels
<1>29. ASSUME NEW c \in Conns, Accept(c) PROVE Guard'
  BY <1>29 DEF Accept
<1>30. ASSUME NEW c \in Conns, Request(c) PROVE Guard'
  BY <1>30 DEF Request
<1>31. ASSUME NEW c \in Conns, Deadline(c) PROVE Guard'
  BY <1>31 DEF Deadline
<1>32. ASSUME NEW c \in Conns, Lock(c) PROVE Guard'
  <2>1. UNCHANGED <<loop, cfg, ksOn, seen, blocked>>
    BY <1>32 DEF Lock
  <2>2. pc'[Monitor] = pc[Monitor]
    BY <1>32, ActorsAssumption DEF Lock
  <2>3. \A a \in Actor : pc[a] # "apply"
    BY <1>32 DEF Lock, LockIsFree, Critical
  <2> QED
    BY <2>1, <2>2, <2>3
<1>33. ASSUME NEW c \in Conns, Reload(c) PROVE Guard'
  BY <1>33 DEF Reload
<1>34. ASSUME NEW c \in Conns, Build(c) PROVE Guard'
  BY <1>34 DEF Build
<1>35. ASSUME NEW c \in Conns, Disable(c) PROVE Guard'
  BY <1>35 DEF Disable
<1>36. ASSUME NEW c \in Conns, Write(c) PROVE Guard'
  BY <1>36 DEF Write
<1>37. CASE UNCHANGED vars
  BY <1>37 DEF vars
<1> QED
  BY <1>1, <1>2, <1>3, <1>4, <1>5, <1>6, <1>7, <1>8, <1>9, <1>10, <1>11, <1>12, <1>13, <1>14, <1>15, <1>16, <1>17, <1>18, <1>19, <1>20, <1>21, <1>22, <1>23, <1>24, <1>25, <1>26, <1>27, <1>28, <1>29, <1>30, <1>31, <1>32, <1>33, <1>34, <1>35, <1>36, <1>37
     DEF Next, Scm, RunLoop, Step, Handle, Connection

LEMMA OwnerStep ==
  ASSUME TypeOK, Alive, NothingOutlivesItsOwner, [Next]_vars PROVE NothingOutlivesItsOwner'
<1> USE MonitorIsActor DEF TypeOK, Alive, Young, NothingOutlivesItsOwner, SessionIsOpen, Mode,
        Goto, env, scm, run, threads, memory, world
<1>1. ASSUME VpnChanges PROVE NothingOutlivesItsOwner'
  BY <1>1 DEF VpnChanges
<1>2. ASSUME Edit PROVE NothingOutlivesItsOwner'
  BY <1>2 DEF Edit
<1>3. ASSUME Install PROVE NothingOutlivesItsOwner'
  BY <1>3 DEF Install
<1>4. ASSUME Start PROVE NothingOutlivesItsOwner'
  BY <1>4 DEF Start
<1>5. ASSUME Execute PROVE NothingOutlivesItsOwner'
  BY <1>5 DEF Execute
<1>6. ASSUME StopRequest PROVE NothingOutlivesItsOwner'
  BY <1>6 DEF StopRequest
<1>7. ASSUME Stopped PROVE NothingOutlivesItsOwner'
  BY <1>7 DEF Stopped, ProcessEnds
<1>8. ASSUME Crash PROVE NothingOutlivesItsOwner'
  BY <1>8 DEF Crash, ProcessEnds
<1>9. ASSUME Recover PROVE NothingOutlivesItsOwner'
  BY <1>9 DEF Recover
<1>10. ASSUME GiveUp PROVE NothingOutlivesItsOwner'
  BY <1>10 DEF GiveUp
<1>11. ASSUME UninstallStop PROVE NothingOutlivesItsOwner'
  BY <1>11 DEF UninstallStop
<1>12. ASSUME UninstallDelete PROVE NothingOutlivesItsOwner'
  BY <1>12 DEF UninstallDelete
<1>13. ASSUME Removed PROVE NothingOutlivesItsOwner'
  BY <1>13 DEF Removed
<1>14. ASSUME Load PROVE NothingOutlivesItsOwner'
  BY <1>14 DEF Load
<1>15. ASSUME OpenSession PROVE NothingOutlivesItsOwner'
  BY <1>15 DEF OpenSession
<1>16. ASSUME BuildAndServe PROVE NothingOutlivesItsOwner'
  BY <1>16 DEF BuildAndServe
<1>17. ASSUME Cancel PROVE NothingOutlivesItsOwner'
  BY <1>17 DEF Cancel
<1>18. ASSUME Join PROVE NothingOutlivesItsOwner'
  BY <1>18 DEF Join
<1>19. ASSUME CloseSession PROVE NothingOutlivesItsOwner'
  BY <1>19 DEF CloseSession
<1>20. ASSUME StopAll PROVE NothingOutlivesItsOwner'
  BY <1>20 DEF StopAll
<1>21. ASSUME Poll PROVE NothingOutlivesItsOwner'
  BY <1>21 DEF Poll
<1>22. ASSUME Deliver PROVE NothingOutlivesItsOwner'
  BY <1>22 DEF Deliver
<1>23. ASSUME Tick PROVE NothingOutlivesItsOwner'
  BY <1>23 DEF Tick
<1>24. ASSUME MonitorDone PROVE NothingOutlivesItsOwner'
  BY <1>24 DEF MonitorDone
<1>25. ASSUME Listen PROVE NothingOutlivesItsOwner'
  BY <1>25 DEF Listen
<1>26. ASSUME ClosePipe PROVE NothingOutlivesItsOwner'
  BY <1>26 DEF ClosePipe
<1>27. ASSUME NEW a \in Actor, Apply(a) PROVE NothingOutlivesItsOwner'
  BY <1>27 DEF Apply
<1>28. ASSUME NEW a \in Actor, Tunnels(a) PROVE NothingOutlivesItsOwner'
  BY <1>28 DEF Tunnels
<1>29. ASSUME NEW c \in Conns, Accept(c) PROVE NothingOutlivesItsOwner'
  BY <1>29 DEF Accept
<1>30. ASSUME NEW c \in Conns, Request(c) PROVE NothingOutlivesItsOwner'
  BY <1>30 DEF Request
<1>31. ASSUME NEW c \in Conns, Deadline(c) PROVE NothingOutlivesItsOwner'
  BY <1>31 DEF Deadline
<1>32. ASSUME NEW c \in Conns, Lock(c) PROVE NothingOutlivesItsOwner'
  BY <1>32 DEF Lock
<1>33. ASSUME NEW c \in Conns, Reload(c) PROVE NothingOutlivesItsOwner'
  BY <1>33 DEF Reload
<1>34. ASSUME NEW c \in Conns, Build(c) PROVE NothingOutlivesItsOwner'
  BY <1>34 DEF Build
<1>35. ASSUME NEW c \in Conns, Disable(c) PROVE NothingOutlivesItsOwner'
  BY <1>35 DEF Disable
<1>36. ASSUME NEW c \in Conns, Write(c) PROVE NothingOutlivesItsOwner'
  BY <1>36 DEF Write
<1>37. CASE UNCHANGED vars
  BY <1>37 DEF vars
<1> QED
  BY <1>1, <1>2, <1>3, <1>4, <1>5, <1>6, <1>7, <1>8, <1>9, <1>10, <1>11, <1>12, <1>13, <1>14, <1>15, <1>16, <1>17, <1>18, <1>19, <1>20, <1>21, <1>22, <1>23, <1>24, <1>25, <1>26, <1>27, <1>28, <1>29, <1>30, <1>31, <1>32, <1>33, <1>34, <1>35, <1>36, <1>37
     DEF Next, Scm, RunLoop, Step, Handle, Connection

LEMMA NextInv == IInv /\ [Next]_vars => IInv'
BY TypeStep, AliveStep, GuardStep, OwnerStep DEF IInv

LEMMA Inductive == Spec => []IInv
BY InitInv, NextInv, PTL DEF Spec

-----------------------------------------------------------------------------
THEOREM TypeCorrect == Spec => []TypeOK
<1>1. IInv => TypeOK
  BY DEF IInv
<1> QED
  BY <1>1, Inductive, PTL

(***************************************************************************)
(* With any number of handlers beside the monitor and the shutdown, an     *)
(* enabled kill switch is in the engine whenever nobody holds the lock.    *)
(***************************************************************************)
THEOREM GuardAlwaysHolds == Spec => []GuardHolds
<1>1. IInv => GuardHolds
  BY DEF IInv, Guard, GuardHolds, LockIsFree, Critical
<1> QED
  BY <1>1, Inductive, PTL

(***************************************************************************)
(* No handler that overlaps the shutdown, or is cut off by a crash, leaves *)
(* a block or a tunnel behind whose session or process is gone.            *)
(***************************************************************************)
THEOREM NothingLeftBehind == Spec => []NothingOutlivesItsOwner
<1>1. IInv => NothingOutlivesItsOwner
  BY DEF IInv
<1> QED
  BY <1>1, Inductive, PTL

(***************************************************************************)
(* Nothing but a handler of disable or reload, and the end of a soft       *)
(* session, opens the network: no stop, crash, restart or removal does.    *)
(***************************************************************************)
THEOREM OnlyCommandsOpen == Spec => OpensOnlyOnCommand
<1> DEFINE A == blocked # "no" /\ blocked' = "no" =>
                  \/ \E c \in Conns : pc[c] = "disable"
                  \/ blocked = "soft" /\ ~SessionIsOpen'
<1>1. ASSUME IInv, [Next]_vars PROVE [A]_vars
  <2> SUFFICES ASSUME blocked # "no", blocked' = "no", Next
               PROVE  \/ \E c \in Conns : pc[c] = "disable"
                      \/ blocked = "soft" /\ ~SessionIsOpen'
    BY <1>1 DEF vars, world
  <2>1. CASE \E c \in Conns : Disable(c)
    BY <2>1 DEF Disable
  <2>2. CASE CloseSession
    BY <2>2 DEF CloseSession, SessionIsOpen
  <2>3. CASE Stopped \/ Crash
    BY <2>3 DEF Stopped, Crash, ProcessEnds, SessionIsOpen
  <2>4. CASE \E a \in Actor : Apply(a)
    BY <2>4 DEF Apply, Mode
  <2>5. ASSUME ~(\E c \in Conns : Disable(c)), ~CloseSession, ~(Stopped \/ Crash),
               ~(\E a \in Actor : Apply(a))
        PROVE  blocked' = blocked
    BY <2>5 DEF Next, Scm, RunLoop, Step, Handle, Connection, world, VpnChanges, Edit,
         Install, Start, Execute, StopRequest, Recover, GiveUp, UninstallStop,
         UninstallDelete, Removed, Load, OpenSession, BuildAndServe, Cancel, Join,
         StopAll, Poll, Deliver, Tick, MonitorDone, Listen, ClosePipe, Tunnels,
         Accept, Request, Deadline, Lock, Reload, Build, Write
  <2> QED
    BY <2>1, <2>2, <2>3, <2>4, <2>5
<1> QED
  BY <1>1, Inductive, PTL DEF Spec, OpensOnlyOnCommand

-----------------------------------------------------------------------------
(***************************************************************************)
(* The service's handlers are serial.                                      *)
(***************************************************************************)
OneHolder == \A a, b \in Actor : pc[a] \in Critical /\ pc[b] \in Critical => a = b

\* Who can be where, and with which request.
Places ==
  /\ pc[Monitor] \in {"none", "poll", "select", "done", "lock", "apply", "tunnels"}
  /\ \A c \in Conns :
       /\ pc[c] = "load" => cmd[c] = "reload"
       /\ pc[c] = "build" => cmd[c] \in {"enable", "reload"}
       /\ pc[c] = "disable" => cmd[c] \in {"disable", "reload"}
       /\ pc[c] \in {"apply", "tunnels"} => cmd[c] \in {"enable", "reload"}

\* Before the goroutines are there nothing is, and they are there from runLoop's
\* wait to the end of the process.
Absent ==
  IF pc[Monitor] = "none"
  THEN /\ pc = [a \in Actor |-> "none"] /\ pipe = "off" /\ loop \notin {"wait", "join"}
       /\ ~last /\ ~wasConnected /\ ~ksOn /\ ~started /\ blocked # "soft"
  ELSE loop \in {"wait", "join", "close", "stopAll", "ended"}

Order == OneHolder /\ Places /\ Absent

LEMMA OrderStep == ASSUME TypeOK, Alive, Order, [Next]_vars PROVE Order'
<1> USE MonitorIsActor, ActorsAssumption DEF TypeOK, Alive, Young, Order, OneHolder, Places,
        Absent, Critical, Goto, env, scm, run, threads, memory, world
<1>1. ASSUME VpnChanges PROVE Order'
  BY <1>1 DEF VpnChanges
<1>2. ASSUME Edit PROVE Order'
  BY <1>2 DEF Edit
<1>3. ASSUME Install PROVE Order'
  BY <1>3 DEF Install
<1>4. ASSUME Start PROVE Order'
  BY <1>4 DEF Start
<1>5. ASSUME Execute PROVE Order'
  BY <1>5 DEF Execute
<1>6. ASSUME StopRequest PROVE Order'
  BY <1>6 DEF StopRequest
<1>7. ASSUME Stopped PROVE Order'
  BY <1>7 DEF Stopped, ProcessEnds
<1>8. ASSUME Crash PROVE Order'
  BY <1>8 DEF Crash, ProcessEnds
<1>9. ASSUME Recover PROVE Order'
  BY <1>9 DEF Recover
<1>10. ASSUME GiveUp PROVE Order'
  BY <1>10 DEF GiveUp
<1>11. ASSUME UninstallStop PROVE Order'
  BY <1>11 DEF UninstallStop
<1>12. ASSUME UninstallDelete PROVE Order'
  BY <1>12 DEF UninstallDelete
<1>13. ASSUME Removed PROVE Order'
  BY <1>13 DEF Removed
<1>14. ASSUME Load PROVE Order'
  BY <1>14 DEF Load
<1>15. ASSUME OpenSession PROVE Order'
  BY <1>15 DEF OpenSession
<1>16. ASSUME BuildAndServe PROVE Order'
  BY <1>16 DEF BuildAndServe
<1>17. ASSUME Cancel PROVE Order'
  BY <1>17 DEF Cancel
<1>18. ASSUME Join PROVE Order'
  BY <1>18 DEF Join
<1>19. ASSUME CloseSession PROVE Order'
  BY <1>19 DEF CloseSession
<1>20. ASSUME StopAll PROVE Order'
  BY <1>20 DEF StopAll
<1>21. ASSUME Poll PROVE Order'
  BY <1>21 DEF Poll
<1>22. ASSUME Deliver PROVE Order'
  BY <1>22 DEF Deliver, LockIsFree
<1>23. ASSUME Tick PROVE Order'
  BY <1>23 DEF Tick
<1>24. ASSUME MonitorDone PROVE Order'
  BY <1>24 DEF MonitorDone
<1>25. ASSUME Listen PROVE Order'
  BY <1>25 DEF Listen
<1>26. ASSUME ClosePipe PROVE Order'
  BY <1>26 DEF ClosePipe
<1>27. ASSUME NEW a \in Actor, Apply(a) PROVE Order'
  BY <1>27 DEF Apply
<1>28. ASSUME NEW a \in Actor, Tunnels(a) PROVE Order'
  BY <1>28 DEF Tunnels
<1>29. ASSUME NEW c \in Conns, Accept(c) PROVE Order'
  BY <1>29 DEF Accept
<1>30. ASSUME NEW c \in Conns, Request(c) PROVE Order'
  BY <1>30 DEF Request
<1>31. ASSUME NEW c \in Conns, Deadline(c) PROVE Order'
  BY <1>31 DEF Deadline
<1>32. ASSUME NEW c \in Conns, Lock(c) PROVE Order'
  BY <1>32 DEF Lock, LockIsFree
<1>33. ASSUME NEW c \in Conns, Reload(c) PROVE Order'
  BY <1>33 DEF Reload
<1>34. ASSUME NEW c \in Conns, Build(c) PROVE Order'
  BY <1>34 DEF Build
<1>35. ASSUME NEW c \in Conns, Disable(c) PROVE Order'
  BY <1>35 DEF Disable
<1>36. ASSUME NEW c \in Conns, Write(c) PROVE Order'
  BY <1>36 DEF Write
<1>37. CASE UNCHANGED vars
  BY <1>37 DEF vars
<1> QED
  BY <1>1, <1>2, <1>3, <1>4, <1>5, <1>6, <1>7, <1>8, <1>9, <1>10, <1>11, <1>12, <1>13, <1>14, <1>15, <1>16, <1>17, <1>18, <1>19, <1>20, <1>21, <1>22, <1>23, <1>24, <1>25, <1>26, <1>27, <1>28, <1>29, <1>30, <1>31, <1>32, <1>33, <1>34, <1>35, <1>36, <1>37
     DEF Next, Scm, RunLoop, Step, Handle, Connection

\* Against what the handler has found (before) the service's memory, tunnels and
\* engine now are l, w, on, t and one of B.
Left(l, w, on, t, B) ==
  last = l /\ wasConnected = w /\ ksOn = on /\ started = t /\ blocked \in B

Found == {before.blocked}
Applied == {Mode} \cup {b \in Found : May("apply")}
Gone == {"no"} \cup {b \in Found : May("disable")}

Untouched ==
  Left(before.last, before.wasConnected, before.ksOn, before.started, Found)
Reset == Left(before.last, before.wasConnected, FALSE, FALSE, Found)

\* Where the handler of a is in reconcileLocked.
Reconciling(a, B) ==
  IF a = Monitor
  THEN Left(last, before.wasConnected, before.ksOn, before.started,
            IF before.ksOn THEN B ELSE Found)
  ELSE IF cmd[a] = "enable"
  THEN Left(before.last, before.wasConnected, TRUE, before.started, B)
  ELSE \/ Left(before.last, FALSE, TRUE, FALSE, B)
       \/ Left(before.last, FALSE, FALSE, FALSE, Gone)

Path(a) ==
  /\ pc[a] = "load" => Untouched
  /\ pc[a] = "build" => IF cmd[a] = "enable" THEN Untouched ELSE Reset
  /\ pc[a] = "disable" => IF cmd[a] = "disable" THEN Untouched ELSE Reset
  /\ pc[a] = "apply" => Reconciling(a, Found)
  /\ pc[a] = "tunnels" => Reconciling(a, Applied)

\* The handler that holds the lock has come so far, and nobody else has changed
\* anything.
Track ==
  Phase = "serving" =>
    IF LockIsFree THEN before = Now ELSE \A a \in Actor : Path(a)

SInv == IInv /\ Order /\ Track

LEMMA SeenIs ==
  /\ Phase = "serving" => Seen = before
  /\ Phase # "serving" =>
       Seen.last = FALSE /\ Seen.wasConnected = FALSE /\ Seen.ksOn = FALSE
         /\ Seen.started = started /\ Seen.blocked = blocked
  /\ Now.last = last /\ Now.wasConnected = wasConnected /\ Now.ksOn = ksOn
  /\ Now.started = started /\ Now.blocked = blocked
BY DEF Seen, Now

LEMMA SeenIsNext ==
  /\ Phase' = "serving" => Seen' = before'
  /\ Phase' # "serving" =>
       Seen'.last = FALSE /\ Seen'.wasConnected = FALSE /\ Seen'.ksOn = FALSE
         /\ Seen'.started = started' /\ Seen'.blocked = blocked'
  /\ Now'.last = last' /\ Now'.wasConnected = wasConnected' /\ Now'.ksOn = ksOn'
  /\ Now'.started = started' /\ Now'.blocked = blocked'
BY DEF Seen, Now

\* Steps that leave the lock, its holder and what it works on alone.
LEMMA Elsewhere ==
  ASSUME SInv, SerialNext, UNCHANGED <<loop, cfg, last, wasConnected, ksOn, started, blocked>>,
         \A a \in Actor : pc[a] \in Critical \/ pc'[a] \in Critical =>
                            pc'[a] = pc[a] /\ (a \in Conns => cmd'[a] = cmd[a]),
         pc'[Monitor] = "none" <=> pc[Monitor] = "none"
  PROVE  Track' /\ UNCHANGED H!vars
<1>1. Phase' = Phase /\ LockIsFree' = LockIsFree /\ Mode' = Mode /\ Now' = Now
  BY MonitorIsActor DEF Phase, LockIsFree, Mode, Now
<1>2. CASE Phase = "serving"
  <2>1. before' = before
    BY <1>1, <1>2 DEF SerialNext, SInv, Track
  <2>2. Track'
    <3>1. CASE LockIsFree
      BY <1>1, <1>2, <2>1, <3>1 DEF SInv, Track
    <3>2. ASSUME ~LockIsFree, NEW a \in Actor PROVE Path(a)'
      <4>1. Path(a)
        BY <1>2, <3>2 DEF SInv, Track
      <4>2. CASE pc[a] \notin Critical /\ pc'[a] \notin Critical
        BY <4>2 DEF Path, Critical
      <4>3. CASE pc'[a] = pc[a] /\ (a \in Conns => cmd'[a] = cmd[a])
        <5>1. Untouched' = Untouched /\ Reset' = Reset
          BY <2>1 DEF Untouched, Reset, Left, Found
        <5>2. Reconciling(a, Found)' = Reconciling(a, Found)
          BY <2>1, <4>3 DEF Reconciling, Left, Gone, Found, May, Actor
        <5>3. Reconciling(a, Applied)' = Reconciling(a, Applied)
          BY <1>1, <2>1, <4>3 DEF Reconciling, Left, Applied, Gone, Found, May, Actor
        <5>4. pc[a] \in {"build", "disable"} /\ a \notin Conns => FALSE
          BY DEF SInv, Order, Places, Actor
        <5> QED
          BY <4>1, <4>3, <5>1, <5>2, <5>3, <5>4 DEF Path
      <4> QED
        BY <4>2, <4>3
    <3> QED
      BY <1>1, <3>1, <3>2 DEF Track
  <2>3. Seen' = Seen
    BY <1>1, <1>2, <2>1, SeenIs, SeenIsNext
  <2> QED
    BY <1>1, <2>2, <2>3 DEF H!vars, H!memory
<1>3. CASE Phase # "serving"
  <2>1. Seen' = Seen
    BY <1>1, <1>3 DEF Seen
  <2> QED
    BY <1>1, <1>3, <2>1 DEF H!vars, H!memory, Track
<1> QED
  BY <1>2, <1>3

\* Steps before there are goroutines.
LEMMA Off ==
  ASSUME pc[Monitor] = "none", pc'[Monitor] = "none", UNCHANGED <<started, blocked>>
  PROVE  Track' /\ UNCHANGED H!vars
<1>1. Phase = "off" /\ Phase' = "off"
  BY DEF Phase
<1> QED
  BY <1>1, SeenIs, SeenIsNext DEF Track, H!vars, H!memory

\* The holder of the lock, old or new, goes one step.
LEMMA Holds ==
  ASSUME SInv, SerialNext, Phase = "serving", UNCHANGED <<loop, cfg>>,
         NEW a \in Actor, LockIsFree \/ pc[a] \in Critical, pc[a] # "none",
         NEW at \in Critical, pc' = [pc EXCEPT ![a] = at],
         before' = before => Path(a)'
  PROVE  Track' /\ UNCHANGED H!vars
<1>1. pc'[a] = at /\ pc \in [Actor -> {"none", "poll", "select", "done", "read", "lock", "write"} \cup Critical]
  BY DEF SInv, IInv, TypeOK
<1>2. \A b \in Actor : b # a => pc'[b] = pc[b] /\ pc[b] \notin Critical
  BY <1>1 DEF SInv, Order, OneHolder, LockIsFree
<1>3. Phase' = "serving" /\ ~LockIsFree' /\ Mode' = Mode
  BY <1>1, <1>2, MonitorIsActor DEF Phase, LockIsFree, Mode, Critical
<1>4. before' = before
  BY <1>3 DEF SerialNext
<1>5. \A b \in Actor : Path(b)'
  BY <1>2, <1>4 DEF Path, Critical
<1>6. Seen' = Seen
  BY <1>3, <1>4, SeenIs, SeenIsNext
<1> QED
  BY <1>3, <1>5, <1>6 DEF Track, H!vars, H!memory

\* The holder gives the lock back; what it has done is to be seen.
LEMMA Releases ==
  ASSUME SInv, SerialNext, Phase = "serving", UNCHANGED <<loop, cfg>>,
         NEW a \in Actor, pc[a] \in Critical,
         NEW at, at \notin Critical, at # "none", pc' = [pc EXCEPT ![a] = at]
  PROVE  /\ Track' /\ Path(a) /\ Phase' = "serving" /\ Mode' = Mode
         /\ Seen = before
         /\ Seen'.last = last' /\ Seen'.wasConnected = wasConnected' /\ Seen'.ksOn = ksOn'
         /\ Seen'.started = started' /\ Seen'.blocked = blocked'
<1>1. pc'[a] = at /\ pc \in [Actor -> {"none", "poll", "select", "done", "read", "lock", "write"} \cup Critical]
  BY DEF SInv, IInv, TypeOK
<1>2. \A b \in Actor : b # a => pc'[b] = pc[b] /\ pc[b] \notin Critical
  BY <1>1 DEF SInv, Order, OneHolder
<1>3. Phase' = "serving" /\ LockIsFree' /\ Mode' = Mode
  BY <1>1, <1>2, MonitorIsActor DEF Phase, LockIsFree, Mode, Critical
<1>4. before' = Now'
  BY <1>3 DEF SerialNext
<1>5. Path(a)
  BY DEF SInv, Track, LockIsFree
<1>6. Track'
  BY <1>3, <1>4 DEF Track
<1> QED
  BY <1>3, <1>4, <1>5, <1>6, SeenIs, SeenIsNext

\* A handler beside the shutdown.
LEMMA Overlaps ==
  ASSUME SInv, SerialNext, Phase # "serving", UNCHANGED <<loop, cfg>>,
         NEW a \in Actor, pc[a] # "none", NEW at, at # "none", pc' = [pc EXCEPT ![a] = at],
         blocked' \in {blocked, Mode, "no"}, SessionIsOpen \/ blocked' = blocked,
         started' \in BOOLEAN
  PROVE  Track' /\ H!Next
<1>1. pc \in [Actor -> {"none", "poll", "select", "done", "read", "lock", "write"} \cup Critical]
  BY DEF SInv, IInv, TypeOK
<1>2. pc[Monitor] # "none" /\ loop \in {"wait", "join", "close", "stopAll", "ended"}
  BY DEF SInv, Order, Absent
<1>3. pc'[Monitor] # "none"
  BY <1>1, <1>2, MonitorIsActor
<1>4. Phase' = Phase /\ Phase \in {"closing", "closed"} /\ Mode' = Mode
      /\ (Phase = "closed" => ~SessionIsOpen)
  BY <1>2, <1>3 DEF Phase, Mode, SessionIsOpen
<1>5. H!Overlap
  BY <1>4, SeenIs, SeenIsNext DEF H!Overlap, H!Cut, H!memory
<1> QED
  BY <1>4, <1>5 DEF Track, H!Next

\* How far a handler can have come when it is cut off.
LEMMA HalfWay ==
  ASSUME SInv, Phase = "serving"
  PROVE  blocked \in {before.blocked, Mode, "no"} /\ started \in {before.started, FALSE}
<1>1. CASE LockIsFree
  BY <1>1, SeenIs DEF SInv, Track
<1>2. ASSUME NEW a \in Actor, pc[a] \in Critical
      PROVE  blocked \in {before.blocked, Mode, "no"} /\ started \in {before.started, FALSE}
  <2>1. Path(a)
    BY <1>2 DEF SInv, Track, LockIsFree
  <2> QED
    BY <1>2, <2>1 DEF Path, Critical, Untouched, Reset, Reconciling, Left, Applied, Gone, Found
<1> QED
  BY <1>1, <1>2 DEF LockIsFree

\* runLoop and the end of the process.
LEMMA RunLoopMaps ==
  ASSUME SInv, SerialNext, RunLoop \/ Execute \/ Stopped \/ Crash
  PROVE  Track' /\ [H!Next]_(H!vars)
<1> USE DEF SInv, Order, Absent
<1>0. TypeOK /\ Alive /\ Mode \in {"soft", "iron"} /\ cfg.enabled \in BOOLEAN
  BY CfgTyped DEF IInv
<1>1. CASE Execute
  <2>1. pc' = pc /\ loop = "none" /\ UNCHANGED <<started, blocked>>
    BY <1>0, <1>1 DEF Execute, Alive, threads, world
  <2> QED
    BY <2>1, Off
<1>2. CASE Load \/ OpenSession
  BY <1>2, Off DEF Load, OpenSession, threads, world
<1>3. CASE BuildAndServe
  <2>1. pc[Monitor] = "none" /\ Phase = "off"
    BY <1>3 DEF BuildAndServe, Phase
  <2>2. CASE loop' = "close"
    BY <1>3, <2>1, <2>2, Off DEF BuildAndServe, world
  <2>3. CASE loop' = "wait"
    <3>1. /\ pc' = [pc EXCEPT ![Monitor] = "poll"] /\ ksOn' = cfg.enabled
          /\ UNCHANGED <<cfg, last, wasConnected, started, blocked>>
      BY <1>3, <2>3 DEF BuildAndServe, world
    <3>2. Phase' = "serving" /\ LockIsFree' /\ Mode' = Mode
      BY <1>0, <2>1, <2>3, <3>1, MonitorIsActor DEF TypeOK, Phase, LockIsFree, Critical, Mode
    <3>3. before' = Now'
      BY <3>2 DEF SerialNext
    <3>4. last = FALSE /\ wasConnected = FALSE
      BY <1>0, <2>1 DEF TypeOK
    <3>5. /\ Seen'.last = FALSE /\ Seen'.wasConnected = FALSE /\ Seen'.ksOn = cfg.enabled
          /\ Seen'.started = started /\ Seen'.blocked = blocked
      BY <3>1, <3>2, <3>3, <3>4, SeenIsNext
    <3>6. H!Serve
      BY <1>0, <2>1, <3>2, <3>5, SeenIs DEF H!Serve
    <3> QED
      BY <3>2, <3>3, <3>6 DEF Track, H!Next
  <2> QED
    BY <1>3, <2>2, <2>3 DEF BuildAndServe
<1>4. CASE Cancel
  <2>1. /\ Phase = "serving" /\ Phase' = "closing" /\ Mode' = Mode
        /\ UNCHANGED <<started, blocked>>
    BY <1>4 DEF Cancel, Phase, Mode, threads, world
  <2>2. H!Cancel
    BY <2>1, HalfWay, SeenIs, SeenIsNext DEF H!Cancel, H!Cut, H!Forgotten
  <2> QED
    BY <2>1, <2>2 DEF Track, H!Next
<1>5. CASE Join
  <2>1. /\ Phase = "closing" /\ Phase' = "closing" /\ Mode' = Mode
        /\ UNCHANGED <<started, blocked>>
    BY <1>5 DEF Join, Phase, Mode, threads, world
  <2> QED
    BY <2>1, SeenIs, SeenIsNext DEF Track, H!vars, H!memory
<1>6. CASE CloseSession
  <2>1. pc' = pc /\ cfg' = cfg /\ started' = started
        /\ blocked' = IF blocked = "soft" THEN "no" ELSE blocked
    BY <1>6 DEF CloseSession, threads
  <2>2. CASE pc[Monitor] = "none"
    BY <2>1, <2>2, Off
  <2>3. CASE pc[Monitor] # "none"
    <3>1. Phase = "closing" /\ Phase' = "closed" /\ Mode' = Mode
      BY <1>6, <2>1, <2>3 DEF CloseSession, Phase, Mode
    <3>2. H!CloseSession
      BY <2>1, <3>1, SeenIs, SeenIsNext DEF H!CloseSession, H!Survives, H!memory
    <3> QED
      BY <3>1, <3>2 DEF Track, H!Next
  <2> QED
    BY <2>2, <2>3
<1>7. CASE StopAll
  <2>1. pc' = pc /\ cfg' = cfg /\ started' = FALSE /\ blocked' = blocked
    BY <1>7 DEF StopAll, threads
  <2>2. CASE pc[Monitor] = "none"
    BY <1>0, <2>1, <2>2, Off DEF TypeOK
  <2>3. CASE pc[Monitor] # "none"
    <3>1. Phase = "closed" /\ Phase' = "closed" /\ Mode' = Mode
      BY <1>7, <2>1, <2>3 DEF StopAll, Phase, Mode
    <3>2. H!Overlap
      BY <2>1, <3>1, SeenIs, SeenIsNext DEF H!Overlap, H!memory
    <3> QED
      BY <3>1, <3>2 DEF Track, H!Next
  <2> QED
    BY <2>2, <2>3
<1>8. CASE Stopped \/ Crash
  <2>1. /\ pc' = [a \in Actor |-> "none"] /\ started' = FALSE
        /\ blocked' = IF blocked = "soft" THEN "no" ELSE blocked
    BY <1>8 DEF Stopped, Crash, ProcessEnds
  <2>2. Phase' = "off"
    BY <2>1, MonitorIsActor DEF Phase
  <2>3. CASE pc[Monitor] = "none"
    <3>1. started' = started /\ blocked' = blocked /\ pc'[Monitor] = "none"
      BY <1>0, <2>1, <2>3, MonitorIsActor DEF TypeOK
    <3> QED
      BY <2>3, <3>1, Off
  <2>4. CASE pc[Monitor] # "none"
    <3>1. Phase # "off" /\ Phase \in {"serving", "closing", "closed"}
      BY <2>4 DEF Phase
    <3>2. \E b \in IF Phase = "serving" THEN {Seen.blocked, Mode, "no"} ELSE {Seen.blocked} :
             blocked' = IF b = "soft" THEN "no" ELSE b
      BY <2>1, HalfWay, SeenIs
    <3>3. H!End
      BY <2>1, <2>2, <3>1, <3>2, SeenIsNext DEF H!End, H!Cut, H!Survives, H!Forgotten
    <3> QED
      BY <2>2, <3>3 DEF Track, H!Next
  <2> QED
    BY <2>3, <2>4
<1> QED
  BY <1>1, <1>2, <1>3, <1>4, <1>5, <1>6, <1>7, <1>8 DEF RunLoop

\* The monitor and the connections outside of the handlers, and the rest of
\* the world.
LEMMA ElsewhereMaps ==
  ASSUME SInv, SerialNext,
         \/ VpnChanges \/ Edit \/ Install \/ Start \/ StopRequest \/ Recover \/ GiveUp
         \/ UninstallStop \/ UninstallDelete \/ Removed
         \/ Poll \/ Tick \/ MonitorDone \/ Listen \/ ClosePipe
         \/ \E c \in Conns : Accept(c) \/ Request(c) \/ Deadline(c) \/ Write(c)
  PROVE  Track' /\ UNCHANGED H!vars
<1> USE MonitorIsActor, ActorsAssumption
    DEF SInv, IInv, TypeOK, Order, Places, Absent, Critical, Goto, run, threads, memory, world
<1>1. CASE \/ VpnChanges \/ Edit \/ Install \/ Start \/ StopRequest \/ Recover \/ GiveUp
           \/ UninstallStop \/ UninstallDelete \/ Removed
  BY <1>1, Elsewhere
  DEF VpnChanges, Edit, Install, Start, StopRequest, Recover, GiveUp, UninstallStop,
      UninstallDelete, Removed
<1>2. CASE Poll
  BY <1>2, Elsewhere DEF Poll
<1>3. CASE Tick \/ MonitorDone
  BY <1>3, Elsewhere DEF Tick, MonitorDone
<1>4. CASE Listen \/ ClosePipe
  BY <1>4, Elsewhere DEF Listen, ClosePipe
<1>5. ASSUME NEW c \in Conns, Accept(c) \/ Deadline(c) PROVE Track' /\ UNCHANGED H!vars
  BY <1>5, Elsewhere DEF Accept, Deadline
<1>6. ASSUME NEW c \in Conns, Request(c) PROVE Track' /\ UNCHANGED H!vars
  BY <1>6, Elsewhere DEF Request
<1>7. ASSUME NEW c \in Conns, Write(c) PROVE Track' /\ UNCHANGED H!vars
  BY <1>7, Elsewhere DEF Write
<1> QED
  BY <1>1, <1>2, <1>3, <1>4, <1>5, <1>6, <1>7

\* The steps of a handler while the service serves.
LEMMA ReloadMaps ==
  ASSUME SInv, SerialNext, Phase = "serving", NEW c \in Conns, Reload(c)
  PROVE  Track' /\ [H!Next]_(H!vars)
<1>1. /\ c \in Actor /\ c # Monitor /\ pc[c] = "load" /\ cmd[c] = "reload" /\ cmd' = cmd
      /\ ~LockIsFree /\ pc[c] \in Critical /\ UNCHANGED <<loop, cfg, last, wasConnected, blocked>>
  BY MonitorIsActor, ActorsAssumption
  DEF Reload, SInv, Order, Places, Critical, LockIsFree, run
<1>2. Untouched
  BY <1>1 DEF SInv, Track, Path
<1>3. ASSUME NEW at \in {"build", "disable"}, pc' = [pc EXCEPT ![c] = at],
             started' = FALSE, ksOn' = FALSE
      PROVE  Track' /\ UNCHANGED H!vars
  <2>1. pc'[c] = at
    BY <1>1, <1>3 DEF SInv, IInv, TypeOK
  <2>2. before' = before => Path(c)'
    BY <1>1, <1>2, <1>3, <2>1 DEF Path, Untouched, Reset, Left, Found
  <2>3. at \in Critical
    BY DEF Critical
  <2> QED
    BY <1>1, <1>3, <2>2, <2>3, Holds DEF Critical
<1>4. CASE pc' = [pc EXCEPT ![c] = "write"] /\ UNCHANGED <<started, ksOn>>
  BY <1>1, <1>2, <1>4, Releases DEF Critical, Untouched, Left, Found, H!vars, H!memory
<1> QED
  BY <1>3, <1>4 DEF Reload, Goto

LEMMA BuildMaps ==
  ASSUME SInv, SerialNext, Phase = "serving", NEW c \in Conns, Build(c)
  PROVE  Track' /\ [H!Next]_(H!vars)
<1>1. /\ c \in Actor /\ c # Monitor /\ pc[c] = "build" /\ cmd[c] \in {"enable", "reload"}
      /\ cmd' = cmd /\ ~LockIsFree /\ pc[c] \in Critical
      /\ UNCHANGED <<loop, cfg, last, started, blocked>>
  BY MonitorIsActor, ActorsAssumption
  DEF Build, SInv, Order, Places, Critical, LockIsFree, run, world
<1>2. IF cmd[c] = "enable" THEN Untouched ELSE Reset
  BY <1>1 DEF SInv, Track, Path
<1>3. CASE /\ ksOn' = TRUE /\ wasConnected' = (wasConnected /\ cmd[c] # "reload")
           /\ pc' = [pc EXCEPT ![c] = "apply"]
  <2>1. pc'[c] = "apply" /\ wasConnected' = IF cmd[c] = "enable" THEN wasConnected ELSE FALSE
    BY <1>1, <1>3 DEF SInv, IInv, TypeOK
  <2>2. before' = before => Path(c)'
    BY <1>1, <1>2, <1>3, <2>1 DEF Path, Reconciling, Untouched, Reset, Left, Found
  <2> QED
    BY <1>1, <1>3, <2>2, Holds DEF Critical
<1>4. CASE May("build") /\ pc' = [pc EXCEPT ![c] = "write"] /\ UNCHANGED <<ksOn, wasConnected>>
  <2>1. /\ Track' /\ Phase' = "serving" /\ Mode' = Mode /\ Seen = before
        /\ Seen'.last = last' /\ Seen'.wasConnected = wasConnected' /\ Seen'.ksOn = ksOn'
        /\ Seen'.started = started' /\ Seen'.blocked = blocked'
    BY <1>1, <1>4, Releases DEF Critical
  <2>2. CASE cmd[c] = "enable"
    BY <1>1, <1>2, <1>4, <2>1, <2>2 DEF Untouched, Left, Found, H!vars, H!memory
  <2>3. CASE cmd[c] = "reload"
    <3>1. H!ReloadFails
      BY <1>1, <1>2, <1>4, <2>1, <2>3 DEF Reset, Left, Found, May, H!ReloadFails, H!May
    <3> QED
      BY <2>1, <3>1 DEF H!Next, H!Handler
  <2> QED
    BY <1>1, <2>2, <2>3
<1> QED
  BY <1>3, <1>4 DEF Build, Goto

LEMMA DisableMaps ==
  ASSUME SInv, SerialNext, Phase = "serving", NEW c \in Conns, Disable(c)
  PROVE  Track' /\ [H!Next]_(H!vars)
<1>1. /\ c \in Actor /\ c # Monitor /\ pc[c] = "disable" /\ cmd[c] \in {"disable", "reload"}
      /\ cmd' = cmd /\ ~LockIsFree /\ pc[c] \in Critical /\ ksOn' = FALSE
      /\ UNCHANGED <<loop, cfg, last, started>>
  BY MonitorIsActor, ActorsAssumption
  DEF Disable, SInv, Order, Places, Critical, LockIsFree, run
<1>2. IF cmd[c] = "disable" THEN Untouched ELSE Reset
  BY <1>1 DEF SInv, Track, Path
<1>3. SessionIsOpen /\ blocked = before.blocked
  BY <1>2 DEF SessionIsOpen, Phase, Untouched, Reset, Left, Found
<1>4. blocked' \in Gone
  BY <1>3 DEF Disable, Gone, Found
<1>5. wasConnected' = IF cmd[c] = "disable" THEN wasConnected ELSE FALSE
  BY <1>1 DEF Disable, SInv, IInv, TypeOK
<1>6. CASE cmd[c] = "reload"
  <2>1. pc' = [pc EXCEPT ![c] = "apply"] /\ pc'[c] = "apply"
    BY <1>1, <1>6 DEF Disable, Goto, SInv, IInv, TypeOK
  <2>2. before' = before => Path(c)'
    BY <1>1, <1>2, <1>4, <1>5, <1>6, <2>1
    DEF Path, Reconciling, Reset, Left, Found, Gone, May
  <2> QED
    BY <1>1, <2>1, <2>2, Holds DEF Critical
<1>7. CASE cmd[c] = "disable"
  <2>1. /\ Track' /\ Phase' = "serving" /\ Mode' = Mode /\ Seen = before
        /\ Seen'.last = last' /\ Seen'.wasConnected = wasConnected' /\ Seen'.ksOn = ksOn'
        /\ Seen'.started = started' /\ Seen'.blocked = blocked'
    <3>1. pc' = [pc EXCEPT ![c] = "write"]
      BY <1>7 DEF Disable, Goto
    <3> QED
      BY <1>1, <3>1, Releases DEF Critical
  <2>2. blocked' \in H!Disabled
    BY <1>4, <2>1 DEF Gone, Found, May, H!Disabled, H!Remains, H!May
  <2>3. H!Disable
    BY <1>1, <1>2, <1>5, <1>7, <2>1, <2>2 DEF H!Disable, Untouched, Left
  <2> QED
    BY <2>1, <2>3 DEF H!Next, H!Handler
<1> QED
  BY <1>1, <1>6, <1>7

LEMMA ApplyMaps ==
  ASSUME SInv, SerialNext, Phase = "serving", NEW a \in Actor, Apply(a)
  PROVE  Track' /\ UNCHANGED H!vars
<1>1. /\ pc[a] = "apply" /\ cmd' = cmd /\ ~LockIsFree /\ SessionIsOpen
      /\ pc' = [pc EXCEPT ![a] = "tunnels"] /\ pc'[a] = "tunnels"
      /\ UNCHANGED <<loop, cfg, last, wasConnected, ksOn, started>>
  BY DEF Apply, Goto, SInv, IInv, TypeOK, Critical, LockIsFree, run, memory, Phase, SessionIsOpen
<1>2. Reconciling(a, Found)
  BY <1>1 DEF SInv, Track, Path
<1>3. \/ blocked' = IF ksOn THEN Mode ELSE blocked
      \/ May("apply") /\ blocked' = blocked
  BY <1>1 DEF Apply
<1>4. Mode' = Mode
  BY <1>1 DEF Mode
<1>5. before' = before => Reconciling(a, Applied)'
  BY <1>1, <1>2, <1>3, <1>4 DEF Reconciling, Left, Applied, Found, Gone, May
<1>6. before' = before => Path(a)'
  BY <1>1, <1>5 DEF Path
<1> QED
  BY <1>1, <1>6, Holds DEF Critical

\* The last step of a handler that ends in reconcileLocked.
LEMMA TunnelsMaps ==
  ASSUME SInv, SerialNext, Phase = "serving", NEW a \in Actor, Tunnels(a)
  PROVE  Track' /\ H!Next
<1>1. /\ pc[a] = "tunnels" /\ ~LockIsFree
      /\ UNCHANGED <<loop, cfg, last, ksOn, blocked>> /\ wasConnected' = last
      /\ (a \in Conns /\ a # Monitor => cmd[a] \in {"enable", "reload"})
  BY DEF Tunnels, SInv, Order, Places, Critical, LockIsFree, run
<1>2. /\ Track' /\ Path(a) /\ Phase' = "serving" /\ Mode' = Mode /\ Seen = before
      /\ Seen'.last = last' /\ Seen'.wasConnected = wasConnected' /\ Seen'.ksOn = ksOn'
      /\ Seen'.started = started' /\ Seen'.blocked = blocked'
  <2> DEFINE at == IF a = Monitor THEN "select" ELSE "write"
  <2>1. pc' = [pc EXCEPT ![a] = at]
    BY DEF Tunnels, Goto
  <2>2. at \notin Critical /\ at # "none" /\ pc[a] \in Critical
    BY <1>1 DEF Critical
  <2> HIDE DEF at
  <2> QED
    BY <1>1, <2>1, <2>2, Releases
<1>3. last \in BOOLEAN /\ wasConnected \in BOOLEAN /\ started \in BOOLEAN /\ ksOn \in BOOLEAN
      /\ StopOnDown \in BOOLEAN
  BY BoundAssumption DEF SInv, IInv, TypeOK
<1>4. started' \in IF last THEN {started \/ ~wasConnected} ELSE {started, started /\ ~wasConnected}
  BY <1>3 DEF Tunnels
<1>5. ASSUME NEW B, blocked \in IF ksOn THEN {Mode} \cup {b \in B : May("apply")} ELSE B
      PROVE  H!Reconcile(last, ksOn, B, wasConnected, started)
  BY <1>1, <1>2, <1>4, <1>5 DEF H!Reconcile, H!May, May
<1>6. ASSUME H!Deliver \/ H!Enable \/ H!Reload PROVE H!Next
  BY <1>2, <1>6 DEF H!Next, H!Handler
<1>7. Reconciling(a, Applied)
  BY <1>1, <1>2 DEF Path
<1>8. CASE a = Monitor
  <2>1. H!Reconcile(last, ksOn, {before.blocked}, wasConnected, started)
    BY <1>5, <1>7, <1>8 DEF Reconciling, Left, Applied, Found
  <2>2. H!Deliver
    BY <1>2, <1>3, <1>7, <1>8, <2>1 DEF H!Deliver, Reconciling, Left
  <2> QED
    BY <1>2, <1>6, <2>2
<1>9. CASE a # Monitor /\ cmd[a] = "enable"
  <2>1. H!Reconcile(last, ksOn, {before.blocked}, wasConnected, started)
    BY <1>5, <1>7, <1>9 DEF Reconciling, Left, Applied, Found
  <2>2. H!Enable
    BY <1>2, <1>7, <1>9, <2>1 DEF H!Enable, Reconciling, Left
  <2> QED
    BY <1>2, <1>6, <2>2
<1>10. CASE a # Monitor /\ cmd[a] = "reload"
  <2>1. CASE Left(before.last, FALSE, TRUE, FALSE, Applied)
    <3>1. H!Reconcile(last, ksOn, {before.blocked}, wasConnected, started)
      BY <1>5, <2>1 DEF Left, Applied, Found
    <3>2. H!Reload
      BY <1>2, <2>1, <3>1 DEF H!Reload, Left
    <3> QED
      BY <1>2, <1>6, <3>2
  <2>2. CASE Left(before.last, FALSE, FALSE, FALSE, Gone)
    <3>1. Gone \subseteq H!Disabled
      BY <1>2 DEF Gone, Found, May, H!Disabled, H!Remains, H!May
    <3>2. H!Reconcile(last, ksOn, H!Disabled, wasConnected, started)
      BY <1>5, <2>2, <3>1 DEF Left
    <3>3. H!Reload
      BY <1>2, <2>2, <3>2 DEF H!Reload, Left
    <3> QED
      BY <1>2, <1>6, <3>3
  <2> QED
    BY <1>7, <1>10, <2>1, <2>2 DEF Reconciling
<1> QED
  BY <1>1, <1>8, <1>9, <1>10 DEF Actor

\* Taking the lock.
LEMMA DeliverMaps ==
  ASSUME SInv, SerialNext, Phase = "serving", Deliver
  PROVE  Track' /\ UNCHANGED H!vars
<1>1. /\ pc[Monitor] = "lock" /\ LockIsFree /\ pc' = [pc EXCEPT ![Monitor] = "apply"]
      /\ pc'[Monitor] = "apply"
      /\ UNCHANGED <<loop, cfg, wasConnected, ksOn, started, blocked>>
  BY MonitorIsActor DEF Deliver, Goto, SInv, IInv, TypeOK, run, world
<1>2. before = Now
  BY <1>1 DEF SInv, Track
<1>3. before' = before => Path(Monitor)'
  BY <1>1, <1>2, SeenIs DEF Path, Reconciling, Left, Found
<1> QED
  BY <1>1, <1>3, MonitorIsActor, Holds DEF Critical

LEMMA LockMaps ==
  ASSUME SInv, SerialNext, Phase = "serving", NEW c \in Conns, Lock(c)
  PROVE  Track' /\ UNCHANGED H!vars
<1>1. /\ pc[c] = "lock" /\ LockIsFree /\ c \in Actor /\ c # Monitor /\ cmd' = cmd
      /\ UNCHANGED <<loop, cfg, last, wasConnected, ksOn, started, blocked>>
  BY MonitorIsActor, ActorsAssumption DEF Lock, run, memory, world
<1>2. before = Now
  BY <1>1 DEF SInv, Track
<1>3. CASE cmd[c] = "status"
  <2>1. pc' = [pc EXCEPT ![c] = "write"]
    BY <1>3 DEF Lock, Goto
  <2>2. \A a \in Actor : pc[a] \notin Critical /\ pc'[a] \notin Critical
    BY <1>1, <2>1 DEF LockIsFree, Critical, SInv, IInv, TypeOK
  <2>3. pc'[Monitor] = pc[Monitor]
    BY <1>1, <2>1, MonitorIsActor DEF SInv, IInv, TypeOK
  <2> QED
    BY <1>1, <2>2, <2>3, Elsewhere
<1>4. ASSUME NEW at \in {"build", "disable", "load"}, pc' = [pc EXCEPT ![c] = at],
             at = "build" => cmd[c] = "enable", at = "disable" => cmd[c] = "disable"
      PROVE  Track' /\ UNCHANGED H!vars
  <2>1. pc'[c] = at /\ at \in Critical
    BY <1>1, <1>4 DEF SInv, IInv, TypeOK, Critical
  <2>2. before' = before => Path(c)'
    BY <1>1, <1>2, <1>4, <2>1, SeenIs DEF Path, Untouched, Left, Found
  <2> QED
    BY <1>1, <1>4, <2>1, <2>2, Holds
<1>5. cmd[c] \in {"status", "enable", "disable", "reload"}
  BY DEF SInv, IInv, TypeOK
<1> QED
  BY <1>3, <1>4, <1>5 DEF Lock, Goto

\* The same steps beside the shutdown.
LEMMA HandlerOverlaps ==
  ASSUME SInv, SerialNext, Phase # "serving",
         \/ Deliver
         \/ \E a \in Actor : Step(a)
         \/ \E c \in Conns : Lock(c) \/ Reload(c) \/ Build(c) \/ Disable(c)
  PROVE  Track' /\ H!Next
<1> USE MonitorIsActor DEF Goto, run, memory, world
<1>0. started \in BOOLEAN /\ last \in BOOLEAN /\ wasConnected \in BOOLEAN /\ StopOnDown \in BOOLEAN
  BY BoundAssumption DEF SInv, IInv, TypeOK
<1>1. CASE Deliver
  BY <1>0, <1>1, Overlaps DEF Deliver
<1>2. ASSUME NEW a \in Actor, Apply(a) PROVE Track' /\ H!Next
  <2>1. blocked' \in {blocked, Mode} /\ (SessionIsOpen \/ blocked' = blocked)
    BY <1>2 DEF Apply
  <2> QED
    BY <1>0, <1>2, <2>1, Overlaps DEF Apply
<1>3. ASSUME NEW a \in Actor, Tunnels(a) PROVE Track' /\ H!Next
  <2>1. started' \in BOOLEAN
    BY <1>0, <1>3 DEF Tunnels
  <2> DEFINE at == IF a = Monitor THEN "select" ELSE "write"
  <2>2. pc' = [pc EXCEPT ![a] = at] /\ pc[a] # "none" /\ UNCHANGED <<loop, cfg, blocked>>
    BY <1>3 DEF Tunnels
  <2>3. at # "none"
    OBVIOUS
  <2> HIDE DEF at
  <2> QED
    BY <2>1, <2>2, <2>3, Overlaps
<1>4. ASSUME NEW c \in Conns, Lock(c) PROVE Track' /\ H!Next
  <2>1. cmd[c] \in {"status", "enable", "disable", "reload"}
    BY DEF SInv, IInv, TypeOK
  <2>2. \E at \in {"write", "build", "disable", "load"} : pc' = [pc EXCEPT ![c] = at]
    BY <1>4, <2>1 DEF Lock
  <2>3. pc[c] # "none" /\ UNCHANGED <<loop, cfg, started, blocked>>
    BY <1>4 DEF Lock
  <2> QED
    BY <1>0, <2>2, <2>3, Overlaps
<1>5. ASSUME NEW c \in Conns, Reload(c) PROVE Track' /\ H!Next
  <2>1. \E at \in {"write", "build", "disable"} : pc' = [pc EXCEPT ![c] = at]
    BY <1>5 DEF Reload
  <2>2. pc[c] # "none" /\ UNCHANGED <<loop, cfg, blocked>> /\ started' \in BOOLEAN
    BY <1>0, <1>5 DEF Reload
  <2> QED
    BY <2>1, <2>2, Overlaps
<1>6. ASSUME NEW c \in Conns, Build(c) PROVE Track' /\ H!Next
  <2>1. \E at \in {"write", "apply"} : pc' = [pc EXCEPT ![c] = at]
    BY <1>6 DEF Build
  <2>2. pc[c] # "none" /\ UNCHANGED <<loop, cfg, started, blocked>>
    BY <1>6 DEF Build
  <2> QED
    BY <1>0, <2>1, <2>2, Overlaps
<1>7. ASSUME NEW c \in Conns, Disable(c) PROVE Track' /\ H!Next
  <2>1. \E at \in {"write", "apply"} : pc' = [pc EXCEPT ![c] = at]
    BY <1>7 DEF Disable
  <2>2. /\ pc[c] # "none" /\ UNCHANGED <<loop, cfg, started>>
        /\ blocked' \in {blocked, "no"} /\ (SessionIsOpen \/ blocked' = blocked)
    BY <1>7 DEF Disable
  <2> QED
    BY <1>0, <2>1, <2>2, Overlaps
<1> QED
  BY <1>1, <1>2, <1>3, <1>4, <1>5, <1>6, <1>7 DEF Step

LEMMA SerialInits == SerialInit => SInv /\ H!Init
<1> SUFFICES ASSUME SerialInit PROVE SInv /\ H!Init
  OBVIOUS
<1>1. IInv
  BY InitInv DEF SerialInit
<1>2. pc = [a \in Actor |-> "none"]
  BY DEF SerialInit, Init, Idle
<1>3. Order
  BY <1>2, MonitorIsActor
  DEF SerialInit, Init, Idle, Order, OneHolder, Places, Absent, Critical, Actor
<1>4. Phase = "off"
  BY <1>2, MonitorIsActor DEF Phase
<1>5. H!Init
  BY <1>4, SeenIs DEF SerialInit, Init, H!Init
<1> QED
  BY <1>1, <1>3, <1>4, <1>5 DEF SInv, Track

LEMMA SerialStep == ASSUME SInv, [SerialNext]_serialVars PROVE SInv' /\ [H!Next]_(H!vars)
<1>1. IInv' /\ Order'
  BY NextInv, OrderStep DEF SInv, IInv, SerialNext, serialVars
<1>2. CASE UNCHANGED serialVars
  <2>1. UNCHANGED <<vars, before>>
    BY <1>2 DEF serialVars
  <2>2. UNCHANGED <<loop, cfg, pc, cmd, last, wasConnected, ksOn, started, blocked, before>>
    BY <2>1 DEF vars, run, threads, memory, world
  <2>3. /\ Track' = Track /\ UNCHANGED H!vars
    BY <2>2 DEF Track, Phase, LockIsFree, Now, Path, Untouched, Reset, Reconciling, Left,
         Found, Applied, Gone, Mode, May, Seen, H!vars, H!memory
  <2> QED
    BY <1>1, <2>3 DEF SInv
<1>3. ASSUME SerialNext PROVE Track' /\ [H!Next]_(H!vars)
  <2>1. CASE RunLoop \/ Execute \/ Stopped \/ Crash
    BY <1>3, <2>1, RunLoopMaps
  <2>2. CASE \/ VpnChanges \/ Edit \/ Install \/ Start \/ StopRequest \/ Recover \/ GiveUp
             \/ UninstallStop \/ UninstallDelete \/ Removed
             \/ Poll \/ Tick \/ MonitorDone \/ Listen \/ ClosePipe
             \/ \E c \in Conns : Accept(c) \/ Request(c) \/ Deadline(c) \/ Write(c)
    BY <1>3, <2>2, ElsewhereMaps
  <2>3. CASE \/ Deliver
             \/ \E a \in Actor : Step(a)
             \/ \E c \in Conns : Lock(c) \/ Reload(c) \/ Build(c) \/ Disable(c)
    <3>1. CASE Phase = "serving"
      BY <1>3, <2>3, <3>1, DeliverMaps, LockMaps, ReloadMaps, BuildMaps, DisableMaps,
         ApplyMaps, TunnelsMaps DEF Step
    <3>2. CASE Phase # "serving"
      BY <1>3, <2>3, <3>2, HandlerOverlaps
    <3> QED
      BY <3>1, <3>2
  <2> QED
    BY <1>3, <2>1, <2>2, <2>3 DEF SerialNext, Next, Scm, Handle, Connection
<1> QED
  BY <1>1, <1>2, <1>3 DEF SInv

(***************************************************************************)
(* For any number of connections and crashes and any faults, svcState.mu   *)
(* makes every handler (onVPNChange, handleIPC) one step, and what the     *)
(* shutdown or a crash cuts off leaves no more than Handlers allows.       *)
(***************************************************************************)
THEOREM Serialised == SerialSpec => HandlersAreSerial
BY SerialInits, SerialStep, PTL DEF SerialSpec, HandlersAreSerial, H!Spec
=============================================================================
