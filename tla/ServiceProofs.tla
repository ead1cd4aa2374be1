---------------------------- MODULE ServiceProofs ----------------------------
(***************************************************************************)
(* The safety of the service for any adapters, config files and faults.    *)
(***************************************************************************)
EXTENDS Service, TLAPS

\* A stopped service knows nothing and runs nothing.
Idle ==
  svc = "stopped" =>
    ~ksOn /\ ~tunnels /\ last = NoStatus /\ monLast = None /\ pending = None

\* Filters that go with a session are those of a running soft-mode service.
SessionFilters == \A x \in filters : x[2] \/ (svc = "running" /\ ~hard)

IInv == TypeOK /\ Idle /\ SessionFilters /\ TunnelsOnlyBehindVPN

-----------------------------------------------------------------------------
(***************************************************************************)
(* Apply and Disable.                                                      *)
(***************************************************************************)
LEMMA ApplyLeaves ==
  ASSUME NEW F \in SUBSET (Rule \X BOOLEAN), NEW L \in SUBSET Adapters,
         NEW keep \in BOOLEAN, NEW G \in ApplyOutcomes(F, L, keep)
  PROVE  /\ G \subseteq Rule \X BOOLEAN
         /\ \A x \in G : x \in F \/ x[2] = keep
         /\ (\E k \in BOOLEAN : <<"block", k>> \in F)
              => \E k \in BOOLEAN : <<"block", k>> \in G
<1> DEFINE new == {<<r, keep>> : r \in BuildRules(L)}
<1>1. BuildRules(L) \subseteq Rule /\ "block" \in BuildRules(L)
  BY DEF BuildRules, Rule
<1>2. /\ new \subseteq Rule \X BOOLEAN
      /\ \A x \in new : x[2] = keep
      /\ <<"block", keep>> \in new
  BY <1>1
<1>3. \/ G = new
      \/ \E A \in SUBSET new : G = F \cup A
      \/ \E O \in SUBSET F : G = new \cup O
  BY DEF ApplyOutcomes
<1> HIDE DEF new
<1>4. CASE G = new
  BY <1>2, <1>4
<1>5. ASSUME NEW A \in SUBSET new, G = F \cup A
      PROVE  /\ G \subseteq Rule \X BOOLEAN
             /\ \A x \in G : x \in F \/ x[2] = keep
             /\ F \subseteq G
  BY <1>2, <1>5
<1>6. ASSUME NEW O \in SUBSET F, G = new \cup O
      PROVE  /\ G \subseteq Rule \X BOOLEAN
             /\ \A x \in G : x \in F \/ x[2] = keep
             /\ <<"block", keep>> \in G
  BY <1>2, <1>6
<1> QED
  BY <1>3, <1>4, <1>5, <1>6

LEMMA DisableLeaves ==
  ASSUME NEW F, NEW G \in DisableOutcomes(F)
  PROVE  G \subseteq F
BY DEF DisableOutcomes

\* What a reconcile with the kill switch on or off does to the engine.
LEMMA ReconcileLeaves ==
  ASSUME TypeOK, NEW c, NEW on, NEW l \in Status, NEW w, NEW t,
         NEW F \in SUBSET filters, Reconcile(c, on, l, F, w, t)
  PROVE  /\ filters' \subseteq Rule \X BOOLEAN
         /\ \A x \in filters' : x \in filters \/ x[2] = hard
         /\ F = filters /\ Blocked => Blocked'
<1>1. F \in SUBSET (Rule \X BOOLEAN) /\ hard \in BOOLEAN /\ l.adapters \in SUBSET Adapters
  BY DEF TypeOK, Status
<1>2. CASE filters' = F
  BY <1>1, <1>2 DEF Blocked
<1>3. CASE filters' \in ApplyOutcomes(F, l.adapters, hard)
  <2>1. /\ filters' \subseteq Rule \X BOOLEAN
        /\ \A x \in filters' : x \in F \/ x[2] = hard
        /\ (\E k \in BOOLEAN : <<"block", k>> \in F)
             => \E k \in BOOLEAN : <<"block", k>> \in filters'
    BY <1>1, <1>3, ApplyLeaves
  <2> QED
    BY <2>1 DEF Blocked
<1> QED
  BY <1>2, <1>3 DEF Reconcile

-----------------------------------------------------------------------------
(***************************************************************************)
(* The inductive invariant holds at first and is preserved.                *)
(***************************************************************************)
LEMMA InitIInv == Init => IInv
<1> SUFFICES ASSUME Init PROVE IInv
  OBVIOUS
<1>1. TypeOK
  BY ConfigsAssumption DEF Init, TypeOK, Status, NoStatus
<1>2. Idle /\ SessionFilters /\ TunnelsOnlyBehindVPN
  BY DEF Init, Idle, SessionFilters, TunnelsOnlyBehindVPN
<1> QED
  BY <1>1, <1>2 DEF IInv

LEMMA PolledStatus ==
  ASSUME TypeOK, svc = "running"
  PROVE  Polled \subseteq Status
<1> DEFINE A == up \cap monCfg.matches
<1>1. A \subseteq Adapters
  BY DEF TypeOK
<1>2. \A s \in Polled : \/ s = [connected |-> A # {}, adapters |-> A]
                       \/ s = [connected |-> FALSE, adapters |-> A]
                       \/ s = [connected |-> FALSE, adapters |-> {}]
  BY DEF Polled, FindTunnelAdapters, NoStatus
<1> HIDE DEF A
<1>3. ASSUME NEW b \in BOOLEAN, NEW B \in SUBSET Adapters
      PROVE  [connected |-> b, adapters |-> B] \in Status
  BY DEF Status
<1>4. (A # {}) \in BOOLEAN
  OBVIOUS
<1>5. [connected |-> A # {}, adapters |-> A] \in Status
  BY <1>1, <1>3, <1>4, Zenon
<1>6. /\ [connected |-> FALSE, adapters |-> A] \in Status
      /\ [connected |-> FALSE, adapters |-> {}] \in Status
  BY <1>1, <1>3
<1> QED
  BY <1>2, <1>5, <1>6

LEMMA TypeStep == TypeOK /\ Idle /\ [Next]_vars => TypeOK'
<1> SUFFICES ASSUME TypeOK, Idle, [Next]_vars PROVE TypeOK'
  OBVIOUS
<1>0. Configs \subseteq Config /\ None \notin Config
  BY ConfigsAssumption
<1> USE <1>0 DEF TypeOK
<1>1. CASE AdapterChange
  BY <1>1 DEF AdapterChange, state, monitor
<1>2. CASE EditFile
  BY <1>2 DEF EditFile, state, monitor
<1>3. CASE StartService
  BY <1>3 DEF StartService, env, Config
<1>4. CASE EndService
  BY <1>4 DEF EndService, Survivors, env, NoStatus, Status
<1>5. CASE Poll
  <2>1. monLast' \in Status /\ pending' = monLast'
    BY <1>5, PolledStatus DEF Poll
  <2> QED
    BY <1>5, <2>1 DEF Poll, env, state
<1>6. CASE OnVPNChange
  <2>1. pending \in Status
    BY <1>6 DEF OnVPNChange
  <2>2. Reconcile(cfg, ksOn, pending, filters, wasConnected, tunnels)
    BY <1>6 DEF OnVPNChange
  <2>3. filters' \subseteq Rule \X BOOLEAN
    BY <2>1, <2>2, ReconcileLeaves
  <2>4. tunnels' \in BOOLEAN /\ wasConnected' = pending.connected
    BY <2>2 DEF Reconcile
  <2> QED
    BY <1>6, <2>1, <2>3, <2>4 DEF OnVPNChange, env
<1>7. CASE IpcEnable
  <2>1. cfg' \in Config /\ cfg'.enabled
    BY <1>7 DEF IpcEnable, Config
  <2>2. CASE UNCHANGED <<ksOn, filters, wasConnected, tunnels>>
    BY <1>7, <2>1, <2>2 DEF IpcEnable, env, monitor
  <2>3. CASE ksOn' = TRUE /\ Reconcile(cfg', TRUE, last, filters, wasConnected, tunnels)
    <3>1. filters' \subseteq Rule \X BOOLEAN
      BY <2>3, ReconcileLeaves
    <3>2. tunnels' \in BOOLEAN /\ wasConnected' = last.connected
      BY <2>3 DEF Reconcile
    <3> QED
      BY <1>7, <2>1, <2>3, <3>1, <3>2 DEF IpcEnable, env, monitor
  <2> QED
    BY <1>7, <2>2, <2>3 DEF IpcEnable
<1>8. CASE IpcDisable
  <2>1. cfg' \in Config /\ filters' \subseteq filters
    BY <1>8, DisableLeaves DEF IpcDisable, Config
  <2> QED
    BY <1>8, <2>1 DEF IpcDisable, env, monitor
<1>9. CASE IpcReload
  <2>1. cfg' \in Config /\ (ksOn' => cfg'.enabled) /\ ksOn' \in BOOLEAN
    BY <1>9 DEF IpcReload, Config
  <2>2. CASE tunnels' = FALSE /\ UNCHANGED <<filters, wasConnected>>
    BY <1>9, <2>1, <2>2 DEF IpcReload, env, monitor
  <2>3. ASSUME NEW F \in SUBSET filters, Reconcile(file, ksOn', last, F, FALSE, FALSE)
        PROVE  TypeOK'
    <3>1. filters' \subseteq Rule \X BOOLEAN
      BY <2>3, ReconcileLeaves
    <3>2. tunnels' \in BOOLEAN /\ wasConnected' = last.connected
      BY <2>3 DEF Reconcile
    <3> QED
      BY <1>9, <2>1, <3>1, <3>2 DEF IpcReload, env, monitor
  <2> QED
    BY <1>9, <2>2, <2>3, DisableLeaves DEF IpcReload
<1>10. CASE CliEnable
  <2>1. filters' \subseteq Rule \X BOOLEAN
    <3>1. CASE file.persistent
      <4>1. up \cap file.matches \in SUBSET Adapters
        OBVIOUS
      <4>2. filters' \in ApplyOutcomes(filters, up \cap file.matches, TRUE)
        BY <1>10, <3>1 DEF CliEnable, FindTunnelAdapters
      <4>3. filters \in SUBSET (Rule \X BOOLEAN)
        OBVIOUS
      <4>4. TRUE \in BOOLEAN
        OBVIOUS
      <4> HIDE DEF TypeOK
      <4> QED
        BY ONLY <4>1, <4>2, <4>3, <4>4, ApplyLeaves
    <3>2. CASE ~file.persistent
      BY <1>10, <3>2 DEF CliEnable, SoftCliLeaves
    <3> QED
      BY <3>1, <3>2
  <2> QED
    BY <1>10, <2>1 DEF CliEnable, env, state, monitor
<1>11. CASE CliDisable
  <2>1. filters' \subseteq filters
    BY <1>11, DisableLeaves DEF CliDisable
  <2> QED
    BY <1>11, <2>1 DEF CliDisable, env, state, monitor
<1>12. CASE UNCHANGED vars
  BY <1>12 DEF vars, env, state, monitor
<1> QED
  BY <1>1, <1>2, <1>3, <1>4, <1>5, <1>6, <1>7, <1>8, <1>9, <1>10, <1>11, <1>12
  DEF Next

LEMMA IdleStep == TypeOK /\ Idle /\ [Next]_vars => Idle'
<1> SUFFICES ASSUME TypeOK, Idle, [Next]_vars PROVE Idle'
  OBVIOUS
<1> USE DEF Idle
<1>1. CASE AdapterChange \/ EditFile
  BY <1>1 DEF AdapterChange, EditFile, state, monitor
<1>2. CASE StartService \/ EndService
  BY <1>2 DEF StartService, EndService
<1>3. CASE Poll
  BY <1>3 DEF Poll
<1>4. CASE OnVPNChange
  BY <1>4 DEF OnVPNChange, TypeOK
<1>5. CASE IpcEnable \/ IpcDisable \/ IpcReload
  BY <1>5 DEF IpcEnable, IpcDisable, IpcReload
<1>6. CASE CliEnable \/ CliDisable
  BY <1>6 DEF CliEnable, CliDisable, state, monitor
<1>7. CASE UNCHANGED vars
  BY <1>7 DEF vars, state, monitor
<1> QED
  BY <1>1, <1>2, <1>3, <1>4, <1>5, <1>6, <1>7 DEF Next

\* Filters are added with the session's own mode, or persistent by the tool.
LEMMA SessionFiltersStep ==
  TypeOK /\ Idle /\ SessionFilters /\ [Next]_vars => SessionFilters'
<1> SUFFICES ASSUME TypeOK, Idle, SessionFilters, [Next]_vars PROVE SessionFilters'
  OBVIOUS
<1> USE DEF SessionFilters
<1>1. CASE UNCHANGED <<filters, svc, hard>>
  BY <1>1
<1>2. CASE StartService
  BY <1>2 DEF StartService
<1>3. CASE EndService
  BY <1>3 DEF EndService, Survivors
<1>4. ASSUME UNCHANGED <<svc, hard>>, filters' \subseteq filters
      PROVE  SessionFilters'
  BY <1>4
<1>5. ASSUME UNCHANGED <<svc, hard>>, svc = "running",
             NEW c, NEW on, NEW l \in Status, NEW w, NEW t, NEW F \in SUBSET filters,
             Reconcile(c, on, l, F, w, t)
      PROVE  SessionFilters'
  <2>1. \A x \in filters' : x \in filters \/ x[2] = hard
    BY <1>5, ReconcileLeaves
  <2>2. hard \in BOOLEAN
    BY DEF TypeOK
  <2> QED
    BY <1>5, <2>1, <2>2
<1>6. last \in Status
  BY DEF TypeOK
<1>7. CASE OnVPNChange
  <2>1. pending \in Status /\ svc = "running"
    BY <1>7 DEF OnVPNChange, TypeOK, Idle
  <2> QED
    BY <1>5, <1>7, <2>1 DEF OnVPNChange
<1>8. CASE IpcEnable
  <2>1. CASE UNCHANGED filters
    BY <1>1, <1>8, <2>1 DEF IpcEnable
  <2>2. CASE Reconcile(cfg', TRUE, last, filters, wasConnected, tunnels)
    BY <1>5, <1>6, <1>8, <2>2 DEF IpcEnable
  <2> QED
    BY <1>8, <2>1, <2>2 DEF IpcEnable
<1>9. CASE IpcReload
  <2>1. CASE UNCHANGED filters
    BY <1>1, <1>9, <2>1 DEF IpcReload
  <2>2. ASSUME NEW F \in SUBSET filters, Reconcile(file, ksOn', last, F, FALSE, FALSE)
        PROVE  SessionFilters'
    BY <1>5, <1>6, <1>9, <2>2 DEF IpcReload
  <2> QED
    BY <1>9, <2>1, <2>2, DisableLeaves DEF IpcReload
<1>10. CASE IpcDisable \/ CliDisable
  BY <1>4, <1>10, DisableLeaves DEF IpcDisable, CliDisable
<1>11. CASE CliEnable
  <2>1. CASE file.persistent
    <3>1. filters' \in ApplyOutcomes(filters, up \cap file.matches, TRUE)
      BY <1>11, <2>1 DEF CliEnable, FindTunnelAdapters
    <3>2. filters \in SUBSET (Rule \X BOOLEAN) /\ up \cap file.matches \in SUBSET Adapters
      BY DEF TypeOK
    <3>3. \A x \in filters' : x \in filters \/ x[2] = TRUE
      BY ONLY <3>1, <3>2, ApplyLeaves
    <3> QED
      BY <1>11, <3>3 DEF CliEnable
  <2>2. CASE ~file.persistent
    BY <1>4, <1>11, <2>2 DEF CliEnable, SoftCliLeaves
  <2> QED
    BY <2>1, <2>2
<1> QED
  BY <1>1, <1>2, <1>3, <1>7, <1>8, <1>9, <1>10, <1>11
  DEF Next, AdapterChange, EditFile, Poll, vars

\* wasConnected is what the tunnels were last told: reload stops them before it
\* forgets, and a reconcile compares it with the status.
LEMMA GateStep ==
  TypeOK /\ Idle /\ TunnelsOnlyBehindVPN /\ [Next]_vars => TunnelsOnlyBehindVPN'
<1> SUFFICES ASSUME TypeOK, Idle, TunnelsOnlyBehindVPN, [Next]_vars
             PROVE  TunnelsOnlyBehindVPN'
  OBVIOUS
<1> USE DEF TunnelsOnlyBehindVPN
<1>1. CASE UNCHANGED <<tunnels, last, cfg>>
  BY <1>1
<1>2. CASE StartService \/ EndService
  BY <1>2 DEF StartService, EndService, Idle, TypeOK
<1>3. CASE OnVPNChange
  <2>1. /\ tunnels' = ((pending.connected /\ ~wasConnected)
                       \/ (tunnels /\ ~(~pending.connected /\ wasConnected /\ cfg.stopOnDown)))
        /\ last' = pending /\ cfg' = cfg /\ wasConnected = last.connected
    BY <1>3 DEF OnVPNChange, Reconcile, TypeOK
  <2> QED
    BY <2>1
<1>4. CASE IpcEnable
  <2>1. cfg'.stopOnDown = cfg.stopOnDown /\ last' = last /\ wasConnected = last.connected
    BY <1>4 DEF IpcEnable, TypeOK, Config
  <2>2. CASE UNCHANGED tunnels
    BY <2>1, <2>2
  <2>3. CASE Reconcile(cfg', TRUE, last, filters, wasConnected, tunnels)
    <3>1. tunnels' = ((last.connected /\ ~wasConnected)
                      \/ (tunnels /\ ~(~last.connected /\ wasConnected /\ cfg'.stopOnDown)))
      BY <2>3 DEF Reconcile
    <3> QED
      BY <2>1, <3>1
  <2> QED
    BY <1>4, <2>2, <2>3 DEF IpcEnable
<1>5. CASE IpcDisable
  BY <1>5 DEF IpcDisable, TypeOK, Config
<1>6. CASE IpcReload
  <2>1. CASE tunnels' = FALSE
    BY <2>1
  <2>2. ASSUME NEW F, Reconcile(file, ksOn', last, F, FALSE, FALSE)
        PROVE  tunnels' = last.connected
    BY <2>2 DEF Reconcile, TypeOK, Status
  <2> QED
    BY <1>6, <2>1, <2>2 DEF IpcReload
<1> QED
  BY <1>1, <1>2, <1>3, <1>4, <1>5, <1>6
  DEF Next, AdapterChange, EditFile, Poll, CliEnable, CliDisable, state, vars

LEMMA Inductive == Spec => []IInv
<1>1. IInv /\ [Next]_vars => IInv'
  BY TypeStep, IdleStep, SessionFiltersStep, GateStep DEF IInv
<1> QED
  BY InitIInv, <1>1, PTL DEF Spec

\* The steps that nobody asked for keep the block set.
LEMMA BlockStays ==
  ASSUME IInv, [Next]_vars, Blocked,
         ~IpcDisable, ~(IpcReload /\ ~file.enabled), ~CliDisable,
         ~(EndService /\ ~hard), ~(CliEnable /\ ~file.persistent)
  PROVE  Blocked'
<1> USE DEF IInv
<1>1. CASE UNCHANGED filters
  BY <1>1 DEF Blocked
<1>2. CASE EndService /\ hard
  BY <1>2 DEF EndService, Survivors, SessionFilters, Blocked
<1>3. CASE OnVPNChange
  <2>1. pending \in Status
    BY <1>3 DEF OnVPNChange, TypeOK
  <2> QED
    BY <1>3, <2>1, ReconcileLeaves DEF OnVPNChange
<1>4. last \in Status
  BY DEF TypeOK
<1>5. CASE IpcEnable
  BY <1>1, <1>4, <1>5, ReconcileLeaves DEF IpcEnable
<1>6. CASE IpcReload /\ file.enabled
  <2>1. CASE UNCHANGED filters
    BY <1>1, <2>1
  <2>2. CASE Reconcile(file, ksOn', last, filters, FALSE, FALSE)
    BY <1>4, <2>2, ReconcileLeaves
  <2> QED
    BY <1>6, <2>1, <2>2 DEF IpcReload
<1>7. CASE CliEnable /\ file.persistent
  <2>1. filters' \in ApplyOutcomes(filters, up \cap file.matches, TRUE)
    BY <1>7 DEF CliEnable, FindTunnelAdapters
  <2>2. filters \in SUBSET (Rule \X BOOLEAN) /\ up \cap file.matches \in SUBSET Adapters
    BY DEF TypeOK
  <2>3. (\E k \in BOOLEAN : <<"block", k>> \in filters)
          => \E k \in BOOLEAN : <<"block", k>> \in filters'
    <3>1. TRUE \in BOOLEAN
      OBVIOUS
    <3> QED
      BY ONLY <2>1, <2>2, <3>1, ApplyLeaves
  <2> QED
    BY <2>3 DEF Blocked
<1> QED
  BY <1>1, <1>2, <1>3, <1>5, <1>6, <1>7
  DEF Next, AdapterChange, EditFile, StartService, Poll, vars

-----------------------------------------------------------------------------
(***************************************************************************)
(* What holds when no call fails and the tool leaves a running service     *)
(* alone.                                                                  *)
(***************************************************************************)
\* Every handler that changes the status, the kill switch or the engine leaves
\* the engine with the rules for the status.
LEMMA MatchStep ==
  ASSUME Faults = {}, "running" \notin CliWhen
  PROVE  IInv /\ EngineMatchesStatus /\ [Next]_vars => EngineMatchesStatus'
<1> SUFFICES ASSUME IInv, EngineMatchesStatus, [Next]_vars,
                    ksOn', monLast' # None, pending' = None
             PROVE  filters' = {<<x, hard'>> : x \in BuildRules(last'.adapters)}
  BY DEF EngineMatchesStatus
<1> USE DEF IInv, EngineMatchesStatus
<1>1. CASE UNCHANGED <<filters, hard, last, ksOn, monLast, pending>>
  BY <1>1
<1>2. ASSUME NEW c, NEW l, NEW F, NEW w, NEW t, Reconcile(c, TRUE, l, F, w, t)
      PROVE  filters' = {<<x, hard>> : x \in BuildRules(l.adapters)}
  BY <1>2 DEF Reconcile, ApplyOutcomes
<1>3. CASE StartService \/ EndService
  BY <1>3 DEF StartService, EndService, Idle
<1>4. CASE Poll
  BY <1>4 DEF Poll
<1>5. CASE OnVPNChange
  <2>1. Reconcile(cfg, TRUE, pending, filters, wasConnected, tunnels)
    BY <1>5 DEF OnVPNChange, TypeOK
  <2> QED
    BY <1>2, <1>5, <2>1 DEF OnVPNChange
<1>6. CASE IpcEnable
  <2>1. Reconcile(cfg', TRUE, last, filters, wasConnected, tunnels)
    BY <1>6 DEF IpcEnable, Built
  <2> QED
    BY <1>2, <1>6, <2>1 DEF IpcEnable
<1>7. CASE IpcDisable
  BY <1>7 DEF IpcDisable
<1>8. CASE IpcReload
  <2>1. PICK F : Reconcile(file, TRUE, last, F, FALSE, FALSE)
    BY <1>8 DEF IpcReload, Built
  <2> QED
    BY <1>2, <1>8, <2>1 DEF IpcReload
<1>9. CASE CliEnable \/ CliDisable
  <2>1. svc = "stopped" /\ ksOn' = ksOn
    BY <1>9 DEF CliEnable, CliDisable, TypeOK, state
  <2> QED
    BY <2>1 DEF Idle
<1>10. CASE AdapterChange \/ EditFile \/ UNCHANGED vars
  BY <1>1, <1>10 DEF AdapterChange, EditFile, vars, state, monitor
<1> QED
  BY <1>3, <1>4, <1>5, <1>6, <1>7, <1>8, <1>9, <1>10 DEF Next

-----------------------------------------------------------------------------
(***************************************************************************)
(* The theorems.                                                           *)
(***************************************************************************)
\* Type correctness of the service, the monitor and the engine.
THEOREM TypeCorrect == Spec => []TypeOK
<1>1. IInv => TypeOK
  BY DEF IInv
<1> QED
  BY Inductive, <1>1, PTL

\* Tunnels run behind a VPN only (reconcileLocked, "Tunnels are gated on VPN
\* state"), whatever was reloaded, enabled or delivered late.
THEOREM TunnelsAreGated == Spec => []TunnelsOnlyBehindVPN
<1>1. IInv => TunnelsOnlyBehindVPN
  BY DEF IInv
<1> QED
  BY Inductive, <1>1, PTL

\* Fail-closed: the block set leaves the engine only by a disable, a panic, a
\* reload of a config that is not enabled, or the end of a soft-mode session;
\* never by a failed Apply or reload, a lost adapter, a crash or a restart.
THEOREM StaysClosed == Spec => NetworkOpensOnlyOnRequest
<1>1. IInv /\ [Next]_vars =>
        [(Blocked /\ ~Blocked')
           => \/ IpcDisable
              \/ IpcReload /\ ~file.enabled
              \/ CliDisable
              \/ EndService /\ ~hard
              \/ CliEnable /\ ~file.persistent]_vars
  BY BlockStays
<1> QED
  BY Inductive, <1>1, PTL DEF Spec, NetworkOpensOnlyOnRequest

\* When no call fails and the tool is not used beside a running service, the
\* engine holds the rules for the status the service reports.
THEOREM StatusIsTrue ==
  ASSUME Faults = {}, "running" \notin CliWhen
  PROVE  Spec => []EngineMatchesStatus
<1>1. Init => EngineMatchesStatus
  BY DEF Init, EngineMatchesStatus
<1> QED
  BY Inductive, <1>1, MatchStep, PTL DEF Spec

-----------------------------------------------------------------------------
(***************************************************************************)
(* The outcomes that Service assumes of the kill switch are those that     *)
(* Engine promises, with the block set as one rule.                        *)
(***************************************************************************)
O == INSTANCE EngineOutcomes
       WITH Blocks <- {"block"}, Infra <- {}, DnsDown <- {"dns"}, Luids <- Adapters

LEMMA SameRules == ASSUME NEW L PROVE BuildRules(L) = O!BuildRules(L)
  BY DEF BuildRules, O!BuildRules

\* What Service lets Apply leave behind (killswitch Apply, called by
\* reconcileLocked) is what Engine lets it leave behind.
THEOREM ApplyAsPromised ==
  ASSUME NEW F, NEW L \in SUBSET Adapters, NEW keep \in BOOLEAN
  PROVE  ApplyOutcomes(F, L, keep) =
           {O!New(L, keep)} \cup
           (IF "apply" \in Faults THEN O!ApplyFailed(F, L, keep) ELSE {})
<1> DEFINE new == {<<r, keep>> : r \in BuildRules(L)}
           added == {A \in SUBSET new : A # {} => <<"block", keep>> \in A}
<1>1. O!New(L, keep) = new
  BY SameRules DEF O!New
<1>2. ASSUME NEW A \in SUBSET new
      PROVE  (A # {} => <<"block", keep>> \in A)
               <=> ((\E r \in O!Rule \ {"block"} : <<r, keep>> \in A)
                      => \A r \in {"block"} : <<r, keep>> \in A)
  <2>1. \A x \in A : \E r \in O!Rule : x = <<r, keep>>
    BY DEF BuildRules, O!Rule
  <2>2. QED
    BY <2>1
<1>3. O!Partial(L, keep) = added
  BY <1>1, <1>2 DEF O!Partial
<1>4. QED
  BY <1>1, <1>3 DEF ApplyOutcomes, O!ApplyFailed

LEMMA DisableAsPromised ==
  ASSUME NEW F
  PROVE  DisableOutcomes(F) =
           {{}} \cup (IF "disable" \in Faults THEN O!DisableFailed(F) ELSE {})
  BY DEF DisableOutcomes, O!DisableFailed

-----------------------------------------------------------------------------
(***************************************************************************)
(* Service implements Handlers.                                            *)
(***************************************************************************)
BlockIn(F) == IF <<"block", TRUE>> \in F THEN "iron"
              ELSE IF <<"block", FALSE>> \in F THEN "soft" ELSE "no"
ModeOf(keep) == IF keep THEN "iron" ELSE "soft"

LEMMA BlockIsIn == Block = BlockIn(filters) /\ Block' = BlockIn(filters')
BY DEF Block, BlockIn

\* An Apply ends in its session's block, or has failed and left the one it found.
LEMMA ApplyBlocks ==
  ASSUME NEW F, NEW L, NEW keep \in BOOLEAN, NEW G \in ApplyOutcomes(F, L, keep)
  PROVE  BlockIn(G) \in {ModeOf(keep)} \cup {b \in {BlockIn(F)} : "apply" \in Faults}
<1> DEFINE new == {<<r, keep>> : r \in BuildRules(L)}
<1>1. <<"block", keep>> \in new /\ \A k \in BOOLEAN : <<"block", k>> \in new => k = keep
  BY DEF BuildRules
<1>2. \/ G = new
      \/ /\ "apply" \in Faults
         /\ \/ \E A \in SUBSET new : G = F \cup A /\ (A # {} => <<"block", keep>> \in A)
            \/ \E rest \in SUBSET F : G = new \cup rest
  BY DEF ApplyOutcomes
<1> HIDE DEF new
<1>3. CASE G = new
  BY <1>1, <1>3 DEF BlockIn, ModeOf
<1>4. ASSUME "apply" \in Faults, NEW A \in SUBSET new, G = F \cup A,
             A # {} => <<"block", keep>> \in A
      PROVE  BlockIn(G) \in {ModeOf(keep), BlockIn(F)}
  BY <1>1, <1>4 DEF BlockIn, ModeOf
<1>5. ASSUME "apply" \in Faults, NEW rest \in SUBSET F, G = new \cup rest
      PROVE  BlockIn(G) \in {ModeOf(keep), BlockIn(F)}
  BY <1>1, <1>5 DEF BlockIn, ModeOf
<1> QED
  BY <1>2, <1>3, <1>4, <1>5

\* What goes of the filters leaves a block that Handlers allows for.
LEMMA FewerBlocks ==
  ASSUME SessionFilters, NEW G \in SUBSET filters
  PROVE  BlockIn(G) \in H!Remains(Block)
<1>1. <<"block", FALSE>> \in filters => ~hard
  BY DEF SessionFilters
<1> QED
  BY <1>1 DEF BlockIn, Block, H!Remains

LEMMA DisableBlocks ==
  ASSUME SessionFilters, NEW G \in DisableOutcomes(filters)
  PROVE  BlockIn(G) \in H!Disabled
<1>1. CASE "disable" \in Faults
  BY <1>1, FewerBlocks DEF DisableOutcomes, H!Disabled, H!May
<1>2. CASE "disable" \notin Faults
  BY <1>2 DEF DisableOutcomes, H!Disabled, H!May, BlockIn
<1> QED
  BY <1>1, <1>2

LEMMA ReconcileMaps ==
  ASSUME TypeOK, NEW c \in Config, NEW on \in BOOLEAN, NEW l \in Status,
         NEW w \in BOOLEAN, NEW t \in BOOLEAN, NEW F, NEW B, BlockIn(F) \in B,
         Reconcile(c, on, l, F, w, t), ksOn' = on, last' = l
  PROVE  H!Reconcile(l.connected, on, B, w, t)
<1>1. Block' \in IF on THEN {ModeOf(hard)} \cup {b \in B : "apply" \in Faults} ELSE B
  <2>1. CASE on
    BY <2>1, BlockIsIn, ApplyBlocks DEF Reconcile, TypeOK
  <2>2. CASE ~on
    BY <2>2, BlockIsIn DEF Reconcile
  <2> QED
    BY <2>1, <2>2
<1>2. tunnels' \in IF l.connected THEN {t \/ ~w} ELSE {t, t /\ ~w}
  <2>1. l.connected \in BOOLEAN /\ c.stopOnDown \in BOOLEAN
    BY DEF Status, Config
  <2>2. tunnels' = ((l.connected /\ ~w) \/ (t /\ ~(~l.connected /\ w /\ c.stopOnDown)))
    BY DEF Reconcile
  <2> QED
    BY <2>1, <2>2
<1>3. wasConnected' = l.connected
  BY DEF Reconcile
<1> QED
  BY <1>1, <1>2, <1>3 DEF H!Reconcile, H!May, ModeOf

LEMMA InitMaps == Init => H!Init
BY DEF Init, H!Init, Block, NoStatus

\* Each action is the one of its name, or changes nothing that Handlers has.
LEMMA StepMaps == ASSUME IInv, [Next]_vars PROVE [H!Next]_(H!vars)
<1> DEFINE mapped == <<svc, hard, last, wasConnected, ksOn, tunnels, filters>>
<1>0. /\ TypeOK /\ Idle /\ SessionFilters
      /\ last \in Status /\ wasConnected \in BOOLEAN /\ tunnels \in BOOLEAN
      /\ wasConnected = last.connected
  BY DEF IInv, TypeOK, Status
<1>1. ASSUME UNCHANGED mapped PROVE UNCHANGED H!vars
  BY <1>1 DEF H!vars, H!memory, Block
<1>2. ASSUME H!Handler PROVE H!Next
  BY <1>2 DEF H!Next
<1>3. ASSUME svc = "running", UNCHANGED <<svc, hard>>,
             H!Deliver \/ H!Enable \/ H!Disable \/ H!Reload \/ H!ReloadFails
      PROVE  H!Next
  BY <1>3 DEF H!Next, H!Handler
<1>4. CASE StartService
  <2>1. ksOn' \in BOOLEAN /\ hard' \in BOOLEAN
    BY <1>4, <1>0, ConfigsAssumption DEF StartService, TypeOK, Config
  <2>2. H!Serve
    BY <1>4, <2>1 DEF StartService, H!Serve, Block
  <2> QED
    BY <2>2 DEF H!Next
<1>5. CASE EndService
  <2>1. Block' = H!Survives(Block)
    BY <1>5, <1>0 DEF EndService, Survivors, Block, H!Survives, SessionFilters
  <2>2. H!End
    BY <1>5, <2>1 DEF EndService, H!End, H!Cut, H!Forgotten, NoStatus
  <2> QED
    BY <2>2 DEF H!Next
<1>6. CASE OnVPNChange
  <2>1. pending \in Status /\ svc = "running" /\ cfg \in Config /\ ksOn \in BOOLEAN
    BY <1>6, <1>0 DEF OnVPNChange, TypeOK, Idle
  <2>2. BlockIn(filters) \in {Block}
    BY BlockIsIn
  <2>3. H!Reconcile(pending.connected, ksOn, {Block}, wasConnected, tunnels)
    BY <1>6, <1>0, <2>1, <2>2, ReconcileMaps DEF OnVPNChange
  <2>4. H!Deliver
    BY <2>1, <2>3 DEF H!Deliver, Status
  <2> QED
    BY <1>3, <1>6, <2>1, <2>4 DEF OnVPNChange
<1>7. CASE IpcEnable
  <2>1. cfg' \in Config
    BY <1>7, <1>0 DEF IpcEnable, TypeOK, Config
  <2>2. CASE UNCHANGED <<ksOn, filters, wasConnected, tunnels>>
    BY <1>1, <1>7, <2>2 DEF IpcEnable
  <2>3. CASE ksOn' = TRUE /\ Reconcile(cfg', TRUE, last, filters, wasConnected, tunnels)
    <3>1. BlockIn(filters) \in {Block}
      BY BlockIsIn
    <3>2. H!Reconcile(last.connected, TRUE, {Block}, wasConnected, tunnels)
      BY <1>7, <1>0, <2>1, <2>3, <3>1, ReconcileMaps DEF IpcEnable
    <3> QED
      BY <1>3, <1>7, <3>2 DEF IpcEnable, H!Enable
  <2> QED
    BY <1>7, <2>2, <2>3 DEF IpcEnable
<1>8. CASE IpcDisable
  <2>1. Block' \in H!Disabled
    BY <1>8, <1>0, BlockIsIn, DisableBlocks DEF IpcDisable
  <2> QED
    BY <1>3, <1>8, <2>1 DEF IpcDisable, H!Disable
<1>9. CASE IpcReload
  <2>1. file \in Config /\ ksOn' \in BOOLEAN
    BY <1>9, <1>0 DEF IpcReload, TypeOK, Config
  <2>2. CASE "build" \in Faults /\ ksOn' = FALSE /\ tunnels' = FALSE
             /\ UNCHANGED <<filters, wasConnected>>
    BY <1>3, <1>9, <2>2 DEF IpcReload, H!ReloadFails, H!May, Block
  <2>3. CASE ksOn' = TRUE /\ Reconcile(file, TRUE, last, filters, FALSE, FALSE)
    <3>1. BlockIn(filters) \in {Block}
      BY BlockIsIn
    <3>2. H!Reconcile(last.connected, TRUE, {Block}, FALSE, FALSE)
      BY <1>9, <1>0, <2>1, <2>3, <3>1, ReconcileMaps DEF IpcReload
    <3> QED
      BY <1>3, <1>9, <3>2 DEF IpcReload, H!Reload
  <2>4. ASSUME NEW F \in DisableOutcomes(filters), ksOn' = FALSE,
               Reconcile(file, FALSE, last, F, FALSE, FALSE)
        PROVE  H!Next
    <3>1. BlockIn(F) \in H!Disabled
      BY <1>0, DisableBlocks
    <3>2. H!Reconcile(last.connected, FALSE, H!Disabled, FALSE, FALSE)
      BY <1>9, <1>0, <2>1, <2>4, <3>1, ReconcileMaps DEF IpcReload
    <3> QED
      BY <1>3, <1>9, <3>2 DEF IpcReload, H!Reload
  <2> QED
    BY <1>9, <2>1, <2>2, <2>3, <2>4 DEF IpcReload, Built
<1>10. CASE CliEnable \/ CliDisable
  <2>1. CliWhen # {} /\ Block' \in H!Remains(Block) \cup {"iron"}
    <3>1. CASE filters' \subseteq filters
      BY <1>10, <1>0, <3>1, BlockIsIn, FewerBlocks DEF CliEnable, CliDisable
    <3>2. CASE CliEnable /\ file.persistent
      <4>1. filters' \in ApplyOutcomes(filters, FindTunnelAdapters(file), TRUE)
        BY <3>2 DEF CliEnable
      <4>2. BlockIn(filters') \in {"iron", Block}
        BY ONLY <4>1, ApplyBlocks, BlockIsIn DEF ModeOf
      <4>3. Block \in H!Remains(Block)
        BY DEF H!Remains
      <4> QED
        BY <3>2, <4>2, <4>3, BlockIsIn DEF CliEnable
    <3> QED
      BY <1>10, <3>1, <3>2, DisableLeaves DEF CliEnable, CliDisable, SoftCliLeaves
  <2>2. UNCHANGED <<svc, hard, last, wasConnected, ksOn, tunnels>>
    BY <1>10 DEF CliEnable, CliDisable, state
  <2>3. H!Outside
    BY <2>1, <2>2 DEF H!Outside, H!memory
  <2> QED
    BY <2>3 DEF H!Next
<1>11. CASE AdapterChange \/ EditFile \/ Poll \/ UNCHANGED vars
  BY <1>1, <1>11 DEF AdapterChange, EditFile, Poll, vars, state
<1> QED
  BY <1>4, <1>5, <1>6, <1>7, <1>8, <1>9, <1>10, <1>11 DEF Next

(***************************************************************************)
(* Whatever fails and whoever else uses the engine, a handler of Service   *)
(* (onVPNChange, handleIPC) does what Handlers says of it.                 *)
(***************************************************************************)
THEOREM Promised == Spec => HandlersAsPromised
<1>1. IInv /\ [Next]_vars => [H!Next]_(H!vars)
  BY StepMaps
<1> QED
  BY InitMaps, Inductive, <1>1, PTL DEF Spec, HandlersAsPromised, H!Spec
=============================================================================
