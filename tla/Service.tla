------------------------------ MODULE Service ------------------------------
(***************************************************************************)
(* The Windows service (internal/wsvc) with its VPN monitor                *)
(* (internal/vpnmon), the pipe commands, the config file, the Service      *)
(* Control Manager and the command line tool (cmd/vpnguard).               *)
(*                                                                         *)
(* svcState.mu is held for the whole of handleIPC and of onVPNChange, so a *)
(* handler is one step; the monitor polls without the lock, so a poll and  *)
(* its delivery are two steps with any handler between them.               *)
(*                                                                         *)
(* Abstractions.                                                           *)
(*  - A config file is one of Configs, or cannot be loaded.  Of a config   *)
(*    the model keeps enabled, persistent, the adapters its                *)
(*    tunnel_interfaces match, whether it has a management interface, and  *)
(*    stop_tunnels_on_vpn_down.                                            *)
(*  - Of the rules of buildRules it keeps the block set, the permits of    *)
(*    each adapter and the DNS permits.  Manager.Apply and                 *)
(*    Manager.Disable take one step and end in any state that              *)
(*    KillSwitch.tla can leave behind when no other process interferes.    *)
(*  - The tunnels of the current tunnels.Manager all run or all stand      *)
(*    still; Tunnels.tla has the supervisor.                               *)
(***************************************************************************)
EXTENDS Naturals, FiniteSets

CONSTANTS Adapters,   \* tunnel adapters
          Configs,    \* config files the user may write
          Faults,     \* what may fail: a subset of Fault
          CliWhen,    \* states of the service in which the tool is used
          None        \* no value

Fault == {"apply", "disable", "build", "poll"}
Config == [enabled : BOOLEAN, persistent : BOOLEAN, matches : SUBSET Adapters,
           management : BOOLEAN, stopOnDown : BOOLEAN]

ASSUME ConfigsAssumption == Configs \subseteq Config /\ None \notin Config
ASSUME FaultsAssumption == Faults \subseteq Fault
ASSUME CliAssumption == CliWhen \subseteq {"stopped", "running"}

VARIABLES
  up,            \* tunnel adapters that are up
  file,          \* config.yaml; None when it cannot be loaded
  filters,       \* <<rule, persistent>> for the rules in the WFP engine
  svc,           \* state of the service
  hard,          \* ks.persistent: the session is not a dynamic one
  cfg,           \* svcState.cfg
  ksOn,          \* svcState.ksCfg # nil
  last,          \* svcState.last
  wasConnected,  \* svcState.wasConnected
  tunnels,       \* the tunnels of svcState.tm have been started
  monCfg,        \* the config Monitor was created with
  monLast,       \* Run's last: the status it has delivered or is delivering
  pending        \* a status polled and not yet delivered

env == <<up, file>>
state == <<cfg, ksOn, last, wasConnected, tunnels>>
monitor == <<monCfg, monLast, pending>>
vars == <<env, filters, svc, hard, state, monitor>>

Rule == {"block", "dns"} \cup Adapters
Status == [connected : BOOLEAN, adapters : SUBSET Adapters]
NoStatus == [connected |-> FALSE, adapters |-> {}]

BuildRules(L) == {"block"} \cup L \cup (IF L = {} THEN {"dns"} ELSE {})

(***************************************************************************)
(* What Apply can leave behind when the engine holds F: the new rules, or, *)
(* after a failure, some of them on top of F (the block set first), or all *)
(* of them and what was not deleted of F.                                  *)
(***************************************************************************)
ApplyOutcomes(F, L, keep) ==
  LET new == {<<r, keep>> : r \in BuildRules(L)}
      added == {A \in SUBSET new : A # {} => <<"block", keep>> \in A}
  IN  {new} \cup
      (IF "apply" \in Faults
       THEN {F \cup A : A \in added} \cup {new \cup O : O \in SUBSET F}
       ELSE {})

\* What Disable can leave of F.
DisableOutcomes(F) == {{}} \cup (IF "disable" \in Faults THEN SUBSET F ELSE {})

\* What BuildKillswitchConfig can answer: it fails without the .ovpn file, or
\* when a host neither resolves nor is in the cache.
Built == {TRUE} \cup (IF "build" \in Faults THEN {FALSE} ELSE {})

Blocked == \E k \in BOOLEAN : <<"block", k>> \in filters

Init ==
  /\ up \in SUBSET Adapters /\ file \in Configs
  /\ filters = {} /\ svc = "stopped" /\ hard = FALSE
  /\ cfg = None /\ ksOn = FALSE /\ last = NoStatus
  /\ wasConnected = FALSE /\ tunnels = FALSE
  /\ monCfg = None /\ monLast = None /\ pending = None

-----------------------------------------------------------------------------
(***************************************************************************)
(* The environment: the VPN comes and goes, the user or the tray rewrites  *)
(* the file.                                                               *)
(***************************************************************************)
AdapterChange ==
  /\ \E a \in Adapters : up' = IF a \in up THEN up \ {a} ELSE up \cup {a}
  /\ UNCHANGED <<file, filters, svc, hard, state, monitor>>

EditFile ==
  /\ file' \in (Configs \cup {None}) \ {file}
  /\ UNCHANGED <<up, filters, svc, hard, state, monitor>>

-----------------------------------------------------------------------------
(***************************************************************************)
(* runLoop.  When Load, killswitch.New or BuildKillswitchConfig fails the  *)
(* service stops again and nothing has changed.                            *)
(***************************************************************************)
StartService ==
  /\ svc = "stopped" /\ file # None
  /\ svc' = "running"
  /\ cfg' = file /\ hard' = file.persistent
  /\ ksOn' = file.enabled
  /\ monCfg' = file
  /\ UNCHANGED <<env, filters, last, wasConnected, tunnels, monLast, pending>>

\* The end of the process, by the SCM or by a crash: a dynamic session takes
\* its filters along, the job objects take the tunnels.  After a reboot the
\* same holds.
Survivors(F) == {x \in F : x[2]}

EndService ==
  /\ svc = "running"
  /\ svc' = "stopped" /\ hard' = FALSE
  /\ filters' = Survivors(filters)
  /\ cfg' = None /\ ksOn' = FALSE /\ last' = NoStatus
  /\ wasConnected' = FALSE /\ tunnels' = FALSE
  /\ monCfg' = None /\ monLast' = None /\ pending' = None
  /\ UNCHANGED env

\* The adapters that are up and that the tunnel_interfaces of c match.
FindTunnelAdapters(c) == up \cap c.matches

(***************************************************************************)
(* Monitor.Run: poll takes the adapters of the config it was created with; *)
(* an error counts as no adapters; the management interface can only take  *)
(* the connection away.  OnChange is called when the status differs.       *)
(***************************************************************************)
Polled ==
  LET A == FindTunnelAdapters(monCfg)
  IN  {[connected |-> A # {}, adapters |-> A]}
      \cup (IF monCfg.management
            THEN {[connected |-> FALSE, adapters |-> A]} ELSE {})
      \cup (IF "poll" \in Faults THEN {NoStatus} ELSE {})

Poll_DropsBusy ==
  /\ svc = "running"
  /\ \E s \in Polled :
       /\ s # monLast
       /\ monLast' = s
       /\ pending' = IF pending = None THEN s ELSE pending
  /\ UNCHANGED <<env, filters, svc, hard, state, monCfg>>

Poll ==
  /\ svc = "running" /\ pending = None
  /\ \E s \in Polled :
       /\ s # monLast
       /\ monLast' = s /\ pending' = s
  /\ UNCHANGED <<env, filters, svc, hard, state, monCfg>>

(***************************************************************************)
(* reconcileLocked, with the config c, the kill switch on or off, the      *)
(* status l, and what the handler left in the engine (F), in wasConnected  *)
(* (w) and in the tunnels (t).                                             *)
(***************************************************************************)
Reconcile_AppliesOnlyUp(c, on, l, F, w, t) ==
  /\ filters' \in IF on /\ l.connected
                  THEN ApplyOutcomes(F, l.adapters, hard) ELSE {F}
  /\ tunnels' = ((l.connected /\ ~w)
                 \/ (t /\ ~(~l.connected /\ w /\ c.stopOnDown)))
  /\ wasConnected' = l.connected

Reconcile(c, on, l, F, w, t) ==
  /\ filters' \in IF on THEN ApplyOutcomes(F, l.adapters, hard) ELSE {F}
  /\ tunnels' = ((l.connected /\ ~w)
                 \/ (t /\ ~(~l.connected /\ w /\ c.stopOnDown)))
  /\ wasConnected' = l.connected

OnVPNChange ==
  /\ pending # None
  /\ last' = pending
  /\ Reconcile(cfg, ksOn, pending, filters, wasConnected, tunnels)
  /\ pending' = None
  /\ UNCHANGED <<env, svc, hard, cfg, ksOn, monCfg, monLast>>

-----------------------------------------------------------------------------
(***************************************************************************)
(* handleIPC.  ping and status change nothing.                             *)
(***************************************************************************)
IpcEnable ==
  /\ svc = "running"
  /\ cfg' = [cfg EXCEPT !.enabled = TRUE]
  /\ \E ok \in Built :
       IF ok
       THEN /\ ksOn' = TRUE
            /\ Reconcile(cfg', TRUE, last, filters, wasConnected, tunnels)
       ELSE UNCHANGED <<ksOn, filters, wasConnected, tunnels>>
  /\ UNCHANGED <<env, svc, hard, last, monitor>>

IpcDisable ==
  /\ svc = "running"
  /\ cfg' = [cfg EXCEPT !.enabled = FALSE]
  /\ ksOn' = FALSE
  /\ filters' \in DisableOutcomes(filters)
  /\ UNCHANGED <<env, svc, hard, last, wasConnected, tunnels, monitor>>

\* Load has succeeded.  The session (hard) and the monitor keep what the
\* service was started with.
IpcReload_KeepsTunnels ==
  /\ svc = "running" /\ file # None
  /\ cfg' = file
  /\ \E ok \in IF file.enabled THEN Built ELSE {TRUE} :
       /\ ksOn' = (ok /\ file.enabled)
       /\ IF ok
          THEN \E F \in IF file.enabled THEN {filters}
                                        ELSE DisableOutcomes(filters) :
                 Reconcile(file, ksOn', last, F, FALSE, tunnels)
          ELSE UNCHANGED <<filters, wasConnected, tunnels>>
  /\ UNCHANGED <<env, svc, hard, last, monitor>>

IpcReload_ForgetsRestart ==
  /\ svc = "running" /\ file # None
  /\ cfg' = file
  /\ \E ok \in IF file.enabled THEN Built ELSE {TRUE} :
       /\ ksOn' = (ok /\ file.enabled)
       /\ IF ok
          THEN \E F \in IF file.enabled THEN {filters}
                                        ELSE DisableOutcomes(filters) :
                 Reconcile(file, ksOn', last, F, wasConnected, FALSE)
          ELSE tunnels' = FALSE /\ UNCHANGED <<filters, wasConnected>>
  /\ UNCHANGED <<env, svc, hard, last, monitor>>

IpcReload_LiftsFirst ==
  /\ svc = "running" /\ file # None
  /\ cfg' = file
  /\ \E ok \in IF file.enabled THEN Built ELSE {TRUE} :
       /\ ksOn' = (ok /\ file.enabled)
       /\ \E F \in DisableOutcomes(filters) :
            IF ok THEN Reconcile(file, ksOn', last, F, FALSE, FALSE)
            ELSE tunnels' = FALSE /\ filters' = F /\ UNCHANGED wasConnected
  /\ UNCHANGED <<env, svc, hard, last, monitor>>

IpcReload ==
  /\ svc = "running" /\ file # None
  /\ cfg' = file
  /\ \E ok \in IF file.enabled THEN Built ELSE {TRUE} :
       /\ ksOn' = (ok /\ file.enabled)
       /\ IF ok
          THEN \E F \in IF file.enabled THEN {filters}
                                        ELSE DisableOutcomes(filters) :
                 Reconcile(file, ksOn', last, F, FALSE, FALSE)
          ELSE tunnels' = FALSE /\ UNCHANGED <<filters, wasConnected>>
  /\ UNCHANGED <<env, svc, hard, last, monitor>>

-----------------------------------------------------------------------------
(***************************************************************************)
(* The command line tool, in a WFP session of its own that it closes.      *)
(***************************************************************************)
\* In soft mode what the tool adds goes with its session; what it has deleted
\* of the rules that were there is gone.
SoftCliLeaves == {{}} \cup (IF "apply" \in Faults THEN SUBSET filters ELSE {})

CliEnable ==
  /\ svc \in CliWhen /\ file # None
  /\ filters' \in IF file.persistent
                  THEN ApplyOutcomes(filters, FindTunnelAdapters(file), TRUE)
                  ELSE SoftCliLeaves
  /\ UNCHANGED <<env, svc, hard, state, monitor>>

\* `vpnguard disable` and `vpnguard panic`.
CliDisable ==
  /\ svc \in CliWhen
  /\ filters' \in DisableOutcomes(filters)
  /\ UNCHANGED <<env, svc, hard, state, monitor>>

Next ==
  \/ AdapterChange \/ EditFile
  \/ StartService \/ EndService
  \/ Poll \/ OnVPNChange
  \/ IpcEnable \/ IpcDisable \/ IpcReload
  \/ CliEnable \/ CliDisable

\* The monitor's goroutine runs: its ticker ticks, and a handler that holds
\* the lock ends.  Nothing is assumed of users, commands or faults.
Fairness == WF_vars(Poll) /\ WF_vars(OnVPNChange)

Spec == Init /\ [][Next]_vars /\ Fairness

-----------------------------------------------------------------------------
(***************************************************************************)
(* Properties.                                                             *)
(***************************************************************************)
Permitted == {a \in Adapters : \E k \in BOOLEAN : <<a, k>> \in filters}

\* Every variable has its type, and the service's variables have a value
\* exactly while it runs.
TypeOK ==
  /\ up \subseteq Adapters /\ file \in Config \cup {None}
  /\ filters \subseteq Rule \X BOOLEAN
  /\ svc \in {"stopped", "running"} /\ hard \in BOOLEAN
  /\ cfg \in Config \cup {None} /\ (cfg = None <=> svc = "stopped")
  /\ ksOn \in BOOLEAN /\ (ksOn => cfg # None /\ cfg.enabled)
  /\ last \in Status /\ wasConnected = last.connected
  /\ tunnels \in BOOLEAN
  /\ monCfg \in Config \cup {None} /\ (monCfg = None <=> svc = "stopped")
  /\ monLast \in Status \cup {None}
  /\ pending \in {None, monLast}

\* Fail-closed: once the block set is in the engine it goes only because
\* somebody asked for it - a disable or panic, a reload of a config that is
\* not enabled - or because a soft-mode session ends.  No lost adapter, failed
\* Apply, failed reload, crash or restart of the service opens the network.
NetworkOpensOnlyOnRequest ==
  [][(Blocked /\ ~Blocked')
       => \/ IpcDisable
          \/ IpcReload /\ ~file.enabled
          \/ CliDisable
          \/ EndService /\ ~hard
          \/ CliEnable /\ ~file.persistent]_vars

(***************************************************************************)
(* The handlers with their configurations, adapters and rules are those of *)
(* Handlers.tla, which Lifecycle.tla implements step by step: whatever     *)
(* fails, each is a delivery, enable, disable or reload there, and nothing *)
(* else but the start, the end and the tool changes what they work on.     *)
(***************************************************************************)
Block == IF <<"block", TRUE>> \in filters THEN "iron"
         ELSE IF <<"block", FALSE>> \in filters THEN "soft" ELSE "no"

H == INSTANCE Handlers
       WITH Shared <- CliWhen # {},
            phase <- IF svc = "running" THEN "serving" ELSE "off",
            mode <- IF hard THEN "iron" ELSE "soft",
            last <- last.connected, started <- tunnels, blocked <- Block

HandlersAsPromised == H!Spec

\* Tunnels are gated on the VPN state: they do not run on while the service
\* sees no VPN and its config says to stop them, whatever was reloaded,
\* enabled or delivered late in between.
TunnelsOnlyBehindVPN ==
  (tunnels /\ ~last.connected) => ~cfg.stopOnDown

\* With nothing failing, the engine holds exactly the rules for the adapters
\* of the status the service reports, from the first delivered poll on.
EngineMatchesStatus ==
  (ksOn /\ monLast # None /\ pending = None)
    => filters = {<<r, hard>> : r \in BuildRules(last.adapters)}

\* When the VPN settles and the kill switch stays on, the permitted adapters
\* settle on those that are up: no late delivery or command leaves a permit
\* for a lost adapter, or a tunnel that stays shut.
Converges ==
  \A U \in SUBSET Adapters :
    <>[](up = U /\ svc = "running" /\ ksOn)
      => <>[](svc = "running" /\ Permitted = U \cap monCfg.matches)

\* Users, adapters and commands come to rest: only the monitor still moves.
Quiet == <>[][Poll \/ OnVPNChange]_vars

\* "Even with zero adapters the block set must be in place (that IS the kill
\* switch)": once everything else rests, a service with the kill switch on has
\* the block set in the engine.
EnabledMeansBlocked ==
  Quiet /\ <>[](svc = "running" /\ ksOn) => <>[]Blocked

\* Once everything else rests, the tunnels run behind a VPN and stand still
\* without one - after a reload too ("restart the tunnels if the VPN is already
\* up").
TunnelsFollowVPN ==
  Quiet /\ <>[](svc = "running" /\ cfg.stopOnDown /\ ~monCfg.management)
    => <>[](svc = "running" /\ (tunnels <=> FindTunnelAdapters(monCfg) # {}))

=============================================================================
