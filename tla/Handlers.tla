------------------------------ MODULE Handlers ------------------------------
(***************************************************************************)
(* What svcState.mu promises: while the service serves, a handler (a       *)
(* delivery of the monitor, enable, disable, reload) is one step on its    *)
(* memory, its tunnels and the engine, and nothing else changes them.  The *)
(* shutdown does not take the lock: a handler that it, or a crash, cuts    *)
(* off may have come half way, and one that it overlaps goes on until the  *)
(* session is closed.                                                      *)
(*                                                                         *)
(* Lifecycle.tla (a handler is its steps) and Service.tla (a handler has   *)
(* configurations, adapters and rules) both keep this promise.             *)
(***************************************************************************)
CONSTANTS Faults,  \* what may fail
          Shared   \* the command line tool is used too

VARIABLES
  phase,         \* "off", "serving", "closing", "closed" (the session)
  mode,          \* how the session blocks: "soft" or "iron"
  last,          \* svcState.last.Connected
  wasConnected,
  ksOn,          \* svcState.ksCfg # nil
  started,       \* the tunnels have been started
  blocked        \* "no", "soft" or "iron"

memory == <<last, wasConnected, ksOn>>
vars == <<phase, mode, memory, started, blocked>>

May(f) == f \in Faults

Forgotten == last' = FALSE /\ wasConnected' = FALSE /\ ksOn' = FALSE

\* What is left of block b when the session ends, when some filters go, and
\* when a handler has come to any point.
Survives(b) == IF b = "soft" THEN "no" ELSE b
Remains(b) == IF b = "iron" THEN {"no", mode, "iron"} ELSE {"no", b}
Cut == {blocked, mode, "no"}

Disabled == IF May("disable") THEN Remains(blocked) ELSE {"no"}

Init ==
  /\ phase = "off" /\ mode = "soft" /\ blocked = "no" /\ started = FALSE
  /\ last = FALSE /\ wasConnected = FALSE /\ ksOn = FALSE

Serve ==
  /\ phase = "off"
  /\ phase' = "serving" /\ mode' \in {"soft", "iron"} /\ ksOn' \in BOOLEAN
  /\ UNCHANGED <<last, wasConnected, started, blocked>>

\* reconcileLocked for status l, with the kill switch on or off, and what the
\* handler has left of the block (one of B), of wasConnected and the tunnels.
Reconcile(l, on, B, w, t) ==
  /\ last' = l /\ wasConnected' = l /\ ksOn' = on
  /\ blocked' \in IF on THEN {mode} \cup {b \in B : May("apply")} ELSE B
  /\ started' \in IF l THEN {t \/ ~w} ELSE {t, t /\ ~w}

Deliver == \E l \in BOOLEAN : Reconcile(l, ksOn, {blocked}, wasConnected, started)

Enable == Reconcile(last, TRUE, {blocked}, wasConnected, started)

Disable ==
  /\ ksOn' = FALSE /\ blocked' \in Disabled
  /\ UNCHANGED <<last, wasConnected, started>>

Reload ==
  \/ Reconcile(last, TRUE, {blocked}, FALSE, FALSE)
  \/ Reconcile(last, FALSE, Disabled, FALSE, FALSE)

\* The old manager's tunnels and ksCfg are gone when the build fails.
ReloadFails ==
  /\ May("build")
  /\ ksOn' = FALSE /\ started' = FALSE
  /\ UNCHANGED <<last, wasConnected, blocked>>

Handler ==
  /\ phase = "serving"
  /\ Deliver \/ Enable \/ Disable \/ Reload \/ ReloadFails
  /\ UNCHANGED <<phase, mode>>

\* cancel(): from here on the memory is nobody's any more.
Cancel ==
  /\ phase = "serving" /\ phase' = "closing"
  /\ Forgotten /\ started' \in {started, FALSE} /\ blocked' \in Cut
  /\ UNCHANGED mode

\* Handlers beside the shutdown.
Overlap ==
  /\ phase \in {"closing", "closed"}
  /\ blocked' \in IF phase = "closing" THEN Cut ELSE {blocked}
  /\ started' \in BOOLEAN
  /\ UNCHANGED <<phase, mode, memory>>

CloseSession ==
  /\ phase = "closing" /\ phase' = "closed"
  /\ blocked' = Survives(blocked)
  /\ UNCHANGED <<mode, memory, started>>

\* The end of the process, at any time.
End ==
  /\ phase # "off"
  /\ phase' = "off" /\ mode' = "soft" /\ Forgotten /\ started' = FALSE
  /\ \E b \in IF phase = "serving" THEN Cut ELSE {blocked} : blocked' = Survives(b)

\* The command line tool.
Outside ==
  /\ Shared
  /\ blocked' \in Remains(blocked) \cup {"iron"}
  /\ UNCHANGED <<phase, mode, memory, started>>

Next == Serve \/ Handler \/ Cancel \/ Overlap \/ CloseSession \/ End \/ Outside

Spec == Init /\ [][Next]_vars
=============================================================================
