------------------------------- MODULE Serial -------------------------------
(***************************************************************************)
(* Lifecycle with what the handler that holds the lock has found: its      *)
(* steps come to the one step of Handlers.tla that is due when it gives    *)
(* the lock back.                                                          *)
(***************************************************************************)
EXTENDS Lifecycle

VARIABLE before   \* history: Now, or what it was when the lock was taken

Now == [last |-> last, wasConnected |-> wasConnected, ksOn |-> ksOn,
        started |-> started, blocked |-> blocked]

serialVars == <<vars, before>>

\* The monitor is there from the start of the goroutines to the process's end.
Phase ==
  IF pc[Monitor] = "none" THEN "off"
  ELSE IF loop = "wait" THEN "serving"
  ELSE IF loop \in {"join", "close"} THEN "closing" ELSE "closed"

\* While it serves, what the next handler finds; afterwards the memory is gone.
Seen ==
  IF Phase = "serving" THEN before
  ELSE [Now EXCEPT !.last = FALSE, !.wasConnected = FALSE, !.ksOn = FALSE]

H == INSTANCE Handlers
       WITH Shared <- FALSE, phase <- Phase,
            mode <- IF Phase = "off" THEN "soft" ELSE Mode,
            last <- Seen.last, wasConnected <- Seen.wasConnected,
            ksOn <- Seen.ksOn, started <- Seen.started, blocked <- Seen.blocked

SerialInit == Init /\ before = Now

SerialNext ==
  /\ Next
  /\ before' = IF Phase' = "serving" /\ ~LockIsFree' THEN before ELSE Now'

SerialSpec == SerialInit /\ [][SerialNext]_serialVars
SerialFairSpec == SerialSpec /\ Fairness

-----------------------------------------------------------------------------
(***************************************************************************)
(* svcState.mu makes a handler one step although polls, accepts, failing   *)
(* calls and other handlers come between its steps; and a shutdown or a    *)
(* crash in the middle of one leaves no more than the handler's own traces *)
(* and no block of the session that it has closed.                         *)
(***************************************************************************)
HandlersAreSerial == H!Spec
=============================================================================
