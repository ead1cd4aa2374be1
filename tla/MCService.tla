----------------------------- MODULE MCService -----------------------------
(* Small instances of Service for TLC. *)
EXTENDS Service

CONSTANTS tap, wintun

TwoAdapters == {tap, wintun}
OneAdapter == {tap}

Iron == [enabled |-> TRUE, persistent |-> TRUE, matches |-> Adapters,
         management |-> FALSE, stopOnDown |-> TRUE]
Soft == [Iron EXCEPT !.persistent = FALSE]
Off == [Iron EXCEPT !.enabled = FALSE]
Narrow == [Iron EXCEPT !.matches = {tap}]
Detailed == [Soft EXCEPT !.management = TRUE]
Keeping == [Iron EXCEPT !.stopOnDown = FALSE]

FaultConfigs == {Iron, Off, Detailed, Keeping}
QuietConfigs == {Iron, Soft, Off, Narrow}
=============================================================================
