-------------------------------- MODULE Engine --------------------------------
(***************************************************************************)
(* What killswitch.Manager promises the process that owns it, when no      *)
(* other process interferes: Apply and Disable are one step each.          *)
(* SoleManager.tla shows that the calls of KillSwitch.tla, failures and    *)
(* crashes at any point included, come to nothing else.                    *)
(***************************************************************************)
EXTENDS EngineOutcomes

VARIABLES session,   \* "closed", "static" or "dynamic"
          call,      \* the call in progress: none, Apply for adapters, Disable
          rules,     \* <<rule, persistent>> for the rules in the engine
          answer     \* what the last call has returned

vars == <<session, call, rules, answer>>

Idle == [op |-> "none", adapters |-> {}]
Calls == {Idle} \cup [op : {"apply"}, adapters : SUBSET Luids]
         \cup {[op |-> "disable", adapters |-> {}]}

Keeps(kind) == kind # "dynamic"

\* What the engine may hold while call c is in progress or has failed.
Unfinished(F, c, keep) ==
  IF c.op = "apply" THEN ApplyFailed(F, c.adapters, keep)
  ELSE IF c.op = "disable" THEN DisableFailed(F)
  ELSE {F}

Persistent(F) == {x \in F : x[2]}

Init == session = "closed" /\ call = Idle /\ rules = {} /\ answer = "none"

Open(kind) ==
  /\ session = "closed" /\ session' = kind
  /\ UNCHANGED <<call, rules, answer>>

Begin(c) ==
  /\ session # "closed" /\ call = Idle /\ c # Idle
  /\ call' = c /\ answer' = "none"
  /\ UNCHANGED <<session, rules>>

ApplySucceeds ==
  /\ call.op = "apply" /\ call' = Idle /\ answer' = "applied"
  /\ rules' = New(call.adapters, Keeps(session))
  /\ UNCHANGED session

DisableSucceeds ==
  /\ call.op = "disable" /\ call' = Idle /\ answer' = "disabled"
  /\ rules' = {}
  /\ UNCHANGED session

CallFails ==
  /\ call # Idle /\ call' = Idle /\ answer' = "failed"
  /\ rules' \in Unfinished(rules, call, Keeps(session))
  /\ UNCHANGED session

\* The session ends, perhaps in the middle of a call.
End ==
  /\ session # "closed" /\ session' = "closed"
  /\ call' = Idle /\ answer' = "none"
  /\ \E F \in Unfinished(rules, call, Keeps(session)) : rules' = Persistent(F)

Next ==
  \/ \E kind \in {"static", "dynamic"} : Open(kind)
  \/ \E c \in Calls : Begin(c)
  \/ ApplySucceeds \/ DisableSucceeds \/ CallFails \/ End

Spec == Init /\ [][Next]_vars
===============================================================================
