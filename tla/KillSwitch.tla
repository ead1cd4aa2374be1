----------------------------- MODULE KillSwitch -----------------------------
(***************************************************************************)
(* killswitch.Manager (internal/killswitch): Apply and Disable, one WFP    *)
(* call per step, executed by any number of processes at once - the        *)
(* service and every run of the command line tool open a session of their  *)
(* own and all of them own the same filters, because filters are found by  *)
(* their provider, not by who added them.                                  *)
(*                                                                         *)
(* Abstractions.                                                           *)
(*  - A filter's content is a member of a small set: a default-deny rule   *)
(*    (Blocks), a permit that every configuration has (Infra), a permit    *)
(*    that exists only without a tunnel (DnsDown), or a tunnel adapter     *)
(*    (Luids: the permits for that adapter).  FilterRules.tla says what    *)
(*    the rules let through.                                               *)
(*  - Filter GUIDs are random in the code and only compared for equality;  *)
(*    here an id is the number of filters added before, which is fresh too *)
(*    and lets the properties speak of age.                                *)
(*  - The WFP engine is external.  What is assumed of it: one call is      *)
(*    atomic; adding needs the parent object, deleting needs that nothing  *)
(*    refers to the object; what a dynamic session added goes away with    *)
(*    it; every call may fail for reasons of its own.                      *)
(*                                                                         *)
(* goal, mark, floor and armed are history variables: no guard reads them. *)
(***************************************************************************)
EXTENDS Naturals, FiniteSets

CONSTANTS Procs,     \* processes that open a WFP session
          Blocks,    \* the default-deny rules, one per ALE layer
          Infra,     \* permits of every configuration: loopback, DHCP, endpoints
          DnsDown,   \* permits installed only while no tunnel adapter is up
          Luids,     \* tunnel adapters
          MaxId      \* bound: filters ever added

ASSUME BlocksAssumption == Blocks # {}
ASSUME ProcsAssumption == "persistent" \notin Procs
ASSUME MaxIdAssumption == MaxId \in Nat

VARIABLES
  provider,   \* our WFP provider is registered
  sublayer,   \* our sublayer is registered
  filters,    \* our filters in the engine
  nextId,     \* id of the next filter
  sess,       \* sess[p]: kind of p's WFP session
  pc,         \* pc[p]: the WFP call p is about to make
  todo,       \* todo[p]: rules Apply has built and not yet added
  old,        \* old[p]: ids Apply or Disable has listed and not yet deleted
  err,        \* err[p]: Disable has met an error (firstErr # nil)
  ret,        \* ret[p]: what p's last operation returned
  goal,       \* goal[p]: the rules p's current or last Apply has built
  mark,       \* mark[p]: value of nextId when p listed the filters
  floor,      \* value of nextId at the last event that may lift the block
  armed       \* an Apply that listed the filters after floor has completed

engine == <<provider, sublayer, filters, nextId>>
locals == <<sess, pc, todo, old, err, ret>>
history == <<goal, mark, floor, armed>>
vars == <<engine, locals, history>>

Baseline == Blocks \cup Infra
Rule == Baseline \cup DnsDown \cup Luids
Id == 0 .. MaxId
Owner == Procs \cup {"persistent"}   \* the dynamic session a filter dies with
Filter == [id : Id, rule : Rule, owner : Owner]
Session == {"closed", "static", "dynamic"}
ApplyPc == {"ListProviders", "AddProvider", "ListSublayers", "AddSublayer",
            "ListRules", "Swap"}
DisablePc == {"ListAll", "Purge", "DropProvider"}
Pc == {"idle"} \cup ApplyPc \cup DisablePc
Ret == {"none", "applied", "disabled", "failed"}

(***************************************************************************)
(* What buildRules produces for the tunnel adapters us, and what           *)
(* ourRuleIDs finds.                                                       *)
(***************************************************************************)
BuildRules(us) == Baseline \cup us \cup (IF us = {} THEN DnsDown ELSE {})

OwnerOf(p) == IF sess[p] = "dynamic" THEN p ELSE "persistent"

IdsOf(F) == {f.id : f \in F}

OurRuleIds_OwnOnly(p) == IdsOf({f \in filters : f.owner = OwnerOf(p)})

OurRuleIds(p) == IdsOf(filters)

Installed(r) == \E f \in filters : f.rule = r

Init ==
  /\ provider = FALSE /\ sublayer = FALSE
  /\ filters = {} /\ nextId = 0
  /\ sess = [p \in Procs |-> "closed"]
  /\ pc = [p \in Procs |-> "idle"]
  /\ todo = [p \in Procs |-> {}]
  /\ old = [p \in Procs |-> {}]
  /\ err = [p \in Procs |-> FALSE]
  /\ ret = [p \in Procs |-> "none"]
  /\ goal = [p \in Procs |-> {}]
  /\ mark = [p \in Procs |-> 0]
  /\ floor = 0 /\ armed = FALSE

Goto(p, l) == pc' = [pc EXCEPT ![p] = l]

(***************************************************************************)
(* killswitch.New: a dynamic session in soft mode, a static one otherwise. *)
(***************************************************************************)
Open(p, kind) ==
  /\ sess[p] = "closed"
  /\ sess' = [sess EXCEPT ![p] = kind]
  /\ UNCHANGED <<engine, pc, todo, old, err, ret, history>>

(***************************************************************************)
(* The session ends: Manager.Close, the process exits, is killed in the    *)
(* middle of an operation, or the machine reboots.  What a dynamic session *)
(* added disappears with it.                                               *)
(***************************************************************************)
Survivors(p) == {f \in filters : f.owner # p}

EndSession(p) ==
  /\ sess[p] # "closed"
  /\ sess' = [sess EXCEPT ![p] = "closed"]
  /\ filters' = Survivors(p)
  /\ Goto(p, "idle")
  /\ todo' = [todo EXCEPT ![p] = {}]
  /\ old' = [old EXCEPT ![p] = {}]
  /\ err' = [err EXCEPT ![p] = FALSE]
  /\ ret' = [ret EXCEPT ![p] = "none"]
  /\ goal' = [goal EXCEPT ![p] = {}]
  /\ mark' = [mark EXCEPT ![p] = 0]
  /\ IF sess[p] = "dynamic"
     THEN floor' = nextId /\ armed' = FALSE
     ELSE UNCHANGED <<floor, armed>>
  /\ UNCHANGED <<provider, sublayer, nextId>>

-----------------------------------------------------------------------------
(***************************************************************************)
(* Apply.                                                                  *)
(***************************************************************************)
StartApply(p, us) ==
  /\ sess[p] # "closed" /\ pc[p] = "idle"
  /\ todo' = [todo EXCEPT ![p] = BuildRules(us)]
  /\ ret' = [ret EXCEPT ![p] = "none"]
  /\ goal' = [goal EXCEPT ![p] = BuildRules(us)]
  /\ mark' = [mark EXCEPT ![p] = 0]
  /\ Goto(p, "ListProviders")
  /\ UNCHANGED <<engine, sess, old, err, floor, armed>>

\* Any call of Apply may fail, and Apply returns at the first failure.
ApplyFails(p) ==
  /\ pc[p] \in ApplyPc
  /\ ~(pc[p] = "Swap" /\ todo[p] = {} /\ old[p] = {})
  /\ todo' = [todo EXCEPT ![p] = {}]
  /\ old' = [old EXCEPT ![p] = {}]
  /\ ret' = [ret EXCEPT ![p] = "failed"]
  /\ goal' = [goal EXCEPT ![p] = {}]
  /\ mark' = [mark EXCEPT ![p] = 0]
  /\ Goto(p, "idle")
  /\ UNCHANGED <<engine, sess, err, floor, armed>>

\* ensureFoundation: what another process does between the listing and the
\* adding is not seen, and the adding then fails.
ListProviders(p) ==
  /\ pc[p] = "ListProviders"
  /\ Goto(p, IF provider THEN "ListSublayers" ELSE "AddProvider")
  /\ UNCHANGED <<engine, sess, todo, old, err, ret, history>>

AddProvider(p) ==
  /\ pc[p] = "AddProvider" /\ ~provider
  /\ provider' = TRUE
  /\ Goto(p, "ListSublayers")
  /\ UNCHANGED <<sublayer, filters, nextId, sess, todo, old, err, ret, history>>

ListSublayers(p) ==
  /\ pc[p] = "ListSublayers"
  /\ Goto(p, IF sublayer THEN "ListRules" ELSE "AddSublayer")
  /\ UNCHANGED <<engine, sess, todo, old, err, ret, history>>

AddSublayer(p) ==
  /\ pc[p] = "AddSublayer" /\ provider /\ ~sublayer
  /\ sublayer' = TRUE
  /\ Goto(p, "ListRules")
  /\ UNCHANGED <<provider, filters, nextId, sess, todo, old, err, ret, history>>

ListRules(p) ==
  /\ pc[p] = "ListRules"
  /\ old' = [old EXCEPT ![p] = OurRuleIds(p)]
  /\ mark' = [mark EXCEPT ![p] = nextId]
  /\ Goto(p, "Swap")
  /\ UNCHANGED <<engine, sess, todo, err, ret, goal, floor, armed>>

\* The new rules are added first; buildRules puts the default denies before
\* every permit.
AddRule(p) ==
  /\ pc[p] = "Swap" /\ sublayer /\ nextId < MaxId
  /\ \E r \in todo[p] :
       /\ r \in Blocks \/ todo[p] \cap Blocks = {}
       /\ filters' = filters \cup {[id |-> nextId, rule |-> r,
                                    owner |-> OwnerOf(p)]}
       /\ todo' = [todo EXCEPT ![p] = @ \ {r}]
  /\ nextId' = nextId + 1
  /\ UNCHANGED <<provider, sublayer, sess, pc, old, err, ret, history>>

\* Stale rules go only once every new rule is in.
DeleteRule_AnyTime(p) ==
  /\ pc[p] = "Swap"
  /\ \E i \in old[p] \cap IdsOf(filters) :
       /\ filters' = {f \in filters : f.id # i}
       /\ old' = [old EXCEPT ![p] = @ \ {i}]
  /\ UNCHANGED <<provider, sublayer, nextId, sess, pc, todo, err, ret, history>>

DeleteRule(p) ==
  /\ pc[p] = "Swap" /\ todo[p] = {}
  /\ \E i \in old[p] \cap IdsOf(filters) :
       /\ filters' = {f \in filters : f.id # i}
       /\ old' = [old EXCEPT ![p] = @ \ {i}]
  /\ UNCHANGED <<provider, sublayer, nextId, sess, pc, todo, err, ret, history>>

ApplyReturns(p) ==
  /\ pc[p] = "Swap" /\ todo[p] = {} /\ old[p] = {}
  /\ ret' = [ret EXCEPT ![p] = "applied"]
  /\ armed' = (armed \/ mark[p] >= floor)
  /\ Goto(p, "idle")
  /\ UNCHANGED <<engine, sess, todo, old, err, goal, mark, floor>>

-----------------------------------------------------------------------------
(***************************************************************************)
(* Disable: the IPC command, `vpnguard disable` and `vpnguard panic`.  An  *)
(* error is remembered and the rest is still attempted.                    *)
(***************************************************************************)
StartDisable(p) ==
  /\ sess[p] # "closed" /\ pc[p] = "idle"
  /\ ret' = [ret EXCEPT ![p] = "none"]
  /\ goal' = [goal EXCEPT ![p] = {}]
  /\ mark' = [mark EXCEPT ![p] = 0]
  /\ Goto(p, "ListAll")
  /\ UNCHANGED <<engine, sess, todo, old, err, floor, armed>>

ListAll(p) ==
  /\ pc[p] = "ListAll"
  /\ old' = [old EXCEPT ![p] = OurRuleIds(p)]
  /\ mark' = [mark EXCEPT ![p] = nextId]
  /\ floor' = nextId /\ armed' = FALSE
  /\ Goto(p, "Purge")
  /\ UNCHANGED <<engine, sess, todo, err, ret, goal>>

\* Without the listing nothing is attempted.
ListAllFails(p) ==
  /\ pc[p] = "ListAll"
  /\ ret' = [ret EXCEPT ![p] = "failed"]
  /\ Goto(p, "idle")
  /\ UNCHANGED <<engine, sess, todo, old, err, history>>

PurgeRule(p) ==
  /\ pc[p] = "Purge"
  /\ \E i \in old[p] :
       /\ old' = [old EXCEPT ![p] = @ \ {i}]
       /\ \/ /\ i \in IdsOf(filters)
             /\ filters' = {f \in filters : f.id # i}
             /\ UNCHANGED err
          \/ err' = [err EXCEPT ![p] = TRUE] /\ UNCHANGED filters
  /\ UNCHANGED <<provider, sublayer, nextId, sess, pc, todo, ret, history>>

\* A missing object may or may not be recognised by isNotFound, which
\* searches the text of the error.
NotFound(p, e) == e \in {err[p], TRUE}

DropSublayer(p) ==
  /\ pc[p] = "Purge" /\ old[p] = {}
  /\ \/ sublayer /\ filters = {} /\ sublayer' = FALSE /\ UNCHANGED err
     \/ sublayer /\ err' = [err EXCEPT ![p] = TRUE] /\ UNCHANGED sublayer
     \/ /\ ~sublayer
        /\ \E e \in BOOLEAN : NotFound(p, e) /\ err' = [err EXCEPT ![p] = e]
        /\ UNCHANGED sublayer
  /\ Goto(p, "DropProvider")
  /\ UNCHANGED <<provider, filters, nextId, sess, todo, old, ret, history>>

DisableReturns(p, e) ==
  /\ ret' = [ret EXCEPT ![p] = IF e THEN "failed" ELSE "disabled"]
  /\ err' = [err EXCEPT ![p] = FALSE]
  /\ mark' = [mark EXCEPT ![p] = 0]
  /\ Goto(p, "idle")

DropProvider_ForgivesInUse(p) ==
  /\ pc[p] = "DropProvider"
  /\ \/ provider /\ ~sublayer /\ provider' = FALSE
     \/ UNCHANGED provider
  /\ DisableReturns(p, err[p])
  /\ UNCHANGED <<sublayer, filters, nextId, sess, todo, old, goal, floor, armed>>

DropProvider(p) ==
  /\ pc[p] = "DropProvider"
  /\ \/ /\ provider /\ ~sublayer /\ provider' = FALSE
        /\ DisableReturns(p, err[p])
     \/ provider /\ UNCHANGED provider /\ DisableReturns(p, TRUE)
     \/ /\ ~provider /\ UNCHANGED provider
        /\ \E e \in BOOLEAN : NotFound(p, e) /\ DisableReturns(p, e)
  /\ UNCHANGED <<sublayer, filters, nextId, sess, todo, old, goal, floor, armed>>

-----------------------------------------------------------------------------
ApplyStep(p) ==
  \/ \E us \in SUBSET Luids : StartApply(p, us)
  \/ ApplyFails(p)
  \/ ListProviders(p) \/ AddProvider(p)
  \/ ListSublayers(p) \/ AddSublayer(p)
  \/ ListRules(p) \/ AddRule(p) \/ DeleteRule(p) \/ ApplyReturns(p)

DisableStep(p) ==
  \/ StartDisable(p) \/ ListAll(p) \/ ListAllFails(p)
  \/ PurgeRule(p) \/ DropSublayer(p) \/ DropProvider(p)

Next ==
  \E p \in Procs :
    \/ \E kind \in {"static", "dynamic"} : Open(p, kind)
    \/ EndSession(p)
    \/ ApplyStep(p)
    \/ DisableStep(p)

Spec == Init /\ [][Next]_vars

-----------------------------------------------------------------------------
(***************************************************************************)
(* Properties.                                                             *)
(***************************************************************************)

\* Every variable has its type.
TypeOK ==
  /\ provider \in BOOLEAN /\ sublayer \in BOOLEAN
  /\ filters \in SUBSET Filter
  /\ nextId \in Id
  /\ sess \in [Procs -> Session]
  /\ pc \in [Procs -> Pc]
  /\ todo \in [Procs -> SUBSET Rule]
  /\ old \in [Procs -> SUBSET Id]
  /\ err \in [Procs -> BOOLEAN]
  /\ ret \in [Procs -> Ret]
  /\ goal \in [Procs -> SUBSET Rule]
  /\ mark \in [Procs -> Id]
  /\ floor \in Id
  /\ armed \in BOOLEAN

\* Apply's promise (its doc comment: "no fail-open window").  From the return
\* of an Apply on, until somebody disables the kill switch or a soft-mode
\* session ends, every default-deny rule and every permanent permit is
\* installed at every single moment: while other Applies add and delete, fail
\* half way or die half way, in the service and in the command line tool.
NoFailOpenWindow == armed => \A r \in Baseline : Installed(r)

\* A successful Apply leaves no rule that is older than its own listing:
\* leftovers of Applies that failed or died (a permit for an adapter that is
\* gone) do not outlive it, whoever had added them.
StaleRulesGone ==
  \A p \in Procs :
    ret[p] = "applied" => \A f \in filters : f.id >= mark[p]

\* When one process owns the engine, a successful Apply leaves exactly the
\* rules of its configuration: the DNS permit goes once a tunnel is up, the
\* permit of an adapter goes with the adapter, however many Applies and
\* Disables failed half way before.
OnlyConfiguredRules ==
  \A p \in Procs :
    ret[p] = "applied" => {f.rule : f \in filters} = goal[p]

\* `panic` tells the truth: when Disable returns without an error, nothing of
\* ours is left in the engine at that moment, even if an Apply of the service
\* added rules after Disable had listed them ("all VPNGuard firewall rules
\* removed; network unrestricted").
DisableTellsTruth ==
  [][\A p \in Procs :
       (ret[p] # "disabled" /\ ret'[p] = "disabled")
         => filters' = {} /\ ~sublayer' /\ ~provider']_vars

=============================================================================
