-------------------------- MODULE KillSwitchProofs --------------------------
(***************************************************************************)
(* Proofs about KillSwitch for any processes, rules, adapters and bound,   *)
(* and about one process alone with the engine: then KillSwitch implements *)
(* Engine, and an Apply that succeeds leaves exactly the rules of its      *)
(* configuration.                                                          *)
(***************************************************************************)
EXTENDS SoleManager, TLAPS

(***************************************************************************)
(* The inductive invariant.                                                *)
(***************************************************************************)
\* Filters hang on the sublayer, the sublayer on the provider.
Hierarchy ==
  /\ filters # {} => sublayer
  /\ sublayer => provider

\* Ids are fresh and tell the age; a listing only knows what was there.
Ages ==
  /\ \A f \in filters : f.id < nextId
  /\ floor <= nextId
  /\ \A p \in Procs :
       /\ mark[p] <= nextId
       /\ \A i \in old[p] : i < mark[p]
       /\ pc[p] = "Purge" => mark[p] <= floor

\* A filter goes with a session only if that session is a dynamic one.
Owners == \A f \in filters : f.owner \in Procs => sess[f.owner] = "dynamic"

\* pc[p] and the locals of p agree.
Control ==
  \A p \in Procs :
    /\ pc[p] # "idle" => sess[p] # "closed" /\ ret[p] = "none"
    /\ pc[p] \notin {"Swap", "Purge"} => old[p] = {}
    /\ ret[p] # "none" => sess[p] # "closed"
    /\ pc[p] \in ApplyPc \ {"Swap"} => Baseline \subseteq todo[p]

\* What p listed and has not deleted is all that is older than its listing.
Listing ==
  \A p \in Procs :
    (pc[p] = "Swap" \/ ret[p] = "applied")
      => \A f \in filters : f.id < mark[p] => f.id \in old[p]

\* r is installed by a filter of id m or more.
Since(r, m) == \E f \in filters : f.rule = r /\ f.id >= m

\* What p has already added to the new set is still there, unless the block
\* was lifted in between.
Progress ==
  \A p \in Procs :
    (pc[p] = "Swap" /\ mark[p] >= floor)
      => \A r \in Baseline \ todo[p] : Since(r, mark[p])

\* While the kill switch is armed every baseline rule has a filter younger
\* than the last lifting: no listing that came before it is able to delete it.
Armed == armed => \A r \in Baseline : Since(r, floor)

IInv ==
  /\ TypeOK /\ Hierarchy /\ Ages /\ Owners /\ Control
  /\ Listing /\ Progress /\ Armed
-----------------------------------------------------------------------------
USE DEF Id, Baseline, Rule, Filter, Owner, Session, ApplyPc, DisablePc, Pc, Ret

\* Every step keeps the type invariant, which Init establishes: the ids stay
\* below the bound, listings hold ids, filters hold built rules.
LEMMA TypeStep == TypeOK /\ [Next]_vars => TypeOK'
<1> SUFFICES ASSUME TypeOK, [Next]_vars PROVE TypeOK'
  OBVIOUS
<1> USE MaxIdAssumption DEF TypeOK, Goto
<1>1. ASSUME NEW p \in Procs, NEW k \in {"static", "dynamic"}, Open(p, k)
      PROVE TypeOK'
  BY <1>1 DEF Open, engine, history
<1>2. ASSUME NEW p \in Procs, NEW us \in SUBSET Luids, StartApply(p, us)
      PROVE TypeOK'
  BY <1>2 DEF StartApply, BuildRules, engine
<1>3. ASSUME NEW p \in Procs, EndSession(p) PROVE TypeOK'
  <2>1. /\ filters' \in SUBSET Filter
        /\ UNCHANGED <<provider, sublayer, nextId>>
        /\ floor' \in Id /\ armed' \in BOOLEAN
    BY <1>3 DEF EndSession, Survivors
  <2>2. /\ sess' \in [Procs -> Session] /\ pc' \in [Procs -> Pc]
        /\ todo' \in [Procs -> SUBSET Rule] /\ old' \in [Procs -> SUBSET Id]
        /\ err' \in [Procs -> BOOLEAN] /\ ret' \in [Procs -> Ret]
        /\ goal' \in [Procs -> SUBSET Rule] /\ mark' \in [Procs -> Id]
    BY <1>3 DEF EndSession
  <2>3. QED
    BY <2>1, <2>2
<1>4. ASSUME NEW p \in Procs, ApplyFails(p) PROVE TypeOK'
  BY <1>4 DEF ApplyFails, engine, locals, history
<1>5. ASSUME NEW p \in Procs, ListProviders(p) PROVE TypeOK'
  BY <1>5 DEF ListProviders, engine, locals, history
<1>6. ASSUME NEW p \in Procs, AddProvider(p) PROVE TypeOK'
  BY <1>6 DEF AddProvider, engine, locals, history
<1>7. ASSUME NEW p \in Procs, ListSublayers(p) PROVE TypeOK'
  BY <1>7 DEF ListSublayers, engine, locals, history
<1>8. ASSUME NEW p \in Procs, AddSublayer(p) PROVE TypeOK'
  BY <1>8 DEF AddSublayer, engine, locals, history
<1>9. ASSUME NEW p \in Procs, ListRules(p) PROVE TypeOK'
  BY <1>9 DEF ListRules, engine, locals, history, OurRuleIds, IdsOf
<1>10. ASSUME NEW p \in Procs, AddRule(p) PROVE TypeOK'
  BY <1>10 DEF AddRule, engine, locals, history, OwnerOf
<1>11. ASSUME NEW p \in Procs, DeleteRule(p) PROVE TypeOK'
  BY <1>11 DEF DeleteRule, engine, locals, history
<1>12. ASSUME NEW p \in Procs, ApplyReturns(p) PROVE TypeOK'
  BY <1>12 DEF ApplyReturns, engine, locals, history
<1>13. ASSUME NEW p \in Procs, StartDisable(p) PROVE TypeOK'
  BY <1>13 DEF StartDisable, engine, locals, history
<1>14. ASSUME NEW p \in Procs, ListAll(p) PROVE TypeOK'
  BY <1>14, ZenonT(60) DEF ListAll, engine, locals, history, OurRuleIds, IdsOf
<1>15. ASSUME NEW p \in Procs, ListAllFails(p) PROVE TypeOK'
  BY <1>15 DEF ListAllFails, engine, locals, history
<1>16. ASSUME NEW p \in Procs, PurgeRule(p) PROVE TypeOK'
  BY <1>16, ZenonT(60) DEF PurgeRule, engine, locals, history
<1>17. ASSUME NEW p \in Procs, DropSublayer(p) PROVE TypeOK'
  BY <1>17 DEF DropSublayer, engine, locals, history, NotFound
<1>18. ASSUME NEW p \in Procs, DropProvider(p) PROVE TypeOK'
  <2>1. ASSUME NEW e \in BOOLEAN, DisableReturns(p, e)
        PROVE  /\ ret' \in [Procs -> Ret] /\ err' \in [Procs -> BOOLEAN]
               /\ mark' \in [Procs -> Id] /\ pc' \in [Procs -> Pc]
    BY <2>1 DEF DisableReturns
  <2>2. \E e \in BOOLEAN : DisableReturns(p, e)
    BY <1>18 DEF DropProvider
  <2>3. provider' \in BOOLEAN
    BY <1>18 DEF DropProvider
  <2>4. QED
    BY <1>18, <2>1, <2>2, <2>3 DEF DropProvider
<1>19. CASE UNCHANGED vars
  BY <1>19 DEF vars, engine, locals, history
<1>20. QED
  BY <1>1, <1>2, <1>3, <1>4, <1>5, <1>6, <1>7, <1>8, <1>9, <1>10, <1>11, <1>12, <1>13, <1>14, <1>15, <1>16, <1>17, <1>18, <1>19 DEF Next, ApplyStep, DisableStep

LEMMA TypeInit == Init => TypeOK
<1> SUFFICES ASSUME Init PROVE TypeOK
  OBVIOUS
<1>1. 0 \in Id
  BY MaxIdAssumption
<1>2. /\ provider \in BOOLEAN /\ sublayer \in BOOLEAN /\ armed \in BOOLEAN
      /\ err \in [Procs -> BOOLEAN]
  BY DEF Init
<1>3. /\ sess \in [Procs -> Session] /\ pc \in [Procs -> Pc]
      /\ ret \in [Procs -> Ret]
  BY DEF Init
<1>4. /\ todo \in [Procs -> SUBSET Rule] /\ old \in [Procs -> SUBSET Id]
      /\ goal \in [Procs -> SUBSET Rule] /\ filters \in SUBSET Filter
  BY DEF Init
<1>5. /\ mark \in [Procs -> Id] /\ nextId \in Id /\ floor \in Id
  BY <1>1 DEF Init
<1>6. QED
  BY <1>2, <1>3, <1>4, <1>5 DEF TypeOK

\* TypeCorrect: every variable has its type in every reachable state.
THEOREM TypeCorrect == Spec => []TypeOK
BY TypeInit, TypeStep, PTL DEF Spec

-----------------------------------------------------------------------------
\* Deleting an id that a listing of age m saw does not hurt what is younger
\* than k, when either a whole baseline is as young as m, or m is not younger
\* than k.
LEMMA DeletionSafe ==
  ASSUME TypeOK, NEW i \in Id, NEW m \in Id, NEW k \in Id, NEW r \in Baseline,
         i < m, Since(r, k), m <= k \/ Since(r, m),
         filters' = {f \in filters : f.id # i}
  PROVE  Since(r, k)'
<1> USE DEF TypeOK
<1>1. PICK f \in filters : f.rule = r /\ f.id >= k
  BY DEF Since
<1>2. CASE f.id # i
  BY <1>1, <1>2 DEF Since
<1>3. CASE f.id = i
  <2>1. Since(r, m)
    BY <1>1, <1>3, MaxIdAssumption
  <2>2. PICK g \in filters : g.rule = r /\ g.id >= m
    BY <2>1 DEF Since
  <2>3. g.id # i /\ g.id >= k
    BY <1>1, <1>3, <2>2, MaxIdAssumption
  <2>4. QED
    BY <2>2, <2>3 DEF Since
<1>4. QED
  BY <1>2, <1>3


\* Every step of the program keeps the inductive invariant.
LEMMA IInvStep == IInv /\ [Next]_vars => IInv'
<1> SUFFICES ASSUME IInv, [Next]_vars PROVE IInv'
  OBVIOUS
<1> USE DEF Goto
<1>0. TypeOK /\ TypeOK' /\ MaxId \in Nat
  BY TypeStep, MaxIdAssumption DEF IInv
<1>1. ASSUME NEW p \in Procs, NEW k \in {"static", "dynamic"}, Open(p, k)
      PROVE IInv'
  <2>1. Hierarchy' /\ Ages' /\ Listing' /\ Progress' /\ Armed'
    BY <1>0, <1>1 DEF IInv, TypeOK, Open, engine, locals, history,
       Hierarchy, Ages, Listing, Progress, Armed, Since
  <2>2. Owners'
    BY <1>0, <1>1 DEF IInv, TypeOK, Open, engine, locals, history,
       Owners
  <2>3. Control'
    BY <1>0, <1>1 DEF IInv, TypeOK, Open, engine, locals, history,
       Control
  <2>4. QED
    BY <1>0, <2>1, <2>2, <2>3 DEF IInv
<1>2. ASSUME NEW p \in Procs, NEW us \in SUBSET Luids, StartApply(p, us)
      PROVE IInv'
  <2>1. Hierarchy' /\ Owners' /\ Armed'
    BY <1>0, <1>2 DEF IInv, TypeOK, StartApply, engine, locals, history,
       Hierarchy, Owners, Armed, Since, BuildRules
  <2>2. Ages'
    BY <1>0, <1>2 DEF IInv, TypeOK, StartApply, Ages, Control, engine
  <2>3. Control'
    BY <1>0, <1>2 DEF IInv, TypeOK, StartApply, engine, locals, history,
       Control, BuildRules
  <2>4. Listing'
    BY <1>0, <1>2 DEF IInv, TypeOK, StartApply, engine, locals, history,
       Listing, BuildRules
  <2>5. Progress'
    BY <1>0, <1>2 DEF IInv, TypeOK, StartApply, engine, locals, history,
       Progress, Since, BuildRules
  <2>6. QED
    BY <1>0, <2>1, <2>2, <2>3, <2>4, <2>5 DEF IInv
<1>3. ASSUME NEW p \in Procs, EndSession(p)
      PROVE IInv'
  <2>0. sess[p] # "dynamic" => filters' = filters
    BY <1>0, <1>3 DEF IInv, TypeOK, EndSession, Survivors, Owners
  <2>1. Hierarchy'
    BY <1>0, <1>3 DEF IInv, TypeOK, EndSession, engine, locals, history,
       Hierarchy, Survivors
  <2>2. Ages'
    BY <1>0, <1>3 DEF IInv, TypeOK, EndSession, engine, locals, history,
       Ages, Survivors
  <2>3. Owners'
    BY <1>0, <1>3 DEF IInv, TypeOK, EndSession, engine, locals, history,
       Owners, Survivors
  <2>4. Control'
    BY <1>0, <1>3 DEF IInv, TypeOK, EndSession, engine, locals, history,
       Control, Survivors
  <2>5. Listing'
    BY <1>0, <1>3 DEF IInv, TypeOK, EndSession, engine, locals, history,
       Listing, Survivors
  <2>6. Progress'
    <3> SUFFICES ASSUME NEW q \in Procs, pc'[q] = "Swap", mark'[q] >= floor',
                        NEW r \in Baseline \ todo'[q]
                 PROVE  \E f \in filters' : f.rule = r /\ f.id >= mark'[q]
      BY DEF Progress, Since
    <3>1. /\ q # p /\ pc[q] = "Swap" /\ mark'[q] = mark[q] /\ todo'[q] = todo[q]
          /\ floor <= nextId
      BY <1>0, <1>3 DEF IInv, TypeOK, EndSession, Ages
    <3>2. sess[p] # "dynamic" => \E f \in filters' : f.rule = r /\ f.id >= mark'[q]
      BY <1>0, <1>3, <2>0, <3>1 DEF IInv, EndSession, Progress, Since
    <3>3. sess[p] = "dynamic" => mark[q] >= nextId /\ mark[q] >= floor
      BY <1>0, <1>3, <3>1 DEF EndSession, TypeOK
    <3>4. sess[p] = "dynamic" => \E f \in filters : f.id >= nextId
      BY <1>0, <3>1, <3>3 DEF IInv, Progress, Since, TypeOK
    <3>5. QED
      BY <1>0, <3>2, <3>4 DEF IInv, Ages, TypeOK
  <2>7. Armed'
    BY <1>3, <2>0 DEF IInv, EndSession, Armed, Since
  <2>8. QED
    BY <1>0, <2>1, <2>2, <2>3, <2>4, <2>5, <2>6, <2>7 DEF IInv
<1>4. ASSUME NEW p \in Procs, ApplyFails(p)
      PROVE IInv'
  <2>1. Hierarchy' /\ Owners' /\ Armed'
    BY <1>0, <1>4 DEF IInv, TypeOK, ApplyFails, engine, locals, history,
       Hierarchy, Owners, Armed, Since
  <2>2. Ages'
    BY <1>0, <1>4 DEF IInv, TypeOK, ApplyFails, engine, locals, history,
       Ages
  <2>3. Control'
    BY <1>0, <1>4 DEF IInv, TypeOK, ApplyFails, engine, locals, history,
       Control
  <2>4. Listing'
    BY <1>0, <1>4 DEF IInv, TypeOK, ApplyFails, engine, locals, history,
       Listing
  <2>5. Progress'
    BY <1>0, <1>4 DEF IInv, TypeOK, ApplyFails, engine, locals, history,
       Progress, Since
  <2>6. QED
    BY <1>0, <2>1, <2>2, <2>3, <2>4, <2>5 DEF IInv
<1>5. ASSUME NEW p \in Procs, ListProviders(p)
      PROVE IInv'
  <2>1. Hierarchy' /\ Ages' /\ Owners' /\ Listing' /\ Progress' /\ Armed'
    BY <1>0, <1>5 DEF IInv, TypeOK, ListProviders, engine, locals, history,
       Hierarchy, Ages, Owners, Listing, Progress, Armed, Since
  <2>2. Control'
    BY <1>0, <1>5 DEF IInv, TypeOK, ListProviders, engine, locals, history,
       Control
  <2>3. QED
    BY <1>0, <2>1, <2>2 DEF IInv
<1>6. ASSUME NEW p \in Procs, AddProvider(p)
      PROVE IInv'
  <2>1. Ages' /\ Owners' /\ Listing' /\ Progress' /\ Armed'
    BY <1>0, <1>6 DEF IInv, TypeOK, AddProvider, engine, locals, history,
       Ages, Owners, Listing, Progress, Armed, Since
  <2>2. Hierarchy'
    BY <1>0, <1>6 DEF IInv, TypeOK, AddProvider, engine, locals, history,
       Hierarchy
  <2>3. Control'
    BY <1>0, <1>6 DEF IInv, TypeOK, AddProvider, engine, locals, history,
       Control
  <2>4. QED
    BY <1>0, <2>1, <2>2, <2>3 DEF IInv
<1>7. ASSUME NEW p \in Procs, ListSublayers(p)
      PROVE IInv'
  <2>1. Hierarchy' /\ Ages' /\ Owners' /\ Listing' /\ Progress' /\ Armed'
    BY <1>0, <1>7 DEF IInv, TypeOK, ListSublayers, engine, locals, history,
       Hierarchy, Ages, Owners, Listing, Progress, Armed, Since
  <2>2. Control'
    BY <1>0, <1>7 DEF IInv, TypeOK, ListSublayers, engine, locals, history,
       Control
  <2>3. QED
    BY <1>0, <2>1, <2>2 DEF IInv
<1>8. ASSUME NEW p \in Procs, AddSublayer(p)
      PROVE IInv'
  <2>1. Ages' /\ Owners' /\ Listing' /\ Progress' /\ Armed'
    BY <1>0, <1>8 DEF IInv, TypeOK, AddSublayer, engine, locals, history,
       Ages, Owners, Listing, Progress, Armed, Since
  <2>2. Hierarchy'
    BY <1>0, <1>8 DEF IInv, TypeOK, AddSublayer, engine, locals, history,
       Hierarchy
  <2>3. Control'
    BY <1>0, <1>8 DEF IInv, TypeOK, AddSublayer, engine, locals, history,
       Control
  <2>4. QED
    BY <1>0, <2>1, <2>2, <2>3 DEF IInv
<1>9. ASSUME NEW p \in Procs, ListRules(p)
      PROVE IInv'
  <2>1. Hierarchy' /\ Owners' /\ Armed'
    BY <1>0, <1>9 DEF IInv, TypeOK, ListRules, engine, locals, history,
       Hierarchy, Owners, Armed, Since, OurRuleIds, IdsOf
  <2>2. Ages'
    BY <1>0, <1>9 DEF IInv, TypeOK, ListRules, engine, locals, history,
       Ages, OurRuleIds, IdsOf
  <2>3. Control'
    BY <1>0, <1>9 DEF IInv, TypeOK, ListRules, engine, locals, history,
       Control, OurRuleIds, IdsOf
  <2>4. Listing'
    BY <1>0, <1>9 DEF IInv, TypeOK, ListRules, engine, locals, history,
       Listing, OurRuleIds, IdsOf
  <2>5. Progress'
    <3>1. Baseline \subseteq todo'[p]
      BY <1>0, <1>9 DEF IInv, Control, ListRules
    <3>2. \A q \in Procs \ {p} : mark'[q] = mark[q] /\ pc'[q] = pc[q]
      BY <1>0, <1>9 DEF ListRules, TypeOK
    <3>3. QED
      BY <1>9, <3>1, <3>2 DEF IInv, ListRules, Progress, Since, engine
  <2>6. QED
    BY <1>0, <2>1, <2>2, <2>3, <2>4, <2>5 DEF IInv
<1>10. ASSUME NEW p \in Procs, AddRule(p)
      PROVE IInv'
  <2>0. PICK r \in todo[p] :
           filters' = filters \cup {[id |-> nextId, rule |-> r,
                                     owner |-> OwnerOf(p)]}
           /\ todo' = [todo EXCEPT ![p] = @ \ {r}]
    BY <1>10 DEF AddRule
  <2>1. Hierarchy'
    BY <1>0, <1>10 DEF IInv, TypeOK, AddRule, engine, locals, history,
       Hierarchy, OwnerOf
  <2>2. Ages'
    BY <1>0, <1>10 DEF IInv, TypeOK, AddRule, engine, locals, history,
       Ages, OwnerOf
  <2>3. Owners'
    <3>1. OwnerOf(p) \in Procs => OwnerOf(p) = p /\ sess[p] = "dynamic"
      BY ProcsAssumption DEF OwnerOf
    <3>2. QED
      BY <1>10, <2>0, <3>1 DEF IInv, Owners, AddRule
  <2>4. Control'
    BY <1>0, <1>10 DEF IInv, TypeOK, AddRule, engine, locals, history,
       Control, OwnerOf
  <2>5. Listing'
    <3>1. \A q \in Procs : mark[q] <= nextId
      BY DEF IInv, Ages
    <3>2. ASSUME NEW q \in Procs, NEW f \in filters', f.id < mark[q]
          PROVE  f \in filters
      BY <1>0, <2>0, <3>1, <3>2 DEF TypeOK
    <3>3. UNCHANGED <<pc, ret, mark, old>>
      BY <1>10 DEF AddRule, history
    <3>4. QED
      BY <3>2, <3>3 DEF IInv, Listing
  <2>6. Progress'
    <3> SUFFICES ASSUME NEW q \in Procs, pc[q] = "Swap", mark[q] >= floor,
                        NEW b \in Baseline \ todo'[q]
                 PROVE  \E f \in filters' : f.rule = b /\ f.id >= mark[q]
      BY <1>10 DEF Progress, Since, AddRule, history
    <3>1. CASE b \notin todo[q]
      BY <1>10, <2>0, <3>1 DEF IInv, Progress, Since, AddRule
    <3>2. CASE b \in todo[q]
      <4>1. q = p /\ b = r
        BY <1>0, <2>0, <3>2 DEF TypeOK
      <4>2. nextId >= mark[q]
        BY <1>0 DEF IInv, Ages, TypeOK
      <4>3. [id |-> nextId, rule |-> r, owner |-> OwnerOf(p)] \in filters'
        BY <2>0
      <4>4. QED
        BY <4>1, <4>2, <4>3
    <3>3. QED
      BY <3>1, <3>2
  <2>7. Armed'
    BY <1>0, <1>10 DEF IInv, TypeOK, AddRule, engine, locals, history,
       Armed, Since, OwnerOf
  <2>8. QED
    BY <1>0, <2>1, <2>2, <2>3, <2>4, <2>5, <2>6, <2>7 DEF IInv
<1>11. ASSUME NEW p \in Procs, DeleteRule(p)
      PROVE IInv'
  <2>0. PICK i \in old[p] \cap IdsOf(filters) :
           /\ filters' = {f \in filters : f.id # i}
           /\ old' = [old EXCEPT ![p] = @ \ {i}]
    BY <1>11 DEF DeleteRule
  <2>0a. i \in Id /\ i < mark[p]
    BY <1>0, <2>0 DEF IInv, Ages, TypeOK
  <2>0b. ASSUME NEW k \in Id, k >= floor, NEW r \in Baseline, Since(r, k)
         PROVE  \E f \in filters' : f.rule = r /\ f.id >= k
    <3>1. mark[p] <= k \/ Since(r, mark[p])
      BY <1>0, <1>11, <2>0b DEF IInv, TypeOK, Progress, DeleteRule
    <3>2. mark[p] \in Id
      BY <1>0 DEF TypeOK
    <3>3. Since(r, k)'
      BY <1>0, <2>0, <2>0a, <2>0b, <3>1, <3>2, DeletionSafe
    <3>4. QED
      BY <3>3 DEF Since
  <2>1. Hierarchy'
    BY <1>0, <1>11 DEF IInv, TypeOK, DeleteRule, engine, locals, history,
       Hierarchy
  <2>2. Ages'
    BY <1>0, <1>11 DEF IInv, TypeOK, DeleteRule, engine, locals, history,
       Ages
  <2>3. Owners'
    BY <1>0, <1>11 DEF IInv, TypeOK, DeleteRule, engine, locals, history,
       Owners
  <2>4. Control'
    BY <1>0, <1>11 DEF IInv, TypeOK, DeleteRule, engine, locals, history,
       Control
  <2>5. Listing'
    BY <1>0, <1>11 DEF IInv, TypeOK, DeleteRule, engine, locals, history,
       Listing
  <2>6. Progress'
    <3>1. UNCHANGED <<mark, floor, armed, pc, todo>>
      BY <1>11 DEF DeleteRule, history
    <3> SUFFICES ASSUME NEW q \in Procs, pc[q] = "Swap", mark[q] >= floor,
                        NEW r \in Baseline \ todo[q]
                 PROVE  \E f \in filters' : f.rule = r /\ f.id >= mark[q]
      BY <3>1 DEF Progress, Since
    <3>2. Since(r, mark[q])
      BY DEF IInv, Progress
    <3>3. QED
      BY <1>0, <2>0b, <3>2 DEF TypeOK
  <2>7. Armed'
    <3>1. UNCHANGED <<floor, armed>>
      BY <1>11 DEF DeleteRule, history
    <3> SUFFICES ASSUME armed, NEW r \in Baseline
                 PROVE  \E f \in filters' : f.rule = r /\ f.id >= floor
      BY <3>1 DEF Armed, Since
    <3>2. Since(r, floor)
      BY DEF IInv, Armed
    <3>3. QED
      BY <1>0, <2>0b, <3>2 DEF TypeOK
  <2>8. QED
    BY <1>0, <2>1, <2>2, <2>3, <2>4, <2>5, <2>6, <2>7 DEF IInv
<1>12. ASSUME NEW p \in Procs, ApplyReturns(p)
      PROVE IInv'
  <2>1. Hierarchy' /\ Owners'
    BY <1>0, <1>12 DEF IInv, TypeOK, ApplyReturns, engine, locals, history,
       Hierarchy, Owners
  <2>2. Ages'
    BY <1>0, <1>12 DEF IInv, TypeOK, ApplyReturns, engine, locals, history,
       Ages
  <2>3. Control'
    BY <1>0, <1>12 DEF IInv, TypeOK, ApplyReturns, engine, locals, history,
       Control
  <2>4. Listing'
    BY <1>0, <1>12 DEF IInv, TypeOK, ApplyReturns, engine, locals, history,
       Listing
  <2>5. Progress'
    BY <1>0, <1>12 DEF IInv, TypeOK, ApplyReturns, engine, locals, history,
       Progress, Since
  <2>6. Armed'
    <3> SUFFICES ASSUME armed', NEW r \in Baseline PROVE Since(r, floor)'
      BY DEF Armed, Since
    <3>1. CASE armed
      BY <1>12, <3>1 DEF IInv, Armed, ApplyReturns, engine, Since
    <3>2. CASE mark[p] >= floor
      <4>1. Since(r, mark[p])
        BY <1>12, <3>2 DEF IInv, Progress, ApplyReturns
      <4>2. Since(r, floor)
        BY <1>0, <3>2, <4>1 DEF Since, TypeOK
      <4>3. QED
        BY <1>12, <4>2 DEF Since, ApplyReturns, engine
    <3>3. QED
      BY <1>12, <3>1, <3>2 DEF ApplyReturns
  <2>7. QED
    BY <1>0, <2>1, <2>2, <2>3, <2>4, <2>5, <2>6 DEF IInv
<1>13. ASSUME NEW p \in Procs, StartDisable(p)
      PROVE IInv'
  <2>1. Hierarchy' /\ Owners' /\ Progress' /\ Armed'
    BY <1>0, <1>13 DEF IInv, TypeOK, StartDisable, engine, locals, history,
       Hierarchy, Owners, Progress, Armed, Since
  <2>2. Ages'
    BY <1>0, <1>13 DEF IInv, TypeOK, StartDisable, Ages, Control, engine
  <2>3. Control'
    BY <1>0, <1>13 DEF IInv, TypeOK, StartDisable, engine, locals, history,
       Control
  <2>4. Listing'
    BY <1>0, <1>13 DEF IInv, TypeOK, StartDisable, engine, locals, history,
       Listing
  <2>5. QED
    BY <1>0, <2>1, <2>2, <2>3, <2>4 DEF IInv
<1>14. ASSUME NEW p \in Procs, ListAll(p)
      PROVE IInv'
  <2>1. Hierarchy' /\ Owners'
    BY <1>0, <1>14 DEF IInv, TypeOK, ListAll, engine, locals, history,
       Hierarchy, Owners, OurRuleIds, IdsOf
  <2>2. Ages'
    BY <1>0, <1>14 DEF IInv, TypeOK, ListAll, engine, locals, history,
       Ages, OurRuleIds, IdsOf
  <2>3. Control'
    BY <1>0, <1>14 DEF IInv, TypeOK, ListAll, engine, locals, history,
       Control, OurRuleIds, IdsOf
  <2>4. Listing'
    BY <1>0, <1>14 DEF IInv, TypeOK, ListAll, engine, locals, history,
       Listing, OurRuleIds, IdsOf
  <2>5. Progress'
    <3> SUFFICES ASSUME NEW q \in Procs, pc'[q] = "Swap", mark'[q] >= floor',
                        NEW r \in Baseline \ todo'[q]
                 PROVE  FALSE
      BY DEF Progress
    <3>1. /\ pc[q] = "Swap" /\ todo'[q] = todo[q]
          /\ mark[q] >= nextId /\ mark[q] >= floor
      BY <1>0, <1>14 DEF IInv, TypeOK, ListAll, Ages
    <3>2. \E f \in filters : f.id >= nextId
      BY <1>0, <3>1 DEF IInv, Progress, Since, TypeOK
    <3>3. QED
      BY <1>0, <3>2 DEF IInv, Ages, TypeOK
  <2>6. Armed'
    BY <1>0, <1>14 DEF IInv, TypeOK, ListAll, engine, locals, history,
       Armed, Since, OurRuleIds, IdsOf
  <2>7. QED
    BY <1>0, <2>1, <2>2, <2>3, <2>4, <2>5, <2>6 DEF IInv
<1>15. ASSUME NEW p \in Procs, ListAllFails(p)
      PROVE IInv'
  <2>1. Hierarchy' /\ Owners' /\ Progress' /\ Armed'
    BY <1>0, <1>15 DEF IInv, TypeOK, ListAllFails, engine, locals, history,
       Hierarchy, Owners, Progress, Armed, Since
  <2>2. Ages'
    BY <1>0, <1>15 DEF IInv, TypeOK, ListAllFails, engine, locals, history,
       Ages
  <2>3. Control'
    BY <1>0, <1>15 DEF IInv, TypeOK, ListAllFails, engine, locals, history,
       Control
  <2>4. Listing'
    BY <1>0, <1>15 DEF IInv, TypeOK, ListAllFails, engine, locals, history,
       Listing
  <2>5. QED
    BY <1>0, <2>1, <2>2, <2>3, <2>4 DEF IInv
<1>16. ASSUME NEW p \in Procs, PurgeRule(p)
      PROVE IInv'
  <2>0. PICK i \in old[p] :
           /\ old' = [old EXCEPT ![p] = @ \ {i}]
           /\ filters' = {f \in filters : f.id # i} \/ filters' = filters
    BY <1>16 DEF PurgeRule
  <2>0a. i \in Id /\ i < mark[p] /\ mark[p] <= floor
    BY <1>0, <1>16, <2>0 DEF IInv, Ages, TypeOK, PurgeRule
  <2>0b. ASSUME NEW k \in Id, k >= floor, NEW r \in Baseline, Since(r, k)
         PROVE  \E f \in filters' : f.rule = r /\ f.id >= k
    <3>1. mark[p] <= k
      BY <1>0, <2>0a, <2>0b DEF TypeOK
    <3>2. CASE filters' = filters
      BY <2>0b, <3>2 DEF Since
    <3>3. CASE filters' = {f \in filters : f.id # i}
      BY <1>0, <2>0a, <2>0b, <3>1, <3>3, DeletionSafe DEF TypeOK, Since
    <3>4. QED
      BY <2>0, <3>2, <3>3
  <2>1. Hierarchy'
    BY <1>0, <1>16 DEF IInv, TypeOK, PurgeRule, engine, locals, history,
       Hierarchy
  <2>2. Ages'
    BY <1>0, <1>16 DEF IInv, TypeOK, PurgeRule, engine, locals, history,
       Ages
  <2>3. Owners'
    BY <1>0, <1>16 DEF IInv, TypeOK, PurgeRule, engine, locals, history,
       Owners
  <2>4. Control'
    BY <1>0, <1>16 DEF IInv, TypeOK, PurgeRule, engine, locals, history,
       Control
  <2>5. Listing'
    <3>1. /\ filters' \subseteq filters
          /\ \A q \in Procs \ {p} : old'[q] = old[q]
      BY <1>0, <2>0 DEF TypeOK
    <3>2. ret[p] = "none" /\ pc[p] = "Purge"
      BY <1>16 DEF IInv, Control, PurgeRule
    <3>3. QED
      BY <1>16, <3>1, <3>2 DEF IInv, Listing, PurgeRule, history
  <2>6. Progress'
    <3>1. UNCHANGED <<mark, floor, armed, pc, todo>>
      BY <1>16 DEF PurgeRule, history
    <3> SUFFICES ASSUME NEW q \in Procs, pc[q] = "Swap", mark[q] >= floor,
                        NEW r \in Baseline \ todo[q]
                 PROVE  \E f \in filters' : f.rule = r /\ f.id >= mark[q]
      BY <3>1 DEF Progress, Since
    <3>2. Since(r, mark[q])
      BY DEF IInv, Progress
    <3>3. QED
      BY <1>0, <2>0b, <3>2 DEF TypeOK
  <2>7. Armed'
    <3>1. UNCHANGED <<floor, armed>>
      BY <1>16 DEF PurgeRule, history
    <3> SUFFICES ASSUME armed, NEW r \in Baseline
                 PROVE  \E f \in filters' : f.rule = r /\ f.id >= floor
      BY <3>1 DEF Armed, Since
    <3>2. Since(r, floor)
      BY DEF IInv, Armed
    <3>3. QED
      BY <1>0, <2>0b, <3>2 DEF TypeOK
  <2>8. QED
    BY <1>0, <2>1, <2>2, <2>3, <2>4, <2>5, <2>6, <2>7 DEF IInv
<1>17. ASSUME NEW p \in Procs, DropSublayer(p)
      PROVE IInv'
  <2>1. Owners' /\ Listing' /\ Progress' /\ Armed'
    BY <1>0, <1>17 DEF IInv, TypeOK, DropSublayer, engine, locals, history,
       Owners, Listing, Progress, Armed, Since, NotFound
  <2>2. Hierarchy'
    BY <1>0, <1>17 DEF IInv, TypeOK, DropSublayer, engine, locals, history,
       Hierarchy, NotFound
  <2>3. Ages'
    BY <1>0, <1>17 DEF IInv, TypeOK, DropSublayer, engine, locals, history,
       Ages, NotFound
  <2>4. Control'
    BY <1>0, <1>17 DEF IInv, TypeOK, DropSublayer, engine, locals, history,
       Control, NotFound
  <2>5. QED
    BY <1>0, <2>1, <2>2, <2>3, <2>4 DEF IInv
<1>18. ASSUME NEW p \in Procs, DropProvider(p)
      PROVE IInv'
  <2>0. \E e \in BOOLEAN : DisableReturns(p, e)
    BY <1>0, <1>18 DEF DropProvider, TypeOK
  <2>0a. /\ ret' = [ret EXCEPT ![p] = "failed"] \/ ret' = [ret EXCEPT ![p] = "disabled"]
         /\ mark' = [mark EXCEPT ![p] = 0] /\ pc' = [pc EXCEPT ![p] = "idle"]
    BY <2>0 DEF DisableReturns
  <2>1. Owners' /\ Armed'
    BY <1>0, <1>18 DEF IInv, TypeOK, DropProvider, engine, locals, history,
       Owners, Armed, Since, NotFound, DisableReturns
  <2>2. Hierarchy'
    BY <1>0, <1>18 DEF IInv, TypeOK, DropProvider, engine, locals, history,
       Hierarchy, NotFound, DisableReturns
  <2>3. Ages'
    BY <1>0, <1>18, <2>0a DEF IInv, TypeOK, Ages, DropProvider, Control
  <2>4. Control'
    BY <1>0, <1>18, <2>0a DEF IInv, TypeOK, DropProvider, Control
  <2>5. Listing'
    BY <1>0, <1>18, <2>0a DEF IInv, TypeOK, Listing, DropProvider, Control
  <2>6. Progress'
    BY <1>0, <1>18, <2>0a DEF IInv, TypeOK, Progress, Since, DropProvider
  <2>7. QED
    BY <1>0, <2>1, <2>2, <2>3, <2>4, <2>5, <2>6 DEF IInv
<1>19. CASE UNCHANGED vars
  BY <1>0, <1>19 DEF IInv, vars, engine, locals, history, Hierarchy, Ages, Owners,
     Control, Listing, Progress, Armed, Since, TypeOK
<1>20. QED
  BY <1>1, <1>2, <1>3, <1>4, <1>5, <1>6, <1>7, <1>8, <1>9,
     <1>10, <1>11, <1>12, <1>13, <1>14, <1>15, <1>16, <1>17, <1>18, <1>19 DEF Next, ApplyStep, DisableStep

-----------------------------------------------------------------------------
LEMMA IInvInit == Init => IInv
<1> SUFFICES ASSUME Init PROVE IInv
  OBVIOUS
<1>1. TypeOK
  BY TypeInit
<1>2. Hierarchy /\ Owners /\ Listing
  BY DEF Init, Hierarchy, Owners, Listing
<1>3. Ages /\ Control /\ Progress /\ Armed
  BY DEF Init, Ages, Control, Progress, Armed
<1>4. QED
  BY <1>1, <1>2, <1>3 DEF IInv

\* The inductive invariant holds in every reachable state.
THEOREM Inductive == Spec => []IInv
BY IInvInit, IInvStep, PTL DEF Spec

\* From the return of an Apply on, until the next Disable or the end of a
\* soft-mode session, every default-deny rule and every permanent permit is
\* installed, whatever any number of processes do at the same time.
THEOREM NeverFailsOpen == Spec => []NoFailOpenWindow
<1>1. IInv => NoFailOpenWindow
  BY DEF IInv, Armed, Since, NoFailOpenWindow, Installed
<1>2. QED
  BY <1>1, Inductive, PTL

\* A successful Apply leaves no filter older than its own listing.
THEOREM NoLeftovers == Spec => []StaleRulesGone
<1>1. IInv => StaleRulesGone
  <2> SUFFICES ASSUME IInv, NEW p \in Procs, ret[p] = "applied",
                      NEW f \in filters
               PROVE  f.id >= mark[p]
    BY DEF StaleRulesGone
  <2>1. old[p] = {}
    BY DEF IInv, Control
  <2>2. ~(f.id < mark[p])
    BY <2>1 DEF IInv, Listing
  <2>3. f.id \in Nat /\ mark[p] \in Nat
    BY MaxIdAssumption DEF IInv, TypeOK
  <2>4. QED
    BY <2>2, <2>3
<1>2. QED
  BY <1>1, Inductive, PTL

\* Only the last step of Disable reports success, and it is p's own.
LEMMA OnlyDropProviderReports ==
  ASSUME TypeOK, [Next]_vars, NEW p \in Procs,
         ret[p] # "disabled", ret'[p] = "disabled"
  PROVE  DropProvider(p)
<1> USE DEF TypeOK
<1>1. ASSUME NEW q \in Procs, NEW us \in SUBSET Luids, NEW k \in {"static", "dynamic"},
             \/ Open(q, k) \/ EndSession(q) \/ StartApply(q, us) \/ ApplyFails(q)
             \/ StartDisable(q) \/ ListAllFails(q) \/ ApplyReturns(q)
      PROVE  FALSE
  BY <1>1 DEF Open, EndSession, StartApply, ApplyFails, StartDisable, ListAllFails,
     ApplyReturns
<1>2. ASSUME NEW q \in Procs,
             \/ ListProviders(q) \/ AddProvider(q) \/ ListSublayers(q)
             \/ AddSublayer(q) \/ ListRules(q) \/ AddRule(q) \/ DeleteRule(q)
             \/ ListAll(q) \/ PurgeRule(q) \/ DropSublayer(q)
      PROVE  FALSE
  BY <1>2 DEF ListProviders, AddProvider, ListSublayers, AddSublayer, ListRules, AddRule,
     DeleteRule, ListAll, PurgeRule, DropSublayer
<1>3. ASSUME NEW q \in Procs, DropProvider(q)
      PROVE  q = p
  <2>1. PICK e \in BOOLEAN : DisableReturns(q, e)
    BY <1>3 DEF DropProvider
  <2>2. QED
    BY <2>1 DEF DisableReturns
<1>4. ~UNCHANGED vars
  BY DEF vars, locals
<1>5. \A q \in Procs : \A k \in {"static", "dynamic"} : ~Open(q, k)
  BY <1>1
<1>6. \A q \in Procs : \A us \in SUBSET Luids : ~StartApply(q, us)
  BY <1>1
<1>7. \A q \in Procs : ~EndSession(q) /\ ~ApplyFails(q) /\ ~StartDisable(q)
                        /\ ~ListAllFails(q) /\ ~ApplyReturns(q)
  <2>1. {} \in SUBSET Luids /\ "static" \in {"static", "dynamic"}
    OBVIOUS
  <2>2. QED
    BY <1>1, <2>1
<1>8. QED
  BY <1>2, <1>3, <1>4, <1>5, <1>6, <1>7 DEF Next, ApplyStep, DisableStep

\* Disable returns success only at a moment when nothing of ours is left.
THEOREM PanicTellsTruth == Spec => DisableTellsTruth
<1>1. ASSUME IInv, [Next]_vars, NEW p \in Procs,
             ret[p] # "disabled", ret'[p] = "disabled"
      PROVE  filters' = {} /\ ~sublayer' /\ ~provider'
  <2>1. DropProvider(p)
    BY <1>1, OnlyDropProviderReports DEF IInv
  <2>2. UNCHANGED <<filters, sublayer>>
    BY <2>1 DEF DropProvider
  <2>3. CASE provider /\ ~sublayer /\ provider' = FALSE
    BY <1>1, <2>2, <2>3 DEF IInv, Hierarchy
  <2>4. CASE provider /\ UNCHANGED provider /\ DisableReturns(p, TRUE)
    BY <1>1, <2>4 DEF IInv, TypeOK, DisableReturns
  <2>5. CASE ~provider /\ UNCHANGED provider
    BY <1>1, <2>2, <2>5 DEF IInv, Hierarchy
  <2>6. QED
    BY <2>1, <2>3, <2>4, <2>5 DEF DropProvider
<1>2. IInv /\ [Next]_vars
        => [\A p \in Procs :
              (ret[p] # "disabled" /\ ret'[p] = "disabled")
                => filters' = {} /\ ~sublayer' /\ ~provider']_vars
  BY <1>1
<1>3. QED
  BY <1>2, Inductive, PTL DEF Spec, DisableTellsTruth

-----------------------------------------------------------------------------
(***************************************************************************)
(* One process alone (SoleManager): OneProcess and DistinctRules are       *)
(* hypotheses of what follows.                                             *)
(***************************************************************************)
\* The rules the running Apply has found, and those it has added.
Found == {f \in filters : f.id < mark[Sole]}
Added == {f \in filters : ~(f.id < mark[Sole])}

\* goal is a configuration, and todo is what is left of it.
Configured ==
  pc[Sole] \in ApplyPc =>
    /\ goal[Sole] = BuildRules(goal[Sole] \cap Luids)
    /\ todo[Sole] \subseteq goal[Sole]
    /\ pc[Sole] # "Swap" => todo[Sole] = goal[Sole]

\* Before the listing nothing has changed.
Untouched ==
  pc[Sole] \in (ApplyPc \ {"Swap"}) \cup {"ListAll"} => Held(filters) = before

\* Apply adds the rules of its goal, the default denies first, and deletes
\* what it found only when it has added everything.
Swapping ==
  pc[Sole] = "Swap" =>
    /\ Held(Found) \subseteq before
    /\ todo[Sole] # {} => before \subseteq Held(Found)
    /\ \A f \in Added :
         f.owner = OwnerOf(Sole) /\ f.rule \in goal[Sole] \ todo[Sole]
    /\ \A r \in goal[Sole] \ todo[Sole] : \E f \in Added : f.rule = r
    /\ (\E r \in goal[Sole] \ todo[Sole] : r \notin Blocks)
         => todo[Sole] \cap Blocks = {}

\* Disable only deletes.
Purging == pc[Sole] \in {"Purge", "DropProvider"} => Held(filters) \subseteq before

SInv ==
  /\ IInv
  /\ Configured /\ Untouched /\ Swapping /\ Purging /\ OnlyConfiguredRules
-----------------------------------------------------------------------------
\* Init establishes every part.
LEMMA SoleStart == ASSUME OneProcess PROVE SoleInit => SInv
<1> SUFFICES ASSUME SoleInit PROVE SInv
  OBVIOUS
<1>1. IInv
  BY IInvInit DEF SoleInit
<1>2. pc[Sole] = "idle" /\ ret[Sole] = "none" /\ \A p \in Procs : ret[p] = "none"
  BY DEF SoleInit, Init, OneProcess
<1>3. QED
  BY <1>1, <1>2 DEF SInv, Configured, Untouched, Swapping, Purging, OnlyConfiguredRules

\* The process in Procs is Sole.
LEMMA Alone == ASSUME OneProcess PROVE Sole \in Procs /\ \A p \in Procs : p = Sole
  BY DEF OneProcess

\* Every step keeps the invariant.
LEMMA SoleStep ==
  ASSUME OneProcess, DistinctRules PROVE SInv /\ [SoleNext]_soleVars => SInv'
<1> SUFFICES ASSUME SInv, [SoleNext]_soleVars PROVE SInv'
  OBVIOUS
<1> USE Alone DEF Goto
<1> DEFINE Rest == (Configured /\ Untouched /\ Swapping /\ Purging /\ OnlyConfiguredRules)'
<1>0. /\ TypeOK /\ TypeOK' /\ MaxId \in Nat /\ IInv /\ IInv' /\ [Next]_vars
      /\ Configured /\ Untouched /\ Swapping /\ Purging /\ OnlyConfiguredRules
  <2>1. [Next]_vars
    BY DEF SoleNext, soleVars
  <2>2. QED
    BY <2>1, IInvStep, MaxIdAssumption DEF SInv, IInv
<1>00. /\ Control /\ Control' /\ Ages /\ Listing
       /\ mark[Sole] \in Nat /\ nextId \in Nat
  BY <1>0 DEF IInv, TypeOK
<1>1. ASSUME UNCHANGED soleVars PROVE Rest
  BY <1>0, <1>1 DEF soleVars, vars, engine, locals, history, Configured, Untouched,
     Swapping, Purging, OnlyConfiguredRules, Found, Added, OwnerOf, Held
<1>2. ASSUME SoleNext, NEW k \in {"static", "dynamic"}, Open(Sole, k) PROVE Rest
  <2>1. pc'[Sole] = "idle" /\ ret'[Sole] # "applied"
    BY <1>0, <1>00, <1>2 DEF Open, TypeOK, Control
  <2>2. QED
    BY <2>1 DEF Configured, Untouched, Swapping, Purging, OnlyConfiguredRules
<1>3. ASSUME EndSession(Sole) PROVE Rest
  <2>1. pc'[Sole] = "idle" /\ ret'[Sole] # "applied"
    BY <1>0, <1>3 DEF EndSession, TypeOK
  <2>2. QED
    BY <2>1 DEF Configured, Untouched, Swapping, Purging, OnlyConfiguredRules
<1>4. ASSUME ApplyFails(Sole) \/ ListAllFails(Sole) \/ DropProvider(Sole) PROVE Rest
  <2>1. pc'[Sole] = "idle" /\ ret'[Sole] # "applied"
    BY <1>0, <1>4 DEF ApplyFails, ListAllFails, DropProvider, DisableReturns, TypeOK
  <2>2. QED
    BY <2>1 DEF Configured, Untouched, Swapping, Purging, OnlyConfiguredRules
<1>5. ASSUME SoleNext, NEW us \in SUBSET Luids, StartApply(Sole, us) PROVE Rest
  <2>1. /\ pc[Sole] = "idle" /\ pc'[Sole] = "ListProviders" /\ ret'[Sole] = "none"
        /\ goal'[Sole] = BuildRules(us) /\ todo'[Sole] = BuildRules(us)
        /\ filters' = filters
    BY <1>0, <1>5 DEF StartApply, TypeOK, engine
  <2>2. before' = Held(filters)
    BY <2>1, <1>5 DEF SoleNext
  <2>3. BuildRules(us) \cap Luids = us
    BY DEF BuildRules, DistinctRules
  <2>4. Configured'
    BY <2>1, <2>3 DEF Configured
  <2>5. QED
    BY <2>1, <2>2, <2>4 DEF Untouched, Swapping, Purging, OnlyConfiguredRules, Held
<1>6. ASSUME SoleNext, ListProviders(Sole) \/ AddProvider(Sole)
                       \/ ListSublayers(Sole) \/ AddSublayer(Sole)
      PROVE Rest
  <2>1. /\ pc[Sole] \in ApplyPc \ {"Swap"} /\ pc'[Sole] \in ApplyPc \ {"Swap"}
        /\ goal' = goal /\ todo' = todo /\ filters' = filters /\ ret' = ret
    BY <1>0, <1>6 DEF ListProviders, AddProvider, ListSublayers, AddSublayer, TypeOK,
       engine, history
  <2>2. before' = before /\ ret'[Sole] # "applied"
    BY <2>1, <1>00, <1>6 DEF SoleNext, Control
  <2>3. QED
    BY <1>0, <2>1, <2>2 DEF Configured, Untouched, Swapping, Purging,
       OnlyConfiguredRules, Held
<1>7. ASSUME SoleNext, ListRules(Sole) PROVE Rest
  <2>1. /\ pc[Sole] = "ListRules" /\ pc'[Sole] = "Swap" /\ mark'[Sole] = nextId
        /\ goal' = goal /\ todo' = todo /\ filters' = filters /\ ret' = ret
    BY <1>0, <1>7 DEF ListRules, TypeOK, engine
  <2>2. before' = before /\ ret'[Sole] # "applied"
    BY <2>1, <1>00, <1>7 DEF SoleNext, Control
  <2>3. todo[Sole] = goal[Sole] /\ Held(filters) = before
    BY <1>0, <2>1 DEF Configured, Untouched
  <2>4. Found' = filters /\ Added' = {}
    BY <1>00, <2>1 DEF Ages, Found, Added
  <2>5. Swapping'
    BY <2>1, <2>2, <2>3, <2>4 DEF Swapping, Held
  <2>6. QED
    BY <1>0, <2>1, <2>2, <2>5 DEF Configured, Untouched, Purging, OnlyConfiguredRules
<1>8. ASSUME SoleNext, AddRule(Sole) PROVE Rest
  <2>1. PICK r \in todo[Sole] :
          /\ r \in Blocks \/ todo[Sole] \cap Blocks = {}
          /\ filters' = filters \cup {[id |-> nextId, rule |-> r, owner |-> OwnerOf(Sole)]}
          /\ todo' = [todo EXCEPT ![Sole] = @ \ {r}]
    BY <1>8 DEF AddRule
  <2>2. /\ pc[Sole] = "Swap" /\ pc'[Sole] = "Swap" /\ mark' = mark /\ goal' = goal
        /\ sess' = sess /\ ret' = ret /\ todo'[Sole] = todo[Sole] \ {r}
    BY <1>0, <1>8, <2>1 DEF AddRule, TypeOK, history
  <2>3. before' = before /\ ret'[Sole] # "applied"
    BY <2>2, <1>00, <1>8 DEF SoleNext, Control
  <2> DEFINE new == [id |-> nextId, rule |-> r, owner |-> OwnerOf(Sole)]
  <2>4. Found' = Found /\ Added' = Added \cup {new}
    BY <1>00, <2>1, <2>2 DEF Ages, Found, Added
  <2>5. OwnerOf(Sole)' = OwnerOf(Sole)
    BY <2>2 DEF OwnerOf
  <2>6. /\ Held(Found) \subseteq before
        /\ before \subseteq Held(Found)
        /\ \A f \in Added :
             f.owner = OwnerOf(Sole) /\ f.rule \in goal[Sole] \ todo[Sole]
        /\ \A x \in goal[Sole] \ todo[Sole] : \E f \in Added : f.rule = x
        /\ (\E x \in goal[Sole] \ todo[Sole] : x \notin Blocks)
             => todo[Sole] \cap Blocks = {}
    BY <1>0, <2>2 DEF Swapping
  <2>7. r \in goal[Sole]
    BY <1>0, <2>2 DEF Configured
  <2>8. /\ Held(Found)' \subseteq before' /\ before' \subseteq Held(Found)'
    BY <2>3, <2>4, <2>6 DEF Held
  <2>9. \A f \in Added' :
          f.owner = OwnerOf(Sole)' /\ f.rule \in goal'[Sole] \ todo'[Sole]
    BY <2>2, <2>4, <2>5, <2>6, <2>7
  <2>10. \A x \in goal'[Sole] \ todo'[Sole] : \E f \in Added' : f.rule = x
    <3>1. new \in Added' /\ new.rule = r
      BY <2>4
    <3>2. \A x \in goal[Sole] \ todo[Sole] : \E f \in Added' : f.rule = x
      BY <2>4, <2>6
    <3>3. goal'[Sole] \ todo'[Sole] \subseteq (goal[Sole] \ todo[Sole]) \cup {r}
      BY <2>2
    <3>4. QED
      BY <3>1, <3>2, <3>3
  <2>11. (\E x \in goal'[Sole] \ todo'[Sole] : x \notin Blocks)
           => todo'[Sole] \cap Blocks = {}
    BY <2>1, <2>2, <2>6
  <2>12. Swapping'
    BY <2>8, <2>9, <2>10, <2>11 DEF Swapping
  <2>13. QED
    BY <1>0, <2>2, <2>3, <2>12 DEF Configured, Untouched, Purging, OnlyConfiguredRules
<1>9. ASSUME SoleNext, DeleteRule(Sole) PROVE Rest
  <2>1. PICK i \in old[Sole] : filters' = {f \in filters : f.id # i}
    BY <1>9 DEF DeleteRule
  <2>2. /\ pc[Sole] = "Swap" /\ pc'[Sole] = "Swap" /\ mark' = mark /\ goal' = goal
        /\ sess' = sess /\ ret' = ret /\ todo' = todo /\ todo[Sole] = {}
    BY <1>0, <1>9 DEF DeleteRule, TypeOK, history
  <2>3. before' = before /\ ret'[Sole] # "applied"
    BY <2>2, <1>00, <1>9 DEF SoleNext, Control
  <2>4. i < mark[Sole]
    BY <1>00, <2>1 DEF Ages
  <2>5. Found' \subseteq Found /\ Added' = Added
    BY <2>1, <2>2, <2>4 DEF Found, Added
  <2>6. Held(Found)' \subseteq Held(Found)
    BY <2>5 DEF Held
  <2>7. OwnerOf(Sole)' = OwnerOf(Sole)
    BY <2>2 DEF OwnerOf
  <2>8. Swapping'
    BY <1>0, <2>2, <2>3, <2>5, <2>6, <2>7 DEF Swapping
  <2>9. QED
    BY <1>0, <2>2, <2>3, <2>8 DEF Configured, Untouched, Purging, OnlyConfiguredRules
<1>10. ASSUME SoleNext, ApplyReturns(Sole) PROVE Rest
  <2>1. /\ pc[Sole] = "Swap" /\ todo[Sole] = {} /\ old[Sole] = {}
        /\ pc'[Sole] = "idle" /\ filters' = filters /\ goal' = goal
    BY <1>0, <1>10 DEF ApplyReturns, TypeOK, engine
  <2>2. Added = filters
    BY <1>00, <2>1 DEF Listing, Added
  <2>3. {f.rule : f \in filters} = goal[Sole]
    BY <1>0, <2>1, <2>2 DEF Swapping
  <2>4. OnlyConfiguredRules'
    BY <2>1, <2>3 DEF OnlyConfiguredRules
  <2>5. QED
    BY <2>1, <2>4 DEF Configured, Untouched, Swapping, Purging
<1>11. ASSUME SoleNext, StartDisable(Sole) PROVE Rest
  <2>1. /\ pc[Sole] = "idle" /\ pc'[Sole] = "ListAll" /\ ret'[Sole] = "none"
        /\ filters' = filters
    BY <1>0, <1>11 DEF StartDisable, TypeOK, engine
  <2>2. before' = Held(filters)
    BY <2>1, <1>11 DEF SoleNext
  <2>3. QED
    BY <2>1, <2>2 DEF Configured, Untouched, Swapping, Purging, OnlyConfiguredRules, Held
<1>12. ASSUME SoleNext, ListAll(Sole) \/ PurgeRule(Sole) \/ DropSublayer(Sole) PROVE Rest
  <2>1. /\ pc[Sole] \in {"ListAll", "Purge"} /\ pc'[Sole] \in {"Purge", "DropProvider"}
        /\ filters' \subseteq filters /\ ret' = ret
    BY <1>0, <1>12 DEF ListAll, PurgeRule, DropSublayer, TypeOK, engine
  <2>2. before' = before /\ ret'[Sole] # "applied"
    BY <2>1, <1>00, <1>12 DEF SoleNext, Control
  <2>3. Held(filters)' \subseteq before
    BY <1>0, <2>1 DEF Untouched, Purging, Held
  <2>4. QED
    BY <2>1, <2>2, <2>3 DEF Configured, Untouched, Swapping, Purging, OnlyConfiguredRules
<1>13. Rest
  BY <1>1, <1>2, <1>3, <1>4, <1>5, <1>6, <1>7, <1>8, <1>9, <1>10, <1>11, <1>12
     DEF SoleNext, Next, ApplyStep, DisableStep
<1>14. QED
  BY <1>0, <1>13 DEF SInv
-----------------------------------------------------------------------------
(***************************************************************************)
(* What the engine holds during a call is what the call may leave when it  *)
(* fails there.                                                            *)
(***************************************************************************)
LEMMA Owned ==
  ASSUME OneProcess, SInv
  PROVE  /\ \A f \in filters : f.owner \in {Sole, "persistent"}
         /\ Sole # "persistent"
         /\ OwnerOf(Sole) = "persistent" <=> sess[Sole] # "dynamic"
         /\ E!Keeps(sess[Sole]) \in BOOLEAN
         /\ E!Keeps(sess[Sole]) <=> sess[Sole] # "dynamic"
  BY Alone, ProcsAssumption DEF OneProcess, SInv, IInv, TypeOK, OwnerOf, E!Keeps

\* The rules added are of the new configuration, the default denies first.
LEMMA AddedRules ==
  ASSUME OneProcess, SInv, pc[Sole] = "Swap"
  PROVE  Held(Added) \in E!Partial(goal[Sole] \cap Luids, E!Keeps(sess[Sole]))
<1> DEFINE us == goal[Sole] \cap Luids
           keep == E!Keeps(sess[Sole])
           done == goal[Sole] \ todo[Sole]
<1>1. /\ \A f \in Added : f.owner = OwnerOf(Sole) /\ f.rule \in done
      /\ \A r \in done : \E f \in Added : f.rule = r
      /\ (\E r \in done : r \notin Blocks) => todo[Sole] \cap Blocks = {}
      /\ goal[Sole] = BuildRules(us)
  BY DEF SInv, Swapping, Configured
<1>2. \A f \in Added : (f.owner = "persistent") = keep
  BY <1>1, Owned
<1>3. Held(Added) = {<<r, keep>> : r \in done}
  BY <1>1, <1>2 DEF Held
<1>4. E!BuildRules(us) = goal[Sole] /\ Blocks \subseteq goal[Sole]
  BY <1>1 DEF BuildRules, E!BuildRules
<1>5. {<<r, keep>> : r \in done} \in SUBSET E!New(us, keep)
  BY <1>4 DEF E!New
<1>6. ASSUME NEW r \in E!Rule \ Blocks, <<r, keep>> \in {<<x, keep>> : x \in done}
      PROVE  \A b \in Blocks : <<b, keep>> \in {<<x, keep>> : x \in done}
  <2>1. r \in done
    BY <1>6
  <2>2. Blocks \subseteq done
    BY <1>1, <1>4, <2>1
  <2>3. QED
    BY <2>2
<1>7. QED
  BY <1>3, <1>5, <1>6 DEF E!Partial

LEMMA Reached ==
  ASSUME OneProcess, SInv, pc[Sole] # "idle"
  PROVE  Held(filters) \in E!Unfinished(before, Call, E!Keeps(sess[Sole]))
<1> DEFINE us == goal[Sole] \cap Luids
           keep == E!Keeps(sess[Sole])
<1>1. pc[Sole] \in ApplyPc \cup DisablePc
  BY Alone DEF SInv, IInv, TypeOK
<1>2. CASE pc[Sole] \in DisablePc
  <2>1. Held(filters) \subseteq before
    BY <1>2 DEF SInv, Untouched, Purging
  <2>2. Call = [op |-> "disable", adapters |-> {}]
    BY <1>2 DEF Call
  <2>3. QED
    BY <2>1, <2>2 DEF E!Unfinished, E!DisableFailed
<1>3. CASE pc[Sole] \in ApplyPc
  <2>1. Call = [op |-> "apply", adapters |-> us]
    BY <1>3 DEF Call
  <2>2. SUFFICES Held(filters) \in E!ApplyFailed(before, us, keep)
    BY <2>1 DEF E!Unfinished
  <2>3. CASE pc[Sole] # "Swap"
    <3>1. Held(filters) = before \cup {}
      BY <1>3, <2>3 DEF SInv, Untouched
    <3>2. {} \in E!Partial(us, keep)
      BY DEF E!Partial
    <3>3. QED
      BY <3>1, <3>2 DEF E!ApplyFailed
  <2>4. CASE pc[Sole] = "Swap" /\ todo[Sole] # {}
    <3>1. Held(Found) = before
      BY <2>4 DEF SInv, Swapping
    <3>2. Held(filters) = Held(Found) \cup Held(Added)
      BY DEF Held, Found, Added
    <3>3. Held(Added) \in E!Partial(us, keep)
      BY <2>4, AddedRules
    <3>4. QED
      BY <3>1, <3>2, <3>3 DEF E!ApplyFailed
  <2>5. CASE pc[Sole] = "Swap" /\ todo[Sole] = {}
    <3>1. Held(Found) \in SUBSET before
      BY <2>5 DEF SInv, Swapping
    <3>2. Held(filters) = Held(Added) \cup Held(Found)
      BY DEF Held, Found, Added
    <3>3. /\ \A f \in Added : f.owner = OwnerOf(Sole) /\ f.rule \in goal[Sole]
          /\ \A r \in goal[Sole] : \E f \in Added : f.rule = r
          /\ goal[Sole] = BuildRules(us)
      BY <2>5 DEF SInv, Swapping, Configured
    <3>4. \A f \in Added : (f.owner = "persistent") = keep
      BY <3>3, Owned
    <3>5. Held(Added) = {<<r, keep>> : r \in goal[Sole]}
      BY <3>3, <3>4 DEF Held
    <3>6. Held(Added) = E!New(us, keep)
      BY <3>3, <3>5 DEF BuildRules, E!BuildRules, E!New
    <3>7. QED
      BY <3>1, <3>2, <3>6 DEF E!ApplyFailed
  <2>6. QED
    BY <2>3, <2>4, <2>5
<1>4. QED
  BY <1>1, <1>2, <1>3
-----------------------------------------------------------------------------
(***************************************************************************)
(* The refinement: every step is a step of Engine or leaves it alone.      *)
(***************************************************************************)
\* Calls that only go on with the operation leave Engine alone.
LEMMA Stutters ==
  ASSUME SoleNext, SInv, pc[Sole] # "idle", pc'[Sole] # "idle",
         UNCHANGED <<sess, ret>>, goal'[Sole] = goal[Sole],
         pc[Sole] \in ApplyPc <=> pc'[Sole] \in ApplyPc,
         pc[Sole] \in DisablePc <=> pc'[Sole] \in DisablePc
  PROVE  UNCHANGED E!vars
  BY DEF SoleNext, E!vars, Call, Rules

LEMMA Maps ==
  ASSUME OneProcess, DistinctRules PROVE SInv /\ [SoleNext]_soleVars => [E!Next]_(E!vars)
<1> SUFFICES ASSUME SInv, [SoleNext]_soleVars PROVE [E!Next]_(E!vars)
  OBVIOUS
<1> USE Alone DEF Goto
<1>0. /\ TypeOK /\ Control /\ IInv
      /\ sess[Sole] \in Session /\ pc[Sole] \in Pc
  BY DEF SInv, IInv, TypeOK
<1>1. CASE UNCHANGED soleVars
  BY <1>1 DEF soleVars, vars, engine, locals, history, E!vars, Call, Rules
<1>2. ASSUME NEW k \in {"static", "dynamic"}, Open(Sole, k) PROVE E!Next
  <2>1. /\ sess[Sole] = "closed" /\ sess'[Sole] = k /\ pc' = pc /\ ret' = ret
        /\ goal' = goal /\ filters' = filters
    BY <1>0, <1>2 DEF Open, TypeOK, engine, history
  <2>2. pc[Sole] = "idle"
    BY <1>0, <2>1 DEF Control
  <2>3. E!Open(k)
    BY <2>1, <2>2 DEF E!Open, Call, Rules, Held
  <2>4. QED
    BY <2>3 DEF E!Next
<1>3. ASSUME SoleNext, EndSession(Sole) PROVE E!Next
  <2>1. /\ sess[Sole] # "closed" /\ sess'[Sole] = "closed" /\ pc'[Sole] = "idle"
        /\ ret'[Sole] = "none" /\ filters' = Survivors(Sole)
    BY <1>0, <1>3 DEF EndSession, TypeOK
  <2>2. Held(filters) \in E!Unfinished(Rules, Call, E!Keeps(sess[Sole]))
    <3>1. CASE pc[Sole] = "idle"
      BY <3>1 DEF E!Unfinished, Rules, Call
    <3>2. CASE pc[Sole] # "idle"
      BY <3>2, Reached DEF Rules
    <3>3. QED
      BY <3>1, <3>2
  <2>3. Held(filters)' = E!Persistent(Held(filters))
    <3>1. Survivors(Sole) = {f \in filters : f.owner = "persistent"}
      BY Owned DEF Survivors
    <3>2. Held(filters)' = {<<f.rule, TRUE>> : f \in Survivors(Sole)}
      BY <2>1, <3>1 DEF Held
    <3>3. ASSUME NEW x \in E!Persistent(Held(filters))
          PROVE  x \in {<<f.rule, TRUE>> : f \in Survivors(Sole)}
      <4>1. PICK f \in filters : x = <<f.rule, f.owner = "persistent">>
        BY <3>3 DEF Held, E!Persistent
      <4>2. x[2] /\ x[2] = (f.owner = "persistent")
        BY <3>3, <4>1 DEF E!Persistent
      <4>3. f \in Survivors(Sole) /\ (f.owner = "persistent") = TRUE
        BY <3>1, <4>2
      <4>4. QED
        BY <4>1, <4>3
    <3>4. ASSUME NEW f \in Survivors(Sole)
          PROVE  <<f.rule, TRUE>> \in E!Persistent(Held(filters))
      <4>1. f \in filters /\ (f.owner = "persistent") = TRUE
        BY <3>1
      <4>2. <<f.rule, f.owner = "persistent">> \in Held(filters)
        BY <4>1 DEF Held
      <4>3. QED
        BY <4>1, <4>2 DEF E!Persistent
    <3>5. QED
      BY <3>2, <3>3, <3>4
  <2>4. Rules' = Held(filters)' /\ Call' = E!Idle
    BY <2>1 DEF Rules, Call, E!Idle
  <2>5. E!End
    BY <2>1, <2>2, <2>3, <2>4 DEF E!End
  <2>6. QED
    BY <2>5 DEF E!Next
<1>4. ASSUME SoleNext, ApplyFails(Sole) \/ ListAllFails(Sole) PROVE E!Next
  <2>1. /\ pc[Sole] # "idle" /\ pc'[Sole] = "idle" /\ ret'[Sole] = "failed"
        /\ filters' = filters /\ sess' = sess
    BY <1>0, <1>4 DEF ApplyFails, ListAllFails, TypeOK, engine
  <2>2. Rules' = Held(filters) /\ Rules = before
    BY <2>1 DEF Rules, Held
  <2>3. Call # E!Idle /\ Call' = E!Idle
    BY <1>0, <2>1 DEF Call, E!Idle
  <2>4. E!CallFails
    BY <2>1, <2>2, <2>3, Reached DEF E!CallFails
  <2>5. QED
    BY <2>4 DEF E!Next
<1>5. ASSUME SoleNext, NEW us \in SUBSET Luids, StartApply(Sole, us) PROVE E!Next
  <2>1. /\ pc[Sole] = "idle" /\ pc'[Sole] = "ListProviders" /\ ret'[Sole] = "none"
        /\ goal'[Sole] = BuildRules(us) /\ sess' = sess /\ sess[Sole] # "closed"
    BY <1>0, <1>5 DEF StartApply, TypeOK, engine
  <2>2. before' = Held(filters)
    BY <2>1, <1>5 DEF SoleNext
  <2>3. BuildRules(us) \cap Luids = us
    BY DEF BuildRules, DistinctRules
  <2> DEFINE c == [op |-> "apply", adapters |-> us]
  <2>4. Call = E!Idle /\ Call' = c /\ Rules' = Rules /\ c # E!Idle /\ c \in E!Calls
    BY <2>1, <2>2, <2>3 DEF Call, Rules, E!Idle, E!Calls
  <2>5. E!Begin(c)
    BY <2>1, <2>4 DEF E!Begin
  <2>6. QED
    BY <2>4, <2>5 DEF E!Next
<1>6. ASSUME SoleNext, StartDisable(Sole) PROVE E!Next
  <2>1. /\ pc[Sole] = "idle" /\ pc'[Sole] = "ListAll" /\ ret'[Sole] = "none"
        /\ sess' = sess /\ sess[Sole] # "closed"
    BY <1>0, <1>6 DEF StartDisable, TypeOK, engine
  <2>2. before' = Held(filters)
    BY <2>1, <1>6 DEF SoleNext
  <2> DEFINE c == [op |-> "disable", adapters |-> {}]
  <2>3. Call = E!Idle /\ Call' = c /\ Rules' = Rules /\ c # E!Idle /\ c \in E!Calls
    BY <2>1, <2>2 DEF Call, Rules, E!Idle, E!Calls
  <2>4. E!Begin(c)
    BY <2>1, <2>3 DEF E!Begin
  <2>5. QED
    BY <2>3, <2>4 DEF E!Next
<1>7. ASSUME SoleNext,
             \/ ListProviders(Sole) \/ AddProvider(Sole) \/ ListSublayers(Sole)
             \/ AddSublayer(Sole) \/ ListRules(Sole) \/ AddRule(Sole)
             \/ DeleteRule(Sole)
      PROVE UNCHANGED E!vars
  <2>1. /\ pc[Sole] \in ApplyPc /\ pc'[Sole] \in ApplyPc /\ goal' = goal
        /\ UNCHANGED <<sess, ret>>
    BY <1>0, <1>7 DEF ListProviders, AddProvider, ListSublayers, AddSublayer, ListRules,
       AddRule, DeleteRule, TypeOK, engine, history
  <2>2. QED
    BY <1>7, <2>1, Stutters
<1>8. ASSUME SoleNext, ListAll(Sole) \/ PurgeRule(Sole) \/ DropSublayer(Sole)
      PROVE UNCHANGED E!vars
  <2>1. /\ pc[Sole] \in DisablePc /\ pc'[Sole] \in DisablePc /\ goal' = goal
        /\ UNCHANGED <<sess, ret>>
    BY <1>0, <1>8 DEF ListAll, PurgeRule, DropSublayer, TypeOK, engine, history
  <2>2. QED
    BY <1>8, <2>1, Stutters
<1>9. ASSUME SoleNext, ApplyReturns(Sole) PROVE E!Next
  <2>1. /\ pc[Sole] = "Swap" /\ todo[Sole] = {} /\ old[Sole] = {}
        /\ pc'[Sole] = "idle" /\ filters' = filters /\ sess' = sess
        /\ ret'[Sole] = "applied"
    BY <1>0, <1>9 DEF ApplyReturns, TypeOK, engine
  <2> DEFINE us == goal[Sole] \cap Luids
             keep == E!Keeps(sess[Sole])
  <2>2. Added = filters
    BY <1>0, <2>1 DEF IInv, Listing, Added
  <2>3. /\ \A f \in filters : f.owner = OwnerOf(Sole) /\ f.rule \in goal[Sole]
        /\ \A r \in goal[Sole] : \E f \in filters : f.rule = r
        /\ goal[Sole] = BuildRules(us)
    BY <2>1, <2>2 DEF SInv, Swapping, Configured
  <2>4. \A f \in filters : (f.owner = "persistent") = keep
    BY <2>3, Owned
  <2>5. Held(filters) = {<<r, keep>> : r \in goal[Sole]}
    BY <2>3, <2>4 DEF Held
  <2>6. Held(filters) = E!New(us, keep)
    BY <2>3, <2>5 DEF BuildRules, E!BuildRules, E!New
  <2>7. /\ Call = [op |-> "apply", adapters |-> us] /\ Call' = E!Idle
        /\ Rules' = Held(filters)
    BY <2>1 DEF Call, E!Idle, Rules, Held
  <2>8. E!ApplySucceeds
    BY <2>1, <2>6, <2>7 DEF E!ApplySucceeds
  <2>9. QED
    BY <2>8 DEF E!Next
<1>10. ASSUME SoleNext, DropProvider(Sole) PROVE E!Next
  <2>1. PICK e \in BOOLEAN : DisableReturns(Sole, e)
    <3>1. err[Sole] \in BOOLEAN
      BY <1>0 DEF TypeOK
    <3>2. QED
      BY <1>10, <3>1 DEF DropProvider
  <2>2. /\ pc[Sole] = "DropProvider" /\ pc'[Sole] = "idle"
        /\ ret'[Sole] = IF e THEN "failed" ELSE "disabled"
        /\ filters' = filters /\ sess' = sess
    BY <1>0, <1>10, <2>1 DEF DropProvider, DisableReturns, TypeOK
  <2>3. /\ Call = [op |-> "disable", adapters |-> {}] /\ Call' = E!Idle
        /\ Call # E!Idle /\ Rules = before /\ Rules' = Held(filters)
    BY <2>2 DEF Call, E!Idle, Rules, Held
  <2>4. CASE e
    <3>1. E!CallFails
      BY <2>2, <2>3, <2>4, Reached DEF E!CallFails
    <3>2. QED
      BY <3>1 DEF E!Next
  <2>5. CASE ~e
    <3>1. filters = {}
      <4>1. CASE provider /\ ~sublayer
        BY <1>0, <4>1 DEF IInv, Hierarchy
      <4>2. CASE ~provider
        BY <1>0, <4>2 DEF IInv, Hierarchy
      <4>3. CASE provider /\ DisableReturns(Sole, TRUE)
        BY <1>0, <2>2, <2>5, <4>3 DEF DisableReturns, TypeOK
      <4>4. QED
        BY <1>10, <4>1, <4>2, <4>3 DEF DropProvider
    <3>2. E!DisableSucceeds
      BY <2>2, <2>3, <2>5, <3>1 DEF E!DisableSucceeds, Held
    <3>3. QED
      BY <3>2 DEF E!Next
  <2>6. QED
    BY <2>4, <2>5
<1>11. QED
  BY <1>1, <1>2, <1>3, <1>4, <1>5, <1>6, <1>7, <1>8, <1>9, <1>10
     DEF SoleNext, Next, ApplyStep, DisableStep

\* The initial state is one of Engine.
LEMMA MapsInit == ASSUME OneProcess PROVE SoleInit => E!Init
  BY Alone DEF SoleInit, Init, E!Init, E!Idle, Call, Rules, Held

\* One process alone: Apply and Disable, call by call, failing or dying at any
\* of them, come to what Engine says of one step.
THEOREM Implements ==
  ASSUME OneProcess, DistinctRules PROVE SoleSpec => KeepsPromise
<1>1. /\ SoleInit => SInv /\ E!Init
      /\ SInv /\ [SoleNext]_soleVars => SInv' /\ [E!Next]_(E!vars)
  BY SoleStart, SoleStep, MapsInit, Maps
<1>2. QED
  BY <1>1, PTL DEF SoleSpec, KeepsPromise, E!Spec

\* One process alone: a successful Apply leaves the rules of its configuration
\* and no other.
THEOREM LeavesItsRules ==
  ASSUME OneProcess, DistinctRules PROVE SoleSpec => []OnlyConfiguredRules
<1>1. /\ SoleInit => SInv
      /\ SInv /\ [SoleNext]_soleVars => SInv'
      /\ SInv => OnlyConfiguredRules
  BY SoleStart, SoleStep DEF SInv
<1>2. QED
  BY <1>1, PTL DEF SoleSpec
=============================================================================
