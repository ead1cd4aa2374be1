------------------------- MODULE ResolveCacheProofs -------------------------
(***************************************************************************)
(* The resolve cache, for any processes, hosts, answers and .ovpn files.   *)
(***************************************************************************)
EXTENDS ResolveCache, TLAPS

\* What DNS has answered in a call is in its map, and will be saved.
Recorded ==
  \A p \in Procs, h \in Hosts :
    (pc[p] # "idle" /\ fresh[p][h] # None) => cache[p][h] = fresh[p][h] /\ changed[p]

\* Undisturbed calls come one at a time, and only the one that writes finds the
\* file truncated.
OneAtATime ==
  ~disturbed =>
    \A p \in Procs :
      pc[p] # "idle" =>
        /\ \A q \in Procs \ {p} : pc[q] = "idle"
        /\ pc[p] = "write" => file = None

\* Undisturbed, the file serves except while it is being written, and the map of
\* a running call serves what the call has not looked up itself.
Serves ==
  ~disturbed =>
    \A h \in Hosts : latest[h] # None =>
      /\ (\A p \in Procs : pc[p] # "write") => file # None /\ file[h] = latest[h]
      /\ \A p \in Procs :
           (pc[p] # "idle" /\ fresh[p][h] = None) => cache[p][h] = latest[h]

IInv == TypeOK /\ Recorded /\ OneAtATime /\ Serves

USE DEF Cache

-----------------------------------------------------------------------------
(***************************************************************************)
(* The inductive invariant holds at first and is preserved.                *)
(***************************************************************************)
LEMMA NoneIsNoValue == None \notin Answers /\ None \notin Cache
BY NoneAssumption

LEMMA InitIInv == Init => IInv
<1> SUFFICES ASSUME Init PROVE IInv
  OBVIOUS
<1>1. TypeOK
  <2>1. Empty \in Cache /\ <<>> \in Seq(Hosts)
    BY DEF Empty
  <2> QED
    BY <2>1 DEF Init, TypeOK
<1>2. Recorded /\ OneAtATime /\ Serves
  BY DEF Init, Recorded, OneAtATime, Serves, Empty
<1> QED
  BY <1>1, <1>2 DEF IInv

LEMMA HeadAndTail ==
  ASSUME TypeOK, NEW p \in Procs, todo[p] # <<>>
  PROVE  Head(todo[p]) \in Hosts /\ Tail(todo[p]) \in Seq(Hosts)
BY DEF TypeOK

LEMMA TypeStep == TypeOK /\ [Next]_vars => TypeOK'
<1> SUFFICES ASSUME TypeOK, [Next]_vars PROVE TypeOK'
  OBVIOUS
<1> USE DEF TypeOK
<1>1. ASSUME NEW p \in Procs, StartResolve(p) PROVE TypeOK'
  <2>1. LoadCache \in Cache
    BY DEF LoadCache, Empty
  <2>2. Empty \in Cache
    BY DEF Empty
  <2>3. disturbed' \in BOOLEAN
    BY <1>1 DEF StartResolve
  <2>4. todo' \in [Procs -> Seq(Hosts)]
    BY <1>1, RemotesAssumption DEF StartResolve
  <2> QED
    BY <1>1, <2>1, <2>2, <2>3, <2>4 DEF StartResolve
<1>2. ASSUME NEW p \in Procs, LookupAnswers(p) PROVE TypeOK'
  <2>1. Head(todo[p]) \in Hosts /\ Tail(todo[p]) \in Seq(Hosts)
    BY <1>2, HeadAndTail DEF LookupAnswers
  <2> QED
    BY <1>2, <2>1 DEF LookupAnswers
<1>3. ASSUME NEW p \in Procs, LookupFails(p) PROVE TypeOK'
  <2>1. Head(todo[p]) \in Hosts /\ Tail(todo[p]) \in Seq(Hosts)
    BY <1>3, HeadAndTail DEF LookupFails
  <2>2. CASE cache[p][Head(todo[p])] # None
    BY <1>3, <2>1, <2>2 DEF LookupFails, history
  <2>3. CASE cache[p][Head(todo[p])] = None
    <3>1. <<>> \in Seq(Hosts)
      OBVIOUS
    <3>2. todo' = [todo EXCEPT ![p] = <<>>] /\ pc' = [pc EXCEPT ![p] = "idle"]
      BY <1>3, <2>3 DEF LookupFails
    <3>3. todo' \in [Procs -> Seq(Hosts)]
      BY <3>1, <3>2
    <3>4. \A q \in Procs : pc'[q] # "lookup" => todo'[q] = <<>>
      BY <3>2
    <3> QED
      BY <1>3, <2>3, <3>2, <3>3, <3>4 DEF LookupFails, history
  <2> QED
    BY <2>2, <2>3
<1>4. ASSUME NEW p \in Procs, LookupsDone(p) PROVE TypeOK'
  <2>1. Latest(p) \in Cache
    BY DEF Latest
  <2>2. CASE changed[p]
    BY <1>4, <2>2 DEF LookupsDone
  <2>3. CASE ~changed[p]
    BY <1>4, <2>1, <2>3 DEF LookupsDone, Returns
  <2> QED
    BY <2>2, <2>3
<1>5. ASSUME NEW p \in Procs, Truncate(p) PROVE TypeOK'
  BY <1>5 DEF Truncate, history
<1>6. ASSUME NEW p \in Procs, Write(p) PROVE TypeOK'
  BY <1>6 DEF Write, Returns, Latest
<1>7. ASSUME NEW p \in Procs, Crash(p) PROVE TypeOK'
  BY <1>7 DEF Crash
<1>8. CASE UNCHANGED vars
  BY <1>8 DEF vars, locals, history
<1> QED
  BY <1>1, <1>2, <1>3, <1>4, <1>5, <1>6, <1>7, <1>8 DEF Next

LEMMA RecordedStep == TypeOK /\ Recorded /\ [Next]_vars => Recorded'
<1> SUFFICES ASSUME TypeOK, Recorded, [Next]_vars PROVE Recorded'
  OBVIOUS
<1> USE DEF TypeOK, Recorded
<1>1. ASSUME NEW p \in Procs, StartResolve(p) PROVE Recorded'
  BY <1>1 DEF StartResolve, Empty
<1>2. ASSUME NEW p \in Procs, LookupAnswers(p) PROVE Recorded'
  <2>1. Head(todo[p]) \in Hosts
    BY <1>2, HeadAndTail DEF LookupAnswers
  <2> QED
    BY <1>2, <2>1 DEF LookupAnswers
<1>3. ASSUME NEW p \in Procs, LookupFails(p) \/ Truncate(p) \/ Crash(p) PROVE Recorded'
  BY <1>3 DEF LookupFails, Truncate, Crash, history
<1>4. ASSUME NEW p \in Procs, LookupsDone(p) \/ Write(p) PROVE Recorded'
  BY <1>4 DEF LookupsDone, Write, Returns
<1>5. CASE UNCHANGED vars
  BY <1>5 DEF vars, locals, history
<1> QED
  BY <1>1, <1>2, <1>3, <1>4, <1>5 DEF Next

LEMMA OneAtATimeStep == TypeOK /\ OneAtATime /\ [Next]_vars => OneAtATime'
<1> SUFFICES ASSUME TypeOK, OneAtATime, [Next]_vars PROVE OneAtATime'
  OBVIOUS
<1> USE DEF TypeOK, OneAtATime
<1>1. ASSUME NEW p \in Procs, StartResolve(p) PROVE OneAtATime'
  BY <1>1 DEF StartResolve, Overlaps
<1>2. ASSUME NEW p \in Procs, LookupAnswers(p) \/ LookupFails(p) PROVE OneAtATime'
  BY <1>2 DEF LookupAnswers, LookupFails, history
<1>3. ASSUME NEW p \in Procs, LookupsDone(p) \/ Write(p) PROVE OneAtATime'
  BY <1>3 DEF LookupsDone, Write, Returns
<1>4. ASSUME NEW p \in Procs, Truncate(p) \/ Crash(p) PROVE OneAtATime'
  BY <1>4 DEF Truncate, Crash, history
<1>5. CASE UNCHANGED vars
  BY <1>5 DEF vars, locals, history
<1> QED
  BY <1>1, <1>2, <1>3, <1>4, <1>5 DEF Next

\* A call starts from the file, adds answers only, and saves the whole map; it
\* returns without saving only when it has no answer of its own.
LEMMA ServesStep == IInv /\ [Next]_vars => Serves'
<1> SUFFICES ASSUME IInv, [Next]_vars PROVE Serves'
  OBVIOUS
<1> USE NoneIsNoValue DEF IInv, TypeOK, OneAtATime, Serves
<1>1. ASSUME NEW p \in Procs, StartResolve(p) PROVE Serves'
  BY <1>1 DEF StartResolve, Overlaps, LoadCache
<1>2. ASSUME NEW p \in Procs, LookupAnswers(p) PROVE Serves'
  <2>1. Head(todo[p]) \in Hosts
    BY <1>2, HeadAndTail DEF LookupAnswers
  <2> QED
    BY <1>2, <2>1 DEF LookupAnswers
<1>3. ASSUME NEW p \in Procs, LookupFails(p) PROVE Serves'
  BY <1>3 DEF LookupFails, history
<1>4. ASSUME NEW p \in Procs, LookupsDone(p) PROVE Serves'
  <2>1. CASE changed[p]
    BY <1>4, <2>1 DEF LookupsDone
  <2>2. CASE ~changed[p]
    <3>1. \A h \in Hosts : fresh[p][h] = None
      BY <1>4, <2>2 DEF LookupsDone, Recorded
    <3>2. latest' = latest
      BY <1>4, <2>2, <3>1 DEF LookupsDone, Returns, Latest
    <3> QED
      BY <1>4, <2>2, <3>2 DEF LookupsDone, Returns
  <2> QED
    BY <2>1, <2>2
<1>5. ASSUME NEW p \in Procs, Truncate(p) PROVE Serves'
  BY <1>5 DEF Truncate, history
<1>6. ASSUME NEW p \in Procs, Write(p), ~disturbed PROVE Serves'
  <2>1. file' = cache[p] /\ file' # None
    BY <1>6 DEF Write
  <2>2. \A h \in Hosts : latest'[h] # None => file'[h] = latest'[h]
    BY <1>6, <2>1 DEF Write, Returns, Latest, Recorded
  <2>3. \A q \in Procs : pc'[q] = "idle"
    BY <1>6 DEF Write, Returns
  <2> QED
    BY <2>1, <2>2, <2>3
<1>7. ASSUME NEW p \in Procs, Crash(p) PROVE Serves'
  BY <1>7 DEF Crash
<1>8. CASE disturbed
  BY <1>8 DEF Next, StartResolve, LookupAnswers, LookupFails, LookupsDone, Truncate,
              Write, Crash, vars, history
<1>9. CASE UNCHANGED vars
  BY <1>9 DEF vars, locals, history
<1> QED
  BY <1>1, <1>2, <1>3, <1>4, <1>5, <1>6, <1>7, <1>8, <1>9 DEF Next

LEMMA Inductive == Spec => []IInv
<1>1. IInv /\ [Next]_vars => IInv'
  BY TypeStep, RecordedStep, OneAtATimeStep, ServesStep DEF IInv
<1> QED
  BY InitIInv, <1>1, PTL DEF Spec

-----------------------------------------------------------------------------
(***************************************************************************)
(* The theorems.                                                           *)
(***************************************************************************)
\* Type correctness of Resolve and the cache file.
THEOREM TypeCorrect == Spec => []TypeOK
<1>1. IInv => TypeOK
  BY DEF IInv
<1> QED
  BY Inductive, <1>1, PTL

\* While calls do not overlap and none dies writing, the kill switch can be
\* built again without DNS, from the latest addresses (config.go, Resolve).
THEOREM CacheIsComplete == Spec => []CacheServesLatest
<1>1. IInv => CacheServesLatest
  BY DEF IInv, Serves, CacheServesLatest, AtRest
<1> QED
  BY Inductive, <1>1, PTL

\* Whatever has become of the file, Resolve fails only for a host that DNS has
\* not answered in this very call (config.go, loadCache).
THEOREM CacheNeverHinders == Spec => FailsOnlyWithoutDns
<1>1. ASSUME IInv, [Next]_vars, NEW p \in Procs, ret[p] # "failed", ret'[p] = "failed"
      PROVE  todo[p] # <<>> /\ fresh[p][Head(todo[p])] = None
  <2>1. PICK q \in Procs : LookupFails(q)
    BY <1>1 DEF Next, IInv, TypeOK, StartResolve, LookupAnswers, LookupsDone, Returns,
                Truncate, Write, Crash, vars
  <2>2. q = p /\ pc[p] = "lookup" /\ todo[p] # <<>> /\ cache[p][Head(todo[p])] = None
    BY <1>1, <2>1 DEF IInv, TypeOK, LookupFails
  <2>3. Head(todo[p]) \in Hosts
    BY <1>1, <2>2, HeadAndTail DEF IInv
  <2> QED
    BY <1>1, <2>2, <2>3 DEF IInv, Recorded
<1>2. IInv /\ [Next]_vars =>
        [\A p \in Procs : (ret[p] # "failed" /\ ret'[p] = "failed")
           => todo[p] # <<>> /\ fresh[p][Head(todo[p])] = None]_vars
  BY <1>1
<1> QED
  BY Inductive, <1>2, PTL DEF Spec, FailsOnlyWithoutDns

=============================================================================
