-------------------------- MODULE RetryBatchProofs --------------------------
(***************************************************************************)
(* The safety of the retry-batch pool for any number of calls of Submit.   *)
(*                                                                         *)
(* The argument: the counter of a handle that is not fused equals the      *)
(* number of calls that hold it, so fusing succeeds only when nobody does, *)
(* and a fused counter stays negative, so nobody holds it afterwards.  The *)
(* creator of a handle can always acquire it, because the only goroutine   *)
(* that could fuse it is the one the creator is about to start.  So every  *)
(* handle has its goroutine as long as the map or a call refers to it.     *)
(***************************************************************************)
EXTENDS RetryBatch, FiniteSetTheorems, TLAPS

Holding == {"start", "send", "wait", "release"}

Ended == {"fused", "done"}

(* The counter of a handle counts the calls that hold it, until it is fused. *)
Balanced ==
    \A h \in Handles :
        /\ gor[h] \notin Ended => rc[h] = Cardinality(Holders(h))
        /\ gor[h] \in Ended => Holders(h) = {} /\ rc[h] <= fusedInitValue + MaxSpins

(* A handle that call s has created, which has loaded it in the same step. *)
Created(s) == at[s] = s

(***************************************************************************)
(* The handles of the map: the one stored has a goroutine, or a creator    *)
(* that will start it; those not stored have none, or one that has ended.  *)
(***************************************************************************)
MapServed ==
    /\ entry # NoHandle => Created(entry) /\ gor[entry] # "done"
    /\ \A h \in Handles : gor[h] \notin {"none", "done"} => entry = h
    /\ \A s \in Submitters : at[s] # NoHandle =>
          Created(at[s]) /\ (at[s] = entry \/ gor[at[s]] = "done")

(* The creator of a handle starts its goroutine, and nobody else does. *)
CreatorStarts ==
    \A s \in Submitters :
        /\ pc[s] # "panic"
        /\ pc[s] = "idle" => at[s] = NoHandle
        /\ pc[s] \notin {"idle", "load"} => at[s] \in Handles
        /\ pc[s] = "start" => Created(s)
        /\ Created(s) => pc[s] \notin {"idle", "load"}
        /\ Created(s) => (gor[s] = "none" <=> pc[s] \in {"acquire", "start"})
        /\ ~Created(s) => gor[s] = "none"

(* A call is answered only while it waits, and no batch is executed empty. *)
Answered ==
    /\ \A h \in Handles : gor[h] # "drain" => unchecked[h] = {}
    /\ \A h \in Handles : gor[h] = "execute" => batch[h] # {}
    /\ \A s \in Submitters :
          pc[s] \in {"idle", "load", "acquire", "start", "send"} => reply[s] = {}

IndInv ==
    /\ TypeOK
    /\ Balanced
    /\ MapServed
    /\ CreatorStarts
    /\ Answered
    /\ RepliedOnce

-----------------------------------------------------------------------------
(* All that is used of fusedInitValue besides RetryBatchAssumption. *)
LEMMA FusedIsInt == fusedInitValue \in Int
BY SMT DEF fusedInitValue

(* The types are kept. *)
LEMMA TypeInit == Init => TypeOK
<1> SUFFICES ASSUME Init PROVE TypeOK
    OBVIOUS
<1> USE DEF Init, Handles, Steps, Places, Outcomes
<1>1. /\ entry \in Handles \cup {NoHandle}
      /\ rc \in [Handles -> Int]
      /\ gor \in [Handles -> Places]
      /\ outcome \in [Handles -> Outcomes]
    OBVIOUS
<1>2. /\ batch \in [Handles -> SUBSET Submitters]
      /\ unchecked \in [Handles -> SUBSET Submitters]
      /\ \A h \in Handles : unchecked[h] \subseteq batch[h]
    OBVIOUS
<1>3. /\ pc \in [Submitters -> Steps]
      /\ at \in [Submitters -> Handles \cup {NoHandle}]
      /\ reply \in [Submitters -> SUBSET Outcomes]
      /\ canceled \in SUBSET Submitters
      /\ closed \in BOOLEAN
    OBVIOUS
<1> QED BY <1>1, <1>2, <1>3 DEF TypeOK

(* Every step keeps the types. *)
LEMMA TypeStep == IndInv /\ [Next]_vars => TypeOK'
<1> SUFFICES ASSUME IndInv, [Next]_vars PROVE TypeOK'
    OBVIOUS
<1>0. TypeOK /\ Answered /\ \A s \in Submitters : pc[s] \notin {"idle", "load"} => at[s] \in Handles
    BY DEF IndInv, CreatorStarts
<1> USE DEF TypeOK, Handles, Steps, Places, Outcomes, goroutine
<1>1. ASSUME NEW s \in Submitters, Call(s) PROVE TypeOK'
    BY <1>0, <1>1 DEF Call
<1>2. ASSUME NEW s \in Submitters, LoadOrCompute(s) PROVE TypeOK'
    BY <1>0, <1>2 DEF LoadOrCompute
<1>3. ASSUME NEW s \in Submitters, Acquire(s) PROVE TypeOK'
  <2>1. at[s] \in Handles /\ rc[at[s]] \in Int
      BY <1>0, <1>3 DEF Acquire
  <2>2. rc' \in [Handles -> Int]
      BY <1>0, <1>3, <2>1 DEF Acquire
  <2>3. pc' \in [Submitters -> Steps]
      BY <1>0, <1>3, <2>1 DEF Acquire
  <2> QED BY <1>0, <1>3, <2>2, <2>3 DEF Acquire
<1>4. ASSUME NEW s \in Submitters, StartGoroutine(s) PROVE TypeOK'
    BY <1>0, <1>4 DEF StartGoroutine
<1>5. ASSUME NEW s \in Submitters, ReceiveResult(s) PROVE TypeOK'
    BY <1>0, <1>5 DEF ReceiveResult
<1>6. ASSUME NEW s \in Submitters, Release(s) PROVE TypeOK'
    BY <1>0, <1>6 DEF Release
<1>7. ASSUME NEW s \in Submitters, Cancel(s) PROVE TypeOK'
    BY <1>0, <1>7 DEF Cancel
<1>8. ASSUME NEW h \in Handles, NEW s \in Submitters, Receive(h, s) PROVE TypeOK'
    BY <1>0, <1>8 DEF Receive
<1>9. ASSUME NEW h \in Handles, NEW s \in Submitters, CheckCanceled(h, s) PROVE TypeOK'
    BY <1>0, <1>9 DEF CheckCanceled
<1>10. ASSUME NEW h \in Handles, NEW s \in Submitters, DispatchResult(h, s) PROVE TypeOK'
    BY <1>0, <1>10 DEF DispatchResult, Answered
<1>11. ASSUME NEW h \in Handles, NoRequest(h) \/ Cleanup(h) PROVE TypeOK'
    BY <1>0, <1>11 DEF NoRequest, Cleanup
<1>12. ASSUME NEW h \in Handles, Fuse(h) PROVE TypeOK'
    BY <1>0, <1>12, FusedIsInt DEF Fuse
<1>13. ASSUME NEW h \in Handles, PoolCanceled(h) \/ NeedRetry(h) PROVE TypeOK'
    BY <1>0, <1>13 DEF PoolCanceled, NeedRetry
<1>14. ASSUME NEW h \in Handles, StartCheckCanceled(h) PROVE TypeOK'
    BY <1>0, <1>14 DEF StartCheckCanceled
<1>15. ASSUME NEW h \in Handles, FinishCheckCanceled(h) PROVE TypeOK'
    BY <1>0, <1>15 DEF FinishCheckCanceled
<1>16. ASSUME NEW h \in Handles, Execute(h) PROVE TypeOK'
    BY <1>0, <1>16 DEF Execute
<1>17. ASSUME NEW h \in Handles, FinishDispatchResult(h) PROVE TypeOK'
    BY <1>0, <1>17 DEF FinishDispatchResult
<1>18. CASE Close \/ Quiescent \/ UNCHANGED vars
    BY <1>0, <1>18 DEF Close, Quiescent, vars
<1> QED BY <1>1, <1>2, <1>3, <1>4, <1>5, <1>6, <1>7, <1>8, <1>9, <1>10, <1>11, <1>12, <1>13,
           <1>14, <1>15, <1>16, <1>17, <1>18 DEF Next, Submit, batchGoroutine

-----------------------------------------------------------------------------
(* What the steps that concern the handles may do to them. *)
HandleInv == Balanced /\ MapServed /\ CreatorStarts

(* Finitely many calls hold a handle. *)
LEMMA HoldersFinite ==
    ASSUME NEW h
    PROVE  IsFiniteSet(Holders(h)) /\ Cardinality(Holders(h)) \in Nat
BY FS_Subset, FS_CardinalityType, RetryBatchAssumption DEF Holders

(* There is no handle initially. *)
LEMMA HandleInit == Init => HandleInv
<1> SUFFICES ASSUME Init PROVE HandleInv
    OBVIOUS
<1>1. ASSUME NEW h \in Handles PROVE Holders(h) = {}
    BY DEF Init, Holders
<1>2. Balanced
    BY <1>1, FS_EmptySet DEF Init, Balanced, Ended
<1>3. MapServed
    BY DEF Init, MapServed
<1>4. CreatorStarts
    BY RetryBatchAssumption DEF Init, CreatorStarts, Created, Handles
<1> QED BY <1>2, <1>3, <1>4 DEF HandleInv

(* A goroutine that goes on, and a call that goes on holding its handle. *)
LEMMA HandleFrame ==
    ASSUME IndInv, TypeOK', entry' = entry, rc' = rc, at' = at,
           \A s \in Submitters : pc'[s] = pc[s] \/ {pc[s], pc'[s]} \subseteq {"send", "wait", "release"},
           \A h \in Handles : gor'[h] = gor[h]
                              \/ {gor[h], gor'[h]} \cap {"none", "fused", "done"} = {}
    PROVE  HandleInv'
<1>1. ASSUME NEW h PROVE Holders(h)' = Holders(h)
    BY DEF Holders
<1>2. Balanced'
    BY <1>1 DEF IndInv, Balanced, Ended
<1>3. MapServed'
  <2>1. MapServed /\ entry \in Handles \cup {NoHandle}
        /\ \A s \in Submitters : at[s] \in Handles \cup {NoHandle}
      BY DEF IndInv, TypeOK
  <2>2. \A h \in Handles : /\ gor'[h] = "done" <=> gor[h] = "done"
                           /\ gor'[h] = "none" <=> gor[h] = "none"
      OBVIOUS
  <2>3. entry' # NoHandle => Created(entry)' /\ gor'[entry'] # "done"
      BY <2>1, <2>2 DEF MapServed, Created
  <2>4. \A h \in Handles : gor'[h] \notin {"none", "done"} => entry' = h
      BY <2>1, <2>2 DEF MapServed
  <2>5. \A s \in Submitters : at'[s] # NoHandle =>
            Created(at[s])' /\ (at'[s] = entry' \/ gor'[at'[s]] = "done")
      BY <2>1, <2>2 DEF MapServed, Created
  <2> QED BY <2>3, <2>4, <2>5 DEF MapServed
<1>4. CreatorStarts'
    BY DEF IndInv, CreatorStarts, Created, Handles
<1> QED BY <1>2, <1>3, <1>4 DEF HandleInv

(* A call that begins concerns no handle. *)
LEMMA CallHandles ==
    ASSUME IndInv, TypeOK', NEW s \in Submitters, Call(s)
    PROVE  HandleInv'
<1>1. /\ pc[s] = "idle" /\ pc'[s] = "load" /\ at[s] = NoHandle
      /\ \A x \in Submitters \ {s} : pc'[x] = pc[x]
      /\ entry' = entry /\ rc' = rc /\ at' = at /\ gor' = gor
    BY DEF Call, IndInv, TypeOK, CreatorStarts, goroutine
<1>2. ASSUME NEW h PROVE Holders(h)' = Holders(h)
    BY <1>1 DEF Holders
<1>3. Balanced'
    BY <1>1, <1>2 DEF IndInv, Balanced
<1>4. MapServed'
    BY <1>1 DEF IndInv, MapServed, Created
<1>5. CreatorStarts'
    BY <1>1, RetryBatchAssumption DEF IndInv, CreatorStarts, Created, Handles
<1> QED BY <1>3, <1>4, <1>5 DEF HandleInv

(* The call loads the stored handle, or creates one and stores it. *)
LEMMA LoadOrComputeHandles ==
    ASSUME IndInv, TypeOK', NEW s \in Submitters, LoadOrCompute(s)
    PROVE  HandleInv'
<1>1. /\ pc[s] = "load" /\ pc'[s] = "acquire" /\ at'[s] = entry'
      /\ \A x \in Submitters \ {s} : pc'[x] = pc[x] /\ at'[x] = at[x]
      /\ rc' = rc /\ gor' = gor
      /\ entry' = IF entry = NoHandle THEN s ELSE entry
    BY DEF LoadOrCompute, IndInv, TypeOK, goroutine
<1>2. /\ ~Created(s) /\ gor[s] = "none" /\ entry # s
      /\ \A x \in Submitters : at[x] # s
    BY <1>1, RetryBatchAssumption DEF IndInv, CreatorStarts, MapServed, Created, TypeOK, Handles
<1>3. ASSUME NEW h PROVE Holders(h)' = Holders(h)
    BY <1>1 DEF Holders
<1>4. Balanced'
    BY <1>1, <1>3 DEF IndInv, Balanced
<1>5. \A x \in Submitters \ {s} : Created(x)' = Created(x)
    BY <1>1 DEF Created
<1>6. MapServed'
  <2>1. CASE entry = NoHandle
    <3>1. entry' = s /\ Created(s)'
        BY <1>1, <2>1 DEF Created
    <3>2. \A h \in Handles : gor[h] \in {"none", "done"}
        BY <2>1, RetryBatchAssumption DEF IndInv, MapServed, Handles
    <3>3. ASSUME NEW x \in Submitters \ {s}, at[x] # NoHandle
          PROVE  Created(at[x])' /\ gor[at[x]] = "done"
        BY <1>1, <1>2, <1>5, <2>1, <3>3 DEF IndInv, MapServed, Created, TypeOK, Handles
    <3> QED BY <1>1, <1>2, <3>1, <3>2, <3>3 DEF MapServed
  <2>2. CASE entry # NoHandle
    <3>1. entry' = entry /\ entry \in Submitters \ {s} /\ Created(entry)'
        BY <1>1, <1>2, <1>5, <2>2 DEF IndInv, MapServed, TypeOK, Handles
    <3>2. ASSUME NEW x \in Submitters \ {s}, at[x] # NoHandle
          PROVE  Created(at[x])' /\ (at[x] = entry \/ gor[at[x]] = "done")
        BY <1>1, <1>2, <1>5, <3>2 DEF IndInv, MapServed, TypeOK, Handles
    <3> QED BY <1>1, <3>1, <3>2 DEF IndInv, MapServed
  <2> QED BY <2>1, <2>2
<1>7. CreatorStarts'
  <2>1. at'[s] \in Handles
      BY <1>1 DEF IndInv, TypeOK, Handles
  <2> QED BY <1>1, <1>2, <1>5, <2>1 DEF IndInv, CreatorStarts, Created
<1> QED BY <1>4, <1>6, <1>7 DEF HandleInv

(* Acquiring succeeds exactly when the counter is not fused. *)
LEMMA AcquireHandles ==
    ASSUME IndInv, TypeOK', NEW s \in Submitters, Acquire(s)
    PROVE  HandleInv'
<1> DEFINE h == at[s]
<1>1. /\ pc[s] = "acquire" /\ h \in Handles /\ rc[h] \in Int
      /\ \A x \in Submitters \ {s} : pc'[x] = pc[x]
      /\ \A g \in Handles \ {h} : rc'[g] = rc[g]
      /\ entry' = entry /\ at' = at /\ gor' = gor
    BY DEF Acquire, IndInv, TypeOK, CreatorStarts, goroutine
<1>2. ASSUME NEW g \in Handles \ {h} PROVE Holders(g)' = Holders(g)
    BY <1>1 DEF Holders
<1>3. MapServed'
    BY <1>1 DEF IndInv, MapServed, Created
<1>4. CASE gor[h] \notin Ended
  <2>1. rc[h] = Cardinality(Holders(h)) /\ rc[h] + 1 > 0
      BY <1>1, <1>4, HoldersFinite DEF IndInv, Balanced
  <2>2. rc'[h] = rc[h] + 1 /\ pc'[s] = IF h = s THEN "start" ELSE "send"
      BY <1>1, <2>1 DEF Acquire, IndInv, TypeOK, Handles
  <2>3. Holders(h)' = Holders(h) \cup {s} /\ s \notin Holders(h)
      BY <1>1, <2>2 DEF Holders
  <2>4. Cardinality(Holders(h)') = Cardinality(Holders(h)) + 1
      BY <2>3, HoldersFinite, FS_AddElement
  <2>5. Balanced'
      BY <1>1, <1>2, <1>4, <2>1, <2>2, <2>4 DEF IndInv, Balanced
  <2>6. CreatorStarts'
      BY <1>1, <2>2 DEF IndInv, CreatorStarts, Created
  <2> QED BY <1>3, <2>5, <2>6 DEF HandleInv
<1>5. CASE gor[h] \in Ended
  <2>1. rc[h] <= fusedInitValue + MaxSpins
      BY <1>1, <1>5 DEF IndInv, Balanced
  <2>2. rc[h] + 1 < 0
      BY <1>1, <2>1, FusedIsInt, RetryBatchAssumption
  <2>3. pc'[s] = "load"
      BY <1>1, <2>2 DEF Acquire, IndInv, TypeOK
  <2>4. rc'[h] <= fusedInitValue + MaxSpins
    <3>1. rc'[h] = IF rc[h] + 1 < fusedInitValue + MaxSpins THEN rc[h] + 1 ELSE rc[h]
        BY <1>1, <2>2 DEF Acquire, IndInv, TypeOK, Handles
    <3>2. fusedInitValue + MaxSpins \in Int
        BY FusedIsInt, RetryBatchAssumption
    <3> QED BY <1>1, <2>1, <3>1, <3>2
  <2>5. Holders(h)' = Holders(h)
      BY <1>1, <2>3 DEF Holders
  <2>6. Balanced'
      BY <1>1, <1>2, <1>5, <2>4, <2>5 DEF IndInv, Balanced
  <2>7. ~Created(s)
      BY <1>1, <1>5 DEF IndInv, CreatorStarts, Created, Ended
  <2>8. CreatorStarts'
      BY <1>1, <2>3, <2>7 DEF IndInv, CreatorStarts, Created
  <2> QED BY <1>3, <2>6, <2>8 DEF HandleInv
<1> QED BY <1>4, <1>5

(* The creator starts the goroutine of the handle that is stored. *)
LEMMA StartGoroutineHandles ==
    ASSUME IndInv, TypeOK', NEW s \in Submitters, StartGoroutine(s)
    PROVE  HandleInv'
<1>1. /\ pc[s] = "start" /\ at[s] = s /\ gor[s] = "none"
    BY DEF StartGoroutine, IndInv, CreatorStarts, Created
<1>2. /\ pc'[s] = "send" /\ gor'[s] = "idle"
      /\ \A x \in Submitters \ {s} : pc'[x] = pc[x] /\ gor'[x] = gor[x]
      /\ entry' = entry /\ rc' = rc /\ at' = at
    BY <1>1 DEF StartGoroutine, IndInv, TypeOK, Handles
<1>3. entry = s
    BY <1>1, RetryBatchAssumption DEF IndInv, MapServed
<1>4. ASSUME NEW g PROVE Holders(g)' = Holders(g)
    BY <1>1, <1>2 DEF Holders
<1>5. Balanced'
    BY <1>1, <1>2, <1>4 DEF IndInv, Balanced, Ended, Handles
<1>6. MapServed'
    BY <1>1, <1>2, <1>3, RetryBatchAssumption DEF IndInv, MapServed, Created, Handles, TypeOK
<1>7. CreatorStarts'
    BY <1>1, <1>2 DEF IndInv, CreatorStarts, Created, Handles
<1> QED BY <1>5, <1>6, <1>7 DEF HandleInv

(* Releasing never panics: the counter counts the call that releases. *)
LEMMA ReleaseHandles ==
    ASSUME IndInv, TypeOK', NEW s \in Submitters, Release(s)
    PROVE  HandleInv'
<1> DEFINE h == at[s]
<1>1. /\ pc[s] = "release" /\ h \in Handles /\ rc[h] \in Int
      /\ \A x \in Submitters \ {s} : pc'[x] = pc[x]
      /\ rc'[h] = rc[h] - 1
      /\ \A g \in Handles \ {h} : rc'[g] = rc[g]
      /\ entry' = entry /\ at' = at /\ gor' = gor
    BY DEF Release, IndInv, TypeOK, CreatorStarts, goroutine
<1>2. s \in Holders(h) /\ gor[h] \notin Ended /\ rc[h] = Cardinality(Holders(h))
    BY <1>1 DEF IndInv, Balanced, Holders
<1>3. rc[h] - 1 >= 0
    BY <1>1, <1>2, HoldersFinite, FS_EmptySet
<1>4. pc'[s] = "returned"
    BY <1>1, <1>3 DEF Release, IndInv, TypeOK
<1>5. Holders(h)' = Holders(h) \ {s} /\ \A g \in Handles \ {h} : Holders(g)' = Holders(g)
    BY <1>1, <1>4 DEF Holders
<1>6. Cardinality(Holders(h)') = Cardinality(Holders(h)) - 1
    BY <1>2, <1>5, HoldersFinite, FS_RemoveElement
<1>7. Balanced'
    BY <1>1, <1>2, <1>5, <1>6 DEF IndInv, Balanced
<1>8. MapServed'
    BY <1>1 DEF IndInv, MapServed, Created
<1>9. CreatorStarts'
    BY <1>1, <1>4 DEF IndInv, CreatorStarts, Created
<1> QED BY <1>7, <1>8, <1>9 DEF HandleInv

(* Fusing succeeds only when no call holds the handle. *)
LEMMA FuseHandles ==
    ASSUME IndInv, TypeOK', NEW h \in Handles, Fuse(h)
    PROVE  HandleInv'
<1>1. /\ gor[h] = "select" /\ entry' = entry /\ at' = at /\ pc' = pc
      /\ \A g \in Handles \ {h} : gor'[g] = gor[g] /\ rc'[g] = rc[g]
    BY DEF Fuse, IndInv, TypeOK
<1>2. CASE rc[h] = 0
  <2>1. gor'[h] = "fused" /\ rc'[h] = fusedInitValue
      BY <1>2 DEF Fuse, IndInv, TypeOK
  <2>2. Holders(h) = {}
      BY <1>1, <1>2, HoldersFinite, FS_EmptySet DEF IndInv, Balanced, Ended
  <2>3. ASSUME NEW g PROVE Holders(g)' = Holders(g)
      BY <1>1 DEF Holders
  <2>4. fusedInitValue <= fusedInitValue + MaxSpins
      BY FusedIsInt, RetryBatchAssumption
  <2>5. Balanced'
      BY <1>1, <2>1, <2>2, <2>3, <2>4 DEF IndInv, Balanced, Ended
  <2>6. MapServed'
      BY <1>1, <2>1 DEF IndInv, MapServed, Created, TypeOK, Handles
  <2>7. CreatorStarts'
      BY <1>1, <2>1 DEF IndInv, CreatorStarts, Created, Handles
  <2> QED BY <2>5, <2>6, <2>7 DEF HandleInv
<1>3. CASE rc[h] # 0
  <2>1. gor'[h] = "idle" /\ rc' = rc
      BY <1>3 DEF Fuse, IndInv, TypeOK
  <2> QED BY <1>1, <2>1, HandleFrame
<1> QED BY <1>2, <1>3

(* The goroutine deletes its own handle from the map, and no other. *)
LEMMA CleanupHandles ==
    ASSUME IndInv, TypeOK', NEW h \in Handles, Cleanup(h)
    PROVE  HandleInv'
<1>1. /\ gor[h] = "fused" /\ gor'[h] = "done" /\ entry = h /\ entry' = NoHandle
      /\ \A g \in Handles \ {h} : gor'[g] = gor[g]
      /\ at' = at /\ pc' = pc /\ rc' = rc
    BY DEF Cleanup, IndInv, TypeOK, MapServed
<1>2. ASSUME NEW g PROVE Holders(g)' = Holders(g)
    BY <1>1 DEF Holders
<1>3. Balanced'
    BY <1>1, <1>2 DEF IndInv, Balanced, Ended
<1>4. MapServed'
    BY <1>1 DEF IndInv, MapServed, Created, TypeOK, Handles
<1>5. CreatorStarts'
    BY <1>1 DEF IndInv, CreatorStarts, Created, Handles
<1> QED BY <1>3, <1>4, <1>5 DEF HandleInv

(* Every step keeps the handles in order. *)
LEMMA HandleStep == IndInv /\ TypeOK' /\ [Next]_vars => HandleInv'
<1> SUFFICES ASSUME IndInv, TypeOK', [Next]_vars PROVE HandleInv'
    OBVIOUS
<1>0. TypeOK
    BY DEF IndInv
<1>1. ASSUME NEW s \in Submitters, Submit(s) PROVE HandleInv'
  <2>1. CASE ReceiveResult(s)
      BY <1>0, <2>1, HandleFrame DEF ReceiveResult, TypeOK, goroutine
  <2> QED BY <1>1, <2>1, LoadOrComputeHandles, AcquireHandles, StartGoroutineHandles, ReleaseHandles
          DEF Submit
<1>2. ASSUME NEW s \in Submitters, Call(s) \/ Cancel(s) PROVE HandleInv'
  <2>1. CASE Cancel(s)
      BY <2>1, HandleFrame DEF Cancel, goroutine
  <2> QED BY <1>2, <2>1, CallHandles
<1>3. ASSUME NEW h \in Handles, NEW s \in Submitters, Receive(h, s) PROVE HandleInv'
    BY <1>0, <1>3, HandleFrame DEF Receive, TypeOK
<1>4. ASSUME NEW h \in Handles, NEW s \in Submitters, CheckCanceled(h, s) \/ DispatchResult(h, s)
      PROVE  HandleInv'
    BY <1>4, HandleFrame DEF CheckCanceled, DispatchResult
<1>5. ASSUME NEW h \in Handles,
             NoRequest(h) \/ PoolCanceled(h) \/ StartCheckCanceled(h) \/ FinishCheckCanceled(h)
      PROVE  HandleInv'
    BY <1>0, <1>5, HandleFrame
       DEF NoRequest, PoolCanceled, StartCheckCanceled, FinishCheckCanceled, TypeOK
<1>6. ASSUME NEW h \in Handles, Execute(h) \/ NeedRetry(h) \/ FinishDispatchResult(h)
      PROVE  HandleInv'
    BY <1>0, <1>6, HandleFrame DEF Execute, NeedRetry, FinishDispatchResult, TypeOK
<1>7. CASE Close \/ Quiescent \/ UNCHANGED vars
    BY <1>7, HandleFrame DEF Close, Quiescent, vars, goroutine
<1> QED BY <1>1, <1>2, <1>3, <1>4, <1>5, <1>6, <1>7, FuseHandles, CleanupHandles
        DEF Next, batchGoroutine

-----------------------------------------------------------------------------
AnswerInv == Answered /\ RepliedOnce

(* No call waits initially. *)
LEMMA AnswerInit == Init => AnswerInv
BY DEF Init, AnswerInv, Answered, RepliedOnce, Handles

(* No call starts or stops waiting for an answer, and no drain is left unfinished. *)
WaitersKept ==
    \A s \in Submitters :
        \/ pc'[s] = pc[s] /\ at'[s] = at[s]
        \/ /\ pc[s] \in {"idle", "load", "acquire", "start"}
           /\ pc'[s] \in {"load", "acquire", "start", "send"}
        \/ pc[s] = "release" /\ pc'[s] \in {"returned", "panic"}

DrainsKept ==
    \A h \in Handles :
        /\ gor'[h] # "drain" => gor[h] # "drain" \/ unchecked[h] = {}
        /\ gor'[h] = "execute" => gor[h] = "execute" \/ batch[h] # {}

AnswersKept == batch' = batch /\ unchecked' = unchecked /\ reply' = reply

(* Steps that concern no waiting call keep the answers. *)
LEMMA AnswerFrame ==
    ASSUME IndInv, AnswersKept, WaitersKept, DrainsKept
    PROVE  AnswerInv'
<1> USE DEF AnswersKept, WaitersKept, DrainsKept
<1>1. Answered'
    BY DEF IndInv, Answered
<1>2. RepliedOnce'
    BY DEF IndInv, RepliedOnce, TypeOK, Handles
<1> QED BY <1>1, <1>2 DEF AnswerInv

(* Every step keeps the requests and the answers in order. *)
LEMMA AnswerStep == IndInv /\ TypeOK' /\ [Next]_vars => AnswerInv'
<1> SUFFICES ASSUME IndInv, TypeOK', [Next]_vars PROVE AnswerInv'
    OBVIOUS
<1>0. TypeOK /\ Answered /\ RepliedOnce
    BY DEF IndInv
<1>1. ASSUME NEW s \in Submitters, Call(s) \/ LoadOrCompute(s) \/ Cancel(s) PROVE AnswerInv'
  <2>1. AnswersKept /\ DrainsKept
      BY <1>1 DEF Call, LoadOrCompute, Cancel, goroutine, AnswersKept, DrainsKept
  <2>2. WaitersKept
      BY <1>0, <1>1 DEF Call, LoadOrCompute, Cancel, WaitersKept, TypeOK
  <2> QED BY <2>1, <2>2, AnswerFrame
<1>2. ASSUME NEW s \in Submitters, Acquire(s) PROVE AnswerInv'
  <2>1. rc[at[s]] \in Int
      BY <1>0, <1>2 DEF Acquire, IndInv, CreatorStarts, TypeOK
  <2>2. pc'[s] \in {"start", "send", "load"} \/ rc[at[s]] + 1 = 0
      BY <1>0, <1>2, <2>1 DEF Acquire, TypeOK
  <2>3. rc[at[s]] + 1 # 0
    <3>1. CASE gor[at[s]] \in Ended
        BY <2>1, <3>1, <1>2, FusedIsInt, RetryBatchAssumption
           DEF IndInv, Balanced, CreatorStarts, Acquire
    <3>2. CASE gor[at[s]] \notin Ended
        BY <3>2, <1>2, HoldersFinite DEF IndInv, Balanced, CreatorStarts, Acquire
    <3> QED BY <3>1, <3>2
  <2>4. AnswersKept /\ DrainsKept
      BY <1>2 DEF Acquire, goroutine, AnswersKept, DrainsKept
  <2>5. pc[s] = "acquire" /\ at' = at /\ \A x \in Submitters \ {s} : pc'[x] = pc[x]
      BY <1>0, <1>2 DEF Acquire, TypeOK
  <2>6. WaitersKept
      BY <2>2, <2>3, <2>5 DEF WaitersKept
  <2> QED BY <2>4, <2>6, AnswerFrame
<1>3. ASSUME NEW s \in Submitters, StartGoroutine(s) PROVE AnswerInv'
  <2>1. AnswersKept
      BY <1>3 DEF StartGoroutine, AnswersKept
  <2>2. gor[at[s]] = "none" /\ at[s] \in Handles
      BY <1>3 DEF StartGoroutine, IndInv, CreatorStarts, Created, Handles
  <2>3. DrainsKept
      BY <1>0, <1>3, <2>2 DEF StartGoroutine, DrainsKept, TypeOK
  <2>4. WaitersKept
      BY <1>0, <1>3 DEF StartGoroutine, WaitersKept, TypeOK
  <2> QED BY <2>1, <2>3, <2>4, AnswerFrame
<1>4. ASSUME NEW s \in Submitters, Release(s) PROVE AnswerInv'
  <2>1. AnswersKept /\ DrainsKept
      BY <1>4 DEF Release, goroutine, AnswersKept, DrainsKept
  <2>2. WaitersKept
      BY <1>0, <1>4 DEF Release, WaitersKept, TypeOK
  <2> QED BY <2>1, <2>2, AnswerFrame
<1>5. ASSUME NEW s \in Submitters, ReceiveResult(s) PROVE AnswerInv'
  <2>1. /\ pc[s] = "wait" /\ pc'[s] = "release" /\ reply[s] # {} /\ at' = at
        /\ \A x \in Submitters \ {s} : pc'[x] = pc[x]
        /\ batch' = batch /\ unchecked' = unchecked /\ reply' = reply /\ gor' = gor
      BY <1>0, <1>5 DEF ReceiveResult, goroutine, TypeOK
  <2>2. \A h \in Handles : s \notin batch[h]
      BY <1>0, <2>1 DEF RepliedOnce
  <2>3. RepliedOnce'
      BY <1>0, <2>1, <2>2 DEF RepliedOnce, TypeOK, Handles
  <2> QED BY <1>0, <2>1, <2>3 DEF AnswerInv, Answered
<1>6. ASSUME NEW h \in Handles, NEW s \in Submitters, Receive(h, s) PROVE AnswerInv'
  <2>1. /\ pc[s] = "send" /\ pc'[s] = "wait" /\ at[s] = h /\ at' = at
        /\ \A x \in Submitters \ {s} : pc'[x] = pc[x]
        /\ batch'[h] = batch[h] \cup {s}
        /\ \A g \in Handles \ {h} : batch'[g] = batch[g] /\ gor'[g] = gor[g]
        /\ gor[h] # "drain" /\ gor'[h] = "batch" /\ unchecked' = unchecked /\ reply' = reply
      BY <1>0, <1>6 DEF Receive, TypeOK
  <2>2. Answered'
      BY <1>0, <2>1 DEF Answered
  <2>3. RepliedOnce'
    <3>1. reply[s] = {}
        BY <1>0, <2>1 DEF Answered
    <3>2. ASSUME NEW x \in Submitters, pc'[x] = "wait"
          PROVE  x \in batch'[at'[x]] <=> reply'[x] = {}
      <4>1. CASE x = s
          BY <4>1, <3>1, <2>1
      <4>2. CASE x # s
          BY <4>2, <3>2, <1>0, <2>1 DEF RepliedOnce, IndInv, CreatorStarts
      <4> QED BY <4>1, <4>2
    <3>3. ASSUME NEW g \in Handles, NEW x \in batch'[g]
          PROVE  pc'[x] = "wait" /\ at'[x] = g
        BY <1>0, <2>1, <3>3 DEF RepliedOnce, TypeOK
    <3> QED BY <3>2, <3>3 DEF RepliedOnce
  <2> QED BY <2>2, <2>3 DEF AnswerInv
<1>7. ASSUME NEW h \in Handles, NEW s \in Submitters, NEW v \in Outcomes, s \in batch[h], gor[h] # "execute",
             reply' = [reply EXCEPT ![s] = {v}], batch' = [batch EXCEPT ![h] = @ \ {s}],
             pc' = pc, at' = at, gor' = gor,
             \A g \in Handles \ {h} : unchecked'[g] = unchecked[g],
             unchecked'[h] \subseteq unchecked[h]
      PROVE  AnswerInv'
  <2>1. /\ pc[s] = "wait" /\ at[s] = h
        /\ reply'[s] = {v} /\ \A x \in Submitters \ {s} : reply'[x] = reply[x]
        /\ batch'[h] = batch[h] \ {s} /\ \A g \in Handles \ {h} : batch'[g] = batch[g]
      BY <1>0, <1>7 DEF RepliedOnce, TypeOK
  <2>2. Answered'
      BY <1>0, <1>7, <2>1 DEF Answered
  <2>3. RepliedOnce'
    <3>1. ASSUME NEW x \in Submitters, pc'[x] = "wait"
          PROVE  x \in batch'[at'[x]] <=> reply'[x] = {}
      <4>1. CASE x = s
          BY <4>1, <1>7, <2>1
      <4>2. CASE x # s
          BY <4>2, <3>1, <1>0, <1>7, <2>1 DEF RepliedOnce, IndInv, CreatorStarts
      <4> QED BY <4>1, <4>2
    <3>2. ASSUME NEW g \in Handles, NEW x \in batch'[g]
          PROVE  pc'[x] = "wait" /\ at'[x] = g
        BY <1>0, <1>7, <2>1, <3>2 DEF RepliedOnce
    <3> QED BY <3>1, <3>2 DEF RepliedOnce
  <2> QED BY <2>2, <2>3 DEF AnswerInv
<1>8. ASSUME NEW h \in Handles, NEW s \in Submitters, CheckCanceled(h, s) PROVE AnswerInv'
  <2>1. gor[h] = "drain" /\ s \in batch[h]
      BY <1>0, <1>8 DEF CheckCanceled, TypeOK
  <2>2. CASE s \in canceled
      BY <1>0, <1>7, <1>8, <2>1, <2>2 DEF CheckCanceled, TypeOK, Outcomes
  <2>3. CASE s \notin canceled
    <3>1. /\ batch' = batch /\ reply' = reply /\ pc' = pc /\ at' = at /\ gor' = gor
          /\ \A g \in Handles \ {h} : unchecked'[g] = unchecked[g]
        BY <1>0, <1>8, <2>3 DEF CheckCanceled, TypeOK
    <3> QED BY <1>0, <2>1, <3>1 DEF AnswerInv, Answered, RepliedOnce
  <2> QED BY <2>2, <2>3
<1>9. ASSUME NEW h \in Handles, NEW s \in Submitters, DispatchResult(h, s) PROVE AnswerInv'
  <2>1. outcome[h] \in Outcomes
      BY <1>0 DEF TypeOK
  <2> QED BY <1>7, <1>9, <2>1 DEF DispatchResult
<1>10. ASSUME NEW h \in Handles,
              NoRequest(h) \/ Fuse(h) \/ Cleanup(h) \/ PoolCanceled(h) \/ FinishCheckCanceled(h)
       PROVE  AnswerInv'
  <2>1. AnswersKept /\ WaitersKept
      BY <1>10 DEF NoRequest, Fuse, Cleanup, PoolCanceled, FinishCheckCanceled,
                   AnswersKept, WaitersKept
  <2>2. DrainsKept
      BY <1>0, <1>10 DEF NoRequest, Fuse, Cleanup, PoolCanceled, FinishCheckCanceled,
                         DrainsKept, TypeOK
  <2> QED BY <2>1, <2>2, AnswerFrame
<1>11. ASSUME NEW h \in Handles, Execute(h) \/ NeedRetry(h) \/ FinishDispatchResult(h)
       PROVE  AnswerInv'
  <2>1. AnswersKept /\ WaitersKept
      BY <1>11 DEF Execute, NeedRetry, FinishDispatchResult, AnswersKept, WaitersKept
  <2>2. DrainsKept
      BY <1>0, <1>11 DEF Execute, NeedRetry, FinishDispatchResult, DrainsKept, TypeOK
  <2> QED BY <2>1, <2>2, AnswerFrame
<1>12. ASSUME NEW h \in Handles, StartCheckCanceled(h) PROVE AnswerInv'
  <2>1. /\ batch' = batch /\ reply' = reply /\ pc' = pc /\ at' = at /\ gor'[h] = "drain"
        /\ \A g \in Handles \ {h} : unchecked'[g] = unchecked[g] /\ gor'[g] = gor[g]
      BY <1>0, <1>12 DEF StartCheckCanceled, TypeOK
  <2> QED BY <1>0, <2>1 DEF AnswerInv, Answered, RepliedOnce
<1>13. CASE Close \/ Quiescent \/ UNCHANGED vars
  <2>1. AnswersKept /\ WaitersKept /\ DrainsKept
      BY <1>13 DEF Close, Quiescent, vars, goroutine, AnswersKept, WaitersKept, DrainsKept
  <2> QED BY <2>1, AnswerFrame
<1> QED BY <1>1, <1>2, <1>3, <1>4, <1>5, <1>6, <1>8, <1>9, <1>10, <1>11, <1>12, <1>13
        DEF Next, Submit, batchGoroutine

-----------------------------------------------------------------------------
(* The inductive invariant holds in every reachable state. *)
LEMMA Inductive == Spec => []IndInv
<1>1. Init => IndInv
    BY TypeInit, HandleInit, AnswerInit DEF IndInv, HandleInv, AnswerInv
<1>2. IndInv /\ [Next]_vars => IndInv'
    BY TypeStep, HandleStep, AnswerStep DEF IndInv, HandleInv, AnswerInv
<1> QED BY <1>1, <1>2, PTL DEF Spec

(* Every reachable state of the pool has the declared types. *)
THEOREM PoolTypeCorrect == Spec => []TypeOK
<1>1. IndInv => TypeOK
    BY DEF IndInv
<1> QED BY <1>1, Inductive, PTL

(* The executions of a key never overlap: it has one batch goroutine at a time. *)
THEOREM OnlyOneGoroutine == Spec => []OneGoroutine
<1>1. IndInv => OneGoroutine
    BY DEF IndInv, MapServed, OneGoroutine, Live
<1> QED BY <1>1, Inductive, PTL

(* A call that has acquired a handle is never left without its goroutine. *)
THEOREM AlwaysServed == Spec => []HandleServed
<1>1. ASSUME IndInv, NEW s \in Submitters, pc[s] \in {"send", "wait"}
      PROVE  \/ gor[at[s]] \notin {"none", "fused", "done"}
             \/ gor[at[s]] = "none" /\ at[at[s]] = at[s] /\ pc[at[s]] \in {"acquire", "start"}
  <2>1. at[s] \in Handles /\ s \in Holders(at[s])
      BY <1>1 DEF IndInv, CreatorStarts, Holders
  <2>2. gor[at[s]] \notin {"fused", "done"}
      BY <1>1, <2>1 DEF IndInv, Balanced, Ended
  <2>3. gor[at[s]] = "none" => at[at[s]] = at[s] /\ pc[at[s]] \in {"acquire", "start"}
      BY <1>1, <2>1, RetryBatchAssumption DEF IndInv, MapServed, CreatorStarts, Created, Handles
  <2> QED BY <2>2, <2>3
<1>2. IndInv => HandleServed
    BY <1>1 DEF HandleServed
<1> QED BY <1>2, Inductive, PTL

(* The panics of Acquire and Release are never reached. *)
THEOREM PanicFree == Spec => []NeverPanics
<1>1. IndInv => NeverPanics
    BY DEF IndInv, CreatorStarts, NeverPanics
<1> QED BY <1>1, Inductive, PTL

(* No request is lost or answered twice. *)
THEOREM RequestsRepliedOnce == Spec => []RepliedOnce
<1>1. IndInv => RepliedOnce
    BY DEF IndInv
<1> QED BY <1>1, Inductive, PTL

(* The creator of a handle never meets it fused. *)
THEOREM CreatorSucceeds == Spec => []CreatorAcquires
<1>1. ASSUME IndInv, NEW s \in Submitters, pc[s] = "acquire", at[s] = s PROVE rc[s] >= 0
  <2>1. gor[s] = "none"
      BY <1>1 DEF IndInv, CreatorStarts, Created
  <2>2. rc[s] = Cardinality(Holders(s)) /\ Cardinality(Holders(s)) \in Nat
      BY <1>1, <2>1, HoldersFinite DEF IndInv, Balanced, Ended, Handles
  <2> QED BY <2>2
<1>2. IndInv => CreatorAcquires
    BY <1>1 DEF CreatorAcquires
<1> QED BY <1>2, Inductive, PTL

-----------------------------------------------------------------------------
(* The pool implements BatchPool: every step is a step of it or a stutter. *)
LEMMA RunningIs ==
    ASSUME IndInv, NEW h \in Handles, gor[h] \notin {"none", "done"}
    PROVE  AbstractRunning = IF gor[h] = "execute" THEN batch[h] ELSE {}
<1>1. \A g \in Handles : gor[g] = "execute" => g = h
    BY DEF IndInv, MapServed
<1> QED BY <1>1 DEF AbstractRunning

(* The calls of the abstract pool that are open. *)
LEMMA OpenCalls ==
    ASSUME IndInv, NEW h \in Handles, NEW s \in batch[h]
    PROVE  /\ s \in Submitters /\ pc[s] = "wait" /\ at[s] = h /\ reply[s] = {}
           /\ gor[h] # "reply" => AbstractCall[s] = "open"
           /\ gor[h] = "reply" => AbstractCall[s] = outcome[h]
<1>1. s \in Submitters /\ pc[s] = "wait" /\ at[s] = h /\ reply[s] = {}
    BY DEF IndInv, TypeOK, RepliedOnce
<1> QED BY <1>1 DEF AbstractCall, CallState

(* What the abstract pool does not see. *)
RunningKept ==
    \A h \in Handles : /\ gor'[h] = "execute" <=> gor[h] = "execute"
                       /\ gor[h] = "execute" => batch'[h] = batch[h]

CallsKept ==
    /\ \A s \in Submitters :
          /\ reply'[s] = reply[s]
          /\ pc'[s] = "idle" <=> pc[s] = "idle"
          /\ reply[s] = {} => (pc'[s] = "wait" <=> pc[s] = "wait")
          /\ pc[s] = "wait" => at'[s] = at[s]
    /\ \A h \in Handles : /\ gor'[h] = "reply" <=> gor[h] = "reply"
                          /\ gor[h] = "reply" => outcome'[h] = outcome[h]

(* The execution under way stays the same. *)
LEMMA RunningFrame ==
    ASSUME RunningKept
    PROVE  AbstractRunning' = AbstractRunning
<1>1. {h \in Handles : gor'[h] = "execute"} = {h \in Handles : gor[h] = "execute"}
    BY DEF RunningKept
<1>2. {batch'[h] : h \in {h \in Handles : gor[h] = "execute"}}
        = {batch[h] : h \in {h \in Handles : gor[h] = "execute"}}
    BY DEF RunningKept
<1> QED BY <1>1, <1>2 DEF AbstractRunning

(* The abstract state of a call stays the same. *)
LEMMA CallFrame ==
    ASSUME IndInv, CallsKept, NEW s \in Submitters
    PROVE  CallState(s)' = CallState(s)
<1>1. pc[s] = "wait" => at[s] \in Handles
    BY DEF IndInv, CreatorStarts
<1>2. reply'[s] = reply[s]
    BY DEF CallsKept
<1>3. CASE reply[s] # {}
    BY <1>2, <1>3 DEF CallState
<1>4. CASE reply[s] = {}
  <2>1. (pc'[s] = "wait" /\ gor'[at'[s]] = "reply") <=> (pc[s] = "wait" /\ gor[at[s]] = "reply")
      BY <1>1, <1>4 DEF CallsKept
  <2>2. pc[s] = "wait" /\ gor[at[s]] = "reply" => outcome'[at'[s]] = outcome[at[s]]
      BY <1>1, <1>4 DEF CallsKept
  <2>3. pc'[s] = "idle" <=> pc[s] = "idle"
      BY DEF CallsKept
  <2> QED BY <1>2, <1>4, <2>1, <2>2, <2>3 DEF CallState
<1> QED BY <1>3, <1>4

(* The abstract state consists of these four parts. *)
LEMMA StutterFrame ==
    ASSUME canceled' = canceled, closed' = closed,
           AbstractRunning' = AbstractRunning,
           \A s \in Submitters : CallState(s)' = CallState(s)
    PROVE  UNCHANGED Abstract!vars
BY DEF Abstract!vars, AbstractCall

(* The steps of a call after the first are invisible. *)
LEMMA SubmitStutters ==
    ASSUME IndInv, IndInv', NEW s \in Submitters, Submit(s)
    PROVE  UNCHANGED Abstract!vars
<1>0. TypeOK /\ Answered
    BY DEF IndInv
<1>1. RunningKept /\ \A h \in Handles : /\ gor'[h] = "reply" <=> gor[h] = "reply"
                                        /\ gor[h] = "reply" => outcome'[h] = outcome[h]
  <2>1. CASE StartGoroutine(s)
    <3>1. at[s] \in Handles /\ gor[at[s]] = "none" /\ gor'[at[s]] = "idle"
          /\ \A h \in Handles \ {at[s]} : gor'[h] = gor[h]
        BY <1>0, <2>1 DEF StartGoroutine, IndInv, CreatorStarts, Created, Handles, TypeOK
    <3>2. batch' = batch /\ outcome' = outcome
        BY <2>1 DEF StartGoroutine
    <3> QED BY <3>1, <3>2 DEF RunningKept
  <2>2. CASE UNCHANGED goroutine
      BY <2>2 DEF RunningKept, goroutine
  <2> QED BY <2>1, <2>2 DEF Submit, LoadOrCompute, Acquire, ReceiveResult, Release
<1>2. /\ reply' = reply /\ canceled' = canceled /\ closed' = closed
      /\ \A x \in Submitters \ {s} : pc'[x] = pc[x] /\ at'[x] = at[x]
      /\ pc[s] # "idle"
      /\ pc[s] = "wait" => at'[s] = at[s]
    BY <1>0 DEF Submit, LoadOrCompute, Acquire, StartGoroutine, ReceiveResult, Release, TypeOK
<1>3. /\ pc'[s] # "idle" /\ pc'[s] # "wait"
      /\ pc[s] = "wait" => reply[s] # {}
  <2>1. CASE Acquire(s)
    <3>1. pc[s] = "acquire" /\ rc[at[s]] \in Int
        BY <1>0, <2>1 DEF Acquire, IndInv, CreatorStarts, TypeOK
    <3>2. pc'[s] \in {"start", "send", "panic", "load"}
        BY <1>0, <2>1, <3>1 DEF Acquire, TypeOK
    <3> QED BY <3>1, <3>2
  <2>2. CASE LoadOrCompute(s) \/ StartGoroutine(s) \/ ReceiveResult(s) \/ Release(s)
      BY <1>0, <2>2 DEF LoadOrCompute, StartGoroutine, ReceiveResult, Release, TypeOK
  <2> QED BY <2>1, <2>2 DEF Submit
<1>4. CallsKept
    BY <1>1, <1>2, <1>3 DEF CallsKept
<1> QED BY <1>1, <1>2, <1>4, RunningFrame, CallFrame, StutterFrame

(* A request enters a batch that is not executing: invisible. *)
LEMMA ReceiveStutters ==
    ASSUME IndInv, NEW h \in Handles, NEW s \in Submitters, Receive(h, s)
    PROVE  UNCHANGED Abstract!vars
<1>1. /\ pc[s] = "send" /\ pc'[s] = "wait" /\ at[s] = h /\ at' = at /\ reply[s] = {}
      /\ gor[h] \in {"idle", "select", "batch"} /\ gor'[h] = "batch"
      /\ \A x \in Submitters \ {s} : pc'[x] = pc[x]
      /\ \A g \in Handles \ {h} : gor'[g] = gor[g] /\ batch'[g] = batch[g]
      /\ reply' = reply /\ outcome' = outcome /\ canceled' = canceled /\ closed' = closed
    BY DEF Receive, IndInv, TypeOK, Answered
<1>2. RunningKept
    BY <1>1 DEF RunningKept
<1>3. ASSUME NEW x \in Submitters PROVE CallState(x)' = CallState(x)
  <2>1. CASE x = s
      BY <1>1, <2>1 DEF CallState
  <2>2. CASE x # s
    <3>1. /\ pc'[x] = pc[x] /\ at'[x] = at[x] /\ reply'[x] = reply[x] /\ outcome' = outcome
          /\ pc[x] = "wait" => (gor'[at[x]] = "reply" <=> gor[at[x]] = "reply")
        BY <1>1, <2>2 DEF IndInv, CreatorStarts
    <3> QED BY <3>1 DEF CallState
  <2> QED BY <2>1, <2>2
<1> QED BY <1>1, <1>2, <1>3, RunningFrame, StutterFrame

(* The goroutine is idle, prepares an execution, or gives up an empty batch. *)
LEMMA IdleStutters ==
    ASSUME IndInv, NEW h \in Handles,
           \/ NoRequest(h) \/ Fuse(h) \/ Cleanup(h) \/ StartCheckCanceled(h)
           \/ FinishCheckCanceled(h) /\ batch[h] = {}
    PROVE  UNCHANGED Abstract!vars
<1>1. /\ gor[h] \notin {"execute", "reply"} /\ gor'[h] \notin {"execute", "reply"}
      /\ \A g \in Handles \ {h} : gor'[g] = gor[g]
      /\ batch' = batch /\ pc' = pc /\ at' = at /\ reply' = reply /\ outcome' = outcome
      /\ canceled' = canceled /\ closed' = closed
    BY DEF NoRequest, Fuse, Cleanup, StartCheckCanceled, FinishCheckCanceled, IndInv, TypeOK
<1>2. RunningKept /\ CallsKept
    BY <1>1 DEF RunningKept, CallsKept
<1> QED BY <1>1, <1>2, RunningFrame, CallFrame, StutterFrame

(* Answers are dispatched after they were decided: invisible. *)
LEMMA DispatchStutters ==
    ASSUME IndInv, NEW h \in Handles, NEW s \in Submitters, DispatchResult(h, s)
    PROVE  UNCHANGED Abstract!vars
<1>1. /\ gor[h] = "reply" /\ s \in batch[h] /\ gor' = gor /\ pc' = pc /\ at' = at
      /\ reply'[s] = {outcome[h]} /\ \A x \in Submitters \ {s} : reply'[x] = reply[x]
      /\ \A g \in Handles \ {h} : batch'[g] = batch[g]
      /\ outcome' = outcome /\ canceled' = canceled /\ closed' = closed
    BY DEF DispatchResult, IndInv, TypeOK
<1>2. RunningKept
    BY <1>1 DEF RunningKept
<1>3. pc[s] = "wait" /\ at[s] = h /\ reply[s] = {}
    BY <1>1, OpenCalls
<1>4. CallState(s)' = CallState(s)
  <2>1. CallState(s) = outcome[h]
      BY <1>1, <1>3 DEF CallState
  <2>2. CallState(s)' = CHOOSE v \in {outcome[h]} : TRUE
      BY <1>1 DEF CallState
  <2>3. (CHOOSE v \in {outcome[h]} : TRUE) = outcome[h]
      OBVIOUS
  <2> QED BY <2>1, <2>2, <2>3
<1>5. ASSUME NEW x \in Submitters, x # s PROVE CallState(x)' = CallState(x)
  <2>1. reply'[x] = reply[x]
      BY <1>1, <1>5
  <2> QED BY <1>1, <2>1 DEF CallState
<1> QED BY <1>1, <1>2, <1>4, <1>5, RunningFrame, StutterFrame

(* All answers are sent, and the goroutine goes back to its loop. *)
LEMMA FinishDispatchStutters ==
    ASSUME IndInv, NEW h \in Handles, FinishDispatchResult(h)
    PROVE  UNCHANGED Abstract!vars
<1>1. /\ gor[h] = "reply" /\ gor'[h] = "idle" /\ batch[h] = {} /\ pc' = pc /\ at' = at
      /\ \A g \in Handles \ {h} : gor'[g] = gor[g]
      /\ batch' = batch /\ reply' = reply
      /\ outcome' = outcome /\ canceled' = canceled /\ closed' = closed
    BY DEF FinishDispatchResult, IndInv, TypeOK
<1>2. RunningKept
    BY <1>1 DEF RunningKept
<1>3. ASSUME NEW x \in Submitters PROVE CallState(x)' = CallState(x)
  <2>1. CASE pc[x] = "wait" /\ reply[x] = {}
    <3>1. at[x] \in Handles \ {h}
        BY <1>1, <2>1 DEF IndInv, RepliedOnce, CreatorStarts
    <3> QED BY <1>1, <3>1 DEF CallState
  <2>2. CASE ~(pc[x] = "wait" /\ reply[x] = {})
      BY <1>1, <2>2 DEF CallState
  <2> QED BY <2>1, <2>2
<1> QED BY <1>1, <1>2, <1>3, RunningFrame, StutterFrame

-----------------------------------------------------------------------------
(* The abstract answer of a set of open calls. *)
LEMMA AnswerIs ==
    ASSUME NEW calls \in SUBSET Submitters, NEW v,
           \A s \in calls : CallState(s)' = v,
           \A s \in Submitters \ calls : CallState(s)' = CallState(s)
    PROVE  Abstract!Answer(calls, v)
BY DEF Abstract!Answer, AbstractCall

(* A canceled request is answered before the rest of its batch is executed. *)
LEMMA CheckCanceledStep ==
    ASSUME IndInv, NEW h \in Handles, NEW s \in Submitters, CheckCanceled(h, s)
    PROVE  Abstract!AnswerCanceled(s) \/ UNCHANGED Abstract!vars
<1>1. /\ gor[h] = "drain" /\ s \in batch[h] /\ gor' = gor /\ pc' = pc /\ at' = at
      /\ \A g \in Handles \ {h} : batch'[g] = batch[g]
      /\ outcome' = outcome /\ canceled' = canceled /\ closed' = closed
    BY DEF CheckCanceled, IndInv, TypeOK
<1>2. RunningKept
    BY <1>1 DEF RunningKept
<1>3. AbstractRunning = {} /\ AbstractRunning' = AbstractRunning
    BY <1>1, <1>2, RunningIs, RunningFrame
<1>4. CASE s \in canceled
  <2>1. reply'[s] = {"canceled"} /\ \A x \in Submitters \ {s} : reply'[x] = reply[x]
      BY <1>4 DEF CheckCanceled, IndInv, TypeOK
  <2>2. AbstractCall[s] = "open"
      BY <1>1, OpenCalls
  <2>3. CallState(s)' = "canceled"
    <3>1. CallState(s)' = CHOOSE v \in {"canceled"} : TRUE
        BY <2>1 DEF CallState
    <3>2. (CHOOSE v \in {"canceled"} : TRUE) = "canceled"
        OBVIOUS
    <3> QED BY <3>1, <3>2
  <2>4. ASSUME NEW x \in Submitters \ {s} PROVE CallState(x)' = CallState(x)
    <3>1. reply'[x] = reply[x]
        BY <2>1
    <3> QED BY <1>1, <3>1 DEF CallState
  <2>5. Abstract!Answer({s}, "canceled")
      BY <2>3, <2>4, AnswerIs
  <2> QED BY <1>1, <1>3, <1>4, <2>2, <2>5 DEF Abstract!AnswerCanceled, Abstract!Open
<1>5. CASE s \notin canceled
  <2>1. CallsKept
      BY <1>1, <1>5 DEF CheckCanceled, CallsKept
  <2> QED BY <1>1, <1>3, <2>1, CallFrame, StutterFrame
<1> QED BY <1>4, <1>5

(* An execution begins, with the calls of the batch. *)
LEMMA BeginStep ==
    ASSUME IndInv, IndInv', NEW h \in Handles, FinishCheckCanceled(h), batch[h] # {}
    PROVE  Abstract!Begin
<1>1. /\ gor[h] = "drain" /\ gor'[h] = "execute"
      /\ \A g \in Handles \ {h} : gor'[g] = gor[g]
      /\ batch' = batch /\ pc' = pc /\ at' = at /\ reply' = reply /\ outcome' = outcome
      /\ canceled' = canceled /\ closed' = closed
    BY DEF FinishCheckCanceled, IndInv, TypeOK
<1>2. AbstractRunning = {}
    BY <1>1, RunningIs
<1>3. AbstractRunning' = batch[h]
  <2>1. \A g \in Handles : gor'[g] = "execute" => g = h
      BY <1>1 DEF IndInv, MapServed
  <2> QED BY <1>1, <2>1 DEF AbstractRunning
<1>4. batch[h] \subseteq Abstract!Open
    BY <1>1, OpenCalls DEF Abstract!Open
<1>5. CallsKept
    BY <1>1 DEF CallsKept
<1>6. AbstractCall' = AbstractCall
    BY <1>5, CallFrame DEF AbstractCall
<1> QED BY <1>1, <1>2, <1>3, <1>4, <1>6 DEF Abstract!Begin

(* The adapter answers: the outcome of the whole batch is decided at once. *)
LEMMA OutcomeDecided ==
    ASSUME IndInv, NEW h \in Handles, gor[h] \in {"batch", "execute"}, NEW v \in Outcomes,
           outcome' = [outcome EXCEPT ![h] = v], gor' = [gor EXCEPT ![h] = "reply"],
           batch' = batch, pc' = pc, at' = at, reply' = reply
    PROVE  Abstract!Answer(batch[h], v) /\ AbstractRunning' = {}
<1>1. /\ gor'[h] = "reply" /\ outcome'[h] = v
      /\ \A g \in Handles \ {h} : gor'[g] = gor[g] /\ outcome'[g] = outcome[g]
    BY DEF IndInv, TypeOK
<1>2. ASSUME NEW s \in batch[h] PROVE CallState(s)' = v
  <2>1. pc[s] = "wait" /\ at[s] = h /\ reply[s] = {}
      BY <1>2, OpenCalls
  <2> QED BY <1>1, <2>1 DEF CallState
<1>3. ASSUME NEW s \in Submitters \ batch[h] PROVE CallState(s)' = CallState(s)
  <2>1. CASE pc[s] = "wait" /\ reply[s] = {}
    <3>1. at[s] \in Handles \ {h}
        BY <1>3, <2>1 DEF IndInv, RepliedOnce, CreatorStarts
    <3> QED BY <1>1, <3>1 DEF CallState
  <2>2. CASE ~(pc[s] = "wait" /\ reply[s] = {})
      BY <2>2 DEF CallState
  <2> QED BY <2>1, <2>2
<1>4. batch[h] \in SUBSET Submitters
    BY DEF IndInv, TypeOK
<1>5. \A g \in Handles : gor'[g] # "execute"
    BY <1>1 DEF IndInv, MapServed
<1>6. AbstractRunning' = {}
    BY <1>5 DEF AbstractRunning
<1> QED BY <1>2, <1>3, <1>4, <1>6, AnswerIs

(* Success or an error ends the abstract execution. *)
LEMMA ExecuteStep ==
    ASSUME IndInv, NEW h \in Handles, Execute(h)
    PROVE  Abstract!End
<1>1. /\ gor[h] = "execute" /\ gor' = [gor EXCEPT ![h] = "reply"]
      /\ batch' = batch /\ pc' = pc /\ at' = at /\ reply' = reply
      /\ canceled' = canceled /\ closed' = closed
    BY DEF Execute
<1>2. PICK v \in {"ok", "error"} : outcome' = [outcome EXCEPT ![h] = v]
    BY DEF Execute
<1>3. v \in Outcomes
    BY DEF Outcomes
<1>4. AbstractRunning = batch[h] /\ batch[h] # {}
    BY <1>1, RunningIs DEF IndInv, Answered
<1>5. Abstract!Answer(batch[h], v) /\ AbstractRunning' = {}
    BY <1>1, <1>2, <1>3, OutcomeDecided
<1> QED BY <1>1, <1>4, <1>5 DEF Abstract!End

(* The pool is closed: the calls of a waiting batch are answered. *)
LEMMA PoolCanceledStep ==
    ASSUME IndInv, NEW h \in Handles, PoolCanceled(h)
    PROVE  Abstract!AnswerClosed \/ UNCHANGED Abstract!vars
<1>1. /\ gor[h] = "batch" /\ gor' = [gor EXCEPT ![h] = "reply"] /\ closed
      /\ outcome' = [outcome EXCEPT ![h] = "closed"]
      /\ batch' = batch /\ pc' = pc /\ at' = at /\ reply' = reply
      /\ canceled' = canceled /\ closed' = closed
    BY DEF PoolCanceled
<1>2. AbstractRunning = {}
    BY <1>1, RunningIs
<1>3. Abstract!Answer(batch[h], "closed") /\ AbstractRunning' = {}
    BY <1>1, OutcomeDecided DEF Outcomes
<1>4. batch[h] \subseteq Abstract!Open
    BY <1>1, OpenCalls DEF Abstract!Open
<1>5. CASE batch[h] # {}
    BY <1>1, <1>2, <1>3, <1>4, <1>5 DEF Abstract!AnswerClosed
<1>6. CASE batch[h] = {}
  <2>1. AbstractCall' = AbstractCall
      BY <1>3, <1>6 DEF Abstract!Answer, AbstractCall
  <2> QED BY <1>1, <1>2, <1>3, <2>1 DEF Abstract!vars
<1> QED BY <1>5, <1>6

(* The adapter wants a retry: the execution ends without an answer. *)
LEMMA NeedRetryStep ==
    ASSUME IndInv, NEW h \in Handles, NeedRetry(h)
    PROVE  Abstract!Retry
<1>1. /\ gor[h] = "execute" /\ gor'[h] = "batch"
      /\ \A g \in Handles \ {h} : gor'[g] = gor[g]
      /\ batch' = batch /\ pc' = pc /\ at' = at /\ reply' = reply /\ outcome' = outcome
      /\ canceled' = canceled /\ closed' = closed
    BY DEF NeedRetry, IndInv, TypeOK
<1>2. AbstractRunning = batch[h] /\ batch[h] # {}
    BY <1>1, RunningIs DEF IndInv, Answered
<1>3. \A g \in Handles : gor'[g] # "execute"
    BY <1>1 DEF IndInv, MapServed
<1>4. AbstractRunning' = {}
    BY <1>3 DEF AbstractRunning
<1>5. CallsKept
    BY <1>1 DEF CallsKept
<1>6. AbstractCall' = AbstractCall
    BY <1>5, CallFrame DEF AbstractCall
<1> QED BY <1>1, <1>2, <1>4, <1>6 DEF Abstract!Retry

(* A call begins in both. *)
LEMMA CallStep ==
    ASSUME IndInv, NEW s \in Submitters, Call(s)
    PROVE  Abstract!Submit(s)
<1>1. /\ pc[s] = "idle" /\ pc'[s] = "load" /\ reply[s] = {}
      /\ \A x \in Submitters \ {s} : pc'[x] = pc[x]
      /\ at' = at /\ gor' = gor /\ batch' = batch /\ outcome' = outcome /\ reply' = reply
      /\ canceled' = canceled /\ closed' = closed
    BY DEF Call, goroutine, IndInv, TypeOK, Answered
<1>2. AbstractRunning' = AbstractRunning
    BY <1>1 DEF AbstractRunning
<1>3. CallState(s) = "idle" /\ CallState(s)' = "open"
    BY <1>1 DEF CallState
<1>4. \A x \in Submitters \ {s} : CallState(x)' = CallState(x)
    BY <1>1 DEF CallState
<1> QED BY <1>1, <1>2, <1>3, <1>4 DEF Abstract!Submit, AbstractCall

(* The contexts of a call and of the pool are those of the abstract pool. *)
LEMMA ContextStep ==
    ASSUME IndInv, Close \/ \E s \in Submitters : Cancel(s)
    PROVE  Abstract!Close \/ \E s \in Submitters : Abstract!Cancel(s)
<1>1. pc' = pc /\ at' = at /\ gor' = gor /\ batch' = batch /\ outcome' = outcome /\ reply' = reply
    BY DEF Close, Cancel, goroutine
<1>2. AbstractRunning' = AbstractRunning /\ AbstractCall' = AbstractCall
    BY <1>1 DEF AbstractRunning, AbstractCall, CallState
<1>3. CASE Close
    BY <1>2, <1>3 DEF Close, Abstract!Close
<1>4. CASE \E s \in Submitters : Cancel(s)
    BY <1>2, <1>4 DEF Cancel, Abstract!Cancel
<1> QED BY <1>3, <1>4

(***************************************************************************)
(* The pool of util/retrybatch implements BatchPool: its executions do not *)
(* overlap, all calls of an execution share its outcome, and every call is *)
(* answered at most once, for a reason, and not executed afterwards.       *)
(***************************************************************************)
THEOREM PoolImplements == Spec => Refines
<1>1. Init => Abstract!Init
  <2> SUFFICES ASSUME Init PROVE Abstract!Init
      OBVIOUS
  <2>1. AbstractCall = [s \in Submitters |-> "idle"]
      BY DEF Init, AbstractCall, CallState
  <2>2. AbstractRunning = {}
      BY DEF Init, AbstractRunning
  <2> QED BY <2>1, <2>2 DEF Init, Abstract!Init
<1>2. IndInv /\ IndInv' /\ [Next]_vars => [Abstract!Next]_(Abstract!vars)
  <2> SUFFICES ASSUME IndInv, IndInv', [Next]_vars
               PROVE  Abstract!Next \/ UNCHANGED Abstract!vars
      OBVIOUS
  <2>1. ASSUME NEW s \in Submitters, Call(s) \/ Submit(s)
        PROVE  Abstract!Next \/ UNCHANGED Abstract!vars
      BY <2>1, CallStep, SubmitStutters DEF Abstract!Next
  <2>2. CASE Close \/ \E s \in Submitters : Cancel(s)
      BY <2>2, ContextStep DEF Abstract!Next
  <2>3. ASSUME NEW h \in Handles, NEW s \in Submitters,
               Receive(h, s) \/ CheckCanceled(h, s) \/ DispatchResult(h, s)
        PROVE  Abstract!Next \/ UNCHANGED Abstract!vars
      BY <2>3, ReceiveStutters, CheckCanceledStep, DispatchStutters DEF Abstract!Next
  <2>4. ASSUME NEW h \in Handles,
               \/ NoRequest(h) \/ Fuse(h) \/ Cleanup(h) \/ StartCheckCanceled(h)
               \/ FinishCheckCanceled(h) \/ FinishDispatchResult(h)
        PROVE  Abstract!Next \/ UNCHANGED Abstract!vars
      BY <2>4, IdleStutters, BeginStep, FinishDispatchStutters DEF Abstract!Next
  <2>5. ASSUME NEW h \in Handles, PoolCanceled(h) \/ Execute(h) \/ NeedRetry(h)
        PROVE  Abstract!Next \/ UNCHANGED Abstract!vars
      BY <2>5, PoolCanceledStep, ExecuteStep, NeedRetryStep DEF Abstract!Next
  <2>6. CASE UNCHANGED vars
      BY <2>6 DEF vars, goroutine, Abstract!vars, AbstractCall, CallState, AbstractRunning
  <2> QED BY <2>1, <2>2, <2>3, <2>4, <2>5, <2>6 DEF Next, batchGoroutine, Quiescent
<1> QED BY <1>1, <1>2, Inductive, PTL DEF Spec, Refines, Abstract!Spec
=============================================================================
