-------------------------- MODULE WorkerPoolProofs --------------------------
(***************************************************************************)
(* processWeapons for any number of weapons and workers: nothing is lost   *)
(* or doubled when it returns nil, no goroutine sends on a closed channel, *)
(* and every step is one of the parallel map or invisible to it.           *)
(***************************************************************************)
EXTENDS WorkerPool, TLAPS

\* The initial state satisfies the invariant.
LEMMA PoolInvInit == Init => PoolInv
<1> SUFFICES ASSUME Init PROVE PoolInv
  OBVIOUS
<1>1. TypeOK
  BY DEF Init, TypeOK
<1>2. NoneTwice
  BY WorkerPoolAssumption DEF Init, NoneTwice
<1>3. Accounted
  BY DEF Init, Accounted
<1>4. \A w \in Workers : worker[w] = "receiving" /\ held[w] = None
  BY DEF Init
<1>5. Phased
  BY <1>4 DEF Init, Phased, GroupReturned
<1>6. NilMeansAll
  BY DEF Init, NilMeansAll
<1> QED
  BY <1>1, <1>2, <1>3, <1>5, <1>6 DEF PoolInv

\* What a worker is about to send has not been collected.
LEMMA HeldNotCollected ==
    ASSUME PoolInv, NEW w \in Workers, worker[w] = "sending"
    PROVE  /\ held[w] \in Hashes
           /\ collected[held[w]] = 0
           /\ held[w] \notin todo
           /\ \A v \in Workers \ {w} : held[v] # held[w]
<1>1. held[w] # None
  BY DEF PoolInv, Phased
<1>2. held[w] \in Hashes
  BY <1>1 DEF PoolInv, TypeOK
<1>3. collected[held[w]] \in Nat
  BY <1>2 DEF PoolInv, TypeOK
<1>4. collected[held[w]] <= 1 /\ collected[held[w]] # 1
  BY <1>2 DEF PoolInv, NoneTwice
<1>5. held[w] \notin todo /\ \A v \in Workers \ {w} : held[v] # held[w]
  BY <1>1 DEF PoolInv, NoneTwice
<1> QED
  BY <1>2, <1>3, <1>4, <1>5

\* Every step preserves the invariant.
LEMMA PoolInvNext == PoolInv /\ [Next]_vars => PoolInv'
<1> SUFFICES ASSUME PoolInv, [Next]_vars PROVE PoolInv'
  OBVIOUS
<1> USE WorkerPoolAssumption
    DEF PoolInv, TypeOK, NoneTwice, Accounted, Phased, NilMeansAll,
        GroupReturned
<1>1. CASE UNCHANGED vars
  BY <1>1 DEF vars
<1>2. ASSUME NEW w \in Workers, SendJob(w) PROVE PoolInv'
  <2> PICK h \in todo : /\ todo' = todo \ {h}
                        /\ held' = [held EXCEPT ![w] = h]
    BY <1>2 DEF SendJob
  <2>1. TypeOK'
    BY <1>2 DEF SendJob
  <2>2. NoneTwice'
    BY <1>2 DEF SendJob
  <2>3. Accounted'
    BY <1>2 DEF SendJob
  <2>4. Phased' /\ NilMeansAll'
    BY <1>2 DEF SendJob
  <2> QED
    BY <2>1, <2>2, <2>3, <2>4
<1>3. CASE FeederFinish
  BY <1>3 DEF FeederFinish
<1>4. CASE FeederCancelled
  BY <1>4 DEF FeederCancelled, Done
<1>5. ASSUME NEW w \in Workers, SendResult(w) PROVE PoolInv'
  <2> DEFINE h == held[w]
  <2>1. /\ worker[w] = "sending"
        /\ collected' = [collected EXCEPT ![h] = collected[h] + 1]
        /\ held' = [held EXCEPT ![w] = None]
        /\ worker' = [worker EXCEPT ![w] = "receiving"]
        /\ UNCHANGED <<todo, feeder, jobsClosed, closer, outClosed, collector,
                       cancelled, groupError, ret>>
        /\ collector = "collecting"
    BY <1>5 DEF SendResult
  <2>2. h \in Hashes /\ h # None
    BY <2>1
  <2>3. /\ collected[h] = 0
        /\ h \notin todo
        /\ \A v \in Workers \ {w} : held[v] # h
    <3> HIDE DEF PoolInv, TypeOK, NoneTwice, Accounted, Phased, NilMeansAll
    <3> QED
      BY <2>1, HeldNotCollected
  <2>4. collected' = [collected EXCEPT ![h] = 1]
    BY <2>1, <2>3
  <2> HIDE DEF h
  <2>5. TypeOK'
    BY <2>1, <2>2, <2>4
  <2>6. NoneTwice'
    <3>1. \A x \in Hashes : collected'[x] = IF x = h THEN 1 ELSE collected[x]
      BY <2>2, <2>4
    <3>2. \A v \in Workers : held'[v] = IF v = w THEN None ELSE held[v]
      BY <2>1
    <3>3. None \notin todo
      OBVIOUS
    <3> HIDE DEF TypeOK, Accounted, Phased, NilMeansAll
    <3> QED
      BY <3>1, <3>2, <3>3, <2>1, <2>2, <2>3
  <2>7. Accounted'
    BY <2>1, <2>2, <2>4 DEF h
  <2>8. Phased' /\ NilMeansAll'
    BY <2>1
  <2> QED
    BY <2>5, <2>6, <2>7, <2>8
<1>6. ASSUME NEW w \in Workers, WorkerCancelled(w) PROVE PoolInv'
  BY <1>6 DEF WorkerCancelled, Done
<1>7. ASSUME NEW w \in Workers, WorkerFinish(w) PROVE PoolInv'
  BY <1>7 DEF WorkerFinish
<1>8. CASE CloseOut
  BY <1>8 DEF CloseOut
<1>9. CASE CollectorFinish
  BY <1>9 DEF CollectorFinish
<1>10. CASE CancelContext
  BY <1>10 DEF CancelContext
<1>11. CASE Finished
  BY <1>11 DEF Finished, vars
<1> HIDE DEF PoolInv, TypeOK, NoneTwice, Accounted, Phased, NilMeansAll,
    GroupReturned
<1> QED
  BY <1>1, <1>2, <1>3, <1>4, <1>5, <1>6, <1>7, <1>8, <1>9, <1>10, <1>11
     DEF Next, Goroutines

\* The invariant holds in every reachable state.
THEOREM PoolInvariance == Spec => []PoolInv
BY PoolInvInit, PoolInvNext, PTL DEF Spec

\* NilMeansAll: a nil error stands for the whole result.
THEOREM NilIsComplete == Spec => []NilMeansAll
<1>1. PoolInv => NilMeansAll
  BY DEF PoolInv
<1> QED
  BY <1>1, PoolInvariance, PTL

\* The state of every behaviour is well typed.
THEOREM PoolTypeCorrect == Spec => []TypeOK
<1>1. PoolInv => TypeOK
  BY DEF PoolInv
<1> QED
  BY <1>1, PoolInvariance, PTL

\* NoneTwice: a weapon is in one place at a time, and collected once.
THEOREM NoneCollectedTwice == Spec => []NoneTwice
<1>1. PoolInv => NoneTwice
  BY DEF PoolInv
<1> QED
  BY <1>1, PoolInvariance, PTL

\* NoSendOnClosed: no send can meet a closed channel.
THEOREM NoPanicOnSend == Spec => []NoSendOnClosed
<1>1. PoolInv => NoSendOnClosed
  BY DEF PoolInv, Phased, NoSendOnClosed, GroupReturned
<1> QED
  BY <1>1, PoolInvariance, PTL

\* Every step of the pool is a step of the parallel map or leaves what its
\* caller sees unchanged.
THEOREM PoolRefinesMap == Spec => Promise!Init /\ [][Promise!Next]_(Promise!vars)
<1>1. Init => Promise!Init
  BY DEF Init, Promise!Init
<1>2. PoolInv /\ [Next]_vars => [Promise!Next]_(Promise!vars)
  <2> SUFFICES ASSUME PoolInv, [Next]_vars
               PROVE  Promise!Next \/ UNCHANGED Promise!vars
    OBVIOUS
  <2> USE DEF Promise!vars
  <2>1. CASE UNCHANGED vars \/ Finished
    BY <2>1 DEF vars, Finished
  <2>2. CASE FeederFinish \/ FeederCancelled \/ CloseOut
    BY <2>2 DEF FeederFinish, FeederCancelled, CloseOut
  <2>3. CASE \E w \in Workers : SendJob(w) \/ WorkerCancelled(w) \/ WorkerFinish(w)
    BY <2>3 DEF SendJob, WorkerCancelled, WorkerFinish
  <2>4. ASSUME NEW w \in Workers, SendResult(w) PROVE Promise!Next
    <3>1. held[w] \in Hashes /\ collected[held[w]] = 0 /\ ret = "running"
      BY <2>4, HeldNotCollected DEF SendResult, PoolInv, Phased
    <3>2. Promise!Collect(held[w])
      BY <3>1, <2>4 DEF SendResult, Promise!Collect
    <3> QED
      BY <3>1, <3>2 DEF Promise!Next
  <2>5. ASSUME CollectorFinish PROVE Promise!Next
    <3>1. ret = "running" /\ (groupError => cancelled)
      BY <2>5 DEF CollectorFinish, PoolInv, Phased
    <3>2. CASE groupError
      BY <3>1, <3>2, <2>5
         DEF CollectorFinish, Promise!ReturnError, Promise!Return, Promise!Next
    <3>3. CASE ~groupError
      <4>1. ret' = "nil" /\ UNCHANGED <<collected, cancelled>>
        BY <3>3, <2>5 DEF CollectorFinish
      <4>2. NilMeansAll'
        BY PoolInvNext DEF PoolInv
      <4>3. \A h \in Hashes : collected[h] = 1
        BY <4>1, <4>2 DEF NilMeansAll
      <4> QED
        BY <3>1, <4>1, <4>3 DEF Promise!ReturnAll, Promise!Return, Promise!Next
    <3> QED
      BY <3>2, <3>3
  <2>6. CASE CancelContext
    BY <2>6 DEF CancelContext, Promise!Cancel, Promise!Next
  <2> QED
    BY <2>1, <2>2, <2>3, <2>4, <2>5, <2>6 DEF Next, Goroutines
<1> QED
  BY <1>1, <1>2, PoolInvariance, PTL DEF Spec
=============================================================================
