----------------------------- MODULE WorkerPool -----------------------------
(***************************************************************************)
(* The goroutines of processWeapons: a feeder and the workers in one       *)
(* errgroup, a closer that waits for the group, and the collector, which   *)
(* is the calling goroutine.  The channels jobs and out are unbuffered, so *)
(* a send and its receive are one step.  The errgroup cancels gctx at the  *)
(* first error and when Wait returns; the caller's context cancels it too. *)
(***************************************************************************)
EXTENDS Naturals, FiniteSets

CONSTANTS
    Hashes,     \* the weapon hashes
    Workers,    \* the worker goroutines
    None        \* no hash

ASSUME WorkerPoolAssumption ==
    /\ Hashes \subseteq Nat
    /\ IsFiniteSet(Hashes)
    /\ Workers # {}
    /\ None \notin Hashes

VARIABLES
    todo,       \* hashes the feeder has not sent
    feeder,     \* "sending" or "returned"
    jobsClosed,
    worker,     \* worker[w] : "receiving", "sending" or "returned"
    held,       \* held[w]   : the result worker w wants to send, or None
    closer,     \* "waiting" or "returned"
    outClosed,
    collector,  \* "collecting" or "returned"
    collected,  \* collected[h] : how often h was appended to results
    cancelled,  \* the caller's context
    groupError, \* the errgroup holds an error
    ret         \* what processWeapons returned: "running", "nil", "error"

vars == <<todo, feeder, jobsClosed, worker, held, closer, outClosed,
          collector, collected, cancelled, groupError, ret>>

TypeOK ==
    /\ todo \subseteq Hashes
    /\ feeder \in {"sending", "returned"}
    /\ jobsClosed \in BOOLEAN
    /\ worker \in [Workers -> {"receiving", "sending", "returned"}]
    /\ held \in [Workers -> Hashes \cup {None}]
    /\ closer \in {"waiting", "returned"}
    /\ outClosed \in BOOLEAN
    /\ collector \in {"collecting", "returned"}
    /\ collected \in [Hashes -> Nat]
    /\ cancelled \in BOOLEAN
    /\ groupError \in BOOLEAN
    /\ ret \in {"running", "nil", "error"}

Init ==
    /\ todo = Hashes
    /\ feeder = "sending"
    /\ jobsClosed = FALSE
    /\ worker = [w \in Workers |-> "receiving"]
    /\ held = [w \in Workers |-> None]
    /\ closer = "waiting"
    /\ outClosed = FALSE
    /\ collector = "collecting"
    /\ collected = [h \in Hashes |-> 0]
    /\ cancelled \in BOOLEAN
    /\ groupError = FALSE
    /\ ret = "running"

\* gctx.Done() is ready.  After Wait has returned no one selects on it.
Done == cancelled \/ groupError

GroupReturned == feeder = "returned" /\ \A w \in Workers : worker[w] = "returned"

-----------------------------------------------------------------------------
(* The feeder.  select takes either ready case.                            *)

\* Faulty variant: the hash stays in line.
SendJobAgain(w) ==
    /\ feeder = "sending"
    /\ worker[w] = "receiving"
    /\ \E h \in todo : held' = [held EXCEPT ![w] = h]
    /\ worker' = [worker EXCEPT ![w] = "sending"]
    /\ UNCHANGED <<todo, feeder, jobsClosed, closer, outClosed, collector,
                   collected, cancelled, groupError, ret>>

\* The feeder hands the next hash to a receiving worker, which processes it.
SendJob(w) ==
    /\ feeder = "sending"
    /\ worker[w] = "receiving"
    /\ \E h \in todo : /\ \A x \in todo : h <= x
                       /\ todo' = todo \ {h}
                       /\ held' = [held EXCEPT ![w] = h]
    /\ worker' = [worker EXCEPT ![w] = "sending"]
    /\ UNCHANGED <<feeder, jobsClosed, closer, outClosed, collector,
                   collected, cancelled, groupError, ret>>

FeederFinish ==
    /\ feeder = "sending"
    /\ todo = {}
    /\ feeder' = "returned"
    /\ jobsClosed' = TRUE
    /\ UNCHANGED <<todo, worker, held, closer, outClosed, collector,
                   collected, cancelled, groupError, ret>>

\* Faulty variants: close(jobs) is not deferred; the error is dropped.
FeederCancelledOpen ==
    /\ feeder = "sending"
    /\ todo # {}
    /\ Done
    /\ feeder' = "returned"
    /\ groupError' = TRUE
    /\ UNCHANGED <<todo, jobsClosed, worker, held, closer, outClosed,
                   collector, collected, cancelled, ret>>

FeederCancelledNil ==
    /\ feeder = "sending"
    /\ todo # {}
    /\ Done
    /\ feeder' = "returned"
    /\ jobsClosed' = TRUE
    /\ UNCHANGED <<todo, worker, held, closer, outClosed, collector,
                   collected, cancelled, groupError, ret>>

\* close(jobs) is deferred, so it happens on this way out too.
FeederCancelled ==
    /\ feeder = "sending"
    /\ todo # {}
    /\ Done
    /\ feeder' = "returned"
    /\ jobsClosed' = TRUE
    /\ groupError' = TRUE
    /\ UNCHANGED <<todo, worker, held, closer, outClosed, collector,
                   collected, cancelled, ret>>

-----------------------------------------------------------------------------
(* The workers.                                                            *)

SendResult(w) ==
    /\ worker[w] = "sending"
    /\ collector = "collecting"
    /\ collected' = [collected EXCEPT ![held[w]] = @ + 1]
    /\ held' = [held EXCEPT ![w] = None]
    /\ worker' = [worker EXCEPT ![w] = "receiving"]
    /\ UNCHANGED <<todo, feeder, jobsClosed, closer, outClosed, collector,
                   cancelled, groupError, ret>>

\* Faulty variant: a cancelled worker returns nil.
WorkerCancelledNil(w) ==
    /\ worker[w] = "sending"
    /\ Done
    /\ held' = [held EXCEPT ![w] = None]
    /\ worker' = [worker EXCEPT ![w] = "returned"]
    /\ UNCHANGED <<todo, feeder, jobsClosed, closer, outClosed, collector,
                   collected, cancelled, groupError, ret>>

WorkerCancelled(w) ==
    /\ worker[w] = "sending"
    /\ Done
    /\ held' = [held EXCEPT ![w] = None]
    /\ worker' = [worker EXCEPT ![w] = "returned"]
    /\ groupError' = TRUE
    /\ UNCHANGED <<todo, feeder, jobsClosed, closer, outClosed, collector,
                   collected, cancelled, ret>>

\* Faulty variant: the zero value of the closed channel is taken for a hash.
WorkerZeroHash(w) ==
    /\ worker[w] = "receiving"
    /\ jobsClosed
    /\ held' = [held EXCEPT ![w] = 0]
    /\ worker' = [worker EXCEPT ![w] = "sending"]
    /\ UNCHANGED <<todo, feeder, jobsClosed, closer, outClosed, collector,
                   collected, cancelled, groupError, ret>>

WorkerFinish(w) ==
    /\ worker[w] = "receiving"
    /\ jobsClosed
    /\ worker' = [worker EXCEPT ![w] = "returned"]
    /\ UNCHANGED <<todo, feeder, jobsClosed, held, closer, outClosed,
                   collector, collected, cancelled, groupError, ret>>

-----------------------------------------------------------------------------
(* The closer and the collector.                                           *)

\* Faulty variant: out is closed when the feeder is done.
CloseOutEarly ==
    /\ closer = "waiting"
    /\ feeder = "returned"
    /\ closer' = "returned"
    /\ outClosed' = TRUE
    /\ UNCHANGED <<todo, feeder, jobsClosed, worker, held, collector,
                   collected, cancelled, groupError, ret>>

CloseOut ==
    /\ closer = "waiting"
    /\ GroupReturned
    /\ closer' = "returned"
    /\ outClosed' = TRUE
    /\ UNCHANGED <<todo, feeder, jobsClosed, worker, held, collector,
                   collected, cancelled, groupError, ret>>

\* Faulty variant: the error of the second g.Wait is ignored.
CollectorFinishNil ==
    /\ collector = "collecting"
    /\ outClosed
    /\ collector' = "returned"
    /\ ret' = "nil"
    /\ UNCHANGED <<todo, feeder, jobsClosed, worker, held, closer, outClosed,
                   collected, cancelled, groupError>>

\* The range over out ends, g.Wait returns the group's error, and the
\* results are sorted by hash.
CollectorFinish ==
    /\ collector = "collecting"
    /\ outClosed
    /\ GroupReturned
    /\ collector' = "returned"
    /\ ret' = IF groupError THEN "error" ELSE "nil"
    /\ UNCHANGED <<todo, feeder, jobsClosed, worker, held, closer, outClosed,
                   collected, cancelled, groupError>>

\* SIGINT or SIGTERM cancels the caller's context.
CancelContext ==
    /\ ~cancelled
    /\ cancelled' = TRUE
    /\ UNCHANGED <<todo, feeder, jobsClosed, worker, held, closer, outClosed,
                   collector, collected, groupError, ret>>

-----------------------------------------------------------------------------
Goroutines ==
    \/ FeederFinish
    \/ FeederCancelled
    \/ \E w \in Workers : \/ SendJob(w)
                          \/ SendResult(w)
                          \/ WorkerCancelled(w)
                          \/ WorkerFinish(w)
    \/ CloseOut
    \/ CollectorFinish

\* The call is over; nothing is left running.
Finished == collector = "returned" /\ UNCHANGED vars

Next == Goroutines \/ CancelContext \/ Finished

\* The Go scheduler runs every goroutine that can run.
Spec == Init /\ [][Next]_vars /\ WF_vars(Goroutines)

-----------------------------------------------------------------------------
(* Properties.                                                             *)

\* NilMeansAll: when processWeapons returns no error, every weapon is in the
\* results exactly once, whatever was cancelled meanwhile.
NilMeansAll == ret = "nil" => \A h \in Hashes : collected[h] = 1

\* NoneTwice: no weapon is ever collected twice, and one that is collected is
\* neither waiting at the feeder nor held by a worker.
NoneTwice ==
    /\ \A h \in Hashes : collected[h] <= 1
    /\ \A h \in Hashes : collected[h] = 1 =>
          h \notin todo /\ \A w \in Workers : held[w] # h
    /\ \A w \in Workers : held[w] \notin todo
    /\ \A v, w \in Workers : held[v] = held[w] /\ held[v] # None => v = w

\* NoSendOnClosed: nobody can be about to send on a closed channel, which
\* would panic ("close(out)" is sequenced after g.Wait, "close(jobs)" after
\* the feeder's last send).
NoSendOnClosed ==
    /\ outClosed => \A w \in Workers : worker[w] # "sending"
    /\ jobsClosed => feeder = "returned"

\* AllReturn: the call returns and leaves no goroutine behind, cancelled or
\* not ("no goroutine can deadlock waiting on a dead counterpart").
AllReturn ==
    <>(ret # "running" /\ GroupReturned /\ closer = "returned")

\* The pool implements the plain parallel map.
Promise == INSTANCE ParallelMap WITH
    Hashes <- Hashes, collected <- collected, cancelled <- cancelled,
    ret <- ret

ImplementsMap == Promise!Spec

-----------------------------------------------------------------------------
(* The inductive invariant (WorkerPoolProofs): without an error, a hash is *)
(* in exactly one of three places, and the phases follow one another.      *)

Accounted ==
    groupError \/ \A h \in Hashes :
        h \in todo \/ collected[h] = 1 \/ \E w \in Workers : held[w] = h

Phased ==
    /\ \A w \in Workers : worker[w] = "sending" <=> held[w] # None
    /\ groupError => cancelled
    /\ jobsClosed <=> feeder = "returned"
    /\ feeder = "returned" /\ ~groupError => todo = {}
    /\ outClosed => closer = "returned"
    /\ closer = "returned" => GroupReturned
    /\ collector = "returned" => closer = "returned"
    /\ ret = "running" <=> collector = "collecting"

PoolInv == TypeOK /\ NoneTwice /\ Accounted /\ Phased /\ NilMeansAll
=============================================================================
