--------------------------- MODULE DownloadProofs ---------------------------
(***************************************************************************)
(* The download for any number of tables, entries and attempts: what each  *)
(* position of each concurrent call says of the rest of its state, and     *)
(* what follows of retries, bodies, errors and the result.                 *)
(***************************************************************************)
EXTENDS Download, TLAPS

\* What a body says, and which bodies there are.
LEMMA BodyFacts ==
    /\ \A b \in Bodies : /\ b.entries \in 0 .. Size
                         /\ b.whole \in BOOLEAN
                         /\ b.whole => b.entries = Size
                         /\ b # NoBody
    /\ [entries : {0}, whole : {FALSE}] \subseteq Bodies
<1>1. ASSUME NEW b \in Bodies
      PROVE  /\ b.entries \in 0 .. Size
             /\ b.whole \in BOOLEAN
             /\ b.whole => b.entries = Size
  <2>1. CASE b \in [entries : 0 .. Size, whole : {FALSE}]
    <3>1. b.entries \in 0 .. Size /\ b.whole = FALSE
      BY <2>1
    <3> QED
      BY <3>1
  <2>2. CASE b \in [entries : {Size}, whole : {TRUE}]
    <3>1. b.entries = Size /\ b.whole = TRUE
      BY <2>2
    <3>2. b.entries \in 0 .. Size
      BY <3>1, HttpGetAssumption
    <3>3. b.whole \in BOOLEAN
      BY <3>1
    <3> QED
      BY <3>1, <3>2, <3>3
  <2> QED
    BY <2>1, <2>2 DEF Bodies
<1>2. [entries : {0}, whole : {FALSE}] \subseteq Bodies
  <2>1. 0 \in 0 .. Size
    BY HttpGetAssumption
  <2>2. [entries : {0}, whole : {FALSE}]
            \subseteq [entries : 0 .. Size, whole : {FALSE}]
    BY <2>1
  <2> QED
    BY <2>2 DEF Bodies
<1> QED
  BY <1>1, <1>2, HttpGetAssumption

\* The initial state satisfies the invariant.
LEMMA DownloadInvInit == Init => DownloadInv
BY HttpGetAssumption, DownloadAssumption
   DEF Init, HttpInit, DownloadInv, DownloadTypeOK, HttpTypeOK, Positions, Paths,
       RetriesBounded, NoBodyLeft, RootCause, CallInv, TableInv

\* Every step preserves the invariant.
LEMMA DownloadInvNext == DownloadInv /\ [Next]_vars => DownloadInv'
<1> SUFFICES ASSUME DownloadInv, [Next]_vars PROVE DownloadInv'
  OBVIOUS
<1> USE HttpGetAssumption, DownloadAssumption, BodyFacts
    DEF DownloadInv, DownloadTypeOK, HttpTypeOK, RetriesBounded, NoBodyLeft,
        RootCause, CallInv, TableInv, Positions, Paths, Answers, Causes, Goto,
        Error, Close, Done, http
<1>1. CASE UNCHANGED vars \/ Finished
  BY <1>1 DEF vars, Finished
<1>2. CASE CallManifest
  BY <1>2 DEF CallManifest
<1>3. CASE DecodeManifest
  BY <1>3 DEF DecodeManifest
<1>4. CASE StartDownload
  <2>1. CASE \E t \in Tables : path[t] = "absent"
    BY <1>4, <2>1 DEF StartDownload
  <2>2. CASE ~\E t \in Tables : path[t] = "absent"
    <3>1. at' = [c \in Callers |->
                   CASE c = Manifest                      -> "returned"
                     [] c \in Tables /\ path[c] = "empty" -> "failed"
                     [] OTHER                             -> "limiter"]
      BY <1>4, <2>2 DEF StartDownload
    <3>2. /\ at'[Manifest] = "returned"
          /\ \A t \in Tables :
                at'[t] = IF path[t] = "empty" THEN "failed" ELSE "limiter"
      <4>1. at'[Manifest] = "returned"
        BY <3>1
      <4>2. ASSUME NEW t \in Tables, path[t] = "empty" PROVE at'[t] = "failed"
        BY <3>1, <4>2
      <4>3. ASSUME NEW t \in Tables, path[t] # "empty" PROVE at'[t] = "limiter"
        BY <3>1, <4>3
      <4> QED
        BY <4>1, <4>2, <4>3
    <3>3. /\ cause'[Manifest] = "none"
          /\ \A t \in Tables :
                cause'[t] = IF path[t] = "empty" THEN "noPath" ELSE "none"
      BY <1>4, <2>2 DEF StartDownload
    <3>4. at' \in [Callers -> Positions] /\ cause' \in [Callers -> Causes \cup {"none"}]
      BY <1>4, <2>2, <3>1 DEF StartDownload
    <3>5. /\ at[Manifest] = "complete" /\ ret' = "running"
          /\ UNCHANGED <<attempt, answer, body, read, path, cancelled, groupErr>>
      BY <1>4, <2>2 DEF StartDownload
    <3>6. \A c \in Callers : body[c] = NoBody
      BY <3>5
    <3> QED
      BY <2>2, <3>2, <3>3, <3>4, <3>5, <3>6
  <2> QED
    BY <2>1, <2>2
<1>5. CASE ManifestFails
  BY <1>5 DEF ManifestFails
<1>6. ASSUME NEW c \in Callers, WaitLimiter(c, Done),
             UNCHANGED <<read, path, cancelled, groupErr, ret>>
      PROVE  DownloadInv'
  BY <1>6 DEF WaitLimiter
<1>7. ASSUME NEW c \in Callers, Do(c, Done),
             UNCHANGED <<read, path, cancelled, groupErr, ret>>
      PROVE  DownloadInv'
  <2>1. PICK a \in Answers :
           /\ answer' = [answer EXCEPT ![c] = a]
           /\ \E b \in CASE a = "broken" -> {NoBody}
                         [] a = "ok"     -> Bodies
                         [] OTHER        -> [entries : {0}, whole : {FALSE}] :
                 body' = [body EXCEPT ![c] = b]
    BY <1>7 DEF Do
  <2>2. PICK b \in Bodies \cup {NoBody} :
           body' = [body EXCEPT ![c] = b] /\ (a = "ok" => b # NoBody)
    BY <2>1
  <2>3. /\ at[c] = "request"
        /\ at' = [at EXCEPT ![c] = "answered"]
        /\ UNCHANGED <<attempt, cause>>
    BY <1>7 DEF Do
  <2> QED
    BY <1>7, <2>1, <2>2, <2>3
<1>8. ASSUME NEW c \in Callers, HandleOK(c) \/ HandleRefused(c),
             UNCHANGED <<read, path, cancelled, groupErr, ret>>
      PROVE  DownloadInv'
  BY <1>8 DEF HandleOK, HandleRefused
<1>9. ASSUME NEW c \in Callers, HandleRetry(c),
             UNCHANGED <<read, path, cancelled, groupErr, ret>>
      PROVE  DownloadInv'
  BY <1>9 DEF HandleRetry
<1>10. ASSUME NEW c \in Callers, Wake(c),
              UNCHANGED <<read, path, cancelled, groupErr, ret>>
       PROVE  DownloadInv'
  BY <1>10 DEF Wake
<1>11. ASSUME NEW c \in Callers, SleepCancelled(c, Done),
              UNCHANGED <<read, path, cancelled, groupErr, ret>>
       PROVE  DownloadInv'
  BY <1>11 DEF SleepCancelled
<1>12. ASSUME NEW t \in Tables, ReadEntry(t) PROVE DownloadInv'
  BY <1>12 DEF ReadEntry
<1>13. ASSUME NEW t \in Tables, ReadClosing(t) PROVE DownloadInv'
  BY <1>13 DEF ReadClosing
<1>14. ASSUME NEW t \in Tables, ReadFails(t) PROVE DownloadInv'
  BY <1>14 DEF ReadFails
<1>15. ASSUME NEW t \in Tables, GoroutineReturns(t) PROVE DownloadInv'
  BY <1>15 DEF GoroutineReturns
<1>16. CASE WaitGroup
  BY <1>16 DEF WaitGroup
<1>17. CASE CancelContext
  BY <1>17 DEF CancelContext
<1>18. ASSUME NEW c \in Callers, NewRequestFails(c),
              UNCHANGED <<read, path, cancelled, groupErr, ret>>
       PROVE  DownloadInv'
  BY <1>18 DEF NewRequestFails
<1> HIDE DEF DownloadInv, DownloadTypeOK, HttpTypeOK, RetriesBounded,
    NoBodyLeft, RootCause, CallInv, TableInv, Positions, Paths, Answers, Causes,
    Goto, Error, Close, Done, http
<1> QED
  BY <1>1, <1>2, <1>3, <1>4, <1>5, <1>6, <1>7, <1>8, <1>9, <1>10, <1>11,
     <1>12, <1>13, <1>14, <1>15, <1>16, <1>17, <1>18
     DEF Next, Step, ManifestStep, TableStep, Get, GetStep

\* DownloadInv: the invariant holds in every reachable state.
THEOREM DownloadInvariance == Spec => []DownloadInv
BY DownloadInvInit, DownloadInvNext, PTL DEF Spec

\* RetriesBounded: no call of get makes more than MaxAttempts requests,
\* sleeps after its last one or gives up before it.
THEOREM RetriesAreBounded == Spec => []RetriesBounded
<1>1. DownloadInv => RetriesBounded
  BY DEF DownloadInv
<1> QED
  BY <1>1, DownloadInvariance, PTL

\* NilMeansWhole: a download that returns nil has read every table to its
\* end, whatever was cut short, retried or cancelled.
THEOREM NilIsWhole == Spec => []NilMeansWhole
<1>1. DownloadInv => NilMeansWhole
  BY DEF DownloadInv, NilMeansWhole, TableInv
<1> QED
  BY <1>1, DownloadInvariance, PTL

\* NoBodyLeft: every open body has an owner that will close it, and none is
\* open once the download has returned.
THEOREM BodiesAreClosed == Spec => []NoBodyLeft
<1>1. DownloadInv => NoBodyLeft
  BY DEF DownloadInv
<1> QED
  BY <1>1, DownloadInvariance, PTL

\* RootCause: the group reports a cancellation only if the caller's context
\* was cancelled, never the one its own first error caused.
THEOREM ErrorIsRootCause == Spec => []RootCause
<1>1. DownloadInv => RootCause
  BY DEF DownloadInv
<1> QED
  BY <1>1, DownloadInvariance, PTL

-----------------------------------------------------------------------------
(* The refinement of ParallelMap, without its fairness.                    *)

\* What ParallelMap sees as a reason to return an error.
Troubled ==
    \/ cancelled
    \/ groupErr # "none"
    \/ cause[Manifest] # "none"
    \/ \E t \in Tables : path[t] # "set"

\* Whether ParallelMap sees table t as collected.
Whole(t) ==
    at[t] \in {"complete", "returned"} /\ read[t] = Size /\ cause[t] = "none"

Seen == IF ret = "manifest" THEN "running" ELSE ret

\* A step that collects nothing and returns nothing is at most a Cancel.
LEMMA AtMostCancel ==
    ASSUME \A t \in Tables : Whole(t)' <=> Whole(t),
           Seen' = Seen,
           Troubled => Troubled'
    PROVE  [Promise!Next]_(Promise!vars)
<1>1. CASE Troubled' <=> Troubled
  BY <1>1 DEF Promise!vars, Whole, Seen, Troubled
<1>2. CASE Troubled' /\ ~Troubled
  BY <1>2 DEF Promise!Next, Promise!Cancel, Whole, Seen, Troubled
<1> QED
  BY <1>1, <1>2

\* Every step of the download is a step of the parallel map or a stutter.
LEMMA MapStep == DownloadInv /\ [Next]_vars => [Promise!Next]_(Promise!vars)
<1> SUFFICES ASSUME DownloadInv, [Next]_vars
             PROVE  [Promise!Next]_(Promise!vars)
  OBVIOUS
<1> DEFINE Goal == [Promise!Next]_(Promise!vars)
           Quiet == /\ \A t \in Tables : Whole(t)' <=> Whole(t)
                    /\ Seen' = Seen
                    /\ Troubled => Troubled'
<1>q. Quiet => Goal
  BY AtMostCancel
<1>g. SUFFICES Goal
  OBVIOUS
<1> HIDE DEF Goal
<1>i. /\ at \in [Callers -> Positions]
      /\ cause \in [Callers -> Causes \cup {"none"}]
      /\ read \in [Tables -> 0 .. Size]
      /\ Manifest \in Callers /\ Manifest \notin Tables /\ Tables \subseteq Callers
      /\ \A c \in Callers : CallInv(c)
      /\ \A t \in Tables : TableInv(t)
  BY DownloadAssumption DEF DownloadInv, DownloadTypeOK, HttpTypeOK
<1>1. CASE UNCHANGED vars \/ Finished
  BY <1>1, <1>q DEF vars, http, Finished, Whole, Seen, Troubled
<1>2. CASE CallManifest \/ DecodeManifest
  BY <1>2, <1>i, <1>q DEF CallManifest, DecodeManifest, Goto, Error, Close,
     Whole, Seen, Troubled, CallInv
<1>3. CASE StartDownload
  <2>1. /\ at[Manifest] = "complete" /\ cause[Manifest] = "none"
        /\ UNCHANGED <<read, path, cancelled, groupErr>>
    BY <1>3, <1>i DEF StartDownload, CallInv
  <2>2. Seen = "running" /\ \A t \in Tables : at[t] = "idle"
    BY <2>1, <1>i DEF DownloadInv, TableInv, Seen
  <2>3. CASE \E t \in Tables : path[t] = "absent"
    <3>1. /\ at' = [at EXCEPT ![Manifest] = "returned"]
          /\ cause' = cause /\ Seen' = "error"
      BY <1>3, <2>3 DEF StartDownload, Goto, Seen
    <3>2. Troubled /\ Troubled'
      BY <2>1, <2>3 DEF Troubled
    <3>3. \A t \in Tables : Whole(t)' <=> Whole(t)
      BY <2>1, <3>1, <1>i DEF Whole
    <3>4. Promise!ReturnError
      BY <2>2, <3>1, <3>2, <3>3
         DEF Promise!ReturnError, Seen, Troubled, Whole
    <3> QED
      BY <3>4 DEF Goal, Promise!Next, Promise!Return
  <2>4. CASE ~\E t \in Tables : path[t] = "absent"
    <3>1. \A t \in Tables : at'[t] \in {"failed", "limiter"}
      BY <1>3, <2>4, <1>i DEF StartDownload
    <3>2. Seen' = "running"
      BY <1>3, <2>4 DEF StartDownload, Seen
    <3>3. Quiet
      BY <2>1, <2>2, <3>1, <3>2 DEF Whole, Troubled
    <3> QED
      BY <3>3, <1>q
  <2> QED
    BY <2>3, <2>4
<1>4. CASE ManifestFails
  <2>1. /\ at[Manifest] = "failed" /\ cause[Manifest] # "none"
        /\ at' = [at EXCEPT ![Manifest] = "returned"] /\ Seen' = "error"
        /\ UNCHANGED <<cause, read, path, cancelled, groupErr>>
    BY <1>4, <1>i DEF ManifestFails, Goto, CallInv, Seen
  <2>2. Seen = "running"
    BY <2>1 DEF DownloadInv, Seen
  <2>3. Troubled /\ Troubled'
    BY <2>1 DEF Troubled
  <2>4. \A t \in Tables : Whole(t)' <=> Whole(t)
    BY <2>1, <1>i DEF Whole
  <2>5. Promise!ReturnError
    BY <2>1, <2>2, <2>3, <2>4 DEF Promise!ReturnError, Seen, Troubled, Whole
  <2> QED
    BY <2>5 DEF Goal, Promise!Next, Promise!Return
<1>5. ASSUME NEW c \in Callers,
             at[c] \notin {"complete", "returned"},
             NEW q, q \notin {"complete", "returned"},
             at' = [at EXCEPT ![c] = q],
             \/ cause' = cause
             \/ \E e : e # "none" /\ cause' = [cause EXCEPT ![c] = e],
             UNCHANGED <<read, path, cancelled, groupErr, ret>>
      PROVE  Goal
  <2>1. \A t \in Tables : Whole(t)' <=> Whole(t)
    BY <1>5, <1>i DEF Whole
  <2>2. Troubled => Troubled'
    BY <1>5, <1>i DEF Troubled
  <2>3. Seen' = Seen
    BY <1>5 DEF Seen
  <2> QED
    BY <2>1, <2>2, <2>3, <1>q
<1>6. ASSUME NEW c \in Callers, GetStep(c, Done, BadURL(c)),
             UNCHANGED <<read, path, cancelled, groupErr, ret>>
      PROVE  Goal
  <2>1. CASE \/ WaitLimiter(c, Done) \/ NewRequestFails(c)
             \/ Do(c, Done) \/ HandleOK(c)
    BY <2>1, <1>5, <1>6
       DEF WaitLimiter, NewRequestFails, Do, HandleOK, Goto, Error
  <2>2. CASE HandleRefused(c) \/ HandleRetry(c)
    BY <2>2, <1>5, <1>6 DEF HandleRefused, HandleRetry, Goto, Error
  <2>3. CASE Wake(c) \/ SleepCancelled(c, Done)
    BY <2>3, <1>5, <1>6 DEF Wake, SleepCancelled, Goto, Error
  <2> QED
    BY <1>6, <2>1, <2>2, <2>3 DEF GetStep
<1>7. ASSUME NEW t \in Tables, ReadEntry(t) PROVE Goal
  <2>1. Quiet
    BY <1>7, <1>i DEF ReadEntry, http, Whole, Seen, Troubled
  <2> QED
    BY <2>1, <1>q
<1>8. ASSUME NEW t \in Tables, ReadClosing(t) PROVE Goal
  <2>1. /\ at[t] = "open" /\ t \in Callers
        /\ UNCHANGED <<read, path, cancelled, groupErr, ret>>
    BY <1>8, <1>i DEF ReadClosing
  <2>2. CASE ~body[t].whole
    BY <2>1, <2>2, <1>8, <1>5 DEF ReadClosing, Error, Goto
  <2>3. CASE body[t].whole
    <3>1. at' = [at EXCEPT ![t] = "complete"] /\ cause' = cause
      BY <1>8, <2>3 DEF ReadClosing, Goto
    <3>2. cause[t] = "none" /\ body[t] # NoBody
      BY <2>1, <1>i DEF CallInv
    <3>3. body[t] \in Bodies
      BY <2>1, <3>2 DEF DownloadInv, DownloadTypeOK, HttpTypeOK
    <3>4. read[t] = Size
      BY <1>8, <2>3, <3>3, BodyFacts DEF ReadClosing
    <3>5. ~Whole(t) /\ Whole(t)'
      BY <2>1, <3>1, <3>2, <3>4, <1>i DEF Whole
    <3>6. \A u \in Tables \ {t} : Whole(u)' <=> Whole(u)
      BY <2>1, <3>1, <1>i DEF Whole
    <3>7. ret = "running"
      BY <2>1, <1>i DEF DownloadInv, DownloadTypeOK, TableInv
    <3>8. Troubled' <=> Troubled
      BY <2>1, <3>1 DEF Troubled
    <3>9. Promise!Collect(t)
      BY <2>1, <3>5, <3>6, <3>7, <3>8
         DEF Promise!Collect, Whole, Troubled
    <3> QED
      BY <3>9 DEF Goal, Promise!Next
  <2> QED
    BY <2>2, <2>3
<1>9. ASSUME NEW t \in Tables, ReadFails(t) PROVE Goal
  BY <1>9, <1>5, <1>i DEF ReadFails, Error, Goto
<1>10. ASSUME NEW t \in Tables, GoroutineReturns(t) PROVE Goal
  <2>1. /\ at[t] \in {"complete", "failed"}
        /\ at' = [at EXCEPT ![t] = "returned"]
        /\ UNCHANGED <<cause, read, path, cancelled, ret>>
        /\ groupErr # "none" => groupErr' = groupErr
    BY <1>10 DEF GoroutineReturns, Goto
  <2>2. at[t] = "failed" => cause[t] # "none"
    BY <1>i DEF CallInv
  <2>3. Quiet
    BY <2>1, <2>2, <1>i DEF Whole, Seen, Troubled
  <2> QED
    BY <2>3, <1>q
<1>11. CASE WaitGroup
  <2>1. /\ ret = "running" /\ UNCHANGED <<at, cause, read, path, cancelled, groupErr>>
        /\ ret' = IF groupErr = "none" THEN "nil" ELSE "error"
        /\ \A t \in Tables : at[t] = "returned"
    BY <1>11 DEF WaitGroup, http
  <2>2. /\ Troubled' <=> Troubled
        /\ \A t \in Tables : Whole(t)' <=> Whole(t)
    BY <2>1 DEF Troubled, Whole
  <2>3. CASE groupErr = "none"
    <3>1. \A t \in Tables : Whole(t)
      BY <2>1, <2>3, <1>i DEF TableInv, Whole
    <3>2. Promise!ReturnAll
      BY <2>1, <2>2, <2>3, <3>1 DEF Promise!ReturnAll, Whole, Troubled
    <3> QED
      BY <3>2 DEF Goal, Promise!Next, Promise!Return
  <2>4. CASE groupErr # "none"
    <3>1. Promise!ReturnError
      BY <2>1, <2>2, <2>4 DEF Promise!ReturnError, Whole, Troubled
    <3> QED
      BY <3>1 DEF Goal, Promise!Next, Promise!Return
  <2> QED
    BY <2>3, <2>4
<1>12. CASE CancelContext
  <2>1. Quiet
    BY <1>12 DEF CancelContext, http, Whole, Seen, Troubled
  <2> QED
    BY <2>1, <1>q
<1> QED
  BY <1>1, <1>2, <1>3, <1>4, <1>6, <1>7, <1>8, <1>9, <1>10, <1>11, <1>12
     DEF Next, Step, ManifestStep, TableStep, Get

\* The manifest request, the retries, the streams and the group together are
\* a plain parallel fetch that returns all tables or, after something went
\* wrong, an error (the safety part of ImplementsMap).
THEOREM DownloadRefinesMap == Spec => Promise!Init /\ [][Promise!Next]_(Promise!vars)
<1>1. Init => Promise!Init
  BY DownloadAssumption DEF Init, HttpInit, Promise!Init
<1> QED
  BY <1>1, MapStep, DownloadInvariance, PTL DEF Spec
=============================================================================
