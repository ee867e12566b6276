------------------------------ MODULE Download ------------------------------
(***************************************************************************)
(* The Bungie side of a run: GetManifest, then download, which fetches the *)
(* definition tables in parallel.  Each goroutine of the errgroup opens    *)
(* one table with Client.get, reads it with StreamDefinitions into maps of *)
(* its own and closes it.  The first error cancels the other goroutines;   *)
(* the process may be told to stop at any time.                            *)
(***************************************************************************)
EXTENDS HttpGet

CONSTANTS
    Tables,     \* the definition tables
    Manifest    \* the manifest request

ASSUME DownloadAssumption ==
    /\ Manifest \notin Tables
    /\ Callers = Tables \cup {Manifest}

VARIABLES
    read,       \* read[t] : entries of table t passed to the callback
    path,       \* path[t] : what the manifest says of table t
    cancelled,  \* the caller's context
    groupErr,   \* the first error of the errgroup, or "none"
    ret         \* "manifest", "running", "nil" or "error"

\* "bad": a path with which the URL does not parse.
Paths == {"set", "bad", "empty", "absent"}

vars == <<http, read, path, cancelled, groupErr, ret>>

DownloadTypeOK ==
    /\ HttpTypeOK
    /\ read \in [Tables -> 0 .. Size]
    /\ path \in [Tables -> Paths]
    /\ cancelled \in BOOLEAN
    /\ groupErr \in Causes \cup {"none"}
    /\ ret \in {"manifest", "running", "nil", "error"}

Init ==
    /\ HttpInit
    /\ read = [t \in Tables |-> 0]
    /\ path \in [Tables -> Paths]
    /\ cancelled \in BOOLEAN
    /\ groupErr = "none"
    /\ ret = "manifest"

\* gctx; before the group exists, the caller's context.
Done == cancelled \/ groupErr # "none"

CallManifest ==
    /\ ret = "manifest"
    /\ at[Manifest] = "idle"
    /\ Goto(Manifest, "limiter")
    /\ UNCHANGED <<attempt, answer, body, cause, read, path, cancelled, groupErr, ret>>

BadURL(c) == c \in Tables /\ path[c] = "bad"

Get(c) ==
    /\ GetStep(c, Done, BadURL(c))
    /\ UNCHANGED <<read, path, cancelled, groupErr, ret>>

\* The envelope decodes, reports success and has a version, or it does not.
DecodeManifest ==
    /\ at[Manifest] = "open"
    /\ \/ /\ body[Manifest].whole
          /\ Goto(Manifest, "complete")
          /\ UNCHANGED cause
       \/ ~body[Manifest].whole /\ Error(Manifest, "malformed")
       \/ Done /\ Error(Manifest, "cancelled")
    /\ Close(Manifest)
    /\ UNCHANGED <<attempt, answer, read, path, cancelled, groupErr, ret>>

\* Faulty variant: a table without a path is left out.
StartDownloadPartial ==
    /\ at[Manifest] = "complete"
    /\ at' = [c \in Callers |-> IF c = Manifest \/ path[c] # "set"
                                THEN "returned" ELSE "limiter"]
    /\ ret' = "running"
    /\ UNCHANGED <<attempt, answer, body, cause, read, path, cancelled, groupErr>>

\* ComponentPath is asked for every table before any goroutine starts.
\* DownloadComponent refuses an empty path.
StartDownload ==
    /\ at[Manifest] = "complete"
    /\ IF \E t \in Tables : path[t] = "absent"
       THEN Goto(Manifest, "returned") /\ ret' = "error" /\ UNCHANGED cause
       ELSE /\ at' = [c \in Callers |->
                        CASE c = Manifest                      -> "returned"
                          [] c \in Tables /\ path[c] = "empty" -> "failed"
                          [] OTHER                             -> "limiter"]
            /\ cause' = [c \in Callers |->
                           IF c # Manifest /\ path[c] = "empty"
                           THEN "noPath" ELSE "none"]
            /\ ret' = "running"
    /\ UNCHANGED <<attempt, answer, body, read, path, cancelled, groupErr>>

ManifestFails ==
    /\ at[Manifest] = "failed"
    /\ Goto(Manifest, "returned")
    /\ ret' = "error"
    /\ UNCHANGED <<attempt, answer, body, cause, read, path, cancelled, groupErr>>

-----------------------------------------------------------------------------
(* StreamDefinitions and the deferred Close of streamComponent.            *)

ReadEntry(t) ==
    /\ at[t] = "open"
    /\ read[t] < body[t].entries
    /\ read' = [read EXCEPT ![t] = @ + 1]
    /\ UNCHANGED <<http, path, cancelled, groupErr, ret>>

\* Faulty variant: the end of the input ends the table.
ReadUntilEOF(t) ==
    /\ at[t] = "open"
    /\ read[t] = body[t].entries
    /\ Close(t)
    /\ Goto(t, "complete")
    /\ UNCHANGED <<attempt, answer, cause, read, path, cancelled, groupErr, ret>>

\* No more entries: the closing token must follow.
ReadClosing(t) ==
    /\ at[t] = "open"
    /\ read[t] = body[t].entries
    /\ Close(t)
    /\ IF body[t].whole THEN Goto(t, "complete") /\ UNCHANGED cause
                        ELSE Error(t, "malformed")
    /\ UNCHANGED <<attempt, answer, read, path, cancelled, groupErr, ret>>

\* Reading fails in the middle of an entry, or because of the context.
ReadFails(t) ==
    /\ at[t] = "open"
    /\ \/ ~body[t].whole /\ read[t] = body[t].entries /\ Error(t, "malformed")
       \/ Done /\ Error(t, "cancelled")
    /\ Close(t)
    /\ UNCHANGED <<attempt, answer, read, path, cancelled, groupErr, ret>>

-----------------------------------------------------------------------------
(* The errgroup.                                                           *)

\* Faulty variant: the last error wins.
GoroutineReturnsLast(t) ==
    /\ at[t] \in {"complete", "failed"}
    /\ Goto(t, "returned")
    /\ groupErr' = IF cause[t] = "none" THEN groupErr ELSE cause[t]
    /\ UNCHANGED <<attempt, answer, body, cause, read, path, cancelled, ret>>

GoroutineReturns(t) ==
    /\ at[t] \in {"complete", "failed"}
    /\ Goto(t, "returned")
    /\ groupErr' = IF groupErr = "none" THEN cause[t] ELSE groupErr
    /\ UNCHANGED <<attempt, answer, body, cause, read, path, cancelled, ret>>

\* g.Wait returns once every goroutine has returned.
WaitGroup ==
    /\ ret = "running"
    /\ \A t \in Tables : at[t] = "returned"
    /\ ret' = IF groupErr = "none" THEN "nil" ELSE "error"
    /\ UNCHANGED <<http, read, path, cancelled, groupErr>>

CancelContext ==
    /\ ~cancelled
    /\ cancelled' = TRUE
    /\ UNCHANGED <<http, read, path, groupErr, ret>>

-----------------------------------------------------------------------------
ManifestStep == CallManifest \/ DecodeManifest \/ StartDownload \/ ManifestFails

TableStep(t) ==
    \/ ReadEntry(t)
    \/ ReadClosing(t)
    \/ ReadFails(t)
    \/ GoroutineReturns(t)

Finished == ret \in {"nil", "error"} /\ UNCHANGED vars

Step ==
    \/ ManifestStep
    \/ \E c \in Callers : Get(c)
    \/ \E t \in Tables : TableStep(t)
    \/ WaitGroup

Next == Step \/ CancelContext \/ Finished

\* The limiter grants, timers fire, and the client's Timeout ends every
\* request and every read.
Spec == Init /\ [][Next]_vars /\ WF_vars(Step)

-----------------------------------------------------------------------------
(* Properties.                                                             *)

\* NilMeansWhole: download returns nil only with every table read to its
\* closing token ("must not be treated as a successful (partial!) import",
\* StreamDefinitions), whatever was cut short, retried or cancelled.
NilMeansWhole ==
    ret = "nil" => \A t \in Tables : read[t] = Size

\* NoBodyLeft: an open body always has an owner that will close it, so none
\* is open once the download has returned ("on failure it is fully consumed
\* and closed", get; "The caller must Close it", DownloadComponent).
NoBodyLeft ==
    /\ \A c \in Callers : body[c] # NoBody => at[c] \in {"answered", "open"}
    /\ ret \in {"nil", "error"} => \A c \in Callers : body[c] = NoBody

\* RootCause: the error of a failed download is the one that started the
\* failure, never the cancellation that it caused in the other goroutines.
RootCause == groupErr = "cancelled" => cancelled

\* ImplementsMap: the manifest request, the retries, the streams and the
\* group together are a plain parallel fetch that returns all tables or an
\* error, and returns an error only after something went wrong.
Promise == INSTANCE ParallelMap WITH
    Hashes <- Tables,
    collected <- [t \in Tables |->
        IF at[t] \in {"complete", "returned"} /\ read[t] = Size
              /\ cause[t] = "none" THEN 1 ELSE 0],
    cancelled <- \/ cancelled
                 \/ groupErr # "none"
                 \/ cause[Manifest] # "none"
                 \/ \E t \in Tables : path[t] # "set",
    ret <- IF ret = "manifest" THEN "running" ELSE ret

ImplementsMap == Promise!Spec

-----------------------------------------------------------------------------
(* The inductive invariant behind the safety properties (DownloadProofs):  *)
(* what each position of a call says of the rest of its state.             *)

CallInv(c) ==
    /\ at[c] = "answered" => answer[c] # "none"
    /\ at[c] = "answered" /\ answer[c] = "ok" => body[c] # NoBody
    /\ at[c] = "open" => body[c] # NoBody
    /\ at[c] = "failed" => cause[c] # "none"
    /\ cause[c] # "none" => at[c] \in {"failed", "returned"}
    /\ cause[c] = "cancelled" => Done

TableInv(t) ==
    /\ ret = "manifest" => at[t] = "idle"
    /\ at[t] \in {"idle", "limiter", "request", "answered", "sleep"} => read[t] = 0
    /\ at[t] = "open" => read[t] <= body[t].entries
    /\ at[t] \in {"complete", "returned"} /\ cause[t] = "none" => read[t] = Size
    /\ at[t] = "returned" /\ cause[t] # "none" => groupErr # "none"

DownloadInv ==
    /\ DownloadTypeOK
    /\ RetriesBounded
    /\ NoBodyLeft
    /\ RootCause
    /\ \A c \in Callers : CallInv(c)
    /\ \A t \in Tables : TableInv(t)
    /\ ret # "manifest" => at[Manifest] = "returned"
    /\ ret = "running" => \A t \in Tables : path[t] # "absent" /\ at[t] # "idle"
    /\ ret = "nil" => groupErr = "none" /\ \A t \in Tables : at[t] = "returned"
    /\ ret = "error" => \A t \in Tables : at[t] \in {"idle", "returned"}
=============================================================================
