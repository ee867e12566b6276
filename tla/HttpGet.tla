------------------------------ MODULE HttpGet ------------------------------
(***************************************************************************)
(* Client.get of internal/bungie: a GET behind a rate limiter, tried up to *)
(* MaxAttempts times.  The client is shared by concurrent callers, so all  *)
(* state is per caller.  The server, the network and the client's Timeout  *)
(* decide each answer.  Durations are left out: a sleep ends some time.    *)
(***************************************************************************)
EXTENDS Naturals

CONSTANTS
    Callers,        \* concurrent calls of get
    MaxAttempts,    \* WithMaxAttempts
    Size,           \* entries of a complete definition table
    NoBody          \* no response body to close

VARIABLES
    at,         \* at[c]      : where the call of c is
    attempt,    \* attempt[c] : the loop variable of get
    answer,     \* answer[c]  : the answer get is looking at
    body,       \* body[c]    : the open response body, or NoBody
    cause       \* cause[c]   : why the call failed, or "none"

http == <<at, attempt, answer, body, cause>>

\* "asked": 429 or 5xx with a positive Retry-After.  "busy": 429 or 5xx
\* without one, or one that does not parse.  "refused": any other status but
\* 200.  "broken": no response at all, the Timeout and cancellation included.
Answers == {"ok", "asked", "busy", "refused", "broken"}

Causes == {"cancelled", "badURL", "refused", "gaveUp", "malformed", "noPath"}

\* What a server sends after 200: a valid payload, or one that is cut short
\* or malformed after some entries.
Bodies == [entries : 0 .. Size, whole : {FALSE}]
              \cup [entries : {Size}, whole : {TRUE}]

ASSUME HttpGetAssumption ==
    /\ MaxAttempts \in Nat \ {0}
    /\ Size \in Nat
    /\ NoBody \notin Bodies

Positions == {"idle", "limiter", "request", "answered", "sleep", "open",
              "complete", "failed", "returned"}

HttpTypeOK ==
    /\ at \in [Callers -> Positions]
    /\ attempt \in [Callers -> 1 .. MaxAttempts]
    /\ answer \in [Callers -> Answers \cup {"none"}]
    /\ body \in [Callers -> Bodies \cup {NoBody}]
    /\ cause \in [Callers -> Causes \cup {"none"}]

HttpInit ==
    /\ at = [c \in Callers |-> "idle"]
    /\ attempt = [c \in Callers |-> 1]
    /\ answer = [c \in Callers |-> "none"]
    /\ body = [c \in Callers |-> NoBody]
    /\ cause = [c \in Callers |-> "none"]

-----------------------------------------------------------------------------
Goto(c, position) == at' = [at EXCEPT ![c] = position]

Error(c, why) ==
    /\ Goto(c, "failed")
    /\ cause' = [cause EXCEPT ![c] = why]

Close(c) == body' = [body EXCEPT ![c] = NoBody]

\* limiter.Wait.  done says whether the context of the call is cancelled.
WaitLimiter(c, done) ==
    /\ at[c] = "limiter"
    /\ IF done THEN Error(c, "cancelled")
               ELSE Goto(c, "request") /\ UNCHANGED cause
    /\ UNCHANGED <<attempt, answer, body>>

\* NewRequestWithContext does not parse the URL: no request, and no retry.
NewRequestFails(c) ==
    /\ at[c] = "request"
    /\ Error(c, "badURL")
    /\ UNCHANGED <<attempt, answer, body>>

Do(c, done) ==
    /\ at[c] = "request"
    /\ \E a \in IF done THEN {"broken"} ELSE Answers :
          /\ answer' = [answer EXCEPT ![c] = a]
          /\ \E b \in CASE a = "broken" -> {NoBody}
                        [] a = "ok"     -> Bodies
                        [] OTHER        -> [entries : {0}, whole : {FALSE}] :
                body' = [body EXCEPT ![c] = b]
    /\ Goto(c, "answered")
    /\ UNCHANGED <<attempt, cause>>

\* 200: the body is handed over unread.
HandleOK(c) ==
    /\ at[c] = "answered"
    /\ answer[c] = "ok"
    /\ Goto(c, "open")
    /\ answer' = [answer EXCEPT ![c] = "none"]
    /\ UNCHANGED <<attempt, body, cause>>

\* Faulty variant: the body is not drained.
HandleRefusedOpen(c) ==
    /\ at[c] = "answered"
    /\ answer[c] = "refused"
    /\ Error(c, "refused")
    /\ answer' = [answer EXCEPT ![c] = "none"]
    /\ UNCHANGED <<attempt, body>>

\* Another 4xx: repeating the request cannot help.
HandleRefused(c) ==
    /\ at[c] = "answered"
    /\ answer[c] = "refused"
    /\ Close(c)
    /\ Error(c, "refused")
    /\ answer' = [answer EXCEPT ![c] = "none"]
    /\ UNCHANGED attempt

\* Faulty variant: only the backoff path looks for the last attempt.
HandleRetryAsked(c) ==
    /\ at[c] = "answered"
    /\ answer[c] \in {"asked", "busy", "broken"}
    /\ Close(c)
    /\ IF answer[c] # "asked" /\ attempt[c] = MaxAttempts
       THEN Error(c, "gaveUp")
       ELSE Goto(c, "sleep") /\ UNCHANGED cause
    /\ answer' = [answer EXCEPT ![c] = "none"]
    /\ UNCHANGED attempt

\* 429, 5xx and transport errors.  With Retry-After and without, the last
\* attempt must not sleep.
HandleRetry(c) ==
    /\ at[c] = "answered"
    /\ answer[c] \in {"asked", "busy", "broken"}
    /\ Close(c)
    /\ IF attempt[c] = MaxAttempts
       THEN Error(c, "gaveUp")
       ELSE Goto(c, "sleep") /\ UNCHANGED cause
    /\ answer' = [answer EXCEPT ![c] = "none"]
    /\ UNCHANGED attempt

\* The timer fires; when the context is cancelled too, select takes either.
Wake(c) ==
    /\ at[c] = "sleep"
    /\ attempt' = [attempt EXCEPT ![c] = @ + 1]
    /\ IF attempt[c] < MaxAttempts
       THEN Goto(c, "limiter") /\ UNCHANGED cause
       ELSE Error(c, "gaveUp")
    /\ UNCHANGED <<answer, body>>

SleepCancelled(c, done) ==
    /\ at[c] = "sleep"
    /\ done
    /\ Error(c, "cancelled")
    /\ UNCHANGED <<attempt, answer, body>>

\* bad says whether the URL of the call does not parse.
GetStep(c, done, bad) ==
    \/ WaitLimiter(c, done)
    \/ bad /\ NewRequestFails(c)
    \/ ~bad /\ Do(c, done)
    \/ HandleOK(c)
    \/ HandleRefused(c)
    \/ HandleRetry(c)
    \/ Wake(c)
    \/ SleepCancelled(c, done)

-----------------------------------------------------------------------------
(* Properties.                                                             *)

\* RetriesBounded: no call makes more than MaxAttempts requests, none sleeps
\* after its last one ("total number of tries per request", WithMaxAttempts),
\* and none gives up before it has made them all.
RetriesBounded ==
    \A c \in Callers :
        /\ attempt[c] <= MaxAttempts
        /\ at[c] = "sleep" => attempt[c] < MaxAttempts
        /\ cause[c] = "gaveUp" => attempt[c] = MaxAttempts
=============================================================================
