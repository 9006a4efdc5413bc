---------------------------- MODULE AttemptTimers ----------------------------
(***************************************************************************)
(* The two timers of one upstream attempt.  The upload deadline            *)
(* (internal/gateway/upload_timeout.go) runs from the start of the request *)
(* to the end of its upload, against the goroutine of the transport that   *)
(* reads the client's body and writes it upstream.  The idle timer         *)
(* (body_timeout.go) then covers every Read of the response body with one  *)
(* timer that is armed lazily: its callback re-arms it for the Read in     *)
(* progress, or lets it go while nobody reads.  Both callbacks race with   *)
(* the code that stops them.                                               *)
(***************************************************************************)
EXTENDS Naturals

CONSTANTS
  Timeout,   \* body_timeout, in ticks
  LiveBodies \* whether the request body is read from the client as it is sent

ASSUME TimersAssumption == Timeout \in Nat \ {0} /\ LiveBodies \subseteq BOOLEAN

VARIABLES
  \* the upload
  live,    \* the body is a single-use one: downstream is set
  send,    \* the transport's write loop; "reading" is requestBodyReader.reading
  call,    \* doUpstreamRequest: in client.Do, Do returned, stopped, returned
  result,  \* what client.Do returned
  utimer,  \* the upload timer; "published": expire is between its two effects
  done,    \* uploadDeadline.done
  cause,   \* the cause of the request's context, "none" while it is live
  woken,   \* the read deadline of the client connection was forced
  client,  \* the context of the incoming request is live
  verdict, \* what doUpstreamRequest returned
  caught,  \* history: whom the upload deadline caught waiting
  broke,   \* history: a read of the client's body failed before the deadline
  \* the response body
  reading, \* idleTimeoutReadCloser.reading
  left,    \* ticks until deadline
  armed, closed, timedOut,
  timer,   \* ticks until the timer fires, Off when it is not running
  expiry,  \* the timer's callback: none, started, marked (before its Close)
  read,    \* the caller of Read: outside, in body.Read, after body.Read
  got,     \* what body.Read returned
  shut,    \* the underlying body is closed
  out      \* what the last Read returned

uploadVars == <<live, send, call, result, utimer, done, cause, woken, client,
                verdict, caught, broke>>
bodyVars == <<reading, left, armed, closed, timedOut, timer, expiry, read, got,
              shut, out>>
timersVars == <<uploadVars, bodyVars>>

Off == Timeout + 1

TimersInit ==
  /\ live \in LiveBodies
  /\ send = "writing" /\ call = "do" /\ result = "none"
  /\ utimer = "armed" /\ done = FALSE /\ cause = "none"
  /\ woken = FALSE /\ client = TRUE /\ verdict = "none"
  /\ caught = "none" /\ broke = FALSE
  /\ reading = FALSE /\ left = 0 /\ armed = FALSE
  /\ closed = FALSE /\ timedOut = FALSE
  /\ timer = Off /\ expiry = "none" /\ read = "outside" /\ got = "none"
  /\ shut = FALSE /\ out = "none"

\* The types of the variables.
TimersTypeOK ==
  /\ live \in BOOLEAN /\ done \in BOOLEAN /\ woken \in BOOLEAN /\ client \in BOOLEAN
  /\ send \in {"writing", "reading", "failed", "written", "acked"}
  /\ call \in {"do", "result", "stopped", "returned"}
  /\ result \in {"none", "response", "client", "transport"}
  /\ utimer \in {"armed", "fired", "published", "off"}
  /\ cause \in {"none", "upstream", "client", "parent", "nil"}
  /\ verdict \in {"none", "response", "client", "upstream", "transport"}
  /\ caught \in {"none", "upstream", "client"} /\ broke \in BOOLEAN
  /\ reading \in BOOLEAN /\ armed \in BOOLEAN /\ closed \in BOOLEAN
  /\ timedOut \in BOOLEAN /\ shut \in BOOLEAN
  /\ left \in 0..Timeout /\ timer \in 0..Off
  /\ expiry \in {"none", "started", "marked"}
  /\ read \in {"outside", "inside", "after"}
  /\ got \in {"none", "data", "eof", "error"}
  /\ out \in {"none", "data", "eof", "error", "timeout"}

-----------------------------------------------------------------------------
(***************************************************************************)
(* The upload.                                                             *)
(***************************************************************************)

\* context.CancelCauseFunc: the first cancellation names the cause.
Cancelled(by) == IF cause = "none" THEN by ELSE cause

\* Mutant of Stop: the timer is stopped, a callback under way is not told.
StopTimerOnly ==
  /\ utimer # "published"
  /\ done' = done
  /\ utimer' = IF utimer = "armed" THEN "off" ELSE utimer

\* uploadDeadline.stop, under its mutex.
Stop ==
  /\ utimer # "published"
  /\ done' = TRUE
  /\ utimer' = IF utimer = "armed" THEN "off" ELSE utimer

\* The write loop enters requestBodyReader.Read for the next chunk.
ReadChunk ==
  /\ send = "writing" /\ send' = "reading"
  /\ UNCHANGED <<live, call, result, utimer, done, cause, woken, client, verdict,
                 caught, broke, bodyVars>>

\* requestBodyReader.Read returns data or the end of the body, or the client's
\* connection fails.  A buffered body does not fail.
ChunkRead ==
  /\ send = "reading"
  /\ send' \in {"writing", "written"} \cup (IF live THEN {"failed"} ELSE {})
  /\ woken => send' = "failed"
  /\ broke' = (send' = "failed" /\ cause = "none")
  /\ UNCHANGED <<live, call, result, utimer, done, cause, woken, client, verdict,
                 caught, bodyVars>>

\* httptrace.ClientTrace.WroteRequest without an error.
WroteRequest ==
  /\ send = "written" /\ send' = "acked"
  /\ Stop
  /\ UNCHANGED <<live, call, result, cause, woken, client, verdict, caught, broke,
                 bodyVars>>

UploadTimerFires ==
  /\ utimer = "armed" /\ utimer' = "fired"
  /\ UNCHANGED <<live, send, call, result, done, cause, woken, client, verdict,
                 caught, broke, bodyVars>>

\* uploadDeadline.expire up to the cancellation; the mutex stays held when the
\* client's read deadline is still to be forced.
Expire ==
  /\ utimer = "fired"
  /\ IF done
       THEN utimer' = "off" /\ UNCHANGED <<done, cause, caught>>
       ELSE LET waited == IF send = "reading" THEN "client" ELSE "upstream"
            IN /\ done' = TRUE
               /\ cause' = Cancelled(waited)
               /\ caught' = IF cause = "none" THEN waited ELSE caught
               /\ utimer' = IF live THEN "published" ELSE "off"
  /\ UNCHANGED <<live, send, call, result, woken, client, verdict, broke, bodyVars>>

\* Mutant of ForceRead: the blocked read of the client is left alone.
LeaveRead ==
  /\ utimer = "published" /\ utimer' = "off"
  /\ UNCHANGED <<live, send, call, result, done, cause, woken, client, verdict,
                 caught, broke, bodyVars>>

\* SetReadDeadline(now) on the client connection, the end of expire.
ForceRead ==
  /\ utimer = "published" /\ utimer' = "off"
  /\ woken' = TRUE
  /\ UNCHANGED <<live, send, call, result, done, cause, client, verdict, caught,
                 broke, bodyVars>>

\* The server cancels the context of the incoming request: the client left, or
\* its forced read deadline passed.
ClientCancelled ==
  /\ client /\ client' = FALSE
  /\ cause' = Cancelled("parent")
  /\ UNCHANGED <<live, send, call, result, utimer, done, woken, verdict, caught,
                 broke, bodyVars>>

\* client.Do returns: headers (before the upload is over too), the error of the
\* client's body, or an error of the transport or of the context.
DoReturns(r) ==
  /\ call = "do"
  /\ r = "client" => send = "failed"
  /\ r = "response" => send # "failed"
  /\ call' = "result" /\ result' = r
  /\ UNCHANGED <<live, send, utimer, done, cause, woken, client, verdict, caught,
                 broke, bodyVars>>

\* deadline.stop() after client.Do.
DoStops ==
  /\ call = "result" /\ call' = "stopped"
  /\ Stop
  /\ UNCHANGED <<live, send, result, cause, woken, client, verdict, caught, broke,
                 bodyVars>>

\* Mutant of DoReturned: the error of the transport is returned as it is.
DoReturnedPlain ==
  /\ call = "stopped" /\ call' = "returned"
  /\ verdict' = result
  /\ cause' = IF result = "response" THEN cause ELSE Cancelled("nil")
  /\ UNCHANGED <<live, send, result, utimer, done, woken, client, caught, broke,
                 bodyVars>>

\* The rest of doUpstreamRequest: the cause of the context takes precedence
\* over the error, and a failed attempt cancels its context.
DoReturned ==
  /\ call = "stopped" /\ call' = "returned"
  /\ verdict' = IF result # "response" /\ cause \in {"client", "upstream"}
                  THEN cause ELSE result
  /\ cause' = IF result = "response" THEN cause ELSE Cancelled("nil")
  /\ UNCHANGED <<live, send, result, utimer, done, woken, client, caught, broke,
                 bodyVars>>

-----------------------------------------------------------------------------
(***************************************************************************)
(* The response body.                                                      *)
(***************************************************************************)

\* Mutant of BeginRead: the timer is armed by the first Read only.
BeginReadArmsOnce ==
  /\ verdict = "response" /\ read = "outside" /\ ~closed
  /\ read' = "inside"
  /\ reading' = TRUE /\ left' = Timeout
  /\ armed' = TRUE
  /\ timer' = IF armed \/ out # "none" THEN timer ELSE Timeout
  /\ UNCHANGED <<closed, timedOut, expiry, got, shut, out, uploadVars>>

\* Read up to body.Read: a new deadline; the timer is started only when no
\* earlier one is still running.
BeginRead ==
  /\ verdict = "response" /\ read = "outside" /\ ~closed
  /\ read' = "inside"
  /\ reading' = TRUE /\ left' = Timeout
  /\ armed' = TRUE
  /\ timer' = IF armed THEN timer ELSE Timeout
  /\ UNCHANGED <<closed, timedOut, expiry, got, shut, out, uploadVars>>

\* Read of a closed body.
RefuseRead ==
  /\ verdict = "response" /\ read = "outside" /\ closed
  /\ out' = IF timedOut THEN "timeout" ELSE "error"
  /\ UNCHANGED <<reading, left, armed, closed, timedOut, timer, expiry, read, got,
                 shut, uploadVars>>

\* body.Read returns.  It may do so at any time, and its network may end it
\* with anything once the body is closed.
BodyReturns(g) ==
  /\ read = "inside"
  /\ read' = "after" /\ got' = g
  /\ UNCHANGED <<reading, left, armed, closed, timedOut, timer, expiry, shut, out,
                 uploadVars>>

\* The rest of Read, with the Close at the end of the body.
EndRead ==
  /\ read = "after" /\ read' = "outside"
  /\ out' = IF timedOut THEN "timeout" ELSE got
  /\ IF got = "eof" /\ ~timedOut
       THEN /\ closed' = TRUE /\ armed' = FALSE /\ timer' = Off /\ shut' = TRUE
            /\ cause' = Cancelled("nil")
       ELSE UNCHANGED <<closed, armed, timer, shut, cause>>
  /\ reading' = FALSE /\ got' = "none"
  /\ UNCHANGED <<left, timedOut, expiry, live, send, call, result, utimer, done,
                 woken, client, verdict, caught, broke>>

\* Close by the user of the body, from the goroutine that reads it or from the
\* timer of drainMaskedUpstreamBody while it does.
CloseBody ==
  /\ verdict = "response" /\ ~shut
  /\ closed' = TRUE /\ reading' = FALSE /\ armed' = FALSE /\ timer' = Off
  /\ shut' = TRUE
  /\ cause' = Cancelled("nil")
  /\ UNCHANGED <<left, timedOut, expiry, read, got, out, live, send, call, result,
                 utimer, done, woken, client, verdict, caught, broke>>

\* Time passes for the deadline and for the timer.
Tick ==
  /\ left > 0 \/ timer \in 1..Timeout
  /\ left' = IF left > 0 THEN left - 1 ELSE 0
  /\ timer' = IF timer \in 1..Timeout THEN timer - 1 ELSE timer
  /\ UNCHANGED <<reading, armed, closed, timedOut, expiry, read, got, shut, out,
                 uploadVars>>

TimerFires ==
  /\ timer = 0 /\ timer' = Off
  /\ expiry' = "started"
  /\ UNCHANGED <<reading, left, armed, closed, timedOut, read, got, shut, out,
                 uploadVars>>

\* idleTimeoutReadCloser.expire under the mutex: nobody reads, the deadline is
\* a later one, or the Read has timed out.
ExpireBody ==
  /\ expiry = "started"
  /\ \/ /\ closed \/ ~reading
        /\ armed' = FALSE /\ expiry' = "none"
        /\ UNCHANGED <<timer, timedOut, closed>>
     \/ /\ ~closed /\ reading /\ left > 0
        /\ timer' = left /\ expiry' = "none"
        /\ UNCHANGED <<armed, timedOut, closed>>
     \/ /\ ~closed /\ reading /\ left = 0
        /\ timedOut' = TRUE /\ closed' = TRUE /\ armed' = FALSE
        /\ expiry' = "marked"
        /\ UNCHANGED timer
  /\ UNCHANGED <<reading, left, read, got, shut, out, uploadVars>>

\* The Close at the end of expire.
ExpireCloses ==
  /\ expiry = "marked" /\ expiry' = "none"
  /\ reading' = FALSE /\ timer' = Off /\ shut' = TRUE
  /\ cause' = Cancelled("nil")
  /\ UNCHANGED <<left, armed, closed, timedOut, read, got, out, live, send, call,
                 result, utimer, done, woken, client, verdict, caught, broke>>

-----------------------------------------------------------------------------
TimersNext ==
  \/ ReadChunk \/ ChunkRead \/ WroteRequest
  \/ UploadTimerFires \/ Expire \/ ForceRead \/ ClientCancelled
  \/ \E r \in {"response", "client", "transport"} : DoReturns(r)
  \/ DoStops \/ DoReturned
  \/ BeginRead \/ RefuseRead \/ EndRead \/ CloseBody
  \/ \E g \in {"data", "eof", "error"} : BodyReturns(g)
  \/ Tick \/ TimerFires \/ ExpireBody \/ ExpireCloses

\* The runtime fires a due timer and runs its callback; the transport returns
\* once its context is cancelled or the client's body has failed; a read of the
\* client whose deadline has passed returns; a closed body ends its Read.  The
\* client and the upstream owe nothing.
Fairness ==
  /\ WF_timersVars(UploadTimerFires) /\ WF_timersVars(Expire) /\ WF_timersVars(ForceRead)
  /\ WF_timersVars(woken /\ ChunkRead)
  /\ WF_timersVars((cause # "none" \/ send = "failed")
             /\ \E r \in {"client", "transport"} : DoReturns(r))
  /\ WF_timersVars(WroteRequest) /\ WF_timersVars(DoStops) /\ WF_timersVars(DoReturned)
  /\ WF_timersVars(Tick) /\ WF_timersVars(TimerFires)
  /\ WF_timersVars(ExpireBody) /\ WF_timersVars(ExpireCloses)
  /\ WF_timersVars(shut /\ \E g \in {"data", "eof", "error"} : BodyReturns(g))
  /\ WF_timersVars(EndRead)

TimersSpec == TimersInit /\ [][TimersNext]_timersVars /\ Fairness

-----------------------------------------------------------------------------
(***************************************************************************)
(* Properties.                                                             *)
(***************************************************************************)

\* The one lazily armed timer gives every Read a deadline of its own: the body
\* half of this module is an implementation of ReadDeadline, liveness included
\* (idleTimeoutReadCloser: "a callback from an earlier read cannot expire a
\* later read", and a blocked Read does not wait for ever).
Deadline == INSTANCE ReadDeadline WITH
  Timeout <- Timeout,
  busy <- read # "outside",
  age <- IF read = "outside" THEN 0 ELSE Timeout - left,
  state <- IF timedOut THEN "expired" ELSE IF closed THEN "closed" ELSE "open",
  out <- out

ImplementsReadDeadline == Deadline!Spec

\* Once the transport has reported the upload as written, the upload deadline
\* never cancels the request, not even when its timer fired before it was
\* stopped: a long wait for headers or a long stream is not cut.
UploadedNotCancelled ==
  [][send = "acked" /\ cause' # cause => cause' \in {"parent", "nil"}]_timersVars

\* When the upload deadline ends an attempt, the error names the party it was
\* waiting for, although the transport reports something else and the forced
\* read deadline cancels the context of the client as well.
VerdictNamesWaiter ==
  call = "returned" /\ caught # "none" /\ verdict # "response" => verdict = caught

\* An upload does not outlive its deadline: the transport reports it as written
\* or doUpstreamRequest returns, whatever the client and the upstream do, and
\* when the deadline ended it no read of the client's body stays blocked.
UploadEnds ==
  /\ <>(send = "acked" \/ call = "returned")
  /\ (live /\ caught # "none") ~> [](send # "reading")

\* "Keep the origin of a body read failure through Transport's error wrapping"
\* (request_body.go): an attempt that ended because the client's body could not
\* be read is not reported as a timeout of the upstream.
ClientFailureKept ==
  call = "returned" /\ broke /\ result = "client" => verdict # "upstream"
=============================================================================
