-------------------------- MODULE RequestExecution --------------------------
(***************************************************************************)
(* One downstream request from its arrival to its last byte                *)
(* (internal/gateway/router.go, vendor_proxy.go, request_body.go,          *)
(* response.go, interim.go): authorization, the choice of an aggregate     *)
(* child, the loop over a vendor's keys, the loop over children, the       *)
(* attempt budget both share, the replay of the body, and the delivery of  *)
(* exactly one answer, past a timer goroutine that writes 102 headers to   *)
(* the same ResponseWriter.                                                *)
(*                                                                         *)
(* Everybody else is an environment: other requests, rebuilds and the      *)
(* clock change which keys are usable between any two steps; the client    *)
(* may go away; the upstream answers as it likes.                          *)
(***************************************************************************)
EXTENDS ErrorPolicy, FiniteSets

CONSTANTS
  Vendors, Managed,        \* the vendors; those with keys of their own
  Keys, VendorKeys,        \* [Vendors -> SUBSET Keys]
  ClientKey,               \* the credential a passthrough vendor forwards
  Children, None,          \* the entries of the aggregate; no child, no vendor
  ChildVendor, ChildKeys,  \* vendor and allowed keys of an entry ...
  AllKeys,                 \* ... or AllKeys for an entry without a list
  Priority,                \* [Children -> Int], lower is preferred
  Aggregate,               \* the route that is an aggregate
  Configs,                 \* configurations, one of which is in force
  MaxLosses,               \* bound: keys others take away while the request runs
  Responses                \* the upstream responses that occur

ASSUME TopologyConstants ==
  /\ Managed \subseteq Vendors /\ Aggregate \notin Vendors
  /\ VendorKeys \in [Vendors -> SUBSET Keys] /\ ClientKey \notin Keys
  /\ ChildVendor \in [Children -> Vendors] /\ None \notin Children \cup Vendors
  /\ \A c \in Children : ChildKeys[c] = AllKeys \/ ChildKeys[c] \subseteq VendorKeys[ChildVendor[c]]
  /\ Priority \in [Children -> Int] /\ MaxLosses \in Nat
  /\ \A S \in SUBSET Children : S # {} => \E c \in S : \A d \in S : Priority[c] <= Priority[d]

\* Config.applyDefaults and Config.validate let no limit be less than one, and
\* ErrorFailoverConfig has no switch for a status without a class of its own.
ASSUME LimitConstants ==
  /\ \A c \in Configs :
       /\ \A v \in Vendors : "other" \notin c.policy[v].failsOver
       /\ c.failoverMax \in [Vendors -> Nat \ {0}]
       /\ c.budget \in [Vendors \cup {Aggregate} -> Nat \ {0}]
       /\ c.retry.max \in Nat \ {0}
       /\ c.interim \subseteq Vendors
  /\ \A resp \in Responses : resp.code \in Nat

VARIABLES
  conf,       \* [policy, openai, failoverMax, budget, interim, retry]
  req,        \* [route, safe, body]: where to, a safe method, kind of body
  pc,         \* where the handler is
  round,      \* serveAggregateRequest: attempt
  exclude,    \* serveAggregateRequest: children given up
  child, vendor,   \* the preparedProxyRequest
  src,        \* the requestBodySource: "nil", "replayable", "single" or "used"
  tried,      \* requestExecution.tried and triedIndexes
  spent,      \* requestExecution.attempts
  attempts,   \* serveVendorRequestWithAggregateHook: attempts
  reply,      \* what the current attempt has come to
  hasBody, committed,   \* writeUpstreamResponse
  senders,    \* the interimResponseSenders created, the last one in use
  usable,     \* the keys that are neither disabled nor cooling down
  gone,       \* the request's context is done
  wire,       \* header blocks written downstream, repeated 102 only once
  aborted,    \* the connection was cut by http.ErrAbortHandler
  log,        \* every attempt: where it went and what became of it
  held,       \* Acquires minus Releases and CompleteAttempts of this request
  losses      \* keys others have taken away

loopVars == <<round, exclude, child, vendor, src, tried, spent, attempts>>
copyVars == <<hasBody, committed>>
envVars  == <<usable, gone, losses>>
vars == <<conf, req, pc, loopVars, reply, copyVars, senders, envVars, wire, aborted, log, held>>

Bodies == {"none", "small", "stream"}   \* stream: multipart, too long or of unknown length
NoReply == [kind |-> "none"]
Target(v, k) == <<v, k>>
Final(w) == {i \in DOMAIN w : w[i].kind # "processing"}

-----------------------------------------------------------------------------
(***************************************************************************)
(* The downstream side: final headers go through the sender's mutex, so    *)
(* that no 102 can follow them.                                            *)
(***************************************************************************)
hasSender == vendor \in conf.interim /\ senders # <<>>
last == Len(senders)

Stopped(s) == [s EXCEPT !.stopped = TRUE, !.timer = IF @ = "armed" THEN "off" ELSE @]

stop == senders' = IF hasSender THEN [senders EXCEPT ![last] = Stopped(@)] ELSE senders

commitFinalResponse(answer) ==
  IF ~hasSender THEN wire' = Append(wire, answer) /\ UNCHANGED senders
  ELSE /\ senders' = [senders EXCEPT ![last] = [Stopped(@) EXCEPT !.committed = TRUE]]
       /\ wire' = IF senders[last].committed THEN wire ELSE Append(wire, answer)

Synthetic(kind) == [kind |-> kind, masked |-> FALSE]

\* writeHTTPError, and the handler returns.
EndWith(kind) == commitFinalResponse(Synthetic(kind)) /\ pc' = "done"

\* writeMaskableGatewayError: a masking rule may match status and message.
EndWithMaskable(kind, code, words) ==
  /\ commitFinalResponse([kind |-> kind, masked |-> Masked(conf.policy[vendor], code, words)])
  /\ pc' = "done"

EndSilently == stop /\ pc' = "done" /\ UNCHANGED wire

Fire(i) ==
  /\ senders[i].timer = "armed"
  /\ senders' = [senders EXCEPT ![i].timer = "fired"]
  /\ UNCHANGED <<conf, req, pc, loopVars, reply, copyVars, envVars, wire, aborted, log, held>>

\* Mutant of tick: a callback that was already running is not told to stop.
tickAnyway(i) ==
  /\ senders[i].timer = "fired"
  /\ senders' = [senders EXCEPT ![i].timer = IF senders[i].stopped THEN "off" ELSE "armed"]
  /\ wire' = IF wire # <<>> /\ wire[Len(wire)].kind = "processing" THEN wire
             ELSE Append(wire, Synthetic("processing"))
  /\ UNCHANGED <<conf, req, pc, loopVars, reply, copyVars, envVars, aborted, log, held>>

tick(i) ==
  /\ senders[i].timer = "fired"
  /\ IF senders[i].committed \/ senders[i].stopped
       THEN senders' = [senders EXCEPT ![i].timer = "off"] /\ UNCHANGED wire
       ELSE /\ senders' = [senders EXCEPT ![i].timer = "armed"]
            /\ wire' = IF wire # <<>> /\ wire[Len(wire)].kind = "processing" THEN wire
                       ELSE Append(wire, Synthetic("processing"))
  /\ UNCHANGED <<conf, req, pc, loopVars, reply, copyVars, envVars, aborted, log, held>>

-----------------------------------------------------------------------------
(***************************************************************************)
(* The body and the keys.                                                  *)
(***************************************************************************)
\* vendorGateway.shouldBufferRequestBody: could a retry need the body again?
shouldBufferRequestBody(v) ==
  /\ v \in Managed /\ Cardinality(VendorKeys[v]) >= 2
  /\ LET policy == conf.policy[v]
     IN  IF req.safe
           THEN \/ "request_error" \in policy.failsOver
                \/ policy.failoverCodes # {}
                \/ \E code \in UnsafeRetryable \cup ServerErrors : shouldFailoverResponse(code, policy)
           ELSE \E code \in UnsafeRetryable : shouldFailoverResponse(code, policy)

prepareRequestBody(allowReplay) ==
  IF req.body = "none" \/ (allowReplay /\ req.body = "small") THEN "replayable" ELSE "single"

\* Buffering reads the client's body, which can fail.
Buffers(allowReplay) == allowReplay /\ req.body = "small"

replayable == src = "replayable"

\* Mutant of canRetryRequestError: any method.
retryAnyRequestError(decision) == replayable /\ shouldRetryDecision(decision)

canRetryRequestError(decision) == replayable /\ req.safe /\ shouldRetryDecision(decision)

canRetryResponse(code, decision) ==
  /\ replayable /\ shouldRetryDecision(decision)
  /\ req.safe \/ isRetryableStatusForUnsafeMethod(code)

canRetryAggregate(failed, code) ==
  /\ replayable
  /\ req.safe \/ (~failed /\ isRetryableStatusForUnsafeMethod(code))

allowed(v, c) == IF c = None \/ ChildKeys[c] = AllKeys THEN VendorKeys[v] ELSE ChildKeys[c]

Available(v, keys) == {k \in keys \cap usable : Target(v, k) \notin tried}

\* Mutant of hasAvailableKey: keys this request has tried count too.
hasUsableKey(v, c) == v \in Managed /\ allowed(v, c) \cap usable # {}

hasAvailableKey(v, c) == v \in Managed /\ Available(v, allowed(v, c)) # {}

aggregateChildAvailableForExecution(c) ==
  LET v == ChildVendor[c]
  IN  IF v \in Managed THEN hasAvailableKey(v, c) ELSE Target(v, ClientKey) \notin tried

\* aggregatePool.pickAvailableLocked: the strategy chooses within the best tier.
Candidates(excluded) ==
  LET free == {c \in Children \ excluded : aggregateChildAvailableForExecution(c)}
  IN  {c \in free : \A d \in free : Priority[c] <= Priority[d]}

maxUpstreamAttempts == conf.budget[req.route]

hasBudget == spent < maxUpstreamAttempts

retryRemaining == attempts < conf.failoverMax[vendor] /\ hasBudget

-----------------------------------------------------------------------------
(***************************************************************************)
(* upstreamAttempt.finish: the first verdict counts and returns the key.   *)
(***************************************************************************)
current == log[Len(log)]

\* Mutant of finish: not only once.
finishAgain(entry, action) ==
  /\ log' = [log EXCEPT ![Len(log)] = [entry EXCEPT !.verdict = action]]
  /\ held' = IF entry.vendor \in Managed THEN held - 1 ELSE held
  /\ usable' = IF action \in {"cooldown", "disable"} THEN usable \ {entry.key} ELSE usable

finish(entry, action) ==
  IF entry.verdict # "none"
    THEN log' = [log EXCEPT ![Len(log)] = entry] /\ UNCHANGED <<held, usable>>
    ELSE /\ log' = [log EXCEPT ![Len(log)] = [entry EXCEPT !.verdict = action]]
         /\ held' = IF entry.vendor \in Managed THEN held - 1 ELSE held
         /\ usable' = IF action \in {"cooldown", "disable"} THEN usable \ {entry.key} ELSE usable

-----------------------------------------------------------------------------
(***************************************************************************)
(* Arrival, and the loop over the children of an aggregate.                *)
(***************************************************************************)
Init ==
  /\ conf \in Configs
  /\ req \in [route : Vendors \cup {Aggregate}, safe : BOOLEAN, body : Bodies]
  /\ pc = "start" /\ round = 0 /\ exclude = {} /\ child = None /\ vendor = None
  /\ src = "nil" /\ tried = {} /\ spent = 0 /\ attempts = 0 /\ reply = NoReply
  /\ hasBody = FALSE /\ committed = FALSE /\ senders = <<>> /\ usable = Keys
  /\ gone = FALSE /\ wire = <<>> /\ aborted = FALSE /\ log = <<>> /\ held = 0
  /\ losses = 0

authorizeClientFails ==
  /\ pc = "start"
  /\ EndWith("unauthorized")
  /\ UNCHANGED <<conf, req, loopVars, reply, copyVars, envVars, aborted, log, held>>

\* Mutant of EnterVendor: the state of the execution belongs to the inner loop.
EnterVendorAfresh(v, c) ==
  /\ vendor' = v /\ child' = c /\ attempts' = 0 /\ tried' = {} /\ spent' = 0
  /\ senders' = IF v \in conf.interim
                  THEN Append(senders, [timer |-> "armed", stopped |-> FALSE, committed |-> FALSE])
                  ELSE senders
  /\ pc' = "attempt"

\* serveVendorRequestWithAggregateHook begins.
EnterVendor(v, c) ==
  /\ vendor' = v /\ child' = c /\ attempts' = 0 /\ UNCHANGED <<tried, spent>>
  /\ senders' = IF v \in conf.interim
                  THEN Append(senders, [timer |-> "armed", stopped |-> FALSE, committed |-> FALSE])
                  ELSE senders
  /\ pc' = "attempt"

\* Reading the body for a replay fails: 400, or silence for a client that left.
bodyNotRead ==
  /\ \/ gone' = TRUE /\ EndSilently
     \/ EndWith("badBody") /\ UNCHANGED gone
  /\ UNCHANGED <<round, exclude, child, vendor, src, tried, spent, attempts>>

prepareNonAggregateRequest ==
  /\ pc = "start" /\ req.route \in Vendors
  /\ LET allowReplay == shouldBufferRequestBody(req.route)
     IN  \/ /\ src' = prepareRequestBody(allowReplay)
            /\ EnterVendor(req.route, None)
            /\ UNCHANGED <<round, exclude, gone, wire>>
         \/ Buffers(allowReplay) /\ bodyNotRead
  /\ UNCHANGED <<conf, req, reply, copyVars, usable, losses, aborted, log, held>>

authorizeAggregate ==
  /\ pc = "start" /\ req.route = Aggregate
  /\ pc' = "pick"
  /\ UNCHANGED <<conf, req, loopVars, reply, copyVars, senders, envVars, wire, aborted, log, held>>

\* Mutant of prepareAggregateRequest: wait until a child is available.
prepareWhenAvailable ==
  /\ pc = "pick" /\ Candidates(exclude) # {}
  /\ \E c \in Candidates(exclude) :
       /\ src' = IF src = "nil" THEN prepareRequestBody(TRUE) ELSE src
       /\ EnterVendor(ChildVendor[c], c)
  /\ UNCHANGED <<conf, req, round, exclude, gone, wire, reply, copyVars, usable, losses, aborted,
                 log, held>>

prepareAggregateRequest ==
  /\ pc = "pick"
  /\ IF conf.retry.enabled /\ round >= conf.retry.max
       THEN EndSilently /\ UNCHANGED <<loopVars, gone>>
     ELSE IF Candidates(exclude) = {}
       THEN EndWith("noChild") /\ UNCHANGED <<loopVars, gone>>
     ELSE \E c \in Candidates(exclude) :
       LET allowReplay == conf.retry.enabled \/ shouldBufferRequestBody(ChildVendor[c])
       IN  \/ /\ src' = IF src = "nil" THEN prepareRequestBody(allowReplay) ELSE src
              /\ EnterVendor(ChildVendor[c], c)
              /\ UNCHANGED <<round, exclude, gone, wire>>
           \/ src = "nil" /\ Buffers(allowReplay) /\ bodyNotRead
  /\ UNCHANGED <<conf, req, reply, copyVars, usable, losses, aborted, log, held>>

-----------------------------------------------------------------------------
(***************************************************************************)
(* The loop over the keys of one vendor.                                   *)
(***************************************************************************)
Targets == IF vendor \in Managed THEN Available(vendor, allowed(vendor, child)) ELSE {ClientKey}

\* newAttempt cannot build the upstream request: the key is released.
buildFails ==
  /\ pc = "attempt" /\ attempts < conf.failoverMax[vendor] /\ Targets # {}
  /\ attempts' = attempts + 1
  /\ EndWithMaskable("badTarget", 502, {})
  /\ UNCHANGED <<conf, req, round, exclude, child, vendor, src, tried, spent, reply, copyVars,
                 envVars, aborted, log, held>>

Send(k) ==
  /\ tried' = tried \cup {Target(vendor, k)}
  /\ spent' = spent + 1
  /\ src' = IF src = "single" THEN "used" ELSE src
  /\ log' = Append(log, [vendor |-> vendor, key |-> k, code |-> 0, fault |-> FALSE,
                         verdict |-> "none"])
  /\ held' = IF vendor \in Managed THEN held + 1 ELSE held
  /\ pc' = "sent"
  /\ UNCHANGED <<wire, senders>>

newAttempt ==
  /\ pc = "attempt"
  /\ attempts' = attempts + 1
  /\ IF attempts >= conf.failoverMax[vendor]
       THEN EndWith("exceededFailover") /\ UNCHANGED <<tried, spent, src, log, held>>
     ELSE IF Targets = {}
       THEN EndWithMaskable("noKey", 503, {"cooldown"}) /\ UNCHANGED <<tried, spent, src, log, held>>
     ELSE IF src = "used"
       THEN EndWithMaskable("unreplayable", 500, {}) /\ UNCHANGED <<tried, spent, src, log, held>>
     ELSE IF ~hasBudget
       THEN EndWith("exceededBudget") /\ UNCHANGED <<tried, spent, src, log, held>>
     ELSE \E k \in Targets : Send(k)
  /\ reply' = NoReply
  /\ UNCHANGED <<conf, req, round, exclude, child, vendor, copyVars, envVars, aborted>>

\* The client's live body cannot be read, or not in time (errClientUploadTimeout).
requestBodyReadError ==
  /\ pc = "sent" /\ src = "used"
  /\ \E late \in BOOLEAN :
       /\ IF late \/ ~gone THEN EndWith("badBody") ELSE EndSilently
       /\ gone' = (gone \/ late)
  /\ finish(current, "interrupted")
  /\ UNCHANGED <<conf, req, loopVars, reply, copyVars, losses, aborted>>

isCanceledUpstreamError ==
  /\ pc = "sent" /\ gone
  /\ finish(current, "interrupted")
  /\ EndSilently
  /\ UNCHANGED <<conf, req, loopVars, reply, copyVars, gone, losses, aborted>>

doUpstreamRequestFails ==
  /\ pc = "sent"
  /\ LET decision == classifyRequestError(conf.policy[vendor])
     IN  /\ finish([current EXCEPT !.fault = TRUE], decision.action)
         /\ reply' = [kind |-> "error", decision |-> decision]
  /\ pc' = "retryKey"
  /\ UNCHANGED <<conf, req, loopVars, copyVars, senders, gone, losses, wire, aborted>>

\* handleUpstreamResponse, the preview of an error being readable.
Respond(resp) ==
  /\ pc = "sent"
  /\ IF resp.code < 400
       THEN /\ log' = [log EXCEPT ![Len(log)].code = resp.code]
            /\ reply' = [kind |-> "response", resp |-> resp, decision |-> Decision("success", FALSE)]
            /\ pc' = "copy"
            /\ UNCHANGED <<held, usable>>
       ELSE LET decision == analyzeErrorResponse(conf.openai, conf.policy[vendor], resp)
            IN  /\ finish([current EXCEPT !.code = resp.code], decision.action)
                /\ reply' = [kind |-> "response", resp |-> resp, decision |-> decision]
                /\ pc' = "retryKey"
  /\ UNCHANGED <<conf, req, loopVars, copyVars, senders, gone, losses, wire, aborted>>

\* Its preview fails: the status counts for the key, an error for the retry.
captureResponsePreviewFails(resp) ==
  /\ pc = "sent" /\ resp.code >= 400
  /\ finish([current EXCEPT !.code = resp.code, !.fault = TRUE],
            classifyErrorResponse(conf.openai, conf.policy[vendor], NoPreview(resp)).action)
  /\ \/ gone /\ EndSilently /\ UNCHANGED reply
     \/ /\ reply' = [kind |-> "error", decision |-> classifyRequestError(conf.policy[vendor])]
        /\ pc' = "retryKey"
        /\ UNCHANGED <<senders, wire>>
  /\ UNCHANGED <<conf, req, loopVars, copyVars, gone, losses, aborted>>

failed == reply.kind = "error"

canRetry ==
  IF failed THEN canRetryRequestError(reply.decision)
            ELSE canRetryResponse(reply.resp.code, reply.decision)

\* The vendor's own failover comes first.
RetryKey ==
  /\ pc = "retryKey"
  /\ pc' = IF canRetry /\ retryRemaining /\ hasAvailableKey(vendor, child)
             THEN "attempt" ELSE "retryChild"
  /\ UNCHANGED <<conf, req, loopVars, reply, copyVars, senders, envVars, wire, aborted, log, held>>

aggregateRetryable ==
  IF failed THEN conf.retry.networkError
  ELSE CASE reply.resp.code = 429 -> conf.retry.rateLimit
         [] reply.resp.code \in {500, 502, 503, 504} -> conf.retry.serverError
         [] OTHER -> reply.resp.code \in conf.retry.codes

\* The hook exists only with aggregate retry.
shouldRetryAggregate ==
  /\ req.route = Aggregate /\ conf.retry.enabled
  /\ round < conf.retry.max - 1 /\ hasBudget
  /\ aggregateRetryable
  /\ canRetryAggregate(failed, IF failed THEN 0 ELSE reply.resp.code)
  /\ Candidates(exclude \cup {child}) # {}

RetryChild ==
  /\ pc = "retryChild" /\ shouldRetryAggregate
  /\ stop
  /\ exclude' = exclude \cup {child} /\ round' = round + 1
  /\ child' = None /\ vendor' = None
  /\ pc' = "pick"
  /\ UNCHANGED <<conf, req, src, tried, spent, attempts, reply, copyVars, envVars, wire, aborted,
                 log, held>>

\* No retry: a gateway error, the masked response, or the response itself.
GiveUp ==
  /\ pc = "retryChild" /\ ~shouldRetryAggregate
  /\ IF failed THEN EndWithMaskable("upstreamFailed", 502, {"request failed"})
     ELSE IF Masked(conf.policy[vendor], reply.resp.code, reply.resp.body)
       THEN commitFinalResponse([kind |-> "upstream", masked |-> TRUE]) /\ pc' = "done"
     ELSE pc' = "copy" /\ UNCHANGED <<wire, senders>>
  /\ UNCHANGED <<conf, req, loopVars, reply, copyVars, envVars, aborted, log, held>>

-----------------------------------------------------------------------------
(***************************************************************************)
(* writeUpstreamResponse: copy the body, commit with its first byte.  The  *)
(* deferred finish gives an attempt without a verdict "interrupted".       *)
(***************************************************************************)
commitUpstream ==
  /\ committed' = TRUE
  /\ IF committed THEN UNCHANGED <<wire, senders>> ELSE commitFinalResponse(Synthetic("upstream"))

\* A success may promise a body, by its content type or the path asked for.
expectsUpstreamResponseBody == reply.resp.code \in 200..299 \ {204, 205}

readFailure == classifyRequestError(conf.policy[vendor]).action

copyChunk ==
  /\ pc = "copy"
  /\ hasBody' = TRUE
  /\ commitUpstream
  /\ UNCHANGED <<conf, req, pc, loopVars, reply, envVars, aborted, log, held>>

\* Mutant of writeFails: a read error that came with the bytes is forgotten.
writeFailsOnly ==
  /\ pc = "copy"
  /\ commitUpstream /\ hasBody' = TRUE
  /\ \E readErr \in BOOLEAN : finish([current EXCEPT !.fault = @ \/ readErr], "interrupted")
  /\ gone' = TRUE /\ pc' = "done"
  /\ UNCHANGED <<conf, req, loopVars, reply, losses, aborted>>

\* The client's connection breaks while bytes are written; a read error that
\* came with them was recorded before.
writeFails ==
  /\ pc = "copy"
  /\ commitUpstream /\ hasBody' = TRUE
  /\ \E readErr \in BOOLEAN :
       finish([current EXCEPT !.fault = @ \/ readErr],
              IF readErr THEN readFailure ELSE "interrupted")
  /\ gone' = TRUE /\ pc' = "done"
  /\ UNCHANGED <<conf, req, loopVars, reply, losses, aborted>>

endOfBody ==
  /\ pc = "copy"
  /\ \/ /\ ~hasBody /\ expectsUpstreamResponseBody
        /\ finish([current EXCEPT !.fault = TRUE], readFailure)
        /\ EndWith("empty")
        /\ UNCHANGED <<committed, gone>>
     \/ /\ commitUpstream /\ pc' = "done"
        /\ \/ finish(current, reply.decision.action) /\ UNCHANGED gone
           \/ ~hasBody /\ finish(current, "interrupted") /\ gone' = TRUE   \* the flush fails
  /\ UNCHANGED <<conf, req, loopVars, reply, hasBody, losses, aborted>>

\* Mutant of bodyInterrupted: an error page although the headers are out.
bodyInterruptedPage ==
  /\ pc = "copy"
  /\ finish([current EXCEPT !.fault = TRUE], readFailure)
  /\ IF reply.resp.code >= 400 THEN commitUpstream /\ pc' = "done"
                               ELSE EndWith("interrupted") /\ UNCHANGED committed
  /\ UNCHANGED <<conf, req, loopVars, reply, hasBody, gone, losses, aborted>>

\* Mutant of bodyInterrupted: a truncated body looks complete.
bodyInterruptedQuietly ==
  /\ pc = "copy"
  /\ finish([current EXCEPT !.fault = TRUE], readFailure)
  /\ IF committed \/ reply.resp.code >= 400 THEN commitUpstream /\ pc' = "done"
     ELSE EndWith("interrupted") /\ UNCHANGED committed
  /\ UNCHANGED <<conf, req, loopVars, reply, hasBody, gone, losses, aborted>>

\* The upstream breaks off.  An error status is delivered all the same; a
\* success is replaced if nothing has been sent, or the connection is cut.
bodyInterrupted ==
  /\ pc = "copy"
  /\ finish([current EXCEPT !.fault = TRUE], readFailure)
  /\ IF reply.resp.code >= 400 THEN commitUpstream /\ pc' = "done" /\ UNCHANGED aborted
     ELSE IF ~committed THEN EndWith("interrupted") /\ UNCHANGED <<committed, aborted>>
     ELSE EndSilently /\ aborted' = TRUE /\ UNCHANGED committed
  /\ UNCHANGED <<conf, req, loopVars, reply, hasBody, gone, losses>>

copyCanceled ==
  /\ pc = "copy" /\ gone
  /\ finish(current, "interrupted")
  /\ EndSilently
  /\ UNCHANGED <<conf, req, loopVars, reply, copyVars, gone, losses, aborted>>

-----------------------------------------------------------------------------
(***************************************************************************)
(* Everybody else.                                                         *)
(***************************************************************************)
KeyLost(k) ==
  /\ pc # "done" /\ k \in usable
  /\ losses < MaxLosses
  /\ usable' = usable \ {k} /\ losses' = losses + 1
  /\ UNCHANGED <<conf, req, pc, loopVars, reply, copyVars, senders, gone, wire, aborted, log, held>>

KeyBack(k) ==
  /\ pc # "done" /\ k \notin usable
  /\ usable' = usable \cup {k}
  /\ UNCHANGED <<conf, req, pc, loopVars, reply, copyVars, senders, gone, losses, wire, aborted,
                 log, held>>

ClientLeaves ==
  /\ pc # "done" /\ ~gone
  /\ gone' = TRUE
  /\ UNCHANGED <<conf, req, pc, loopVars, reply, copyVars, senders, usable, losses, wire, aborted,
                 log, held>>

UpstreamAnswers ==
  \/ requestBodyReadError \/ isCanceledUpstreamError \/ doUpstreamRequestFails
  \/ \E resp \in Responses : Respond(resp) \/ captureResponsePreviewFails(resp)

Handler ==
  \/ authorizeClientFails \/ prepareNonAggregateRequest \/ authorizeAggregate
  \/ prepareAggregateRequest \/ buildFails \/ newAttempt \/ UpstreamAnswers
  \/ RetryKey \/ RetryChild \/ GiveUp
  \/ writeFails \/ endOfBody \/ bodyInterrupted \/ copyCanceled

Next ==
  \/ Handler \/ copyChunk
  \/ \E i \in DOMAIN senders : Fire(i) \/ tick(i)
  \/ \E k \in Keys : KeyLost(k) \/ KeyBack(k)
  \/ ClientLeaves

\* The handler runs on, upstreams answer or fail, and their bodies end.
Spec == Init /\ [][Next]_vars /\ WF_vars(Handler)

-----------------------------------------------------------------------------
(***************************************************************************)
(* Properties.                                                             *)
(***************************************************************************)
Verdicts == {"none", "interrupted", "success", "observe", "cooldown", "disable"}
Entry == [vendor : Vendors, key : Keys \cup {ClientKey}, code : Nat, fault : BOOLEAN,
          verdict : Verdicts]

\* Types; the counters of the loops stay within the configured limits.
TypeOK ==
  /\ conf \in Configs
  /\ req \in [route : Vendors \cup {Aggregate}, safe : BOOLEAN, body : Bodies]
  /\ pc \in {"start", "pick", "attempt", "sent", "retryKey", "retryChild", "copy", "done"}
  /\ round \in 0..(conf.retry.max - 1) /\ exclude \subseteq Children
  /\ child \in Children \cup {None} /\ vendor \in Vendors \cup {None}
  /\ pc \in {"attempt", "sent", "retryKey", "retryChild", "copy"} => vendor # None
  /\ src \in {"nil", "replayable", "single", "used"}
  /\ tried \subseteq Vendors \X (Keys \cup {ClientKey})
  /\ spent \in 0..maxUpstreamAttempts /\ attempts \in Nat
  /\ vendor # None => attempts \in 0..conf.failoverMax[vendor]
  /\ hasBody \in BOOLEAN /\ committed \in BOOLEAN /\ usable \subseteq Keys
  /\ gone \in BOOLEAN /\ aborted \in BOOLEAN /\ losses \in 0..MaxLosses /\ held \in Int
  /\ senders \in Seq([timer : {"armed", "fired", "off"}, stopped : BOOLEAN, committed : BOOLEAN])
  /\ wire \in Seq([kind : STRING, masked : BOOLEAN]) /\ log \in Seq(Entry)

\* No target sees a request twice, whichever children lead to it
\* (requestExecution.tried; overlapping key lists, one vendor under two entries).
NoTargetTwice ==
  \A i, j \in DOMAIN log :
    log[i].vendor = log[j].vendor /\ log[i].key = log[j].key => i = j

\* One budget bounds the attempts of all rounds together (max_upstream_attempts),
\* and the last attempt it allows delivers its response: the errors of the loops
\* whose guards are marked "unreachable" are never sent.
WithinBudget ==
  /\ Len(log) <= maxUpstreamAttempts
  /\ \A i \in DOMAIN wire : wire[i].kind \notin {"exceededFailover", "exceededBudget"}

\* An unsafe request is sent again only while every earlier upstream has
\* refused it: at most one of them may have processed it.
ProcessedAtMostOnce ==
  ~req.safe => Cardinality({i \in DOMAIN log : log[i].code \notin UnsafeRetryable}) <= 1

\* One final header block at most, and none only for a client that has left:
\* a handler that returned without one would send an implicit 200.
ExactlyOneAnswer ==
  /\ Cardinality(Final(wire)) <= 1
  /\ pc = "done" /\ Final(wire) = {} => gone

\* 102 headers precede the final ones, and none is written once the handler
\* has returned, whatever timer callback is still under way.
InterimBeforeFinal ==
  [][\A i \in DOMAIN wire' \ DOMAIN wire :
       wire'[i].kind = "processing" => Final(wire) = {} /\ pc # "done"]_vars

\* A failover that policy and method allow finds its body: shouldBufferRequestBody,
\* asked before there was a failure, kept every body that could be kept, and a
\* consumed one is not asked for again.  And unless another request takes a key
\* away in between, a retry that was promised finds its child and its key: the
\* response given up for it is not replaced by a 503.
PromisedRetryHappens ==
  /\ pc = "retryKey" /\ req.body = "small" /\ vendor \in Managed
       /\ Cardinality(VendorKeys[vendor]) >= 2
       /\ shouldRetryDecision(reply.decision)
       /\ (req.safe \/ (~failed /\ reply.resp.code \in UnsafeRetryable))
     => replayable
  /\ \A i \in DOMAIN wire : wire[i].kind # "unreplayable"
  /\ losses = 0 /\ log # <<>> => \A i \in DOMAIN wire : wire[i].kind \notin {"noKey", "noChild"}

\* A key is held exactly from its acquisition to the first verdict.
KeyHeldOnce ==
  /\ held = Cardinality({i \in DOMAIN log : log[i].verdict = "none" /\ log[i].vendor \in Managed})
  /\ \A i \in DOMAIN log : log[i].verdict = "none" => i = Len(log) /\ pc \in {"sent", "copy"}

\* The verdict on a key follows from what the upstream did, never from what the
\* client did, even when both fail in one step.
VerdictByUpstream ==
  \A i \in DOMAIN log :
    LET e == log[i]
    IN  /\ e.fault => e.verdict \notin {"none", "success", "interrupted"}
        /\ ~e.fault /\ e.code < 400 => e.verdict \in {"none", "success", "interrupted"}

\* A success that breaks off half-way never looks complete to the client.
TruncationVisible ==
  pc = "done" /\ log # <<>> /\ current.fault /\ current.code < 400 /\ ~gone
    => aborted \/ \A i \in Final(wire) : wire[i].kind # "upstream"

\* Every request ends.
RequestEnds == <>(pc = "done")
=============================================================================
