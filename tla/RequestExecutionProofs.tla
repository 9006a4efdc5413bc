----------------------- MODULE RequestExecutionProofs -----------------------
(***************************************************************************)
(* Theorems about RequestExecution, for any vendors, keys, aggregate,      *)
(* policies and limits: a request meets no target twice and stays within   *)
(* its budget, an unsafe one is processed at most once, the verdict on a   *)
(* key is the upstream's, the key is returned once, and the client gets    *)
(* exactly one answer.  The last part is about AttemptTimers, the timers   *)
(* within one attempt.                                                     *)
(***************************************************************************)
EXTENDS RequestExecution, AttemptTimers, FiniteSetTheorems, TLAPS

(***************************************************************************)
(* The loops.                                                              *)
(***************************************************************************)

Begun == {"sent", "retryKey", "retryChild", "copy"}
Inside == {"attempt"} \cup Begun

LoopTypes ==
  /\ conf \in Configs
  /\ req \in [route : Vendors \cup {Aggregate}, safe : BOOLEAN, body : Bodies]
  /\ pc \in {"start", "pick", "attempt", "sent", "retryKey", "retryChild", "copy", "done"}
  /\ round \in Nat /\ exclude \subseteq Children
  /\ child \in Children \cup {None} /\ vendor \in Vendors \cup {None}
  /\ pc \in Inside => vendor \in Vendors
  /\ pc \notin Inside \cup {"done"} => vendor = None
  /\ src \in {"nil", "replayable", "single", "used"}
  /\ spent \in Nat /\ attempts \in Nat
  /\ log \in Seq(Entry)

\* The limits are looked at before the loops go round again, so that their own
\* guards always hold.
LimitsOK ==
  /\ spent = Len(log) /\ Len(log) <= maxUpstreamAttempts
  /\ pc \in {"start", "pick", "attempt"} => hasBudget
  /\ pc = "attempt" => attempts < conf.failoverMax[vendor]
  /\ round < conf.retry.max

\* Every attempt is remembered, and what is about to be tried is new.
TriedOK ==
  /\ \A i \in DOMAIN log : Target(log[i].vendor, log[i].key) \in tried
  /\ pc = "start" => tried = {}
  /\ pc = "attempt" /\ vendor \notin Managed => Target(vendor, ClientKey) \notin tried

\* A body that has been consumed is not asked for again.
BodyOK ==
  /\ pc = "start" => src = "nil"
  /\ pc = "pick" => src \in {"nil", "replayable"}
  /\ pc = "attempt" => src \in {"single", "replayable"}

\* The route leads to the vendor itself or to a child of the aggregate.
RouteOK ==
  /\ pc = "pick" => req.route = Aggregate
  /\ pc \in Inside => IF req.route = Aggregate THEN child \in Children /\ vendor = ChildVendor[child]
                                               ELSE child = None /\ vendor = req.route

LoopInv == LoopTypes /\ LimitsOK /\ TriedOK /\ BodyOK /\ RouteOK /\ NoTargetTwice

-----------------------------------------------------------------------------
(***************************************************************************)
(* The verdicts.                                                           *)
(***************************************************************************)

\* What the current attempt has come to, by where the handler is.
CurrentOK ==
  /\ pc = "start" => log = <<>>
  /\ pc \in Begun => log # <<>> /\ current.vendor = vendor
  /\ pc = "sent" => current.code = 0 /\ ~current.fault /\ current.verdict = "none"
  /\ pc \in {"retryKey", "retryChild"} => current.verdict \notin {"none", "success", "interrupted"}
  /\ pc = "copy" => IF reply.resp.code < 400
                      THEN ~current.fault /\ current.verdict = "none" /\ reply.decision.action = "success"
                      ELSE current.verdict \notin {"none", "success", "interrupted"}

ReplyOK ==
  /\ pc \in {"retryKey", "retryChild", "copy"} =>
       /\ reply.kind \in {"error", "response"}
       /\ reply.kind = "response" => reply.resp.code \in Nat /\ current.code = reply.resp.code
  /\ pc \in {"retryKey", "retryChild"} /\ reply.kind = "response" => reply.resp.code >= 400
  /\ pc = "copy" => reply.kind = "response"

\* Only the last attempt is without a verdict, while its answer is out.
PendingOK ==
  /\ \A i \in DOMAIN log : log[i].verdict = "none" => i = Len(log) /\ pc \in {"sent", "copy"}
  /\ held = IF log # <<>> /\ current.verdict = "none" /\ current.vendor \in Managed THEN 1 ELSE 0

\* An unsafe request goes on only from an upstream that refused it.
RefusedOK ==
  ~req.safe => \A i \in DOMAIN log :
                 i < Len(log) \/ pc \in {"pick", "attempt"} => log[i].code \in UnsafeRetryable

VerdictInv == CurrentOK /\ ReplyOK /\ PendingOK /\ RefusedOK /\ VerdictByUpstream

-----------------------------------------------------------------------------
(***************************************************************************)
(* The answer.                                                             *)
(***************************************************************************)

\* The answers that are sent: the errors of the loops' own guards are not among them.
Kinds == {"upstream", "processing", "unauthorized", "badBody", "noChild", "badTarget", "noKey",
          "upstreamFailed", "empty", "interrupted"}
Block == [kind : Kinds, masked : BOOLEAN]
Sender == [timer : {"armed", "fired", "off"}, stopped : BOOLEAN, committed : BOOLEAN]

AnswerTypes ==
  /\ wire \in Seq(Block) /\ senders \in Seq(Sender)
  /\ gone \in BOOLEAN /\ aborted \in BOOLEAN /\ committed \in BOOLEAN /\ hasBody \in BOOLEAN

\* Headers go out with the first byte of a copied body or at the end.
CommittedOK ==
  /\ pc \notin {"copy", "done"} => ~committed
  /\ pc = "copy" /\ committed => hasBody
  /\ pc # "done" /\ ~committed => Final(wire) = {}
  /\ pc = "copy" /\ committed => Final(wire) # {}
  /\ pc = "done" /\ Final(wire) = {} => gone
  /\ \A i, j \in Final(wire) : i = j

\* A sender that may still write is the one in use, before the final headers.
SendersOK ==
  \A i \in DOMAIN senders :
    /\ senders[i].committed => Final(wire) # {}
    /\ ~senders[i].stopped =>
         i = Len(senders) /\ vendor \in conf.interim /\ pc \in Inside /\ Final(wire) = {}

AnswerInv == AnswerTypes /\ CommittedOK /\ SendersOK /\ TruncationVisible

-----------------------------------------------------------------------------
(***************************************************************************)
(* The retries.                                                            *)
(***************************************************************************)

\* A body that could be needed again was kept.
KeptOK ==
  pc \in Inside /\ req.body = "small" /\ shouldBufferRequestBody(vendor) => replayable

\* The decision between keys is the one the policy makes of the failure.
DecidedOK ==
  pc = "retryKey" =>
    reply.decision.failover = IF failed THEN "request_error" \in conf.policy[vendor].failsOver
                              ELSE shouldFailoverResponse(reply.resp.code, conf.policy[vendor])

\* Whoever comes back for a retry finds a key or a child.
PromiseOK ==
  losses = 0 /\ log # <<>> =>
    /\ pc = "attempt" => Targets # {}
    /\ pc = "pick" => Candidates(exclude) # {}

\* A 503 for the lack of either follows no attempt.
ShortageOK ==
  losses = 0 /\ log # <<>> => \A i \in DOMAIN wire : wire[i].kind \notin {"noKey", "noChild"}

RetryInv == losses \in Nat /\ KeptOK /\ DecidedOK /\ PromiseOK /\ ShortageOK

-----------------------------------------------------------------------------
(***************************************************************************)
(* Facts about the operators.                                              *)
(***************************************************************************)

\* Upstream failures never count as a success or an interruption.
Faults == {"observe", "cooldown", "disable"}

LEMMA Decisions ==
  ASSUME NEW policy, NEW openai, NEW resp
  PROVE  /\ classifyRequestError(policy) \in [action : Faults, failover : {"request_error" \in policy.failsOver}]
         /\ classifyErrorResponse(openai, policy, resp) \in
              [action : Faults, failover : {shouldFailoverResponse(resp.code, policy)}]
         /\ analyzeErrorResponse(openai, policy, resp) \in
              [action : Faults, failover : {shouldFailoverResponse(resp.code, policy)}]
<1>1. \A class, failover : cooldownDecision(policy, class, failover) \in [action : Faults, failover : {failover}]
  BY DEF cooldownDecision, Decision, Faults
<1>2. classifyErrorResponse(openai, policy, resp) \in
        [action : Faults, failover : {shouldFailoverResponse(resp.code, policy)}]
  BY <1>1 DEF classifyErrorResponse, Decision, Faults
<1>3. analyzeErrorResponse(openai, policy, resp) \in
        [action : Faults, failover : {shouldFailoverResponse(resp.code, policy)}]
  BY <1>2 DEF analyzeErrorResponse, extendDecisionCooldown, Faults
<1> QED BY <1>1, <1>2, <1>3 DEF classifyRequestError

LEMMA DecisionActions ==
  ASSUME NEW policy, NEW openai, NEW resp
  PROVE  /\ classifyRequestError(policy).action \in Faults
         /\ classifyErrorResponse(openai, policy, resp).action \in Faults
         /\ analyzeErrorResponse(openai, policy, resp).action \in Faults
BY Decisions

\* finish changes the last attempt only, and its verdict only once.
LEMMA FinishEffect ==
  ASSUME log \in Seq(Entry), log # <<>>, NEW entry \in Entry, NEW action,
         entry.verdict = "none" => action \in Verdicts,
         entry.vendor = current.vendor, entry.key = current.key, finish(entry, action)
  PROVE  /\ log' \in Seq(Entry) /\ Len(log') = Len(log) /\ Len(log) \in DOMAIN log
         /\ \A i \in DOMAIN log : i # Len(log) => log'[i] = log[i]
         /\ \A i \in DOMAIN log : log'[i].vendor = log[i].vendor /\ log'[i].key = log[i].key
         /\ log'[Len(log)].code = entry.code /\ log'[Len(log)].fault = entry.fault
         /\ log'[Len(log)].verdict = IF entry.verdict = "none" THEN action ELSE entry.verdict
         /\ held' = IF entry.verdict = "none" /\ entry.vendor \in Managed THEN held - 1 ELSE held
         /\ usable' \subseteq usable
<1>1. Len(log) \in DOMAIN log
  BY DEF Entry
<1>2. PICK e \in Entry : /\ log' = [log EXCEPT ![Len(log)] = e]
                         /\ e.vendor = entry.vendor /\ e.key = entry.key
                         /\ e.code = entry.code /\ e.fault = entry.fault
                         /\ e.verdict = IF entry.verdict = "none" THEN action ELSE entry.verdict
  <2>1. CASE entry.verdict = "none"
    <3>1. [entry EXCEPT !.verdict = action] \in Entry
      BY <2>1 DEF Entry
    <3> QED BY <2>1, <3>1 DEF finish, Entry
  <2>2. CASE entry.verdict # "none"
    BY <2>2 DEF finish
  <2> QED BY <2>1, <2>2
<1>3. log' \in Seq(Entry) /\ Len(log') = Len(log)
  BY <1>1, <1>2
<1>4. \A i \in DOMAIN log : log'[i] = IF i = Len(log) THEN e ELSE log[i]
  BY <1>1, <1>2
<1>5. /\ held' = IF entry.verdict = "none" /\ entry.vendor \in Managed THEN held - 1 ELSE held
      /\ usable' \subseteq usable
  BY DEF finish
<1> QED BY <1>1, <1>2, <1>3, <1>4, <1>5 DEF current

\* The budget and the limits are positive.
LEMMA Limits ==
  ASSUME LoopTypes
  PROVE  /\ maxUpstreamAttempts \in Nat \ {0} /\ conf.retry.max \in Nat \ {0}
         /\ \A v \in Vendors : conf.failoverMax[v] \in Nat \ {0}
         /\ conf.interim \subseteq Vendors
BY LimitConstants DEF LoopTypes, maxUpstreamAttempts

-----------------------------------------------------------------------------
(***************************************************************************)
(* The loops: no target twice, within the budget.                          *)
(***************************************************************************)

\* A step outside the loops: attempts get their verdicts and the handler goes
\* on or returns.
QuietStep ==
  /\ UNCHANGED <<conf, req, loopVars>>
  /\ log' \in Seq(Entry) /\ Len(log') = Len(log)
  /\ \A i \in DOMAIN log : log'[i].vendor = log[i].vendor /\ log'[i].key = log[i].key
  /\ pc' = pc \/ pc' = "done" \/ (pc \in Inside /\ pc' \in Begun)

LEMMA QuietKeepsLoop == ASSUME LoopInv, QuietStep PROVE LoopInv'
<1>1. LoopTypes'
  BY DEF LoopInv, LoopTypes, QuietStep, loopVars, Inside, Begun
<1>2. DOMAIN log' = DOMAIN log
  BY DEF LoopInv, LoopTypes, QuietStep
<1>3. LimitsOK'
  BY DEF LoopInv, LimitsOK, QuietStep, loopVars, maxUpstreamAttempts, hasBudget, Begun
<1>4. TriedOK' /\ NoTargetTwice'
  BY <1>2 DEF LoopInv, TriedOK, NoTargetTwice, QuietStep, loopVars, Target, Begun
<1>5. BodyOK' /\ RouteOK'
  BY DEF LoopInv, BodyOK, RouteOK, QuietStep, loopVars, Inside, Begun
<1> QED BY <1>1, <1>3, <1>4, <1>5 DEF LoopInv

\* The steps of everybody else and of the timers.
Outside ==
  \/ \E i \in DOMAIN senders : Fire(i) \/ tick(i)
  \/ \E k \in Keys : KeyLost(k) \/ KeyBack(k)
  \/ ClientLeaves
  \/ UNCHANGED vars

LEMMA OutsideQuiet ==
  ASSUME LoopTypes, Outside
  PROVE  /\ UNCHANGED <<conf, req, pc, loopVars, reply, copyVars, aborted, log, held>>
         /\ QuietStep
<1>1. UNCHANGED <<conf, req, pc, loopVars, reply, copyVars, aborted, log, held>>
  BY DEF Outside, Fire, tick, KeyLost, KeyBack, ClientLeaves, vars
<1> QED BY <1>1 DEF QuietStep, LoopTypes

LEMMA CurrentEntry ==
  ASSUME LoopInv, CurrentOK, pc \in Begun
  PROVE  current \in Entry
BY DEF LoopInv, LoopTypes, CurrentOK, current

LEMMA EndsDone ==
  ASSUME NEW k, NEW c, NEW w
  PROVE  /\ EndWith(k) => pc' = "done"
         /\ EndWithMaskable(k, c, w) => pc' = "done"
         /\ EndSilently => pc' = "done"
BY DEF EndWith, EndWithMaskable, EndSilently

\* An attempt gets its verdict, from the upstream if the upstream has failed.
LEMMA JudgedKeeps ==
  ASSUME LoopInv, VerdictInv, pc \in {"sent", "copy"}, pc' \in {"retryKey", "done"},
         UNCHANGED <<conf, req, loopVars>>,
         NEW entry \in Entry, NEW action, finish(entry, action),
         entry.vendor = current.vendor, entry.key = current.key, entry.verdict = current.verdict,
         entry.verdict = "none" =>
           /\ action \in Faults \cup {"success", "interrupted"}
           /\ entry.fault => action \in Faults
           /\ ~entry.fault /\ entry.code < 400 => action \in {"success", "interrupted"},
         entry.verdict # "none" => entry.code >= 400,
         pc' = "retryKey" =>
           /\ entry.verdict = "none" /\ action \in Faults
           /\ reply'.kind \in {"error", "response"}
           /\ reply'.kind = "response" =>
                reply'.resp.code \in Nat /\ entry.code = reply'.resp.code /\ reply'.resp.code >= 400
  PROVE  QuietStep /\ VerdictInv'
<1>1. entry.verdict = "none" => action \in Verdicts
  BY DEF Verdicts, Faults
<1>2. log \in Seq(Entry) /\ log # <<>> /\ current.vendor = vendor /\ pc \in Begun
  BY DEF LoopInv, LoopTypes, VerdictInv, CurrentOK, Begun
<1>3. /\ log' \in Seq(Entry) /\ Len(log') = Len(log) /\ Len(log) \in DOMAIN log
      /\ \A i \in DOMAIN log : i # Len(log) => log'[i] = log[i]
      /\ \A i \in DOMAIN log : log'[i].vendor = log[i].vendor /\ log'[i].key = log[i].key
      /\ log'[Len(log)].code = entry.code /\ log'[Len(log)].fault = entry.fault
      /\ log'[Len(log)].verdict = IF entry.verdict = "none" THEN action ELSE entry.verdict
      /\ held' = IF entry.verdict = "none" /\ entry.vendor \in Managed THEN held - 1 ELSE held
  BY <1>1, <1>2, FinishEffect
<1>4. DOMAIN log' = DOMAIN log /\ current' = log'[Len(log)] /\ log' # <<>>
  BY <1>2, <1>3 DEF current
<1>5. QuietStep
  BY <1>2, <1>3 DEF QuietStep, Inside, Begun
<1>6. entry.verdict # "none" => entry.verdict \in Faults
  BY DEF VerdictInv, CurrentOK, Entry, Verdicts, Faults
<1>7. log'[Len(log)].verdict \in Faults \cup {"success", "interrupted"}
      /\ log'[Len(log)].verdict # "none"
  BY <1>3, <1>6 DEF Faults
<1>8. CurrentOK'
  <2>1. CASE pc' = "done"
    BY <2>1 DEF CurrentOK, Begun
  <2>2. CASE pc' = "retryKey"
    <3>1. current'.verdict \in Faults
      BY <1>3, <1>4, <2>2
    <3>2. current'.vendor = vendor'
      BY <1>2, <1>3, <1>4 DEF loopVars, current
    <3> QED BY <1>4, <2>2, <3>1, <3>2 DEF CurrentOK, Faults
  <2> QED BY <2>1, <2>2
<1>9. ReplyOK'
  BY <1>3, <1>4 DEF ReplyOK
<1>10. PendingOK'
  <2>1. \A i \in DOMAIN log' : log'[i].verdict # "none"
    BY <1>3, <1>4, <1>7 DEF VerdictInv, PendingOK
  <2>2. held' = 0
    BY <1>2, <1>3 DEF VerdictInv, PendingOK
  <2> QED BY <1>3, <1>4, <1>7, <2>1, <2>2 DEF PendingOK
<1>11. RefusedOK'
  BY <1>3, <1>4 DEF VerdictInv, RefusedOK
<1>12. VerdictByUpstream'
  <2> SUFFICES ASSUME NEW i \in DOMAIN log
               PROVE  /\ log'[i].fault => log'[i].verdict \notin {"none", "success", "interrupted"}
                      /\ ~log'[i].fault /\ log'[i].code < 400
                           => log'[i].verdict \in {"none", "success", "interrupted"}
    BY <1>4 DEF VerdictByUpstream
  <2>1. CASE i # Len(log)
    BY <1>3, <2>1 DEF VerdictInv, VerdictByUpstream
  <2>2. CASE i = Len(log) /\ entry.verdict = "none"
    BY <1>3, <2>2 DEF Faults
  <2>3. CASE i = Len(log) /\ entry.verdict # "none"
    <3>1. ~(entry.code < 400)
      BY <2>3 DEF Entry
    <3> QED BY <1>3, <1>6, <2>3, <3>1 DEF Faults
  <2> QED BY <2>1, <2>2, <2>3
<1> QED BY <1>5, <1>8, <1>9, <1>10, <1>11, <1>12 DEF VerdictInv

\* The upstream's answer to an attempt that was sent.
LEMMA SentKeeps ==
  ASSUME LoopInv, VerdictInv, UpstreamAnswers
  PROVE  QuietStep /\ VerdictInv'
<1>1. pc = "sent" /\ UNCHANGED <<conf, req, loopVars>>
  BY DEF UpstreamAnswers, requestBodyReadError, isCanceledUpstreamError, doUpstreamRequestFails,
         Respond, captureResponsePreviewFails
<1>2. /\ current \in Entry /\ current.code = 0 /\ current.fault = FALSE /\ current.verdict = "none"
      /\ current.vendor = vendor
  BY <1>1, CurrentEntry, Zenon DEF VerdictInv, CurrentOK, Begun, LoopInv, Entry
<1>3. CASE requestBodyReadError \/ isCanceledUpstreamError
  <2>1. finish(current, "interrupted") /\ pc' = "done"
    BY <1>3, EndsDone DEF requestBodyReadError, isCanceledUpstreamError
  <2> QED BY <1>1, <1>2, <2>1, JudgedKeeps
<1>4. CASE doUpstreamRequestFails
  <2> DEFINE entry == [current EXCEPT !.fault = TRUE]
             decision == classifyRequestError(conf.policy[vendor])
  <2>1. /\ entry \in Entry /\ entry.vendor = current.vendor /\ entry.key = current.key
        /\ entry.verdict = "none" /\ entry.fault = TRUE
    BY <1>2 DEF Entry
  <2>2. /\ finish(entry, decision.action) /\ pc' = "retryKey"
        /\ reply' = [kind |-> "error", decision |-> decision] /\ decision.action \in Faults
    BY <1>4, DecisionActions DEF doUpstreamRequestFails
  <2>3. reply'.kind = "error"
    BY <2>2
  <2> HIDE DEF entry, decision
  <2> QED BY <1>1, <1>2, <2>1, <2>2, <2>3, JudgedKeeps
<1>5. ASSUME NEW resp \in Responses, captureResponsePreviewFails(resp)
      PROVE  QuietStep /\ VerdictInv'
  <2> DEFINE entry == [current EXCEPT !.code = resp.code, !.fault = TRUE]
             action == classifyErrorResponse(conf.openai, conf.policy[vendor], NoPreview(resp)).action
  <2>1. /\ entry \in Entry /\ entry.vendor = current.vendor /\ entry.key = current.key
        /\ entry.verdict = "none" /\ entry.fault = TRUE
    BY <1>2, LimitConstants DEF Entry
  <2>2. finish(entry, action) /\ action \in Faults
    BY <1>5, DecisionActions DEF captureResponsePreviewFails
  <2>3. pc' = "done" \/ (pc' = "retryKey" /\ reply'.kind = "error")
    BY <1>5, EndsDone DEF captureResponsePreviewFails
  <2> HIDE DEF entry, action
  <2> QED BY <1>1, <1>2, <2>1, <2>2, <2>3, JudgedKeeps
<1>6. ASSUME NEW resp \in Responses, Respond(resp), ~(resp.code < 400)
      PROVE  QuietStep /\ VerdictInv'
  <2> DEFINE entry == [current EXCEPT !.code = resp.code]
             decision == analyzeErrorResponse(conf.openai, conf.policy[vendor], resp)
  <2>1. /\ entry \in Entry /\ entry.vendor = current.vendor /\ entry.key = current.key
        /\ entry.verdict = "none" /\ entry.fault = FALSE /\ entry.code = resp.code
        /\ resp.code \in Nat /\ resp.code >= 400
    BY <1>2, <1>6, LimitConstants DEF Entry
  <2>2. /\ finish(entry, decision.action) /\ pc' = "retryKey"
        /\ reply' = [kind |-> "response", resp |-> resp, decision |-> decision]
        /\ decision.action \in Faults
    BY <1>6, DecisionActions DEF Respond
  <2>3. reply'.kind = "response" /\ reply'.resp.code = resp.code
    BY <2>2
  <2> HIDE DEF entry, decision
  <2> QED BY <1>1, <1>2, <2>1, <2>2, <2>3, JudgedKeeps
<1>7. ASSUME NEW resp \in Responses, Respond(resp), resp.code < 400
      PROVE  QuietStep /\ VerdictInv'
  <2>1. log \in Seq(Entry) /\ log # <<>> /\ resp.code \in Nat /\ Len(log) \in DOMAIN log
    BY <1>1, LimitConstants DEF LoopInv, LoopTypes, VerdictInv, CurrentOK, Begun
  <2> DEFINE entry == [current EXCEPT !.code = resp.code]
  <2>2. /\ entry \in Entry /\ entry.vendor = current.vendor /\ entry.key = current.key
        /\ entry.verdict = "none" /\ entry.fault = FALSE /\ entry.code = resp.code
    BY <1>2, <2>1 DEF Entry
  <2>3. /\ log' = [log EXCEPT ![Len(log)] = entry] /\ pc' = "copy" /\ held' = held
        /\ reply' = [kind |-> "response", resp |-> resp, decision |-> Decision("success", FALSE)]
    BY <1>7 DEF Respond, current
  <2>4. /\ reply'.kind = "response" /\ reply'.resp.code = resp.code
        /\ reply'.decision.action = "success"
    BY <2>3 DEF Decision
  <2> HIDE DEF entry
  <2>5. /\ log' \in Seq(Entry) /\ Len(log') = Len(log) /\ DOMAIN log' = DOMAIN log
        /\ \A i \in DOMAIN log : log'[i] = IF i = Len(log) THEN entry ELSE log[i]
    BY <2>1, <2>2, <2>3
  <2>6. current' = entry /\ log' # <<>>
    BY <2>1, <2>5 DEF current
  <2>7. QuietStep
    BY <1>1, <2>1, <2>2, <2>3, <2>5 DEF QuietStep, Inside, Begun, current
  <2>8. CurrentOK'
    <3>1. ~current'.fault /\ current'.verdict = "none" /\ current'.vendor = vendor'
      BY <1>1, <1>2, <2>2, <2>6 DEF loopVars
    <3> QED BY <1>7, <2>3, <2>4, <2>6, <3>1 DEF CurrentOK, Begun
  <2>9. ReplyOK'
    BY <2>1, <2>2, <2>3, <2>4, <2>6 DEF ReplyOK
  <2>10. PendingOK'
    <3>1. \A i \in DOMAIN log' : log'[i].verdict = "none" => i = Len(log')
      BY <2>1, <2>5 DEF VerdictInv, PendingOK
    <3>2. held' = IF current'.vendor \in Managed THEN 1 ELSE 0
      BY <1>2, <2>1, <2>2, <2>3, <2>6 DEF VerdictInv, PendingOK
    <3> QED BY <2>2, <2>3, <2>6, <3>1, <3>2 DEF PendingOK
  <2>11. RefusedOK'
    BY <1>1, <2>1, <2>3, <2>5 DEF VerdictInv, RefusedOK
  <2>12. VerdictByUpstream'
    BY <2>1, <2>2, <2>5 DEF VerdictInv, VerdictByUpstream
  <2> QED BY <2>7, <2>8, <2>9, <2>10, <2>11, <2>12 DEF VerdictInv
<1> QED BY <1>3, <1>4, <1>5, <1>6, <1>7 DEF UpstreamAnswers

\* The end of a body that is being copied.
LEMMA CopyEndsKeep ==
  ASSUME LoopInv, VerdictInv, writeFails \/ endOfBody \/ bodyInterrupted \/ copyCanceled
  PROVE  QuietStep /\ VerdictInv' /\ pc' = "done"
<1>1. pc = "copy" /\ UNCHANGED <<conf, req, loopVars>> /\ pc' = "done"
  BY EndsDone DEF writeFails, endOfBody, bodyInterrupted, copyCanceled
<1>2. /\ current \in Entry /\ current.code = reply.resp.code /\ current.code \in Nat
      /\ current.verdict = "none" => current.fault = FALSE /\ reply.decision.action = "success"
      /\ current.verdict # "none" => current.code >= 400
  <2>1. current \in Entry
    BY <1>1, CurrentEntry DEF VerdictInv, Begun
  <2>2. current.code = reply.resp.code /\ current.code \in Nat
    BY <1>1, <2>1 DEF VerdictInv, ReplyOK, Entry
  <2>3. current.verdict = "none" => reply.resp.code < 400 /\ ~current.fault
                                   /\ reply.decision.action = "success"
    BY <1>1 DEF VerdictInv, CurrentOK
  <2>4. current.verdict # "none" => ~(current.code < 400)
    BY <1>1, <2>2 DEF VerdictInv, CurrentOK
  <2>5. current.fault \in BOOLEAN
    BY <2>1 DEF Entry
  <2> QED BY <2>1, <2>2, <2>3, <2>4, <2>5
<1>3. \E entry \in Entry, action \in Faults \cup {"success", "interrupted", reply.decision.action} :
         /\ finish(entry, action)
         /\ entry.vendor = current.vendor /\ entry.key = current.key
         /\ entry.verdict = current.verdict /\ entry.code = current.code
         /\ \/ entry.fault = TRUE /\ action \in Faults
            \/ entry.fault = current.fault /\ action \in {"interrupted", reply.decision.action}
  <2> DEFINE faulty == [current EXCEPT !.fault = TRUE]
  <2>1. /\ faulty \in Entry /\ faulty.vendor = current.vendor /\ faulty.key = current.key
        /\ faulty.verdict = current.verdict /\ faulty.code = current.code /\ faulty.fault = TRUE
    BY <1>2 DEF Entry
  <2>2. readFailure \in Faults
    BY DecisionActions DEF readFailure
  <2>3. CASE writeFails
    <3>1. PICK readErr \in BOOLEAN :
            finish([current EXCEPT !.fault = current.fault \/ readErr],
                   IF readErr THEN readFailure ELSE "interrupted")
      BY <2>3 DEF writeFails
    <3>2. CASE readErr
      <4>1. finish(faulty, readFailure)
        <5>1. (current.fault \/ readErr) = TRUE
          BY <3>2
        <5> QED BY <3>1, <3>2, <5>1
      <4> HIDE DEF faulty
      <4> QED BY <2>1, <2>2, <4>1
    <3>3. CASE ~readErr
      <4>1. (current.fault \/ readErr) = current.fault
        BY <1>2, <3>3 DEF Entry
      <4>2. [current EXCEPT !.fault = current.fault] = current
        BY <1>2 DEF Entry
      <4>3. finish(current, "interrupted")
        BY <3>1, <3>3, <4>1, <4>2
      <4> QED BY <1>2, <4>3
    <3> QED BY <3>2, <3>3
  <2>4. CASE endOfBody \/ bodyInterrupted \/ copyCanceled
    <3>1. \/ finish(faulty, readFailure)
          \/ finish(current, reply.decision.action)
          \/ finish(current, "interrupted")
      BY <2>4 DEF endOfBody, bodyInterrupted, copyCanceled
    <3> HIDE DEF faulty
    <3> QED BY <1>2, <2>1, <2>2, <3>1
  <2> QED BY <2>3, <2>4
<1>4. PICK entry \in Entry, action \in Faults \cup {"success", "interrupted", reply.decision.action} :
         /\ finish(entry, action)
         /\ entry.vendor = current.vendor /\ entry.key = current.key
         /\ entry.verdict = current.verdict /\ entry.code = current.code
         /\ \/ entry.fault = TRUE /\ action \in Faults
            \/ entry.fault = current.fault /\ action \in {"interrupted", reply.decision.action}
  BY <1>3
<1>5. entry.verdict = "none" =>
        /\ action \in Faults \cup {"success", "interrupted"}
        /\ entry.fault => action \in Faults
        /\ ~entry.fault /\ entry.code < 400 => action \in {"success", "interrupted"}
  BY <1>2, <1>4 DEF Faults
<1> QED BY <1>1, <1>2, <1>4, <1>5, JudgedKeeps

\* Steps that leave the attempts alone.
LEMMA StillKeeps ==
  ASSUME LoopInv, VerdictInv, UNCHANGED <<conf, req, vendor, reply, log, held>>, pc' = pc
  PROVE  VerdictInv'
BY DEF VerdictInv, CurrentOK, ReplyOK, PendingOK, RefusedOK, VerdictByUpstream, current

\* The handler returns, or goes round one of its loops.
LEMMA TurnKeeps ==
  ASSUME LoopInv, VerdictInv, UNCHANGED <<req, log, held>>,
         pc \in {"start", "pick", "attempt", "retryKey", "retryChild"},
         pc' \in {"pick", "attempt", "done"},
         pc' # "done" /\ pc \in {"retryKey", "retryChild"} /\ ~req.safe =>
           current.code \in UnsafeRetryable
  PROVE  VerdictInv'
<1>1. \A i \in DOMAIN log : log[i].verdict # "none"
  BY DEF VerdictInv, PendingOK
<1>2. log = <<>> \/ Len(log) \in DOMAIN log
  BY DEF LoopInv, LoopTypes
<1>3. CurrentOK' /\ ReplyOK'
  BY DEF CurrentOK, ReplyOK, Begun
<1>4. PendingOK'
  BY <1>1, <1>2 DEF VerdictInv, PendingOK, current
<1>5. RefusedOK'
  <2> SUFFICES ASSUME ~req.safe, NEW i \in DOMAIN log, i < Len(log) \/ pc' \in {"pick", "attempt"}
               PROVE  log[i].code \in UnsafeRetryable
    BY DEF RefusedOK
  <2>1. CASE i < Len(log) \/ pc \in {"pick", "attempt"}
    BY <2>1 DEF VerdictInv, RefusedOK
  <2>2. CASE ~(i < Len(log)) /\ pc \notin {"pick", "attempt"}
    <3>1. i = Len(log) /\ log # <<>>
      BY <2>2 DEF LoopInv, LoopTypes
    <3>2. pc # "start"
      BY <3>1 DEF VerdictInv, CurrentOK
    <3> QED BY <2>2, <3>1, <3>2 DEF current
  <2> QED BY <2>1, <2>2
<1>6. VerdictByUpstream'
  BY DEF VerdictInv, VerdictByUpstream
<1> QED BY <1>3, <1>4, <1>5, <1>6 DEF VerdictInv

LEMMA GiveUpKeeps ==
  ASSUME LoopInv, VerdictInv, GiveUp
  PROVE  QuietStep /\ VerdictInv'
<1>1. /\ pc = "retryChild" /\ UNCHANGED <<conf, req, loopVars, reply, log, held>>
      /\ pc' = "done" \/ (pc' = "copy" /\ reply.kind # "error")
  BY EndsDone DEF GiveUp, failed
<1>2. QuietStep
  BY <1>1 DEF QuietStep, Inside, Begun, LoopInv, LoopTypes
<1>3. CASE pc' = "done"
  BY <1>1, <1>2, <1>3, TurnKeeps
<1>4. CASE pc' = "copy"
  <2>1. reply.kind = "response" /\ reply.resp.code \in Nat /\ ~(reply.resp.code < 400)
    BY <1>1, <1>4 DEF VerdictInv, ReplyOK
  <2>2. CurrentOK' /\ ReplyOK'
    BY <1>1, <1>4, <2>1 DEF VerdictInv, CurrentOK, ReplyOK, Begun, current, loopVars
  <2>3. PendingOK' /\ RefusedOK' /\ VerdictByUpstream'
    BY <1>1, <1>4 DEF VerdictInv, PendingOK, RefusedOK, VerdictByUpstream, current
  <2> QED BY <1>2, <2>2, <2>3 DEF VerdictInv
<1> QED BY <1>1, <1>3, <1>4

\* A retry with another key: limits, body and method were looked at.
LEMMA RetryKeyKeeps ==
  ASSUME LoopInv, VerdictInv, RetryKey
  PROVE  LoopInv' /\ VerdictInv'
<1>1. /\ pc = "retryKey" /\ UNCHANGED <<conf, req, loopVars, reply, log, held>>
      /\ pc' \in {"attempt", "retryChild"}
  BY DEF RetryKey
<1>2. CASE pc' = "retryChild"
  <2>1. QuietStep
    BY <1>1, <1>2 DEF QuietStep, Inside, Begun, LoopInv, LoopTypes
  <2>2. VerdictInv'
    BY <1>1, <1>2 DEF VerdictInv, CurrentOK, ReplyOK, PendingOK, RefusedOK, VerdictByUpstream,
                      current, Begun, loopVars
  <2> QED BY <2>1, <2>2, QuietKeepsLoop
<1>3. CASE pc' = "attempt"
  <2>1. canRetry /\ retryRemaining /\ hasAvailableKey(vendor, child)
    BY <1>3 DEF RetryKey
  <2>2. src = "replayable" /\ vendor \in Managed /\ vendor \in Vendors
    BY <1>1, <2>1 DEF canRetry, canRetryRequestError, canRetryResponse, replayable, hasAvailableKey,
                      LoopInv, LoopTypes, Inside, Begun
  <2>3. ~req.safe => current.code \in UnsafeRetryable
    <3> SUFFICES ASSUME ~req.safe PROVE current.code \in UnsafeRetryable
      OBVIOUS
    <3>1. ~failed /\ reply.resp.code \in UnsafeRetryable
      BY <2>1 DEF canRetry, canRetryRequestError, canRetryResponse, isRetryableStatusForUnsafeMethod
    <3> QED BY <1>1, <3>1 DEF failed, VerdictInv, ReplyOK
  <2>4. VerdictInv'
    BY <1>1, <1>3, <2>3, TurnKeeps
  <2>5. LoopTypes'
    BY <1>1, <1>3, <2>2 DEF LoopInv, LoopTypes, loopVars, Inside, Begun
  <2>6. LimitsOK'
    BY <1>1, <1>3, <2>1 DEF LoopInv, LimitsOK, loopVars, retryRemaining, hasBudget, maxUpstreamAttempts
  <2>7. TriedOK' /\ BodyOK' /\ RouteOK' /\ NoTargetTwice'
    BY <1>1, <1>3, <2>2 DEF LoopInv, TriedOK, BodyOK, RouteOK, NoTargetTwice, loopVars, Inside, Begun
  <2> QED BY <2>4, <2>5, <2>6, <2>7 DEF LoopInv
<1> QED BY <1>1, <1>2, <1>3

\* A retry with another child.
LEMMA RetryChildKeeps ==
  ASSUME LoopInv, VerdictInv, RetryChild
  PROVE  LoopInv' /\ VerdictInv'
<1>1. /\ pc = "retryChild" /\ pc' = "pick" /\ shouldRetryAggregate
      /\ UNCHANGED <<conf, req, src, tried, spent, attempts, reply, log, held>>
      /\ exclude' = exclude \cup {child} /\ round' = round + 1 /\ child' = None /\ vendor' = None
  BY DEF RetryChild
<1>2. src = "replayable" /\ hasBudget /\ round < conf.retry.max - 1
  BY <1>1 DEF shouldRetryAggregate, canRetryAggregate, replayable
<1>3. child \in Children
  BY <1>1 DEF shouldRetryAggregate, LoopInv, RouteOK, Inside, Begun
<1>4. ~req.safe => current.code \in UnsafeRetryable
  <2> SUFFICES ASSUME ~req.safe PROVE current.code \in UnsafeRetryable
    OBVIOUS
  <2>1. ~failed /\ reply.resp.code \in UnsafeRetryable
    BY <1>1 DEF shouldRetryAggregate, canRetryAggregate, isRetryableStatusForUnsafeMethod
  <2> QED BY <1>1, <2>1 DEF failed, VerdictInv, ReplyOK
<1>5. VerdictInv'
  BY <1>1, <1>4, TurnKeeps
<1>6. LoopTypes'
  BY <1>1, <1>3 DEF LoopInv, LoopTypes, Inside, Begun
<1>7. LimitsOK'
  BY <1>1, <1>2, Limits DEF LoopInv, LoopTypes, LimitsOK, hasBudget, maxUpstreamAttempts
<1>8. TriedOK' /\ BodyOK' /\ RouteOK' /\ NoTargetTwice'
  BY <1>1, <1>2 DEF LoopInv, TriedOK, BodyOK, RouteOK, NoTargetTwice, shouldRetryAggregate, Inside, Begun
<1> QED BY <1>5, <1>6, <1>7, <1>8 DEF LoopInv

\* The handler enters the loop over the keys of a vendor.
LEMMA EnterKeeps ==
  ASSUME LoopInv, VerdictInv, pc \in {"start", "pick"}, NEW v \in Vendors, NEW c \in Children \cup {None},
         EnterVendor(v, c), src' \in {"replayable", "single"},
         UNCHANGED <<conf, req, round, exclude, reply, log, held>>,
         v \notin Managed => Target(v, ClientKey) \notin tried,
         IF req.route = Aggregate THEN c \in Children /\ v = ChildVendor[c] ELSE c = None /\ v = req.route
  PROVE  LoopInv' /\ VerdictInv'
<1>1. /\ vendor' = v /\ child' = c /\ attempts' = 0 /\ pc' = "attempt"
      /\ UNCHANGED <<tried, spent>>
  BY DEF EnterVendor
<1>2. VerdictInv'
  BY <1>1, TurnKeeps
<1>3. LoopTypes' /\ RouteOK'
  BY <1>1 DEF LoopInv, LoopTypes, RouteOK, Inside, Begun
<1>4. LimitsOK'
  BY <1>1, Limits DEF LoopInv, LoopTypes, LimitsOK, hasBudget, maxUpstreamAttempts
<1>5. TriedOK' /\ BodyOK' /\ NoTargetTwice'
  BY <1>1 DEF LoopInv, TriedOK, BodyOK, NoTargetTwice
<1> QED BY <1>2, <1>3, <1>4, <1>5 DEF LoopInv

\* Whatever ends the handler before its answer.
LEMMA EndingKeeps ==
  ASSUME LoopInv, VerdictInv, UNCHANGED <<conf, req, round, exclude, child, vendor, src, tried, spent, log, held>>,
         attempts' \in Nat,
         pc \in {"start", "pick", "attempt", "retryKey", "retryChild"}, pc' = "done"
  PROVE  LoopInv' /\ VerdictInv'
<1>1. VerdictInv'
  BY TurnKeeps
<1>2. LoopTypes' /\ LimitsOK' /\ TriedOK' /\ BodyOK' /\ RouteOK' /\ NoTargetTwice'
  BY DEF LoopInv, LoopTypes, LimitsOK, TriedOK, BodyOK, RouteOK, NoTargetTwice, Inside, Begun,
         hasBudget, maxUpstreamAttempts
<1> QED BY <1>1, <1>2 DEF LoopInv

LEMMA prepareNonAggregateKeeps ==
  ASSUME LoopInv, VerdictInv, prepareNonAggregateRequest
  PROVE  LoopInv' /\ VerdictInv'
<1>1. /\ pc = "start" /\ req.route \in Vendors /\ req.route # Aggregate
      /\ UNCHANGED <<conf, req, reply, log, held>> /\ tried = {}
  BY TopologyConstants DEF prepareNonAggregateRequest, LoopInv, TriedOK
<1>2. CASE bodyNotRead
  <2>1. UNCHANGED <<round, exclude, child, vendor, src, tried, spent, attempts>> /\ pc' = "done"
    BY <1>2, EndsDone DEF bodyNotRead
  <2> QED BY <1>1, <2>1, EndingKeeps DEF LoopInv, LoopTypes
<1>3. CASE ~bodyNotRead
  <2>1. /\ EnterVendor(req.route, None) /\ src' \in {"replayable", "single"}
        /\ UNCHANGED <<round, exclude>>
    BY <1>3 DEF prepareNonAggregateRequest, prepareRequestBody
  <2> QED BY <1>1, <2>1, EnterKeeps
<1> QED BY <1>2, <1>3

LEMMA prepareAggregateKeeps ==
  ASSUME LoopInv, VerdictInv, prepareAggregateRequest
  PROVE  LoopInv' /\ VerdictInv'
<1>1. pc = "pick" /\ UNCHANGED <<conf, req, reply, log, held>> /\ req.route = Aggregate
      /\ src \in {"nil", "replayable"}
  BY DEF prepareAggregateRequest, LoopInv, RouteOK, BodyOK
<1>2. CASE pc' = "done" /\ UNCHANGED loopVars
  BY <1>1, <1>2, EndingKeeps DEF LoopInv, LoopTypes, loopVars
<1>3. ASSUME NEW c \in Candidates(exclude), EnterVendor(ChildVendor[c], c), NEW allowReplay \in BOOLEAN,
             src' = IF src = "nil" THEN prepareRequestBody(allowReplay) ELSE src,
             UNCHANGED <<round, exclude>>
      PROVE  LoopInv' /\ VerdictInv'
  <2>1. c \in Children /\ ChildVendor[c] \in Vendors
        /\ (ChildVendor[c] \notin Managed => Target(ChildVendor[c], ClientKey) \notin tried)
    BY <1>3, TopologyConstants DEF Candidates, aggregateChildAvailableForExecution
  <2>2. src' \in {"replayable", "single"}
    BY <1>1, <1>3 DEF prepareRequestBody
  <2> QED BY <1>1, <1>3, <2>1, <2>2, EnterKeeps
<1>4. \/ pc' = "done" /\ UNCHANGED loopVars
      \/ \E c \in Candidates(exclude), allowReplay \in BOOLEAN :
           /\ EnterVendor(ChildVendor[c], c) /\ UNCHANGED <<round, exclude>>
           /\ src' = IF src = "nil" THEN prepareRequestBody(allowReplay) ELSE src
  <2>1. CASE conf.retry.enabled /\ round >= conf.retry.max
    BY <2>1, EndsDone DEF prepareAggregateRequest
  <2>2. CASE ~(conf.retry.enabled /\ round >= conf.retry.max) /\ Candidates(exclude) = {}
    BY <2>2, EndsDone DEF prepareAggregateRequest
  <2>3. CASE ~(conf.retry.enabled /\ round >= conf.retry.max) /\ Candidates(exclude) # {}
    <3>1. PICK c \in Candidates(exclude) :
            \/ /\ src' = IF src = "nil"
                           THEN prepareRequestBody(conf.retry.enabled \/ shouldBufferRequestBody(ChildVendor[c]))
                           ELSE src
               /\ EnterVendor(ChildVendor[c], c)
               /\ UNCHANGED <<round, exclude>>
            \/ bodyNotRead
      BY <2>3 DEF prepareAggregateRequest
    <3>2. CASE bodyNotRead
      BY <3>2, EndsDone DEF bodyNotRead, loopVars
    <3>3. (conf.retry.enabled \/ shouldBufferRequestBody(ChildVendor[c])) \in BOOLEAN
      BY Zenon
    <3> QED BY <3>1, <3>2, <3>3
  <2> QED BY <2>1, <2>2, <2>3
<1> QED BY <1>2, <1>3, <1>4

\* An attempt that is sent goes to a target that has not been tried.
LEMMA SendKeeps ==
  ASSUME LoopInv, VerdictInv, pc = "attempt", NEW k \in Targets, Send(k), src # "used", hasBudget,
         reply' = NoReply, attempts' = attempts + 1,
         UNCHANGED <<conf, req, round, exclude, child, vendor>>
  PROVE  LoopInv' /\ VerdictInv'
<1> DEFINE e == [vendor |-> vendor, key |-> k, code |-> 0, fault |-> FALSE, verdict |-> "none"]
<1>1. /\ tried' = tried \cup {Target(vendor, k)} /\ spent' = spent + 1 /\ pc' = "sent"
      /\ src' \in {"replayable", "single", "used", "nil"}
      /\ log' = Append(log, e)
      /\ held' = IF vendor \in Managed THEN held + 1 ELSE held
  BY DEF Send, LoopInv, LoopTypes
<1>2. vendor \in Vendors /\ log \in Seq(Entry)
  BY DEF LoopInv, LoopTypes, Inside
<1>3. k \in Keys \cup {ClientKey} /\ Target(vendor, k) \notin tried
  <2>1. CASE vendor \in Managed
    <3>1. k \in allowed(vendor, child) /\ Target(vendor, k) \notin tried
      BY <2>1 DEF Targets, Available
    <3>2. child = None \/ (child \in Children /\ vendor = ChildVendor[child])
      BY DEF LoopInv, RouteOK, Inside
    <3>3. allowed(vendor, child) \subseteq Keys
      BY <1>2, <3>2, TopologyConstants DEF allowed
    <3> QED BY <3>1, <3>3
  <2>2. CASE vendor \notin Managed
    BY <2>2 DEF Targets, LoopInv, TriedOK
  <2> QED BY <2>1, <2>2
<1>4. e \in Entry /\ e.vendor = vendor /\ e.key = k /\ e.code = 0 /\ e.fault = FALSE /\ e.verdict = "none"
  BY <1>2, <1>3 DEF Entry, Verdicts
<1> HIDE DEF e
<1>5. /\ log' \in Seq(Entry) /\ Len(log') = Len(log) + 1 /\ DOMAIN log' = DOMAIN log \cup {Len(log) + 1}
      /\ log'[Len(log) + 1] = e /\ \A i \in DOMAIN log : log'[i] = log[i] /\ i # Len(log) + 1 /\ i \in Nat
      /\ \A i \in DOMAIN log : i < Len(log) + 1
  BY <1>1, <1>2, <1>4
<1>6. current' = e /\ log' # <<>>
  BY <1>2, <1>5 DEF current
<1>7. LoopTypes' /\ BodyOK' /\ RouteOK'
  BY <1>1, <1>2, <1>5 DEF LoopInv, LoopTypes, BodyOK, RouteOK, Inside, Begun
<1>8. LimitsOK'
  BY <1>1, <1>5, Limits DEF LoopInv, LoopTypes, LimitsOK, hasBudget, maxUpstreamAttempts
<1>9. TriedOK'
  BY <1>1, <1>4, <1>5 DEF LoopInv, TriedOK, Target
<1>10. NoTargetTwice'
  <2> SUFFICES ASSUME NEW i \in DOMAIN log', NEW j \in DOMAIN log',
                      log'[i].vendor = log'[j].vendor, log'[i].key = log'[j].key
               PROVE  i = j
    BY DEF NoTargetTwice
  <2>1. \A n \in DOMAIN log : Target(log[n].vendor, log[n].key) # Target(vendor, k)
    BY <1>3 DEF LoopInv, TriedOK
  <2>2. \A n \in DOMAIN log : ~(log[n].vendor = vendor /\ log[n].key = k)
    BY <2>1
  <2> QED BY <1>4, <1>5, <2>2 DEF LoopInv, NoTargetTwice
<1>11. CurrentOK'
  BY <1>1, <1>4, <1>6 DEF CurrentOK, Begun
<1>12. ReplyOK'
  BY <1>1 DEF ReplyOK
<1>13. \A i \in DOMAIN log : log[i].verdict # "none"
  BY DEF VerdictInv, PendingOK
<1>14. PendingOK'
  <2>1. held = 0
    BY <1>2, <1>13 DEF VerdictInv, PendingOK, current
  <2> QED BY <1>1, <1>4, <1>5, <1>6, <1>13, <2>1 DEF PendingOK
<1>15. RefusedOK'
  BY <1>1, <1>5 DEF VerdictInv, RefusedOK
<1>16. VerdictByUpstream'
  BY <1>4, <1>5 DEF VerdictInv, VerdictByUpstream
<1> QED BY <1>7, <1>8, <1>9, <1>10, <1>11, <1>12, <1>14, <1>15, <1>16 DEF LoopInv, VerdictInv

\* None of the loop's own errors is reached but a lack of keys.
LEMMA newAttemptCases ==
  ASSUME LoopInv, newAttempt
  PROVE  \/ EndWithMaskable("noKey", 503, {"cooldown"}) /\ Targets = {}
              /\ UNCHANGED <<tried, spent, src, log, held>>
         \/ hasBudget /\ src # "used" /\ \E k \in Targets : Send(k)
<1>1. pc = "attempt" /\ attempts < conf.failoverMax[vendor] /\ hasBudget /\ src # "used"
  BY DEF newAttempt, LoopInv, LimitsOK, BodyOK
<1>2. ~(attempts >= conf.failoverMax[vendor])
  BY <1>1, Limits DEF LoopInv, LoopTypes, Inside
<1> QED BY <1>1, <1>2 DEF newAttempt

-----------------------------------------------------------------------------
ExecutionInv == LoopInv /\ VerdictInv

\* Every step keeps both.
LEMMA ExecutionInductive ==
  /\ Init => ExecutionInv
  /\ ExecutionInv /\ [Next]_vars => ExecutionInv'
<1>1. Init => ExecutionInv
  <2> SUFFICES ASSUME Init PROVE ExecutionInv
    OBVIOUS
  <2>1. log = <<>> /\ log \in Seq(Entry) /\ Len(log) = 0 /\ DOMAIN log = {}
    BY DEF Init
  <2>2. LoopTypes
    BY <2>1 DEF Init, LoopTypes, Inside, Begun
  <2>3. LimitsOK
    BY <2>1, <2>2, Limits DEF Init, LimitsOK, hasBudget
  <2>4. TriedOK /\ BodyOK /\ RouteOK /\ NoTargetTwice
    BY <2>1 DEF Init, TriedOK, BodyOK, RouteOK, NoTargetTwice, Inside, Begun
  <2>5. VerdictInv
    BY <2>1 DEF Init, VerdictInv, CurrentOK, ReplyOK, PendingOK, RefusedOK, VerdictByUpstream, Begun
  <2> QED BY <2>2, <2>3, <2>4, <2>5 DEF ExecutionInv, LoopInv
<1>2. SUFFICES ASSUME LoopInv, VerdictInv, [Next]_vars PROVE LoopInv' /\ VerdictInv'
  BY <1>1 DEF ExecutionInv
<1>3. CASE Outside
  <2>1. UNCHANGED <<conf, req, pc, loopVars, reply, log, held>> /\ QuietStep
    BY <1>2, <1>3, OutsideQuiet DEF LoopInv
  <2> QED BY <1>2, <2>1, QuietKeepsLoop, StillKeeps DEF loopVars
<1>4. CASE copyChunk
  <2>1. UNCHANGED <<conf, req, pc, loopVars, reply, log, held>>
    BY <1>4 DEF copyChunk
  <2>2. QuietStep
    BY <1>2, <2>1 DEF QuietStep, LoopInv, LoopTypes
  <2> QED BY <1>2, <2>1, <2>2, QuietKeepsLoop, StillKeeps DEF loopVars
<1>5. CASE UpstreamAnswers \/ GiveUp \/ writeFails \/ endOfBody \/ bodyInterrupted \/ copyCanceled
  BY <1>2, <1>5, SentKeeps, GiveUpKeeps, CopyEndsKeep, QuietKeepsLoop
<1>6. CASE authorizeClientFails
  BY <1>2, <1>6, EndsDone, EndingKeeps DEF authorizeClientFails, loopVars, LoopInv, LoopTypes
<1>7. CASE authorizeAggregate
  <2>1. /\ pc = "start" /\ pc' = "pick" /\ req.route = Aggregate
        /\ UNCHANGED <<conf, req, loopVars, reply, log, held>>
    BY <1>7 DEF authorizeAggregate
  <2>2. VerdictInv'
    BY <1>2, <2>1, TurnKeeps
  <2>3. LoopTypes' /\ LimitsOK' /\ TriedOK' /\ BodyOK' /\ RouteOK' /\ NoTargetTwice'
    BY <1>2, <2>1 DEF LoopInv, LoopTypes, LimitsOK, TriedOK, BodyOK, RouteOK, NoTargetTwice, Inside,
                      Begun, loopVars, hasBudget, maxUpstreamAttempts
  <2> QED BY <2>2, <2>3 DEF LoopInv
<1>8. CASE buildFails
  BY <1>2, <1>8, EndsDone, EndingKeeps DEF buildFails, LoopInv, LoopTypes
<1>9. CASE newAttempt
  <2>1. /\ pc = "attempt" /\ attempts' = attempts + 1 /\ reply' = NoReply
        /\ UNCHANGED <<conf, req, round, exclude, child, vendor>>
    BY <1>9 DEF newAttempt
  <2>2. attempts' \in Nat
    BY <1>2, <2>1 DEF LoopInv, LoopTypes
  <2>3. CASE EndWithMaskable("noKey", 503, {"cooldown"}) /\ UNCHANGED <<tried, spent, src, log, held>>
    BY <1>2, <2>1, <2>2, <2>3, EndsDone, EndingKeeps
  <2>4. CASE hasBudget /\ src # "used" /\ \E k \in Targets : Send(k)
    BY <1>2, <2>1, <2>4, SendKeeps
  <2> QED BY <1>2, <1>9, <2>3, <2>4, newAttemptCases
<1> QED
  BY <1>2, <1>3, <1>4, <1>5, <1>6, <1>7, <1>8, <1>9, prepareNonAggregateKeeps, prepareAggregateKeeps,
     RetryKeyKeeps, RetryChildKeeps DEF Next, Handler, Outside

\* No target sees a request twice, whichever children lead to it (requestExecution.tried).
THEOREM NoTargetTwiceCorrect == Spec => []NoTargetTwice
<1>1. ExecutionInv => NoTargetTwice
  BY DEF ExecutionInv, LoopInv
<1> QED BY <1>1, ExecutionInductive, PTL DEF Spec

\* A key is held from its acquisition to the first verdict (upstreamAttempt.finish).
THEOREM KeyHeldCorrect == Spec => []KeyHeldOnce
<1>1. ExecutionInv => KeyHeldOnce
  <2> SUFFICES ASSUME LoopInv, VerdictInv PROVE KeyHeldOnce
    BY DEF ExecutionInv
  <2> DEFINE open == {i \in DOMAIN log : log[i].verdict = "none" /\ log[i].vendor \in Managed}
  <2>1. \A i \in DOMAIN log : log[i].verdict = "none" => i = Len(log) /\ pc \in {"sent", "copy"}
    BY DEF VerdictInv, PendingOK
  <2>2. CASE log # <<>> /\ current.verdict = "none" /\ current.vendor \in Managed
    <3>1. Len(log) \in DOMAIN log
      BY <2>2 DEF LoopInv, LoopTypes
    <3>2. open = {Len(log)}
      BY <2>1, <2>2, <3>1 DEF current
    <3>3. Cardinality(open) = 1
      BY <3>2, FS_Singleton
    <3> QED BY <2>1, <2>2, <3>3 DEF VerdictInv, PendingOK, KeyHeldOnce
  <2>3. CASE ~(log # <<>> /\ current.verdict = "none" /\ current.vendor \in Managed)
    <3>1. open = {}
      BY <2>1, <2>3 DEF current, LoopInv, LoopTypes
    <3>2. Cardinality(open) = 0
      BY <3>1, FS_EmptySet
    <3> QED BY <2>1, <2>3, <3>2 DEF VerdictInv, PendingOK, KeyHeldOnce
  <2> QED BY <2>2, <2>3
<1> QED BY <1>1, ExecutionInductive, PTL DEF Spec

\* The verdict on a key follows from what the upstream did (handleUpstreamResponse, upstreamAttempt.finish).
THEOREM VerdictCorrect == Spec => []VerdictByUpstream
<1>1. ExecutionInv => VerdictByUpstream
  BY DEF ExecutionInv, VerdictInv
<1> QED BY <1>1, ExecutionInductive, PTL DEF Spec

\* At most one upstream may have processed an unsafe request
\* (canRetryRequestError, canRetryResponse, canRetryAggregate).
THEOREM ProcessedCorrect == Spec => []ProcessedAtMostOnce
<1>1. ExecutionInv => ProcessedAtMostOnce
  <2> SUFFICES ASSUME LoopInv, VerdictInv, ~req.safe
               PROVE  Cardinality({i \in DOMAIN log : log[i].code \notin UnsafeRetryable}) <= 1
    BY DEF ExecutionInv, ProcessedAtMostOnce
  <2> DEFINE processed == {i \in DOMAIN log : log[i].code \notin UnsafeRetryable}
  <2>1. processed \subseteq {Len(log)}
    BY DEF VerdictInv, RefusedOK, LoopInv, LoopTypes
  <2>2. processed = {} \/ processed = {Len(log)}
    BY <2>1
  <2>3. Cardinality(processed) \in {0, 1}
    BY <2>2, FS_EmptySet, FS_Singleton
  <2> QED BY <2>3
<1> QED BY <1>1, ExecutionInductive, PTL DEF Spec

-----------------------------------------------------------------------------
(***************************************************************************)
(* The answer: one final header block, after every interim one.            *)
(***************************************************************************)

LEMMA FinalAppend ==
  ASSUME NEW w \in Seq(Block), NEW b \in Block
  PROVE  /\ Append(w, b) \in Seq(Block) /\ DOMAIN Append(w, b) = DOMAIN w \cup {Len(w) + 1}
         /\ Append(w, b)[Len(w) + 1] = b /\ Len(w) + 1 \notin DOMAIN w
         /\ \A i \in DOMAIN w : Append(w, b)[i] = w[i]
         /\ Final(Append(w, b)) = IF b.kind = "processing" THEN Final(w) ELSE Final(w) \cup {Len(w) + 1}
<1>1. /\ Append(w, b) \in Seq(Block) /\ DOMAIN Append(w, b) = DOMAIN w \cup {Len(w) + 1}
      /\ Append(w, b)[Len(w) + 1] = b /\ Len(w) + 1 \notin DOMAIN w
      /\ \A i \in DOMAIN w : Append(w, b)[i] = w[i]
  OBVIOUS
<1> QED BY <1>1 DEF Final

LEMMA StoppedSender ==
  ASSUME NEW s \in Sender
  PROVE  /\ Stopped(s) \in Sender /\ Stopped(s).stopped = TRUE /\ Stopped(s).committed = s.committed
         /\ [Stopped(s) EXCEPT !.committed = TRUE] \in Sender
         /\ [Stopped(s) EXCEPT !.committed = TRUE].stopped = TRUE
BY DEF Sender, Stopped

\* stop leaves no sender running, and changes nothing else.
LEMMA StopEffect ==
  ASSUME AnswerTypes, SendersOK, stop
  PROVE  /\ senders' \in Seq(Sender) /\ Len(senders') = Len(senders) /\ DOMAIN senders' = DOMAIN senders
         /\ \A i \in DOMAIN senders : senders'[i].stopped /\ senders'[i].committed = senders[i].committed
<1>1. CASE ~hasSender
  <2>1. \A i \in DOMAIN senders : senders[i].stopped
    BY <1>1 DEF hasSender, SendersOK, AnswerTypes
  <2> QED BY <1>1, <2>1 DEF stop, AnswerTypes
<1>2. CASE hasSender
  <2>1. last \in DOMAIN senders /\ senders[last] \in Sender /\ senders \in Seq(Sender)
    BY <1>2 DEF hasSender, last, AnswerTypes
  <2>2. senders' = [senders EXCEPT ![last] = Stopped(senders[last])]
    BY <1>2 DEF stop
  <2>3. \A i \in DOMAIN senders : i # last => senders[i].stopped
    BY DEF SendersOK, last
  <2>4. senders' \in Seq(Sender) /\ Len(senders') = Len(senders) /\ DOMAIN senders' = DOMAIN senders
    <3>1. PICK s \in Sender : s = Stopped(senders[last])
      BY <2>1, StoppedSender
    <3>2. senders' = [senders EXCEPT ![last] = s]
      BY <2>2, <3>1
    <3> QED BY <2>1, <3>2
  <2>5. /\ senders'[last] = Stopped(senders[last])
        /\ \A i \in DOMAIN senders : i # last => senders'[i] = senders[i]
    BY <2>1, <2>2
  <2> QED BY <2>1, <2>3, <2>4, <2>5, StoppedSender
<1> QED BY <1>1, <1>2

\* The first final headers are written, and leave no sender running.
LEMMA CommitEffect ==
  ASSUME AnswerTypes, SendersOK, Final(wire) = {}, NEW a \in Block, a.kind # "processing",
         commitFinalResponse(a)
  PROVE  /\ senders' \in Seq(Sender) /\ \A i \in DOMAIN senders' : senders'[i].stopped
         /\ wire' = Append(wire, a) /\ wire' \in Seq(Block)
         /\ Final(wire') = {Len(wire) + 1} /\ wire'[Len(wire) + 1] = a
         /\ DOMAIN wire' = DOMAIN wire \cup {Len(wire) + 1}
         /\ \A i \in DOMAIN wire : wire'[i] = wire[i]
<1>1. wire' = Append(wire, a) /\ senders' \in Seq(Sender) /\ \A i \in DOMAIN senders' : senders'[i].stopped
  <2>1. CASE ~hasSender
    <3>1. \A i \in DOMAIN senders : senders[i].stopped
      BY <2>1 DEF hasSender, SendersOK, AnswerTypes
    <3> QED BY <2>1, <3>1 DEF commitFinalResponse, AnswerTypes
  <2>2. CASE hasSender
    <3>1. last \in DOMAIN senders /\ senders[last] \in Sender /\ senders \in Seq(Sender)
      BY <2>2 DEF hasSender, last, AnswerTypes
    <3>2. /\ senders' = [senders EXCEPT ![last] = [Stopped(senders[last]) EXCEPT !.committed = TRUE]]
          /\ wire' = IF senders[last].committed THEN wire ELSE Append(wire, a)
      BY <2>2 DEF commitFinalResponse
    <3>3. ~senders[last].committed
      BY <3>1 DEF SendersOK
    <3>4. \A i \in DOMAIN senders : i # last => senders[i].stopped
      BY DEF SendersOK, last
    <3>5. senders' \in Seq(Sender) /\ DOMAIN senders' = DOMAIN senders
      <4>1. PICK s \in Sender : s = [Stopped(senders[last]) EXCEPT !.committed = TRUE]
        BY <3>1, StoppedSender
      <4>2. senders' = [senders EXCEPT ![last] = s]
        BY <3>2, <4>1
      <4> QED BY <3>1, <4>2
    <3>6. /\ senders'[last] = [Stopped(senders[last]) EXCEPT !.committed = TRUE]
          /\ \A i \in DOMAIN senders : i # last => senders'[i] = senders[i]
      BY <3>1, <3>2
    <3>7. \A i \in DOMAIN senders' : senders'[i].stopped
      BY <3>1, <3>4, <3>5, <3>6, StoppedSender
    <3> QED BY <3>2, <3>3, <3>5, <3>7
  <2> QED BY <2>1, <2>2
<1> QED BY <1>1, FinalAppend DEF AnswerTypes

\* A step that writes the final headers.
LEMMA CommitKeeps ==
  ASSUME AnswerInv, Final(wire) = {}, NEW a \in Block, a.kind # "processing",
         commitFinalResponse(a),
         gone' \in BOOLEAN, aborted' \in BOOLEAN, committed' \in BOOLEAN, hasBody' \in BOOLEAN,
         pc' = "done" \/ (pc' = "copy" /\ committed' /\ hasBody'),
         a.kind = "upstream" /\ log' # <<>> /\ current'.fault /\ current'.code < 400 => gone'
  PROVE  AnswerInv'
<1>1. /\ senders' \in Seq(Sender) /\ \A i \in DOMAIN senders' : senders'[i].stopped
      /\ wire' = Append(wire, a) /\ wire' \in Seq(Block)
      /\ Final(wire') = {Len(wire) + 1} /\ wire'[Len(wire) + 1] = a
      /\ DOMAIN wire' = DOMAIN wire \cup {Len(wire) + 1}
      /\ \A i \in DOMAIN wire : wire'[i] = wire[i]
  BY CommitEffect DEF AnswerInv
<1>2. AnswerTypes'
  BY <1>1 DEF AnswerTypes
<1>3. CommittedOK'
  BY <1>1 DEF CommittedOK
<1>4. SendersOK'
  BY <1>1 DEF SendersOK
<1>5. TruncationVisible'
  BY <1>1 DEF TruncationVisible
<1> QED BY <1>2, <1>3, <1>4, <1>5 DEF AnswerInv

\* The handler returns without writing, to a client that has left or after the
\* final headers; or it leaves a vendor.
LEMMA StopKeeps ==
  ASSUME AnswerInv, stop, UNCHANGED <<wire, committed, hasBody>>,
         gone' \in BOOLEAN, aborted' \in BOOLEAN,
         pc \notin {"done"},
         \/ pc' = "done" /\ (gone' \/ (Final(wire) # {} /\ aborted'))
         \/ pc' = "pick" /\ pc # "copy"
  PROVE  AnswerInv'
<1>1. /\ senders' \in Seq(Sender) /\ Len(senders') = Len(senders) /\ DOMAIN senders' = DOMAIN senders
      /\ \A i \in DOMAIN senders : senders'[i].stopped /\ senders'[i].committed = senders[i].committed
  BY StopEffect DEF AnswerInv
<1>2. AnswerTypes'
  BY <1>1 DEF AnswerInv, AnswerTypes
<1>3. CommittedOK'
  BY DEF AnswerInv, CommittedOK
<1>4. SendersOK'
  BY <1>1 DEF AnswerInv, SendersOK
<1>5. TruncationVisible'
  BY DEF AnswerInv, TruncationVisible
<1> QED BY <1>2, <1>3, <1>4, <1>5 DEF AnswerInv

\* An error of the gateway's own as the answer.
LEMMA EndWithKeeps ==
  ASSUME AnswerInv, Final(wire) = {}, NEW kind \in Kinds, NEW code, NEW words,
         kind \notin {"processing", "upstream"},
         EndWith(kind) \/ EndWithMaskable(kind, code, words),
         gone' \in BOOLEAN, aborted' \in BOOLEAN, committed' \in BOOLEAN, hasBody' \in BOOLEAN
  PROVE  AnswerInv'
<1>1. Masked(conf.policy[vendor], code, words) \in BOOLEAN
  BY Zenon DEF Masked
<1>2. PICK a \in Block : commitFinalResponse(a) /\ a.kind = kind
  <2>1. CASE EndWith(kind)
    <3>1. Synthetic(kind) \in Block /\ Synthetic(kind).kind = kind
      BY DEF Block, Synthetic
    <3> QED BY <2>1, <3>1 DEF EndWith
  <2>2. CASE EndWithMaskable(kind, code, words)
    <3> DEFINE b == [kind |-> kind, masked |-> Masked(conf.policy[vendor], code, words)]
    <3>1. b \in Block /\ b.kind = kind
      BY <1>1 DEF Block
    <3>2. commitFinalResponse(b)
      BY <2>2 DEF EndWithMaskable
    <3> HIDE DEF b
    <3> QED BY <3>1, <3>2
  <2> QED BY <2>1, <2>2
<1>3. pc' = "done"
  BY EndsDone
<1> QED BY <1>2, <1>3, CommitKeeps

\* A step that leaves the downstream side alone.
LEMMA StillAnswers ==
  ASSUME AnswerInv, UNCHANGED <<conf, vendor, wire, senders, committed, hasBody, aborted>>,
         gone' \in BOOLEAN, gone => gone',
         \/ pc' = pc /\ log' = log
         \/ pc \in Inside \ {"copy"} /\ pc' \in Inside
         \/ pc = "start" /\ pc' = "pick"
  PROVE  AnswerInv'
<1>1. AnswerTypes'
  BY DEF AnswerInv, AnswerTypes
<1>2. CommittedOK'
  BY DEF AnswerInv, CommittedOK, Inside, Begun
<1>3. SendersOK'
  BY DEF AnswerInv, SendersOK, Inside, Begun
<1>4. TruncationVisible'
  BY DEF AnswerInv, TruncationVisible, Inside, Begun, current
<1> QED BY <1>1, <1>2, <1>3, <1>4 DEF AnswerInv

\* The bytes of an upstream's answer, after its headers.
LEMMA CommitUpstreamKeeps ==
  ASSUME AnswerInv, pc = "copy", commitUpstream, UNCHANGED aborted,
         gone' \in BOOLEAN, gone => gone', hasBody' \in BOOLEAN, hasBody => hasBody',
         pc' = "done" \/ (pc' = "copy" /\ hasBody'),
         pc' = "done" /\ log' # <<>> /\ current'.fault /\ current'.code < 400 => gone',
         UNCHANGED <<conf, vendor>>
  PROVE  AnswerInv'
<1>1. committed' = TRUE /\ aborted' \in BOOLEAN
  BY DEF commitUpstream, AnswerInv, AnswerTypes
<1>2. CASE ~committed
  <2>1. Final(wire) = {} /\ commitFinalResponse(Synthetic("upstream"))
    BY <1>2 DEF AnswerInv, CommittedOK, commitUpstream
  <2>2. Synthetic("upstream") \in Block /\ Synthetic("upstream").kind = "upstream"
    BY DEF Synthetic, Block, Kinds
  <2>3. CASE pc' = "done"
    BY <1>1, <2>1, <2>2, <2>3, CommitKeeps
  <2>4. CASE pc' = "copy"
    <3>1. PICK a \in Block : a = Synthetic("upstream")
      BY <2>2
    <3>2. /\ senders' \in Seq(Sender) /\ \A i \in DOMAIN senders' : senders'[i].stopped
          /\ wire' \in Seq(Block)
          /\ Final(wire') = {Len(wire) + 1} /\ wire'[Len(wire) + 1] = a
          /\ DOMAIN wire' = DOMAIN wire \cup {Len(wire) + 1}
          /\ \A i \in DOMAIN wire : wire'[i] = wire[i]
      BY <2>1, <2>2, <3>1, CommitEffect DEF AnswerInv
    <3>3. AnswerTypes' /\ CommittedOK' /\ SendersOK' /\ TruncationVisible'
      BY <1>1, <2>4, <3>2 DEF AnswerTypes, CommittedOK, SendersOK, TruncationVisible
    <3> QED BY <3>3 DEF AnswerInv
  <2> QED BY <2>3, <2>4
<1>3. CASE committed
  <2>1. UNCHANGED <<wire, senders>> /\ Final(wire) # {}
    BY <1>3 DEF commitUpstream, AnswerInv, CommittedOK
  <2>2. AnswerTypes'
    BY <1>1, <2>1 DEF AnswerInv, AnswerTypes
  <2>3. CommittedOK'
    BY <1>1, <1>3, <2>1 DEF AnswerInv, CommittedOK
  <2>4. SendersOK'
    BY <2>1 DEF AnswerInv, SendersOK
  <2>5. TruncationVisible'
    BY DEF TruncationVisible
  <2> QED BY <2>2, <2>3, <2>4, <2>5 DEF AnswerInv
<1> QED BY <1>2, <1>3

\* The callback of a timer.
LEMMA TimersKeep ==
  ASSUME AnswerInv, NEW i \in DOMAIN senders, Fire(i) \/ tick(i)
  PROVE  AnswerInv'
<1>1. UNCHANGED <<conf, req, pc, loopVars, reply, copyVars, envVars, aborted, log>>
  BY DEF Fire, tick
<1>2. PICK t \in {"armed", "fired", "off"} : senders' = [senders EXCEPT ![i].timer = t]
  BY DEF Fire, tick
<1>3. senders \in Seq(Sender) /\ senders[i] \in Sender
  BY DEF AnswerInv, AnswerTypes
<1>4. PICK s \in Sender : s = [senders[i] EXCEPT !.timer = t] /\ s.stopped = senders[i].stopped
                          /\ s.committed = senders[i].committed
  <2> DEFINE u == [senders[i] EXCEPT !.timer = t]
  <2>1. u \in Sender /\ u.stopped = senders[i].stopped /\ u.committed = senders[i].committed
    BY <1>3 DEF Sender
  <2> HIDE DEF u
  <2>2. u = [senders[i] EXCEPT !.timer = t]
    BY DEF u
  <2> QED BY <2>1, <2>2
<1>5. senders' = [senders EXCEPT ![i] = s]
  BY <1>2, <1>4
<1>6. /\ senders' \in Seq(Sender) /\ Len(senders') = Len(senders) /\ DOMAIN senders' = DOMAIN senders
      /\ \A j \in DOMAIN senders : senders'[j].stopped = senders[j].stopped
                                   /\ senders'[j].committed = senders[j].committed
  BY <1>3, <1>4, <1>5
<1>7. CASE wire' = wire
  <2>1. AnswerTypes' /\ CommittedOK' /\ TruncationVisible'
    BY <1>1, <1>6, <1>7 DEF AnswerInv, AnswerTypes, CommittedOK, TruncationVisible,
                            copyVars, envVars, current
  <2>2. SendersOK'
    BY <1>1, <1>6, <1>7 DEF AnswerInv, SendersOK, loopVars
  <2> QED BY <2>1, <2>2 DEF AnswerInv
<1>8. CASE wire' = Append(wire, Synthetic("processing"))
  <2>1. PICK b \in Block : b = Synthetic("processing") /\ b.kind = "processing"
    <3>1. Synthetic("processing") \in Block /\ Synthetic("processing").kind = "processing"
      BY DEF Synthetic, Block, Kinds
    <3> QED BY <3>1
  <2>2. /\ wire' \in Seq(Block) /\ DOMAIN wire' = DOMAIN wire \cup {Len(wire) + 1}
        /\ wire'[Len(wire) + 1] = b /\ Len(wire) + 1 \notin DOMAIN wire
        /\ \A j \in DOMAIN wire : wire'[j] = wire[j]
        /\ Final(wire') = Final(wire)
    BY <1>8, <2>1, FinalAppend DEF AnswerInv, AnswerTypes
  <2>3. AnswerTypes' /\ CommittedOK'
    BY <1>1, <1>6, <2>2 DEF AnswerInv, AnswerTypes, CommittedOK, copyVars, envVars
  <2>4. SendersOK'
    BY <1>1, <1>6, <2>2 DEF AnswerInv, SendersOK, loopVars
  <2>5. TruncationVisible'
    BY <1>1, <2>2 DEF AnswerInv, TruncationVisible, envVars, current, Final
  <2> QED BY <2>3, <2>4, <2>5 DEF AnswerInv
<1> QED BY <1>7, <1>8 DEF Fire, tick

\* A new vendor, with a sender of its own or without one.
LEMMA EnterAnswers ==
  ASSUME AnswerInv, pc \in {"start", "pick"}, NEW v, NEW c, EnterVendor(v, c),
         UNCHANGED <<conf, wire, committed, hasBody, aborted, gone>>
  PROVE  AnswerInv'
<1> DEFINE fresh == [timer |-> "armed", stopped |-> FALSE, committed |-> FALSE]
<1>1. /\ Final(wire) = {} /\ ~committed /\ \A i \in DOMAIN senders : senders[i].stopped
      /\ \A i \in DOMAIN senders : ~senders[i].committed
  BY DEF AnswerInv, CommittedOK, SendersOK, Inside, Begun
<1>2. vendor' = v /\ pc' = "attempt" /\ senders' = IF v \in conf.interim THEN Append(senders, fresh) ELSE senders
  BY DEF EnterVendor
<1>3. fresh \in Sender /\ ~fresh.committed
  BY DEF Sender
<1> HIDE DEF fresh
<1>4. senders' \in Seq(Sender)
  BY <1>2, <1>3 DEF AnswerInv, AnswerTypes
<1>5. SendersOK'
  <2>1. CASE v \notin conf.interim
    BY <1>1, <1>2, <2>1 DEF SendersOK
  <2>2. CASE v \in conf.interim
    <3>1. /\ DOMAIN senders' = DOMAIN senders \cup {Len(senders')} /\ senders'[Len(senders')] = fresh
          /\ \A i \in DOMAIN senders : senders'[i] = senders[i]
      BY <1>2, <1>3, <2>2 DEF AnswerInv, AnswerTypes
    <3> QED BY <1>1, <1>2, <1>3, <2>2, <3>1 DEF SendersOK, Inside
  <2> QED BY <2>1, <2>2
<1>6. AnswerTypes' /\ CommittedOK' /\ TruncationVisible'
  BY <1>1, <1>2, <1>4 DEF AnswerInv, AnswerTypes, CommittedOK, TruncationVisible
<1> QED BY <1>5, <1>6 DEF AnswerInv

\* finish leaves the attempt with the fault and the code it was given.
LEMMA FinishCurrent ==
  ASSUME LoopInv, VerdictInv, pc \in {"sent", "copy"}, NEW entry \in Entry, NEW action,
         entry.verdict = "none" => action \in Verdicts,
         entry.vendor = current.vendor, entry.key = current.key, finish(entry, action)
  PROVE  current'.fault = entry.fault /\ current'.code = entry.code
<1>1. log \in Seq(Entry) /\ log # <<>>
  BY DEF LoopInv, LoopTypes, VerdictInv, CurrentOK, Begun
<1>2. Len(log') = Len(log) /\ log'[Len(log)].code = entry.code /\ log'[Len(log)].fault = entry.fault
  BY <1>1, FinishEffect
<1> QED BY <1>2 DEF current

\* The answer while an attempt is out.
LEMMA SentAnswers ==
  ASSUME LoopInv, VerdictInv, AnswerInv, UpstreamAnswers
  PROVE  AnswerInv'
<1>1. /\ pc = "sent" /\ UNCHANGED <<conf, vendor, committed, hasBody, aborted>> /\ Final(wire) = {}
      /\ gone \in BOOLEAN /\ aborted' \in BOOLEAN /\ committed' \in BOOLEAN /\ hasBody' \in BOOLEAN
  BY DEF UpstreamAnswers, requestBodyReadError, isCanceledUpstreamError, doUpstreamRequestFails,
         Respond, captureResponsePreviewFails, loopVars, copyVars, AnswerInv, AnswerTypes, CommittedOK
<1>2. CASE requestBodyReadError
  <2>1. PICK late \in BOOLEAN : /\ IF late \/ ~gone THEN EndWith("badBody") ELSE EndSilently
                                /\ gone' = (gone \/ late)
    BY <1>2 DEF requestBodyReadError
  <2>2. gone' \in BOOLEAN
    BY <1>1, <2>1
  <2>3. CASE late \/ ~gone
    <3>1. EndWith("badBody")
      BY <2>1, <2>3
    <3> QED BY <1>1, <2>2, <3>1, EndWithKeeps DEF Kinds
  <2>4. CASE ~(late \/ ~gone)
    <3>1. EndSilently /\ gone' = TRUE
      BY <2>1, <2>4, Zenon
    <3> QED BY <1>1, <3>1, StopKeeps DEF EndSilently
  <2> QED BY <2>3, <2>4
<1>3. CASE isCanceledUpstreamError
  <2>1. EndSilently /\ gone'
    BY <1>3 DEF isCanceledUpstreamError
  <2>2. gone' \in BOOLEAN
    BY <1>1, <1>3 DEF isCanceledUpstreamError
  <2> QED BY <1>1, <2>1, <2>2, StopKeeps DEF EndSilently
<1>4. CASE doUpstreamRequestFails \/ \E resp \in Responses : Respond(resp)
  <2>1. pc' \in Inside /\ UNCHANGED <<wire, senders, gone>>
    BY <1>4 DEF doUpstreamRequestFails, Respond, Inside, Begun
  <2> QED BY <1>1, <2>1, StillAnswers DEF Inside, Begun
<1>5. ASSUME NEW resp \in Responses, captureResponsePreviewFails(resp) PROVE AnswerInv'
  <2>1. gone' = gone /\ ((EndSilently /\ gone) \/ (pc' = "retryKey" /\ UNCHANGED <<senders, wire>>))
    BY <1>5 DEF captureResponsePreviewFails
  <2>2. CASE EndSilently /\ gone
    BY <1>1, <2>1, <2>2, StopKeeps DEF EndSilently
  <2>3. CASE pc' = "retryKey" /\ UNCHANGED <<senders, wire>>
    BY <1>1, <2>1, <2>3, StillAnswers DEF Inside, Begun
  <2> QED BY <2>1, <2>2, <2>3
<1> QED BY <1>2, <1>3, <1>4, <1>5 DEF UpstreamAnswers

\* The answer while a body is copied.
LEMMA CopyAnswers ==
  ASSUME LoopInv, VerdictInv, AnswerInv,
         copyChunk \/ writeFails \/ endOfBody \/ bodyInterrupted \/ copyCanceled
  PROVE  AnswerInv'
<1>1. /\ pc = "copy" /\ UNCHANGED <<conf, vendor>>
      /\ gone \in BOOLEAN /\ aborted \in BOOLEAN /\ committed \in BOOLEAN /\ hasBody \in BOOLEAN
      /\ committed => Final(wire) # {} /\ hasBody
      /\ ~committed => Final(wire) = {}
  BY DEF copyChunk, writeFails, endOfBody, bodyInterrupted, copyCanceled, loopVars, AnswerInv,
         AnswerTypes, CommittedOK
<1>2. /\ current \in Entry /\ current.code = reply.resp.code /\ current.code \in Nat
      /\ current.code < 400 => ~current.fault
      /\ current.verdict = "none" => reply.decision.action = "success"
  <2>1. current \in Entry
    BY <1>1, CurrentEntry DEF VerdictInv, Begun
  <2>2. current.code = reply.resp.code /\ current.code \in Nat
    BY <1>1, <2>1 DEF VerdictInv, ReplyOK, Entry
  <2> QED BY <1>1, <2>1, <2>2 DEF VerdictInv, CurrentOK
<1>3. CASE copyChunk
  <2>1. commitUpstream /\ hasBody' = TRUE /\ pc' = "copy" /\ UNCHANGED <<gone, aborted>>
    BY <1>1, <1>3 DEF copyChunk, envVars
  <2> QED BY <1>1, <2>1, CommitUpstreamKeeps
<1>4. CASE writeFails
  <2>1. commitUpstream /\ hasBody' = TRUE /\ gone' = TRUE /\ pc' = "done" /\ UNCHANGED aborted
    BY <1>4 DEF writeFails
  <2> QED BY <1>1, <2>1, CommitUpstreamKeeps
<1>5. CASE endOfBody
  <2>1. hasBody' = hasBody /\ aborted' = aborted
    BY <1>5 DEF endOfBody
  <2>2. CASE ~hasBody /\ EndWith("empty") /\ UNCHANGED <<committed, gone>>
    BY <1>1, <2>1, <2>2, EndWithKeeps DEF Kinds
  <2>3. CASE /\ commitUpstream /\ pc' = "done"
             /\ \/ finish(current, reply.decision.action) /\ UNCHANGED gone
                \/ ~hasBody /\ finish(current, "interrupted") /\ gone' = TRUE
    <3>1. gone' \in BOOLEAN /\ (gone => gone')
      <4>1. gone' = gone \/ gone' = TRUE
        BY <2>3, Zenon
      <4> QED BY <1>1, <4>1
    <3>2. current'.fault = current.fault /\ current'.code = current.code
      <4>1. PICK action : finish(current, action) /\ (current.verdict = "none" => action \in Verdicts)
        BY <1>2, <2>3 DEF Verdicts
      <4> QED BY <1>1, <1>2, <4>1, FinishCurrent
    <3>3. ~(current'.fault /\ current'.code < 400)
      BY <1>2, <3>2
    <3> QED BY <1>1, <2>1, <2>3, <3>1, <3>3, CommitUpstreamKeeps
  <2> QED BY <1>5, <2>2, <2>3 DEF endOfBody
<1>6. CASE bodyInterrupted
  <2> DEFINE faulty == [current EXCEPT !.fault = TRUE]
  <2>1. /\ finish(faulty, readFailure) /\ hasBody' = hasBody /\ gone' = gone
    BY <1>6 DEF bodyInterrupted
  <2>2. /\ faulty \in Entry /\ faulty.vendor = current.vendor /\ faulty.key = current.key
        /\ faulty.code = current.code /\ readFailure \in Verdicts
    BY <1>2, DecisionActions DEF Entry, readFailure, Faults, Verdicts
  <2> HIDE DEF faulty
  <2>3. current'.code = current.code
    BY <1>1, <2>1, <2>2, FinishCurrent
  <2>4. CASE reply.resp.code >= 400
    <3>1. commitUpstream /\ pc' = "done" /\ UNCHANGED aborted /\ ~(current'.code < 400)
      BY <1>2, <1>6, <2>3, <2>4 DEF bodyInterrupted
    <3> QED BY <1>1, <2>1, <3>1, CommitUpstreamKeeps
  <2>5. CASE ~(reply.resp.code >= 400) /\ ~committed
    <3>1. EndWith("interrupted") /\ UNCHANGED <<committed, aborted>>
      BY <1>6, <2>5 DEF bodyInterrupted
    <3> QED BY <1>1, <2>1, <2>5, <3>1, EndWithKeeps DEF Kinds
  <2>6. CASE ~(reply.resp.code >= 400) /\ committed
    <3>1. EndSilently /\ aborted' = TRUE /\ UNCHANGED committed
      BY <1>6, <2>6 DEF bodyInterrupted
    <3> QED BY <1>1, <2>1, <2>6, <3>1, StopKeeps DEF EndSilently
  <2> QED BY <2>4, <2>5, <2>6
<1>7. CASE copyCanceled
  <2>1. EndSilently /\ gone /\ UNCHANGED <<committed, hasBody, gone, aborted>>
    BY <1>7 DEF copyCanceled, copyVars
  <2> QED BY <1>1, <2>1, StopKeeps DEF EndSilently
<1> QED BY <1>3, <1>4, <1>5, <1>6, <1>7

LEMMA bodyNotReadAnswers ==
  ASSUME AnswerInv, pc \in {"start", "pick"}, bodyNotRead, UNCHANGED <<copyVars, aborted>>
  PROVE  AnswerInv'
<1>1. /\ Final(wire) = {} /\ UNCHANGED <<committed, hasBody>> /\ gone \in BOOLEAN
      /\ aborted' \in BOOLEAN /\ committed' \in BOOLEAN /\ hasBody' \in BOOLEAN
  BY DEF copyVars, AnswerInv, AnswerTypes, CommittedOK
<1>2. CASE gone' = TRUE /\ EndSilently
  BY <1>1, <1>2, StopKeeps DEF EndSilently
<1>3. CASE EndWith("badBody") /\ UNCHANGED gone
  BY <1>1, <1>3, EndWithKeeps DEF Kinds
<1> QED BY <1>2, <1>3 DEF bodyNotRead

LEMMA PrepareAnswers ==
  ASSUME LoopInv, AnswerInv, prepareNonAggregateRequest \/ prepareAggregateRequest
  PROVE  AnswerInv'
<1>1. /\ pc \in {"start", "pick"} /\ UNCHANGED <<conf, copyVars, committed, hasBody, aborted>>
      /\ Final(wire) = {} /\ gone \in BOOLEAN /\ aborted' \in BOOLEAN /\ committed' \in BOOLEAN
      /\ hasBody' \in BOOLEAN
  BY DEF prepareNonAggregateRequest, prepareAggregateRequest, copyVars, AnswerInv, AnswerTypes, CommittedOK
<1>2. ASSUME NEW v, NEW c, EnterVendor(v, c), UNCHANGED <<gone, wire>> PROVE AnswerInv'
  BY <1>1, <1>2, EnterAnswers
<1>3. CASE bodyNotRead
  BY <1>1, <1>3, bodyNotReadAnswers
<1>4. CASE EndWith("noChild") /\ UNCHANGED gone
  BY <1>1, <1>4, EndWithKeeps DEF Kinds
<1>5. CASE prepareNonAggregateRequest
  BY <1>2, <1>3, <1>5 DEF prepareNonAggregateRequest
<1>6. CASE prepareAggregateRequest
  <2>1. ~(round >= conf.retry.max)
    BY Limits DEF LoopInv, LoopTypes, LimitsOK
  <2>2. CASE Candidates(exclude) = {}
    BY <1>4, <1>6, <2>1, <2>2 DEF prepareAggregateRequest
  <2>3. CASE Candidates(exclude) # {}
    <3>1. PICK c \in Candidates(exclude) :
            (EnterVendor(ChildVendor[c], c) /\ UNCHANGED <<gone, wire>>) \/ bodyNotRead
      BY <1>6, <2>1, <2>3 DEF prepareAggregateRequest
    <3> QED BY <1>2, <1>3, <3>1
  <2> QED BY <2>2, <2>3
<1> QED BY <1>5, <1>6

\* No retry: an error or the masked response is the answer, or the body is copied.
LEMMA GiveUpAnswers ==
  ASSUME LoopInv, VerdictInv, AnswerInv, GiveUp
  PROVE  AnswerInv'
<1>1. /\ pc = "retryChild" /\ Final(wire) = {}
      /\ UNCHANGED <<conf, vendor, committed, hasBody, aborted, gone, log, reply>>
      /\ gone' \in BOOLEAN /\ aborted' \in BOOLEAN /\ committed' \in BOOLEAN /\ hasBody' \in BOOLEAN
  BY DEF GiveUp, loopVars, copyVars, envVars, AnswerInv, AnswerTypes, CommittedOK
<1>2. CASE failed
  <2>1. EndWithMaskable("upstreamFailed", 502, {"request failed"})
    BY <1>2 DEF GiveUp
  <2> QED BY <1>1, <2>1, EndWithKeeps DEF Kinds
<1>3. CASE ~failed /\ Masked(conf.policy[vendor], reply.resp.code, reply.resp.body)
  <2> DEFINE a == [kind |-> "upstream", masked |-> TRUE]
  <2>1. a \in Block /\ a.kind = "upstream"
    BY DEF Block, Kinds
  <2>2. commitFinalResponse(a) /\ pc' = "done"
    BY <1>3 DEF GiveUp
  <2>3. ~(current'.code < 400)
    <3>1. reply.kind = "response" /\ current.code = reply.resp.code /\ reply.resp.code \in Nat
          /\ reply.resp.code >= 400
      BY <1>1, <1>3 DEF failed, VerdictInv, ReplyOK
    <3> QED BY <1>1, <3>1 DEF current
  <2> HIDE DEF a
  <2> QED BY <1>1, <2>1, <2>2, <2>3, CommitKeeps
<1>4. CASE ~failed /\ ~Masked(conf.policy[vendor], reply.resp.code, reply.resp.body)
  <2>1. pc' = "copy" /\ UNCHANGED <<wire, senders>>
    BY <1>4 DEF GiveUp
  <2> QED BY <1>1, <2>1, StillAnswers DEF Inside, Begun
<1> QED BY <1>2, <1>3, <1>4

LEMMA AnswerInductive ==
  /\ Init => AnswerInv
  /\ ExecutionInv /\ AnswerInv /\ [Next]_vars => AnswerInv'
<1>1. Init => AnswerInv
  <2> SUFFICES ASSUME Init PROVE AnswerInv
    OBVIOUS
  <2>1. /\ wire = <<>> /\ wire \in Seq(Block) /\ DOMAIN wire = {} /\ Final(wire) = {}
        /\ senders = <<>> /\ senders \in Seq(Sender) /\ DOMAIN senders = {}
    BY DEF Init, Final
  <2>2. AnswerTypes
    BY <2>1 DEF Init, AnswerTypes
  <2>3. CommittedOK /\ SendersOK /\ TruncationVisible
    BY <2>1 DEF Init, CommittedOK, SendersOK, TruncationVisible
  <2> QED BY <2>2, <2>3 DEF AnswerInv
<1>2. SUFFICES ASSUME LoopInv, VerdictInv, AnswerInv, [Next]_vars PROVE AnswerInv'
  BY <1>1 DEF ExecutionInv
<1>3. /\ gone \in BOOLEAN /\ aborted \in BOOLEAN /\ committed \in BOOLEAN /\ hasBody \in BOOLEAN
      /\ pc \in {"start", "pick", "attempt", "retryKey", "retryChild"} => Final(wire) = {}
  BY <1>2 DEF AnswerInv, AnswerTypes, CommittedOK
<1>4. CASE \E i \in DOMAIN senders : Fire(i) \/ tick(i)
  BY <1>2, <1>4, TimersKeep
<1>5. CASE ClientLeaves \/ (\E k \in Keys : KeyLost(k) \/ KeyBack(k)) \/ UNCHANGED vars
  <2>1. UNCHANGED <<conf, vendor, wire, senders, committed, hasBody, aborted, pc, log>>
    BY <1>5 DEF ClientLeaves, KeyLost, KeyBack, vars, loopVars, copyVars
  <2>2. gone' = gone \/ gone' = TRUE
    BY <1>5 DEF ClientLeaves, KeyLost, KeyBack, vars, envVars
  <2>3. gone' \in BOOLEAN /\ (gone => gone')
    BY <1>3, <2>2
  <2> QED BY <1>2, <2>1, <2>3, StillAnswers
<1>6. CASE authorizeClientFails
  <2>1. EndWith("unauthorized") /\ UNCHANGED <<gone, aborted, committed, hasBody>> /\ pc = "start"
    BY <1>6 DEF authorizeClientFails, copyVars, envVars
  <2> QED BY <1>2, <1>3, <2>1, EndWithKeeps DEF Kinds
<1>7. CASE buildFails
  <2>1. /\ EndWithMaskable("badTarget", 502, {}) /\ UNCHANGED <<gone, aborted, committed, hasBody>>
        /\ pc = "attempt"
    BY <1>7 DEF buildFails, copyVars, envVars
  <2> QED BY <1>2, <1>3, <2>1, EndWithKeeps DEF Kinds
<1>8. CASE newAttempt
  <2>1. pc = "attempt" /\ UNCHANGED <<conf, vendor, gone, aborted, committed, hasBody>>
    BY <1>8 DEF newAttempt, copyVars, envVars
  <2>2. CASE EndWithMaskable("noKey", 503, {"cooldown"})
    BY <1>2, <1>3, <2>1, <2>2, EndWithKeeps DEF Kinds
  <2>3. CASE \E k \in Targets : Send(k)
    <3>1. UNCHANGED <<wire, senders>> /\ pc' = "sent"
      BY <2>3 DEF Send
    <3> QED BY <1>2, <1>3, <2>1, <3>1, StillAnswers DEF Inside, Begun
  <2> QED BY <1>2, <1>8, <2>2, <2>3, newAttemptCases
<1>9. CASE authorizeAggregate \/ RetryKey
  <2>1. UNCHANGED <<conf, vendor, wire, senders, committed, hasBody, aborted, gone>>
    BY <1>9 DEF authorizeAggregate, RetryKey, loopVars, copyVars, envVars
  <2>2. \/ pc = "start" /\ pc' = "pick"
        \/ pc = "retryKey" /\ pc' \in {"attempt", "retryChild"}
    BY <1>9 DEF authorizeAggregate, RetryKey
  <2> QED BY <1>2, <1>3, <2>1, <2>2, StillAnswers DEF Inside, Begun
<1>10. CASE RetryChild
  <2>1. /\ stop /\ pc = "retryChild" /\ pc' = "pick"
        /\ UNCHANGED <<wire, committed, hasBody, gone, aborted>>
    BY <1>10 DEF RetryChild, copyVars, envVars
  <2> QED BY <1>2, <1>3, <2>1, StopKeeps
<1> QED
  BY <1>2, <1>4, <1>5, <1>6, <1>7, <1>8, <1>9, <1>10, PrepareAnswers, SentAnswers, GiveUpAnswers,
     CopyAnswers DEF Next, Handler

-----------------------------------------------------------------------------
RequestInv == ExecutionInv /\ AnswerInv

LEMMA RequestInductive ==
  /\ Init => RequestInv
  /\ RequestInv /\ [Next]_vars => RequestInv'
BY ExecutionInductive, AnswerInductive DEF RequestInv

\* One budget bounds the attempts of all rounds (max_upstream_attempts), and the
\* errors of the loops' own guards are never sent.
THEOREM WithinBudgetCorrect == Spec => []WithinBudget
<1>1. RequestInv => WithinBudget
  <2> SUFFICES ASSUME LoopInv, AnswerTypes PROVE WithinBudget
    BY DEF RequestInv, ExecutionInv, AnswerInv
  <2>1. \A i \in DOMAIN wire : wire[i] \in Block
    BY DEF AnswerTypes
  <2>2. \A i \in DOMAIN wire : wire[i].kind \in Kinds
    BY <2>1 DEF Block
  <2> QED BY <2>2 DEF LoopInv, LimitsOK, Kinds, WithinBudget
<1> QED BY <1>1, RequestInductive, PTL DEF Spec

\* The client gets one final header block, unless it has left (commitFinalResponse).
THEOREM OneAnswerCorrect == Spec => []ExactlyOneAnswer
<1>1. RequestInv => ExactlyOneAnswer
  <2> SUFFICES ASSUME CommittedOK PROVE ExactlyOneAnswer
    BY DEF RequestInv, AnswerInv
  <2>1. CASE Final(wire) = {}
    BY <2>1, FS_EmptySet DEF CommittedOK, ExactlyOneAnswer
  <2>2. ASSUME NEW i \in Final(wire) PROVE ExactlyOneAnswer
    <3>1. Final(wire) = {i}
      BY <2>2 DEF CommittedOK
    <3>2. Cardinality(Final(wire)) = 1
      BY <3>1, FS_Singleton
    <3> QED BY <3>1, <3>2 DEF ExactlyOneAnswer
  <2> QED BY <2>1, <2>2
<1> QED BY <1>1, RequestInductive, PTL DEF Spec

\* A success that breaks off half-way never looks complete (writeUpstreamResponse).
THEOREM TruncationCorrect == Spec => []TruncationVisible
<1>1. RequestInv => TruncationVisible
  BY DEF RequestInv, AnswerInv
<1> QED BY <1>1, RequestInductive, PTL DEF Spec

\* A step writes none of these blocks.
Spares(kinds) == wire' = wire \/ \E a : a.kind \notin kinds /\ wire' = Append(wire, a)

LEMMA EndsSpare ==
  ASSUME NEW kinds
  PROVE  /\ \A a : a.kind \notin kinds /\ commitFinalResponse(a) => Spares(kinds)
         /\ \A k : k \notin kinds /\ EndWith(k) => Spares(kinds)
         /\ \A k, c, w : k \notin kinds /\ EndWithMaskable(k, c, w) => Spares(kinds)
         /\ EndSilently => Spares(kinds)
         /\ "upstream" \notin kinds /\ commitUpstream => Spares(kinds)
<1>1. \A a : a.kind \notin kinds /\ commitFinalResponse(a) => Spares(kinds)
  BY DEF commitFinalResponse, Spares
<1>2. \A k, m : [kind |-> k, masked |-> m].kind = k
  OBVIOUS
<1>3. \A k : k \notin kinds /\ EndWith(k) => Spares(kinds)
  BY <1>1, <1>2 DEF EndWith, Synthetic
<1>4. \A k, c, w : k \notin kinds /\ EndWithMaskable(k, c, w) => Spares(kinds)
  BY <1>1, <1>2 DEF EndWithMaskable
<1>5. EndSilently => Spares(kinds)
  BY DEF EndSilently, Spares
<1>6. "upstream" \notin kinds /\ commitUpstream => Spares(kinds)
  BY <1>1, <1>2 DEF commitUpstream, Synthetic, Spares
<1> QED BY <1>1, <1>3, <1>4, <1>5, <1>6

\* The handler itself writes no interim headers, and reports a shortage only
\* where it looks for a child or a key.
LEMMA HandlerSpares ==
  ASSUME NEW kinds \in SUBSET {"processing", "noKey", "noChild"}, Handler \/ copyChunk,
         prepareAggregateRequest => kinds \subseteq {"processing", "noKey"},
         newAttempt => kinds \subseteq {"processing", "noChild"}
  PROVE  Spares(kinds)
<1>0. /\ "unauthorized" \notin kinds /\ "badBody" \notin kinds /\ "badTarget" \notin kinds
      /\ "upstream" \notin kinds /\ "upstreamFailed" \notin kinds /\ "empty" \notin kinds
      /\ "interrupted" \notin kinds /\ "exceededFailover" \notin kinds
      /\ "exceededBudget" \notin kinds /\ "unreplayable" \notin kinds
  OBVIOUS
<1>1. authorizeClientFails \/ authorizeAggregate \/ buildFails \/ RetryKey \/ RetryChild => Spares(kinds)
  BY <1>0, EndsSpare DEF authorizeClientFails, authorizeAggregate, buildFails, RetryKey, RetryChild, Spares
<1>2. bodyNotRead => Spares(kinds)
  BY <1>0, EndsSpare DEF bodyNotRead
<1>3. prepareNonAggregateRequest => Spares(kinds)
  BY <1>2 DEF prepareNonAggregateRequest, Spares
<1>4. CASE prepareAggregateRequest
  <2>1. "noChild" \notin kinds
    BY <1>4
  <2>2. \/ EndSilently \/ EndWith("noChild") \/ bodyNotRead \/ UNCHANGED wire
    BY <1>4 DEF prepareAggregateRequest
  <2> QED BY <1>2, <2>1, <2>2, EndsSpare DEF Spares
<1>5. CASE newAttempt
  <2>1. "noKey" \notin kinds
    BY <1>5
  <2>2. \/ EndWith("exceededFailover") \/ EndWith("exceededBudget") \/ UNCHANGED wire
        \/ EndWithMaskable("noKey", 503, {"cooldown"}) \/ EndWithMaskable("unreplayable", 500, {})
    BY <1>5 DEF newAttempt, Send
  <2> QED BY <1>0, <2>1, <2>2, EndsSpare DEF Spares
<1>6. UpstreamAnswers => Spares(kinds)
  BY <1>0, EndsSpare DEF UpstreamAnswers, requestBodyReadError, isCanceledUpstreamError,
     doUpstreamRequestFails, Respond, captureResponsePreviewFails, Spares
<1>7. GiveUp => Spares(kinds)
  <2>1. [kind |-> "upstream", masked |-> TRUE].kind = "upstream"
    OBVIOUS
  <2> QED BY <1>0, <2>1, EndsSpare DEF GiveUp, Spares
<1>8. copyChunk \/ writeFails \/ endOfBody \/ bodyInterrupted \/ copyCanceled => Spares(kinds)
  BY <1>0, EndsSpare DEF copyChunk, writeFails, endOfBody, bodyInterrupted, copyCanceled
<1> QED BY <1>1, <1>3, <1>4, <1>5, <1>6, <1>7, <1>8 DEF Handler

\* 102 headers precede the final ones, and none follows the end of the handler,
\* whatever callback of interimResponseSender is still under way.
THEOREM InterimCorrect == Spec => InterimBeforeFinal
<1> DEFINE Interim == \A i \in DOMAIN wire' \ DOMAIN wire :
                        wire'[i].kind = "processing" => Final(wire) = {} /\ pc # "done"
<1>1. RequestInv /\ [Next]_vars => Interim
  <2> SUFFICES ASSUME AnswerTypes, SendersOK, [Next]_vars,
                      NEW i \in DOMAIN wire' \ DOMAIN wire, wire'[i].kind = "processing"
               PROVE  Final(wire) = {} /\ pc # "done"
    BY DEF RequestInv, AnswerInv
  <2>1. wire \in Seq(Block)
    BY DEF AnswerTypes
  <2>2. ~Spares({"processing"})
    <3>1. wire' # wire
      OBVIOUS
    <3>2. ASSUME NEW a, wire' = Append(wire, a), a.kind \notin {"processing"} PROVE FALSE
      <4>1. i = Len(wire) + 1
        BY <2>1, <3>2
      <4>2. wire'[i] = a
        BY <2>1, <3>2, <4>1
      <4> QED BY <3>2, <4>2
    <3> QED BY <3>1, <3>2 DEF Spares
  <2>3. PICK s \in DOMAIN senders : tick(s)
    <3>1. wire' # wire
      OBVIOUS
    <3> QED BY <2>2, <3>1, HandlerSpares DEF Next, Fire, KeyLost, KeyBack, ClientLeaves, vars
  <2>4. ~senders[s].stopped
    BY <2>3 DEF tick
  <2> QED BY <2>3, <2>4 DEF SendersOK, Inside, Begun
<1> HIDE DEF Interim
<1>2. Spec => [][Interim]_vars
  BY <1>1, RequestInductive, PTL DEF Spec
<1> QED BY <1>2 DEF InterimBeforeFinal, Interim

-----------------------------------------------------------------------------
(***************************************************************************)
(* The retries: what was promised is there.                                *)
(***************************************************************************)

LEMMA DecisionFailover ==
  ASSUME NEW policy, NEW openai, NEW resp
  PROVE  /\ classifyRequestError(policy).failover = ("request_error" \in policy.failsOver)
         /\ analyzeErrorResponse(openai, policy, resp).failover = shouldFailoverResponse(resp.code, policy)
BY Decisions

\* A tier is found whenever a child is available.
LEMMA BestChild ==
  /\ \A S : Candidates(S) # {} <=> \E c \in Children \ S : aggregateChildAvailableForExecution(c)
  /\ Candidates(exclude)' # {} <=>
       \E c \in Children \ exclude' : aggregateChildAvailableForExecution(c)'
<1>1. \A S \in SUBSET Children : S # {} => \E c \in S : \A d \in S : Priority[c] <= Priority[d]
  BY TopologyConstants
<1>2. ASSUME NEW S
      PROVE  Candidates(S) # {} <=> \E c \in Children \ S : aggregateChildAvailableForExecution(c)
  <2> DEFINE free == {c \in Children \ S : aggregateChildAvailableForExecution(c)}
  <2>1. free # {} => \E c \in free : \A d \in free : Priority[c] <= Priority[d]
    BY <1>1
  <2>2. Candidates(S) = {c \in free : \A d \in free : Priority[c] <= Priority[d]}
    BY DEF Candidates
  <2>3. free # {} <=> \E c \in Children \ S : aggregateChildAvailableForExecution(c)
    OBVIOUS
  <2> HIDE DEF free
  <2> QED BY <2>1, <2>2, <2>3
<1>3. Candidates(exclude)' # {} <=>
        \E c \in Children \ exclude' : aggregateChildAvailableForExecution(c)'
  <2> DEFINE free == {c \in Children \ exclude' : aggregateChildAvailableForExecution(c)'}
  <2>1. free # {} => \E c \in free : \A d \in free : Priority[c] <= Priority[d]
    BY <1>1
  <2>2. Candidates(exclude)' = {c \in free : \A d \in free : Priority[c] <= Priority[d]}
    BY DEF Candidates
  <2>3. free # {} <=> \E c \in Children \ exclude' : aggregateChildAvailableForExecution(c)'
    OBVIOUS
  <2> HIDE DEF free
  <2> QED BY <2>1, <2>2, <2>3
<1> QED BY <1>2, <1>3

\* Keys that come back take nothing away.
LEMMA MoreUsable ==
  ASSUME UNCHANGED <<tried, vendor, child, exclude>>, usable \subseteq usable'
  PROVE  /\ Targets # {} => Targets' # {}
         /\ Candidates(exclude) # {} => Candidates(exclude)' # {}
<1>1. \A v, keys : Available(v, keys) \subseteq Available(v, keys)'
  BY DEF Available
<1>2. Targets # {} => Targets' # {}
  BY <1>1 DEF Targets, allowed
<1>3. \A c : aggregateChildAvailableForExecution(c) => aggregateChildAvailableForExecution(c)'
  BY <1>1 DEF aggregateChildAvailableForExecution, hasAvailableKey, allowed
<1> QED BY <1>2, <1>3, BestChild

\* Steps other than the three that look for a target.
LEMMA PlainStep ==
  ASSUME LoopInv, VerdictInv, [Next]_vars,
         ~prepareNonAggregateRequest, ~prepareAggregateRequest, ~newAttempt
  PROVE  /\ UNCHANGED <<conf, req, src, tried>>
         /\ pc' \in Inside => pc \in Inside /\ UNCHANGED <<vendor, child>>
         /\ pc' = "attempt" => RetryKey \/ (pc = "attempt" /\ Outside)
         /\ pc' = "pick" => RetryChild \/ authorizeAggregate \/ (pc = "pick" /\ Outside)
         /\ pc' = "retryKey" => UpstreamAnswers \/ (pc = "retryKey" /\ UNCHANGED reply)
         /\ log' # <<>> => log # <<>>
<1>1. CASE Outside
  BY <1>1, OutsideQuiet DEF LoopInv, loopVars
<1>2. CASE UpstreamAnswers
  <2>1. pc = "sent" /\ UNCHANGED <<conf, req, loopVars>>
    BY <1>2 DEF UpstreamAnswers, requestBodyReadError, isCanceledUpstreamError, doUpstreamRequestFails,
                Respond, captureResponsePreviewFails
  <2>2. pc' \in {"done", "retryKey", "copy"}
    BY <1>2, EndsDone DEF UpstreamAnswers, requestBodyReadError, isCanceledUpstreamError,
                doUpstreamRequestFails, Respond, captureResponsePreviewFails
  <2> QED BY <1>2, <2>1, <2>2 DEF loopVars, Inside, Begun, VerdictInv, CurrentOK
<1>3. CASE writeFails \/ endOfBody \/ bodyInterrupted \/ copyCanceled \/ copyChunk
  <2>1. pc = "copy" /\ UNCHANGED <<conf, req, loopVars>> /\ pc' \in {"done", "copy"}
    BY <1>3, EndsDone DEF writeFails, endOfBody, bodyInterrupted, copyCanceled, copyChunk
  <2> QED BY <2>1 DEF loopVars, Inside, Begun, VerdictInv, CurrentOK
<1>4. CASE authorizeClientFails \/ buildFails \/ GiveUp
  <2>1. UNCHANGED <<conf, req, src, tried, vendor, child, log>> /\ pc' \in {"done", "copy"}
        /\ (pc' = "copy" => pc = "retryChild")
    BY <1>4, EndsDone DEF authorizeClientFails, buildFails, GiveUp, loopVars
  <2> QED BY <2>1 DEF Inside, Begun
<1>5. CASE authorizeAggregate \/ RetryKey \/ RetryChild
  <2>1. UNCHANGED <<conf, req, src, tried, log>>
    BY <1>5 DEF authorizeAggregate, RetryKey, RetryChild, loopVars
  <2>2. \/ RetryKey /\ pc = "retryKey" /\ pc' \in {"attempt", "retryChild"} /\ UNCHANGED <<vendor, child>>
        \/ pc' = "pick" /\ (RetryChild \/ authorizeAggregate)
    BY <1>5 DEF authorizeAggregate, RetryKey, RetryChild, loopVars
  <2> QED BY <2>1, <2>2 DEF Inside, Begun
<1> QED BY <1>1, <1>2, <1>3, <1>4, <1>5 DEF Next, Handler, Outside

\* The handler takes no keys from itself.
LEMMA LossesGrow ==
  ASSUME losses \in Nat, [Next]_vars
  PROVE  /\ losses' \in Nat /\ (losses' = 0 => losses = 0)
         /\ losses' = 0 /\ Outside => usable \subseteq usable'
<1>1. losses' = losses \/ (losses' = losses + 1 /\ \E k \in Keys : KeyLost(k))
  BY DEF Next, Handler, Fire, tick, KeyLost, KeyBack, ClientLeaves, vars, envVars, authorizeClientFails,
         prepareNonAggregateRequest, authorizeAggregate, prepareAggregateRequest, buildFails, newAttempt,
         UpstreamAnswers, requestBodyReadError, isCanceledUpstreamError, doUpstreamRequestFails,
         Respond, captureResponsePreviewFails, RetryKey, RetryChild, GiveUp, writeFails, endOfBody,
         bodyInterrupted, copyCanceled, copyChunk
<1>2. (\E k \in Keys : KeyLost(k)) => losses' = losses + 1
  BY DEF KeyLost
<1>3. Outside /\ ~(\E k \in Keys : KeyLost(k)) => usable \subseteq usable'
  BY DEF Outside, Fire, tick, KeyBack, ClientLeaves, vars, envVars
<1> QED BY <1>1, <1>2, <1>3

\* What an entry into the loop over a vendor's keys looks like.
LEMMA Entries ==
  ASSUME LoopInv, prepareNonAggregateRequest \/ prepareAggregateRequest, pc' \in Inside
  PROVE  /\ UNCHANGED <<conf, req, usable, tried>> /\ pc' = "attempt"
         /\ \E allowReplay \in BOOLEAN :
              /\ src' = "replayable" \/ src' = prepareRequestBody(allowReplay)
              /\ shouldBufferRequestBody(vendor') => allowReplay
         /\ prepareAggregateRequest => child' \in Candidates(exclude) /\ vendor' = ChildVendor[child']
<1>1. pc' # "done"
  BY DEF Inside, Begun
<1>2. ~bodyNotRead
  BY <1>1, EndsDone DEF bodyNotRead
<1>3. UNCHANGED <<conf, req, usable>>
  BY DEF prepareNonAggregateRequest, prepareAggregateRequest
<1>4. CASE prepareNonAggregateRequest
  <2>1. /\ src' = prepareRequestBody(shouldBufferRequestBody(req.route))
        /\ EnterVendor(req.route, None) /\ pc = "start"
    BY <1>2, <1>4 DEF prepareNonAggregateRequest
  <2>2. shouldBufferRequestBody(req.route) \in BOOLEAN
    BY Zenon DEF shouldBufferRequestBody
  <2>3. ~prepareAggregateRequest
    BY <2>1 DEF prepareAggregateRequest
  <2> QED BY <1>3, <2>1, <2>2, <2>3 DEF EnterVendor
<1>5. CASE prepareAggregateRequest
  <2>1. PICK c \in Candidates(exclude) :
          /\ src' = IF src = "nil"
                      THEN prepareRequestBody(conf.retry.enabled \/ shouldBufferRequestBody(ChildVendor[c]))
                      ELSE src
          /\ EnterVendor(ChildVendor[c], c)
    BY <1>1, <1>2, <1>5, EndsDone DEF prepareAggregateRequest
  <2>2. (conf.retry.enabled \/ shouldBufferRequestBody(ChildVendor[c])) \in BOOLEAN
    BY Zenon
  <2>3. src \in {"nil", "replayable"}
    BY <1>5 DEF prepareAggregateRequest, LoopInv, BodyOK
  <2> QED BY <1>3, <2>1, <2>2, <2>3 DEF EnterVendor
<1> QED BY <1>4, <1>5

LEMMA KeptKeeps ==
  ASSUME LoopInv, VerdictInv, KeptOK, [Next]_vars
  PROVE  KeptOK'
<1> SUFFICES ASSUME pc' \in Inside, req'.body = "small", shouldBufferRequestBody(vendor)'
             PROVE  src' = "replayable"
  BY DEF KeptOK, replayable
<1>1. CASE prepareNonAggregateRequest \/ prepareAggregateRequest
  <2>1. PICK allowReplay \in BOOLEAN :
          /\ src' = "replayable" \/ src' = prepareRequestBody(allowReplay)
          /\ shouldBufferRequestBody(vendor') => allowReplay
    BY <1>1, Entries
  <2>2. UNCHANGED <<conf, req>>
    BY <1>1, Entries
  <2>3. shouldBufferRequestBody(vendor')
    BY <2>2 DEF shouldBufferRequestBody
  <2> QED BY <2>1, <2>2, <2>3 DEF prepareRequestBody
<1>2. CASE newAttempt
  <2>1. UNCHANGED <<conf, req, vendor>> /\ pc = "attempt"
    BY <1>2 DEF newAttempt
  <2>2. src' = IF src = "single" THEN "used" ELSE src
    BY <1>2, newAttemptCases, EndsDone DEF Send, Inside, Begun
  <2> QED BY <2>1, <2>2 DEF KeptOK, replayable, shouldBufferRequestBody, Inside
<1>3. CASE ~prepareNonAggregateRequest /\ ~prepareAggregateRequest /\ ~newAttempt
  <2>1. UNCHANGED <<conf, req, src, vendor>> /\ pc \in Inside
    BY <1>3, PlainStep
  <2> QED BY <2>1 DEF KeptOK, replayable, shouldBufferRequestBody
<1> QED BY <1>1, <1>2, <1>3

LEMMA DecidedKeeps ==
  ASSUME LoopInv, VerdictInv, DecidedOK, [Next]_vars
  PROVE  DecidedOK'
<1> SUFFICES ASSUME pc' = "retryKey"
             PROVE  reply'.decision.failover =
                      IF reply'.kind = "error" THEN "request_error" \in conf'.policy[vendor'].failsOver
                      ELSE shouldFailoverResponse(reply'.resp.code, conf'.policy[vendor'])
  BY DEF DecidedOK, failed, shouldFailoverResponse
<1>1. ~prepareNonAggregateRequest /\ ~prepareAggregateRequest /\ ~newAttempt
  <2>1. prepareNonAggregateRequest \/ prepareAggregateRequest => pc' = "attempt"
    BY Entries DEF Inside, Begun
  <2>2. newAttempt => pc' # "retryKey"
    BY EndsDone DEF newAttempt, Send
  <2> QED BY <2>1, <2>2
<1>2. UNCHANGED <<conf, vendor>>
  BY <1>1, PlainStep DEF Inside, Begun
<1>3. CASE pc = "retryKey" /\ UNCHANGED reply
  BY <1>2, <1>3 DEF DecidedOK, failed
<1>4. CASE UpstreamAnswers
  <2>1. CASE reply' = [kind |-> "error", decision |-> classifyRequestError(conf.policy[vendor])]
    <3>1. reply'.kind = "error" /\ reply'.decision = classifyRequestError(conf.policy[vendor])
      BY <2>1
    <3> QED BY <1>2, <3>1, DecisionFailover
  <2>2. ASSUME NEW resp,
               reply' = [kind |-> "response", resp |-> resp,
                         decision |-> analyzeErrorResponse(conf.openai, conf.policy[vendor], resp)]
        PROVE  reply'.decision.failover =
                 IF reply'.kind = "error" THEN "request_error" \in conf'.policy[vendor'].failsOver
                 ELSE shouldFailoverResponse(reply'.resp.code, conf'.policy[vendor'])
    <3>1. /\ reply'.kind = "response" /\ reply'.resp = resp
          /\ reply'.decision = analyzeErrorResponse(conf.openai, conf.policy[vendor], resp)
      BY <2>2
    <3> QED BY <1>2, <3>1, DecisionFailover
  <2>3. \/ reply' = [kind |-> "error", decision |-> classifyRequestError(conf.policy[vendor])]
        \/ \E resp \in Responses :
             reply' = [kind |-> "response", resp |-> resp,
                       decision |-> analyzeErrorResponse(conf.openai, conf.policy[vendor], resp)]
    BY <1>4, EndsDone DEF UpstreamAnswers, requestBodyReadError, isCanceledUpstreamError,
       doUpstreamRequestFails, Respond, captureResponsePreviewFails
  <2> QED BY <2>1, <2>2, <2>3
<1> QED BY <1>1, <1>3, <1>4, PlainStep

LEMMA PromiseKeeps ==
  ASSUME LoopInv, VerdictInv, losses \in Nat, PromiseOK, [Next]_vars
  PROVE  PromiseOK'
<1> SUFFICES ASSUME losses' = 0, log' # <<>>
             PROVE  /\ pc' = "attempt" => Targets' # {}
                    /\ pc' = "pick" => Candidates(exclude)' # {}
  BY DEF PromiseOK
<1>1. losses = 0
  BY LossesGrow
<1>2. CASE prepareNonAggregateRequest
  <2>1. log' = <<>>
    BY <1>2 DEF prepareNonAggregateRequest, VerdictInv, CurrentOK
  <2> QED BY <2>1
<1>3. CASE prepareAggregateRequest
  <2>1. pc' # "pick"
    BY <1>3, EndsDone DEF prepareAggregateRequest, bodyNotRead, EnterVendor
  <2>2. ASSUME pc' = "attempt" PROVE Targets' # {}
    <3>1. /\ UNCHANGED <<usable, tried>> /\ child' \in Candidates(exclude)
          /\ vendor' = ChildVendor[child']
      BY <1>3, <2>2, Entries DEF Inside
    <3>2. aggregateChildAvailableForExecution(child')
      BY <3>1 DEF Candidates
    <3>3. CASE vendor' \in Managed
      <4>1. Available(vendor', allowed(vendor', child')) # {}
        BY <3>1, <3>2, <3>3 DEF aggregateChildAvailableForExecution, hasAvailableKey
      <4> QED BY <3>1, <3>3, <4>1 DEF Targets, Available, allowed
    <3>4. CASE vendor' \notin Managed
      BY <3>4 DEF Targets
    <3> QED BY <3>3, <3>4
  <2> QED BY <2>1, <2>2
<1>4. CASE newAttempt
  BY <1>4, EndsDone DEF newAttempt, Send
<1>5. CASE ~prepareNonAggregateRequest /\ ~prepareAggregateRequest /\ ~newAttempt
  <2>1. log # <<>>
    BY <1>5, PlainStep
  <2>2. CASE Outside
    <3>1. UNCHANGED <<pc, tried, vendor, child, exclude>>
      BY <2>2, OutsideQuiet DEF LoopInv, loopVars
    <3>2. usable \subseteq usable'
      BY <2>2, LossesGrow
    <3> QED BY <1>1, <2>1, <3>1, <3>2, MoreUsable DEF PromiseOK
  <2>3. CASE RetryKey
    <3>1. UNCHANGED <<tried, vendor, child, usable, exclude>> /\ pc' # "pick"
      BY <2>3 DEF RetryKey, loopVars, envVars
    <3>2. pc' = "attempt" => Targets # {}
      BY <2>3 DEF RetryKey, hasAvailableKey, Targets
    <3> QED BY <3>1, <3>2, MoreUsable
  <2>4. CASE RetryChild
    <3>1. /\ UNCHANGED <<tried, usable>> /\ exclude' = exclude \cup {child} /\ pc' = "pick"
          /\ Candidates(exclude \cup {child}) # {}
      BY <2>4 DEF RetryChild, shouldRetryAggregate, envVars
    <3>2. \A c : aggregateChildAvailableForExecution(c) => aggregateChildAvailableForExecution(c)'
      BY <3>1 DEF aggregateChildAvailableForExecution, hasAvailableKey, Available, allowed
    <3> QED BY <3>1, <3>2, BestChild
  <2>5. CASE authorizeAggregate
    BY <2>1, <2>5 DEF authorizeAggregate, VerdictInv, CurrentOK
  <2> QED BY <1>5, <2>2, <2>3, <2>4, <2>5, PlainStep
<1> QED BY <1>2, <1>3, <1>4, <1>5

LEMMA ShortageKeeps ==
  ASSUME LoopInv, VerdictInv, AnswerInv, RetryInv, [Next]_vars
  PROVE  ShortageOK'
<1> DEFINE short == {"noKey", "noChild"}
<1> SUFFICES ASSUME losses' = 0, log' # <<>>, NEW i \in DOMAIN wire'
             PROVE  wire'[i].kind \notin short
  BY DEF ShortageOK
<1>1. losses = 0 /\ wire \in Seq(Block)
  BY LossesGrow DEF RetryInv, AnswerInv, AnswerTypes
<1>2. CASE pc = "attempt" /\ log = <<>> /\ newAttempt
  <2>1. \E k \in Targets : Send(k)
    BY <1>2, newAttemptCases
  <2>2. wire' = wire
    BY <2>1 DEF Send
  <2>3. Final(wire) = {}
    BY <1>2 DEF AnswerInv, CommittedOK
  <2> QED BY <2>2, <2>3 DEF Final
<1>3. CASE log # <<>> /\ Spares(short)
  <2>1. \A j \in DOMAIN wire : wire[j].kind \notin short
    BY <1>1, <1>3 DEF RetryInv, ShortageOK
  <2>2. ASSUME NEW a, a.kind \notin short, wire' = Append(wire, a) PROVE wire'[i].kind \notin short
    <3>1. CASE i \in DOMAIN wire
      BY <1>1, <2>1, <2>2, <3>1
    <3>2. CASE i \notin DOMAIN wire
      <4>1. i = Len(wire) + 1
        BY <1>1, <2>2, <3>2
      <4>2. wire'[i] = a
        BY <1>1, <2>2, <4>1
      <4> QED BY <2>2, <4>2
    <3> QED BY <3>1, <3>2
  <2> QED BY <1>3, <2>1, <2>2 DEF Spares
<1>4. CASE prepareNonAggregateRequest
  BY <1>4 DEF prepareNonAggregateRequest, VerdictInv, CurrentOK
<1>5. CASE prepareAggregateRequest
  <2>1. log # <<>> /\ Candidates(exclude) # {}
    BY <1>1, <1>5 DEF prepareAggregateRequest, RetryInv, PromiseOK
  <2>2. EndSilently \/ bodyNotRead \/ UNCHANGED wire
    BY <1>5, <2>1 DEF prepareAggregateRequest
  <2>3. "badBody" \notin short
    OBVIOUS
  <2>4. Spares(short)
    BY <2>2, <2>3, EndsSpare DEF bodyNotRead, Spares
  <2> QED BY <1>3, <2>1, <2>4
<1>6. CASE newAttempt /\ log # <<>>
  <2>1. Targets # {}
    BY <1>1, <1>6 DEF newAttempt, RetryInv, PromiseOK
  <2>2. UNCHANGED wire
    BY <1>6, <2>1, newAttemptCases DEF Send
  <2> QED BY <1>3, <1>6, <2>2 DEF Spares
<1>7. CASE ~prepareNonAggregateRequest /\ ~prepareAggregateRequest /\ ~newAttempt
  <2>1. log # <<>>
    BY <1>7, PlainStep
  <2>2. CASE Outside
    <3>1. Synthetic("processing").kind \notin short
      BY DEF Synthetic
    <3>2. Spares(short)
      BY <2>2, <3>1 DEF Outside, Fire, tick, KeyLost, KeyBack, ClientLeaves, vars, Spares
    <3> QED BY <1>3, <2>1, <3>2
  <2>3. CASE Handler \/ copyChunk
    <3>1. short \in SUBSET {"processing", "noKey", "noChild"}
      OBVIOUS
    <3>2. Spares(short)
      BY <1>7, <2>3, <3>1, HandlerSpares
    <3> QED BY <1>3, <2>1, <3>2
  <2> QED BY <2>2, <2>3 DEF Next, Outside
<1>8. newAttempt => pc = "attempt"
  BY DEF newAttempt
<1> QED BY <1>2, <1>4, <1>5, <1>6, <1>7, <1>8

LEMMA RetryInductive ==
  /\ Init => RetryInv
  /\ RequestInv /\ RetryInv /\ [Next]_vars => RetryInv'
<1>1. Init => RetryInv
  BY DEF Init, RetryInv, KeptOK, DecidedOK, PromiseOK, ShortageOK, Inside, Begun
<1>2. RequestInv /\ RetryInv /\ [Next]_vars => RetryInv'
  BY LossesGrow, KeptKeeps, DecidedKeeps, PromiseKeeps, ShortageKeeps
     DEF RetryInv, RequestInv, ExecutionInv
<1> QED BY <1>1, <1>2

\* A failover that policy and method allow finds its body
\* (shouldBufferRequestBody), and a retry finds its child and its key unless
\* somebody else takes a key away in between.
THEOREM PromiseCorrect == Spec => []PromisedRetryHappens
<1>1. RequestInv /\ RetryInv => PromisedRetryHappens
  <2> SUFFICES ASSUME LoopInv, VerdictInv, AnswerInv, RetryInv PROVE PromisedRetryHappens
    BY DEF RequestInv, ExecutionInv
  <2>1. ASSUME pc = "retryKey", req.body = "small", vendor \in Managed,
               Cardinality(VendorKeys[vendor]) >= 2, shouldRetryDecision(reply.decision),
               req.safe \/ (~failed /\ reply.resp.code \in UnsafeRetryable)
        PROVE  replayable
    <3> DEFINE policy == conf.policy[vendor]
    <3>1. /\ failed => "request_error" \in policy.failsOver
          /\ ~failed => shouldFailoverResponse(reply.resp.code, policy)
      BY <2>1 DEF RetryInv, DecidedOK, shouldRetryDecision
    <3>2. "other" \notin policy.failsOver
      BY <2>1, LimitConstants DEF LoopInv, LoopTypes, Inside, Begun
    <3>3. CASE ~req.safe
      BY <2>1, <3>1, <3>3 DEF shouldBufferRequestBody, RetryInv, KeptOK, Inside, Begun
    <3>4. CASE req.safe
      <4>1. ASSUME ~failed, policy.failoverCodes = {}
            PROVE  reply.resp.code \in UnsafeRetryable \cup ServerErrors
        BY <3>1, <3>2, <4>1 DEF shouldFailoverResponse, StatusClass, UnsafeRetryable
      <4>2. shouldBufferRequestBody(vendor)
        BY <2>1, <3>1, <3>4, <4>1 DEF shouldBufferRequestBody
      <4> QED BY <2>1, <4>2 DEF RetryInv, KeptOK, Inside, Begun
    <3> QED BY <3>3, <3>4
  <2>2. \A i \in DOMAIN wire : wire[i].kind # "unreplayable"
    <3>1. \A i \in DOMAIN wire : wire[i] \in Block
      BY DEF AnswerInv, AnswerTypes
    <3>2. \A i \in DOMAIN wire : wire[i].kind \in Kinds
      BY <3>1 DEF Block
    <3> QED BY <3>2 DEF Kinds
  <2>3. losses = 0 /\ log # <<>> => \A i \in DOMAIN wire : wire[i].kind \notin {"noKey", "noChild"}
    BY DEF RetryInv, ShortageOK
  <2> QED BY <2>1, <2>2, <2>3 DEF PromisedRetryHappens
<1> QED BY <1>1, RequestInductive, RetryInductive, PTL DEF Spec

-----------------------------------------------------------------------------
(***************************************************************************)
(* One attempt from within: the two timers that race with it               *)
(* (AttemptTimers), for every timeout.  The upload deadline leaves a       *)
(* finished upload alone and names the party it waited for, and the idle   *)
(* timer implements a deadline per Read.                                   *)
(***************************************************************************)

\* The upload half.  Whoever stops the deadline, or lets it expire, leaves done
\* set; the first cancellation of the context is the one that counts.
StoppedOK == (send = "acked" \/ call \in {"stopped", "returned"}) => done
CaughtOK == caught # "none" => cause = caught /\ caught \in {"client", "upstream"}
UploadInv == StoppedOK /\ CaughtOK /\ VerdictNamesWaiter

\* The body half: the deadline of a Read is never in excess of the timeout; a
\* timeout closes the body, only a Read in progress is waited for, and a body
\* that has returned has returned something.
LeftOK == left \in 0..Timeout
FlagsOK ==
  /\ closed \in BOOLEAN /\ timedOut \in BOOLEAN /\ reading \in BOOLEAN
  /\ timedOut => closed
  /\ reading => read # "outside"
  /\ read = "after" => got \in {"data", "eof", "error"}
BodyInv == LeftOK /\ FlagsOK

-----------------------------------------------------------------------------
\* The upload invariant holds initially and is kept by every step.
LEMMA UploadInvInductive ==
  /\ TimersInit => UploadInv
  /\ UploadInv /\ [TimersNext]_timersVars => UploadInv'
<1>1. TimersInit => UploadInv
  BY DEF TimersInit, UploadInv, StoppedOK, CaughtOK, VerdictNamesWaiter
<1>2. SUFFICES ASSUME UploadInv, [TimersNext]_timersVars PROVE UploadInv'
  BY <1>1
<1> USE DEF UploadInv, StoppedOK, CaughtOK, VerdictNamesWaiter, uploadVars, bodyVars
<1>3. CASE ReadChunk \/ ChunkRead \/ WroteRequest \/ UploadTimerFires \/ ForceRead
  BY <1>2, <1>3 DEF ReadChunk, ChunkRead, WroteRequest, Stop, UploadTimerFires, ForceRead
<1>4. CASE Expire
  BY <1>2, <1>4 DEF Expire, Cancelled
<1>5. CASE ClientCancelled
  BY <1>2, <1>5 DEF ClientCancelled, Cancelled
<1>6. CASE \E r \in {"response", "client", "transport"} : DoReturns(r)
  BY <1>2, <1>6 DEF DoReturns
<1>7. CASE DoStops
  BY <1>2, <1>7 DEF DoStops, Stop
<1>8. CASE DoReturned
  BY <1>2, <1>8 DEF DoReturned, Cancelled
<1>9. CASE EndRead \/ CloseBody \/ ExpireCloses
  BY <1>2, <1>9 DEF EndRead, CloseBody, ExpireCloses, Cancelled
<1>10. CASE BeginRead \/ RefuseRead \/ (\E g \in {"data", "eof", "error"} : BodyReturns(g))
            \/ Tick \/ TimerFires \/ ExpireBody
  BY <1>2, <1>10 DEF BeginRead, RefuseRead, BodyReturns, Tick, TimerFires, ExpireBody
<1>11. CASE UNCHANGED timersVars
  BY <1>2, <1>11 DEF timersVars
<1> QED BY <1>2, <1>3, <1>4, <1>5, <1>6, <1>7, <1>8, <1>9, <1>10, <1>11 DEF TimersNext

\* doUpstreamRequest names the party the upload deadline caught waiting.
THEOREM TimeoutVerdictCorrect == TimersSpec => []VerdictNamesWaiter
<1>1. UploadInv => VerdictNamesWaiter
  BY DEF UploadInv
<1> QED BY <1>1, UploadInvInductive, PTL DEF TimersSpec

\* The upload deadline never cancels a request whose upload is written.
THEOREM UploadedCorrect == TimersSpec => UploadedNotCancelled
<1>1. ASSUME UploadInv, [TimersNext]_timersVars
      PROVE  [send = "acked" /\ cause' # cause => cause' \in {"parent", "nil"}]_timersVars
  <2> SUFFICES ASSUME TimersNext, send = "acked", cause' # cause
               PROVE  cause' \in {"parent", "nil"}
    BY <1>1 DEF timersVars
  <2> USE DEF uploadVars, bodyVars
  <2>1. done
    BY <1>1 DEF UploadInv, StoppedOK
  <2>2. CASE Expire
    BY <2>1, <2>2 DEF Expire
  <2>3. CASE ClientCancelled \/ DoReturned \/ EndRead \/ CloseBody \/ ExpireCloses
    BY <2>3 DEF ClientCancelled, DoReturned, EndRead, CloseBody, ExpireCloses, Cancelled
  <2>4. CASE ReadChunk \/ ChunkRead \/ WroteRequest \/ UploadTimerFires \/ ForceRead
             \/ (\E r \in {"response", "client", "transport"} : DoReturns(r)) \/ DoStops
    BY <2>4 DEF ReadChunk, ChunkRead, WroteRequest, UploadTimerFires, ForceRead, DoReturns, DoStops
  <2>5. CASE BeginRead \/ RefuseRead \/ (\E g \in {"data", "eof", "error"} : BodyReturns(g))
             \/ Tick \/ TimerFires \/ ExpireBody
    BY <2>5 DEF BeginRead, RefuseRead, BodyReturns, Tick, TimerFires, ExpireBody
  <2> QED BY <2>2, <2>3, <2>4, <2>5 DEF TimersNext
<1> QED BY <1>1, UploadInvInductive, PTL DEF TimersSpec, UploadedNotCancelled

-----------------------------------------------------------------------------
\* Only a new Read and the clock change what is left to a Read.
LEMMA LeftInductive ==
  /\ TimersInit => LeftOK
  /\ LeftOK /\ [TimersNext]_timersVars => LeftOK'
<1>1. TimersInit => LeftOK
  BY TimersAssumption DEF TimersInit, LeftOK
<1>2. SUFFICES ASSUME LeftOK, [TimersNext]_timersVars PROVE LeftOK'
  BY <1>1
<1> USE TimersAssumption DEF LeftOK, bodyVars
<1>3. CASE BeginRead \/ Tick
  BY <1>2, <1>3 DEF BeginRead, Tick
<1>4. CASE ~(BeginRead \/ Tick)
  BY <1>2, <1>4 DEF timersVars, TimersNext, ReadChunk, ChunkRead, WroteRequest, UploadTimerFires, Expire,
     ForceRead, ClientCancelled, DoReturns, DoStops, DoReturned, RefuseRead, EndRead, CloseBody,
     ExpireCloses, BodyReturns, TimerFires, ExpireBody
<1> QED BY <1>3, <1>4

\* The flags of the body are kept consistent by every step.
LEMMA FlagsInductive ==
  /\ TimersInit => FlagsOK
  /\ FlagsOK /\ [TimersNext]_timersVars => FlagsOK'
<1>1. TimersInit => FlagsOK
  BY DEF TimersInit, FlagsOK
<1>2. SUFFICES ASSUME FlagsOK, [TimersNext]_timersVars PROVE FlagsOK'
  BY <1>1
<1> USE DEF FlagsOK, bodyVars
<1>3. CASE ReadChunk \/ ChunkRead \/ WroteRequest \/ UploadTimerFires \/ Expire \/ ForceRead
           \/ ClientCancelled
  BY <1>2, <1>3 DEF ReadChunk, ChunkRead, WroteRequest, UploadTimerFires, Expire, ForceRead,
                    ClientCancelled
<1>4. CASE (\E r \in {"response", "client", "transport"} : DoReturns(r)) \/ DoStops \/ DoReturned
  BY <1>2, <1>4 DEF DoReturns, DoStops, DoReturned
<1>5. CASE BeginRead
  BY <1>2, <1>5 DEF BeginRead
<1>6. CASE RefuseRead
  BY <1>2, <1>6 DEF RefuseRead
<1>7. CASE EndRead
  BY <1>2, <1>7 DEF EndRead
<1>8. CASE CloseBody
  BY <1>2, <1>8 DEF CloseBody
<1>9. CASE ExpireCloses
  BY <1>2, <1>9 DEF ExpireCloses
<1>10. CASE \E g \in {"data", "eof", "error"} : BodyReturns(g)
  BY <1>2, <1>10 DEF BodyReturns
<1>11. CASE Tick \/ TimerFires
  BY <1>2, <1>11 DEF Tick, TimerFires
<1>12. CASE ExpireBody
  <2>1. /\ reading' = reading /\ read' = read /\ got' = got
        /\ \/ timedOut' = timedOut /\ closed' = closed
           \/ timedOut' = TRUE /\ closed' = TRUE
    BY <1>12 DEF ExpireBody
  <2>2. CASE timedOut' = timedOut /\ closed' = closed
    BY <1>2, <2>1, <2>2
  <2>3. CASE timedOut' = TRUE /\ closed' = TRUE
    BY <1>2, <2>1, <2>3, Zenon
  <2> QED BY <2>1, <2>2, <2>3
<1>13. CASE UNCHANGED timersVars
  BY <1>2, <1>13 DEF timersVars
<1> QED BY <1>2, <1>3, <1>4, <1>5, <1>6, <1>7, <1>8, <1>9, <1>10, <1>11, <1>12, <1>13 DEF TimersNext

\* Every step of the attempt is a step of ReadDeadline or leaves it alone.
LEMMA BodyStepRefines ==
  ASSUME BodyInv, [TimersNext]_timersVars
  PROVE  [Deadline!Next]_(Deadline!vars)
<1> USE TimersAssumption DEF BodyInv, LeftOK, FlagsOK, Deadline!vars
<1>1. CASE ReadChunk \/ ChunkRead \/ WroteRequest \/ UploadTimerFires \/ Expire \/ ForceRead
           \/ ClientCancelled
  BY <1>1 DEF bodyVars, ReadChunk, ChunkRead, WroteRequest, UploadTimerFires, Expire, ForceRead,
              ClientCancelled
<1>2. CASE (\E r \in {"response", "client", "transport"} : DoReturns(r)) \/ DoStops \/ DoReturned
  BY <1>2 DEF bodyVars, DoReturns, DoStops, DoReturned
<1>3. CASE BeginRead
  <2>1. Deadline!Begin
    BY <1>3 DEF BeginRead, Deadline!Begin
  <2> QED BY <2>1 DEF Deadline!Next
<1>4. CASE RefuseRead
  <2>1. Deadline!Refuse
    BY <1>4 DEF RefuseRead, Deadline!Refuse, Deadline!Reported
  <2> QED BY <2>1 DEF Deadline!Next
<1>5. CASE EndRead
  <2>1. Deadline!Return(got)
    BY <1>5 DEF EndRead, Deadline!Return, Deadline!Reported
  <2>2. got \in {"data", "eof", "error"}
    BY <1>5 DEF EndRead
  <2> QED BY <2>1, <2>2 DEF Deadline!Next
<1>6. CASE CloseBody
  <2>1. CASE closed
    BY <1>6, <2>1 DEF CloseBody
  <2>2. CASE ~closed
    <3>1. Deadline!Close
      BY <1>6, <2>2 DEF CloseBody, Deadline!Close
    <3> QED BY <3>1 DEF Deadline!Next
  <2> QED BY <2>1, <2>2
<1>7. CASE \E g \in {"data", "eof", "error"} : BodyReturns(g)
  BY <1>7 DEF BodyReturns
<1>8. CASE Tick
  <2>1. CASE read = "outside" \/ left = 0
    BY <1>8, <2>1 DEF Tick
  <2>2. CASE read # "outside" /\ left # 0
    <3>1. Deadline!Tick
      BY <1>8, <2>2 DEF Tick, Deadline!Tick
    <3> QED BY <3>1 DEF Deadline!Next
  <2> QED BY <2>1, <2>2
<1>9. CASE TimerFires \/ ExpireCloses
  BY <1>9 DEF TimerFires, ExpireCloses
<1>10. CASE ExpireBody
  <2>1. CASE timedOut' = timedOut /\ closed' = closed
    BY <1>10, <2>1 DEF ExpireBody
  <2>2. CASE ~(timedOut' = timedOut /\ closed' = closed)
    <3>1. Deadline!Expire
      BY <1>10, <2>2 DEF ExpireBody, Deadline!Expire
    <3> QED BY <3>1 DEF Deadline!Next
  <2> QED BY <2>1, <2>2
<1>11. CASE UNCHANGED timersVars
  BY <1>11 DEF timersVars, bodyVars
<1> QED BY <1>1, <1>2, <1>3, <1>4, <1>5, <1>6, <1>7, <1>8, <1>9, <1>10, <1>11 DEF TimersNext

\* The lazily armed idle timer implements a deadline for every Read: a Read
\* expires exactly when it alone has used up its time, and what it then reports
\* is the timeout (idleTimeoutReadCloser).
THEOREM BodyRefinesReadDeadline == TimersSpec => Deadline!SafeSpec
<1>1. TimersInit => Deadline!Init
  BY TimersAssumption DEF TimersInit, Deadline!Init
<1>2. BodyInv /\ [TimersNext]_timersVars => [Deadline!Next]_(Deadline!vars)
  BY BodyStepRefines
<1> QED BY <1>1, <1>2, LeftInductive, FlagsInductive, PTL DEF TimersSpec, BodyInv, Deadline!SafeSpec
=============================================================================
