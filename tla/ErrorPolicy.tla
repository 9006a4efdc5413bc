---------------------------- MODULE ErrorPolicy ----------------------------
(***************************************************************************)
(* What a vendor's error_policy makes of an upstream failure: the verdict  *)
(* on the key, whether another key may be tried, and the mask the client   *)
(* sees instead (internal/gateway/key_policy.go, error_masking.go).        *)
(*                                                                         *)
(* A policy is a record                                                    *)
(*   autoDisable, disableCodes, keywords    auto_disable                   *)
(*   cools, noDefaultBackoff, coolRules     cooldown; cools names the      *)
(*                                          enabled rules                  *)
(*   failsOver, failoverCodes               failover; failsOver names the  *)
(*                                          enabled switches               *)
(*   masking, maskRules                     masking                        *)
(* Durations are abstracted away: a cooldown makes a key unusable.         *)
(***************************************************************************)
EXTENDS Integers, Sequences

CredentialWords == {"invalid_api_key", "incorrect_api_key"}

\* What the gateway sees of a response: its status, the words of the previewed
\* body that a keyword can match, and the credential code of its error envelope.
Response(code, body, credential) == [code |-> code, body |-> body, credential |-> credential]

\* Without a preview neither words nor codes can match.
NoPreview(resp) == Response(resp.code, {}, "none")

ServerErrors == {500, 502, 503, 504, 529}

\* The name under which the policy configures a status, or "other".
StatusClass(code) ==
  CASE code = 401 -> "unauthorized"
    [] code = 402 -> "payment_required"
    [] code = 403 -> "forbidden"
    [] code = 429 -> "rate_limit"
    [] code \in ServerErrors -> "server_error"
    [] OTHER -> "other"

\* Statuses with which an upstream rejects a request without processing it.
UnsafeRetryable == {401, 402, 403, 429}

isRetryableStatusForUnsafeMethod(code) == code \in UnsafeRetryable

-----------------------------------------------------------------------------
\* A response rule and a masking rule match alike: the first one wins.
RuleMatches(rule, code, words) ==
  /\ rule.codes = {} \/ code \in rule.codes
  /\ rule.words = {} \/ rule.words \cap words # {}
  /\ rule.codes # {} \/ rule.words # {}

Matching(rules, code, words) == {i \in DOMAIN rules : RuleMatches(rules[i], code, words)}

FirstMatch(rules, code, words) ==
  rules[CHOOSE i \in Matching(rules, code, words) :
          \A j \in Matching(rules, code, words) : i <= j]

\* A list of status codes replaces the switches.
shouldFailoverResponse(code, policy) ==
  IF policy.failoverCodes # {} THEN code \in policy.failoverCodes
                               ELSE StatusClass(code) \in policy.failsOver

\* A credential word counts only as the code of the error envelope.
classifyAutoDisable(policy, resp) ==
  /\ policy.autoDisable
  /\ \/ resp.code \in policy.disableCodes
     \/ \E w \in policy.keywords :
          IF w \in CredentialWords THEN w = resp.credential ELSE w \in resp.body

Decision(action, failover) == [action |-> action, failover |-> failover]

cooldownDecision(policy, class, failover) ==
  Decision(IF class \in policy.cools /\ ~policy.noDefaultBackoff THEN "cooldown" ELSE "observe",
           failover)

CooldownClass(openai, resp) ==
  IF resp.code \in ServerErrors /\ openai /\ "slow down" \in resp.body
    THEN "slow_down" ELSE StatusClass(resp.code)

classifyErrorResponse(openai, policy, resp) ==
  LET failover == shouldFailoverResponse(resp.code, policy)
  IN  IF classifyAutoDisable(policy, resp) THEN Decision("disable", failover)
      ELSE IF Matching(policy.coolRules, resp.code, resp.body) # {}
        THEN Decision("cooldown", failover)
      ELSE IF StatusClass(resp.code) = "other" THEN Decision("observe", failover)
      ELSE cooldownDecision(policy, CooldownClass(openai, resp), failover)

classifyRequestError(policy) ==
  cooldownDecision(policy, "request_error", "request_error" \in policy.failsOver)

-----------------------------------------------------------------------------
Masked(policy, code, words) ==
  policy.masking /\ Matching(policy.maskRules, code, words) # {}

\* A masking rule may turn the verdict into a cooldown, never a disable into less.
extendDecisionCooldown(decision, rule) ==
  IF rule.cools /\ decision.action # "disable"
    THEN [decision EXCEPT !.action = "cooldown"] ELSE decision

analyzeErrorResponse(openai, policy, resp) ==
  LET decision == classifyErrorResponse(openai, policy, resp)
  IN  IF Masked(policy, resp.code, resp.body)
        THEN extendDecisionCooldown(decision, FirstMatch(policy.maskRules, resp.code, resp.body))
        ELSE decision

shouldRetryDecision(decision) ==
  decision.failover /\ decision.action \in {"cooldown", "disable", "observe"}
=============================================================================
