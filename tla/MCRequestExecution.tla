------------------------- MODULE MCRequestExecution -------------------------
(***************************************************************************)
(* Model-checking instance of RequestExecution: a vendor A with two keys,  *)
(* a passthrough vendor P, and an aggregate that lists A, A restricted to  *)
(* its second key, and P twice.                                            *)
(***************************************************************************)
EXTENDS RequestExecution

MCVendorKeys  == [v \in Vendors |-> IF v = "A" THEN {"a1", "a2"} ELSE {}]
MCChildVendor == [c \in Children |-> IF c \in {"c1", "c2"} THEN "A" ELSE "P"]
MCChildKeys   == [c \in Children |-> IF c = "c2" THEN {"a2"} ELSE AllKeys]
MCPriority    == [c \in Children |-> IF c = "c1" THEN 0 ELSE 1]

Switches == {"request_error", "unauthorized", "payment_required", "forbidden", "rate_limit",
             "server_error"}

\* The defaults of the configuration.
DefaultPolicy ==
  [autoDisable |-> TRUE, disableCodes |-> {401}, keywords |-> {"invalid_api_key", "quota"},
   cools |-> Switches \cup {"slow_down"}, noDefaultBackoff |-> FALSE, coolRules |-> <<>>,
   failsOver |-> Switches, failoverCodes |-> {}, masking |-> TRUE, maskRules |-> <<>>]

\* No backoff, a list of statuses that names 200, masks with a cooldown.
ListPolicy ==
  [DefaultPolicy EXCEPT
     !.noDefaultBackoff = TRUE, !.failoverCodes = {200, 429, 500}, !.autoDisable = FALSE,
     !.maskRules = <<[codes |-> {429, 503}, words |-> {}, cools |-> TRUE],
                     [codes |-> {}, words |-> {"quota"}, cools |-> FALSE]>>]

\* Failover on 402 only, and a response rule.
NarrowPolicy ==
  [DefaultPolicy EXCEPT
     !.failsOver = {"payment_required"}, !.cools = {"rate_limit"},
     !.coolRules = <<[codes |-> {400}, words |-> {"quota"}]>>]

Retry == [enabled |-> TRUE, max |-> 3, rateLimit |-> TRUE, serverError |-> TRUE,
          networkError |-> TRUE, codes |-> {402}]

Config(policy, failoverMax, budget, interim, retry) ==
  [policy |-> [v \in Vendors |-> policy], openai |-> TRUE,
   failoverMax |-> [v \in Vendors |-> failoverMax],
   budget |-> [r \in Vendors \cup {Aggregate} |-> budget],
   interim |-> interim, retry |-> retry]

MCConfigs ==
  {Config(DefaultPolicy, 2, 2, {"A"}, Retry),
   Config(DefaultPolicy, 1, 3, {}, Retry),
   Config(ListPolicy, 2, 3, {}, [Retry EXCEPT !.max = 2]),
   Config(ListPolicy, 2, 1, {}, Retry),
   Config(NarrowPolicy, 2, 3, {}, [Retry EXCEPT !.enabled = FALSE])}

MCResponses ==
  {Response(200, {}, "none"), Response(402, {}, "invalid_api_key"),
   Response(429, {}, "none"), Response(500, {"slow down"}, "none"), Response(400, {"quota"}, "none")}
=============================================================================
