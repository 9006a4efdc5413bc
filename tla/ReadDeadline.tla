---------------------------- MODULE ReadDeadline ----------------------------
(***************************************************************************)
(* What internal/gateway/body_timeout.go promises: every Read of an        *)
(* upstream body has a deadline of its own.  Only the time spent inside    *)
(* that Read counts.  A Read that has used up its time makes the body      *)
(* expire, from then on every Read reports the timeout and never an end of *)
(* the body, and no Read blocks for ever.                                  *)
(***************************************************************************)
EXTENDS Naturals

CONSTANT Timeout \* body_timeout, in ticks

VARIABLES
  busy,  \* a Read is in progress
  age,   \* for how long, up to Timeout
  state, \* the body is open, closed by its user, or expired
  out    \* what the last Read reported

vars == <<busy, age, state, out>>

Init == /\ busy = FALSE /\ age = 0 /\ state = "open" /\ out = "none"

\* What a Read reports for what it got from the network.
Reported(got) == IF state = "expired" THEN "timeout" ELSE got

Begin ==
  /\ ~busy /\ state = "open"
  /\ busy' = TRUE /\ age' = 0
  /\ UNCHANGED <<state, out>>

Tick ==
  /\ busy /\ age < Timeout
  /\ age' = age + 1
  /\ UNCHANGED <<busy, state, out>>

Expire ==
  /\ busy /\ state = "open" /\ age = Timeout
  /\ state' = "expired"
  /\ UNCHANGED <<busy, age, out>>

\* The Read returns; the end of the body also closes it.
Return(got) ==
  /\ busy
  /\ busy' = FALSE /\ age' = 0
  /\ out' = Reported(got)
  /\ state' = IF state = "open" /\ got = "eof" THEN "closed" ELSE state

\* A Read of a body that is closed or expired reports that at once.
Refuse ==
  /\ ~busy /\ state # "open"
  /\ out' = Reported("error")
  /\ UNCHANGED <<busy, age, state>>

Close ==
  /\ state = "open" /\ state' = "closed"
  /\ UNCHANGED <<busy, age, out>>

Next ==
  \/ Begin \/ Tick \/ Expire \/ Refuse \/ Close
  \/ \E got \in {"data", "eof", "error"} : Return(got)

SafeSpec == Init /\ [][Next]_vars

\* Time passes, a Read out of time expires, and a body no longer open does not
\* keep its Read.
Fairness ==
  /\ WF_vars(Tick)
  /\ WF_vars(Expire)
  /\ WF_vars(state # "open" /\ \E got \in {"data", "eof", "error"} : Return(got))

Spec == SafeSpec /\ Fairness
=============================================================================
