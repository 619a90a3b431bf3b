---------------------------- MODULE MCCloudPath ----------------------------
(* The instances of CloudPath and LlmRouter that TLC checks.                *)
EXTENDS CloudPath

CONSTANTS free, paid

OneFree == <<free>>
OnePaid == <<paid>>

Deployment == [mode |-> "auto-free", pinned |-> None, allowPaid |-> TRUE,
               strict |-> FALSE, demanding |-> FALSE, recovery |-> FALSE,
               escalation |-> FALSE]

(* A chain of two providers; one that a service must not depend on, backed  *)
(* by the gateway; and strict privacy, which leaves nobody to ask.          *)
Deployments ==
  {Deployment,
   [Deployment EXCEPT !.mode = "pinned", !.pinned = free, !.demanding = TRUE,
                      !.recovery = TRUE, !.escalation = TRUE],
   [Deployment EXCEPT !.mode = "reliable", !.strict = TRUE, !.demanding = TRUE]}

(* The paid provider never refuses its key nor runs out of quota.           *)
Failures == [id \in Providers |-> IF id = free THEN FailureKind ELSE {"ordinary"}]

Delays == <<0, 1>>

============================================================================
