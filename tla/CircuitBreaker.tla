--------------------------- MODULE CircuitBreaker ---------------------------
(***************************************************************************)
(* class CircuitBreaker of src/src/providers/llm/circuit-breaker.ts, one   *)
(* per LLM provider.                                                       *)
(*                                                                         *)
(* Time is relative: cooling is what is left until openUntil (0 when it is *)
(* past or undefined), and backoff is the cooldown of the last opening, so *)
(* that doubling it stands for counting `opens`.                           *)
(***************************************************************************)
EXTENDS Naturals

CONSTANTS
  Threshold,               \* consecutive failures before the circuit opens
  BaseCooldown,
  MaxCooldown,
  PermanentConfirmations,
  PermanentProbe           \* permanentProbeMs

ASSUME BreakerAssumption ==
  /\ Threshold \in Nat \ {0}
  /\ BaseCooldown \in Nat \ {0}
  /\ MaxCooldown \in Nat \ {0}
  /\ PermanentConfirmations \in Nat \ {0}
  /\ PermanentProbe \in Nat \ {0}

Least(a, b) == IF a <= b THEN a ELSE b
Greatest(a, b) == IF a >= b THEN a ELSE b

(* fails stops counting at Threshold: it is only compared with it. *)
Breaker == [fails     : 0 .. Threshold,
            backoff   : 0 .. MaxCooldown,
            cooling   : Nat,
            signals   : 0 .. PermanentConfirmations,
            permanent : BOOLEAN]

NewBreaker ==
  [fails |-> 0, backoff |-> 0, cooling |-> 0, signals |-> 0, permanent |-> FALSE]

FailureKind == {"auth", "quota_exhausted", "rate_limited", "ordinary"}

----------------------------------------------------------------------------
CanAttemptUntilFirstFailure(b) ==   \* mutant of CanAttempt: no probe
  ~b.permanent /\ b.cooling = 0 /\ b.fails < Threshold

CanAttempt(b) == ~b.permanent /\ b.cooling = 0

RecordSuccess(b) ==
  [b EXCEPT !.fails = 0, !.backoff = 0, !.cooling = 0, !.signals = 0]

(* An authentication failure, or a missing model.                          *)
PermanentFailure(b) ==
  LET signals == b.signals + 1 IN
  IF signals >= PermanentConfirmations
  THEN [b EXCEPT !.signals = PermanentConfirmations, !.permanent = TRUE, !.cooling = 0]
  ELSE [b EXCEPT !.signals = signals, !.cooling = PermanentProbe]

NextBackoff(b) ==
  IF b.backoff = 0 THEN Least(BaseCooldown, MaxCooldown)
  ELSE Least(2 * b.backoff, MaxCooldown)

(* Only an exhausted quota opens the circuit at once. *)
TransientFailure(b, kind, retryAfter) ==
  IF kind = "quota_exhausted" \/ b.fails >= Threshold
  THEN [b EXCEPT !.backoff = NextBackoff(b),
                 !.cooling = Greatest(NextBackoff(b), retryAfter)]
  ELSE b

RecordFailure(b, kind, retryAfter) ==
  LET counted == [b EXCEPT !.fails = Least(@ + 1, Threshold)] IN
  IF kind = "auth" THEN PermanentFailure(counted)
  ELSE TransientFailure(counted, kind, retryAfter)

Cooled(b) == [b EXCEPT !.cooling = IF @ = 0 THEN 0 ELSE @ - 1]

============================================================================
