------------------------------ MODULE CloudPath ------------------------------
(***************************************************************************)
(* One Korean turn's way to English and back: createCloudLane of           *)
(* src/src/features/live/cloud-lane.ts in the browser, the network, and    *)
(* the server of module LlmRouter.                                         *)
(*                                                                         *)
(* The engine has one live call at a time; a call it has aborted may still *)
(* be waiting for the fast lane when the next one starts.                  *)
(***************************************************************************)
EXTENDS LlmRouter

CONSTANTS
  Calls,
  RetryDelays,       \* INTERPRET_RETRY_DELAYS_MS
  LaneBudget,        \* clientTurnBudgetMs
  MinRetry,          \* MIN_USEFUL_RETRY_MS
  MaxRetryAfter,     \* the longest Retry-After that is slept through
  RateLimitBypass,   \* TEMPORARY_RATE_LIMIT_BYPASS_MS
  QuotaBypass        \* SESSION_QUOTA_BYPASS_MS

ASSUME LaneAssumption ==
  /\ LaneBudget \in Nat \ {0}
  /\ MinRetry \in Nat
  /\ MaxRetryAfter \in Nat
  /\ RateLimitBypass \in Nat
  /\ QuotaBypass \in Nat
  /\ RetryDelays \in Seq(Nat)
  /\ Len(RetryDelays) > 0
  /\ \A i \in 1 .. Len(RetryDelays) : RetryDelays[i] < MinRetry

VARIABLES
  call,        \* what each call of interpret() is doing
  bypass,      \* what is left until cloudBypassUntil
  translator,  \* the on-device translator is ready
  stranded,    \* history: calls the deterministic helper answered since the
               \* cloud was last asked
  healed,      \* from now on nothing fails
  dry          \* history: the last answer did not come from the cloud

laneVars == <<call, bypass, translator, stranded, healed, dry>>

vars == <<setting, breaker, limited, sticky, turn,
          call, bypass, translator, stranded, healed, dry>>

----------------------------------------------------------------------------
(* at: the fetch is in flight, sleeping before the next one, settling (the *)
(* fast lane's verdict is awaited) or translating on the device.  served   *)
(* is the server's turn the fetch is waiting for, or None when the request *)
(* did not get that far.                                                   *)
NoCall == [at |-> "idle"]

Live(c) == call[c].at # "idle" /\ ~call[c].aborted

Pursuing(c) == call[c].at \in {"fetching", "sleeping"}

Fetching(attempt, elapsed, served) ==
  [at |-> "fetching", aborted |-> FALSE, attempt |-> attempt, elapsed |-> elapsed,
   left |-> Greatest(1, LaneBudget - elapsed), served |-> served]

Sleeping(attempt, elapsed, nap, why) ==
  [at |-> "sleeping", aborted |-> FALSE, attempt |-> attempt, elapsed |-> elapsed,
   nap |-> nap, why |-> why]

Settling == [at |-> "settling", aborted |-> FALSE]

Translating == [at |-> "translating", aborted |-> FALSE]

Becomes(c, state) == call' = [call EXCEPT ![c] = state]

(* The call is answered, by "cloud", "device", "provisional" (the fast     *)
(* lane's line stands) or "deterministic".                                 *)
DoneLeavingBypass(c, by) ==   \* mutant of Done: the bypass stays
  /\ Becomes(c, NoCall)
  /\ bypass' = IF by = "cloud" THEN 0 ELSE bypass
  /\ stranded' = IF by = "deterministic" /\ ~call[c].aborted
               THEN Least(stranded + 1, 2) ELSE stranded
  /\ dry' = (by # "cloud")

Done(c, by) ==
  /\ Becomes(c, NoCall)
  /\ bypass' = IF by \in {"cloud", "deterministic"} THEN 0 ELSE bypass
  /\ stranded' = IF by = "deterministic" /\ ~call[c].aborted
               THEN Least(stranded + 1, 2) ELSE stranded
  /\ dry' = (by # "cloud")

Fallback(c) ==
  /\ Becomes(c, Settling)
  /\ UNCHANGED <<stranded, dry>>

(* The fetch of an attempt reaches the server, which begins a turn, or is  *)
(* held up on the way.                                                     *)
Fetch(c, attempt, elapsed) ==
  /\ stranded' = 0
  /\ UNCHANGED <<bypass, dry, translator, healed>>
  /\ \/ \E t \in Turns :
          /\ Begin(t, "live")
          /\ Becomes(c, Fetching(attempt, elapsed, t))
     \/ /\ ~healed
        /\ Becomes(c, Fetching(attempt, elapsed, None))
        /\ UNCHANGED routerVars

Starts(c) ==
  /\ call[c] = NoCall
  /\ \A d \in Calls : ~Live(d)
  /\ IF translator /\ bypass > 0
     THEN Fallback(c) /\ UNCHANGED <<bypass, translator, healed, routerVars>>
     ELSE Fetch(c, 1, 0)

----------------------------------------------------------------------------
(* How an attempt ends *)

LastAttempt(c) == call[c].attempt = Len(RetryDelays)

(* The head of the loop: is another attempt still worth it?                *)
RetryWithoutRegret(c) ==   \* mutant of Retry: the budget is not looked at
  Becomes(c, Sleeping(call[c].attempt + 1, call[c].elapsed,
                      RetryDelays[call[c].attempt + 1], "backoff"))

Retry(c) ==
  IF LaneBudget - call[c].elapsed < MinRetry
  THEN Becomes(c, Settling)
  ELSE Becomes(c, Sleeping(call[c].attempt + 1, call[c].elapsed,
                           RetryDelays[call[c].attempt + 1], "backoff"))

AnswerWaits(c) ==
  call[c].served # None /\ turn[call[c].served].at = "answered"

(* The server's answer arrives, perhaps garbled.  One from the floor says  *)
(* why, and a quota or a rate limit makes the lane skip the cloud for a    *)
(* while.                                                                  *)
AnswerArrives(c, garbled) ==
  /\ call[c].at = "fetching"
  /\ AnswerWaits(c)
  /\ garbled => ~healed
  /\ Leaves(call[c].served)
  /\ CASE garbled -> Fallback(c) /\ UNCHANGED bypass
       [] ~garbled /\ turn[call[c].served].by # "local" -> Done(c, "cloud")
       [] OTHER ->
            /\ Fallback(c)
            /\ \/ UNCHANGED bypass
               \/ translator /\ bypass' \in {RateLimitBypass, QuotaBypass}
  /\ UNCHANGED <<translator, healed>>

(* The request was turned away before it reached the router: by the        *)
(* limits of the session (429), for a while (5xx), or for good (other 4xx).*)
TurnedAway(c, status) ==
  /\ call[c].at = "fetching" /\ call[c].served = None
  /\ IF \/ status = "429" /\ translator
        \/ status = "final"
        \/ LastAttempt(c)
     THEN /\ Fallback(c)
          /\ bypass' = IF status = "429" /\ translator THEN RateLimitBypass ELSE bypass
     ELSE /\ \E wait \in 0 .. MaxRetryAfter :
               IF wait = 0 THEN Retry(c)
               ELSE Becomes(c, Sleeping(call[c].attempt, call[c].elapsed, wait, "asked to"))
          /\ UNCHANGED <<bypass, stranded, dry>>
  /\ UNCHANGED <<translator, healed, routerVars>>

(* The connection breaks, whatever has become of the request.              *)
NetworkFails(c) ==
  /\ call[c].at = "fetching"
  /\ ~healed
  /\ IF LastAttempt(c) THEN Fallback(c)
     ELSE Retry(c) /\ UNCHANGED <<stranded, dry>>
  /\ UNCHANGED <<bypass, translator, healed, routerVars>>

(* A healed network brings an answer that is on its way in time.           *)
DeadlineExpires(c) ==
  /\ call[c].at = "fetching"
  /\ call[c].left = 0
  /\ healed => ~AnswerWaits(c)
  /\ Fallback(c)
  /\ UNCHANGED <<bypass, translator, healed, routerVars>>

Wakes(c) ==
  /\ call[c].at = "sleeping"
  /\ call[c].nap = 0
  /\ IF call[c].why = "backoff"
     THEN Fetch(c, call[c].attempt, call[c].elapsed)
     ELSE Retry(c) /\ UNCHANGED <<bypass, stranded, dry, translator, healed, routerVars>>

(* The engine gives the turn up: stop, restart or a contract change.  A    *)
(* fetch or a sleep throws at once; what goes on on the device is waited   *)
(* for.                                                                    *)
Abort(c) ==
  /\ Live(c)
  /\ Becomes(c, IF Pursuing(c) THEN NoCall ELSE [call[c] EXCEPT !.aborted = TRUE])
  /\ UNCHANGED <<bypass, translator, stranded, dry, healed, routerVars>>

----------------------------------------------------------------------------
(* localFallback *)

(* The fast lane's verdict: its line stands, or there is none.             *)
Verdict(c, stands) ==
  /\ call[c].at = "settling"
  /\ IF stands THEN Done(c, "provisional")
     ELSE IF call[c].aborted
     THEN Becomes(c, NoCall) /\ UNCHANGED <<bypass, stranded, dry>>
     ELSE IF translator
     THEN Becomes(c, Translating) /\ UNCHANGED <<bypass, stranded, dry>>
     ELSE Done(c, "deterministic")
  /\ UNCHANGED <<translator, healed, routerVars>>

Translated(c, ok) ==
  /\ call[c].at = "translating"
  /\ ok => ~call[c].aborted
  /\ Done(c, IF ok THEN "device" ELSE "deterministic")
  /\ UNCHANGED <<translator, healed, routerVars>>

----------------------------------------------------------------------------
(* The world *)

(* The answer of a turn that nobody waits for any more is dropped.         *)
Unheard(t) ==
  /\ \A c \in Calls : call[c].at = "fetching" => call[c].served # t
  /\ Leaves(t)
  /\ UNCHANGED laneVars

TranslatorChanges ==
  /\ translator' = ~translator
  /\ UNCHANGED <<call, bypass, stranded, healed, dry, routerVars>>

Heals ==
  /\ ~healed
  /\ healed' = TRUE
  /\ UNCHANGED <<call, bypass, translator, stranded, dry, routerVars>>

Rescue(t) ==
  /\ Begin(t, "rescue")
  /\ UNCHANGED laneVars

CallDue(c) ==
  \/ call[c].at = "fetching" /\ call[c].left = 0
  \/ call[c].at = "sleeping" /\ call[c].nap = 0

OlderCall(cl) ==
  CASE cl.at = "fetching" -> [cl EXCEPT !.elapsed = @ + 1, !.left = @ - 1]
    [] cl.at = "sleeping" -> [cl EXCEPT !.elapsed = @ + 1, !.nap = @ - 1]
    [] OTHER -> cl

Elapse ==
  /\ Tick
  /\ \A c \in Calls : ~CallDue(c)
  /\ call' = [c \in Calls |-> OlderCall(call[c])]
  /\ bypass' = IF bypass = 0 THEN 0 ELSE bypass - 1
  /\ UNCHANGED <<translator, stranded, healed, dry>>

Init ==
  /\ RouterInit
  /\ call = [c \in Calls |-> NoCall]
  /\ bypass = 0
  /\ translator \in BOOLEAN
  /\ stranded = 0
  /\ healed = FALSE
  /\ dry = FALSE

(* From the moment the world is healed providers answer within their       *)
(* deadlines.                                                              *)
ServerStep(t) ==
  /\ Progress(t) \/ (~healed /\ (Trouble(t) \/ Expiry(t)))
  /\ UNCHANGED laneVars

OnDevice(c) ==
  \/ \E stands \in BOOLEAN : Verdict(c, stands)
  \/ \E ok \in BOOLEAN : Translated(c, ok)

Settles(c) ==
  \/ \E garbled \in BOOLEAN : AnswerArrives(c, garbled)
  \/ DeadlineExpires(c)
  \/ OnDevice(c)

Next ==
  \/ \E c \in Calls :
       \/ Starts(c)
       \/ Settles(c)
       \/ \E status \in {"429", "retryable", "final"} : TurnedAway(c, status)
       \/ NetworkFails(c)
       \/ Wakes(c)
       \/ ~healed /\ Abort(c)
  \/ \E t \in Turns : ServerStep(t) \/ Unheard(t) \/ Rescue(t)
  \/ TranslatorChanges
  \/ Heals
  \/ Elapse

Spec == Init /\ [][Next]_vars

(* Time passes, the speaker goes on, a healed server answers, a timer that *)
(* is due fires, and the fast lane and the translator come to a verdict.   *)
(* A call starts or wakes in the end even when a rescue takes the server's *)
(* only slot from time to time.                                            *)
FairSpec ==
  /\ Spec
  /\ WF_vars(Elapse)
  /\ \A t \in Turns : WF_vars(ServerStep(t)) /\ WF_vars(Unheard(t))
  /\ \A c \in Calls : WF_vars(Settles(c)) /\ SF_vars(Starts(c)) /\ SF_vars(Wakes(c))

----------------------------------------------------------------------------
(* Properties *)

(* The lane pursues a turn for a few seconds and no longer: a fetch is     *)
(* over when the turn's budget is spent, whatever came before it, and no   *)
(* sleep outlasts the budget by more than the longest Retry-After that is  *)
(* respected.                                                              *)
GivesUpInTime ==
  \A c \in Calls :
    /\ call[c].at = "fetching" => call[c].elapsed + call[c].left <= LaneBudget
    /\ call[c].at = "sleeping" =>
         call[c].elapsed + call[c].nap <= LaneBudget + MaxRetryAfter

(* A browser is never left to the deterministic helper: after an answer of *)
(* the helper the next call asks the cloud, however the translator comes   *)
(* and goes and whatever bypass was set.                                   *)
NeverStranded == stranded <= 1

(* An outage heals: once providers and network work again, English from    *)
(* the cloud comes back by itself, through whatever cooldowns, remembered  *)
(* 429s and bypasses it has left behind, unless it got every candidate     *)
(* disabled for good.                                                      *)
OutageHeals ==
  healed /\ dry ~>
    ~dry \/ (\A id \in Range(Candidates) : breaker[id].permanent)

============================================================================
