------------------------------ MODULE LlmRouter ------------------------------
(***************************************************************************)
(* The server's way from a live or a rescue request to an answer:          *)
(* class LlmRouter of src/src/providers/llm/router.ts, as the routes       *)
(* src/src/app/api/interpret/route.ts and src/src/app/api/rescue/route.ts  *)
(* call it.                                                                *)
(*                                                                         *)
(* Several requests are served at the same time by one process and share   *)
(* its breakers, its memory of 429s and the provider a session sticks to.  *)
(* Everything between two awaits is one step: the chain is walked up to    *)
(* the next provider that may be asked.                                    *)
(***************************************************************************)
EXTENDS CircuitBreaker, Sequences, SequencesExt

CONSTANTS
  FreeProviders,     \* configured free providers, in order of preference
  PaidProviders,     \* configured paid providers, in order of preference
  MayTrain,          \* providers that may train on what they are sent
  Sustains,          \* providers that can carry a whole service
  Settings,          \* deployments that are looked at, see Setting
  Turns,             \* requests that may be served at the same time
  AttemptDeadline,   \* deadlineFor
  TurnDeadline,      \* turnBudgetFor
  FloorReserve,      \* LOCAL_FLOOR_RESERVE_MS
  MinAttempt,        \* MIN_USEFUL_ATTEMPT_MS
  MinEscalation,     \* MIN_ESCALATION_HEADROOM_MS
  EscalationCeiling, \* ESCALATION_DEADLINE_CEILING_MS
  RateLimitMemory,   \* the five minutes a 429 is remembered for
  RetryAfters,       \* waits a provider may ask for
  FailuresOf,        \* the kinds of failure each provider may show
  None

Providers == Range(FreeProviders \o PaidProviders)

Setting == [mode       : {"local", "auto-free", "pinned", "reliable"},
            pinned     : Providers \cup {None},
            allowPaid  : BOOLEAN,   \* LLM_ALLOW_PAID_FALLBACK
            strict     : BOOLEAN,   \* LLM_PRIVACY_MODE
            demanding  : BOOLEAN,   \* LLM_LIVE_REQUIRE_SUSTAINABLE
            recovery   : BOOLEAN,   \* a gateway credential is at hand
            escalation : BOOLEAN]   \* OPENROUTER_QUALITY_ESCALATION

ASSUME RouterAssumption ==
  /\ Settings \subseteq Setting
  /\ AttemptDeadline \in Nat \ {0}
  /\ TurnDeadline \in Nat
  /\ FloorReserve \in 0 .. TurnDeadline
  /\ MinAttempt \in Nat \ {0}
  /\ MinEscalation \in Nat \ {0}
  /\ EscalationCeiling \in Nat \ {0}
  /\ RateLimitMemory \in Nat
  /\ RetryAfters \subseteq Nat
  /\ FailuresOf \in [Providers -> SUBSET FailureKind]
  /\ None \notin Providers

VARIABLES
  setting,   \* the deployment's environment
  breaker,   \* breakers
  limited,   \* time for which the last 429 of a provider is remembered
  sticky,    \* the provider the session sticks to, or None
  turn       \* what each request is doing

routerVars == <<setting, breaker, limited, sticky, turn>>

----------------------------------------------------------------------------
(* Candidate selection *)

PrivacyOk(id) == ~setting.strict \/ id \notin MayTrain

Pinned == IF setting.pinned = None THEN <<>> ELSE <<setting.pinned>>

Without(s, front) == SelectSeq(s, LAMBDA id : id \notin Range(front))

Candidates ==
  CASE setting.mode = "local"     -> <<>>
    [] setting.mode = "pinned"    -> Pinned
    [] setting.mode = "reliable"  ->
         SelectSeq(Pinned \o Without(PaidProviders \o FreeProviders, Pinned), PrivacyOk)
    [] setting.mode = "auto-free" ->
         SelectSeq(FreeProviders, PrivacyOk)
           \o (IF setting.allowPaid THEN PaidProviders ELSE <<>>)

(* One remembered 429 already puts the pressure at PRESSURE_ABANDON.       *)
Eligible(id) == CanAttempt(breaker[id]) /\ limited[id] = 0

(* buildChain: a live request prefers providers that can carry a service,  *)
(* and a preference outranks stickiness; a rescue has no preference.       *)
Preference(kind) ==
  IF kind = "live" THEN SelectSeq(Candidates, LAMBDA id : id \in Sustains)
  ELSE IF sticky # None /\ Eligible(sticky) THEN <<sticky>> ELSE <<>>

BuildChain(kind) == Preference(kind) \o Without(Candidates, Preference(kind))

(* Whether the route asks the router at all, or answers locally at once.   *)
Reachable(kind) ==
  \/ \E id \in Range(Candidates) :
       Eligible(id) /\ (kind = "live" /\ setting.demanding => id \in Sustains)
  \/ kind = "live" /\ setting.recovery

----------------------------------------------------------------------------
(* One turn *)

Idle == [at |-> "idle"]

(* at: asking a provider, asking the recovery route, asking a better model *)
(* for a second opinion, or answered.  rest is the chain still to walk,    *)
(* left the time the request in flight may still take, by who answered.    *)
Answered(kind, elapsed, by) ==
  [at |-> "answered", kind |-> kind, elapsed |-> elapsed, by |-> by]

Underway(tr) == tr.at \in {"asking", "recovering", "escalating"}

BudgetOfWholeTurn == TurnDeadline - FloorReserve

AlwaysAFullAttempt(kind, elapsed) ==   \* mutant of BudgetFor
  AttemptDeadline

(* 0: no useful attempt can be made any more.  A rescue sets no budget for *)
(* the whole chain, only the abort at TurnDeadline.                        *)
BudgetFor(kind, elapsed) ==
  IF kind = "rescue" THEN AttemptDeadline
  ELSE IF elapsed + MinAttempt > BudgetOfWholeTurn THEN 0
  ELSE Least(AttemptDeadline, BudgetOfWholeTurn - elapsed)

(* Walk the chain, with the breakers and limits b and l, to the next       *)
(* provider that may be asked, then to the recovery route, then to the     *)
(* floor, which always answers.                                            *)
Walk(kind, elapsed, chain, b, l) ==
  LET budget == BudgetFor(kind, elapsed)
      open == {i \in DOMAIN chain : CanAttempt(b[chain[i]]) /\ l[chain[i]] = 0}
      next == CHOOSE i \in open : \A j \in open : i <= j
  IN CASE budget > 0 /\ open # {} ->
            [at |-> "asking", kind |-> kind, elapsed |-> elapsed, left |-> budget,
             asked |-> chain[next], rest |-> SubSeq(chain, next + 1, Len(chain))]
       [] budget > 0 /\ open = {} /\ kind = "live" /\ setting.recovery ->
            [at |-> "recovering", kind |-> kind, elapsed |-> elapsed, left |-> budget]
       [] OTHER -> Answered(kind, elapsed, "local")

Begin(t, kind) ==
  /\ turn[t] = Idle
  /\ turn' = [turn EXCEPT ![t] =
       IF Reachable(kind) THEN Walk(kind, 0, BuildChain(kind), breaker, limited)
       ELSE Answered(kind, 0, "local")]
  /\ UNCHANGED <<setting, breaker, limited, sticky>>

(* A live answer that is unsure or hard may be given a second opinion,     *)
(* which never changes who answered.                                       *)
Opinion(tr, by) ==
  [at |-> "escalating", kind |-> tr.kind, elapsed |-> tr.elapsed, by |-> by,
   left |-> Least(TurnDeadline - tr.elapsed, EscalationCeiling)]

Served(tr, by) ==
  {Answered(tr.kind, tr.elapsed, by)}
  \cup IF /\ tr.kind = "live" /\ setting.escalation
          /\ TurnDeadline - tr.elapsed >= MinEscalation
       THEN {Opinion(tr, by)} ELSE {}

Replies(t) ==
  LET id == turn[t].asked IN
  /\ turn[t].at = "asking"
  /\ breaker' = [breaker EXCEPT ![id] = RecordSuccess(@)]
  /\ sticky' = id
  /\ turn' \in {[turn EXCEPT ![t] = tr] : tr \in Served(turn[t], id)}
  /\ UNCHANGED <<setting, limited>>

(* Book a failure of the provider that turn t was asking.                  *)
Book(t, kind, retryAfter) ==
  LET id == turn[t].asked IN
  /\ breaker' = [breaker EXCEPT ![id] = RecordFailure(@, kind, retryAfter)]
  /\ limited' = IF kind \in {"rate_limited", "quota_exhausted"}
                THEN [limited EXCEPT ![id] = RateLimitMemory] ELSE limited
  /\ sticky' = IF sticky = id THEN None ELSE sticky

(* The provider refuses, breaks off, answers rubbish or takes too long.    *)
Fails(t, kind, retryAfter) ==
  /\ turn[t].at = "asking"
  /\ Book(t, kind, retryAfter)
  /\ turn' = [turn EXCEPT ![t] =
                Walk(@.kind, @.elapsed, @.rest, breaker', limited')]
  /\ UNCHANGED setting

AttemptExpires(t) ==
  /\ turn[t].at = "asking"
  /\ turn[t].left = 0
  /\ turn[t].elapsed < TurnDeadline
  /\ Fails(t, "ordinary", 0)

(* The route's own timer aborts the turn: the chain stops, and the request *)
(* it cut short counts as a failure of the provider.                       *)
TurnExpires(t) ==
  /\ turn[t].at = "asking"
  /\ turn[t].elapsed = TurnDeadline
  /\ Book(t, "ordinary", 0)
  /\ turn' = [turn EXCEPT ![t] = Answered(@.kind, @.elapsed, "local")]
  /\ UNCHANGED setting

Recovers(t) ==
  /\ turn[t].at = "recovering"
  /\ turn' \in {[turn EXCEPT ![t] = tr] : tr \in Served(turn[t], "recovery")}
  /\ UNCHANGED <<setting, breaker, limited, sticky>>

RecoveryFails(t) ==
  /\ turn[t].at = "recovering"
  /\ turn' = [turn EXCEPT ![t] = Answered(@.kind, @.elapsed, "local")]
  /\ UNCHANGED <<setting, breaker, limited, sticky>>

(* The second opinion is there, has failed or is out of time.              *)
OpinionEnds(t) ==
  /\ turn[t].at = "escalating"
  /\ turn' = [turn EXCEPT ![t] = Answered(@.kind, @.elapsed, @.by)]
  /\ UNCHANGED <<setting, breaker, limited, sticky>>

(* The response has left the server, whether or not it arrives.            *)
Leaves(t) ==
  /\ turn[t].at = "answered"
  /\ turn' = [turn EXCEPT ![t] = Idle]
  /\ UNCHANGED <<setting, breaker, limited, sticky>>

(* Timers fire on time: time waits while one is due.                       *)
TimerDue(tr) == Underway(tr) /\ (tr.left = 0 \/ tr.elapsed = TurnDeadline)

Older(tr) ==
  IF Underway(tr) THEN [tr EXCEPT !.elapsed = @ + 1, !.left = @ - 1] ELSE tr

Tick ==
  /\ \A t \in Turns : ~TimerDue(turn[t])
  /\ breaker' = [id \in Providers |-> Cooled(breaker[id])]
  /\ limited' = [id \in Providers |-> IF limited[id] = 0 THEN 0 ELSE limited[id] - 1]
  /\ turn' = [t \in Turns |-> Older(turn[t])]
  /\ UNCHANGED <<setting, sticky>>

RouterInit ==
  /\ setting \in Settings
  /\ breaker = [id \in Providers |-> NewBreaker]
  /\ limited = [id \in Providers |-> 0]
  /\ sticky = None
  /\ turn = [t \in Turns |-> Idle]

Trouble(t) ==
  \/ /\ turn[t].at = "asking"
     /\ \E kind \in FailuresOf[turn[t].asked], wait \in RetryAfters : Fails(t, kind, wait)
  \/ RecoveryFails(t)

Progress(t) ==
  \/ Replies(t)
  \/ Recovers(t)
  \/ OpinionEnds(t)

Expiry(t) == AttemptExpires(t) \/ TurnExpires(t)

----------------------------------------------------------------------------
(* Every request is answered by the deadline of its turn, however many     *)
(* providers fail one after the other, and a live one early enough for the *)
(* deterministic floor: time never runs out before the request in flight   *)
(* does.                                                                   *)
AnsweredInTime ==
  \A t \in Turns :
    Underway(turn[t]) =>
      /\ turn[t].elapsed <= TurnDeadline
      /\ turn[t].kind = "live" /\ turn[t].at # "escalating" =>
           turn[t].elapsed + turn[t].left <= BudgetOfWholeTurn

============================================================================
