--------------------------- MODULE CloudPathProofs ---------------------------
(***************************************************************************)
(* Deadlines of the cloud path, and the promise never to strand a browser, *)
(* for every number of requests, calls, providers and every length of the  *)
(* timers.                                                                 *)
(***************************************************************************)
EXTENDS CloudPath, TLAPS

(* What is known of the time of a server's turn.                           *)
TurnInTime(tr) ==
  /\ tr.at \in {"idle", "answered", "asking", "recovering", "escalating"}
  /\ Underway(tr) =>
       /\ {"at", "kind", "elapsed", "left"} \subseteq DOMAIN tr
       /\ tr.kind \in {"live", "rescue"}
       /\ tr.elapsed \in 0 .. TurnDeadline
       /\ tr.left \in Nat
       /\ tr.kind = "live" /\ tr.at # "escalating" =>
            tr.elapsed + tr.left <= BudgetOfWholeTurn

TurnsInTime ==
  /\ turn = [t \in Turns |-> turn[t]]
  /\ \A t \in Turns : TurnInTime(turn[t])

(* What is known of the time of a call.  A backoff ends with budget left.  *)
CallInTime(cl) ==
  /\ cl.at \in {"idle", "fetching", "sleeping", "settling", "translating"}
  /\ cl.at = "fetching" =>
       /\ {"at", "aborted", "elapsed", "left", "attempt", "served"} \subseteq DOMAIN cl
       /\ ~cl.aborted
       /\ cl.served \in Turns \cup {None}
       /\ cl.elapsed \in Nat
       /\ cl.left \in Nat
       /\ cl.attempt \in 1 .. Len(RetryDelays)
       /\ cl.elapsed + cl.left <= LaneBudget
  /\ cl.at = "sleeping" =>
       /\ {"at", "aborted", "elapsed", "nap", "attempt", "why"} \subseteq DOMAIN cl
       /\ ~cl.aborted
       /\ cl.elapsed \in Nat
       /\ cl.nap \in Nat
       /\ cl.attempt \in 1 .. Len(RetryDelays)
       /\ IF cl.why = "backoff" THEN cl.elapsed + cl.nap < LaneBudget
          ELSE /\ cl.attempt < Len(RetryDelays)
               /\ cl.elapsed + cl.nap <= LaneBudget + MaxRetryAfter
  /\ cl.at \in {"settling", "translating"} => {"at", "aborted"} \subseteq DOMAIN cl

CallsInTime ==
  /\ call = [c \in Calls |-> call[c]]
  /\ \A c \in Calls : CallInTime(call[c])

(* The engine has one live call.  The helper's last answer has cleared the *)
(* bypass, and whoever starts next asks the cloud.                         *)
StrandedOnce ==
  /\ \A c, d \in Calls : Live(c) /\ Live(d) => c = d
  /\ stranded \in {0, 1}
  /\ stranded = 1 => bypass = 0 /\ \A c \in Calls : ~Live(c)

IInv == TurnsInTime /\ CallsInTime /\ StrandedOnce

----------------------------------------------------------------------------
(* The server *)

LEMMA WalkInTime ==
  ASSUME NEW kind \in {"live", "rescue"}, NEW elapsed \in 0 .. TurnDeadline,
         NEW chain, NEW b, NEW l
  PROVE  TurnInTime(Walk(kind, elapsed, chain, b, l))
<1> DEFINE budget == BudgetFor(kind, elapsed)
           open == {i \in DOMAIN chain : CanAttempt(b[chain[i]]) /\ l[chain[i]] = 0}
           next == CHOOSE i \in open : \A j \in open : i <= j
           ask == [at |-> "asking", kind |-> kind, elapsed |-> elapsed, left |-> budget,
                   asked |-> chain[next], rest |-> SubSeq(chain, next + 1, Len(chain))]
           recover == [at |-> "recovering", kind |-> kind, elapsed |-> elapsed,
                       left |-> budget]
<1>1. /\ budget \in Nat
      /\ budget > 0 /\ kind = "live" => elapsed + budget <= BudgetOfWholeTurn
  BY RouterAssumption DEF BudgetFor, BudgetOfWholeTurn, Least
<1>2. TurnInTime(Answered(kind, elapsed, "local"))
  BY DEF TurnInTime, Answered, Underway
<1>3. budget > 0 => TurnInTime(ask)
  BY <1>1 DEF TurnInTime, Underway
<1>4. budget > 0 => TurnInTime(recover)
  BY <1>1 DEF TurnInTime, Underway
<1>5. \/ Walk(kind, elapsed, chain, b, l) = ask /\ budget > 0
      \/ Walk(kind, elapsed, chain, b, l) = recover /\ budget > 0
      \/ Walk(kind, elapsed, chain, b, l) = Answered(kind, elapsed, "local")
  BY DEF Walk
<1>6. QED
  BY <1>2, <1>3, <1>4, <1>5

LEMMA OneTurnInTime ==
  ASSUME TurnsInTime, NEW t \in Turns, NEW tr, TurnInTime(tr),
         turn' = [turn EXCEPT ![t] = tr]
  PROVE  TurnsInTime'
BY DEF TurnsInTime, TurnInTime, Underway, BudgetOfWholeTurn

LEMMA BeginInTime ==
  ASSUME TurnsInTime, NEW t \in Turns, NEW kind \in {"live", "rescue"}, Begin(t, kind)
  PROVE  TurnsInTime'
<1>1. TurnInTime(Walk(kind, 0, BuildChain(kind), breaker, limited))
  BY WalkInTime, RouterAssumption
<1>2. TurnInTime(Answered(kind, 0, "local"))
  BY DEF TurnInTime, Answered, Underway
<1>3. QED
  BY <1>1, <1>2, OneTurnInTime DEF Begin

LEMMA ServedInTime ==
  ASSUME NEW tr, TurnInTime(tr), Underway(tr), NEW by, NEW s \in Served(tr, by)
  PROVE  TurnInTime(s)
<1>1. TurnInTime(Answered(tr.kind, tr.elapsed, by))
  BY DEF TurnInTime, Answered, Underway
<1>2. ASSUME TurnDeadline - tr.elapsed >= MinEscalation
      PROVE  TurnInTime(Opinion(tr, by))
  BY <1>2, RouterAssumption DEF TurnInTime, Opinion, Underway, Least
<1>3. QED
  BY <1>1, <1>2 DEF Served

LEMMA FailsInTime ==
  ASSUME TurnsInTime, NEW t \in Turns, NEW kind, NEW wait, Fails(t, kind, wait)
  PROVE  TurnsInTime'
<1>1. /\ turn[t].kind \in {"live", "rescue"}
      /\ turn[t].elapsed \in 0 .. TurnDeadline
  BY DEF TurnsInTime, TurnInTime, Underway, Fails
<1>2. PICK tr : /\ tr = Walk(turn[t].kind, turn[t].elapsed, turn[t].rest,
                             breaker', limited')
                /\ turn' = [turn EXCEPT ![t] = tr]
  BY DEF Fails, TurnsInTime
<1>3. TurnInTime(tr)
  BY <1>1, <1>2, WalkInTime
<1>4. QED
  BY <1>2, <1>3, OneTurnInTime

LEMMA AnswersInTime ==
  ASSUME TurnsInTime, NEW t \in Turns, NEW kind, NEW elapsed, NEW by,
         turn' = [turn EXCEPT ![t] = Answered(kind, elapsed, by)]
  PROVE  TurnsInTime'
<1>1. TurnInTime(Answered(kind, elapsed, by))
  BY DEF TurnInTime, Answered, Underway
<1>2. QED
  BY <1>1, OneTurnInTime

LEMMA ServerInTime ==
  ASSUME TurnsInTime, NEW t \in Turns, Progress(t) \/ Trouble(t) \/ Expiry(t)
  PROVE  TurnsInTime'
<1>1. CASE Replies(t)
  <2>1. TurnInTime(turn[t]) /\ Underway(turn[t])
    BY <1>1 DEF Replies, TurnsInTime, Underway
  <2>2. PICK s \in Served(turn[t], turn[t].asked) : turn' = [turn EXCEPT ![t] = s]
    BY <1>1 DEF Replies
  <2>3. QED
    BY <2>1, <2>2, ServedInTime, OneTurnInTime
<1>2. CASE Recovers(t)
  <2>1. TurnInTime(turn[t]) /\ Underway(turn[t])
    BY <1>2 DEF Recovers, TurnsInTime, Underway
  <2>2. PICK s \in Served(turn[t], "recovery") : turn' = [turn EXCEPT ![t] = s]
    BY <1>2 DEF Recovers
  <2>3. QED
    BY <2>1, <2>2, ServedInTime, OneTurnInTime
<1>3. CASE OpinionEnds(t)
  <2>1. turn' = [turn EXCEPT ![t] = Answered(turn[t].kind, turn[t].elapsed, turn[t].by)]
    BY <1>3 DEF OpinionEnds, TurnsInTime
  <2>2. QED
    BY <2>1, AnswersInTime
<1>4. CASE RecoveryFails(t)
  <2>1. turn' = [turn EXCEPT ![t] = Answered(turn[t].kind, turn[t].elapsed, "local")]
    BY <1>4 DEF RecoveryFails, TurnsInTime
  <2>2. QED
    BY <2>1, AnswersInTime
<1>5. CASE TurnExpires(t)
  <2>1. turn' = [turn EXCEPT ![t] = Answered(turn[t].kind, turn[t].elapsed, "local")]
    BY <1>5 DEF TurnExpires, TurnsInTime
  <2>2. QED
    BY <2>1, AnswersInTime
<1>6. CASE \E kind, wait : Fails(t, kind, wait)
  BY <1>6, FailsInTime
<1>7. QED
  BY <1>1, <1>2, <1>3, <1>4, <1>5, <1>6 DEF Progress, Trouble, Expiry, AttemptExpires

LEMMA LeavesInTime ==
  ASSUME TurnsInTime, NEW t \in Turns, Leaves(t)
  PROVE  TurnsInTime'
<1>1. TurnInTime(Idle)
  BY DEF TurnInTime, Idle, Underway
<1>2. QED
  BY <1>1, OneTurnInTime DEF Leaves

LEMMA TickInTime ==
  ASSUME TurnsInTime, Tick
  PROVE  TurnsInTime'
<1>1. ASSUME NEW t \in Turns PROVE TurnInTime(Older(turn[t]))
  <2>1. TurnInTime(turn[t]) /\ ~TimerDue(turn[t])
    BY DEF TurnsInTime, Tick
  <2>2. CASE ~Underway(turn[t])
    BY <2>1, <2>2 DEF Older
  <2>3. CASE Underway(turn[t])
    <3> DEFINE tr == turn[t]
               old == [tr EXCEPT !.elapsed = @ + 1, !.left = @ - 1]
    <3>1. /\ old.at = tr.at /\ old.kind = tr.kind /\ DOMAIN old = DOMAIN tr
          /\ old.elapsed = tr.elapsed + 1 /\ old.left = tr.left - 1
      BY <2>1, <2>3 DEF TurnInTime
    <3>2. tr.left # 0 /\ tr.elapsed # TurnDeadline
      BY <2>1, <2>3 DEF TimerDue
    <3>3. TurnInTime(old)
      BY <2>1, <2>3, <3>1, <3>2, RouterAssumption
         DEF TurnInTime, Underway, BudgetOfWholeTurn
    <3>4. QED
      BY <2>3, <3>3 DEF Older
  <2>4. QED
    BY <2>2, <2>3
<1>2. QED
  BY <1>1 DEF Tick, TurnsInTime, TurnInTime, Underway, BudgetOfWholeTurn

----------------------------------------------------------------------------
(* The lane *)

LEMMA Delays ==
  /\ Len(RetryDelays) \in Nat \ {0}
  /\ \A i \in 1 .. Len(RetryDelays) : RetryDelays[i] \in 0 .. MinRetry - 1
BY LaneAssumption

LEMMA OneCallInTime ==
  ASSUME CallsInTime, NEW c \in Calls, NEW cl, CallInTime(cl), Becomes(c, cl)
  PROVE  CallsInTime'
BY DEF CallsInTime, CallInTime, Becomes

LEMMA RestInTime ==
  /\ CallInTime(NoCall) /\ CallInTime(Settling) /\ CallInTime(Translating)
BY DEF CallInTime, NoCall, Settling, Translating

LEMMA SleepInTime ==
  ASSUME NEW attempt \in 1 .. Len(RetryDelays), NEW elapsed \in Nat, NEW nap \in Nat,
         NEW why,
         why = "backoff" => elapsed + nap < LaneBudget,
         why # "backoff" => /\ attempt < Len(RetryDelays)
                            /\ elapsed + nap <= LaneBudget + MaxRetryAfter
  PROVE  CallInTime(Sleeping(attempt, elapsed, nap, why))
<1> DEFINE cl == Sleeping(attempt, elapsed, nap, why)
<1>1. /\ cl.at = "sleeping" /\ ~cl.aborted /\ cl.why = why /\ cl.nap = nap
      /\ cl.elapsed = elapsed /\ cl.attempt = attempt
      /\ DOMAIN cl = {"at", "aborted", "elapsed", "nap", "attempt", "why"}
  BY DEF Sleeping
<1> HIDE DEF cl
<1>2. CallInTime(cl)
  <2>1. CASE why = "backoff"
    BY <1>1, <2>1 DEF CallInTime
  <2>2. CASE why # "backoff"
    BY <1>1, <2>2 DEF CallInTime
  <2>3. QED
    BY <2>1, <2>2
<1>3. QED
  BY <1>2 DEF cl

LEMMA FetchInTime ==
  ASSUME CallsInTime, TurnsInTime, NEW c \in Calls,
         NEW attempt \in 1 .. Len(RetryDelays),
         NEW elapsed \in Nat, elapsed < LaneBudget, Fetch(c, attempt, elapsed)
  PROVE  CallsInTime' /\ TurnsInTime'
<1>1. ASSUME NEW served \in Turns \cup {None} PROVE CallInTime(Fetching(attempt, elapsed, served))
  BY LaneAssumption DEF CallInTime, Fetching, Greatest
<1>2. CASE \E t \in Turns : Begin(t, "live") /\ Becomes(c, Fetching(attempt, elapsed, t))
  BY <1>1, <1>2, BeginInTime, OneCallInTime
<1>3. CASE Becomes(c, Fetching(attempt, elapsed, None)) /\ UNCHANGED routerVars
  BY <1>1, <1>3, OneCallInTime DEF routerVars, TurnsInTime, TurnInTime
<1>4. QED
  BY <1>2, <1>3 DEF Fetch

LEMMA RetryInTime ==
  ASSUME CallsInTime, NEW c \in Calls, Pursuing(c), Retry(c),
         call[c].attempt < Len(RetryDelays)
  PROVE  CallsInTime'
<1>1. /\ CallInTime(call[c])
      /\ call[c].elapsed \in Nat /\ call[c].attempt \in 1 .. Len(RetryDelays)
  BY DEF CallsInTime, CallInTime, Pursuing
<1>2. CASE Becomes(c, Settling)
  BY <1>2, RestInTime, OneCallInTime
<1>3. ASSUME ~(LaneBudget - call[c].elapsed < MinRetry)
      PROVE  CallInTime(Sleeping(call[c].attempt + 1, call[c].elapsed,
                                 RetryDelays[call[c].attempt + 1], "backoff"))
  <2> DEFINE next == call[c].attempt + 1
  <2>1. next \in 1 .. Len(RetryDelays)
    BY <1>1, Delays
  <2>2. RetryDelays[next] \in 0 .. MinRetry - 1
    BY <2>1, Delays
  <2>3. RetryDelays[next] \in Nat /\ call[c].elapsed + RetryDelays[next] < LaneBudget
    <3>1. ASSUME NEW e \in Nat, NEW n \in 0 .. MinRetry - 1, ~(LaneBudget - e < MinRetry)
          PROVE  n \in Nat /\ e + n < LaneBudget
      <4>1. LaneBudget \in Nat /\ MinRetry \in Nat
        BY LaneAssumption
      <4>2. QED
        BY <3>1, <4>1
    <3>2. QED
      BY <1>1, <1>3, <2>2, <3>1
  <2>4. QED
    BY <1>1, <2>1, <2>3, SleepInTime
<1>4. QED
  BY <1>2, <1>3, OneCallInTime DEF Retry

(* What a step of the lane does to the calls and turns. *)
LEMMA StartsInTime ==
  ASSUME CallsInTime, TurnsInTime, NEW c \in Calls, Starts(c)
  PROVE  CallsInTime' /\ TurnsInTime'
<1>1. CASE Fallback(c) /\ UNCHANGED routerVars
  BY <1>1, RestInTime, OneCallInTime DEF Fallback, routerVars, TurnsInTime, TurnInTime
<1>2. CASE Fetch(c, 1, 0)
  BY <1>2, FetchInTime, Delays, LaneAssumption
<1>3. QED
  BY <1>1, <1>2 DEF Starts

LEMMA WakesInTime ==
  ASSUME CallsInTime, TurnsInTime, NEW c \in Calls, Wakes(c)
  PROVE  CallsInTime' /\ TurnsInTime'
<1>1. CallInTime(call[c]) /\ call[c].at = "sleeping" /\ call[c].nap = 0
  BY DEF CallsInTime, Wakes
<1>2. CASE call[c].why = "backoff"
  BY <1>1, <1>2, FetchInTime DEF Wakes, CallInTime
<1>3. CASE call[c].why # "backoff"
  <2>1. CallsInTime'
    BY <1>1, <1>3, RetryInTime DEF Wakes, CallInTime, Pursuing
  <2>2. QED
    BY <1>3, <2>1 DEF Wakes, routerVars, TurnsInTime, TurnInTime
<1>4. QED
  BY <1>2, <1>3

LEMMA AnswerArrivesInTime ==
  ASSUME CallsInTime, TurnsInTime, NEW c \in Calls, NEW garbled \in BOOLEAN,
         AnswerArrives(c, garbled)
  PROVE  CallsInTime' /\ TurnsInTime'
<1>1. TurnsInTime'
  BY LeavesInTime DEF AnswerArrives, AnswerWaits, CallsInTime, CallInTime
<1>2. Becomes(c, NoCall) \/ Becomes(c, Settling)
  BY DEF AnswerArrives, Done, Fallback
<1>3. QED
  BY <1>1, <1>2, RestInTime, OneCallInTime

LEMMA TurnedAwayInTime ==
  ASSUME CallsInTime, NEW c \in Calls, NEW status, TurnedAway(c, status)
  PROVE  CallsInTime'
<1>1. CallInTime(call[c]) /\ call[c].at = "fetching"
  BY DEF CallsInTime, TurnedAway
<1>2. CASE Fallback(c)
  BY <1>2, RestInTime, OneCallInTime DEF Fallback
<1>3. CASE ~LastAttempt(c) /\ Retry(c)
  BY <1>1, <1>3, RetryInTime DEF CallInTime, Pursuing, LastAttempt
<1>4. ASSUME ~LastAttempt(c), NEW wait \in 0 .. MaxRetryAfter,
             Becomes(c, Sleeping(call[c].attempt, call[c].elapsed, wait, "asked to"))
      PROVE  CallsInTime'
  <2>1. CallInTime(Sleeping(call[c].attempt, call[c].elapsed, wait, "asked to"))
    <3>1. /\ call[c].attempt \in 1 .. Len(RetryDelays)
          /\ call[c].elapsed \in Nat /\ call[c].elapsed <= LaneBudget
      BY <1>1, LaneAssumption DEF CallInTime
    <3>2. call[c].attempt < Len(RetryDelays)
      <4>1. call[c].attempt # Len(RetryDelays)
        BY <1>4 DEF LastAttempt
      <4>2. \A n \in Nat : \A i \in 1 .. n : i # n => i < n
        OBVIOUS
      <4>3. QED
        BY <3>1, <4>1, <4>2, Delays
    <3>3. wait \in Nat /\ call[c].elapsed + wait <= LaneBudget + MaxRetryAfter
      BY <3>1, LaneAssumption
    <3>4. QED
      BY <3>1, <3>2, <3>3, SleepInTime
  <2>2. QED
    BY <1>4, <2>1, OneCallInTime
<1>5. QED
  BY <1>2, <1>3, <1>4 DEF TurnedAway

LEMMA NetworkFailsInTime ==
  ASSUME CallsInTime, NEW c \in Calls, NetworkFails(c)
  PROVE  CallsInTime'
<1>1. CallInTime(call[c]) /\ call[c].at = "fetching"
  BY DEF CallsInTime, NetworkFails
<1>2. CASE Fallback(c)
  BY <1>2, RestInTime, OneCallInTime DEF Fallback
<1>3. CASE ~LastAttempt(c) /\ Retry(c)
  BY <1>1, <1>3, RetryInTime DEF CallInTime, Pursuing, LastAttempt
<1>4. QED
  BY <1>2, <1>3 DEF NetworkFails

LEMMA AbortInTime ==
  ASSUME CallsInTime, NEW c \in Calls, Abort(c)
  PROVE  CallsInTime'
<1>1. CallInTime(call[c]) /\ call[c].at # "idle"
  BY DEF CallsInTime, Abort, Live
<1>2. CASE Pursuing(c)
  BY <1>2, RestInTime, OneCallInTime DEF Abort
<1>3. CASE ~Pursuing(c)
  <2>1. CallInTime([call[c] EXCEPT !.aborted = TRUE])
    BY <1>1, <1>3 DEF CallInTime, Pursuing
  <2>2. QED
    BY <1>3, <2>1, OneCallInTime DEF Abort
<1>4. QED
  BY <1>2, <1>3

LEMMA OnDeviceInTime ==
  ASSUME CallsInTime, NEW c \in Calls, OnDevice(c) \/ DeadlineExpires(c)
  PROVE  CallsInTime'
<1>1. Becomes(c, NoCall) \/ Becomes(c, Settling) \/ Becomes(c, Translating)
  BY DEF OnDevice, DeadlineExpires, Verdict, Translated, Done, Fallback
<1>2. QED
  BY <1>1, RestInTime, OneCallInTime

LEMMA ElapseInTime ==
  ASSUME CallsInTime, TurnsInTime, Elapse
  PROVE  CallsInTime' /\ TurnsInTime'
<1>1. TurnsInTime'
  BY TickInTime DEF Elapse
<1>2. ASSUME NEW c \in Calls PROVE CallInTime(OlderCall(call[c]))
  <2> DEFINE cl == call[c]
             fetch == [cl EXCEPT !.elapsed = @ + 1, !.left = @ - 1]
             sleep == [cl EXCEPT !.elapsed = @ + 1, !.nap = @ - 1]
  <2>1. CallInTime(cl) /\ ~CallDue(c)
    BY DEF CallsInTime, Elapse
  <2>2. CASE cl.at = "fetching"
    <3>1. /\ fetch.at = "fetching" /\ DOMAIN fetch = DOMAIN cl
          /\ fetch.aborted = cl.aborted /\ fetch.attempt = cl.attempt
          /\ fetch.served = cl.served
          /\ fetch.elapsed = cl.elapsed + 1 /\ fetch.left = cl.left - 1
      BY <2>1, <2>2 DEF CallInTime
    <3>2. cl.left # 0
      BY <2>1, <2>2 DEF CallDue
    <3>3. CallInTime(fetch)
      <4> HIDE DEF cl, fetch
      <4>1. fetch.elapsed \in Nat /\ fetch.left \in Nat
            /\ fetch.elapsed + fetch.left <= LaneBudget
        BY <2>1, <2>2, <3>1, <3>2, LaneAssumption DEF CallInTime
      <4>2. QED
        BY <2>1, <2>2, <3>1, <4>1 DEF CallInTime
    <3>4. QED
      BY <2>2, <3>3 DEF OlderCall
  <2>3. CASE cl.at = "sleeping"
    <3>1. /\ sleep.at = "sleeping" /\ DOMAIN sleep = DOMAIN cl
          /\ sleep.aborted = cl.aborted /\ sleep.attempt = cl.attempt
          /\ sleep.why = cl.why
          /\ sleep.elapsed = cl.elapsed + 1 /\ sleep.nap = cl.nap - 1
      BY <2>1, <2>3 DEF CallInTime
    <3>2. cl.nap # 0
      BY <2>1, <2>3 DEF CallDue
    <3>3. CallInTime(sleep)
      <4> HIDE DEF cl, sleep
      <4>1. /\ sleep.elapsed \in Nat /\ sleep.nap \in Nat
            /\ sleep.elapsed + sleep.nap = cl.elapsed + cl.nap
        BY <2>1, <2>3, <3>1, <3>2 DEF CallInTime
      <4>2. QED
        BY <2>1, <2>3, <3>1, <4>1 DEF CallInTime
    <3>4. QED
      BY <2>3, <3>3 DEF OlderCall
  <2>4. CASE cl.at \notin {"fetching", "sleeping"}
    BY <2>1, <2>4 DEF OlderCall
  <2>5. QED
    BY <2>2, <2>3, <2>4
<1>3. CallsInTime'
  BY <1>2 DEF Elapse, CallsInTime, CallInTime
<1>4. QED
  BY <1>1, <1>3

----------------------------------------------------------------------------
(* The helper *)

LEMMA FetchStrands ==
  ASSUME NEW c \in Calls, NEW attempt, NEW elapsed, Fetch(c, attempt, elapsed)
  PROVE  stranded' = 0
BY DEF Fetch

(* A step of a live call that answers nothing yet, or what it answers.     *)
LEMMA LiveCallStrands ==
  ASSUME CallsInTime, StrandedOnce, NEW c \in Calls, Live(c), NEW cl,
         call' = [call EXCEPT ![c] = cl],
         stranded' \in {0, stranded} \/ (stranded' = 1 /\ bypass' = 0 /\ cl = NoCall)
  PROVE  StrandedOnce'
<1>1. stranded = 0
  BY DEF StrandedOnce
<1>2. \A d \in Calls : Live(d)' => d = c
  BY DEF StrandedOnce, CallsInTime, Live
<1>3. cl = NoCall => ~Live(c)'
  BY DEF CallsInTime, Live, NoCall
<1>4. QED
  BY <1>1, <1>2, <1>3 DEF StrandedOnce

LEMMA StartsStrands ==
  ASSUME CallsInTime, StrandedOnce, NEW c \in Calls, Starts(c)
  PROVE  StrandedOnce'
<1>1. PICK cl : call' = [call EXCEPT ![c] = cl]
  BY DEF Starts, Fallback, Fetch, Becomes
<1>2. \A d \in Calls : Live(d)' => d = c
  BY <1>1 DEF Starts, Live, CallsInTime
<1>3. stranded' = 0
  BY LaneAssumption DEF Starts, Fetch, Fallback, StrandedOnce
<1>4. QED
  BY <1>2, <1>3 DEF StrandedOnce

LEMMA PursuingIsLive ==
  ASSUME CallsInTime, NEW c \in Calls, Pursuing(c)
  PROVE  Live(c)
BY DEF CallsInTime, CallInTime, Pursuing, Live

(* An answer on the device, of a call that may have been aborted.          *)
LEMMA DoneStrands ==
  ASSUME CallsInTime, StrandedOnce, NEW c \in Calls, NEW by, Done(c, by),
         call[c].at # "idle"
  PROVE  StrandedOnce'
<1>1. call' = [call EXCEPT ![c] = NoCall]
  BY DEF Done, Becomes
<1>2. CASE Live(c)
  <2>1. stranded = 0
    BY <1>2 DEF StrandedOnce
  <2>2. stranded' = stranded \/ (stranded' = 1 /\ bypass' = 0)
    BY <2>1 DEF Done, Least
  <2>3. QED
    BY <1>1, <1>2, <2>2, LiveCallStrands
<1>3. CASE ~Live(c)
  <2>1. stranded' = stranded /\ bypass' \in {0, bypass}
    BY <1>3 DEF Done, Live
  <2>2. \A d \in Calls : Live(d)' => Live(d)
    BY <1>1 DEF CallsInTime, Live, NoCall
  <2>3. QED
    BY <2>1, <2>2 DEF StrandedOnce
<1>4. QED
  BY <1>2, <1>3

LEMMA OnDeviceStrands ==
  ASSUME CallsInTime, StrandedOnce, NEW c \in Calls, OnDevice(c)
  PROVE  StrandedOnce'
<1>1. call[c].at # "idle"
  BY DEF OnDevice, Verdict, Translated
<1>2. CASE \E by : Done(c, by)
  BY <1>1, <1>2, DoneStrands
<1>3. CASE /\ call[c].aborted /\ Becomes(c, NoCall)
           /\ UNCHANGED <<bypass, stranded, dry>>
  <2>1. \A d \in Calls : Live(d)' => Live(d)
    BY <1>3 DEF CallsInTime, Live, NoCall, Becomes
  <2>2. QED
    BY <1>3, <2>1 DEF StrandedOnce
<1>4. CASE /\ ~call[c].aborted /\ Becomes(c, Translating)
           /\ UNCHANGED <<bypass, stranded, dry>>
  BY <1>1, <1>4, LiveCallStrands DEF Becomes, Live
<1>5. QED
  BY <1>2, <1>3, <1>4 DEF OnDevice, Verdict, Translated

LEMMA PursuitStrands ==
  ASSUME CallsInTime, StrandedOnce, NEW c \in Calls,
         \/ \E garbled \in BOOLEAN : AnswerArrives(c, garbled)
         \/ DeadlineExpires(c)
         \/ \E status : TurnedAway(c, status)
         \/ NetworkFails(c)
         \/ Wakes(c)
         \/ Abort(c)
  PROVE  StrandedOnce'
<1>1. Live(c)
  BY PursuingIsLive
     DEF AnswerArrives, DeadlineExpires, TurnedAway, NetworkFails, Wakes, Abort, Pursuing
<1>2. \E cl : call' = [call EXCEPT ![c] = cl]
  BY DEF AnswerArrives, DeadlineExpires, TurnedAway, NetworkFails, Wakes, Abort,
         Done, Fallback, Fetch, Retry, Becomes
<1>3. stranded' \in {0, stranded}
  BY DEF AnswerArrives, DeadlineExpires, TurnedAway, NetworkFails, Wakes, Abort,
         Done, Fallback, Fetch
<1>4. QED
  BY <1>1, <1>2, <1>3, LiveCallStrands

LEMMA ElapseStrands ==
  ASSUME CallsInTime, StrandedOnce, Elapse
  PROVE  StrandedOnce'
<1>1. ASSUME NEW c \in Calls PROVE Live(c)' <=> Live(c)
  <2>1. CallInTime(call[c]) /\ call'[c] = OlderCall(call[c])
    BY DEF CallsInTime, Elapse
  <2>2. OlderCall(call[c]).at = call[c].at
    BY <2>1 DEF OlderCall, CallInTime
  <2>3. call[c].at # "idle" => OlderCall(call[c]).aborted = call[c].aborted
    BY <2>1 DEF OlderCall, CallInTime
  <2>4. QED
    BY <2>1, <2>2, <2>3 DEF Live
<1>2. QED
  BY <1>1 DEF Elapse, StrandedOnce

----------------------------------------------------------------------------
LEMMA InitEstablishes == ASSUME Init PROVE IInv
<1>1. TurnInTime(Idle)
  BY DEF TurnInTime, Idle, Underway
<1>2. QED
  BY <1>1, RestInTime DEF Init, RouterInit, IInv, TurnsInTime, CallsInTime,
                          StrandedOnce, Live, NoCall

LEMMA NextPreserves == ASSUME IInv, [Next]_vars PROVE IInv'
<1> USE DEF IInv
<1> DEFINE Kept == UNCHANGED turn
<1>0. Kept => TurnsInTime'
  BY DEF TurnsInTime, TurnInTime, Underway, BudgetOfWholeTurn
<1>1. ASSUME NEW c \in Calls, Starts(c) PROVE IInv'
  BY <1>1, StartsInTime, StartsStrands
<1>2. ASSUME NEW c \in Calls, NEW garbled \in BOOLEAN, AnswerArrives(c, garbled)
      PROVE  IInv'
  BY <1>2, AnswerArrivesInTime, PursuitStrands
<1>3. ASSUME NEW c \in Calls, DeadlineExpires(c) PROVE IInv'
  BY <1>0, <1>3, OnDeviceInTime, PursuitStrands DEF DeadlineExpires, routerVars
<1>4. ASSUME NEW c \in Calls, OnDevice(c) PROVE IInv'
  <2>1. Kept
    BY <1>4 DEF OnDevice, Verdict, Translated, routerVars
  <2>2. QED
    BY <1>0, <1>4, <2>1, OnDeviceInTime, OnDeviceStrands
<1>5. ASSUME NEW c \in Calls, NEW status, TurnedAway(c, status) PROVE IInv'
  BY <1>0, <1>5, TurnedAwayInTime, PursuitStrands DEF TurnedAway, routerVars
<1>6. ASSUME NEW c \in Calls, NetworkFails(c) PROVE IInv'
  BY <1>0, <1>6, NetworkFailsInTime, PursuitStrands DEF NetworkFails, routerVars
<1>7. ASSUME NEW c \in Calls, Wakes(c) PROVE IInv'
  BY <1>7, WakesInTime, PursuitStrands
<1>8. ASSUME NEW c \in Calls, Abort(c) PROVE IInv'
  BY <1>0, <1>8, AbortInTime, PursuitStrands DEF Abort, routerVars
<1>9. ASSUME UNCHANGED laneVars PROVE CallsInTime' /\ StrandedOnce'
  BY <1>9 DEF laneVars, CallsInTime, CallInTime, StrandedOnce, Live
<1>10. ASSUME NEW t \in Turns, ServerStep(t) PROVE IInv'
  BY <1>9, <1>10, ServerInTime DEF ServerStep
<1>11. ASSUME NEW t \in Turns, Unheard(t) \/ Rescue(t) PROVE IInv'
  BY <1>9, <1>11, LeavesInTime, BeginInTime DEF Unheard, Rescue
<1>12. ASSUME TranslatorChanges \/ Heals PROVE IInv'
  BY <1>0, <1>12
     DEF TranslatorChanges, Heals, routerVars, CallsInTime, CallInTime, StrandedOnce, Live
<1>13. CASE Elapse
  BY <1>13, ElapseInTime, ElapseStrands
<1>14. CASE UNCHANGED vars
  BY <1>0, <1>9, <1>14 DEF vars, laneVars
<1>15. QED
  BY <1>1, <1>2, <1>3, <1>4, <1>5, <1>6, <1>7, <1>8, <1>10, <1>11, <1>12, <1>13, <1>14
     DEF Next, Settles

THEOREM InvHolds == Spec => []IInv
BY InitEstablishes, NextPreserves, PTL DEF Spec

(* Whatever fails, and however many requests share the process, every      *)
(* request of the live console is answered by the deadline of its turn.    *)
THEOREM ServerAnswersInTime == Spec => []AnsweredInTime
<1>1. ASSUME IInv PROVE AnsweredInTime
  BY <1>1, RouterAssumption
     DEF IInv, TurnsInTime, TurnInTime, AnsweredInTime, Underway, BudgetOfWholeTurn
<1>2. QED
  BY <1>1, InvHolds, PTL

(* The lane never pursues a turn longer than its budget allows.            *)
THEOREM LaneGivesUpInTime == Spec => []GivesUpInTime
<1>1. ASSUME IInv PROVE GivesUpInTime
  BY <1>1, LaneAssumption DEF IInv, CallsInTime, CallInTime, GivesUpInTime
<1>2. QED
  BY <1>1, InvHolds, PTL

(* A browser is never left to the deterministic helper.                    *)
THEOREM BrowserNeverStranded == Spec => []NeverStranded
<1>1. ASSUME IInv PROVE NeverStranded
  BY <1>1 DEF IInv, StrandedOnce, NeverStranded
<1>2. QED
  BY <1>1, InvHolds, PTL

============================================================================
