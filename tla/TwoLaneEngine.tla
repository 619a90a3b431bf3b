--------------------------- MODULE TwoLaneEngine ---------------------------
(***************************************************************************)
(* The live interpretation engine: class InterpretationEngine of           *)
(* src/src/interpreter/engine/session.ts with the turn bookkeeping of      *)
(* turns.ts and the buffer of stabiliser.ts.                               *)
(*                                                                         *)
(* Every flushed unit of speech becomes a logical turn with two lanes: a   *)
(* provisional (on-device) rendering, shown at once, and a contextual      *)
(* (cloud) one which may refine it while it is still editable.  At most    *)
(* one cloud request is in flight; later turns coalesce in one queue.      *)
(*                                                                         *)
(* The engine is single-threaded, so each synchronous stretch of it (a     *)
(* call from the host, or the continuation of one awaited result) is one   *)
(* action.  Speech is the sequence of utterances 1, 2, 3, ...              *)
(***************************************************************************)
EXTENDS ChunkStore, FiniteSets

CONSTANTS
  MaxUtterances,      \* bound: utterances in a behaviour
  MaxTurns,           \* bound: logical turns in a behaviour
  MaxGeneration,      \* bound: starts, stops and contract changes
  MaxRejections,      \* bound: cloud calls that reject
  MaxDrafts,          \* bound: lines one result carries
  Readiness,          \* what ProvisionalLane.isReady() may answer
  Anticipation,       \* what shouldAnticipate() may answer mid-thought
  Passthroughs,       \* whether speech may already be in the target language
  EarlyRejection,     \* may the host reject before the fast lane has settled
  MaxCoalescedTurns,  \* MAX_COALESCED_TURNS
  MaxCoalescedChars,  \* MAX_COALESCED_CHARS, in utterances
  MaxTurnRecords,     \* MAX_TURN_RECORDS
  ProvisionalTimeout  \* PROVISIONAL_TIMEOUT_MS, in ticks of the clock

ASSUME EngineAssumption ==
  /\ {MaxUtterances, MaxTurns, MaxGeneration, MaxRejections, MaxDrafts} \subseteq Nat
  /\ Readiness \subseteq BOOLEAN
  /\ Anticipation \subseteq BOOLEAN
  /\ Passthroughs \subseteq BOOLEAN
  /\ EarlyRejection \in BOOLEAN
  /\ MaxCoalescedTurns \in Nat \ {0}
  /\ MaxCoalescedChars \in Nat
  /\ MaxTurnRecords \in Nat \ {0}
  /\ ProvisionalTimeout \in Nat \ {0}

VARIABLES
  stopped,     \* this.stopped
  generation,  \* this.generation
  turns,       \* every turn so far; the last MaxTurnRecords are this.turns
  pending,     \* this.stabiliser.pending: the utterances not yet in a turn
  chunks,      \* this.chunks
  requests,    \* interpret() promises that have not settled yet
  cloud,       \* this.cloudInFlight: the unit of the request, or <<>>
  queue,       \* this.pendingUnit: turn ids, oldest first
  fastRuns,    \* translate() promises that have not settled yet
  fastFlight,  \* this.provisionalInFlight: its turn (0: none) and its age
  rejections,  \* history: cloud calls that rejected
  spoken,      \* history: utterances handed to the engine
  lifeStart,   \* history: utterances handed over before the last start()
  rendered     \* history: utterances whose English reached the screen

vars == <<stopped, generation, turns, pending, chunks, requests, cloud, queue,
          fastRuns, fastFlight, rejections, spoken, lifeStart, rendered>>

ProvisionalState == {"off", "pending", "applied", "failed", "superseded", "stale"}

ContextualState ==
  {"queued", "inflight", "applied", "refined", "kept", "discarded", "stale",
   "failed", "skipped"}

Turn == [text : Seq(Nat), sentence : BOOLEAN,
         prov : ProvisionalState, ctx : ContextualState]

NoFlight == [turn |-> 0, age |-> 0]

Drafts == BoundedSeq(Line, MaxDrafts)

Init ==
  /\ stopped = FALSE
  /\ generation = 1
  /\ turns = <<>>
  /\ pending = <<>>
  /\ chunks = <<>>
  /\ requests = {}
  /\ cloud = <<>>
  /\ queue = <<>>
  /\ fastRuns = {}
  /\ fastFlight = NoFlight
  /\ rejections = 0
  /\ spoken = 0
  /\ lifeStart = 0
  /\ rendered = {}

----------------------------------------------------------------------------
(* Turn bookkeeping.                                                       *)

SetCtx(ts, ids, state) ==
  [i \in DOMAIN ts |-> IF i \in ids THEN [ts[i] EXCEPT !.ctx = state] ELSE ts[i]]

SetProv(ts, id, state) == [ts EXCEPT ![id].prov = state]

Texts(ts, ids) == [i \in DOMAIN ids |-> ts[ids[i]].text]

(* A turn whose contextual rendering is still owed. *)
Waiting(t) == turns[t].ctx \in {"inflight", "queued"}

(* The utterances that the turns `ids` carry. *)
SpeechOf(ts, ids) == UNION {ToSet(ts[t].text) : t \in ids}

(* Mutations of Uncovered: a failed fast lane counts as English on screen;   *)
(* nothing does.                                                             *)
UncoveredUnlessTried(ts, ids) ==
  Among(ids, {t \in ToSet(ids) : ts[t].prov = "off"})

UncoveredAll(ts, ids) == ids

(* The turns with no English on screen are the only ones worth restoring.   *)
Uncovered(ts, ids) == Among(ids, {t \in ToSet(ids) : ts[t].prov # "applied"})

(* [...uncovered].reverse() with one restorePending each: in order.         *)
RestoreInOrder(ts, ids) == FlattenSeq(Texts(ts, Uncovered(ts, ids))) \o pending

(* enqueueContextual: how many of the newest waiting turns are kept.        *)
Chars(ts, ids) == Len(FlattenSeq(Texts(ts, ids)))

Kept(ts, ids) ==
  LastN(ids, Max({k \in 1..Len(ids) :
                    /\ k <= MaxCoalescedTurns
                    /\ k = 1 \/ Chars(ts, LastN(ids, k)) <= MaxCoalescedChars}))

(* canFlush: with a ready fast lane only that lane must be free; without    *)
(* one the engine is single-flight.                                         *)
CanFlush(ready, flight) ==
  IF ready THEN flight = NoFlight ELSE cloud = <<>> /\ queue = <<>>

Stale(r) == stopped \/ r.gen # generation

----------------------------------------------------------------------------
(* One contextual request for `unit`.  Whether a prediction is asked for     *)
(* depends on the profile and the partial transcript, never after a          *)
(* completed sentence.                                                       *)
Dispatch(open, ts, unit) ==
  \E allow \in IF ts[Last(unit)].sentence THEN {FALSE} ELSE Anticipation :
    /\ turns' = SetCtx(ts, ToSet(unit), "inflight")
    /\ cloud' = unit
    /\ requests' = open \cup {[unit |-> unit, gen |-> generation, allow |-> allow]}

(* Mutation of FinishCloud: the slot is freed and the queue forgotten. *)
FinishCloudOnly(open, ts) ==
  /\ turns' = ts
  /\ cloud' = <<>>
  /\ requests' = open
  /\ UNCHANGED queue

(* The finally block: free the slot, then send the coalesced unit if any.   *)
FinishCloud(open, ts) ==
  IF queue = <<>>
  THEN /\ turns' = ts
       /\ cloud' = <<>>
       /\ requests' = open
       /\ queue' = <<>>
  ELSE /\ Dispatch(open, ts, queue)
       /\ queue' = <<>>

(* Mutation of ScheduleContextual: a busy socket does not make a turn wait. *)
ScheduleAtOnce(ts, id) ==
  /\ Dispatch(requests, ts, <<id>>)
  /\ pending' = <<>>
  /\ UNCHANGED queue

(* scheduleContextual: join the queue behind a busy socket, or dispatch.    *)
ScheduleContextual(ts, id) ==
  IF cloud # <<>>
  THEN LET waiting == Append(queue, id)
           kept    == Kept(ts, waiting)
           dropped == SubSeq(waiting, 1, Len(waiting) - Len(kept))
       IN  /\ turns' = SetCtx(ts, ToSet(dropped), "skipped")
           /\ queue' = kept
           /\ pending' = FlattenSeq(Reverse(Texts(ts, Uncovered(ts, dropped))))
           /\ UNCHANGED <<cloud, requests>>
  ELSE /\ Dispatch(requests, ts, <<id>>)
       /\ pending' = <<>>
       /\ UNCHANGED queue

(* flush: cut one turn from everything pending and start both lanes.  `cs`  *)
(* and `ts` are the chunks and turns after what the caller did first.       *)
Flush(ready, cs, ts, flight) ==
  /\ pending # <<>>
  /\ Len(ts) < MaxTurns
  /\ CanFlush(ready, flight)
  /\ \E sentence \in BOOLEAN, pass \in Passthroughs :
       LET id      == Len(ts) + 1
           lane    == ready /\ ~pass
           New(p)  == [text |-> pending, sentence |-> sentence,
                       prov |-> p, ctx |-> "queued"]
       IN  \/ /\ pass
              /\ \E drafts \in Drafts \ {<<>>} :
                   chunks' = TrimChunks(InsertTurnChunks(cs, drafts, {id}, TRUE))
              /\ rendered' = rendered \cup ToSet(pending)
              /\ fastFlight' = flight
              /\ UNCHANGED fastRuns
              /\ ScheduleContextual(Append(ts, New("applied")), id)
           \/ /\ lane
              /\ fastFlight' = [turn |-> id, age |-> 0]
              /\ fastRuns' = fastRuns \cup {id}
              /\ chunks' = cs
              /\ UNCHANGED rendered
              /\ ScheduleContextual(Append(ts, New("pending")), id)
           \/ /\ ~pass /\ ~lane
              /\ fastFlight' = flight
              /\ chunks' = cs
              /\ UNCHANGED <<fastRuns, rendered>>
              /\ ScheduleContextual(Append(ts, New("off")), id)

----------------------------------------------------------------------------
(* Recogniser input and the clock.                                          *)

(* handleStable: one more finalised utterance.  (A replay of the previous   *)
(* one is dropped there and changes nothing here.)                          *)
HandleStable ==
  /\ ~stopped
  /\ spoken < MaxUtterances
  /\ spoken' = spoken + 1
  /\ pending' = Append(pending, spoken + 1)
  /\ UNCHANGED <<stopped, generation, turns, chunks, requests, cloud, queue,
                 fastRuns, fastFlight, rejections, lifeStart, rendered>>

(* Time passes: every editable line and the fast lane's run grow older.     *)
Elapse ==
  /\ ~stopped
  /\ chunks' = [i \in DOMAIN chunks |->
                  IF chunks[i].st = "current" /\ chunks[i].age < Dwell
                  THEN [chunks[i] EXCEPT !.age = @ + 1] ELSE chunks[i]]
  /\ fastFlight' = IF fastFlight.turn # 0 /\ fastFlight.age < ProvisionalTimeout
                   THEN [fastFlight EXCEPT !.age = @ + 1] ELSE fastFlight
  /\ UNCHANGED <<stopped, generation, turns, pending, requests, cloud, queue,
                 fastRuns, rejections, spoken, lifeStart, rendered>>

FastLaneTimedOut == fastFlight.turn # 0 /\ fastFlight.age = ProvisionalTimeout

(* tick: commit what is due, fail a stalled fast lane for good, then flush  *)
(* if the stabiliser gives a reason to.                                     *)
Tick(ready) ==
  LET cs     == CommitDueChunks(chunks)
      ts     == IF FastLaneTimedOut
                THEN SetProv(turns, fastFlight.turn, "failed") ELSE turns
      flight == IF FastLaneTimedOut THEN NoFlight ELSE fastFlight
  IN  /\ ~stopped
      /\ \/ Flush(ready, cs, ts, flight)
         \/ /\ chunks' = cs
            /\ turns' = ts
            /\ fastFlight' = flight
            /\ UNCHANGED <<pending, requests, cloud, queue, fastRuns, rendered>>
      /\ UNCHANGED <<stopped, generation, rejections, spoken, lifeStart>>

(* flushPending: the last unit is cut at shutdown without a tick.           *)
FlushPending(ready) ==
  /\ ~stopped
  /\ Flush(ready, chunks, turns, fastFlight)
  /\ UNCHANGED <<stopped, generation, rejections, spoken, lifeStart>>

----------------------------------------------------------------------------
(* Lane A: what the on-device translator answers, whenever it does.         *)

FreeFastLane(t) == fastFlight' = IF fastFlight.turn = t THEN NoFlight ELSE fastFlight

(* A verdict already reached (timeout, stop, restart, contract change) is   *)
(* final: the late answer is dropped.                                       *)
FastResultTooLate(t) ==
  /\ t \in fastRuns
  /\ turns[t].prov # "pending"
  /\ fastRuns' = fastRuns \ {t}
  /\ FreeFastLane(t)
  /\ UNCHANGED <<stopped, generation, turns, pending, chunks, requests, cloud,
                 queue, rejections, spoken, lifeStart, rendered>>

(* Nothing usable, or an exception. *)
FastResultUnusable(t) ==
  /\ t \in fastRuns
  /\ turns[t].prov = "pending"
  /\ turns' = SetProv(turns, t, "failed")
  /\ fastRuns' = fastRuns \ {t}
  /\ FreeFastLane(t)
  /\ UNCHANGED <<stopped, generation, pending, chunks, requests, cloud, queue,
                 rejections, spoken, lifeStart, rendered>>

(* The cloud rendered this turn first. *)
FastResultSuperseded(t) ==
  /\ t \in fastRuns
  /\ turns[t].prov = "pending"
  /\ turns[t].ctx \in {"applied", "refined"}
  /\ turns' = SetProv(turns, t, "superseded")
  /\ fastRuns' = fastRuns \ {t}
  /\ FreeFastLane(t)
  /\ UNCHANGED <<stopped, generation, pending, chunks, requests, cloud, queue,
                 rejections, spoken, lifeStart, rendered>>

(* applyProvisional: shown at once, still editable. *)
FastResultApplied(t) ==
  /\ t \in fastRuns
  /\ turns[t].prov = "pending"
  /\ turns[t].ctx \notin {"applied", "refined"}
  /\ \E drafts \in Drafts \ {<<>>} :
       chunks' = TrimChunks(InsertTurnChunks(chunks, drafts, {t}, TRUE))
  /\ rendered' = rendered \cup ToSet(turns[t].text)
  /\ turns' = SetProv(turns, t, "applied")
  /\ fastRuns' = fastRuns \ {t}
  /\ FreeFastLane(t)
  /\ UNCHANGED <<stopped, generation, pending, requests, cloud, queue,
                 rejections, spoken, lifeStart>>

----------------------------------------------------------------------------
(* Lane B: what the contextual call answers, whenever it does.              *)

(* Mutation of CloudResultStale: the slot is freed without asking whose it  *)
(* is.                                                                      *)
CloudResultStaleFreesSlot(r) ==
  /\ r \in requests
  /\ Stale(r)
  /\ turns' = SetCtx(turns, ToSet(r.unit), "stale")
  /\ requests' = requests \ {r}
  /\ cloud' = <<>>
  /\ UNCHANGED <<stopped, generation, pending, chunks, queue, fastRuns,
                 fastFlight, rejections, spoken, lifeStart, rendered>>

(* recordStale: a result of another generation touches nothing. *)
CloudResultStale(r) ==
  /\ r \in requests
  /\ Stale(r)
  /\ turns' = SetCtx(turns, ToSet(r.unit), "stale")
  /\ requests' = requests \ {r}
  /\ UNCHANGED <<stopped, generation, pending, chunks, cloud, queue, fastRuns,
                 fastFlight, rejections, spoken, lifeStart, rendered>>

(* applyContextual: what the result may still do to the screen.             *)
ContextualOutcome(cs, ids, drafts) ==
  LET legality == RefinementLegality(cs, ids)
      refined  == RefineProvisionalChunks(cs, ids, drafts)
  IN  CASE legality = "fresh" ->
             [chunks |-> InsertTurnChunks(cs, drafts, ids, FALSE), ctx |-> "applied"]
        [] legality = "refine" ->
             [chunks |-> refined.chunks,
              ctx |-> IF refined.changed THEN "refined" ELSE "kept"]
        [] OTHER ->
             [chunks |-> cs, ctx |-> IF drafts # <<>> THEN "discarded" ELSE "kept"]

(* A prediction is shown for the newest turn only, and never beside a       *)
(* locked line.                                                             *)
WithPrediction(cs, legality, newest, allow, predicted) ==
  IF newest /\ legality # "locked" /\ allow /\ predicted # <<>>
  THEN SetAnticipatedChunks(cs, predicted)
  ELSE IF newest \/ legality = "fresh" THEN ClearAnticipated(cs) ELSE cs

CloudResult(r) ==
  /\ r \in requests
  /\ ~Stale(r)
  /\ \E drafts \in Drafts, predicted \in {<<>>} \cup {<<l>> : l \in Line} :
       LET ids      == ToSet(r.unit)
           legality == RefinementLegality(chunks, ids)
           outcome  == ContextualOutcome(chunks, ids, drafts)
           newest   == Len(turns) \in ids
       IN  /\ r.allow \/ predicted = <<>>
           /\ chunks' = TrimChunks(WithPrediction(outcome.chunks, legality,
                                                  newest, r.allow, predicted))
           /\ rendered' = IF legality # "locked" /\ drafts # <<>>
                          THEN rendered \cup SpeechOf(turns, ids) ELSE rendered
           /\ FinishCloud(requests \ {r}, SetCtx(turns, ids, outcome.ctx))
  /\ UNCHANGED <<stopped, generation, pending, fastRuns, fastFlight, rejections,
                 spoken, lifeStart>>

(* The catch block: restore the unit in front of newer speech, but only the *)
(* speech that has no English on screen.                                    *)
CloudReject(r) ==
  /\ r \in requests
  /\ ~Stale(r)
  /\ rejections < MaxRejections
  /\ EarlyRejection \/ \A t \in ToSet(r.unit) : turns[t].prov # "pending"
  /\ rejections' = rejections + 1
  /\ pending' = RestoreInOrder(turns, r.unit)
  /\ FinishCloud(requests \ {r}, SetCtx(turns, ToSet(r.unit), "failed"))
  /\ UNCHANGED <<stopped, generation, chunks, fastRuns, fastFlight, spoken,
                 lifeStart, rendered>>

----------------------------------------------------------------------------
(* Lifecycle.                                                               *)

(* The turns invalidateOutstanding orphans, in the order it lists them: the *)
(* fast lane's turn first, then the recorded ones that still wait.          *)
FastOrphan ==
  IF fastFlight.turn # 0 /\ Waiting(fastFlight.turn) THEN <<fastFlight.turn>> ELSE <<>>

Orphans ==
  LET recorded == {t \in DOMAIN turns : t > Len(turns) - MaxTurnRecords /\ Waiting(t)}
  IN  FastOrphan \o Among([t \in DOMAIN turns |-> t], recorded \ ToSet(FastOrphan))

(* Mutations of InvalidateOutstanding: the coalesced unit survives; the fast *)
(* lane's turn is not settled.                                               *)
InvalidateKeepingQueue(restore) ==
  /\ generation' = generation + 1
  /\ turns' = [t \in DOMAIN turns |->
                 IF Waiting(t) THEN [turns[t] EXCEPT !.ctx = "stale"] ELSE turns[t]]
  /\ fastFlight' = NoFlight
  /\ cloud' = <<>>
  /\ pending' = IF restore THEN RestoreInOrder(turns, Orphans) ELSE pending
  /\ UNCHANGED <<queue, requests, fastRuns, rejections, spoken, rendered>>

InvalidateUnsettled(restore) ==
  /\ generation' = generation + 1
  /\ turns' = [t \in DOMAIN turns |->
                 IF Waiting(t) THEN [turns[t] EXCEPT !.ctx = "stale"] ELSE turns[t]]
  /\ fastFlight' = NoFlight
  /\ cloud' = <<>>
  /\ queue' = <<>>
  /\ pending' = IF restore THEN RestoreInOrder(turns, Orphans) ELSE pending
  /\ UNCHANGED <<requests, fastRuns, rejections, spoken, rendered>>

InvalidateOutstanding(restore) ==
  LET aborted == IF fastFlight.turn # 0 THEN SetProv(turns, fastFlight.turn, "stale")
                 ELSE turns
  IN  /\ generation' = generation + 1
      /\ turns' = [t \in DOMAIN aborted |->
                     IF t > Len(turns) - MaxTurnRecords /\ Waiting(t)
                     THEN [aborted[t] EXCEPT !.ctx = "stale"] ELSE aborted[t]]
      /\ fastFlight' = NoFlight
      /\ cloud' = <<>>
      /\ queue' = <<>>
      /\ pending' = IF restore THEN RestoreInOrder(aborted, Orphans) ELSE pending
      /\ UNCHANGED <<requests, fastRuns, rejections, spoken, rendered>>

(* stop: nothing outstanding may land, and everything editable is final.    *)
Stop ==
  /\ ~stopped
  /\ generation < MaxGeneration
  /\ stopped' = TRUE
  /\ InvalidateOutstanding(FALSE)
  /\ chunks' = CommitAll(ClearAnticipated(chunks))
  /\ UNCHANGED lifeStart

(* start on the same instance after a stop: a new life with an empty buffer.*)
Start ==
  /\ stopped
  /\ generation < MaxGeneration
  /\ generation' = generation + 1
  /\ stopped' = FALSE
  /\ pending' = <<>>
  /\ lifeStart' = spoken
  /\ UNCHANGED <<turns, chunks, requests, cloud, queue, fastRuns, fastFlight,
                 rejections, spoken, rendered>>

(* setContextMode and setLanguages: the contract of every outstanding       *)
(* request changed, so its speech goes back to be interpreted again, unless *)
(* the session is over.                                                     *)
ChangeContract ==
  /\ generation < MaxGeneration
  /\ InvalidateOutstanding(~stopped)
  /\ UNCHANGED <<stopped, chunks, lifeStart>>

----------------------------------------------------------------------------

FastResult(t) ==
  \/ FastResultTooLate(t)
  \/ FastResultUnusable(t)
  \/ FastResultSuperseded(t)
  \/ FastResultApplied(t)

Next ==
  \/ HandleStable
  \/ Elapse
  \/ \E ready \in Readiness : Tick(ready) \/ FlushPending(ready)
  \/ \E t \in fastRuns : FastResult(t)
  \/ \E r \in requests : CloudResultStale(r) \/ CloudResult(r) \/ CloudReject(r)
  \/ Stop
  \/ Start
  \/ ChangeContract

Spec == Init /\ [][Next]_vars

(* What the host and the platform guarantee.  The clock runs and the tick    *)
(* interval keeps firing: a stalled fast lane is timed out, and a buffer     *)
(* held for maxHoldMs flushes at a tick that finds the lane free whatever    *)
(* the fast lane says of its readiness.  Every cloud call settles: the cloud *)
(* lane bounds its attempts, and its local fallback waits for the fast lane  *)
(* only, which the tick times out.  The on-device translator owes nothing.   *)
TimingOutTick == \E ready \in Readiness : Tick(ready) /\ FastLaneTimedOut

FlushingTick ==
  /\ \A ready \in Readiness : CanFlush(ready, fastFlight)
  /\ \E ready \in Readiness : Tick(ready)
  /\ Len(turns') > Len(turns)

CloudSettles == \E r \in requests : CloudResult(r) \/ CloudReject(r)

FairSpec ==
  /\ Spec
  /\ WF_vars(Elapse)
  /\ WF_vars(TimingOutTick)
  /\ WF_vars(FlushingTick)
  /\ WF_vars(CloudSettles)

----------------------------------------------------------------------------
(* Properties.                                                              *)

(* "One request in flight per engine": of all the interpret() promises that *)
(* have not settled, at most one may still touch the engine, and the slot   *)
(* holds exactly that one.  A slot freed early, or never, breaks it.        *)
OneLiveRequest ==
  /\ \A r, q \in requests : ~Stale(r) /\ ~Stale(q) => r = q
  /\ \A r \in requests : ~Stale(r) => r.unit = cloud
  /\ cloud # <<>> => \E r \in requests : ~Stale(r)

(* The coalesced unit only ever waits behind a request: nothing else would  *)
(* dispatch it, so a unit left behind a free slot is never interpreted.     *)
NoStrandedQueue == queue # <<>> => cloud # <<>>

(* The records say of each turn which lane owes it English, and agree with  *)
(* the slots: a turn marked waiting that no slot holds is never interpreted *)
(* and is restored as a duplicate by the next contract change.              *)
RecordsMatchLanes ==
  \A t \in DOMAIN turns :
    /\ turns[t].ctx = "inflight" <=> t \in ToSet(cloud)
    /\ turns[t].ctx = "queued" <=> t \in ToSet(queue)
    /\ turns[t].prov = "pending" <=> t = fastFlight.turn

(* "A transient network failure must never turn into a missing sentence in  *)
(* the English stream": while the engine runs, whatever was said in this    *)
(* life is still buffered, still owed by the cloud, shown by the fast lane, *)
(* or answered by the cloud.  A rejection, a timeout, an overflow or a      *)
(* contract change loses nothing.                                           *)
Answered(t) ==
  turns[t].prov = "applied" \/ turns[t].ctx \in {"applied", "refined", "kept", "discarded"}

NoSpeechDropped ==
  ~stopped =>
    \A u \in (lifeStart + 1)..spoken :
      \/ u \in ToSet(pending)
      \/ \E t \in DOMAIN turns :
           u \in ToSet(turns[t].text) /\ (Waiting(t) \/ Answered(t))

(* Speech that has English on screen is not interpreted a second time, and  *)
(* no utterance is owed twice: restoring a unit must neither duplicate what *)
(* is buffered nor what a lane still holds or has shown.                    *)
SpeechInOnePlace ==
  LET owed == {t \in DOMAIN turns : Waiting(t)} IN
  /\ IsInjective(pending)
  /\ ToSet(pending) \cap (rendered \cup SpeechOf(turns, owed)) = {}
  /\ \A t, v \in owed : t # v => ToSet(turns[t].text) \cap ToSet(turns[v].text) = {}

(* stop() is final: no editable line survives it. *)
StoppedScreenIsFinal ==
  stopped => \A i \in DOMAIN chunks : chunks[i].st = "committed"

(* The editable lines stand in the order the speech came in, so a late      *)
(* answer for an older turn never reads as the newest sentence.             *)
EditableInStreamOrder ==
  \A i, j \in DOMAIN chunks :
    i < j /\ chunks[i].st = "current" /\ chunks[j].st = "current"
      => chunks[i].turn <= chunks[j].turn

----------------------------------------------------------------------------
(* What a step may never do.                                                *)

Place(c) == <<c.line, c.turn>>

LastCommitted ==
  Max({0} \cup {i \in DOMAIN chunks : chunks[i].st = "committed"})

(* A line the interpreter has probably said never changes, and neither does *)
(* anything above it: a step may only drop lines off the top of the view.   *)
FrozenDownTo(n) ==
  \E d \in 0..n :
    /\ d > 0 => Len(chunks') = MaxChunksInView
    /\ Len(chunks') >= n - d
    /\ \A i \in 1..(n - d) : Place(chunks'[i]) = Place(chunks[i + d])

SpokenLinesNeverChange == [][FrozenDownTo(LastCommitted)]_vars

(* A result of another generation (an answer that slips past the abort of a *)
(* stop, a restart or a contract change) reaches nothing the host can see.  *)
StaleResultsTouchNothing ==
  [][ (\E r \in requests : Stale(r) /\ r \notin requests')
        => UNCHANGED <<chunks, pending, queue, cloud, fastFlight, rendered>> ]_vars

----------------------------------------------------------------------------
(* Liveness.                                                                *)

(* Whatever was said is answered, or the session ends: no lost wake-up of   *)
(* the queue, and no lane held for ever by a translator that never answers. *)
Settled(u) ==
  /\ u \notin ToSet(pending)
  /\ \A t \in DOMAIN turns : u \in ToSet(turns[t].text) => ~Waiting(t)

SpeechIsAnswered ==
  \A u \in 1..MaxUtterances : (u <= spoken /\ ~stopped) ~> (Settled(u) \/ stopped)

============================================================================
