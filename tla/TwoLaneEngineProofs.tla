------------------------ MODULE TwoLaneEngineProofs ------------------------
(***************************************************************************)
(* Theorems about TwoLaneEngine, for every value of its constants: the     *)
(* contextual lane is single-flight across generations and the records say *)
(* what the lanes hold; no speech is lost or interpreted twice; and a line *)
(* the interpreter has probably said never changes.                        *)
(***************************************************************************)
EXTENDS TwoLaneEngine, ChunkStoreProofs


----------------------------------------------------------------------------
(* The inductive invariant.  The slot `cloud` says nothing of generations;  *)
(* it is right because a contract change, which empties it, also outdates   *)
(* every request there is, and a stop does both.                            *)

Live(r) == ~Stale(r)

RequestsInv ==
  \A r \in requests : r.unit # <<>> /\ r.gen \in Nat /\ r.gen <= generation

SlotInv ==
  /\ \A r, q \in requests : Live(r) /\ Live(q) => r = q
  /\ \A r \in requests : Live(r) => r.unit = cloud
  /\ cloud # <<>> => \E r \in requests : Live(r)
  /\ queue # <<>> => cloud # <<>>

LaneInv ==
  /\ generation \in Nat
  /\ stopped => cloud = <<>>
  /\ RequestsInv
  /\ SlotInv

lane == <<stopped, generation, requests, cloud, queue>>

----------------------------------------------------------------------------
(* The ways an action may change the lane. *)

(* Nothing of it changes. *)
LEMMA LaneUntouched ==
  ASSUME LaneInv, UNCHANGED lane
  PROVE  LaneInv'
BY DEF LaneInv, RequestsInv, SlotInv, Live, Stale, lane

(* The free slot is taken by a request for a unit. *)
LEMMA DispatchStep ==
  ASSUME generation \in Nat, ~stopped, RequestsInv,
         NEW open \in SUBSET requests, \A r \in open : Stale(r),
         NEW ts, NEW unit, unit # <<>>,
         Dispatch(open, ts, unit), queue' = <<>>,
         UNCHANGED <<stopped, generation>>
  PROVE  LaneInv'
<1>1. PICK allow : /\ cloud' = unit
                   /\ requests' = open \cup
                        {[unit |-> unit, gen |-> generation, allow |-> allow]}
  BY DEF Dispatch
<1> DEFINE new == [unit |-> unit, gen |-> generation, allow |-> allow]
<1>2. new.unit = unit /\ new.gen = generation
  OBVIOUS
<1>3. requests' = open \cup {new}
  BY <1>1
<1> HIDE DEF new
<1>4. RequestsInv'
  BY <1>2, <1>3 DEF RequestsInv
<1>5. \A r \in requests' : Live(r)' <=> r = new
  BY <1>2, <1>3 DEF Live, Stale
<1>6. SlotInv'
  BY <1>1, <1>2, <1>3, <1>5 DEF SlotInv
<1> QED BY <1>1, <1>4, <1>6 DEF LaneInv

(* The finally block: the live request is gone, the slot is free or holds   *)
(* the coalesced unit.                                                      *)
LEMMA FinishCloudStep ==
  ASSUME LaneInv, ~stopped, NEW r \in requests, Live(r), NEW ts,
         FinishCloud(requests \ {r}, ts),
         UNCHANGED <<stopped, generation>>
  PROVE  LaneInv'
<1>1. \A q \in requests \ {r} : Stale(q)
  BY DEF LaneInv, SlotInv, Live
<1>2. CASE queue = <<>>
  <2>1. cloud' = <<>> /\ queue' = <<>> /\ requests' = requests \ {r}
    BY <1>2 DEF FinishCloud
  <2> QED BY <1>1, <2>1 DEF LaneInv, RequestsInv, SlotInv, Live, Stale
<1>3. CASE queue # <<>>
  <2>1. Dispatch(requests \ {r}, ts, queue) /\ queue' = <<>>
    BY <1>3 DEF FinishCloud
  <2> QED BY <1>1, <1>3, <2>1, DispatchStep DEF LaneInv
<1> QED BY <1>2, <1>3

(* A new turn joins the queue behind a busy slot, or takes a free one. *)
LEMMA ScheduleStep ==
  ASSUME LaneInv, ~stopped, NEW ts, NEW id, ScheduleContextual(ts, id),
         UNCHANGED <<stopped, generation>>
  PROVE  LaneInv'
<1>1. CASE cloud # <<>>
  <2>1. UNCHANGED <<cloud, requests>>
    BY <1>1 DEF ScheduleContextual
  <2> QED BY <1>1, <2>1 DEF LaneInv, RequestsInv, SlotInv, Live, Stale
<1>2. CASE cloud = <<>>
  <2>1. Dispatch(requests, ts, <<id>>) /\ queue' = queue
    BY <1>2 DEF ScheduleContextual
  <2>2. queue = <<>>
    BY <1>2 DEF LaneInv, SlotInv
  <2>3. \A r \in requests : Stale(r)
    BY <1>2 DEF LaneInv, RequestsInv, SlotInv, Live
  <2>4. <<id>> # <<>>
    OBVIOUS
  <2> QED BY <2>1, <2>2, <2>3, <2>4, DispatchStep DEF LaneInv
<1> QED BY <1>1, <1>2

(* Every request is outdated at once, and the slot emptied. *)
LEMMA InvalidateStep ==
  ASSUME LaneInv, NEW restore, InvalidateOutstanding(restore)
  PROVE  LaneInv'
<1>1. /\ generation' = generation + 1 /\ cloud' = <<>> /\ queue' = <<>>
      /\ requests' = requests
  BY DEF InvalidateOutstanding
<1>2. RequestsInv'
  BY <1>1 DEF LaneInv, RequestsInv
<1>3. \A r \in requests' : ~Live(r)'
  BY <1>1 DEF LaneInv, RequestsInv, Live, Stale
<1> QED BY <1>1, <1>2, <1>3 DEF LaneInv, SlotInv

----------------------------------------------------------------------------
(* The invariant is inductive. *)

(* Every step keeps LaneInv.                                                *)
LEMMA NextLaneInv ==
  ASSUME LaneInv, [Next]_vars
  PROVE  LaneInv'
<1>1. CASE UNCHANGED vars
  BY <1>1, LaneUntouched DEF vars, lane
<1>2. CASE HandleStable \/ Elapse
  BY <1>2, LaneUntouched DEF HandleStable, Elapse, lane
<1>3. ASSUME NEW ready \in Readiness, Tick(ready) \/ FlushPending(ready)
      PROVE  LaneInv'
  <2>1. ~stopped /\ UNCHANGED <<stopped, generation>>
    BY <1>3 DEF Tick, FlushPending
  <2>2. \/ \E ts, id : ScheduleContextual(ts, id)
        \/ UNCHANGED <<requests, cloud, queue>>
    BY <1>3 DEF Tick, FlushPending, Flush
  <2> QED BY <2>1, <2>2, ScheduleStep, LaneUntouched DEF lane
<1>4. ASSUME NEW t \in fastRuns, FastResult(t)
      PROVE  LaneInv'
  BY <1>4, LaneUntouched
     DEF FastResult, FastResultTooLate, FastResultUnusable, FastResultSuperseded,
         FastResultApplied, lane
<1>5. ASSUME NEW r \in requests, CloudResultStale(r)
      PROVE  LaneInv'
  BY <1>5 DEF CloudResultStale, LaneInv, RequestsInv, SlotInv, Live, Stale
<1>6. ASSUME NEW r \in requests, CloudResult(r) \/ CloudReject(r)
      PROVE  LaneInv'
  <2>1. /\ Live(r) /\ ~stopped /\ UNCHANGED <<stopped, generation>>
        /\ \E ts : FinishCloud(requests \ {r}, ts)
    BY <1>6 DEF CloudResult, CloudReject, Live, Stale
  <2> QED BY <2>1, FinishCloudStep
<1>7. CASE Stop \/ ChangeContract
  BY <1>7, InvalidateStep DEF Stop, ChangeContract
<1>8. CASE Start
  <2>1. /\ generation' = generation + 1 /\ stopped' = FALSE
        /\ UNCHANGED <<requests, cloud, queue>> /\ cloud = <<>> /\ queue = <<>>
    BY <1>8 DEF Start, LaneInv, SlotInv
  <2>2. RequestsInv'
    BY <2>1 DEF LaneInv, RequestsInv
  <2>3. \A r \in requests' : ~Live(r)'
    BY <2>1 DEF LaneInv, RequestsInv, Live, Stale
  <2> QED BY <2>1, <2>2, <2>3 DEF LaneInv, SlotInv
<1> QED
  BY <1>1, <1>2, <1>3, <1>4, <1>5, <1>6, <1>7, <1>8 DEF Next

(* The contextual lane of every reachable state satisfies LaneInv. *)
THEOREM SpecLaneInv == Spec => []LaneInv
<1>1. Init => LaneInv
  BY DEF Init, LaneInv, RequestsInv, SlotInv
<1>2. LaneInv /\ [Next]_vars => LaneInv'
  BY NextLaneInv
<1> QED BY <1>1, <1>2, PTL DEF Spec

----------------------------------------------------------------------------
(* The turns and the lanes.  Most actions change several of them in turn,   *)
(* so what holds of them is stated for a list of turns `ts`, a slot `cl`,   *)
(* a queue `qu` and a fast lane's turn `f`.                                 *)

Waits(ts, t) == ts[t].ctx \in {"inflight", "queued"}

(* The slot is a stretch of turns, the queue the newest ones; what the      *)
(* records say of a turn is what the lanes hold; and a turn both kinds of   *)
(* lane owe is the newest.  (A turn that is no longer recorded keeps a mark *)
(* nobody reads.)                                                           *)
Lanes(ts, cl, qu, f) ==
  /\ ts \in Seq(Turn) /\ cl \in Seq(1..Len(ts)) /\ qu \in Seq(1..Len(ts))
  /\ f \in 0..Len(ts)
  /\ \A i \in 1..Len(cl) : cl[i] = cl[1] + (i - 1)
  /\ \A i \in 1..Len(qu) : qu[i] = (Len(ts) - Len(qu)) + i
  /\ ToSet(cl) \cap ToSet(qu) = {}
  /\ \A t \in 1..Len(ts) :
       /\ t \in ToSet(cl) => ts[t].ctx = "inflight"
       /\ t \in ToSet(qu) => ts[t].ctx = "queued"
       /\ Waits(ts, t) /\ t > Len(ts) - MaxTurnRecords => t \in ToSet(cl) \cup ToSet(qu)
       /\ ts[t].prov = "pending" <=> t = f
  /\ f \in ToSet(cl) \cup ToSet(qu) => f = Len(ts)

(* A turn with another contextual state is a turn.                          *)
LEMMA TurnWithCtx ==
  ASSUME NEW c \in Turn, NEW s \in ContextualState
  PROVE  /\ [c EXCEPT !.ctx = s] \in Turn /\ [c EXCEPT !.ctx = s].ctx = s
         /\ [c EXCEPT !.ctx = s].prov = c.prov /\ [c EXCEPT !.ctx = s].text = c.text
BY DEF Turn

(* A turn with another provisional state is a turn.                         *)
LEMMA TurnWithProv ==
  ASSUME NEW c \in Turn, NEW s \in ProvisionalState
  PROVE  /\ [c EXCEPT !.prov = s] \in Turn /\ [c EXCEPT !.prov = s].prov = s
         /\ [c EXCEPT !.prov = s].ctx = c.ctx /\ [c EXCEPT !.prov = s].text = c.text
BY DEF Turn

(* A sequence of turns has turns at 1 to its length.                        *)
LEMMA TurnTypes ==
  ASSUME NEW ts \in Seq(Turn)
  PROVE  /\ Len(ts) \in Nat /\ DOMAIN ts = 1..Len(ts)
         /\ \A t \in 1..Len(ts) :
              /\ ts[t] \in Turn /\ ts[t].text \in Seq(Nat)
              /\ ts[t].prov \in ProvisionalState /\ ts[t].ctx \in ContextualState
<1>1. \A c \in Turn : /\ c.text \in Seq(Nat)
                     /\ c.prov \in ProvisionalState /\ c.ctx \in ContextualState
  BY DEF Turn
<1>2. \A t \in 1..Len(ts) : ts[t] \in Turn
  BY ElementOfSeq
<1> QED BY <1>1, <1>2, LenProperties

(* A turn for each of the turns makes a sequence as long as theirs.         *)
LEMMA MapOfTurns ==
  ASSUME NEW ts \in Seq(Turn), NEW us \in [1..Len(ts) -> Turn]
  PROVE  us \in Seq(Turn) /\ Len(us) = Len(ts)
<1>1. Len(ts) \in Nat
  BY LenProperties
<1>2. us \in Seq(Turn)
  BY <1>1, SeqDef
<1>3. DOMAIN us = 1..Len(us) /\ Len(us) \in Nat
  BY <1>2, LenProperties
<1> QED BY <1>1, <1>2, <1>3

(* us has the turns of ts, saying the same. *)
SameSpeech(ts, us) ==
  /\ us \in Seq(Turn) /\ Len(us) = Len(ts)
  /\ \A t \in 1..Len(ts) : us[t].text = ts[t].text

(* SetCtx changes the contextual state of the turns it is given, only.      *)
LEMMA SetCtxProperties ==
  ASSUME NEW ts \in Seq(Turn), NEW ids, NEW state \in ContextualState
  PROVE  /\ SameSpeech(ts, SetCtx(ts, ids, state))
         /\ \A t \in 1..Len(ts) :
              /\ SetCtx(ts, ids, state)[t].ctx = IF t \in ids THEN state ELSE ts[t].ctx
              /\ SetCtx(ts, ids, state)[t].prov = ts[t].prov
<1> DEFINE us == SetCtx(ts, ids, state)
<1>1. DOMAIN ts = 1..Len(ts) /\ \A t \in 1..Len(ts) : ts[t] \in Turn
  BY TurnTypes
<1>2. /\ us = [t \in 1..Len(ts) |-> us[t]]
      /\ \A t \in 1..Len(ts) :
           us[t] = IF t \in ids THEN [ts[t] EXCEPT !.ctx = state] ELSE ts[t]
  BY <1>1 DEF SetCtx
<1> HIDE DEF us
<1>3. \A t \in 1..Len(ts) :
        /\ us[t] \in Turn /\ us[t].ctx = IF t \in ids THEN state ELSE ts[t].ctx
        /\ us[t].prov = ts[t].prov /\ us[t].text = ts[t].text
  <2> TAKE t \in 1..Len(ts)
  <2>1. CASE t \in ids
    <3>1. us[t] = [ts[t] EXCEPT !.ctx = state] /\ ts[t] \in Turn
      BY <1>1, <1>2, <2>1
    <3> QED BY <2>1, <3>1, TurnWithCtx
  <2>2. CASE t \notin ids
    BY <1>1, <1>2, <2>2
  <2> QED BY <2>1, <2>2
<1>4. us \in Seq(Turn) /\ Len(us) = Len(ts)
  <2>1. us \in [1..Len(ts) -> Turn]
    BY <1>2, <1>3
  <2> QED BY <2>1, MapOfTurns
<1> QED BY <1>3, <1>4 DEF us, SameSpeech

(* SetProv changes the provisional state of one turn, only.                 *)
LEMMA SetProvProperties ==
  ASSUME NEW ts \in Seq(Turn), NEW id \in 1..Len(ts), NEW state \in ProvisionalState
  PROVE  /\ SameSpeech(ts, SetProv(ts, id, state))
         /\ \A t \in 1..Len(ts) :
              /\ SetProv(ts, id, state)[t].prov = IF t = id THEN state ELSE ts[t].prov
              /\ SetProv(ts, id, state)[t].ctx = ts[t].ctx
<1> DEFINE us == SetProv(ts, id, state)
<1>1. DOMAIN ts = 1..Len(ts) /\ \A t \in 1..Len(ts) : ts[t] \in Turn
  BY TurnTypes
<1>2. /\ us = [t \in 1..Len(ts) |-> us[t]]
      /\ \A t \in 1..Len(ts) :
           us[t] = IF t = id THEN [ts[t] EXCEPT !.prov = state] ELSE ts[t]
  BY <1>1 DEF SetProv
<1> HIDE DEF us
<1>3. \A t \in 1..Len(ts) :
        /\ us[t] \in Turn /\ us[t].prov = IF t = id THEN state ELSE ts[t].prov
        /\ us[t].ctx = ts[t].ctx /\ us[t].text = ts[t].text
  <2> TAKE t \in 1..Len(ts)
  <2>1. CASE t = id
    <3>1. us[t] = [ts[t] EXCEPT !.prov = state] /\ ts[t] \in Turn
      BY <1>1, <1>2, <2>1
    <3> QED BY <2>1, <3>1, TurnWithProv
  <2>2. CASE t # id
    BY <1>1, <1>2, <2>2
  <2> QED BY <2>1, <2>2
<1>4. us \in Seq(Turn) /\ Len(us) = Len(ts)
  <2>1. us \in [1..Len(ts) -> Turn]
    BY <1>2, <1>3
  <2> QED BY <2>1, MapOfTurns
<1> QED BY <1>3, <1>4 DEF us, SameSpeech

(* A list of turns, its members and the stretch they make. *)
LEMMA UnitTypes ==
  ASSUME NEW n \in Nat, NEW s \in Seq(1..n)
  PROVE  /\ Len(s) \in Nat /\ DOMAIN s = 1..Len(s)
         /\ \A i \in 1..Len(s) : s[i] \in 1..n /\ s[i] \in Nat
         /\ ToSet(s) \subseteq 1..n
         /\ \A x : x \in ToSet(s) <=> \E i \in 1..Len(s) : s[i] = x
<1>1. \A i \in 1..Len(s) : s[i] \in 1..n
  BY ElementOfSeq
<1>2. \A i \in 1..Len(s) : s[i] \in Nat
  BY <1>1
<1> QED BY <1>1, <1>2, LenProperties, ToSetProperties

(* The numbers a + 1, a + 2, ... *)
LEMMA Stretch ==
  ASSUME NEW a \in Int, NEW s \in Seq(Nat), \A i \in 1..Len(s) : s[i] = a + i
  PROVE  ToSet(s) = (a + 1)..(a + Len(s))
<1>1. /\ Len(s) \in Nat /\ \A i \in 1..Len(s) : s[i] \in Nat
      /\ \A x : x \in ToSet(s) <=> \E i \in 1..Len(s) : s[i] = x
  BY LenProperties, ElementOfSeq, ToSetProperties
<1>2. ASSUME NEW x \in ToSet(s)
      PROVE  x \in (a + 1)..(a + Len(s))
  <2>1. PICK i \in 1..Len(s) : s[i] = x
    BY <1>1
  <2>2. x = a + i /\ x \in Nat
    BY <1>1, <2>1
  <2> QED BY <1>1, <2>2
<1>3. ASSUME NEW x \in (a + 1)..(a + Len(s))
      PROVE  x \in ToSet(s)
  <2>1. x - a \in 1..Len(s)
    BY <1>1
  <2>2. s[x - a] = a + (x - a)
    BY <2>1
  <2>3. s[x - a] = x
    BY <1>1, <2>2
  <2> QED BY <1>1, <2>1, <2>3
<1> QED BY <1>2, <1>3

(* A unit of turns is a sequence of numbers.                                *)
LEMMA UnitIsNumbers ==
  ASSUME NEW n \in Nat, NEW s \in Seq(1..n)
  PROVE  s \in Seq(Nat)
<1>1. Len(s) \in Nat /\ s \in [1..Len(s) -> 1..n]
  BY LenProperties
<1>2. s \in [1..Len(s) -> Nat]
  BY <1>1
<1> QED BY <1>1, <1>2, SeqDef

(* What the lanes hold, as sets of turns. *)
LEMMA LanesTypes ==
  ASSUME NEW ts, NEW cl, NEW qu, NEW f, Lanes(ts, cl, qu, f)
  PROVE  /\ ts \in Seq(Turn) /\ Len(ts) \in Nat /\ f \in 0..Len(ts) /\ f \in Nat
         /\ \A t \in 1..Len(ts) : ts[t].ctx \in ContextualState /\ ts[t].prov \in ProvisionalState
         /\ cl \in Seq(1..Len(ts)) /\ Len(cl) \in Nat
         /\ qu \in Seq(1..Len(ts)) /\ Len(qu) \in Nat
         /\ \A i \in 1..Len(cl) : cl[i] \in 1..Len(ts) /\ cl[i] \in Nat
         /\ \A i \in 1..Len(qu) : qu[i] \in 1..Len(ts) /\ qu[i] \in Nat
         /\ ToSet(cl) \subseteq 1..Len(ts) /\ ToSet(qu) \subseteq 1..Len(ts)
         /\ ToSet(qu) = (Len(ts) - Len(qu) + 1)..Len(ts)
         /\ cl # <<>> => /\ Len(cl) # 0 /\ cl[1] \in 1..Len(ts)
                         /\ ToSet(cl) = cl[1]..cl[Len(cl)]
                         /\ cl[Len(cl)] \in 1..Len(ts) /\ cl[1] <= cl[Len(cl)]
<1>1. /\ ts \in Seq(Turn) /\ f \in 0..Len(ts)
      /\ cl \in Seq(1..Len(ts)) /\ qu \in Seq(1..Len(ts))
  BY DEF Lanes
<1>2. Len(ts) \in Nat
  BY <1>1, LenProperties
<1>3. \A t \in 1..Len(ts) : ts[t].ctx \in ContextualState /\ ts[t].prov \in ProvisionalState
  BY <1>1, TurnTypes
<1>4. /\ Len(cl) \in Nat /\ Len(qu) \in Nat
      /\ \A i \in 1..Len(cl) : cl[i] \in 1..Len(ts) /\ cl[i] \in Nat
      /\ \A i \in 1..Len(qu) : qu[i] \in 1..Len(ts) /\ qu[i] \in Nat
      /\ ToSet(cl) \subseteq 1..Len(ts) /\ ToSet(qu) \subseteq 1..Len(ts)
  BY <1>1, <1>2, UnitTypes
<1>5. ToSet(qu) = (Len(ts) - Len(qu) + 1)..Len(ts)
  <2>1. qu \in Seq(Nat) /\ Len(ts) - Len(qu) \in Int
    BY <1>1, <1>2, <1>4, UnitIsNumbers
  <2>2. \A i \in 1..Len(qu) : qu[i] = (Len(ts) - Len(qu)) + i
    BY DEF Lanes
  <2>3. ToSet(qu) = (Len(ts) - Len(qu) + 1)..((Len(ts) - Len(qu)) + Len(qu))
    BY <2>1, <2>2, Stretch
  <2>4. (Len(ts) - Len(qu)) + Len(qu) = Len(ts)
    BY <1>2, <1>4
  <2> QED BY <2>3, <2>4
<1>6. ASSUME cl # <<>>
      PROVE  /\ Len(cl) # 0 /\ cl[1] \in 1..Len(ts)
             /\ ToSet(cl) = cl[1]..cl[Len(cl)]
             /\ cl[Len(cl)] \in 1..Len(ts) /\ cl[1] <= cl[Len(cl)]
  <2>1. Len(cl) # 0
    BY <1>1, <1>6, EmptySeq
  <2>2. 1 \in 1..Len(cl) /\ Len(cl) \in 1..Len(cl)
    BY <1>4, <2>1
  <2>3. cl[1] \in 1..Len(ts) /\ cl[1] \in Nat /\ cl[Len(cl)] \in 1..Len(ts)
    BY <1>4, <2>2
  <2>4. \A i \in 1..Len(cl) : cl[i] = (cl[1] - 1) + i
    <3>1. \A i \in 1..Len(cl) : cl[i] = cl[1] + (i - 1)
      BY DEF Lanes
    <3> QED BY <2>3, <3>1
  <2>5. cl \in Seq(Nat) /\ cl[1] - 1 \in Int
    BY <1>1, <1>2, <2>3, UnitIsNumbers
  <2>6. ToSet(cl) = ((cl[1] - 1) + 1)..((cl[1] - 1) + Len(cl))
    BY <2>4, <2>5, Stretch
  <2>7. (cl[1] - 1) + 1 = cl[1] /\ cl[Len(cl)] = (cl[1] - 1) + Len(cl) /\ cl[1] <= cl[Len(cl)]
    BY <1>4, <2>1, <2>2, <2>3, <2>4
  <2> QED BY <2>1, <2>3, <2>6, <2>7
<1> QED BY <1>1, <1>2, <1>3, <1>4, <1>5, <1>6

----------------------------------------------------------------------------
(* The ways a list of turns and its lanes change. *)

(* No unit, no turns in it.                                                 *)
LEMMA NoUnit ==
  ASSUME NEW n \in Nat
  PROVE  /\ <<>> \in Seq(1..n) /\ Len(<<>>) = 0 /\ ToSet(<<>>) = {}
         /\ 1..Len(<<>>) = {}
<1>1. <<>> \in Seq(1..n) /\ Len(<<>>) = 0 /\ DOMAIN <<>> = {}
  BY EmptySeq, LenProperties
<1> QED BY <1>1 DEF ToSet

(* A verdict on the fast lane's turn frees the lane. *)
LEMMA VerdictLanes ==
  ASSUME NEW ts, NEW cl, NEW qu, NEW f, Lanes(ts, cl, qu, f), f # 0,
         NEW s \in ProvisionalState \ {"pending"}
  PROVE  Lanes(SetProv(ts, f, s), cl, qu, 0)
<1> DEFINE us == SetProv(ts, f, s)
<1>1. ts \in Seq(Turn) /\ Len(ts) \in Nat /\ f \in 1..Len(ts)
  BY LanesTypes
<1>2. /\ us \in Seq(Turn) /\ Len(us) = Len(ts)
      /\ \A t \in 1..Len(ts) : us[t].prov = IF t = f THEN s ELSE ts[t].prov
      /\ \A t \in 1..Len(ts) : us[t].ctx = ts[t].ctx
  BY <1>1, SetProvProperties DEF SameSpeech
<1> HIDE DEF us
<1>3. \A t \in 1..Len(ts) : us[t].prov # "pending" /\ t # 0
  <2> TAKE t \in 1..Len(ts)
  <2>1. ts[t].prov = "pending" <=> t = f
    BY DEF Lanes
  <2> QED BY <1>2, <2>1
<1>4. Lanes(us, cl, qu, 0)
  <2>1. 0 \in 0..Len(us) /\ 0 \notin ToSet(cl) \cup ToSet(qu)
    BY <1>1, <1>2, LanesTypes
  <2> QED BY <1>2, <1>3, <2>1 DEF Lanes, Waits
<1> QED BY <1>4 DEF us

(* Turns no lane holds are marked stale. *)
LEMMA StaleLanes ==
  ASSUME NEW ts, NEW cl, NEW qu, NEW f, Lanes(ts, cl, qu, f),
         NEW ids, ids \cap (ToSet(cl) \cup ToSet(qu)) = {}
  PROVE  Lanes(SetCtx(ts, ids, "stale"), cl, qu, f)
<1> DEFINE us == SetCtx(ts, ids, "stale")
<1>1. "stale" \in ContextualState
  BY DEF ContextualState
<1>2. /\ us \in Seq(Turn) /\ Len(us) = Len(ts)
      /\ \A t \in 1..Len(ts) : us[t].ctx = IF t \in ids THEN "stale" ELSE ts[t].ctx
      /\ \A t \in 1..Len(ts) : us[t].prov = ts[t].prov
  BY <1>1, LanesTypes, SetCtxProperties DEF SameSpeech
<1> HIDE DEF us
<1>3. \A t \in 1..Len(ts) :
        /\ t \in ToSet(cl) => us[t].ctx = "inflight"
        /\ t \in ToSet(qu) => us[t].ctx = "queued"
        /\ Waits(us, t) => Waits(ts, t)
        /\ us[t].prov = "pending" <=> t = f
  BY <1>2 DEF Lanes, Waits
<1>4. Lanes(us, cl, qu, f)
  BY <1>2, <1>3 DEF Lanes
<1> QED BY <1>4 DEF us

(* The request's unit is settled: the slot is free. *)
LEMMA ReleaseLanes ==
  ASSUME NEW ts, NEW cl, NEW qu, NEW f, Lanes(ts, cl, qu, f),
         NEW s \in ContextualState \ {"inflight", "queued"}
  PROVE  Lanes(SetCtx(ts, ToSet(cl), s), <<>>, qu, f)
<1> DEFINE us == SetCtx(ts, ToSet(cl), s)
<1>1. ts \in Seq(Turn) /\ Len(ts) \in Nat
  BY LanesTypes
<1>2. /\ us \in Seq(Turn) /\ Len(us) = Len(ts)
      /\ \A t \in 1..Len(ts) : us[t].ctx = IF t \in ToSet(cl) THEN s ELSE ts[t].ctx
      /\ \A t \in 1..Len(ts) : us[t].prov = ts[t].prov
  BY <1>1, SetCtxProperties DEF SameSpeech
<1> HIDE DEF us
<1>3. \A t \in 1..Len(ts) :
        /\ t \in ToSet(qu) => us[t].ctx = "queued"
        /\ Waits(us, t) /\ t > Len(ts) - MaxTurnRecords => t \in ToSet(qu)
        /\ us[t].prov = "pending" <=> t = f
  BY <1>2 DEF Lanes, Waits
<1>4. /\ <<>> \in Seq(1..Len(us)) /\ ToSet(<<>>) = {}
      /\ \A i \in 1..Len(<<>>) : <<>>[i] = <<>>[1] + (i - 1)
  BY <1>1, <1>2, NoUnit
<1>5. Lanes(us, <<>>, qu, f)
  BY <1>2, <1>3, <1>4 DEF Lanes
<1> QED BY <1>5 DEF us

(* The queue is dispatched. *)
LEMMA PromoteLanes ==
  ASSUME NEW ts, NEW qu, NEW f, Lanes(ts, <<>>, qu, f)
  PROVE  Lanes(SetCtx(ts, ToSet(qu), "inflight"), qu, <<>>, f)
<1> DEFINE us == SetCtx(ts, ToSet(qu), "inflight")
<1>1. /\ ts \in Seq(Turn) /\ Len(ts) \in Nat /\ "inflight" \in ContextualState
      /\ \A i \in 1..Len(qu) : qu[i] \in Nat
      /\ Len(qu) \in Nat
  BY LanesTypes DEF ContextualState
<1>2. /\ us \in Seq(Turn) /\ Len(us) = Len(ts)
      /\ \A t \in 1..Len(ts) : us[t].ctx = IF t \in ToSet(qu) THEN "inflight" ELSE ts[t].ctx
      /\ \A t \in 1..Len(ts) : us[t].prov = ts[t].prov
  BY <1>1, SetCtxProperties DEF SameSpeech
<1> HIDE DEF us
<1>3. /\ <<>> \in Seq(1..Len(us)) /\ ToSet(<<>>) = {}
      /\ \A i \in 1..Len(<<>>) : <<>>[i] = (Len(us) - Len(<<>>)) + i
  BY <1>1, <1>2, NoUnit
<1>4. \A t \in 1..Len(ts) :
        /\ t \in ToSet(qu) => us[t].ctx = "inflight"
        /\ Waits(us, t) /\ t > Len(ts) - MaxTurnRecords => t \in ToSet(qu)
        /\ us[t].prov = "pending" <=> t = f
  BY <1>2, <1>3 DEF Lanes, Waits
<1>5. \A i \in 1..Len(qu) : qu[i] = qu[1] + (i - 1)
  <2> TAKE i \in 1..Len(qu)
  <2>1. 1 \in 1..Len(qu)
    BY <1>1
  <2>2. qu[i] = (Len(ts) - Len(qu)) + i /\ qu[1] = (Len(ts) - Len(qu)) + 1
    BY <2>1 DEF Lanes
  <2> QED BY <1>1, <2>2
<1>6. Lanes(us, qu, <<>>, f)
  BY <1>2, <1>3, <1>4, <1>5 DEF Lanes
<1> QED BY <1>6 DEF us

(* Everything outstanding is invalidated. *)
LEMMA InvalidateLanes ==
  ASSUME NEW ts, NEW cl, NEW qu, NEW f, Lanes(ts, cl, qu, f),
         NEW us, SameSpeech(ts, us),
         \A t \in 1..Len(ts) :
           /\ us[t].prov = IF t = f THEN "stale" ELSE ts[t].prov
           /\ us[t].ctx = IF t > Len(ts) - MaxTurnRecords /\ Waits(ts, t)
                          THEN "stale" ELSE ts[t].ctx
  PROVE  Lanes(us, <<>>, <<>>, 0)
<1>1. ts \in Seq(Turn) /\ Len(ts) \in Nat /\ us \in Seq(Turn) /\ Len(us) = Len(ts)
  BY LanesTypes DEF SameSpeech
<1>2. /\ <<>> \in Seq(1..Len(us)) /\ ToSet(<<>>) = {} /\ 1..Len(<<>>) = {}
  BY <1>1, NoUnit
<1>3. ASSUME NEW t \in 1..Len(ts)
      PROVE  us[t].prov # "pending"
  BY <1>3 DEF Lanes
<1>4. ASSUME NEW t \in 1..Len(ts), Waits(us, t), t > Len(ts) - MaxTurnRecords
      PROVE  FALSE
  BY <1>4 DEF Waits
<1>5. 0 \in 0..Len(us) /\ \A t \in 1..Len(us) : t # 0
  BY <1>1
<1> QED BY <1>1, <1>2, <1>3, <1>4, <1>5 DEF Lanes

(* A new turn joins the queue; g is the fast lane's turn with it. *)
LEMMA JoinLanes ==
  ASSUME NEW ts, NEW cl, NEW qu, NEW f, Lanes(ts, cl, qu, f),
         NEW new \in Turn, new.ctx = "queued",
         NEW g, \/ g = f /\ new.prov # "pending" /\ f \notin ToSet(cl) \cup ToSet(qu)
                \/ g = Len(ts) + 1 /\ new.prov = "pending" /\ f = 0
  PROVE  Lanes(Append(ts, new), cl, Append(qu, Len(ts) + 1), g)
<1> DEFINE us == Append(ts, new)
           n  == Len(ts)
           qq == Append(qu, n + 1)
<1>1. /\ ts \in Seq(Turn) /\ n \in Nat /\ f \in 0..n /\ cl \in Seq(1..n) /\ qu \in Seq(1..n)
      /\ ToSet(cl) \subseteq 1..n /\ ToSet(qu) \subseteq 1..n
      /\ Len(qu) \in Nat /\ \A i \in 1..Len(qu) : qu[i] \in 1..n
  BY LanesTypes
<1>2. /\ us \in Seq(Turn) /\ Len(us) = n + 1 /\ us[n + 1] = new
      /\ \A t \in 1..n : us[t] = ts[t]
  BY <1>1, AppendProperties
<1>3. /\ cl \in Seq(1..(n + 1)) /\ qu \in Seq(1..(n + 1)) /\ n + 1 \in 1..(n + 1)
  <2>1. /\ cl \in [1..Len(cl) -> 1..n] /\ Len(cl) \in Nat
        /\ qu \in [1..Len(qu) -> 1..n]
    BY <1>1, LenProperties
  <2>2. \A i \in 1..n : i \in 1..(n + 1)
    BY <1>1
  <2>3. cl \in [1..Len(cl) -> 1..(n + 1)] /\ qu \in [1..Len(qu) -> 1..(n + 1)]
    BY <2>1, <2>2
  <2> QED BY <1>1, <2>1, <2>3, SeqDef
<1>4. /\ qq \in Seq(1..(n + 1)) /\ Len(qq) = Len(qu) + 1 /\ qq[Len(qu) + 1] = n + 1
      /\ \A i \in 1..Len(qu) : qq[i] = qu[i]
      /\ ToSet(qq) = ToSet(qu) \cup {n + 1}
  BY <1>3, AppendProperties, ToSetAppend
<1>5. \A t \in 1..(n + 1) : t \in 1..n \/ t = n + 1
  BY <1>1
<1> HIDE DEF us, qq
<1>6. \A i \in 1..Len(qq) : qq[i] = (Len(us) - Len(qq)) + i
  <2> TAKE i \in 1..Len(qq)
  <2>1. CASE i = Len(qu) + 1
    BY <1>1, <1>2, <1>4, <2>1
  <2>2. CASE i # Len(qu) + 1
    <3>1. i \in 1..Len(qu)
      BY <1>1, <1>4, <2>2
    <3>2. qu[i] = (n - Len(qu)) + i
      BY <3>1 DEF Lanes
    <3> QED BY <1>1, <1>2, <1>4, <3>1, <3>2
  <2> QED BY <2>1, <2>2
<1>7. ToSet(cl) \cap ToSet(qq) = {}
  <2>1. ToSet(cl) \cap ToSet(qu) = {} /\ n + 1 \notin 1..n
    BY <1>1 DEF Lanes
  <2> QED BY <1>1, <1>4, <2>1
<1>8. ASSUME NEW t \in 1..Len(us)
      PROVE  /\ t \in ToSet(cl) => us[t].ctx = "inflight"
             /\ t \in ToSet(qq) => us[t].ctx = "queued"
             /\ Waits(us, t) /\ t > Len(us) - MaxTurnRecords => t \in ToSet(cl) \cup ToSet(qq)
             /\ us[t].prov = "pending" <=> t = g
  <2>1. CASE t = n + 1
    <3>1. t \notin ToSet(cl) /\ t # f
      BY <1>1, <2>1
    <3> QED BY <1>2, <1>4, <2>1, <3>1
  <2>2. CASE t \in 1..n
    <3>1. us[t] = ts[t] /\ t # n + 1
      BY <1>1, <1>2, <2>2
    <3>2. /\ t \in ToSet(cl) => ts[t].ctx = "inflight"
          /\ t \in ToSet(qu) => ts[t].ctx = "queued"
          /\ Waits(ts, t) /\ t > n - MaxTurnRecords => t \in ToSet(cl) \cup ToSet(qu)
          /\ ts[t].prov = "pending" <=> t = f
      BY <2>2 DEF Lanes
    <3>3. t > Len(us) - MaxTurnRecords => t > n - MaxTurnRecords
      BY <1>1, <1>2, EngineAssumption
    <3>4. t # 0
      BY <2>2
    <3> QED BY <1>2, <1>4, <3>1, <3>2, <3>3, <3>4 DEF Waits
  <2> QED BY <1>2, <1>5, <2>1, <2>2
<1>9. g \in 0..Len(us) /\ (g \in ToSet(cl) \cup ToSet(qq) => g = Len(us))
  <2>1. g = f \/ g = n + 1
    OBVIOUS
  <2>2. CASE g = n + 1
    BY <1>1, <1>2, <2>2
  <2>3. CASE g = f /\ f \notin ToSet(cl) \cup ToSet(qu)
    BY <1>1, <1>2, <1>4, <2>3
  <2> QED BY <2>2, <2>3
<1>10. /\ cl \in Seq(1..Len(us)) /\ qq \in Seq(1..Len(us))
       /\ \A i \in 1..Len(cl) : cl[i] = cl[1] + (i - 1)
  BY <1>2, <1>3, <1>4 DEF Lanes
<1>11. Lanes(us, cl, qq, g)
  BY <1>2, <1>6, <1>7, <1>8, <1>9, <1>10 DEF Lanes
<1> QED BY <1>11 DEF us, qq

(* The k newest of the queue are kept, the others skipped. *)
LEMMA SkipLanes ==
  ASSUME NEW ts, NEW cl, NEW qu, NEW f, Lanes(ts, cl, qu, f), NEW k \in 1..Len(qu)
  PROVE  /\ Lanes(SetCtx(ts, ToSet(SubSeq(qu, 1, Len(qu) - k)), "skipped"), cl, LastN(qu, k), f)
         /\ SubSeq(qu, 1, Len(qu) - k) \in Seq(1..Len(ts))
         /\ IsInjective(SubSeq(qu, 1, Len(qu) - k))
         /\ ToSet(SubSeq(qu, 1, Len(qu) - k)) = ToSet(qu) \ {t \in 1..Len(ts) : t > Len(ts) - k}
         /\ ToSet(LastN(qu, k)) = {t \in 1..Len(ts) : t > Len(ts) - k}
<1> DEFINE n   == Len(ts)
           L   == Len(qu)
           out == SubSeq(qu, 1, L - k)
           qq  == LastN(qu, k)
           us  == SetCtx(ts, ToSet(out), "skipped")
<1>1. /\ ts \in Seq(Turn) /\ n \in Nat /\ cl \in Seq(1..n) /\ qu \in Seq(1..n)
      /\ L \in Nat /\ \A i \in 1..L : qu[i] \in 1..n
      /\ ToSet(qu) = (n - L + 1)..n
  BY LanesTypes
<1>2. \A i \in 1..L : qu[i] = (n - L) + i
  BY DEF Lanes
<1>3. L <= n
  <2>1. 1 \in 1..L
    BY <1>1
  <2>2. qu[1] = (n - L) + 1 /\ qu[1] \in 1..n
    BY <1>1, <1>2, <2>1
  <2> QED BY <1>1, <2>2
<1>4. /\ out \in Seq(1..n) /\ Len(out) = L - k
      /\ \A i \in 1..(L - k) : out[i] = qu[i]
  <2>1. L - k \in 0..L /\ 1 \in 1..(L + 1) /\ \A i \in 1..(L - k) : i \in 1..L /\ 1 + i - 1 = i
    BY <1>1
  <2>2. /\ out \in Seq(1..n)
        /\ Len(out) = IF 1 <= L - k THEN (L - k) - 1 + 1 ELSE 0
        /\ \A i \in 1..((L - k) - 1 + 1) : out[i] = qu[1 + i - 1]
    BY <1>1, <2>1, SubSeqProperties
  <2>3. (L - k) - 1 + 1 = L - k
    BY <1>1
  <2>4. Len(out) = L - k
    <3>1. CASE 1 <= L - k
      BY <2>2, <2>3, <3>1
    <3>2. CASE ~(1 <= L - k)
      <4>1. L - k = 0
        BY <1>1, <2>1, <3>2
      <4> QED BY <2>2, <3>2, <4>1
    <3> QED BY <3>1, <3>2
  <2> QED BY <2>1, <2>2, <2>3, <2>4
<1>5. PICK d \in 0..L : /\ Len(qq) = L - d
                        /\ \A i \in 1..(L - d) : qq[i] = qu[i + d]
                        /\ k <= L => d = L - k
  <2>1. k \in Nat
    BY <1>1
  <2>2. PICK e \in 0..L : /\ Len(qq) = L - e
                          /\ e > 0 => Len(qq) = k
                          /\ \A i \in 1..(L - e) : qq[i] = qu[i + e]
                          /\ k <= L => e = L - k
    BY <1>1, <2>1, LastNProperties
  <2> HIDE DEF qq, L
  <2> WITNESS e \in 0..L
  <2> QED BY <2>2
<1>6. /\ qq \in Seq(1..n) /\ Len(qq) = k /\ d = L - k
  <2>1. k \in Nat /\ k <= L
    BY <1>1
  <2>2. qq \in Seq(1..n)
    BY <1>1, <2>1, LastNProperties
  <2> QED BY <1>1, <1>5, <2>1, <2>2
<1> HIDE DEF out, qq
<1>7. \A i \in 1..Len(qq) : qq[i] = (n - k) + i
  <2> TAKE i \in 1..Len(qq)
  <2>1. i \in 1..(L - d) /\ i + d \in 1..L
    BY <1>1, <1>5, <1>6
  <2>2. qq[i] = (n - L) + (i + d)
    BY <1>2, <1>5, <2>1
  <2> QED BY <1>1, <1>6, <2>2
<1>8. \A i \in 1..Len(out) : out[i] = (n - L) + i
  <2> TAKE i \in 1..Len(out)
  <2>1. i \in 1..(L - k) /\ i \in 1..L
    BY <1>1, <1>4
  <2> QED BY <1>2, <1>4, <2>1
<1>9. ToSet(qq) = ((n - k) + 1)..((n - k) + k)
  <2>1. qq \in Seq(Nat) /\ n - k \in Int
    BY <1>1, <1>6, UnitIsNumbers
  <2> QED BY <1>6, <1>7, <2>1, Stretch
<1>10. ToSet(out) = ((n - L) + 1)..((n - L) + (L - k))
  <2>1. out \in Seq(Nat) /\ n - L \in Int
    BY <1>1, <1>4, UnitIsNumbers
  <2> QED BY <1>4, <1>8, <2>1, Stretch
<1>11. ToSet(qq) = {t \in 1..n : t > n - k}
  BY <1>1, <1>3, <1>9
<1>12. ToSet(out) = ToSet(qu) \ {t \in 1..n : t > n - k}
  BY <1>1, <1>3, <1>10
<1>13. ToSet(qq) \subseteq ToSet(qu)
  BY <1>1, <1>3, <1>9
<1>14. IsInjective(out)
  <2>1. DOMAIN out = 1..Len(out)
    BY <1>4, LenProperties
  <2>2. \A i, j \in 1..Len(out) : out[i] = out[j] => (n - L) + i = (n - L) + j
    BY <1>8
  <2>3. \A i, j \in 1..Len(out) : (n - L) + i = (n - L) + j => i = j
    BY <1>1, <1>4
  <2> QED BY <2>1, <2>2, <2>3 DEF IsInjective
<1>15. /\ us \in Seq(Turn) /\ Len(us) = n
       /\ \A t \in 1..n : us[t].ctx = IF t \in ToSet(out) THEN "skipped" ELSE ts[t].ctx
       /\ \A t \in 1..n : us[t].prov = ts[t].prov
  <2>1. "skipped" \in ContextualState
    BY DEF ContextualState
  <2> QED BY <1>1, <2>1, SetCtxProperties DEF SameSpeech
<1> HIDE DEF us
<1>16. ASSUME NEW t \in 1..n
       PROVE  /\ t \in ToSet(cl) => us[t].ctx = "inflight"
              /\ t \in ToSet(qq) => us[t].ctx = "queued"
              /\ Waits(us, t) /\ t > n - MaxTurnRecords => t \in ToSet(cl) \cup ToSet(qq)
              /\ us[t].prov = "pending" <=> t = f
  <2>1. /\ t \in ToSet(cl) => ts[t].ctx = "inflight"
        /\ t \in ToSet(qu) => ts[t].ctx = "queued"
        /\ Waits(ts, t) /\ t > n - MaxTurnRecords => t \in ToSet(cl) \cup ToSet(qu)
        /\ ts[t].prov = "pending" <=> t = f
        /\ ToSet(cl) \cap ToSet(qu) = {}
    BY DEF Lanes
  <2>2. t \in ToSet(qu) => t \in ToSet(out) \/ t \in ToSet(qq)
    BY <1>11, <1>12
  <2>3. t \in ToSet(out) => t \in ToSet(qu) /\ t \notin ToSet(qq)
    BY <1>11, <1>12
  <2>4. CASE t \in ToSet(out)
    <3>1. us[t].ctx = "skipped" /\ t \notin ToSet(cl) /\ t \notin ToSet(qq)
      BY <1>15, <2>1, <2>3, <2>4
    <3> QED BY <1>15, <2>1, <3>1 DEF Waits
  <2>5. CASE t \notin ToSet(out)
    <3>1. us[t].ctx = ts[t].ctx
      BY <1>15, <2>5
    <3> QED BY <1>13, <1>15, <2>1, <2>2, <2>5, <3>1 DEF Waits
  <2> QED BY <2>4, <2>5
<1>17. Lanes(us, cl, qq, f)
  <2>1. /\ cl \in Seq(1..Len(us)) /\ qq \in Seq(1..Len(us)) /\ f \in 0..Len(us)
        /\ \A i \in 1..Len(cl) : cl[i] = cl[1] + (i - 1)
        /\ ToSet(cl) \cap ToSet(qq) = {}
        /\ f \in ToSet(cl) \cup ToSet(qq) => f = Len(us)
    BY <1>6, <1>13, <1>15 DEF Lanes
  <2>2. \A i \in 1..Len(qq) : qq[i] = (Len(us) - Len(qq)) + i
    BY <1>6, <1>7, <1>15
  <2> QED BY <1>15, <1>16, <2>1, <2>2 DEF Lanes
<1> QED BY <1>4, <1>11, <1>12, <1>14, <1>17 DEF us, qq, out

(* How many waiting turns are kept: some, and at least the newest. *)
LEMMA KeptProperties ==
  ASSUME NEW T, NEW ts, NEW ids \in Seq(T), Len(ids) # 0
  PROVE  \E k \in 1..Len(ids) : k <= MaxCoalescedTurns /\ Kept(ts, ids) = LastN(ids, k)
<1> DEFINE S == {k \in 1..Len(ids) :
                   /\ k <= MaxCoalescedTurns
                   /\ k = 1 \/ Chars(ts, LastN(ids, k)) <= MaxCoalescedChars}
<1>1. Len(ids) \in Nat /\ MaxCoalescedTurns \in Nat \ {0}
  BY LenProperties, EngineAssumption
<1>2. 1 \in S
  BY <1>1
<1>3. S \subseteq 0..Len(ids) /\ S \subseteq 1..Len(ids)
  BY <1>1
<1>4. Kept(ts, ids) = LastN(ids, Max(S))
  BY DEF Kept
<1> HIDE DEF S
<1>5. Max(S) \in S
  BY <1>1, <1>2, <1>3, MaxProperties
<1>6. \A k \in S : k <= MaxCoalescedTurns
  BY DEF S
<1> QED BY <1>3, <1>4, <1>5, <1>6

----------------------------------------------------------------------------
(* Speech: which utterances the turns `ts`, the buffer `pend` and the       *)
(* screen's history `rend` hold, of the n there have been.                  *)

Active(ts, t) == Waits(ts, t) \/ ts[t].prov = "pending"

(* Nothing a lane still works on is buffered, or worked on twice, and only  *)
(* what the fast lane showed is owed with its English on the screen.        *)
Speech(ts, pend, rend, n) ==
  /\ IsInjective(pend) /\ ToSet(pend) \subseteq 1..n
  /\ rend \subseteq 1..n /\ ToSet(pend) \cap rend = {}
  /\ \A t \in 1..Len(ts) :
       /\ IsInjective(ts[t].text) /\ ToSet(ts[t].text) \subseteq 1..n
       /\ Active(ts, t) => ToSet(ts[t].text) \cap ToSet(pend) = {}
       /\ Waits(ts, t) /\ ts[t].prov # "applied" => ToSet(ts[t].text) \cap rend = {}
  /\ \A t, v \in 1..Len(ts) :
       t # v /\ Active(ts, t) /\ Active(ts, v)
         => ToSet(ts[t].text) \cap ToSet(ts[v].text) = {}

(* No lane took up more work. *)
NoMoreActive(ts, us) ==
  \A t \in 1..Len(ts) :
    /\ Active(us, t) => Active(ts, t)
    /\ Waits(us, t) /\ us[t].prov # "applied" => Waits(ts, t) /\ ts[t].prov # "applied"

(* English for what some turns say reaches the screen. *)
LEMMA SpeechShown ==
  ASSUME NEW ts, NEW pend, NEW rend, NEW n, Speech(ts, pend, rend, n),
         NEW us, SameSpeech(ts, us), NoMoreActive(ts, us),
         NEW shown \in SUBSET (1..Len(ts)),
         \A t \in shown : Active(ts, t) /\ ~(Waits(us, t) /\ us[t].prov # "applied"),
         NEW heard, \A u \in heard : \E t \in shown : u \in ToSet(ts[t].text)
  PROVE  Speech(us, pend, rend \cup heard, n)
<1>1. \A t \in shown : ToSet(ts[t].text) \cap ToSet(pend) = {} /\ ToSet(ts[t].text) \subseteq 1..n
  BY DEF Speech
<1>2. rend \cup heard \subseteq 1..n /\ ToSet(pend) \cap (rend \cup heard) = {}
  BY <1>1 DEF Speech
<1>3. ASSUME NEW t \in 1..Len(us)
      PROVE  /\ IsInjective(us[t].text) /\ ToSet(us[t].text) \subseteq 1..n
             /\ Active(us, t) => ToSet(us[t].text) \cap ToSet(pend) = {}
             /\ Waits(us, t) /\ us[t].prov # "applied"
                  => ToSet(us[t].text) \cap (rend \cup heard) = {}
  <2>1. t \in 1..Len(ts) /\ us[t].text = ts[t].text
    BY DEF SameSpeech
  <2>2. /\ IsInjective(us[t].text) /\ ToSet(us[t].text) \subseteq 1..n
        /\ Active(us, t) => ToSet(us[t].text) \cap ToSet(pend) = {}
    BY <2>1 DEF Speech, NoMoreActive
  <2>3. ASSUME Waits(us, t), us[t].prov # "applied"
        PROVE  ToSet(us[t].text) \cap (rend \cup heard) = {}
    <3>1. Waits(ts, t) /\ ts[t].prov # "applied" /\ t \notin shown /\ Active(ts, t)
      BY <2>1, <2>3 DEF NoMoreActive, Active
    <3>2. ToSet(ts[t].text) \cap rend = {}
      BY <2>1, <3>1 DEF Speech
    <3>3. \A v \in shown : ToSet(ts[t].text) \cap ToSet(ts[v].text) = {}
      BY <2>1, <3>1 DEF Speech
    <3> QED BY <2>1, <3>2, <3>3
  <2> QED BY <2>2, <2>3
<1>4. ASSUME NEW t \in 1..Len(us), NEW v \in 1..Len(us), t # v, Active(us, t), Active(us, v)
      PROVE  ToSet(us[t].text) \cap ToSet(us[v].text) = {}
  <2>1. /\ t \in 1..Len(ts) /\ us[t].text = ts[t].text
        /\ v \in 1..Len(ts) /\ us[v].text = ts[v].text
    BY DEF SameSpeech
  <2> QED BY <1>4, <2>1 DEF Speech, NoMoreActive
<1>5. IsInjective(pend) /\ ToSet(pend) \subseteq 1..n
  BY DEF Speech
<1> QED BY <1>2, <1>3, <1>4, <1>5 DEF Speech

(* A step that moves no text and gives no lane more work keeps Speech.      *)
LEMMA SpeechKept ==
  ASSUME NEW ts, NEW pend, NEW rend, NEW n, Speech(ts, pend, rend, n),
         NEW us, SameSpeech(ts, us), NoMoreActive(ts, us)
  PROVE  Speech(us, pend, rend, n)
<1>1. Speech(us, pend, rend \cup {}, n)
  <2> DEFINE none == {}
  <2>1. /\ none \in SUBSET (1..Len(ts))
        /\ \A t \in none : Active(ts, t) /\ ~(Waits(us, t) /\ us[t].prov # "applied")
        /\ \A u \in none : \E t \in none : u \in ToSet(ts[t].text)
    OBVIOUS
  <2> HIDE DEF none
  <2>2. Speech(us, pend, rend \cup none, n)
    BY <2>1, SpeechShown
  <2> QED BY <2>2 DEF none
<1>2. rend \cup {} = rend
  OBVIOUS
<1> QED BY <1>1, <1>2

(* Everything buffered becomes a turn; `heard` is what was shown at once. *)
LEMMA SpeechCut ==
  ASSUME NEW ts \in Seq(Turn), NEW pend, NEW rend, NEW n, Speech(ts, pend, rend, n),
         NEW new \in Turn, new.text = pend,
         NEW heard \in SUBSET ToSet(pend), heard = {} \/ new.prov = "applied"
  PROVE  Speech(Append(ts, new), <<>>, rend \cup heard, n)
<1> DEFINE us == Append(ts, new)
           N  == Len(ts)
<1>1. /\ N \in Nat /\ Len(us) = N + 1 /\ us[N + 1] = new
      /\ \A t \in 1..N : us[t] = ts[t] /\ t # N + 1
      /\ \A t \in 1..(N + 1) : t \in 1..N \/ t = N + 1
  BY LenProperties, AppendProperties
<1> HIDE DEF us
<1>2. /\ IsInjective(pend) /\ ToSet(pend) \subseteq 1..n
      /\ rend \subseteq 1..n /\ ToSet(pend) \cap rend = {}
  BY DEF Speech
<1>3. ASSUME NEW t \in 1..N
      PROVE  /\ IsInjective(ts[t].text) /\ ToSet(ts[t].text) \subseteq 1..n
             /\ Active(ts, t) => ToSet(ts[t].text) \cap ToSet(pend) = {}
             /\ Waits(ts, t) /\ ts[t].prov # "applied" => ToSet(ts[t].text) \cap rend = {}
  BY DEF Speech
<1>4. ToSet(<<>>) = {} /\ IsInjective(<<>>)
  <2>1. DOMAIN <<>> = {}
    OBVIOUS
  <2> QED BY <2>1 DEF ToSet, IsInjective
<1>5. ASSUME NEW t \in 1..(N + 1)
      PROVE  /\ IsInjective(us[t].text) /\ ToSet(us[t].text) \subseteq 1..n
             /\ Waits(us, t) /\ us[t].prov # "applied"
                  => ToSet(us[t].text) \cap (rend \cup heard) = {}
  <2>1. CASE t = N + 1
    BY <1>1, <1>2, <2>1
  <2>2. CASE t \in 1..N
    <3>1. us[t] = ts[t]
      BY <1>1, <2>2
    <3>2. Waits(us, t) => Active(ts, t) /\ Waits(ts, t)
      BY <3>1 DEF Waits, Active
    <3> QED BY <1>3, <2>2, <3>1, <3>2
  <2> QED BY <1>1, <2>1, <2>2
<1>6. ASSUME NEW t \in 1..(N + 1), NEW v \in 1..(N + 1), t # v, Active(us, t), Active(us, v)
      PROVE  ToSet(us[t].text) \cap ToSet(us[v].text) = {}
  <2>1. CASE t = N + 1
    <3>1. v \in 1..N /\ us[v] = ts[v] /\ us[t].text = pend
      BY <1>1, <1>6, <2>1
    <3>2. Active(ts, v)
      BY <1>6, <3>1 DEF Active, Waits
    <3> QED BY <1>3, <3>1, <3>2
  <2>2. CASE v = N + 1
    <3>1. t \in 1..N /\ us[t] = ts[t] /\ us[v].text = pend
      BY <1>1, <1>6, <2>2
    <3>2. Active(ts, t)
      BY <1>6, <3>1 DEF Active, Waits
    <3> QED BY <1>3, <3>1, <3>2
  <2>3. CASE t \in 1..N /\ v \in 1..N
    <3>1. us[t] = ts[t] /\ us[v] = ts[v]
      BY <1>1, <2>3
    <3>2. Active(ts, t) /\ Active(ts, v)
      BY <1>6, <3>1 DEF Active, Waits
    <3>3. ToSet(ts[t].text) \cap ToSet(ts[v].text) = {}
      BY <1>6, <2>3, <3>2 DEF Speech
    <3> QED BY <3>1, <3>3
  <2> QED BY <1>1, <2>1, <2>2, <2>3
<1>7. Speech(us, <<>>, rend \cup heard, n)
  <2>1. rend \cup heard \subseteq 1..n
    BY <1>2
  <2> QED BY <1>1, <1>4, <1>5, <1>6, <2>1 DEF Speech
<1> QED BY <1>7 DEF us

(* `out` is the speech of the turns `ids` that have no English on screen. *)
Restores(ts, ids, out) ==
  /\ out \in Seq(Nat)
  /\ \A u : u \in ToSet(out) <=>
       \E t \in ToSet(ids) : ts[t].prov # "applied" /\ u \in ToSet(ts[t].text)
  /\ /\ IsInjective(ids)
     /\ \A t \in ToSet(ids) : IsInjective(ts[t].text)
     /\ \A t, v \in ToSet(ids) : t # v => ToSet(ts[t].text) \cap ToSet(ts[v].text) = {}
     => IsInjective(out)

(* What RestoreInOrder and an overflow of the queue give back is what the   *)
(* turns say that have no English on the screen, each utterance once.       *)
LEMMA RestoreProperties ==
  ASSUME NEW ts \in Seq(Turn), NEW ids \in Seq(1..Len(ts))
  PROVE  /\ Restores(ts, ids, FlattenSeq(Texts(ts, Uncovered(ts, ids))))
         /\ Restores(ts, ids, FlattenSeq(Reverse(Texts(ts, Uncovered(ts, ids)))))
<1> DEFINE S  == {t \in ToSet(ids) : ts[t].prov # "applied"}
           un == Among(ids, S)
           ss == Texts(ts, un)
<1>1. Uncovered(ts, ids) = un
  BY DEF Uncovered
<1>2. /\ un \in Seq(1..Len(ts)) /\ ToSet(un) = ToSet(ids) \cap S
      /\ IsInjective(ids) => IsInjective(un)
  BY AmongProperties
<1>3. ToSet(un) = S
  BY <1>2
<1> HIDE DEF un
<1>4. Len(un) \in Nat /\ DOMAIN un = 1..Len(un) /\ \A i \in 1..Len(un) : un[i] \in 1..Len(ts)
  BY <1>2, LenProperties, ElementOfSeq
<1>5. /\ \A x : x \in ToSet(un) <=> \E i \in 1..Len(un) : un[i] = x
      /\ \A i \in 1..Len(un) : un[i] \in S
  <2>1. \A x : x \in ToSet(un) <=> \E i \in 1..Len(un) : un[i] = x
    BY <1>2, ToSetProperties
  <2>2. \A i \in 1..Len(un) : un[i] \in ToSet(un)
    BY <2>1
  <2> QED BY <1>3, <2>1, <2>2
<1>6. \A t \in 1..Len(ts) : ts[t].text \in Seq(Nat)
  BY TurnTypes
<1>7. ss = [i \in 1..Len(un) |-> ts[un[i]].text]
  BY <1>4 DEF Texts
<1> HIDE DEF ss
<1>8. ss \in Seq(Seq(Nat)) /\ Len(ss) = Len(un) /\ \A i \in 1..Len(un) : ss[i] = ts[un[i]].text
  <2>1. ss \in [1..Len(un) -> Seq(Nat)]
    BY <1>4, <1>6, <1>7
  <2>2. ss \in Seq(Seq(Nat))
    BY <1>4, <2>1, SeqDef
  <2>3. DOMAIN ss = 1..Len(ss) /\ Len(ss) \in Nat
    BY <2>2, LenProperties
  <2> QED BY <1>4, <1>7, <2>1, <2>2, <2>3
<1>9. ASSUME NEW rs \in Seq(Seq(Nat)), Shuffled(ss, rs)
      PROVE  Restores(ts, ids, FlattenSeq(rs))
  <2>1. PICK h \in [1..Len(ss) -> 1..Len(ss)] :
          /\ \A i \in 1..Len(ss) : rs[i] = ss[h[i]]
          /\ \A i, j \in 1..Len(ss) : i # j => h[i] # h[j]
          /\ \A k \in 1..Len(ss) : \E i \in 1..Len(ss) : h[i] = k
    BY <1>9 DEF Shuffled
  <2>2. /\ Len(rs) = Len(un)
        /\ \A i \in 1..Len(un) : h[i] \in 1..Len(un) /\ rs[i] = ss[h[i]]
        /\ \A i, j \in 1..Len(un) : i # j => h[i] # h[j]
        /\ \A k \in 1..Len(un) : \E i \in 1..Len(un) : h[i] = k
    BY <1>8, <1>9, <2>1 DEF Shuffled
  <2>3. \A i \in 1..Len(un) : un[h[i]] \in S /\ rs[i] = ts[un[h[i]]].text
    BY <1>5, <1>8, <2>2
  <2> DEFINE out == FlattenSeq(rs)
  <2>4. /\ out \in Seq(Nat)
        /\ \A x : x \in ToSet(out) <=> \E i \in 1..Len(un) : x \in ToSet(rs[i])
        /\ /\ \A i \in 1..Len(un) : IsInjective(rs[i])
           /\ \A i, j \in 1..Len(un) : i # j => ToSet(rs[i]) \cap ToSet(rs[j]) = {}
           => IsInjective(out)
    BY <2>2, FlattenProperties
  <2> HIDE DEF out
  <2>5. ASSUME NEW u, u \in ToSet(out)
        PROVE  \E t \in ToSet(ids) : ts[t].prov # "applied" /\ u \in ToSet(ts[t].text)
    <3>1. PICK i \in 1..Len(un) : u \in ToSet(rs[i])
      BY <2>4, <2>5
    <3>2. un[h[i]] \in S /\ rs[i] = ts[un[h[i]]].text
      BY <2>3
    <3> QED BY <3>1, <3>2
  <2>6. ASSUME NEW u, NEW t \in ToSet(ids), ts[t].prov # "applied", u \in ToSet(ts[t].text)
        PROVE  u \in ToSet(out)
    <3>1. PICK k \in 1..Len(un) : un[k] = t
      BY <1>3, <1>5, <2>6
    <3>2. PICK i \in 1..Len(un) : h[i] = k
      BY <2>2
    <3>3. u \in ToSet(rs[i])
      BY <2>3, <2>6, <3>1, <3>2
    <3> QED BY <2>4, <3>3
  <2>7. ASSUME IsInjective(ids),
               \A t \in ToSet(ids) : IsInjective(ts[t].text),
               \A t, v \in ToSet(ids) : t # v => ToSet(ts[t].text) \cap ToSet(ts[v].text) = {}
        PROVE  IsInjective(out)
    <3>1. \A i \in 1..Len(un) : IsInjective(rs[i])
      BY <2>3, <2>7
    <3>2. ASSUME NEW i \in 1..Len(un), NEW j \in 1..Len(un), i # j
          PROVE  ToSet(rs[i]) \cap ToSet(rs[j]) = {}
      <4>1. h[i] # h[j] /\ h[i] \in 1..Len(un) /\ h[j] \in 1..Len(un)
        BY <2>2, <3>2
      <4>2. un[h[i]] # un[h[j]]
        BY <1>2, <1>4, <2>7, <4>1 DEF IsInjective
      <4>3. un[h[i]] \in ToSet(ids) /\ un[h[j]] \in ToSet(ids)
        BY <2>3
      <4>4. ToSet(ts[un[h[i]]].text) \cap ToSet(ts[un[h[j]]].text) = {}
        BY <2>7, <4>2, <4>3
      <4> QED BY <2>3, <4>4
    <3> QED BY <2>4, <3>1, <3>2
  <2>8. Restores(ts, ids, out)
    BY <2>4, <2>5, <2>6, <2>7 DEF Restores
  <2> QED BY <2>8 DEF out
<1>10. Restores(ts, ids, FlattenSeq(ss))
  <2> DEFINE h == [i \in 1..Len(ss) |-> i]
  <2>1. /\ h \in [1..Len(ss) -> 1..Len(ss)]
        /\ \A i \in 1..Len(ss) : h[i] = i
    OBVIOUS
  <2> HIDE DEF h
  <2>2. /\ \A i \in 1..Len(ss) : ss[i] = ss[h[i]]
        /\ \A i, j \in 1..Len(ss) : i # j => h[i] # h[j]
        /\ \A k \in 1..Len(ss) : \E i \in 1..Len(ss) : h[i] = k
    BY <2>1
  <2>3. Shuffled(ss, ss)
    BY <2>1, <2>2 DEF Shuffled
  <2> QED BY <1>8, <1>9, <2>3
<1>11. Restores(ts, ids, FlattenSeq(Reverse(ss)))
  BY <1>8, <1>9, ReverseProperties
<1> QED BY <1>1, <1>10, <1>11 DEF ss

(* The speech of turns that were owed is back in front of the buffer. *)
LEMMA SpeechRestored ==
  ASSUME NEW ts \in Seq(Turn), NEW pend \in Seq(Nat), NEW rend, NEW n,
         Speech(ts, pend, rend, n),
         NEW us, SameSpeech(ts, us), NoMoreActive(ts, us),
         NEW ids \in Seq(1..Len(ts)), IsInjective(ids),
         \A t \in ToSet(ids) : Waits(ts, t) /\ ~Active(us, t),
         NEW out, Restores(ts, ids, out)
  PROVE  Speech(us, out \o pend, rend, n)
<1>1. /\ out \in Seq(Nat)
      /\ \A u : u \in ToSet(out) <=>
           \E t \in ToSet(ids) : ts[t].prov # "applied" /\ u \in ToSet(ts[t].text)
  BY DEF Restores
<1>2. /\ IsInjective(pend) /\ ToSet(pend) \subseteq 1..n
      /\ rend \subseteq 1..n /\ ToSet(pend) \cap rend = {}
  BY DEF Speech
<1>3. ASSUME NEW t \in ToSet(ids)
      PROVE  /\ t \in 1..Len(ts) /\ Active(ts, t) /\ IsInjective(ts[t].text)
             /\ ToSet(ts[t].text) \subseteq 1..n
             /\ ToSet(ts[t].text) \cap ToSet(pend) = {}
             /\ ts[t].prov # "applied" => ToSet(ts[t].text) \cap rend = {}
  <2>1. t \in 1..Len(ts) /\ Active(ts, t)
    BY ToSetProperties DEF Active
  <2> QED BY <2>1 DEF Speech
<1>4. \A t, v \in ToSet(ids) : t # v => ToSet(ts[t].text) \cap ToSet(ts[v].text) = {}
  BY <1>3 DEF Speech
<1>5. IsInjective(out)
  BY <1>3, <1>4 DEF Restores
<1>6. /\ ToSet(out) \subseteq 1..n /\ ToSet(out) \cap ToSet(pend) = {}
      /\ ToSet(out) \cap rend = {}
  BY <1>1, <1>3
<1>7. /\ ToSet(out \o pend) = ToSet(out) \cup ToSet(pend)
      /\ IsInjective(out \o pend)
  BY <1>1, <1>2, <1>5, <1>6, ToSetConcat, InjectiveConcat
<1>8. Speech(us, pend, rend, n)
  BY SpeechKept
<1>9. ASSUME NEW t \in 1..Len(us), Active(us, t)
      PROVE  ToSet(us[t].text) \cap ToSet(out) = {}
  <2>1. /\ t \in 1..Len(ts) /\ us[t].text = ts[t].text /\ Active(ts, t) /\ t \notin ToSet(ids)
    BY <1>9 DEF SameSpeech, NoMoreActive
  <2>2. \A v \in ToSet(ids) : ToSet(ts[t].text) \cap ToSet(ts[v].text) = {}
    BY <1>3, <2>1 DEF Speech
  <2> QED BY <1>1, <2>1, <2>2
<1> QED BY <1>2, <1>6, <1>7, <1>8, <1>9 DEF Speech

----------------------------------------------------------------------------
(* The invariant of the turns.                                              *)

(* The turns the contextual lane still owes a rendering. *)
Owed == ToSet(cloud) \cup ToSet(queue)

BaseInv ==
  /\ stopped \in BOOLEAN /\ spoken \in Nat /\ pending \in Seq(Nat)
  /\ Len(turns) <= MaxTurns
  /\ fastFlight \in [turn : Nat, age : Nat]
  /\ fastRuns \subseteq 1..Len(turns)
  /\ stopped => fastFlight.turn = 0

(* A request is for turns there are; one of another generation for none     *)
(* that is still owed.                                                      *)
UnitsInv ==
  \A r \in requests :
    /\ r.unit \in Seq(1..Len(turns))
    /\ Stale(r) => ToSet(r.unit) \cap Owed = {}

LanesInv == Lanes(turns, cloud, queue, fastFlight.turn)

TurnsInv == LaneInv /\ BaseInv /\ UnitsInv /\ LanesInv

(* From us to vs only the turns `ids` are skipped; others may go from the   *)
(* queue to the slot.                                                       *)
Moved(us, vs, ids) ==
  /\ SameSpeech(us, vs)
  /\ \A t \in 1..Len(us) :
       /\ vs[t].prov = us[t].prov
       /\ t \in ids => vs[t].ctx = "skipped"
       /\ t \notin ids => /\ Waits(vs, t) <=> Waits(us, t)
                          /\ ~Waits(us, t) => vs[t].ctx = us[t].ctx

(* The requests are those of `open`, and perhaps a new one for the slot. *)
RequestsFrom(open) ==
  \A r \in requests' :
    \/ r \in open
    \/ r.unit = cloud' /\ r.gen = generation

(* A dispatch takes the slot for its unit and skips no turn.                *)
LEMMA DispatchEffect ==
  ASSUME NEW open, NEW ts \in Seq(Turn), NEW unit,
         \A t \in 1..Len(ts) : t \in ToSet(unit) => Waits(ts, t),
         Dispatch(open, ts, unit)
  PROVE  /\ turns' = SetCtx(ts, ToSet(unit), "inflight") /\ cloud' = unit
         /\ Moved(ts, turns', {}) /\ RequestsFrom(open)
<1>1. PICK allow : /\ turns' = SetCtx(ts, ToSet(unit), "inflight") /\ cloud' = unit
                   /\ requests' = open \cup
                        {[unit |-> unit, gen |-> generation, allow |-> allow]}
  BY DEF Dispatch
<1>2. RequestsFrom(open)
  <2> DEFINE new == [unit |-> unit, gen |-> generation, allow |-> allow]
  <2>1. new.unit = unit /\ new.gen = generation /\ requests' = open \cup {new}
    BY <1>1
  <2> HIDE DEF new
  <2> QED BY <1>1, <2>1 DEF RequestsFrom
<1>3. "inflight" \in ContextualState
  BY DEF ContextualState
<1>4. Moved(ts, turns', {})
  BY <1>1, <1>3, SetCtxProperties DEF Moved, Waits, SameSpeech
<1> QED BY <1>1, <1>2, <1>4

(* No turn is skipped by a step that skips none.                            *)
LEMMA MovedNowhere ==
  ASSUME NEW ts \in Seq(Turn)
  PROVE  SameSpeech(ts, ts) /\ Moved(ts, ts, {})
BY DEF Moved, SameSpeech

(* The end of a request, its unit settled in ts: the slot is free, or the   *)
(* queue's.                                                                 *)
LEMMA FinishCloudEffect ==
  ASSUME NEW open, NEW ts, NEW f, Lanes(ts, <<>>, queue, f), FinishCloud(open, ts)
  PROVE  /\ Lanes(turns', cloud', queue', f) /\ Moved(ts, turns', {})
         /\ ToSet(cloud') \cup ToSet(queue') = ToSet(queue)
         /\ RequestsFrom(open)
<1>1. ts \in Seq(Turn) /\ Len(ts) \in Nat
  BY LanesTypes
<1>2. ToSet(<<>>) = {}
  BY NoUnit
<1>3. CASE queue = <<>>
  <2>1. turns' = ts /\ cloud' = <<>> /\ requests' = open /\ queue' = queue
    BY <1>3 DEF FinishCloud
  <2>2. Moved(ts, turns', {}) /\ Lanes(turns', cloud', queue', f)
    BY <1>1, <2>1, MovedNowhere
  <2>3. RequestsFrom(open)
    BY <2>1 DEF RequestsFrom
  <2> QED BY <1>2, <1>3, <2>1, <2>2, <2>3
<1>4. CASE queue # <<>>
  <2>1. Dispatch(open, ts, queue) /\ queue' = <<>>
    BY <1>4 DEF FinishCloud
  <2>2. \A t \in 1..Len(ts) : t \in ToSet(queue) => Waits(ts, t)
    BY DEF Lanes, Waits
  <2>3. /\ turns' = SetCtx(ts, ToSet(queue), "inflight") /\ cloud' = queue
        /\ Moved(ts, turns', {}) /\ RequestsFrom(open)
    BY <1>1, <2>1, <2>2, DispatchEffect
  <2>4. Lanes(turns', cloud', queue', f)
    BY <2>1, <2>3, PromoteLanes
  <2> QED BY <1>2, <2>1, <2>3, <2>4
<1> QED BY <1>3, <1>4

(* A new turn joins the lanes: `ids` are skipped for it, and what they say  *)
(* without English on the screen is buffered again.                         *)
Scheduled(us, ids) ==
  /\ ids \in Seq(1..Len(us)) /\ IsInjective(ids)
  /\ ToSet(ids) \subseteq ToSet(queue) /\ \A t \in ToSet(ids) : Waits(us, t)
  /\ Moved(us, turns', ToSet(ids))
  /\ Restores(us, ids, pending')

(* scheduleContextual: the new turn joins the queue, which may give up its  *)
(* oldest, or takes the free slot.                                          *)
LEMMA ScheduleEffect ==
  ASSUME LaneInv, NEW ts, NEW f, Lanes(ts, cloud, queue, f),
         NEW new \in Turn, new.ctx = "queued",
         NEW g, \/ g = f /\ new.prov # "pending" /\ f \notin Owed
                \/ g = Len(ts) + 1 /\ new.prov = "pending" /\ f = 0,
         ScheduleContextual(Append(ts, new), Len(ts) + 1)
  PROVE  /\ Lanes(turns', cloud', queue', g)
         /\ ToSet(cloud') \cup ToSet(queue') \subseteq Owed \cup {Len(ts) + 1}
         /\ RequestsFrom(requests)
         /\ \E ids : Scheduled(Append(ts, new), ids)
<1> DEFINE n  == Len(ts)
           us == Append(ts, new)
           qq == Append(queue, n + 1)
<1>1. ts \in Seq(Turn) /\ n \in Nat /\ queue \in Seq(1..n) /\ ToSet(queue) \subseteq 1..n
      /\ Len(queue) \in Nat
  BY LanesTypes
<1>2. us \in Seq(Turn) /\ Len(us) = n + 1 /\ us[n + 1] = new
  BY <1>1, AppendProperties
<1>3. Lanes(us, cloud, qq, g)
  BY JoinLanes DEF Owed
<1> HIDE DEF us
<1>4. CASE cloud # <<>>
  <2> DEFINE kept == Kept(us, qq)
             out  == SubSeq(qq, 1, Len(qq) - Len(kept))
  <2>1. /\ turns' = SetCtx(us, ToSet(out), "skipped")
        /\ queue' = kept
        /\ pending' = FlattenSeq(Reverse(Texts(us, Uncovered(us, out))))
        /\ UNCHANGED <<cloud, requests>>
    BY <1>4 DEF ScheduleContextual, us
  <2>2. /\ qq \in Seq(1..(n + 1)) /\ Len(qq) = Len(queue) + 1
        /\ ToSet(qq) = ToSet(queue) \cup {n + 1}
    <3>1. \A i \in 1..n : i \in 1..(n + 1)
      BY <1>1
    <3>2. Len(queue) \in Nat /\ queue \in [1..Len(queue) -> 1..n]
      BY <1>1, LenProperties
    <3>3. queue \in [1..Len(queue) -> 1..(n + 1)]
      BY <3>1, <3>2
    <3>4. queue \in Seq(1..(n + 1)) /\ n + 1 \in 1..(n + 1)
      BY <1>1, <3>2, <3>3, SeqDef
    <3> QED BY <3>4, AppendProperties, ToSetAppend
  <2> HIDE DEF qq
  <2>3. Len(qq) # 0 /\ Len(qq) \in Nat
    BY <1>1, <2>2
  <2>4. PICK k \in 1..Len(qq) : kept = LastN(qq, k)
    BY <2>2, <2>3, KeptProperties
  <2>5. Len(kept) = k
    <3>1. k \in Nat /\ k <= Len(qq)
      BY <2>3
    <3>2. \E d \in 0..Len(qq) : Len(LastN(qq, k)) = Len(qq) - d /\ (k <= Len(qq) => d = Len(qq) - k)
      BY <2>2, <3>1, LastNProperties
    <3> QED BY <2>3, <2>4, <3>1, <3>2
  <2> HIDE DEF kept
  <2>6. /\ Lanes(turns', cloud', queue', g)
        /\ out \in Seq(1..Len(us)) /\ IsInjective(out)
        /\ ToSet(out) = ToSet(qq) \ {t \in 1..Len(us) : t > Len(us) - k}
        /\ ToSet(kept) = {t \in 1..Len(us) : t > Len(us) - k}
    BY <1>3, <2>1, <2>4, <2>5, SkipLanes
  <2>7. n + 1 \notin ToSet(out)
    <3>1. n + 1 \in 1..Len(us) /\ n + 1 > Len(us) - k
      BY <1>1, <1>2, <2>3
    <3> QED BY <2>6, <3>1
  <2>8. ToSet(out) \subseteq ToSet(queue) /\ ToSet(kept) \subseteq ToSet(queue) \cup {n + 1}
    <3>1. ToSet(out) \subseteq ToSet(queue)
      BY <2>2, <2>6, <2>7
    <3>2. k \in 1..(Len(queue) + 1)
      BY <2>2
    <3>3. ToSet(queue) = (n - Len(queue) + 1)..n
      BY LanesTypes
    <3>4. ToSet(kept) \subseteq ToSet(queue) \cup {n + 1}
      <4> SUFFICES ASSUME NEW t \in 1..(n + 1), t > (n + 1) - k, t # n + 1
                   PROVE  t \in (n - Len(queue) + 1)..n
        BY <1>2, <2>6, <3>3
      <4> QED BY <1>1, <3>2
    <3> QED BY <3>1, <3>4
  <2>9. \A t \in ToSet(out) : Waits(us, t)
    <3>1. \A t \in ToSet(qq) : t \in 1..Len(us)
      BY <1>3, LanesTypes
    <3> QED BY <1>3, <2>6, <3>1 DEF Lanes, Waits
  <2>10. Moved(us, turns', ToSet(out))
    <3>1. "skipped" \in ContextualState
      BY DEF ContextualState
    <3>2. /\ SameSpeech(us, turns')
          /\ \A t \in 1..Len(us) :
               /\ turns'[t].ctx = IF t \in ToSet(out) THEN "skipped" ELSE us[t].ctx
               /\ turns'[t].prov = us[t].prov
      <4> DEFINE ids == ToSet(out)
      <4> HIDE DEF ids
      <4>1. /\ SameSpeech(us, SetCtx(us, ids, "skipped"))
            /\ \A t \in 1..Len(us) :
                 /\ SetCtx(us, ids, "skipped")[t].ctx = IF t \in ids THEN "skipped" ELSE us[t].ctx
                 /\ SetCtx(us, ids, "skipped")[t].prov = us[t].prov
        BY <1>2, <3>1, SetCtxProperties
      <4>2. turns' = SetCtx(us, ids, "skipped")
        BY <2>1 DEF ids
      <4> QED BY <4>1, <4>2 DEF ids
    <3> QED BY <3>2 DEF Moved, Waits
  <2>11. Restores(us, out, pending')
    BY <1>2, <2>1, <2>6, RestoreProperties
  <2>12. Scheduled(us, out)
    BY <2>6, <2>8, <2>9, <2>10, <2>11 DEF Scheduled
  <2>13. RequestsFrom(requests)
    BY <2>1 DEF RequestsFrom
  <2>14. ToSet(cloud') \cup ToSet(queue') \subseteq Owed \cup {n + 1}
    BY <2>1, <2>8 DEF Owed
  <2> QED BY <2>6, <2>12, <2>13, <2>14 DEF us
<1>5. CASE cloud = <<>>
  <2>1. Dispatch(requests, us, <<n + 1>>) /\ pending' = <<>> /\ queue' = queue
    BY <1>5 DEF ScheduleContextual, us
  <2>2. queue = <<>>
    BY <1>5 DEF LaneInv, SlotInv
  <2>3. qq = <<n + 1>>
    BY <2>2
  <2>4. ToSet(qq) = {n + 1} /\ ToSet(<<>>) = {} /\ <<>> \in Seq(1..Len(us))
    <3> DEFINE s == <<n + 1>>
    <3>1. s \in Seq({n + 1}) /\ Len(s) = 1 /\ s[1] = n + 1
      OBVIOUS
    <3> HIDE DEF s
    <3>2. \A x : x \in ToSet(s) <=> \E i \in 1..1 : s[i] = x
      BY <3>1, ToSetProperties
    <3>3. \A i : i \in 1..1 <=> i = 1
      OBVIOUS
    <3>4. ToSet(s) = {n + 1}
      BY <3>1, <3>2, <3>3
    <3>5. Len(us) \in Nat
      BY <1>1, <1>2
    <3> QED BY <2>3, <3>4, <3>5, NoUnit DEF s
  <2>5. Waits(us, n + 1)
    BY <1>2 DEF Waits
  <2>6. /\ turns' = SetCtx(us, ToSet(qq), "inflight") /\ cloud' = qq
        /\ Moved(us, turns', {}) /\ RequestsFrom(requests)
    BY <1>2, <2>1, <2>3, <2>4, <2>5, DispatchEffect
  <2>7. Lanes(us, <<>>, qq, g)
    BY <1>3, <1>5
  <2>8. Lanes(turns', cloud', queue', g)
    BY <2>1, <2>2, <2>6, <2>7, PromoteLanes
  <2>9. Restores(us, <<>>, pending')
    <3>1. <<>> \in Seq(Nat) /\ IsInjective(<<>>)
      <4>1. DOMAIN <<>> = {}
        OBVIOUS
      <4> QED BY <4>1 DEF IsInjective
    <3> QED BY <2>1, <2>4, <3>1 DEF Restores
  <2>10. IsInjective(<<>>)
    BY DEF IsInjective
  <2>11. Scheduled(us, <<>>)
    BY <2>4, <2>6, <2>9, <2>10 DEF Scheduled
  <2>12. ToSet(cloud') \cup ToSet(queue') \subseteq Owed \cup {n + 1}
    BY <2>1, <2>2, <2>4, <2>6
  <2> QED BY <2>6, <2>8, <2>11, <2>12 DEF us
<1> QED BY <1>4, <1>5

----------------------------------------------------------------------------
(* What the actions do to the turns. *)

(* A unit stays one when there are more turns.                              *)
LEMMA WiderUnit ==
  ASSUME NEW n \in Nat, NEW m \in Nat, n <= m, NEW s \in Seq(1..n)
  PROVE  s \in Seq(1..m)
<1>1. Len(s) \in Nat /\ s \in [1..Len(s) -> 1..n]
  BY LenProperties
<1>2. \A i \in 1..n : i \in 1..m
  OBVIOUS
<1>3. s \in [1..Len(s) -> 1..m]
  BY <1>1, <1>2
<1> QED BY <1>1, <1>3, SeqDef

(* What a result carries is a sequence of lines.                            *)
LEMMA DraftsAreLines == Drafts \subseteq Seq(Line)
<1> SUFFICES ASSUME NEW d \in Drafts
             PROVE  d \in Seq(Line)
  OBVIOUS
<1>1. PICK m \in 0..MaxDrafts : d \in [1..m -> Line]
  BY DEF Drafts, BoundedSeq, SeqOf
<1> QED BY <1>1, EngineAssumption, SeqDef

(* The fast lane's turn got a verdict, or nothing changed. *)
Verdict(us, vs) ==
  /\ SameSpeech(us, vs)
  /\ \A t \in 1..Len(us) :
       /\ vs[t].ctx = us[t].ctx
       /\ vs[t].prov = us[t].prov \/ us[t].prov = "pending"
       /\ vs[t].prov = "pending" => us[t].prov = "pending"

(* The verdict may be left open.                                            *)
LEMMA NoVerdict ==
  ASSUME NEW ts \in Seq(Turn)
  PROVE  Verdict(ts, ts)
BY DEF Verdict, SameSpeech

(* Settling the turn of the fast lane is a verdict, and leaves the lanes    *)
(* consistent with that lane free.                                          *)
LEMMA VerdictEffect ==
  ASSUME NEW ts, NEW cl, NEW qu, NEW f, Lanes(ts, cl, qu, f), f # 0,
         NEW s \in ProvisionalState \ {"pending"}
  PROVE  Verdict(ts, SetProv(ts, f, s)) /\ Lanes(SetProv(ts, f, s), cl, qu, 0)
<1>1. ts \in Seq(Turn) /\ f \in 1..Len(ts) /\ ts[f].prov = "pending"
  <2>1. ts \in Seq(Turn) /\ f \in 1..Len(ts)
    BY LanesTypes
  <2> QED BY <2>1 DEF Lanes
<1>2. /\ SameSpeech(ts, SetProv(ts, f, s))
      /\ \A t \in 1..Len(ts) :
           /\ SetProv(ts, f, s)[t].prov = IF t = f THEN s ELSE ts[t].prov
           /\ SetProv(ts, f, s)[t].ctx = ts[t].ctx
  BY <1>1, SetProvProperties
<1>3. Verdict(ts, SetProv(ts, f, s))
  BY <1>1, <1>2 DEF Verdict
<1> QED BY <1>3, VerdictLanes

(* Flights are records of a turn and an age, and the free one is of turn 0. *)
LEMMA FlightTypes ==
  /\ NoFlight \in [turn : Nat, age : Nat] /\ NoFlight.turn = 0
  /\ \A f \in [turn : Nat, age : Nat] :
       /\ f.turn \in Nat
       /\ [f EXCEPT !.age = @ + 1] \in [turn : Nat, age : Nat]
       /\ [f EXCEPT !.age = @ + 1].turn = f.turn
  /\ \A t \in Nat : /\ [turn |-> t, age |-> 0] \in [turn : Nat, age : Nat]
                    /\ [turn |-> t, age |-> 0].turn = t
BY DEF NoFlight

(* A turn `new` is cut from everything buffered, onto the turns ts, the     *)
(* lines cs and the fast lane `flight`.                                     *)
Flushed(cs, ts, new, ids) ==
  /\ new \in Turn /\ new.text = pending /\ new.ctx = "queued"
  /\ Scheduled(Append(ts, new), ids)
  /\ \A t \in ToSet(ids) : ~Active(turns', t)
  /\ fastRuns' \subseteq fastRuns \cup {Len(ts) + 1}
  /\ \/ chunks' = cs /\ rendered' = rendered
     \/ /\ new.prov = "applied"
        /\ rendered' = rendered \cup ToSet(pending)
        /\ \E drafts \in Seq(Line) :
             chunks' = TrimChunks(InsertTurnChunks(cs, drafts, {Len(ts) + 1}, TRUE))

Cut(cs, ts) ==
  /\ LanesInv' /\ Owed' \subseteq Owed \cup {Len(ts) + 1}
  /\ RequestsFrom(requests)
  /\ fastFlight' \in [turn : Nat, age : Nat]
  /\ Len(ts) < MaxTurns /\ Len(turns') = Len(ts) + 1
  /\ \E new, ids : Flushed(cs, ts, new, ids)

(* A flush cuts one turn, whichever way the fast lane goes.                 *)
LEMMA FlushEffect ==
  ASSUME LaneInv, pending \in Seq(Nat),
         NEW ts, NEW flight \in [turn : Nat, age : Nat],
         Lanes(ts, cloud, queue, flight.turn),
         NEW ready \in BOOLEAN, NEW cs, Flush(ready, cs, ts, flight)
  PROVE  Cut(cs, ts)
<1> DEFINE n == Len(ts)
           New(s, p) == [text |-> pending, sentence |-> s, prov |-> p, ctx |-> "queued"]
<1>1. /\ n \in Nat /\ n < MaxTurns /\ CanFlush(ready, flight) /\ ts \in Seq(Turn)
      /\ ToSet(queue) \subseteq 1..n
  BY LanesTypes DEF Flush
<1>2. flight.turn = 0 \/ (cloud = <<>> /\ queue = <<>>)
  BY <1>1, FlightTypes DEF CanFlush
<1>3. flight.turn \notin Owed /\ (ready => flight.turn = 0)
  <2>1. 0 \notin Owed
    BY LanesTypes DEF Owed
  <2>2. ready => flight.turn = 0
    BY <1>1, FlightTypes DEF CanFlush
  <2>3. cloud = <<>> /\ queue = <<>> => Owed = {}
    BY <1>1, NoUnit DEF Owed
  <2> QED BY <1>2, <2>1, <2>2, <2>3
<1>4. \A s \in BOOLEAN, p \in ProvisionalState :
        /\ New(s, p) \in Turn /\ New(s, p).text = pending
        /\ New(s, p).prov = p /\ New(s, p).ctx = "queued"
  BY DEF Turn, ContextualState
<1>5. ASSUME NEW s \in BOOLEAN, NEW p \in ProvisionalState,
             ScheduleContextual(Append(ts, New(s, p)), n + 1),
             \/ /\ p = "pending" /\ flight.turn = 0
                /\ fastFlight' = [turn |-> n + 1, age |-> 0]
             \/ p # "pending" /\ fastFlight' = flight,
             fastRuns' \subseteq fastRuns \cup {n + 1},
             \/ chunks' = cs /\ rendered' = rendered
             \/ /\ p = "applied"
                /\ rendered' = rendered \cup ToSet(pending)
                /\ \E drafts \in Seq(Line) :
                     chunks' = TrimChunks(InsertTurnChunks(cs, drafts, {n + 1}, TRUE))
      PROVE  Cut(cs, ts)
  <2> DEFINE new == New(s, p)
  <2>1. new \in Turn /\ new.text = pending /\ new.prov = p /\ new.ctx = "queued"
    BY <1>4
  <2>2. ScheduleContextual(Append(ts, new), n + 1)
    BY <1>5
  <2> HIDE DEF new
  <2>3. \/ /\ p = "pending" /\ flight.turn = 0 /\ fastFlight'.turn = n + 1
        \/ p # "pending" /\ fastFlight'.turn = flight.turn
    BY <1>1, <1>5
  <2>4. fastFlight' \in [turn : Nat, age : Nat]
    <3>1. n + 1 \in Nat
      BY <1>1
    <3> QED BY <1>5, <3>1, FlightTypes
  <2>5. /\ Lanes(turns', cloud', queue', fastFlight'.turn)
        /\ ToSet(cloud') \cup ToSet(queue') \subseteq Owed \cup {n + 1}
        /\ RequestsFrom(requests)
        /\ \E ids : Scheduled(Append(ts, new), ids)
    <3>1. CASE p = "pending"
      BY <1>5, <2>1, <2>2, <2>3, <3>1, ScheduleEffect
    <3>2. CASE p # "pending"
      BY <1>3, <1>5, <2>1, <2>2, <2>3, <3>2, ScheduleEffect
    <3> QED BY <3>1, <3>2
  <2>6. PICK ids : Scheduled(Append(ts, new), ids)
    BY <2>5
  <2>7. Len(Append(ts, new)) = n + 1 /\ Append(ts, new) \in Seq(Turn)
    BY <1>1, <2>1, AppendProperties
  <2>8. Len(turns') = n + 1 /\ turns' \in Seq(Turn)
    BY <2>6, <2>7 DEF Scheduled, Moved, SameSpeech
  <2>9. ASSUME NEW t \in ToSet(ids)
        PROVE  ~Active(turns', t)
    <3>1. t \in ToSet(queue) /\ t \in 1..n /\ t \in 1..(n + 1) /\ t # n + 1
      BY <1>1, <2>6 DEF Scheduled
    <3>2. turns'[t].ctx = "skipped"
      BY <2>6, <2>7, <3>1 DEF Scheduled, Moved
    <3>3. t # fastFlight'.turn
      BY <1>3, <2>3, <3>1 DEF Owed
    <3>4. turns'[t].prov # "pending"
      BY <2>5, <2>8, <3>1, <3>3 DEF Lanes
    <3> QED BY <3>2, <3>4 DEF Active, Waits
  <2>10. Flushed(cs, ts, new, ids)
    BY <1>5, <2>1, <2>6, <2>9 DEF Flushed
  <2> QED BY <1>1, <2>4, <2>5, <2>8, <2>10 DEF Cut, LanesInv, Owed
<1>6. PICK sentence \in BOOLEAN, pass \in Passthroughs :
        \/ /\ pass
           /\ \E drafts \in Drafts \ {<<>>} :
                chunks' = TrimChunks(InsertTurnChunks(cs, drafts, {n + 1}, TRUE))
           /\ rendered' = rendered \cup ToSet(pending)
           /\ fastFlight' = flight
           /\ UNCHANGED fastRuns
           /\ ScheduleContextual(Append(ts, New(sentence, "applied")), n + 1)
        \/ /\ ready /\ ~pass
           /\ fastFlight' = [turn |-> n + 1, age |-> 0]
           /\ fastRuns' = fastRuns \cup {n + 1}
           /\ chunks' = cs
           /\ UNCHANGED rendered
           /\ ScheduleContextual(Append(ts, New(sentence, "pending")), n + 1)
        \/ /\ ~(ready /\ ~pass)
           /\ fastFlight' = flight
           /\ chunks' = cs
           /\ UNCHANGED <<fastRuns, rendered>>
           /\ ScheduleContextual(Append(ts, New(sentence, IF pass THEN "failed" ELSE "off")), n + 1)
  BY DEF Flush
<1>7. {"applied", "pending", "failed", "off"} \subseteq ProvisionalState
  BY DEF ProvisionalState
<1>8. Drafts \subseteq Seq(Line)
  BY DraftsAreLines
<1>9. CASE /\ \E drafts \in Drafts \ {<<>>} :
                chunks' = TrimChunks(InsertTurnChunks(cs, drafts, {n + 1}, TRUE))
           /\ rendered' = rendered \cup ToSet(pending)
           /\ fastFlight' = flight
           /\ UNCHANGED fastRuns
           /\ ScheduleContextual(Append(ts, New(sentence, "applied")), n + 1)
  <2>1. \E drafts \in Seq(Line) :
          chunks' = TrimChunks(InsertTurnChunks(cs, drafts, {n + 1}, TRUE))
    BY <1>8, <1>9
  <2>2. fastRuns' \subseteq fastRuns \cup {n + 1}
    BY <1>9
  <2> QED BY <1>5, <1>7, <1>9, <2>1, <2>2
<1>10. CASE /\ ready
            /\ fastFlight' = [turn |-> n + 1, age |-> 0]
            /\ fastRuns' = fastRuns \cup {n + 1}
            /\ chunks' = cs
            /\ UNCHANGED rendered
            /\ ScheduleContextual(Append(ts, New(sentence, "pending")), n + 1)
  BY <1>3, <1>5, <1>7, <1>10
<1>11. CASE /\ fastFlight' = flight
            /\ chunks' = cs
            /\ UNCHANGED <<fastRuns, rendered>>
            /\ ScheduleContextual(Append(ts, New(sentence, IF pass THEN "failed" ELSE "off")), n + 1)
  BY <1>5, <1>7, <1>11
<1> QED BY <1>6, <1>9, <1>10, <1>11

(* What a tick does before it flushes, or instead. *)
Ticked(cs, ts, flight) ==
  /\ cs = chunks \/ cs = CommitDueChunks(chunks)
  /\ Verdict(turns, ts)
  /\ Lanes(ts, cloud, queue, flight.turn)
  /\ flight \in [turn : Nat, age : Nat]

NotCut(cs, ts, flight) ==
  /\ chunks' = cs /\ turns' = ts /\ fastFlight' = flight
  /\ UNCHANGED <<pending, requests, cloud, queue, fastRuns, rendered>>

(* A tick settles a stalled fast lane and then cuts a turn or does not;     *)
(* flushPending cuts one.                                                   *)
LEMMA TickEffect ==
  ASSUME TurnsInv, NEW ready \in Readiness, Tick(ready) \/ FlushPending(ready)
  PROVE  /\ ~stopped /\ UNCHANGED <<stopped, generation, rejections, spoken, lifeStart>>
         /\ \E cs, ts, flight :
              Ticked(cs, ts, flight) /\ (Cut(cs, ts) \/ NotCut(cs, ts, flight))
<1>1. ready \in BOOLEAN
  BY EngineAssumption
<1>2. /\ LaneInv /\ pending \in Seq(Nat) /\ Lanes(turns, cloud, queue, fastFlight.turn)
      /\ fastFlight \in [turn : Nat, age : Nat] /\ turns \in Seq(Turn)
  BY LanesTypes DEF TurnsInv, BaseInv, LanesInv
<1>3. CASE Tick(ready)
  <2>1. PICK cs, ts, flight :
          /\ cs = CommitDueChunks(chunks)
          /\ ts = IF FastLaneTimedOut THEN SetProv(turns, fastFlight.turn, "failed") ELSE turns
          /\ flight = IF FastLaneTimedOut THEN NoFlight ELSE fastFlight
          /\ Flush(ready, cs, ts, flight) \/ NotCut(cs, ts, flight)
          /\ ~stopped /\ UNCHANGED <<stopped, generation, rejections, spoken, lifeStart>>
    BY <1>3 DEF Tick, NotCut
  <2>2. Verdict(turns, ts) /\ Lanes(ts, cloud, queue, flight.turn)
        /\ flight \in [turn : Nat, age : Nat]
    <3>1. CASE FastLaneTimedOut
      <4>1. fastFlight.turn # 0 /\ ts = SetProv(turns, fastFlight.turn, "failed")
            /\ flight = NoFlight
        BY <2>1, <3>1 DEF FastLaneTimedOut
      <4>2. "failed" \in ProvisionalState \ {"pending"}
        BY DEF ProvisionalState
      <4> QED BY <1>2, <4>1, <4>2, VerdictEffect, FlightTypes
    <3>2. CASE ~FastLaneTimedOut
      BY <1>2, <2>1, <3>2, NoVerdict
    <3> QED BY <3>1, <3>2
  <2>3. Ticked(cs, ts, flight)
    BY <2>1, <2>2 DEF Ticked
  <2>4. Flush(ready, cs, ts, flight) => Cut(cs, ts)
    BY <1>1, <1>2, <2>2, FlushEffect
  <2> QED BY <2>1, <2>3, <2>4
<1>4. CASE FlushPending(ready)
  <2>1. PICK cs, ts, flight :
          /\ cs = chunks /\ ts = turns /\ flight = fastFlight
          /\ Flush(ready, cs, ts, flight)
          /\ ~stopped /\ UNCHANGED <<stopped, generation, rejections, spoken, lifeStart>>
    BY <1>4 DEF FlushPending
  <2>2. Ticked(cs, ts, flight)
    BY <1>2, <2>1, NoVerdict DEF Ticked
  <2>3. Cut(cs, ts)
    BY <1>1, <1>2, <2>1, <2>2, FlushEffect DEF Ticked
  <2> QED BY <2>1, <2>2, <2>3
<1> QED BY <1>3, <1>4

(* While the engine runs its requests stay apart: what the lanes owe next   *)
(* is what they owed, or new.                                               *)
LEMMA UnitsStep ==
  ASSUME UnitsInv, ~stopped, UNCHANGED <<stopped, generation>>,
         NEW open \in SUBSET requests, RequestsFrom(open),
         LanesInv', Len(turns) \in Nat, Len(turns') \in Nat, Len(turns) <= Len(turns'),
         \A t \in Owed' : t \in Owed \/ t > Len(turns)
  PROVE  UnitsInv'
<1> SUFFICES ASSUME NEW r \in requests'
             PROVE  /\ r.unit \in Seq(1..Len(turns'))
                    /\ Stale(r)' => ToSet(r.unit) \cap Owed' = {}
  BY DEF UnitsInv
<1>1. CASE r \in open
  <2>1. r.unit \in Seq(1..Len(turns)) /\ (Stale(r) => ToSet(r.unit) \cap Owed = {})
    BY <1>1 DEF UnitsInv
  <2>2. r.unit \in Seq(1..Len(turns'))
    BY <2>1, WiderUnit
  <2>3. \A t \in ToSet(r.unit) : t \in 1..Len(turns)
    BY <2>1, UnitTypes
  <2>4. Stale(r)' => Stale(r)
    BY DEF Stale
  <2> QED BY <2>1, <2>2, <2>3, <2>4
<1>2. CASE r.unit = cloud' /\ r.gen = generation
  <2>1. r.unit \in Seq(1..Len(turns'))
    BY <1>2 DEF LanesInv, Lanes
  <2>2. ~Stale(r)'
    BY <1>2 DEF Stale
  <2> QED BY <2>1, <2>2
<1> QED BY <1>1, <1>2 DEF RequestsFrom

(* The fast lane's answer is a verdict on its own turn, or on none. *)
Answer(t) ==
  \/ turns' = turns /\ fastFlight' = fastFlight /\ chunks' = chunks /\ rendered' = rendered
  \/ /\ t = fastFlight.turn /\ t # 0 /\ fastFlight' = NoFlight
     /\ turns[t].prov = "pending"
     /\ \/ /\ chunks' = chunks /\ rendered' = rendered
           /\ \E s \in ProvisionalState \ {"pending"} : turns' = SetProv(turns, t, s)
        \/ /\ rendered' = rendered \cup ToSet(turns[t].text)
           /\ turns' = SetProv(turns, t, "applied")
           /\ \E drafts \in Seq(Line) :
                chunks' = TrimChunks(InsertTurnChunks(chunks, drafts, {t}, TRUE))

(* An answer of the fast lane reaches its own turn only, and only while it  *)
(* is pending.                                                              *)
LEMMA FastResultEffect ==
  ASSUME TurnsInv, NEW t \in fastRuns, FastResult(t)
  PROVE  /\ Answer(t) /\ Verdict(turns, turns') /\ LanesInv'
         /\ fastFlight' \in [turn : Nat, age : Nat]
         /\ fastFlight' = fastFlight \/ fastFlight' = NoFlight
         /\ fastRuns' \subseteq fastRuns
         /\ UNCHANGED <<stopped, generation, pending, requests, cloud, queue,
                        rejections, spoken, lifeStart>>
<1>1. /\ t \in 1..Len(turns) /\ turns \in Seq(Turn) /\ Len(turns) \in Nat
      /\ fastFlight \in [turn : Nat, age : Nat]
      /\ Lanes(turns, cloud, queue, fastFlight.turn)
  BY LanesTypes DEF TurnsInv, BaseInv, LanesInv
<1>2. turns[t].prov = "pending" <=> t = fastFlight.turn
  BY <1>1 DEF Lanes
<1>3. /\ FreeFastLane(t) /\ fastRuns' \subseteq fastRuns
      /\ UNCHANGED <<stopped, generation, pending, requests, cloud, queue,
                     rejections, spoken, lifeStart>>
  BY DEF FastResult, FastResultTooLate, FastResultUnusable, FastResultSuperseded,
         FastResultApplied
<1>4. CASE FastResultTooLate(t)
  <2>1. turns' = turns /\ fastFlight' = fastFlight /\ chunks' = chunks /\ rendered' = rendered
    BY <1>2, <1>4 DEF FastResultTooLate, FreeFastLane
  <2>2. Answer(t)
    BY <2>1 DEF Answer
  <2> QED BY <1>1, <1>3, <2>1, <2>2, NoVerdict DEF LanesInv
<1>5. CASE ~FastResultTooLate(t)
  <2>1. turns[t].prov = "pending" /\ t = fastFlight.turn /\ t # 0 /\ fastFlight' = NoFlight
    <3>1. turns[t].prov = "pending"
      BY <1>5 DEF FastResult, FastResultUnusable, FastResultSuperseded, FastResultApplied
    <3> QED BY <1>1, <1>2, <1>3, <3>1 DEF FreeFastLane
  <2>2. {"failed", "superseded", "applied"} \subseteq ProvisionalState \ {"pending"}
    BY DEF ProvisionalState
  <2>3. Answer(t)
    <3>1. CASE FastResultUnusable(t)
      <4>1. /\ turns' = SetProv(turns, t, "failed")
            /\ chunks' = chunks /\ rendered' = rendered
        BY <3>1 DEF FastResultUnusable
      <4> QED BY <2>1, <2>2, <4>1 DEF Answer
    <3>2. CASE FastResultSuperseded(t)
      <4>1. /\ turns' = SetProv(turns, t, "superseded")
            /\ chunks' = chunks /\ rendered' = rendered
        BY <3>2 DEF FastResultSuperseded
      <4> QED BY <2>1, <2>2, <4>1 DEF Answer
    <3>3. CASE FastResultApplied(t)
      <4>1. /\ turns' = SetProv(turns, t, "applied")
            /\ rendered' = rendered \cup ToSet(turns[t].text)
            /\ \E drafts \in Drafts :
                 chunks' = TrimChunks(InsertTurnChunks(chunks, drafts, {t}, TRUE))
        BY <3>3 DEF FastResultApplied
      <4>2. \E drafts \in Seq(Line) :
              chunks' = TrimChunks(InsertTurnChunks(chunks, drafts, {t}, TRUE))
        BY <4>1, DraftsAreLines
      <4> QED BY <2>1, <4>1, <4>2 DEF Answer
    <3> QED BY <1>5, <3>1, <3>2, <3>3 DEF FastResult
  <2>4. \E s \in ProvisionalState \ {"pending"} : turns' = SetProv(turns, t, s)
    BY <1>5, <2>2 DEF FastResult, FastResultUnusable, FastResultSuperseded, FastResultApplied
  <2>5. PICK s \in ProvisionalState \ {"pending"} : turns' = SetProv(turns, fastFlight.turn, s)
    BY <2>1, <2>4
  <2>6. Verdict(turns, turns') /\ Lanes(turns', cloud, queue, 0)
    BY <1>1, <2>1, <2>5, VerdictEffect
  <2>7. LanesInv'
    BY <1>3, <2>1, <2>6, FlightTypes DEF LanesInv
  <2> QED BY <1>3, <2>1, <2>3, <2>6, <2>7, FlightTypes
<1> QED BY <1>4, <1>5

(* A request settled its unit, the slot's, as s. *)
SettledAs(ids, s) ==
  /\ SameSpeech(turns, turns')
  /\ \A t \in 1..Len(turns) :
       /\ turns'[t].prov = turns[t].prov
       /\ t \in ids => turns'[t].ctx = s
       /\ t \notin ids => /\ Waits(turns', t) <=> Waits(turns, t)
                          /\ ~Waits(turns, t) => turns'[t].ctx = turns[t].ctx

(* A request that settles frees the slot and hands it to the queue.         *)
LEMMA SettleEffect ==
  ASSUME TurnsInv, NEW r \in requests, ~Stale(r),
         NEW s \in ContextualState \ {"inflight", "queued"},
         FinishCloud(requests \ {r}, SetCtx(turns, ToSet(r.unit), s)),
         UNCHANGED <<stopped, generation, fastFlight>>
  PROVE  /\ r.unit = cloud /\ SettledAs(ToSet(cloud), s) /\ LanesInv' /\ UnitsInv'
         /\ Owed' = ToSet(queue) /\ ~stopped /\ RequestsFrom(requests)
<1>1. r.unit = cloud /\ ~stopped
  BY DEF TurnsInv, LaneInv, SlotInv, Live, Stale
<1>2. /\ Lanes(turns, cloud, queue, fastFlight.turn) /\ turns \in Seq(Turn)
      /\ Len(turns) \in Nat /\ ToSet(cloud) \subseteq 1..Len(turns)
      /\ ToSet(cloud) \cap ToSet(queue) = {}
  <2>1. Lanes(turns, cloud, queue, fastFlight.turn)
    BY DEF TurnsInv, LanesInv
  <2>2. ToSet(cloud) \cap ToSet(queue) = {}
    BY <2>1 DEF Lanes
  <2> QED BY <2>1, <2>2, LanesTypes
<1>3. PICK ts, open : /\ ts = SetCtx(turns, ToSet(cloud), s) /\ open = requests \ {r}
                      /\ FinishCloud(open, ts)
  BY <1>1
<1>4. Lanes(ts, <<>>, queue, fastFlight.turn)
  BY <1>2, <1>3, ReleaseLanes
<1>5. /\ Lanes(turns', cloud', queue', fastFlight.turn) /\ Moved(ts, turns', {})
      /\ ToSet(cloud') \cup ToSet(queue') = ToSet(queue)
      /\ RequestsFrom(open)
  BY <1>3, <1>4, FinishCloudEffect
<1>6. /\ SameSpeech(turns, ts)
      /\ \A t \in 1..Len(turns) :
           /\ ts[t].ctx = IF t \in ToSet(cloud) THEN s ELSE turns[t].ctx
           /\ ts[t].prov = turns[t].prov
  BY <1>2, <1>3, SetCtxProperties
<1>7. SettledAs(ToSet(cloud), s)
  <2>1. SameSpeech(turns, turns')
    BY <1>5, <1>6 DEF SameSpeech, Moved
  <2>2. ASSUME NEW t \in 1..Len(turns)
        PROVE  /\ turns'[t].prov = turns[t].prov
               /\ t \in ToSet(cloud) => turns'[t].ctx = s
               /\ t \notin ToSet(cloud) => /\ Waits(turns', t) <=> Waits(turns, t)
                                           /\ ~Waits(turns, t) => turns'[t].ctx = turns[t].ctx
    <3>1. t \in 1..Len(ts)
      BY <1>6 DEF SameSpeech
    <3>2. /\ turns'[t].prov = ts[t].prov
          /\ Waits(turns', t) <=> Waits(ts, t)
          /\ ~Waits(ts, t) => turns'[t].ctx = ts[t].ctx
      <4>1. t \notin {}
        OBVIOUS
      <4> QED BY <1>5, <3>1, <4>1 DEF Moved
    <3> QED BY <1>6, <3>2 DEF Waits
  <2> QED BY <2>1, <2>2 DEF SettledAs
<1>8. LanesInv'
  BY <1>5 DEF LanesInv
<1>9. Owed' = ToSet(queue)
  BY <1>5 DEF Owed
<1>10. UnitsInv'
  <2>1. Len(turns') = Len(turns)
    BY <1>7 DEF SettledAs, SameSpeech
  <2>2. \A t \in Owed' : t \in Owed \/ t > Len(turns)
    BY <1>9 DEF Owed
  <2>3. UnitsInv /\ open \in SUBSET requests
    BY <1>3 DEF TurnsInv
  <2> QED BY <1>1, <1>2, <1>5, <1>8, <2>1, <2>2, <2>3, UnitsStep
<1>11. RequestsFrom(requests)
  BY <1>3, <1>5 DEF RequestsFrom
<1> QED BY <1>1, <1>7, <1>8, <1>9, <1>10, <1>11

(* A unit of one turn.                                                      *)
LEMMA OneUnit ==
  ASSUME NEW T, NEW x \in T
  PROVE  <<x>> \in Seq(T) /\ ToSet(<<x>>) = {x} /\ IsInjective(<<x>>)
<1> DEFINE s == <<x>>
<1>1. s \in Seq(T) /\ Len(s) = 1 /\ DOMAIN s = 1..1 /\ s[1] = x
  OBVIOUS
<1> HIDE DEF s
<1>2. \A y : y \in ToSet(s) <=> \E i \in 1..1 : s[i] = y
  BY <1>1, ToSetProperties
<1>3. \A i : i \in 1..1 <=> i = 1
  OBVIOUS
<1>4. ToSet(s) = {x}
  BY <1>1, <1>2, <1>3
<1>5. IsInjective(s)
  BY <1>1, <1>3 DEF IsInjective
<1> QED BY <1>1, <1>4, <1>5 DEF s

(* The turns a contract change orphans: each waits, and is listed once. *)
LEMMA OrphansProperties ==
  ASSUME TurnsInv
  PROVE  /\ Orphans \in Seq(1..Len(turns)) /\ IsInjective(Orphans)
         /\ \A t \in ToSet(Orphans) :
              /\ t \in 1..Len(turns) /\ Waits(turns, t)
              /\ t = fastFlight.turn \/ t > Len(turns) - MaxTurnRecords
         /\ \A t \in 1..Len(turns) :
              Waits(turns, t) /\ t > Len(turns) - MaxTurnRecords => t \in ToSet(Orphans)
<1> DEFINE n        == Len(turns)
           f        == fastFlight.turn
           all      == [t \in DOMAIN turns |-> t]
           recorded == {t \in DOMAIN turns : t > n - MaxTurnRecords /\ Waiting(t)}
           rest     == Among(all, recorded \ ToSet(FastOrphan))
<1>1. turns \in Seq(Turn) /\ n \in Nat /\ DOMAIN turns = 1..n /\ f \in 0..n
  BY LanesTypes, TurnTypes DEF TurnsInv, LanesInv
<1>2. \A t : Waiting(t) <=> Waits(turns, t)
  BY DEF Waiting, Waits
<1>3. /\ FastOrphan \in Seq(1..n) /\ IsInjective(FastOrphan)
      /\ \A t \in ToSet(FastOrphan) : t = f /\ t \in 1..n /\ Waits(turns, t)
  <2>1. CASE f # 0 /\ Waiting(f)
    <3>1. FastOrphan = <<f>> /\ f \in 1..n
      BY <1>1, <2>1 DEF FastOrphan
    <3> QED BY <1>2, <2>1, <3>1, OneUnit
  <2>2. CASE ~(f # 0 /\ Waiting(f))
    <3>1. FastOrphan = <<>>
      BY <2>2 DEF FastOrphan
    <3>2. IsInjective(<<>>)
      BY DEF IsInjective
    <3> QED BY <1>1, <3>1, <3>2, NoUnit
  <2> QED BY <2>1, <2>2
<1>4. /\ all \in Seq(1..n) /\ Len(all) = n /\ DOMAIN all = 1..n
      /\ \A t \in 1..n : all[t] = t
  <2>1. all \in [1..n -> 1..n]
    BY <1>1
  <2>2. all \in Seq(1..n)
    BY <1>1, <2>1, SeqDef
  <2>3. DOMAIN all = 1..Len(all) /\ Len(all) \in Nat
    BY <2>2, LenProperties
  <2> QED BY <1>1, <2>1, <2>2, <2>3
<1>5. Orphans = FastOrphan \o rest
  BY DEF Orphans
<1> HIDE DEF all
<1>6. IsInjective(all)
  BY <1>4 DEF IsInjective
<1>7. \A t : t \in ToSet(all) <=> t \in 1..n
  BY <1>4, ToSetProperties
<1>8. /\ rest \in Seq(1..n) /\ IsInjective(rest)
      /\ \A t : t \in ToSet(rest) <=> t \in recorded /\ t \notin ToSet(FastOrphan)
  <2>1. /\ rest \in Seq(1..n) /\ ToSet(rest) = ToSet(all) \cap (recorded \ ToSet(FastOrphan))
        /\ IsInjective(rest)
    BY <1>4, <1>6, AmongProperties
  <2> QED BY <1>1, <1>7, <2>1
<1> HIDE DEF rest
<1>9. ToSet(FastOrphan) \cap ToSet(rest) = {}
  BY <1>8
<1>10. /\ Orphans \in Seq(1..n) /\ IsInjective(Orphans)
       /\ ToSet(Orphans) = ToSet(FastOrphan) \cup ToSet(rest)
  <2>1. FastOrphan \o rest \in Seq(1..n)
    BY <1>3, <1>8, ConcatProperties
  <2>2. IsInjective(FastOrphan \o rest)
    BY <1>3, <1>8, <1>9, InjectiveConcat
  <2>3. ToSet(FastOrphan \o rest) = ToSet(FastOrphan) \cup ToSet(rest)
    BY <1>3, <1>8, ToSetConcat
  <2> QED BY <1>5, <2>1, <2>2, <2>3
<1>11. \A t : t \in recorded <=> t \in 1..n /\ t > n - MaxTurnRecords /\ Waits(turns, t)
  BY <1>1, <1>2
<1> QED BY <1>3, <1>8, <1>10, <1>11

(* Every outstanding turn is stale, and what it says is back in the buffer, *)
(* if the engine is not over.                                               *)
Invalidated ==
  /\ SameSpeech(turns, turns')
  /\ \A t \in 1..Len(turns) :
       /\ turns'[t].prov = IF t = fastFlight.turn THEN "stale" ELSE turns[t].prov
       /\ turns'[t].ctx = IF t > Len(turns) - MaxTurnRecords /\ Waits(turns, t)
                          THEN "stale" ELSE turns[t].ctx

(* invalidateOutstanding empties the lanes and restores, when asked to,     *)
(* what had no English.                                                     *)
LEMMA InvalidateEffect ==
  ASSUME TurnsInv, NEW restore \in BOOLEAN, InvalidateOutstanding(restore)
  PROVE  /\ Invalidated /\ LanesInv' /\ UnitsInv' /\ Owed' = {}
         /\ fastFlight' = NoFlight /\ generation' = generation + 1
         /\ UNCHANGED <<requests, fastRuns, rejections, spoken, rendered>>
         /\ restore => \E out : Restores(turns, Orphans, out) /\ pending' = out \o pending
         /\ ~restore => pending' = pending
<1>1. /\ Lanes(turns, cloud, queue, fastFlight.turn) /\ turns \in Seq(Turn)
      /\ Len(turns) \in Nat /\ fastFlight.turn \in 0..Len(turns)
  BY LanesTypes DEF TurnsInv, LanesInv
<1>2. PICK aborted :
        /\ aborted = IF fastFlight.turn # 0 THEN SetProv(turns, fastFlight.turn, "stale")
                     ELSE turns
        /\ turns' = [t \in DOMAIN aborted |->
                       IF t > Len(turns) - MaxTurnRecords /\ Waiting(t)
                       THEN [aborted[t] EXCEPT !.ctx = "stale"] ELSE aborted[t]]
        /\ pending' = IF restore THEN RestoreInOrder(aborted, Orphans) ELSE pending
        /\ fastFlight' = NoFlight /\ generation' = generation + 1
        /\ cloud' = <<>> /\ queue' = <<>>
        /\ UNCHANGED <<requests, fastRuns, rejections, spoken, rendered>>
  BY DEF InvalidateOutstanding
<1>3. /\ SameSpeech(turns, aborted)
      /\ \A t \in 1..Len(turns) :
           /\ aborted[t].prov = IF t = fastFlight.turn THEN "stale" ELSE turns[t].prov
           /\ aborted[t].ctx = turns[t].ctx
  <2>1. CASE fastFlight.turn # 0
    <3>1. fastFlight.turn \in 1..Len(turns) /\ "stale" \in ProvisionalState
      BY <1>1, <2>1 DEF ProvisionalState
    <3> QED BY <1>1, <1>2, <2>1, <3>1, SetProvProperties
  <2>2. CASE fastFlight.turn = 0
    <3>1. aborted = turns /\ \A t \in 1..Len(turns) : t # fastFlight.turn
      BY <1>1, <1>2, <2>2
    <3> QED BY <1>1, <3>1, MovedNowhere
  <2> QED BY <2>1, <2>2
<1> DEFINE late == {t \in 1..Len(turns) : t > Len(turns) - MaxTurnRecords /\ Waits(turns, t)}
<1>4. turns' = SetCtx(aborted, late, "stale")
  <2>1. DOMAIN aborted = 1..Len(turns)
    BY <1>3, TurnTypes DEF SameSpeech
  <2>2. \A t : Waiting(t) <=> Waits(turns, t)
    BY DEF Waiting, Waits
  <2>3. \A t \in DOMAIN aborted :
          t \in late <=> t > Len(turns) - MaxTurnRecords /\ Waiting(t)
    BY <2>1, <2>2
  <2> HIDE DEF late
  <2> QED BY <1>2, <2>3 DEF SetCtx
<1>5. /\ SameSpeech(aborted, SetCtx(aborted, late, "stale"))
      /\ \A t \in 1..Len(aborted) :
           /\ SetCtx(aborted, late, "stale")[t].ctx = IF t \in late THEN "stale" ELSE aborted[t].ctx
           /\ SetCtx(aborted, late, "stale")[t].prov = aborted[t].prov
  <2>1. aborted \in Seq(Turn) /\ "stale" \in ContextualState
    BY <1>3 DEF SameSpeech, ContextualState
  <2> HIDE DEF late
  <2> QED BY <2>1, SetCtxProperties
<1>6. Invalidated
  <2>1. SameSpeech(turns, turns')
    BY <1>3, <1>4, <1>5 DEF SameSpeech
  <2>2. \A t \in 1..Len(turns) :
          t \in late <=> t > Len(turns) - MaxTurnRecords /\ Waits(turns, t)
    OBVIOUS
  <2>3. Len(aborted) = Len(turns)
    BY <1>3 DEF SameSpeech
  <2> HIDE DEF late
  <2> QED BY <1>3, <1>4, <1>5, <2>1, <2>2, <2>3 DEF Invalidated
<1>7. LanesInv'
  <2>1. PICK us : us = turns'
    OBVIOUS
  <2>2. Lanes(us, <<>>, <<>>, 0)
    <3>1. /\ SameSpeech(turns, us)
          /\ \A t \in 1..Len(turns) :
               /\ us[t].prov = IF t = fastFlight.turn THEN "stale" ELSE turns[t].prov
               /\ us[t].ctx = IF t > Len(turns) - MaxTurnRecords /\ Waits(turns, t)
                              THEN "stale" ELSE turns[t].ctx
      BY <1>6, <2>1 DEF Invalidated
    <3> QED BY <1>1, <3>1, InvalidateLanes
  <2> QED BY <1>2, <2>1, <2>2, FlightTypes DEF LanesInv
<1>8. Owed' = {}
  BY <1>1, <1>2, NoUnit DEF Owed
<1>9. UnitsInv'
  <2>1. Len(turns') = Len(turns)
    BY <1>6 DEF Invalidated, SameSpeech
  <2> QED BY <1>2, <1>8, <2>1 DEF TurnsInv, UnitsInv
<1>10. ASSUME restore
       PROVE  \E out : Restores(turns, Orphans, out) /\ pending' = out \o pending
  <2> DEFINE out == FlattenSeq(Texts(aborted, Uncovered(aborted, Orphans)))
  <2>1. /\ Orphans \in Seq(1..Len(turns)) /\ \A t \in ToSet(Orphans) : t \in 1..Len(turns)
    BY OrphansProperties
  <2>2. Restores(aborted, Orphans, out)
    <3>1. aborted \in Seq(Turn) /\ Orphans \in Seq(1..Len(aborted))
      BY <1>3, <2>1 DEF SameSpeech
    <3> QED BY <3>1, RestoreProperties
  <2>3. pending' = out \o pending
    BY <1>2, <1>10 DEF RestoreInOrder
  <2> HIDE DEF out
  <2>4. \A t \in ToSet(Orphans) :
          /\ aborted[t].text = turns[t].text
          /\ aborted[t].prov # "applied" <=> turns[t].prov # "applied"
    <3>1. ASSUME NEW t \in ToSet(Orphans)
          PROVE  /\ aborted[t].text = turns[t].text
                 /\ aborted[t].prov # "applied" <=> turns[t].prov # "applied"
      <4>1. t \in 1..Len(turns) /\ aborted[t].text = turns[t].text
        BY <1>3, <2>1 DEF SameSpeech
      <4>2. t = fastFlight.turn => turns[t].prov = "pending"
        BY <1>1, <4>1 DEF Lanes
      <4> QED BY <1>3, <4>1, <4>2
    <3> QED BY <3>1
  <2>5. Restores(turns, Orphans, out)
    BY <2>2, <2>4 DEF Restores
  <2> QED BY <2>3, <2>5
<1> QED BY <1>2, <1>6, <1>7, <1>8, <1>9, <1>10

(* What a contextual result does to the screen and to its unit. *)
LEMMA OutcomeProperties ==
  ASSUME NEW cs, NEW ids, NEW drafts
  PROVE  /\ RefinementLegality(cs, ids) \in {"fresh", "refine", "locked"}
         /\ RefinementLegality(cs, ids) = "fresh" =>
              /\ \E prov \in BOOLEAN :
                   ~prov /\ ContextualOutcome(cs, ids, drafts).chunks = InsertTurnChunks(cs, drafts, ids, prov)
              /\ ContextualOutcome(cs, ids, drafts).ctx = "applied"
         /\ RefinementLegality(cs, ids) = "refine" =>
              /\ ContextualOutcome(cs, ids, drafts).chunks = RefineProvisionalChunks(cs, ids, drafts).chunks
              /\ ContextualOutcome(cs, ids, drafts).ctx \in {"refined", "kept"}
         /\ RefinementLegality(cs, ids) = "locked" =>
              /\ ContextualOutcome(cs, ids, drafts).chunks = cs
              /\ ContextualOutcome(cs, ids, drafts).ctx \in {"discarded", "kept"}
<1> DEFINE legality == RefinementLegality(cs, ids)
           outcome  == ContextualOutcome(cs, ids, drafts)
           refined  == RefineProvisionalChunks(cs, ids, drafts)
           inserted == InsertTurnChunks(cs, drafts, ids, FALSE)
<1>0. \E prov \in BOOLEAN : ~prov /\ inserted = InsertTurnChunks(cs, drafts, ids, prov)
  <2>1. PICK prov \in BOOLEAN : prov = FALSE
    OBVIOUS
  <2> QED BY <2>1
<1>1. legality \in {"fresh", "refine", "locked"}
  BY DEF RefinementLegality
<1>2. outcome = CASE legality = "fresh" -> [chunks |-> inserted, ctx |-> "applied"]
                  [] legality = "refine" ->
                       [chunks |-> refined.chunks,
                        ctx |-> IF refined.changed THEN "refined" ELSE "kept"]
                  [] OTHER -> [chunks |-> cs, ctx |-> IF drafts # <<>> THEN "discarded" ELSE "kept"]
  BY DEF ContextualOutcome
<1> HIDE DEF legality, outcome, refined, inserted
<1>3. legality = "fresh" => outcome.chunks = inserted /\ outcome.ctx = "applied"
  <2>1. legality = "fresh" => outcome = [chunks |-> inserted, ctx |-> "applied"]
    BY <1>2
  <2> QED BY <2>1
<1>4. legality = "refine" => outcome.chunks = refined.chunks /\ outcome.ctx \in {"refined", "kept"}
  <2>1. legality = "refine" =>
          outcome = [chunks |-> refined.chunks,
                     ctx |-> IF refined.changed THEN "refined" ELSE "kept"]
    BY <1>2
  <2> QED BY <2>1
<1>5. legality = "locked" => outcome.chunks = cs /\ outcome.ctx \in {"discarded", "kept"}
  <2>1. legality = "locked" =>
          outcome = [chunks |-> cs, ctx |-> IF drafts # <<>> THEN "discarded" ELSE "kept"]
    BY <1>2
  <2> QED BY <2>1
<1>6. legality = "fresh" => \E prov \in BOOLEAN :
        ~prov /\ outcome.chunks = InsertTurnChunks(cs, drafts, ids, prov)
  BY <1>0, <1>3
<1> QED BY <1>1, <1>3, <1>4, <1>5, <1>6 DEF legality, outcome, refined

(* A result that may land settles the slot's unit. *)
LEMMA CloudResultEffect ==
  ASSUME TurnsInv, NEW r \in requests, CloudResult(r)
  PROVE  \E s \in {"applied", "refined", "kept", "discarded"} :
           /\ r.unit = cloud /\ SettledAs(ToSet(cloud), s) /\ LanesInv' /\ UnitsInv'
           /\ Owed' = ToSet(queue) /\ ~stopped /\ RequestsFrom(requests)
           /\ UNCHANGED <<stopped, generation, pending, fastRuns, fastFlight,
                          rejections, spoken, lifeStart>>
           /\ \E drafts \in Seq(Line) :
                rendered' = IF RefinementLegality(chunks, ToSet(cloud)) # "locked" /\ drafts # <<>>
                            THEN rendered \cup SpeechOf(turns, ToSet(cloud)) ELSE rendered
<1>1. PICK drafts, outcome :
        /\ drafts \in Drafts
        /\ outcome = ContextualOutcome(chunks, ToSet(r.unit), drafts)
        /\ rendered' = IF RefinementLegality(chunks, ToSet(r.unit)) # "locked" /\ drafts # <<>>
                       THEN rendered \cup SpeechOf(turns, ToSet(r.unit)) ELSE rendered
        /\ FinishCloud(requests \ {r}, SetCtx(turns, ToSet(r.unit), outcome.ctx))
        /\ ~Stale(r)
        /\ UNCHANGED <<stopped, generation, pending, fastRuns, fastFlight,
                       rejections, spoken, lifeStart>>
  BY DEF CloudResult
<1>2. PICK s : s = outcome.ctx
  OBVIOUS
<1>3. s \in {"applied", "refined", "kept", "discarded"}
  <2> DEFINE ids == ToSet(r.unit)
  <2>1. outcome = ContextualOutcome(chunks, ids, drafts)
    BY <1>1
  <2> HIDE DEF ids
  <2>2. ContextualOutcome(chunks, ids, drafts).ctx \in {"applied", "refined", "kept", "discarded"}
    <3> DEFINE legality == RefinementLegality(chunks, ids)
               ctx      == ContextualOutcome(chunks, ids, drafts).ctx
    <3>1. /\ legality \in {"fresh", "refine", "locked"}
          /\ legality = "fresh" => ctx = "applied"
          /\ legality = "refine" => ctx \in {"refined", "kept"}
          /\ legality = "locked" => ctx \in {"discarded", "kept"}
      BY OutcomeProperties
    <3> HIDE DEF legality, ctx
    <3>2. ctx \in {"applied", "refined", "kept", "discarded"}
      BY <3>1
    <3> QED BY <3>2 DEF ctx
  <2> QED BY <1>2, <2>1, <2>2
<1>4. s \in ContextualState \ {"inflight", "queued"}
  BY <1>3 DEF ContextualState
<1>5. /\ r.unit = cloud /\ SettledAs(ToSet(cloud), s) /\ LanesInv' /\ UnitsInv'
      /\ Owed' = ToSet(queue) /\ ~stopped /\ RequestsFrom(requests)
  BY <1>1, <1>2, <1>4, SettleEffect
<1>6. drafts \in Seq(Line)
  BY <1>1, DraftsAreLines
<1> QED BY <1>1, <1>3, <1>5, <1>6

(* A call that failed gives its unit's unheard speech back to the buffer. *)
LEMMA CloudRejectEffect ==
  ASSUME TurnsInv, NEW r \in requests, CloudReject(r)
  PROVE  /\ r.unit = cloud /\ SettledAs(ToSet(cloud), "failed") /\ LanesInv' /\ UnitsInv'
         /\ Owed' = ToSet(queue) /\ ~stopped /\ RequestsFrom(requests)
         /\ EarlyRejection \/ \A t \in ToSet(cloud) : turns[t].prov # "pending"
         /\ \E out : Restores(turns, cloud, out) /\ pending' = out \o pending
         /\ cloud \in Seq(1..Len(turns)) /\ IsInjective(cloud)
         /\ \A t \in ToSet(cloud) : t \in 1..Len(turns) /\ Waits(turns, t)
         /\ UNCHANGED <<stopped, generation, chunks, fastRuns, fastFlight, spoken,
                        lifeStart, rendered>>
<1>1. /\ ~Stale(r)
      /\ EarlyRejection \/ \A t \in ToSet(r.unit) : turns[t].prov # "pending"
      /\ pending' = RestoreInOrder(turns, r.unit)
      /\ FinishCloud(requests \ {r}, SetCtx(turns, ToSet(r.unit), "failed"))
      /\ UNCHANGED <<stopped, generation, chunks, fastRuns, fastFlight, spoken,
                     lifeStart, rendered>>
  BY DEF CloudReject
<1>2. "failed" \in ContextualState \ {"inflight", "queued"}
  BY DEF ContextualState
<1>3. /\ r.unit = cloud /\ SettledAs(ToSet(cloud), "failed") /\ LanesInv' /\ UnitsInv'
      /\ Owed' = ToSet(queue) /\ ~stopped /\ RequestsFrom(requests)
  BY <1>1, <1>2, SettleEffect
<1>4. /\ Lanes(turns, cloud, queue, fastFlight.turn) /\ turns \in Seq(Turn)
      /\ cloud \in Seq(1..Len(turns)) /\ Len(turns) \in Nat /\ Len(cloud) \in Nat
      /\ \A i \in 1..Len(cloud) : cloud[i] \in Nat
      /\ ToSet(cloud) \subseteq 1..Len(turns)
  BY LanesTypes DEF TurnsInv, LanesInv
<1>5. IsInjective(cloud)
  <2>1. DOMAIN cloud = 1..Len(cloud)
    BY <1>4, LenProperties
  <2>2. \A i \in 1..Len(cloud) : cloud[i] = cloud[1] + (i - 1)
    BY <1>4 DEF Lanes
  <2>3. \A i \in 1..Len(cloud) : 1 \in 1..Len(cloud)
    BY <1>4
  <2>4. \A i, j \in 1..Len(cloud) : cloud[1] + (i - 1) = cloud[1] + (j - 1) => i = j
    BY <1>4, <2>3
  <2> QED BY <2>1, <2>2, <2>4 DEF IsInjective
<1>6. \A t \in ToSet(cloud) : t \in 1..Len(turns) /\ Waits(turns, t)
  BY <1>4 DEF Lanes, Waits
<1>7. \E out : Restores(turns, cloud, out) /\ pending' = out \o pending
  <2> DEFINE out == FlattenSeq(Texts(turns, Uncovered(turns, cloud)))
  <2>1. Restores(turns, cloud, out)
    BY <1>4, RestoreProperties
  <2>2. pending' = out \o pending
    BY <1>1, <1>3 DEF RestoreInOrder
  <2> QED BY <2>1, <2>2
<1> QED BY <1>1, <1>3, <1>4, <1>5, <1>6, <1>7

(* A late result marks the turns it was for, and no lane's. *)
LEMMA StaleResultEffect ==
  ASSUME TurnsInv, NEW r \in requests, CloudResultStale(r)
  PROVE  /\ turns' = SetCtx(turns, ToSet(r.unit), "stale") /\ SameSpeech(turns, turns')
         /\ \A t \in 1..Len(turns) :
              /\ turns'[t].ctx = IF t \in ToSet(r.unit) THEN "stale" ELSE turns[t].ctx
              /\ turns'[t].prov = turns[t].prov
         /\ LanesInv' /\ UnitsInv' /\ Owed' = Owed /\ requests' = requests \ {r}
         /\ UNCHANGED <<stopped, generation, pending, chunks, cloud, queue, fastRuns,
                        fastFlight, rejections, spoken, lifeStart, rendered>>
<1>1. /\ turns' = SetCtx(turns, ToSet(r.unit), "stale") /\ requests' = requests \ {r}
      /\ UNCHANGED <<stopped, generation, pending, chunks, cloud, queue, fastRuns,
                     fastFlight, rejections, spoken, lifeStart, rendered>>
      /\ Stale(r)
  BY DEF CloudResultStale
<1>2. /\ Lanes(turns, cloud, queue, fastFlight.turn) /\ turns \in Seq(Turn)
      /\ "stale" \in ContextualState
  BY LanesTypes DEF TurnsInv, LanesInv, ContextualState
<1>3. PICK ids : ids = ToSet(r.unit)
  OBVIOUS
<1>4. ids \cap (ToSet(cloud) \cup ToSet(queue)) = {}
  BY <1>1, <1>3 DEF TurnsInv, UnitsInv, Owed
<1>5. Lanes(SetCtx(turns, ids, "stale"), cloud, queue, fastFlight.turn)
  BY <1>2, <1>4, StaleLanes
<1>6. /\ SameSpeech(turns, SetCtx(turns, ids, "stale"))
      /\ \A t \in 1..Len(turns) :
           /\ SetCtx(turns, ids, "stale")[t].ctx = IF t \in ids THEN "stale" ELSE turns[t].ctx
           /\ SetCtx(turns, ids, "stale")[t].prov = turns[t].prov
  BY <1>2, SetCtxProperties
<1>7. LanesInv' /\ Owed' = Owed
  BY <1>1, <1>3, <1>5 DEF LanesInv, Owed
<1>8. UnitsInv'
  <2>1. Len(turns') = Len(turns)
    BY <1>1, <1>3, <1>6 DEF SameSpeech
  <2> QED BY <1>1, <1>7, <2>1 DEF TurnsInv, UnitsInv, Stale
<1> QED BY <1>1, <1>3, <1>6, <1>7, <1>8

----------------------------------------------------------------------------
(* The invariant of the turns is inductive. *)

(* Every step keeps TurnsInv.                                               *)
LEMMA NextTurnsInv ==
  ASSUME TurnsInv, [Next]_vars
  PROVE  TurnsInv'
<1>0. LaneInv'
  BY NextLaneInv DEF TurnsInv
<1>1. /\ LanesInv /\ UnitsInv /\ generation \in Nat
      /\ Lanes(turns, cloud, queue, fastFlight.turn) /\ turns \in Seq(Turn)
      /\ Len(turns) \in Nat /\ Len(turns) <= MaxTurns
      /\ pending \in Seq(Nat) /\ spoken \in Nat /\ stopped \in BOOLEAN
      /\ fastFlight \in [turn : Nat, age : Nat] /\ fastFlight.turn \in Nat
      /\ fastRuns \subseteq 1..Len(turns)
      /\ stopped => fastFlight.turn = 0
  BY LanesTypes DEF TurnsInv, LaneInv, BaseInv, LanesInv
<1>2. ASSUME UNCHANGED <<stopped, generation, turns, requests, cloud, queue, fastRuns>>,
             fastFlight' \in [turn : Nat, age : Nat], fastFlight'.turn = fastFlight.turn,
             spoken' \in Nat, pending' \in Seq(Nat)
      PROVE  TurnsInv'
  BY <1>0, <1>1, <1>2 DEF TurnsInv, BaseInv, UnitsInv, LanesInv, Owed, Stale
<1>3. CASE UNCHANGED vars
  BY <1>1, <1>2, <1>3 DEF vars
<1>4. CASE HandleStable
  <2>1. spoken + 1 \in Nat /\ Append(pending, spoken + 1) \in Seq(Nat)
    BY <1>1, AppendProperties
  <2> QED BY <1>1, <1>2, <1>4, <2>1 DEF HandleStable
<1>5. CASE Elapse
  <2>1. fastFlight' \in [turn : Nat, age : Nat] /\ fastFlight'.turn = fastFlight.turn
    <3>1. fastFlight' = fastFlight \/ fastFlight' = [fastFlight EXCEPT !.age = @ + 1]
      BY <1>5 DEF Elapse
    <3> QED BY <1>1, <3>1, FlightTypes
  <2> QED BY <1>1, <1>2, <1>5, <2>1 DEF Elapse
<1>6. ASSUME NEW ready \in Readiness, Tick(ready) \/ FlushPending(ready)
      PROVE  TurnsInv'
  <2>1. /\ ~stopped /\ UNCHANGED <<stopped, generation, rejections, spoken, lifeStart>>
        /\ \E cs, ts, flight :
             Ticked(cs, ts, flight) /\ (Cut(cs, ts) \/ NotCut(cs, ts, flight))
    BY <1>6, TickEffect
  <2>2. PICK cs, ts, flight :
          Ticked(cs, ts, flight) /\ (Cut(cs, ts) \/ NotCut(cs, ts, flight))
    BY <2>1
  <2>3. /\ Len(ts) = Len(turns) /\ Lanes(ts, cloud, queue, flight.turn)
        /\ flight \in [turn : Nat, age : Nat]
    BY <2>2 DEF Ticked, Verdict, SameSpeech
  <2>4. CASE NotCut(cs, ts, flight)
    <3>1. /\ turns' = ts /\ fastFlight' = flight
          /\ UNCHANGED <<pending, requests, cloud, queue, fastRuns>>
      BY <2>4 DEF NotCut
    <3> QED BY <1>0, <1>1, <2>1, <2>3, <3>1
            DEF TurnsInv, BaseInv, UnitsInv, LanesInv, Owed, Stale
  <2>5. CASE Cut(cs, ts)
    <3>1. /\ LanesInv' /\ Owed' \subseteq Owed \cup {Len(turns) + 1}
          /\ RequestsFrom(requests)
          /\ fastFlight' \in [turn : Nat, age : Nat]
          /\ Len(turns) < MaxTurns /\ Len(turns') = Len(turns) + 1
          /\ \E new, ids : Flushed(cs, ts, new, ids)
      BY <2>3, <2>5 DEF Cut
    <3>2. /\ pending' \in Seq(Nat)
          /\ fastRuns' \subseteq fastRuns \cup {Len(turns) + 1}
      BY <2>3, <3>1 DEF Flushed, Scheduled, Restores
    <3>3. BaseInv'
      <4>1. fastRuns' \subseteq 1..Len(turns')
        <5> SUFFICES ASSUME NEW t \in fastRuns'
                     PROVE  t \in 1..Len(turns')
          OBVIOUS
        <5>1. t \in 1..Len(turns) \/ t = Len(turns) + 1
          BY <1>1, <3>2
        <5> QED BY <1>1, <3>1, <5>1
      <4>2. Len(turns') <= MaxTurns
        BY <1>1, <3>1, EngineAssumption
      <4> QED BY <1>1, <2>1, <3>1, <3>2, <4>1, <4>2 DEF BaseInv
    <3>4. UnitsInv'
      <4>1. \A t \in Owed' : t \in Owed \/ t > Len(turns)
        BY <1>1, <3>1
      <4>2. Len(turns') \in Nat /\ Len(turns) <= Len(turns')
        BY <1>1, <3>1
      <4> QED BY <1>1, <2>1, <3>1, <4>1, <4>2, UnitsStep
    <3> QED BY <1>0, <3>1, <3>3, <3>4 DEF TurnsInv
  <2> QED BY <2>2, <2>4, <2>5
<1>7. ASSUME NEW t \in fastRuns, FastResult(t)
      PROVE  TurnsInv'
  <2>1. /\ Verdict(turns, turns') /\ LanesInv'
        /\ fastFlight' \in [turn : Nat, age : Nat]
        /\ fastFlight' = fastFlight \/ fastFlight' = NoFlight
        /\ fastRuns' \subseteq fastRuns
        /\ UNCHANGED <<stopped, generation, pending, requests, cloud, queue,
                       rejections, spoken, lifeStart>>
    BY <1>7, FastResultEffect
  <2>2. Len(turns') = Len(turns)
    BY <2>1 DEF Verdict, SameSpeech
  <2>3. UnitsInv'
    BY <1>1, <2>1, <2>2 DEF UnitsInv, Owed, Stale
  <2>4. BaseInv'
    BY <1>1, <2>1, <2>2, FlightTypes DEF BaseInv
  <2> QED BY <1>0, <2>1, <2>3, <2>4 DEF TurnsInv
<1>8. ASSUME NEW r \in requests, CloudResultStale(r)
      PROVE  TurnsInv'
  <2>1. /\ SameSpeech(turns, turns') /\ LanesInv' /\ UnitsInv'
        /\ UNCHANGED <<stopped, generation, pending, chunks, cloud, queue, fastRuns,
                       fastFlight, rejections, spoken, lifeStart, rendered>>
    BY <1>8, StaleResultEffect
  <2>2. BaseInv'
    BY <1>1, <2>1 DEF BaseInv, SameSpeech
  <2> QED BY <1>0, <2>1, <2>2 DEF TurnsInv
<1>9. ASSUME NEW r \in requests, CloudResult(r) \/ CloudReject(r)
      PROVE  TurnsInv'
  <2>1. /\ LanesInv' /\ UnitsInv' /\ Len(turns') = Len(turns)
        /\ UNCHANGED <<stopped, generation, fastRuns, fastFlight, spoken, lifeStart>>
        /\ pending' \in Seq(Nat)
    <3>1. CASE CloudResult(r)
      <4>1. PICK s : /\ SettledAs(ToSet(cloud), s) /\ LanesInv' /\ UnitsInv'
                     /\ UNCHANGED <<stopped, generation, pending, fastRuns, fastFlight,
                                    rejections, spoken, lifeStart>>
        BY <3>1, CloudResultEffect
      <4> QED BY <1>1, <4>1 DEF SettledAs, SameSpeech
    <3>2. CASE CloudReject(r)
      <4>1. /\ SettledAs(ToSet(cloud), "failed") /\ LanesInv' /\ UnitsInv'
            /\ \E out : Restores(turns, cloud, out) /\ pending' = out \o pending
            /\ UNCHANGED <<stopped, generation, chunks, fastRuns, fastFlight, spoken,
                           lifeStart, rendered>>
        BY <3>2, CloudRejectEffect
      <4>2. pending' \in Seq(Nat)
        BY <1>1, <4>1, ConcatProperties DEF Restores
      <4> QED BY <4>1, <4>2 DEF SettledAs, SameSpeech
    <3> QED BY <1>9, <3>1, <3>2
  <2>2. BaseInv'
    BY <1>1, <2>1 DEF BaseInv
  <2> QED BY <1>0, <2>1, <2>2 DEF TurnsInv
<1>10. ASSUME NEW restore \in BOOLEAN, InvalidateOutstanding(restore), stopped' \in BOOLEAN
       PROVE  TurnsInv'
  <2>1. /\ Invalidated /\ LanesInv' /\ UnitsInv'
        /\ fastFlight' = NoFlight
        /\ UNCHANGED <<requests, fastRuns, rejections, spoken, rendered>>
        /\ restore => \E out : Restores(turns, Orphans, out) /\ pending' = out \o pending
        /\ ~restore => pending' = pending
    BY <1>10, InvalidateEffect
  <2>2. pending' \in Seq(Nat)
    <3>1. CASE restore
      <4>1. PICK out : Restores(turns, Orphans, out) /\ pending' = out \o pending
        BY <2>1, <3>1
      <4> QED BY <1>1, <4>1, ConcatProperties DEF Restores
    <3> QED BY <1>1, <2>1, <3>1
  <2>3. BaseInv'
    BY <1>1, <1>10, <2>1, <2>2, FlightTypes DEF BaseInv, Invalidated, SameSpeech
  <2> QED BY <1>0, <2>1, <2>3 DEF TurnsInv
<1>11. CASE Stop \/ ChangeContract
  <2>1. PICK restore \in BOOLEAN : InvalidateOutstanding(restore) /\ stopped' \in BOOLEAN
    <3>1. CASE Stop
      <4>1. InvalidateOutstanding(FALSE) /\ stopped' \in BOOLEAN
        BY <3>1 DEF Stop
      <4> QED BY <4>1
    <3>2. CASE ChangeContract
      <4>1. InvalidateOutstanding(~stopped) /\ stopped' \in BOOLEAN /\ (~stopped) \in BOOLEAN
        BY <1>1, <3>2 DEF ChangeContract
      <4> QED BY <4>1
    <3> QED BY <1>11, <3>1, <3>2
  <2> QED BY <1>10, <2>1
<1>12. CASE Start
  <2>1. /\ stopped' = FALSE /\ pending' = <<>>
        /\ generation' = generation + 1
        /\ UNCHANGED <<turns, chunks, requests, cloud, queue, fastRuns, fastFlight,
                       rejections, spoken, rendered>>
        /\ cloud = <<>> /\ queue = <<>>
    BY <1>12 DEF Start, TurnsInv, LaneInv, SlotInv
  <2>2. Owed' = {}
    BY <1>1, <2>1, NoUnit DEF Owed
  <2>3. UnitsInv'
    BY <1>1, <2>1, <2>2 DEF UnitsInv
  <2>4. BaseInv'
    <3>1. ~stopped' /\ stopped' \in BOOLEAN /\ pending' \in Seq(Nat)
      BY <2>1, EmptySeq
    <3> QED BY <1>1, <2>1, <3>1 DEF BaseInv
  <2>5. LanesInv'
    BY <1>1, <2>1 DEF LanesInv
  <2> QED BY <1>0, <2>3, <2>4, <2>5 DEF TurnsInv
<1> QED
  BY <1>3, <1>4, <1>5, <1>6, <1>7, <1>8, <1>9, <1>11, <1>12 DEF Next

(* The records of every reachable state agree with what the lanes hold, for *)
(* as long as a turn is recorded.                                           *)
THEOREM SpecTurnsInv == Spec => []TurnsInv
<1>1. Init => TurnsInv
  <2> SUFFICES ASSUME Init
               PROVE  TurnsInv
    OBVIOUS
  <2>1. LaneInv
    BY DEF Init, LaneInv, RequestsInv, SlotInv
  <2>2. /\ turns = <<>> /\ Len(turns) = 0 /\ turns \in Seq(Turn)
        /\ pending = <<>> /\ cloud = <<>> /\ queue = <<>>
        /\ fastFlight = NoFlight /\ fastRuns = {} /\ requests = {}
        /\ stopped = FALSE /\ spoken = 0
    BY EmptySeq DEF Init
  <2>3. UnitsInv
    BY <2>2 DEF UnitsInv
  <2>5. BaseInv
    <3>1. ~stopped /\ stopped \in BOOLEAN /\ pending \in Seq(Nat) /\ spoken \in Nat
      BY <2>2, EmptySeq
    <3>2. Len(turns) <= MaxTurns /\ fastRuns \subseteq 1..Len(turns)
      BY <2>2, EngineAssumption
    <3>3. fastFlight \in [turn : Nat, age : Nat] /\ fastFlight.turn = 0
      BY <2>2, FlightTypes
    <3> QED BY <3>1, <3>2, <3>3 DEF BaseInv
  <2>4. Lanes(turns, cloud, queue, fastFlight.turn)
    <3>1. /\ cloud \in Seq(1..Len(turns)) /\ Len(cloud) = 0 /\ ToSet(cloud) = {}
          /\ 1..Len(cloud) = {}
      BY <2>2, NoUnit
    <3>2. fastFlight.turn = 0 /\ 0 \in 0..Len(turns) /\ 1..Len(turns) = {}
      BY <2>2, FlightTypes
    <3> QED BY <2>2, <3>1, <3>2 DEF Lanes
  <2> QED BY <2>1, <2>3, <2>4, <2>5 DEF TurnsInv, LanesInv
<1>2. TurnsInv /\ [Next]_vars => TurnsInv'
  BY NextTurnsInv
<1> QED BY <1>1, <1>2, PTL DEF Spec

(* The engine keeps the records of its last MaxTurnRecords turns.  A turn   *)
(* whose record is dropped while a lane still owes it English keeps a mark  *)
(* nobody reads, and no contract change restores it: what follows is about  *)
(* behaviours in which no turn waits that long.                             *)
WaitingRecorded ==
  \A t \in 1..Len(turns) : Waits(turns, t) => t > Len(turns) - MaxTurnRecords

(* The bounds of the runs allow no other behaviour. *)
THEOREM FewTurnsAreRecorded ==
  ASSUME MaxTurns <= MaxTurnRecords
  PROVE  Spec => []WaitingRecorded
<1>1. TurnsInv => WaitingRecorded
  <2> SUFFICES ASSUME TurnsInv, NEW t \in 1..Len(turns)
               PROVE  t > Len(turns) - MaxTurnRecords
    BY DEF WaitingRecorded
  <2>1. Len(turns) \in Nat /\ Len(turns) <= MaxTurns
    BY LanesTypes DEF TurnsInv, LanesInv, BaseInv
  <2> QED BY <2>1, EngineAssumption
<1> QED BY <1>1, SpecTurnsInv, PTL

(* While no turn waits longer than it is recorded, the records say of each  *)
(* exactly which lane owes it English: none is marked waiting that no slot  *)
(* holds, and none is held that is not marked.                              *)
THEOREM SpecRecordsMatchLanes ==
  Spec /\ []WaitingRecorded => []RecordsMatchLanes
<1>1. TurnsInv /\ WaitingRecorded => RecordsMatchLanes
  <2> SUFFICES ASSUME TurnsInv, WaitingRecorded, NEW t \in DOMAIN turns
               PROVE  /\ turns[t].ctx = "inflight" <=> t \in ToSet(cloud)
                      /\ turns[t].ctx = "queued" <=> t \in ToSet(queue)
                      /\ turns[t].prov = "pending" <=> t = fastFlight.turn
    BY DEF RecordsMatchLanes
  <2>1. /\ Lanes(turns, cloud, queue, fastFlight.turn) /\ turns \in Seq(Turn)
        /\ DOMAIN turns = 1..Len(turns)
    BY LanesTypes, TurnTypes DEF TurnsInv, LanesInv
  <2>2. t \in 1..Len(turns) /\ (Waits(turns, t) => t > Len(turns) - MaxTurnRecords)
    BY <2>1 DEF WaitingRecorded
  <2> QED BY <2>1, <2>2 DEF Lanes, Waits
<1> QED BY <1>1, SpecTurnsInv, PTL

----------------------------------------------------------------------------
(* The lines the interpreter reads. *)

ScreenInv == ScreenOK(chunks, Owed, Len(turns)) /\ StoppedScreenIsFinal

(* Every step keeps what was spoken, and may then only trim the view. *)
ScreenStep ==
  \E mid \in Seq(Chunk) :
    KeepsSpoken(chunks, mid) /\ (chunks' = mid \/ chunks' = TrimChunks(mid))

(* The largest number of a stretch is its last.                             *)
LEMMA MaxOfStretch ==
  ASSUME NEW a \in Nat, NEW b \in Nat, a <= b, NEW ids, ids = a..b
  PROVE  Max(ids) = b
<1>1. ids \in SUBSET (0..b) /\ b \in ids
  OBVIOUS
<1>2. Max(ids) \in ids /\ b <= Max(ids)
  BY <1>1, MaxProperties
<1>3. \A x \in ids : x \in Nat /\ x <= b
  OBVIOUS
<1> QED BY <1>2, <1>3

(* A screen keeps what it says.                                             *)
LEMMA KeepsSpokenItself ==
  ASSUME NEW cs \in Seq(Chunk)
  PROVE  KeepsSpoken(cs, cs)
BY ScreenTypes DEF KeepsSpoken

(* A screen is as good as the one it is trimmed from. *)
LEMMA ScreenStepTo ==
  ASSUME chunks \in Seq(Chunk), NEW owed, NEW n \in Nat, NEW mid, ScreenOK(mid, owed, n),
         KeepsSpoken(chunks, mid), chunks' = mid \/ chunks' = TrimChunks(mid)
  PROVE  ScreenOK(chunks', owed, n) /\ ScreenStep
<1>1. mid \in Seq(Chunk)
  BY DEF ScreenOK
<1>2. ScreenOK(TrimChunks(mid), owed, n)
  BY TrimChunksKeeps
<1> QED BY <1>1, <1>2 DEF ScreenStep

(* A spoken line stays, with all above it, but for what leaves the top of   *)
(* the view.                                                                *)
LEMMA ScreenStepFreezes ==
  ASSUME chunks \in Seq(Chunk), ScreenStep
  PROVE  FrozenDownTo(LastCommitted)
<1> DEFINE S == {0} \cup {i \in DOMAIN chunks : chunks[i].st = "committed"}
           L == LastCommitted
<1>1. Len(chunks) \in Nat /\ DOMAIN chunks = 1..Len(chunks)
  BY ScreenTypes
<1>2. L = Max(S) /\ S \in SUBSET (0..Len(chunks)) /\ S # {}
  BY <1>1 DEF LastCommitted
<1>3. L \in S
  BY <1>1, <1>2, MaxProperties
<1>4. L \in 0..Len(chunks) /\ (L # 0 => L \in 1..Len(chunks) /\ chunks[L].st = "committed")
  BY <1>1, <1>2, <1>3
<1> HIDE DEF S, L
<1>5. PICK mid \in Seq(Chunk) :
        KeepsSpoken(chunks, mid) /\ (chunks' = mid \/ chunks' = TrimChunks(mid))
  BY DEF ScreenStep
<1>6. Len(mid) \in Nat /\ L <= Len(mid) /\ L \in Nat
  <2>1. Len(mid) \in Nat
    BY <1>5, ScreenTypes
  <2>2. CASE L = 0
    BY <2>1, <2>2
  <2>3. CASE L # 0
    BY <1>1, <1>4, <1>5, <2>1, <2>3 DEF KeepsSpoken
  <2> QED BY <2>2, <2>3
<1>7. \A i \in 1..L : Place(mid[i]) = Place(chunks[i])
  <2> SUFFICES ASSUME NEW i \in 1..L
               PROVE  mid[i].line = chunks[i].line /\ mid[i].turn = chunks[i].turn
    BY DEF Place
  <2>1. L # 0
    BY <1>6
  <2> QED BY <1>4, <1>5, <2>1 DEF KeepsSpoken
<1>8. PICK e \in 0..Len(mid) :
        /\ e > 0 => Len(chunks') = MaxChunksInView
        /\ Len(chunks') = Len(mid) - e
        /\ \A i \in 1..(Len(mid) - e) : chunks'[i] = mid[i + e]
  <2>1. CASE chunks' = mid
    <3>1. 0 \in 0..Len(mid) /\ ~(0 > 0)
      BY <1>6
    <3>3. \A i \in 1..(Len(mid) - 0) : chunks'[i] = mid[i + 0]
      <4>1. \A i \in 1..(Len(mid) - 0) : i + 0 = i
        BY <1>6
      <4> QED BY <2>1, <4>1
    <3>2. Len(chunks') = Len(mid) - 0
      BY <1>6, <2>1
    <3> QED BY <3>1, <3>2, <3>3
  <2>2. CASE chunks' = LastN(mid, MaxChunksInView)
    <3>1. MaxChunksInView \in Nat
      BY ChunkStoreAssumption
    <3> QED BY <1>5, <2>2, <3>1, LastNProperties
  <2> QED BY <1>5, <2>1, <2>2 DEF TrimChunks
<1>9. \E d \in 0..L :
        /\ d > 0 => Len(chunks') = MaxChunksInView
        /\ Len(chunks') >= L - d
        /\ \A i \in 1..(L - d) : Place(chunks'[i]) = Place(chunks[i + d])
  <2>1. CASE e <= L
    <3>1. e \in 0..L /\ Len(chunks') >= L - e
      BY <1>6, <1>8, <2>1
    <3>2. \A i \in 1..(L - e) : i \in 1..(Len(mid) - e) /\ i + e \in 1..L
      BY <1>6, <2>1
    <3>3. \A i \in 1..(L - e) : Place(chunks'[i]) = Place(chunks[i + e])
      BY <1>7, <1>8, <3>2
    <3> QED BY <1>8, <3>1, <3>3
  <2>2. CASE e > L
    <3>1. L \in 0..L /\ Len(chunks') >= L - L /\ 1..(L - L) = {} /\ e > 0
      BY <1>6, <1>8, <2>2
    <3> QED BY <1>8, <3>1
  <2> QED BY <1>6, <2>1, <2>2
<1> QED BY <1>9 DEF FrozenDownTo, L

(* The screen stays as it is; nothing it shows is owed that was not. *)
LEMMA ScreenUntouched ==
  ASSUME TurnsInv, ScreenInv, chunks' = chunks,
         Len(turns') \in Nat, Len(turns) <= Len(turns'),
         \A t \in Owed' : t \in Owed \/ t > Len(turns), stopped' => stopped
  PROVE  ScreenInv' /\ ScreenStep
<1>1. ScreenOK(chunks, Owed, Len(turns)) /\ Len(turns) \in Nat
  BY LanesTypes DEF ScreenInv, TurnsInv, LanesInv
<1>2. ScreenOK(chunks, Owed', Len(turns'))
  <2>1. PICK n, more : n \in Nat /\ n = Len(turns') /\ more = Owed'
    OBVIOUS
  <2>2. ScreenOK(chunks, more, n)
    BY <1>1, <2>1, ScreenOwes
  <2> QED BY <2>1, <2>2
<1>3. chunks \in Seq(Chunk)
  BY <1>1 DEF ScreenOK
<1>4. ScreenStep
  BY <1>3, KeepsSpokenItself DEF ScreenStep
<1> QED BY <1>2, <1>4 DEF ScreenInv, StoppedScreenIsFinal

(* Time makes no line younger than one below it.                            *)
LEMMA ElapseScreen ==
  ASSUME TurnsInv, ScreenInv, Elapse
  PROVE  ScreenInv' /\ ScreenStep
<1>1. ScreenOK(chunks, Owed, Len(turns)) /\ Len(turns) \in Nat /\ chunks \in Seq(Chunk)
  BY LanesTypes DEF ScreenInv, TurnsInv, LanesInv, ScreenOK
<1>2. /\ DOMAIN chunks = 1..Len(chunks) /\ Len(chunks) \in Nat
      /\ \A i \in 1..Len(chunks) :
           chunks[i] \in Chunk /\ chunks[i].st \in ChunkState
           /\ chunks[i].age \in 0..Dwell /\ chunks[i].age \in Nat
  BY <1>1, ScreenTypes
<1>3. PICK ds : /\ ds = [i \in DOMAIN chunks |->
                           IF chunks[i].st = "current" /\ chunks[i].age < Dwell
                           THEN [chunks[i] EXCEPT !.age = @ + 1] ELSE chunks[i]]
                /\ chunks' = ds
  BY DEF Elapse
<1>4. ASSUME NEW i \in 1..Len(chunks)
      PROVE  /\ ds[i] \in Chunk
             /\ ds[i].line = chunks[i].line /\ ds[i].turn = chunks[i].turn
             /\ ds[i].prov = chunks[i].prov /\ ds[i].st = chunks[i].st
             /\ ds[i].age = IF chunks[i].st = "current" /\ chunks[i].age < Dwell
                            THEN chunks[i].age + 1 ELSE chunks[i].age
  <2>1. ds[i] = IF chunks[i].st = "current" /\ chunks[i].age < Dwell
                THEN [chunks[i] EXCEPT !.age = chunks[i].age + 1] ELSE chunks[i]
    BY <1>2, <1>3
  <2>2. chunks[i].age < Dwell => chunks[i].age + 1 \in 0..Dwell
    BY <1>2, ChunkStoreAssumption
  <2>3. \A c \in Chunk, a \in 0..Dwell :
          /\ [c EXCEPT !.age = a] \in Chunk
          /\ [c EXCEPT !.age = a].line = c.line /\ [c EXCEPT !.age = a].turn = c.turn
          /\ [c EXCEPT !.age = a].prov = c.prov /\ [c EXCEPT !.age = a].st = c.st
          /\ [c EXCEPT !.age = a].age = a
    BY DEF Chunk
  <2>4. CASE chunks[i].st = "current" /\ chunks[i].age < Dwell
    <3> DEFINE c == chunks[i]
               a == chunks[i].age + 1
    <3>1. ds[i] = [c EXCEPT !.age = a] /\ c \in Chunk /\ a \in 0..Dwell
      BY <1>2, <2>1, <2>2, <2>4
    <3>2. a = IF chunks[i].st = "current" /\ chunks[i].age < Dwell
              THEN chunks[i].age + 1 ELSE chunks[i].age
      BY <2>4
    <3> HIDE DEF a
    <3> QED BY <2>3, <3>1, <3>2
  <2>5. CASE ~(chunks[i].st = "current" /\ chunks[i].age < Dwell)
    BY <1>2, <2>1, <2>5
  <2> QED BY <2>4, <2>5
<1>5. ds \in Seq(Chunk) /\ Len(ds) = Len(chunks)
  <2>1. ds \in [1..Len(chunks) -> Chunk]
    BY <1>2, <1>3, <1>4
  <2> QED BY <1>1, <2>1, MapIsSeq
<1>6. ASSUME NEW i \in 1..Len(chunks), NEW j \in 1..Len(chunks), i < j,
             ds[i].st = "current", chunks[i].st = "current", chunks[j].st = "current",
             chunks[j].age <= chunks[i].age
      PROVE  ds[j].st # "committed" /\ ds[j].age <= ds[i].age
  <2>1. ds[j].st # "committed"
    BY <1>4, <1>6
  <2>2. /\ ds[i].age = IF chunks[i].age < Dwell THEN chunks[i].age + 1 ELSE chunks[i].age
        /\ ds[j].age = IF chunks[j].age < Dwell THEN chunks[j].age + 1 ELSE chunks[j].age
        /\ chunks[i].age \in 0..Dwell /\ chunks[j].age \in 0..Dwell
    BY <1>2, <1>4, <1>6
  <2> QED BY <1>6, <2>1, <2>2, ChunkStoreAssumption
<1>7. ScreenOK(ds, Owed, Len(turns)) /\ KeepsSpoken(chunks, ds)
  BY <1>1, <1>4, <1>5, <1>6, ScreenInPlace
<1>8. UNCHANGED <<turns, cloud, queue, stopped>> /\ ~stopped
  BY DEF Elapse
<1>9. ScreenOK(chunks', Owed', Len(turns'))
  BY <1>3, <1>7, <1>8 DEF Owed
<1> QED BY <1>3, <1>5, <1>7, <1>8, <1>9 DEF ScreenInv, ScreenStep, StoppedScreenIsFinal

(* A tick commits from the top, and a flush shows its line at the end.      *)
LEMMA TickScreen ==
  ASSUME TurnsInv, ScreenInv, NEW ready \in Readiness, Tick(ready) \/ FlushPending(ready),
         TurnsInv'
  PROVE  ScreenInv' /\ ScreenStep
<1>1. ScreenOK(chunks, Owed, Len(turns)) /\ Len(turns) \in Nat /\ chunks \in Seq(Chunk)
  BY LanesTypes DEF ScreenInv, TurnsInv, LanesInv, ScreenOK
<1>2. /\ ~stopped /\ UNCHANGED stopped
      /\ \E cs, ts, flight :
           Ticked(cs, ts, flight) /\ (Cut(cs, ts) \/ NotCut(cs, ts, flight))
  BY TickEffect
<1>3. PICK cs, ts, flight :
        Ticked(cs, ts, flight) /\ (Cut(cs, ts) \/ NotCut(cs, ts, flight))
  BY <1>2
<1>4. ScreenOK(cs, Owed, Len(turns)) /\ KeepsSpoken(chunks, cs) /\ cs \in Seq(Chunk)
  <2>1. CASE cs = chunks
    BY <1>1, <2>1, KeepsSpokenItself
  <2>2. CASE cs = CommitDueChunks(chunks)
    <3>1. ScreenOK(cs, Owed, Len(turns)) /\ KeepsSpoken(chunks, cs)
      BY <1>1, <2>2, CommitDueChunksKeeps
    <3> QED BY <3>1 DEF ScreenOK
  <2> QED BY <1>3, <2>1, <2>2 DEF Ticked
<1>5. Len(ts) = Len(turns)
  BY <1>3 DEF Ticked, Verdict, SameSpeech
<1>6. ~stopped'
  BY <1>2
<1>7. CASE NotCut(cs, ts, flight)
  <2>1. chunks' = cs /\ turns' = ts /\ UNCHANGED <<cloud, queue>>
    BY <1>7 DEF NotCut
  <2>2. ScreenOK(chunks', Owed, Len(turns)) /\ ScreenStep
    BY <1>1, <1>4, <2>1 DEF ScreenStep
  <2>3. Owed' = Owed /\ Len(turns') = Len(turns)
    BY <1>5, <2>1 DEF Owed
  <2> QED BY <1>6, <2>2, <2>3 DEF ScreenInv, StoppedScreenIsFinal
<1>8. CASE Cut(cs, ts)
  <2>1. /\ Owed' \subseteq Owed \cup {Len(turns) + 1} /\ Len(turns') = Len(turns) + 1
        /\ \E new, ids : Flushed(cs, ts, new, ids)
    BY <1>5, <1>8 DEF Cut
  <2>2. PICK owed, n : owed = Owed' /\ n = Len(turns) + 1 /\ n \in Nat
    BY <1>1
  <2>3. ScreenOK(cs, owed, n)
    <3>1. \A t \in owed : t \in Owed \/ t > Len(turns)
      BY <1>1, <2>1, <2>2
    <3>2. Len(turns) <= n
      BY <1>1, <2>2
    <3> QED BY <1>1, <1>4, <2>2, <3>1, <3>2, ScreenOwes
  <2>4. \/ chunks' = cs
        \/ \E drafts \in Seq(Line) :
             chunks' = TrimChunks(InsertTurnChunks(cs, drafts, {n}, TRUE))
    BY <1>5, <2>1, <2>2 DEF Flushed
  <2>5. PICK mid : /\ ScreenOK(mid, owed, n) /\ KeepsSpoken(chunks, mid)
                   /\ chunks' = mid \/ chunks' = TrimChunks(mid)
    <3>1. CASE chunks' = cs
      BY <1>4, <2>3, <3>1
    <3>2. ASSUME NEW drafts \in Seq(Line),
                 chunks' = TrimChunks(InsertTurnChunks(cs, drafts, {n}, TRUE))
          PROVE  \E mid : /\ ScreenOK(mid, owed, n) /\ KeepsSpoken(chunks, mid)
                          /\ chunks' = mid \/ chunks' = TrimChunks(mid)
      <4>0. PICK prov \in BOOLEAN : prov = TRUE
        OBVIOUS
      <4>1. PICK ids, mid : /\ ids = {n} /\ mid = InsertTurnChunks(cs, drafts, ids, prov)
                            /\ chunks' = TrimChunks(mid)
        BY <3>2, <4>0
      <4>2. Max(ids) = n /\ n \in 1..n
        <5>1. ids = n..n /\ n <= n
          BY <2>2, <4>1
        <5>2. n >= 1
          BY <1>1, <2>2
        <5>3. n \in Nat /\ n \in 1..n
          BY <2>2, <5>2
        <5> QED BY <5>1, <5>3, MaxOfStretch
      <4>3. ScreenOK(mid, owed, n) /\ KeepsSpoken(cs, mid)
        <5>1. /\ n \in Nat /\ Max(ids) \in 1..n
              /\ prov \/ Max(ids) \notin owed
              /\ Max(ids) \in owed => Max(ids) = n
          BY <2>2, <4>0, <4>1, <4>2
        <5>2. /\ ScreenOK(InsertTurnChunks(cs, drafts, ids, prov), owed, n)
              /\ KeepsSpoken(cs, InsertTurnChunks(cs, drafts, ids, prov))
          BY <2>3, <5>1, InsertTurnChunksKeeps
        <5> QED BY <4>1, <5>2
      <4>4. mid \in Seq(Chunk)
        BY <4>3 DEF ScreenOK
      <4>5. KeepsSpoken(chunks, mid)
        BY <1>1, <1>4, <4>3, <4>4, KeepsSpokenTransitive
      <4> QED BY <4>1, <4>3, <4>5
    <3> QED BY <2>4, <3>1, <3>2
  <2>6. ScreenOK(chunks', owed, n) /\ ScreenStep
    BY <1>1, <2>2, <2>5, ScreenStepTo
  <2> QED BY <1>6, <2>1, <2>2, <2>6 DEF ScreenInv, StoppedScreenIsFinal
<1> QED BY <1>3, <1>7, <1>8

(* A late answer of the fast lane goes where its turn belongs, below every  *)
(* spoken line.                                                             *)
LEMMA FastResultScreen ==
  ASSUME TurnsInv, ScreenInv, NEW t \in fastRuns, FastResult(t)
  PROVE  ScreenInv' /\ ScreenStep
<1>1. /\ ScreenOK(chunks, Owed, Len(turns)) /\ Len(turns) \in Nat /\ chunks \in Seq(Chunk)
      /\ fastFlight.turn \in Owed => fastFlight.turn = Len(turns)
      /\ fastFlight.turn \in 0..Len(turns) /\ (stopped => fastFlight.turn = 0)
  <2>1. Lanes(turns, cloud, queue, fastFlight.turn) /\ (stopped => fastFlight.turn = 0)
    BY DEF TurnsInv, LanesInv, BaseInv
  <2>2. fastFlight.turn \in Owed => fastFlight.turn = Len(turns)
    BY <2>1 DEF Lanes, Owed
  <2> QED BY <2>1, <2>2, LanesTypes DEF ScreenInv, ScreenOK
<1>2. /\ Answer(t) /\ Len(turns') = Len(turns) /\ Owed' = Owed /\ UNCHANGED stopped
  BY FastResultEffect DEF Verdict, SameSpeech, Owed
<1>3. CASE chunks' = chunks
  BY <1>1, <1>2, <1>3, ScreenUntouched
<1>4. CASE chunks' # chunks
  <2>1. /\ t = fastFlight.turn /\ t # 0
        /\ \E drafts \in Seq(Line) :
             chunks' = TrimChunks(InsertTurnChunks(chunks, drafts, {t}, TRUE))
    BY <1>2, <1>4 DEF Answer
  <2>0. PICK prov \in BOOLEAN : prov = TRUE
    OBVIOUS
  <2>2. PICK drafts, ids, mid :
          /\ drafts \in Seq(Line) /\ ids = {t}
          /\ mid = InsertTurnChunks(chunks, drafts, ids, prov)
          /\ chunks' = TrimChunks(mid)
    BY <2>0, <2>1
  <2>3. Max(ids) = t /\ t \in 1..Len(turns)
    <3>1. t \in Nat /\ t \in 1..Len(turns)
      BY <1>1, <2>1
    <3>2. ids = t..t /\ t <= t
      BY <2>2, <3>1
    <3> QED BY <3>1, <3>2, MaxOfStretch
  <2>4. ScreenOK(mid, Owed, Len(turns)) /\ KeepsSpoken(chunks, mid)
    <3>1. Max(ids) \in Owed => Max(ids) = Len(turns)
      BY <1>1, <2>1, <2>3
    <3>2. Max(ids) \in 1..Len(turns)
      BY <2>3
    <3>3. drafts \in Seq(Line) /\ mid = InsertTurnChunks(chunks, drafts, ids, prov)
      BY <2>2
    <3> QED BY <1>1, <2>0, <3>1, <3>2, <3>3, InsertTurnChunksKeeps
  <2>5. ScreenOK(chunks', Owed, Len(turns)) /\ ScreenStep
    BY <1>1, <2>2, <2>4, ScreenStepTo
  <2>6. ~stopped'
    BY <1>1, <1>2, <2>1
  <2> QED BY <1>2, <2>5, <2>6 DEF ScreenInv, StoppedScreenIsFinal
<1> QED BY <1>3, <1>4

(* A cloud answer replaces provisional lines of its unit, or nothing.       *)
LEMMA CloudResultScreen ==
  ASSUME TurnsInv, ScreenInv, NEW r \in requests, CloudResult(r)
  PROVE  ScreenInv' /\ ScreenStep
<1> DEFINE n    == Len(turns)
           ids  == ToSet(cloud)
           owed == ToSet(queue)
<1>1. /\ ScreenOK(chunks, Owed, n) /\ n \in Nat /\ chunks \in Seq(Chunk)
      /\ ids \cap owed = {} /\ Owed = ids \cup owed /\ 0 \notin owed
  <2>1. Lanes(turns, cloud, queue, fastFlight.turn)
    BY DEF TurnsInv, LanesInv
  <2>2. ids \cap owed = {} /\ Owed = ids \cup owed
    BY <2>1 DEF Lanes, Owed
  <2>3. owed \subseteq 1..n /\ n \in Nat
    BY <2>1, LanesTypes
  <2> QED BY <2>2, <2>3 DEF ScreenInv, ScreenOK
<1>2. /\ r.unit = cloud /\ Owed' = owed /\ ~stopped' /\ Len(turns') = n
  BY CloudResultEffect DEF SettledAs, SameSpeech
<1>3. /\ cloud # <<>> /\ Lanes(turns, cloud, queue, fastFlight.turn)
  BY <1>2 DEF TurnsInv, LanesInv, LaneInv, RequestsInv
<1>4. PICK a \in Nat, b \in 1..n : ids = a..b /\ a <= b /\ Max(ids) = b
  <2>1. ids = cloud[1]..cloud[Len(cloud)] /\ cloud[1] \in 1..n /\ cloud[Len(cloud)] \in 1..n
        /\ cloud[1] <= cloud[Len(cloud)]
    BY <1>3, LanesTypes
  <2>2. PICK a \in Nat, b \in 1..n : ids = a..b /\ a <= b
    BY <2>1
  <2>3. Max(ids) = b
    BY <2>2, MaxOfStretch
  <2> QED BY <2>2, <2>3
<1>5. Max(ids) \in ids /\ Max(ids) \in 1..n /\ Max(ids) \notin owed
  BY <1>1, <1>4
<1>6. PICK drafts, predicted, outcome, mid, newest :
        /\ drafts \in Drafts /\ predicted \in {<<>>} \cup {<<l>> : l \in Line}
        /\ outcome = ContextualOutcome(chunks, ids, drafts)
        /\ mid = WithPrediction(outcome.chunks, RefinementLegality(chunks, ids), newest, r.allow, predicted)
        /\ chunks' = TrimChunks(mid)
  BY <1>2 DEF CloudResult
<1>7. drafts \in Seq(Line) /\ predicted \in Seq(Line)
  <2>1. \A l \in Line : <<l>> \in Seq(Line)
    OBVIOUS
  <2> QED BY <1>6, <2>1, DraftsAreLines, EmptySeq
<1>8. ScreenOK(chunks, owed, n)
  <2>1. n <= n /\ \A t \in owed : t \in Owed
    BY <1>1
  <2> QED BY <1>1, <2>1, ScreenOwes
<1> HIDE DEF ids, owed
<1>9. PICK cs : cs = outcome.chunks /\ cs = ContextualOutcome(chunks, ids, drafts).chunks
  BY <1>6
<1>10. ScreenOK(cs, owed, n) /\ KeepsSpoken(chunks, cs) /\ cs \in Seq(Chunk)
  <2> DEFINE legality == RefinementLegality(chunks, ids)
  <2>1. /\ legality \in {"fresh", "refine", "locked"}
        /\ legality = "fresh" =>
             \E prov \in BOOLEAN : ~prov /\ cs = InsertTurnChunks(chunks, drafts, ids, prov)
        /\ legality = "refine" => cs = RefineProvisionalChunks(chunks, ids, drafts).chunks
        /\ legality = "locked" => cs = chunks
    BY <1>9, OutcomeProperties
  <2>2. CASE legality = "fresh"
    <3>1. PICK prov \in BOOLEAN : ~prov /\ cs = InsertTurnChunks(chunks, drafts, ids, prov)
      BY <2>1, <2>2
    <3>2. ScreenOK(cs, owed, n) /\ KeepsSpoken(chunks, cs)
      BY <1>1, <1>5, <1>7, <1>8, <3>1, InsertTurnChunksKeeps
    <3> QED BY <3>2 DEF ScreenOK
  <2>3. CASE legality = "refine"
    <3>1. cs = RefineProvisionalChunks(chunks, ids, drafts).chunks
      BY <2>1, <2>3
    <3>2. ids \in SUBSET Owed
      BY <1>1 DEF ids, owed
    <3>3. ScreenOK(cs, Owed \ ids, n) /\ KeepsSpoken(chunks, cs)
      BY <1>1, <1>4, <1>7, <2>3, <3>1, <3>2, RefineProvisionalChunksKeeps
    <3>4. Owed \ ids = owed
      BY <1>1 DEF ids, owed
    <3> QED BY <3>3, <3>4 DEF ScreenOK
  <2>4. CASE legality = "locked"
    BY <1>1, <1>8, <2>1, <2>4, KeepsSpokenItself
  <2> QED BY <2>1, <2>2, <2>3, <2>4
<1>11. ScreenOK(mid, owed, n) /\ KeepsSpoken(cs, mid)
  <2>1. mid = cs \/ mid = ClearAnticipated(cs) \/ mid = SetAnticipatedChunks(cs, predicted)
    BY <1>6, <1>9 DEF WithPrediction
  <2>2. 0 \notin owed
    BY <1>1 DEF owed
  <2>3. CASE mid = cs
    BY <1>10, <2>3, KeepsSpokenItself
  <2>4. CASE mid = ClearAnticipated(cs)
    BY <1>1, <1>10, <2>4, ClearAnticipatedKeeps
  <2>5. CASE mid = SetAnticipatedChunks(cs, predicted)
    BY <1>1, <1>7, <1>10, <2>2, <2>5, SetAnticipatedChunksKeeps
  <2> QED BY <2>1, <2>3, <2>4, <2>5
<1>12. KeepsSpoken(chunks, mid)
  <2>1. mid \in Seq(Chunk)
    BY <1>11 DEF ScreenOK
  <2> QED BY <1>1, <1>10, <1>11, <2>1, KeepsSpokenTransitive
<1>13. ScreenOK(chunks', owed, n) /\ ScreenStep
  BY <1>1, <1>6, <1>11, <1>12, ScreenStepTo
<1> QED BY <1>2, <1>13 DEF ScreenInv, StoppedScreenIsFinal, owed

(* stop() commits what is editable and drops the prediction.                *)
LEMMA StopScreen ==
  ASSUME TurnsInv, ScreenInv, Stop
  PROVE  ScreenInv' /\ ScreenStep
<1>1. ScreenOK(chunks, Owed, Len(turns)) /\ Len(turns) \in Nat /\ chunks \in Seq(Chunk)
  BY LanesTypes DEF ScreenInv, TurnsInv, LanesInv, ScreenOK
<1>2. Owed' = {} /\ Len(turns') = Len(turns) /\ chunks' = CommitAll(ClearAnticipated(chunks))
  <2>1. PICK restore \in BOOLEAN : InvalidateOutstanding(restore)
    BY DEF Stop
  <2> QED BY <2>1, InvalidateEffect DEF Stop, Invalidated, SameSpeech
<1>3. PICK owed, n : owed = Owed' /\ n = Len(turns) /\ n \in Nat
  BY <1>1
<1>4. ScreenOK(chunks, owed, n)
  <2>1. n <= n /\ Len(turns) <= n /\ \A t \in owed : t \in Owed
    BY <1>2, <1>3
  <2> QED BY <1>1, <1>3, <2>1, ScreenOwes
<1>5. PICK cs : cs = ClearAnticipated(chunks)
  OBVIOUS
<1>6. /\ ScreenOK(cs, owed, n) /\ KeepsSpoken(chunks, cs) /\ cs \in Seq(Chunk)
      /\ \A i \in 1..Len(cs) : cs[i].st # "anticipated"
  <2>1. /\ ScreenOK(cs, owed, n) /\ KeepsSpoken(chunks, cs)
        /\ \A i \in 1..Len(cs) : cs[i].st # "anticipated"
    BY <1>3, <1>4, <1>5, ClearAnticipatedKeeps
  <2> QED BY <2>1 DEF ScreenOK
<1>7. PICK ds : ds = CommitAll(cs)
  OBVIOUS
<1>8. ScreenOK(ds, owed, n) /\ KeepsSpoken(cs, ds) /\ ds \in Seq(Chunk)
  <2>1. ScreenOK(ds, owed, n) /\ KeepsSpoken(cs, ds)
    BY <1>3, <1>6, <1>7, CommitAllKeeps
  <2> QED BY <2>1 DEF ScreenOK
<1>9. \A i \in DOMAIN ds : ds[i].st = "committed"
  <2> SUFFICES ASSUME NEW i \in DOMAIN ds
               PROVE  ds[i].st = "committed"
    OBVIOUS
  <2>1. i \in 1..Len(cs) /\ ds[i].st = IF cs[i].st = "current" THEN "committed" ELSE cs[i].st
    BY <1>6, <1>7, <1>8, CommitAllProperties, ScreenTypes
  <2>2. cs[i].st \in {"current", "committed"}
    BY <1>6, <2>1, ScreenTypes DEF ChunkState
  <2> QED BY <2>1, <2>2
<1>10. KeepsSpoken(chunks, ds) /\ chunks' = ds
  BY <1>1, <1>2, <1>5, <1>6, <1>7, <1>8, KeepsSpokenTransitive
<1> QED BY <1>2, <1>3, <1>8, <1>9, <1>10 DEF ScreenInv, StoppedScreenIsFinal, ScreenStep

(* Every step keeps ScreenInv and the spoken lines.                         *)
LEMMA NextScreen ==
  ASSUME TurnsInv, ScreenInv, [Next]_vars
  PROVE  ScreenInv' /\ ScreenStep
<1>1. TurnsInv'
  BY NextTurnsInv
<1>2. Len(turns) \in Nat /\ Len(turns') \in Nat
  BY <1>1, LanesTypes DEF TurnsInv, LanesInv
<1>3. CASE HandleStable \/ UNCHANGED vars
  <2>1. UNCHANGED <<chunks, turns, cloud, queue, stopped>>
    BY <1>3 DEF HandleStable, vars
  <2> QED BY <1>2, <2>1, ScreenUntouched DEF Owed
<1>4. ASSUME NEW r \in requests, CloudResultStale(r)
      PROVE  ScreenInv' /\ ScreenStep
  BY <1>2, <1>4, StaleResultEffect, ScreenUntouched DEF SameSpeech
<1>5. ASSUME NEW r \in requests, CloudReject(r)
      PROVE  ScreenInv' /\ ScreenStep
  <2>1. /\ Len(turns') = Len(turns) /\ Owed' = ToSet(queue) /\ UNCHANGED <<chunks, stopped>>
    BY <1>5, CloudRejectEffect DEF SettledAs, SameSpeech
  <2>2. \A t \in Owed' : t \in Owed
    BY <2>1 DEF Owed
  <2> QED BY <1>2, <2>1, <2>2, ScreenUntouched
<1>6. CASE ChangeContract
  <2>1. PICK restore \in BOOLEAN : InvalidateOutstanding(restore)
    <3>1. InvalidateOutstanding(~stopped) /\ (~stopped) \in BOOLEAN
      BY <1>6 DEF ChangeContract
    <3> QED BY <3>1
  <2>2. Owed' = {} /\ Len(turns') = Len(turns)
    BY <2>1, InvalidateEffect DEF Invalidated, SameSpeech
  <2> QED BY <1>2, <1>6, <2>2, ScreenUntouched DEF ChangeContract
<1>7. CASE Start
  <2>1. UNCHANGED <<chunks, turns, cloud, queue>> /\ stopped' = FALSE
    BY <1>7 DEF Start
  <2> QED BY <1>2, <2>1, ScreenUntouched DEF Owed
<1> QED
  BY <1>1, <1>3, <1>4, <1>5, <1>6, <1>7, ElapseScreen, TickScreen, FastResultScreen,
     CloudResultScreen, StopScreen DEF Next

(* What the engine keeps true of the lines on the screen. *)
THEOREM SpecScreenInv == Spec => [](TurnsInv /\ ScreenInv)
<1>1. Init => ScreenInv
  <2> SUFFICES ASSUME Init
               PROVE  ScreenInv
    OBVIOUS
  <2>1. chunks = <<>> /\ chunks \in Seq(Chunk) /\ Len(chunks) = 0 /\ DOMAIN chunks = {}
    BY EmptySeq DEF Init
  <2>2. 1..Len(chunks) = {}
    BY <2>1
  <2> QED BY <2>1, <2>2 DEF ScreenInv, ScreenOK, StoppedScreenIsFinal
<1>2. TurnsInv /\ ScreenInv /\ [Next]_vars => ScreenInv'
  BY NextScreen
<1> QED BY <1>1, <1>2, SpecTurnsInv, PTL DEF Spec

(* The editable lines stand in the order the speech came in, whenever the   *)
(* fast lane and the cloud answer.                                          *)
THEOREM SpecEditableInStreamOrder == Spec => []EditableInStreamOrder
<1>1. ScreenInv => EditableInStreamOrder
  <2> SUFFICES ASSUME ScreenInv
               PROVE  EditableInStreamOrder
    OBVIOUS
  <2>1. ScreenOK(chunks, Owed, Len(turns)) /\ DOMAIN chunks = 1..Len(chunks)
    BY ScreenTypes DEF ScreenInv, ScreenOK
  <2> QED BY <2>1 DEF ScreenOK, EditableInStreamOrder
<1> QED BY <1>1, SpecScreenInv, PTL

(* After stop() no editable line is left, and no answer brings one back     *)
(* before the next start().                                                 *)
THEOREM SpecStoppedScreenIsFinal == Spec => []StoppedScreenIsFinal
<1>1. ScreenInv => StoppedScreenIsFinal
  BY DEF ScreenInv
<1> QED BY <1>1, SpecScreenInv, PTL

(* A line that has probably been spoken never changes, nor does any line    *)
(* above it: a step may only drop lines off the top of a full view.         *)
THEOREM SpecSpokenLinesNeverChange == Spec => SpokenLinesNeverChange
<1>1. TurnsInv /\ ScreenInv /\ [Next]_vars => [FrozenDownTo(LastCommitted)]_vars
  <2> SUFFICES ASSUME TurnsInv, ScreenInv, [Next]_vars
               PROVE  FrozenDownTo(LastCommitted)
    OBVIOUS
  <2>1. ScreenStep /\ chunks \in Seq(Chunk)
    BY NextScreen DEF ScreenInv, ScreenOK
  <2> QED BY <2>1, ScreenStepFreezes
<1> QED BY <1>1, SpecScreenInv, PTL DEF Spec, SpokenLinesNeverChange

----------------------------------------------------------------------------
(* The speech. *)

SpeechInv == Speech(turns, pending, rendered, spoken)

(* The empty buffer.                                                        *)
LEMMA EmptyBuffer == ToSet(<<>>) = {} /\ IsInjective(<<>>) /\ <<>> \in Seq(Nat)
<1>1. DOMAIN <<>> = {}
  OBVIOUS
<1> QED BY <1>1 DEF ToSet, IsInjective

(* One more utterance is buffered. *)
LEMMA SpeechHeard ==
  ASSUME NEW ts, NEW pend \in Seq(Nat), NEW rend, NEW n \in Nat, Speech(ts, pend, rend, n)
  PROVE  Speech(ts, Append(pend, n + 1), rend, n + 1)
<1>1. /\ IsInjective(pend) /\ ToSet(pend) \subseteq 1..n
      /\ rend \subseteq 1..n /\ ToSet(pend) \cap rend = {}
  BY DEF Speech
<1>2. n + 1 \in Nat /\ n + 1 \notin 1..n /\ \A x \in 1..n : x \in 1..(n + 1)
  OBVIOUS
<1>3. ToSet(Append(pend, n + 1)) = ToSet(pend) \cup {n + 1}
  BY <1>2, ToSetAppend
<1>4. IsInjective(Append(pend, n + 1))
  <2> DEFINE new == Append(pend, n + 1)
  <2>1. /\ Len(pend) \in Nat /\ DOMAIN pend = 1..Len(pend)
        /\ \A i \in 1..Len(pend) : pend[i] \in ToSet(pend)
    BY LenProperties, ToSetProperties
  <2>2. /\ new \in Seq(Nat) /\ Len(new) = Len(pend) + 1 /\ new[Len(pend) + 1] = n + 1
        /\ \A i \in 1..Len(pend) : new[i] = pend[i]
    BY <1>2, AppendProperties
  <2> HIDE DEF new
  <2>3. DOMAIN new = 1..(Len(pend) + 1)
    BY <2>2, LenProperties
  <2>4. \A i \in 1..(Len(pend) + 1) : i \in 1..Len(pend) \/ i = Len(pend) + 1
    BY <2>1
  <2>5. \A i \in 1..Len(pend) : pend[i] # n + 1
    BY <1>1, <1>2, <2>1
  <2>6. \A i, j \in 1..Len(pend) : pend[i] = pend[j] => i = j
    BY <1>1, <2>1 DEF IsInjective
  <2>7. \A i, j \in 1..(Len(pend) + 1) : new[i] = new[j] => i = j
    BY <2>2, <2>4, <2>5, <2>6
  <2>8. IsInjective(new)
    BY <2>3, <2>7 DEF IsInjective
  <2> QED BY <2>8 DEF new
<1>5. ASSUME NEW t \in 1..Len(ts)
      PROVE  /\ IsInjective(ts[t].text) /\ ToSet(ts[t].text) \subseteq 1..(n + 1)
             /\ Active(ts, t) => ToSet(ts[t].text) \cap ToSet(Append(pend, n + 1)) = {}
             /\ Waits(ts, t) /\ ts[t].prov # "applied" => ToSet(ts[t].text) \cap rend = {}
  <2>1. /\ IsInjective(ts[t].text) /\ ToSet(ts[t].text) \subseteq 1..n
        /\ Active(ts, t) => ToSet(ts[t].text) \cap ToSet(pend) = {}
        /\ Waits(ts, t) /\ ts[t].prov # "applied" => ToSet(ts[t].text) \cap rend = {}
    BY DEF Speech
  <2> QED BY <1>2, <1>3, <2>1
<1>6. \A t, v \in 1..Len(ts) :
        t # v /\ Active(ts, t) /\ Active(ts, v)
          => ToSet(ts[t].text) \cap ToSet(ts[v].text) = {}
  BY DEF Speech
<1>7. ToSet(Append(pend, n + 1)) \subseteq 1..(n + 1) /\ rend \subseteq 1..(n + 1)
      /\ ToSet(Append(pend, n + 1)) \cap rend = {}
  BY <1>1, <1>2, <1>3
<1> QED BY <1>4, <1>5, <1>6, <1>7 DEF Speech

(* The buffer is emptied for a new life. *)
LEMMA SpeechForgotten ==
  ASSUME NEW ts, NEW pend, NEW rend, NEW n, Speech(ts, pend, rend, n)
  PROVE  Speech(ts, <<>>, rend, n)
BY EmptyBuffer DEF Speech

(* A verdict gives no lane more work.                                       *)
LEMMA VerdictIsNoMore ==
  ASSUME NEW ts, NEW us, Verdict(ts, us)
  PROVE  SameSpeech(ts, us) /\ NoMoreActive(ts, us)
BY DEF Verdict, NoMoreActive, Active, Waits

(* A flush moves the buffer to a turn, and what it skips to the buffer. *)
LEMMA SpeechFlushed ==
  ASSUME NEW ts \in Seq(Turn), NEW cs, Speech(ts, pending, rendered, spoken),
         NEW new, NEW ids, Flushed(cs, ts, new, ids), spoken' = spoken
  PROVE  SpeechInv'
<1> DEFINE us == Append(ts, new)
<1>1. PICK heard : /\ heard \in SUBSET ToSet(pending)
                   /\ heard = {} \/ new.prov = "applied"
                   /\ rendered' = rendered \cup heard
  <2>1. CASE rendered' = rendered
    <3>1. rendered' = rendered \cup {} /\ {} \in SUBSET ToSet(pending)
      BY <2>1
    <3> QED BY <3>1
  <2>2. CASE new.prov = "applied" /\ rendered' = rendered \cup ToSet(pending)
    <3>1. ToSet(pending) \in SUBSET ToSet(pending)
      OBVIOUS
    <3> QED BY <2>2, <3>1
  <2> QED BY <2>1, <2>2 DEF Flushed
<1>2. new \in Turn /\ new.text = pending
  BY DEF Flushed
<1>3. Speech(us, <<>>, rendered \cup heard, spoken)
  BY <1>1, <1>2, SpeechCut
<1>4. us \in Seq(Turn)
  BY <1>2, AppendProperties
<1> HIDE DEF us
<1>5. /\ ids \in Seq(1..Len(us)) /\ IsInjective(ids)
      /\ \A t \in ToSet(ids) : Waits(us, t) /\ ~Active(turns', t)
      /\ Moved(us, turns', ToSet(ids)) /\ Restores(us, ids, pending')
  BY DEF Flushed, Scheduled, us
<1>6. SameSpeech(us, turns') /\ NoMoreActive(us, turns')
  BY <1>5 DEF Moved, NoMoreActive, Active, Waits
<1>7. Speech(turns', pending' \o <<>>, rendered \cup heard, spoken)
  BY <1>3, <1>4, <1>5, <1>6, EmptyBuffer, SpeechRestored
<1>8. pending' \o <<>> = pending'
  BY <1>5, ConcatEmptySeq DEF Restores
<1> QED BY <1>1, <1>7, <1>8 DEF SpeechInv

(* Every step keeps SpeechInv.                                              *)
LEMMA NextSpeech ==
  ASSUME ~EarlyRejection, WaitingRecorded, TurnsInv, SpeechInv, [Next]_vars
  PROVE  SpeechInv'
<1>1. /\ turns \in Seq(Turn) /\ Len(turns) \in Nat /\ Len(turns) <= MaxTurns
      /\ pending \in Seq(Nat) /\ spoken \in Nat
      /\ Lanes(turns, cloud, queue, fastFlight.turn)
      /\ Speech(turns, pending, rendered, spoken)
  BY LanesTypes DEF TurnsInv, BaseInv, LanesInv, SpeechInv
<1>2. ASSUME UNCHANGED <<pending, rendered, spoken>>, SameSpeech(turns, turns'),
             NoMoreActive(turns, turns')
      PROVE  SpeechInv'
  BY <1>1, <1>2, SpeechKept DEF SpeechInv
<1>3. CASE Elapse \/ UNCHANGED vars
  <2>1. UNCHANGED <<turns, pending, rendered, spoken>>
    BY <1>3 DEF Elapse, vars
  <2> QED BY <1>1, <2>1 DEF SpeechInv
<1>4. CASE HandleStable
  <2>1. /\ pending' = Append(pending, spoken + 1) /\ spoken' = spoken + 1
        /\ UNCHANGED <<turns, rendered>>
    BY <1>4 DEF HandleStable
  <2> QED BY <1>1, <2>1, SpeechHeard DEF SpeechInv
<1>5. ASSUME NEW ready \in Readiness, Tick(ready) \/ FlushPending(ready)
      PROVE  SpeechInv'
  <2>1. /\ UNCHANGED spoken
        /\ \E cs, ts, flight :
             Ticked(cs, ts, flight) /\ (Cut(cs, ts) \/ NotCut(cs, ts, flight))
    BY <1>5, TickEffect
  <2>2. PICK cs, ts, flight :
          Ticked(cs, ts, flight) /\ (Cut(cs, ts) \/ NotCut(cs, ts, flight))
    BY <2>1
  <2>3. SameSpeech(turns, ts) /\ NoMoreActive(turns, ts) /\ ts \in Seq(Turn)
    BY <2>2, VerdictIsNoMore DEF Ticked, SameSpeech
  <2>4. CASE NotCut(cs, ts, flight)
    BY <1>2, <2>1, <2>3, <2>4 DEF NotCut
  <2>5. CASE Cut(cs, ts)
    <3>1. PICK new, ids : Flushed(cs, ts, new, ids)
      BY <2>5 DEF Cut
    <3>2. Speech(ts, pending, rendered, spoken)
      BY <1>1, <2>3, SpeechKept
    <3> QED BY <2>1, <2>3, <3>1, <3>2, SpeechFlushed
  <2> QED BY <2>2, <2>4, <2>5
<1>6. ASSUME NEW t \in fastRuns, FastResult(t)
      PROVE  SpeechInv'
  <2>1. Answer(t) /\ Verdict(turns, turns') /\ UNCHANGED <<pending, spoken>>
    BY <1>6, FastResultEffect
  <2>2. SameSpeech(turns, turns') /\ NoMoreActive(turns, turns')
    BY <2>1, VerdictIsNoMore
  <2>3. CASE rendered' = rendered
    BY <1>2, <2>1, <2>2, <2>3
  <2>4. CASE rendered' # rendered
    <3>1. /\ rendered' = rendered \cup ToSet(turns[t].text) /\ turns[t].prov = "pending"
          /\ turns' = SetProv(turns, t, "applied") /\ t = fastFlight.turn /\ t # 0
      BY <2>1, <2>4 DEF Answer
    <3>2. t \in 1..Len(turns) /\ "applied" \in ProvisionalState
      BY <1>1, <3>1, LanesTypes DEF ProvisionalState
    <3>3. turns'[t].prov = "applied"
      BY <1>1, <3>1, <3>2, SetProvProperties
    <3>4. PICK shown, heard : shown = {t} /\ heard = ToSet(turns[t].text)
      OBVIOUS
    <3>5. /\ shown \in SUBSET (1..Len(turns))
          /\ \A v \in shown : Active(turns, v) /\ ~(Waits(turns', v) /\ turns'[v].prov # "applied")
          /\ \A u \in heard : \E v \in shown : u \in ToSet(turns[v].text)
      BY <3>1, <3>2, <3>3, <3>4 DEF Active
    <3>6. Speech(turns', pending, rendered \cup heard, spoken)
      BY <1>1, <2>2, <3>5, SpeechShown
    <3> QED BY <2>1, <3>1, <3>4, <3>6 DEF SpeechInv
  <2> QED BY <2>3, <2>4
<1>7. ASSUME NEW r \in requests, CloudResultStale(r)
      PROVE  SpeechInv'
  <2>1. /\ SameSpeech(turns, turns')
        /\ \A t \in 1..Len(turns) :
             /\ turns'[t].ctx = IF t \in ToSet(r.unit) THEN "stale" ELSE turns[t].ctx
             /\ turns'[t].prov = turns[t].prov
        /\ UNCHANGED <<pending, rendered, spoken>>
    BY <1>7, StaleResultEffect
  <2>2. NoMoreActive(turns, turns')
    BY <2>1 DEF NoMoreActive, Active, Waits
  <2> QED BY <1>2, <2>1, <2>2
<1>8. ASSUME NEW s, SettledAs(ToSet(cloud), s), s \notin {"inflight", "queued"}
      PROVE  /\ SameSpeech(turns, turns') /\ NoMoreActive(turns, turns')
             /\ \A t \in ToSet(cloud) : t \in 1..Len(turns) /\ Waits(turns, t) /\ ~Waits(turns', t)
  <2>1. \A t \in ToSet(cloud) : t \in 1..Len(turns) /\ Waits(turns, t)
    <3>1. ToSet(cloud) \subseteq 1..Len(turns)
      BY <1>1, LanesTypes
    <3> QED BY <1>1, <3>1 DEF Lanes, Waits
  <2>2. \A t \in ToSet(cloud) : ~Waits(turns', t)
    BY <1>8, <2>1 DEF SettledAs, Waits
  <2>3. NoMoreActive(turns, turns')
    BY <1>8, <2>2 DEF SettledAs, NoMoreActive, Active
  <2> QED BY <1>8, <2>1, <2>2, <2>3 DEF SettledAs
<1>9. ASSUME NEW r \in requests, CloudResult(r)
      PROVE  SpeechInv'
  <2>1. PICK s \in {"applied", "refined", "kept", "discarded"} :
          /\ SettledAs(ToSet(cloud), s) /\ UNCHANGED <<pending, spoken>>
          /\ rendered' = rendered \/ rendered' = rendered \cup SpeechOf(turns, ToSet(cloud))
    BY <1>9, CloudResultEffect
  <2>2. /\ SameSpeech(turns, turns') /\ NoMoreActive(turns, turns')
        /\ \A t \in ToSet(cloud) : t \in 1..Len(turns) /\ Waits(turns, t) /\ ~Waits(turns', t)
    BY <1>8, <2>1
  <2>3. CASE rendered' = rendered
    BY <1>2, <2>1, <2>2, <2>3
  <2>4. CASE rendered' = rendered \cup SpeechOf(turns, ToSet(cloud))
    <3>1. PICK shown, heard : shown = ToSet(cloud) /\ heard = SpeechOf(turns, ToSet(cloud))
      OBVIOUS
    <3>2. /\ shown \in SUBSET (1..Len(turns))
          /\ \A v \in shown : Active(turns, v) /\ ~(Waits(turns', v) /\ turns'[v].prov # "applied")
          /\ \A u \in heard : \E v \in shown : u \in ToSet(turns[v].text)
      BY <2>2, <3>1 DEF Active, SpeechOf
    <3>3. Speech(turns', pending, rendered \cup heard, spoken)
      BY <1>1, <2>2, <3>2, SpeechShown
    <3> QED BY <2>1, <2>4, <3>1, <3>3 DEF SpeechInv
  <2> QED BY <2>1, <2>3, <2>4
<1>10. ASSUME NEW r \in requests, CloudReject(r)
       PROVE  SpeechInv'
  <2>1. /\ SettledAs(ToSet(cloud), "failed")
        /\ \A t \in ToSet(cloud) : turns[t].prov # "pending"
        /\ \E out : Restores(turns, cloud, out) /\ pending' = out \o pending
        /\ cloud \in Seq(1..Len(turns)) /\ IsInjective(cloud)
        /\ UNCHANGED <<rendered, spoken>>
    BY <1>10, CloudRejectEffect
  <2>2. /\ SameSpeech(turns, turns') /\ NoMoreActive(turns, turns')
        /\ \A t \in ToSet(cloud) : t \in 1..Len(turns) /\ Waits(turns, t) /\ ~Waits(turns', t)
    <3>1. "failed" \notin {"inflight", "queued"}
      OBVIOUS
    <3> QED BY <1>8, <2>1, <3>1
  <2>3. \A t \in ToSet(cloud) : Waits(turns, t) /\ ~Active(turns', t)
    BY <2>1, <2>2 DEF Active, SettledAs
  <2>4. PICK out : Restores(turns, cloud, out) /\ pending' = out \o pending
    BY <2>1
  <2>5. Speech(turns', out \o pending, rendered, spoken)
    BY <1>1, <2>1, <2>2, <2>3, <2>4, SpeechRestored
  <2> QED BY <2>1, <2>4, <2>5 DEF SpeechInv
<1>11. ASSUME NEW restore \in BOOLEAN, InvalidateOutstanding(restore)
       PROVE  SpeechInv'
  <2>1. /\ Invalidated /\ UNCHANGED <<rendered, spoken>>
        /\ restore => \E out : Restores(turns, Orphans, out) /\ pending' = out \o pending
        /\ ~restore => pending' = pending
    BY <1>11, InvalidateEffect
  <2>2. SameSpeech(turns, turns') /\ NoMoreActive(turns, turns')
    <3>1. SameSpeech(turns, turns')
      BY <2>1 DEF Invalidated
    <3>2. ASSUME NEW t \in 1..Len(turns)
          PROVE  /\ Waits(turns', t) => Waits(turns, t)
                 /\ turns'[t].prov \in {turns[t].prov, "stale"}
      <4>1. /\ turns'[t].prov = turns[t].prov \/ turns'[t].prov = "stale"
            /\ turns'[t].ctx = turns[t].ctx \/ turns'[t].ctx = "stale"
        BY <2>1 DEF Invalidated
      <4> QED BY <4>1 DEF Waits
    <3>3. fastFlight.turn # 0 => fastFlight.turn \in 1..Len(turns)
      BY <1>1, LanesTypes
    <3>4. ASSUME NEW t \in 1..Len(turns)
          PROVE  turns[t].prov = "applied" => turns'[t].prov = "applied"
      <4>1. turns[t].prov = "pending" <=> t = fastFlight.turn
        BY <1>1 DEF Lanes
      <4>2. turns[t].prov = "applied" => t # fastFlight.turn
        BY <4>1
      <4> QED BY <2>1, <4>2 DEF Invalidated
    <3>5. \A t \in 1..Len(turns) : Active(turns', t) => Active(turns, t)
      BY <3>2 DEF Active
    <3>6. \A t \in 1..Len(turns) :
            Waits(turns', t) /\ turns'[t].prov # "applied"
              => Waits(turns, t) /\ turns[t].prov # "applied"
      BY <3>2, <3>4
    <3> QED BY <3>1, <3>5, <3>6 DEF NoMoreActive
  <2>3. CASE ~restore
    BY <1>2, <2>1, <2>2, <2>3
  <2>4. CASE restore
    <3>1. /\ Orphans \in Seq(1..Len(turns)) /\ IsInjective(Orphans)
          /\ \A t \in ToSet(Orphans) : t \in 1..Len(turns) /\ Waits(turns, t)
      BY OrphansProperties
    <3>2. \A t \in ToSet(Orphans) : Waits(turns, t) /\ ~Active(turns', t)
      <4> SUFFICES ASSUME NEW t \in ToSet(Orphans)
                   PROVE  ~Active(turns', t)
        BY <3>1
      <4>1. t \in 1..Len(turns) /\ Waits(turns, t) /\ t > Len(turns) - MaxTurnRecords
        BY <3>1 DEF WaitingRecorded
      <4>2. turns[t].prov = "pending" => t = fastFlight.turn
        BY <1>1, <4>1 DEF Lanes
      <4> QED BY <2>1, <4>1, <4>2 DEF Invalidated, Active, Waits
    <3>3. PICK out : Restores(turns, Orphans, out) /\ pending' = out \o pending
      BY <2>1, <2>4
    <3>4. Speech(turns', out \o pending, rendered, spoken)
      <4>1. PICK ids : ids = Orphans
        OBVIOUS
      <4>2. /\ ids \in Seq(1..Len(turns)) /\ IsInjective(ids) /\ Restores(turns, ids, out)
            /\ \A t \in ToSet(ids) : Waits(turns, t) /\ ~Active(turns', t)
        BY <3>1, <3>2, <3>3, <4>1
      <4> QED BY <1>1, <2>2, <4>2, SpeechRestored
    <3> QED BY <2>1, <3>3, <3>4 DEF SpeechInv
  <2> QED BY <2>3, <2>4
<1>12. CASE Stop \/ ChangeContract
  <2>1. PICK restore \in BOOLEAN : InvalidateOutstanding(restore)
    <3>1. CASE Stop
      BY <3>1 DEF Stop
    <3>2. CASE ChangeContract
      <4>1. InvalidateOutstanding(~stopped) /\ (~stopped) \in BOOLEAN
        BY <3>2 DEF ChangeContract
      <4> QED BY <4>1
    <3> QED BY <1>12, <3>1, <3>2
  <2> QED BY <1>11, <2>1
<1>13. CASE Start
  <2>1. pending' = <<>> /\ UNCHANGED <<turns, rendered, spoken>>
    BY <1>13 DEF Start
  <2> QED BY <1>1, <2>1, SpeechForgotten DEF SpeechInv
<1> QED
  BY <1>3, <1>4, <1>5, <1>6, <1>7, <1>9, <1>10, <1>12, <1>13 DEF Next

(* Speech that has English on the screen is not interpreted a second time,  *)
(* and no utterance is owed twice, however answers, failures and contract   *)
(* changes interleave: if the host rejects only what the fast lane has      *)
(* settled, and no turn waits longer than it is recorded.                   *)
THEOREM SpecSpeechInOnePlace ==
  ASSUME ~EarlyRejection
  PROVE  Spec /\ []WaitingRecorded => []SpeechInOnePlace
<1>1. Init => SpeechInv
  <2> SUFFICES ASSUME Init
               PROVE  SpeechInv
    OBVIOUS
  <2>1. turns = <<>> /\ Len(turns) = 0 /\ pending = <<>> /\ rendered = {}
    BY EmptySeq DEF Init
  <2>2. 1..Len(turns) = {}
    BY <2>1
  <2> QED BY <2>1, <2>2, EmptyBuffer DEF SpeechInv, Speech
<1>2. TurnsInv /\ WaitingRecorded /\ SpeechInv /\ [Next]_vars => SpeechInv'
  BY NextSpeech
<1>3. TurnsInv /\ SpeechInv => SpeechInOnePlace
  <2> SUFFICES ASSUME TurnsInv, SpeechInv
               PROVE  SpeechInOnePlace
    OBVIOUS
  <2>1. /\ Speech(turns, pending, rendered, spoken) /\ turns \in Seq(Turn)
        /\ DOMAIN turns = 1..Len(turns)
    BY LanesTypes, TurnTypes DEF TurnsInv, LanesInv, SpeechInv
  <2> DEFINE owed == {t \in DOMAIN turns : Waiting(t)}
  <2>2. \A t \in owed : t \in 1..Len(turns) /\ Active(turns, t)
    BY <2>1 DEF Waiting, Active, Waits
  <2> HIDE DEF owed
  <2>3. \A t \in owed : ToSet(turns[t].text) \cap ToSet(pending) = {}
    BY <2>1, <2>2 DEF Speech
  <2>4. ToSet(pending) \cap (rendered \cup SpeechOf(turns, owed)) = {}
    <3>1. ToSet(pending) \cap rendered = {}
      BY <2>1 DEF Speech
    <3> QED BY <2>3, <3>1 DEF SpeechOf
  <2>5. \A t, v \in owed : t # v => ToSet(turns[t].text) \cap ToSet(turns[v].text) = {}
    BY <2>1, <2>2 DEF Speech
  <2>6. IsInjective(pending)
    BY <2>1 DEF Speech
  <2> QED BY <2>4, <2>5, <2>6 DEF SpeechInOnePlace, owed
<1> QED BY <1>1, <1>2, <1>3, SpecTurnsInv, PTL DEF Spec

----------------------------------------------------------------------------
(* What was said is not dropped.                                            *)

(* The English of a turn is owed or there. *)
Holds(ts, t) ==
  \/ Waits(ts, t)
  \/ ts[t].prov = "applied"
  \/ ts[t].ctx \in {"applied", "refined", "kept", "discarded"}

Heard(ts, pend, u) ==
  \/ u \in ToSet(pend)
  \/ \E t \in 1..Len(ts) : u \in ToSet(ts[t].text) /\ Holds(ts, t)

(* A late answer finds the turns of its request marked stale already. *)
StaleUnits ==
  \A r \in requests : Stale(r) => \A t \in ToSet(r.unit) : turns[t].ctx = "stale"

KeptInv ==
  /\ StaleUnits
  /\ lifeStart \in Nat
  /\ ~stopped => \A u \in (lifeStart + 1)..spoken : Heard(turns, pending, u)

(* A turn may give up its speech to the buffer only. *)
LEMMA HeardKept ==
  ASSUME NEW ts, NEW us, NEW pend, NEW buf, SameSpeech(ts, us),
         ToSet(pend) \subseteq ToSet(buf),
         \A t \in 1..Len(ts) :
           Holds(ts, t) => Holds(us, t) \/ ToSet(ts[t].text) \subseteq ToSet(buf),
         NEW u, Heard(ts, pend, u)
  PROVE  Heard(us, buf, u)
<1>1. CASE u \in ToSet(pend)
  BY <1>1 DEF Heard
<1>2. CASE u \notin ToSet(pend)
  <2>1. PICK t \in 1..Len(ts) : u \in ToSet(ts[t].text) /\ Holds(ts, t)
    BY <1>2 DEF Heard
  <2>2. t \in 1..Len(us) /\ us[t].text = ts[t].text
    BY DEF SameSpeech
  <2>3. CASE Holds(us, t)
    BY <2>1, <2>2, <2>3 DEF Heard
  <2>4. CASE ToSet(ts[t].text) \subseteq ToSet(buf)
    BY <2>1, <2>4 DEF Heard
  <2> QED BY <2>1, <2>3, <2>4
<1> QED BY <1>1, <1>2

(* A turn cut from the buffer owes what it took. *)
LEMMA HeardCut ==
  ASSUME NEW ts \in Seq(Turn), NEW pend, NEW new \in Turn, new.text = pend,
         new.ctx = "queued", NEW u, Heard(ts, pend, u)
  PROVE  Heard(Append(ts, new), <<>>, u)
<1> DEFINE us == Append(ts, new)
           N  == Len(ts)
<1>1. /\ N \in Nat /\ Len(us) = N + 1 /\ us[N + 1] = new
      /\ \A t \in 1..N : us[t] = ts[t]
  BY LenProperties, AppendProperties
<1> HIDE DEF us
<1>2. N + 1 \in 1..Len(us) /\ \A t \in 1..N : t \in 1..Len(us)
  BY <1>1
<1>3. ASSUME u \in ToSet(pend)
      PROVE  Heard(us, <<>>, u)
  BY <1>1, <1>2, <1>3 DEF Heard, Holds, Waits
<1>4. ASSUME u \notin ToSet(pend)
      PROVE  Heard(us, <<>>, u)
  <2>1. PICK t \in 1..N : u \in ToSet(ts[t].text) /\ Holds(ts, t)
    BY <1>4 DEF Heard
  <2>2. us[t] = ts[t] /\ t \in 1..Len(us)
    BY <1>1, <1>2
  <2> QED BY <2>1, <2>2 DEF Heard, Holds, Waits
<1>5. Heard(us, <<>>, u)
  BY <1>3, <1>4
<1> QED BY <1>5 DEF us

(* No request goes out of date while the generation lasts. *)
LEMMA StaleStep ==
  ASSUME StaleUnits, UnitsInv, UNCHANGED <<stopped, generation>>,
         \A r \in requests' : r \in requests \/ (r.gen = generation /\ ~stopped),
         \A t \in 1..Len(turns) : turns[t].ctx = "stale" => turns'[t].ctx = "stale"
  PROVE  StaleUnits'
<1> SUFFICES ASSUME NEW r \in requests', Stale(r)', NEW t \in ToSet(r.unit)
             PROVE  turns'[t].ctx = "stale"
  BY DEF StaleUnits
<1>1. r \in requests /\ Stale(r)
  BY DEF Stale
<1>2. turns[t].ctx = "stale"
  BY <1>1 DEF StaleUnits
<1>3. t \in 1..Len(turns)
  <2>1. r.unit \in Seq(1..Len(turns))
    BY <1>1 DEF UnitsInv
  <2> QED BY <2>1, ToSetProperties
<1> QED BY <1>2, <1>3

(* A verdict takes nothing back.                                            *)
LEMMA VerdictHolds ==
  ASSUME NEW ts, NEW us, Verdict(ts, us)
  PROVE  /\ SameSpeech(ts, us)
         /\ \A t \in 1..Len(ts) : /\ Holds(ts, t) => Holds(us, t)
                                  /\ us[t].ctx = ts[t].ctx
BY DEF Verdict, Holds, Waits

(* While the engine runs, each utterance stays heard. *)
LEMMA KeptStep ==
  ASSUME KeptInv, StaleUnits', UNCHANGED <<spoken, lifeStart>>, stopped' \/ ~stopped,
         ~stopped' => \A u : Heard(turns, pending, u) => Heard(turns', pending', u)
  PROVE  KeptInv'
BY DEF KeptInv

(* Settling a unit takes nothing back from the other turns, nor what the    *)
(* fast lane showed; an answer answers the whole unit.                      *)
LEMMA SettledHolds ==
  ASSUME NEW ids, NEW s, SettledAs(ids, s)
  PROVE  /\ SameSpeech(turns, turns')
         /\ \A t \in 1..Len(turns) :
              t \notin ids => (Holds(turns, t) => Holds(turns', t))
         /\ \A t \in 1..Len(turns) : turns[t].prov = "applied" => Holds(turns', t)
         /\ s \in {"applied", "refined", "kept", "discarded"}
              => \A t \in 1..Len(turns) : t \in ids => Holds(turns', t)
<1>1. SameSpeech(turns, turns')
  BY DEF SettledAs
<1>2. ASSUME NEW t \in 1..Len(turns), t \notin ids, Holds(turns, t)
      PROVE  Holds(turns', t)
  <2>1. /\ turns'[t].prov = turns[t].prov /\ (Waits(turns', t) <=> Waits(turns, t))
        /\ ~Waits(turns, t) => turns'[t].ctx = turns[t].ctx
    BY <1>2 DEF SettledAs
  <2> QED BY <1>2, <2>1 DEF Holds
<1>3. ASSUME NEW t \in 1..Len(turns), turns[t].prov = "applied"
      PROVE  Holds(turns', t)
  BY <1>3 DEF SettledAs, Holds
<1>4. ASSUME s \in {"applied", "refined", "kept", "discarded"},
             NEW t \in 1..Len(turns), t \in ids
      PROVE  Holds(turns', t)
  BY <1>4 DEF SettledAs, Holds
<1> QED BY <1>1, <1>2, <1>3, <1>4

(* An invalidation leaves every request out of date and its turns stale. *)
LEMMA InvalidatedUnits ==
  ASSUME StaleUnits, TurnsInv, WaitingRecorded, Invalidated, UNCHANGED requests
  PROVE  \A r \in requests' : \A t \in ToSet(r.unit) : turns'[t].ctx = "stale"
<1> SUFFICES ASSUME NEW r \in requests, NEW t \in ToSet(r.unit)
             PROVE  turns'[t].ctx = "stale"
  OBVIOUS
<1>1. t \in 1..Len(turns)
  <2>1. r.unit \in Seq(1..Len(turns))
    BY DEF TurnsInv, UnitsInv
  <2> QED BY <2>1, ToSetProperties
<1>2. turns'[t].ctx = IF t > Len(turns) - MaxTurnRecords /\ Waits(turns, t)
                      THEN "stale" ELSE turns[t].ctx
  BY <1>1 DEF Invalidated
<1>3. CASE Stale(r)
  BY <1>2, <1>3 DEF StaleUnits
<1>4. CASE ~Stale(r)
  <2>1. t \in ToSet(cloud)
    BY <1>4 DEF TurnsInv, LaneInv, SlotInv, Live
  <2>2. Waits(turns, t)
    BY <1>1, <2>1 DEF TurnsInv, LanesInv, Lanes, Waits
  <2> QED BY <1>1, <1>2, <2>2 DEF WaitingRecorded
<1> QED BY <1>3, <1>4

(* A flush keeps every utterance: cut, waiting, shown or restored.          *)
LEMMA KeptFlush ==
  ASSUME NEW ts \in Seq(Turn), NEW cs, NEW new, NEW ids, Flushed(cs, ts, new, ids),
         NEW u, Heard(ts, pending, u)
  PROVE  Heard(turns', pending', u)
<1> DEFINE us == Append(ts, new)
<1>1. new \in Turn /\ new.text = pending /\ new.ctx = "queued"
  BY DEF Flushed
<1>2. Heard(us, <<>>, u)
  BY <1>1, HeardCut
<1> HIDE DEF us
<1>3. Moved(us, turns', ToSet(ids)) /\ Restores(us, ids, pending')
  BY DEF Flushed, Scheduled, us
<1>4. ASSUME NEW t \in 1..Len(us), Holds(us, t)
      PROVE  Holds(turns', t) \/ ToSet(us[t].text) \subseteq ToSet(pending')
  <2>1. CASE t \notin ToSet(ids)
    <3>1. /\ turns'[t].prov = us[t].prov /\ (Waits(turns', t) <=> Waits(us, t))
          /\ ~Waits(us, t) => turns'[t].ctx = us[t].ctx
      BY <1>3, <2>1 DEF Moved
    <3> QED BY <1>4, <3>1 DEF Holds
  <2>2. CASE t \in ToSet(ids) /\ us[t].prov = "applied"
    BY <1>3, <2>2 DEF Moved, Holds
  <2>3. CASE t \in ToSet(ids) /\ us[t].prov # "applied"
    BY <1>3, <2>3 DEF Restores
  <2> QED BY <2>1, <2>2, <2>3
<1>5. SameSpeech(us, turns') /\ ToSet(<<>>) \subseteq ToSet(pending')
  BY <1>3, EmptyBuffer DEF Moved
<1> QED BY <1>2, <1>4, <1>5, HeardKept

(* Every step keeps KeptInv.                                                *)
LEMMA NextKept ==
  ASSUME WaitingRecorded, TurnsInv, KeptInv, [Next]_vars
  PROVE  KeptInv'
<1>1. /\ turns \in Seq(Turn) /\ pending \in Seq(Nat) /\ spoken \in Nat
      /\ stopped \in BOOLEAN /\ UnitsInv /\ StaleUnits /\ lifeStart \in Nat
  BY LanesTypes DEF TurnsInv, BaseInv, LanesInv, KeptInv
<1>2. ASSUME UNCHANGED <<stopped, generation, turns, pending, requests, spoken, lifeStart>>
      PROVE  KeptInv'
  <2>1. StaleUnits'
    BY <1>1, <1>2, StaleStep
  <2> QED BY <1>2, <2>1, KeptStep DEF KeptInv
<1>3. CASE Elapse \/ UNCHANGED vars
  <2>1. UNCHANGED <<stopped, generation, turns, pending, requests, spoken, lifeStart>>
    BY <1>3 DEF Elapse, vars
  <2> QED BY <1>2, <2>1
<1>4. CASE HandleStable
  <2>1. /\ pending' = Append(pending, spoken + 1) /\ spoken' = spoken + 1
        /\ UNCHANGED <<stopped, generation, turns, requests, lifeStart>> /\ ~stopped
    BY <1>4 DEF HandleStable
  <2>2. StaleUnits'
    BY <1>1, <2>1, StaleStep
  <2>3. ToSet(pending') = ToSet(pending) \cup {spoken + 1}
    BY <1>1, <2>1, ToSetAppend
  <2>4. ASSUME NEW u \in (lifeStart + 1)..(spoken + 1)
        PROVE  Heard(turns', pending', u)
    <3>1. CASE u = spoken + 1
      BY <2>3, <3>1 DEF Heard
    <3>2. CASE u # spoken + 1
      <4>1. u \in (lifeStart + 1)..spoken
        BY <1>1, <3>2
      <4>2. Heard(turns, pending, u)
        BY <2>1, <4>1 DEF KeptInv
      <4> QED BY <2>1, <2>3, <4>2 DEF Heard, Holds, Waits
    <3> QED BY <3>1, <3>2
  <2> QED BY <1>1, <2>1, <2>2, <2>4 DEF KeptInv
<1>5. ASSUME NEW ready \in Readiness, Tick(ready) \/ FlushPending(ready)
      PROVE  KeptInv'
  <2>1. /\ ~stopped /\ UNCHANGED <<stopped, generation, rejections, spoken, lifeStart>>
        /\ \E cs, ts, flight :
             Ticked(cs, ts, flight) /\ (Cut(cs, ts) \/ NotCut(cs, ts, flight))
    BY <1>5, TickEffect
  <2>2. PICK cs, ts, flight :
          Ticked(cs, ts, flight) /\ (Cut(cs, ts) \/ NotCut(cs, ts, flight))
    BY <2>1
  <2>3. /\ SameSpeech(turns, ts) /\ ts \in Seq(Turn)
        /\ \A t \in 1..Len(turns) : Holds(turns, t) => Holds(ts, t)
        /\ \A t \in 1..Len(turns) : ts[t].ctx = turns[t].ctx
    BY <2>2, VerdictHolds DEF Ticked, SameSpeech
  <2>4. CASE NotCut(cs, ts, flight)
    <3>1. turns' = ts /\ UNCHANGED <<pending, requests>>
      BY <2>4 DEF NotCut
    <3>2. StaleUnits'
      BY <1>1, <2>1, <2>3, <3>1, StaleStep
    <3>3. \A u : Heard(turns, pending, u) => Heard(turns', pending', u)
      BY <2>3, <3>1, HeardKept
    <3> QED BY <2>1, <3>2, <3>3, KeptStep
  <2>5. CASE Cut(cs, ts)
    <3>1. PICK new, ids : Flushed(cs, ts, new, ids)
      BY <2>5 DEF Cut
    <3>2. \A u : Heard(turns, pending, u) => Heard(ts, pending, u)
      BY <2>3, HeardKept
    <3>3. \A u : Heard(turns, pending, u) => Heard(turns', pending', u)
      BY <2>3, <3>1, <3>2, KeptFlush
    <3>4. \A r \in requests' : r \in requests \/ (r.gen = generation /\ ~stopped)
      BY <2>1, <2>5 DEF Cut, RequestsFrom
    <3>5. \A t \in 1..Len(turns) : turns[t].ctx = "stale" => turns'[t].ctx = "stale"
      <4> DEFINE us == Append(ts, new)
      <4>1. new \in Turn /\ Moved(us, turns', ToSet(ids)) /\ \A t \in ToSet(ids) : Waits(us, t)
        BY <3>1 DEF Flushed, Scheduled
      <4>2. /\ Len(turns) \in Nat /\ Len(ts) = Len(turns) /\ Len(us) = Len(turns) + 1
            /\ \A t \in 1..Len(turns) : us[t] = ts[t]
        BY <1>1, <2>3, <4>1, LenProperties, AppendProperties DEF SameSpeech
      <4> HIDE DEF us
      <4> SUFFICES ASSUME NEW t \in 1..Len(turns), turns[t].ctx = "stale"
                   PROVE  turns'[t].ctx = "stale"
        OBVIOUS
      <4>3. t \in 1..Len(us) /\ us[t].ctx = "stale"
        BY <2>3, <4>2
      <4>4. ~Waits(us, t)
        BY <4>3 DEF Waits
      <4> QED BY <4>1, <4>3, <4>4 DEF Moved
    <3>6. StaleUnits'
      BY <1>1, <2>1, <3>4, <3>5, StaleStep
    <3> QED BY <2>1, <3>3, <3>6, KeptStep
  <2> QED BY <2>2, <2>4, <2>5
<1>6. ASSUME NEW t \in fastRuns, FastResult(t)
      PROVE  KeptInv'
  <2>1. /\ Verdict(turns, turns')
        /\ UNCHANGED <<stopped, generation, pending, requests, spoken, lifeStart>>
    BY <1>6, FastResultEffect
  <2>2. /\ SameSpeech(turns, turns')
        /\ \A v \in 1..Len(turns) : /\ Holds(turns, v) => Holds(turns', v)
                                    /\ turns'[v].ctx = turns[v].ctx
    BY <2>1, VerdictHolds
  <2>3. StaleUnits'
    BY <1>1, <2>1, <2>2, StaleStep
  <2>4. \A u : Heard(turns, pending, u) => Heard(turns', pending', u)
    BY <2>1, <2>2, HeardKept
  <2> QED BY <1>1, <2>1, <2>3, <2>4, KeptStep DEF KeptInv
<1>7. ASSUME NEW r \in requests, CloudResultStale(r)
      PROVE  KeptInv'
  <2>1. /\ SameSpeech(turns, turns')
        /\ \A t \in 1..Len(turns) :
             /\ turns'[t].ctx = IF t \in ToSet(r.unit) THEN "stale" ELSE turns[t].ctx
             /\ turns'[t].prov = turns[t].prov
        /\ requests' = requests \ {r}
        /\ UNCHANGED <<stopped, generation, pending, spoken, lifeStart>>
    BY <1>7, StaleResultEffect
  <2>2. \A t \in ToSet(r.unit) : turns[t].ctx = "stale"
    BY <1>1, <1>7 DEF CloudResultStale, StaleUnits
  <2>3. \A t \in 1..Len(turns) : turns'[t].ctx = turns[t].ctx
    BY <2>1, <2>2
  <2>4. StaleUnits'
    BY <1>1, <2>1, <2>3, StaleStep
  <2>5. \A t \in 1..Len(turns) : Holds(turns, t) => Holds(turns', t)
    BY <2>1, <2>3 DEF Holds, Waits
  <2>6. \A u : Heard(turns, pending, u) => Heard(turns', pending', u)
    BY <2>1, <2>5, HeardKept
  <2> QED BY <1>1, <2>1, <2>4, <2>6, KeptStep DEF KeptInv
<1>8. ASSUME NEW s \in {"applied", "refined", "kept", "discarded", "failed"},
             SettledAs(ToSet(cloud), s), RequestsFrom(requests), ~stopped,
             UNCHANGED <<stopped, generation>>
      PROVE  StaleUnits'
  <2>1. \A r \in requests' : r \in requests \/ (r.gen = generation /\ ~stopped)
    BY <1>8 DEF RequestsFrom
  <2>2. ASSUME NEW t \in 1..Len(turns), turns[t].ctx = "stale"
        PROVE  turns'[t].ctx = "stale"
    <3>1. ~Waits(turns, t)
      BY <2>2 DEF Waits
    <3>2. t \notin ToSet(cloud)
      BY <2>2 DEF TurnsInv, LanesInv, Lanes
    <3> QED BY <1>8, <2>2, <3>1, <3>2 DEF SettledAs
  <2> QED BY <1>1, <1>8, <2>1, <2>2, StaleStep
<1>9. ASSUME NEW r \in requests, CloudResult(r)
      PROVE  KeptInv'
  <2>1. PICK s \in {"applied", "refined", "kept", "discarded"} :
          /\ SettledAs(ToSet(cloud), s) /\ RequestsFrom(requests) /\ ~stopped
          /\ UNCHANGED <<stopped, generation, pending, spoken, lifeStart>>
    BY <1>9, CloudResultEffect
  <2>2. StaleUnits'
    BY <1>8, <2>1
  <2>3. /\ SameSpeech(turns, turns')
        /\ \A t \in 1..Len(turns) : Holds(turns, t) => Holds(turns', t)
    BY <2>1, SettledHolds
  <2>4. \A u : Heard(turns, pending, u) => Heard(turns', pending', u)
    BY <2>1, <2>3, HeardKept
  <2> QED BY <2>1, <2>2, <2>4, KeptStep
<1>10. ASSUME NEW r \in requests, CloudReject(r)
       PROVE  KeptInv'
  <2>1. /\ SettledAs(ToSet(cloud), "failed") /\ RequestsFrom(requests) /\ ~stopped
        /\ \E out : Restores(turns, cloud, out) /\ pending' = out \o pending
        /\ UNCHANGED <<stopped, generation, spoken, lifeStart>>
    <3>1. generation' = generation /\ stopped' = stopped
      BY <1>10 DEF CloudReject
    <3> QED BY <1>10, <3>1, CloudRejectEffect
  <2>2. StaleUnits'
    <3>1. PICK s \in {"applied", "refined", "kept", "discarded", "failed"} : s = "failed"
      OBVIOUS
    <3> QED BY <1>8, <2>1, <3>1
  <2>3. PICK out : Restores(turns, cloud, out) /\ pending' = out \o pending
    BY <2>1
  <2>4. ToSet(pending') = ToSet(out) \cup ToSet(pending)
    BY <1>1, <2>3, ToSetConcat DEF Restores
  <2>5. /\ SameSpeech(turns, turns')
        /\ \A t \in 1..Len(turns) :
             t \notin ToSet(cloud) => (Holds(turns, t) => Holds(turns', t))
        /\ \A t \in 1..Len(turns) : turns[t].prov = "applied" => Holds(turns', t)
    BY <2>1, SettledHolds
  <2>6. \A t \in ToSet(cloud) :
          turns[t].prov # "applied" => ToSet(turns[t].text) \subseteq ToSet(out)
    BY <2>3 DEF Restores
  <2>7. \A t \in 1..Len(turns) :
          Holds(turns, t) => Holds(turns', t) \/ ToSet(turns[t].text) \subseteq ToSet(pending')
    BY <2>4, <2>5, <2>6
  <2>8. ToSet(pending) \subseteq ToSet(pending')
    BY <2>4
  <2>9. \A u : Heard(turns, pending, u) => Heard(turns', pending', u)
    BY <2>5, <2>7, <2>8, HeardKept
  <2> QED BY <2>1, <2>2, <2>9, KeptStep
<1>11. ASSUME NEW restore \in BOOLEAN, InvalidateOutstanding(restore)
       PROVE  /\ StaleUnits' /\ UNCHANGED spoken
              /\ restore => \A u : Heard(turns, pending, u) => Heard(turns', pending', u)
  <2>1. /\ Invalidated /\ UNCHANGED <<requests, spoken>>
        /\ restore => \E out : Restores(turns, Orphans, out) /\ pending' = out \o pending
    BY <1>11, InvalidateEffect
  <2>2. StaleUnits'
    BY <1>1, <2>1, InvalidatedUnits DEF StaleUnits
  <2>3. ASSUME restore
        PROVE  \A u : Heard(turns, pending, u) => Heard(turns', pending', u)
    <3>1. PICK out : Restores(turns, Orphans, out) /\ pending' = out \o pending
      BY <2>1, <2>3
    <3>2. ToSet(pending') = ToSet(out) \cup ToSet(pending)
      BY <1>1, <3>1, ToSetConcat DEF Restores
    <3>3. SameSpeech(turns, turns') /\ ToSet(pending) \subseteq ToSet(pending')
      BY <2>1, <3>2 DEF Invalidated
    <3>4. ASSUME NEW t \in 1..Len(turns), Holds(turns, t)
          PROVE  Holds(turns', t) \/ ToSet(turns[t].text) \subseteq ToSet(pending')
      <4>1. /\ turns'[t].prov = IF t = fastFlight.turn THEN "stale" ELSE turns[t].prov
            /\ turns'[t].ctx = IF t > Len(turns) - MaxTurnRecords /\ Waits(turns, t)
                               THEN "stale" ELSE turns[t].ctx
        BY <2>1 DEF Invalidated
      <4>2. turns[t].prov = "pending" <=> t = fastFlight.turn
        BY DEF TurnsInv, LanesInv, Lanes
      <4>3. CASE turns[t].prov = "applied"
        <5>1. t # fastFlight.turn
          BY <4>2, <4>3
        <5> QED BY <4>1, <4>3, <5>1 DEF Holds
      <4>4. CASE ~Waits(turns, t) /\ turns[t].prov # "applied"
        BY <3>4, <4>1, <4>4 DEF Holds
      <4>5. CASE Waits(turns, t) /\ turns[t].prov # "applied"
        <5>1. t \in ToSet(Orphans)
          BY <4>5, OrphansProperties DEF WaitingRecorded
        <5>2. ToSet(turns[t].text) \subseteq ToSet(out)
          BY <3>1, <4>5, <5>1 DEF Restores
        <5> QED BY <3>2, <5>2
      <4> QED BY <4>3, <4>4, <4>5
    <3> QED BY <3>3, <3>4, HeardKept
  <2> QED BY <2>1, <2>2, <2>3
<1>12. CASE Stop
  <2>1. stopped' = TRUE /\ ~stopped /\ UNCHANGED lifeStart
    BY <1>12 DEF Stop
  <2>2. PICK restore \in BOOLEAN : InvalidateOutstanding(restore)
    BY <1>12 DEF Stop
  <2>3. StaleUnits' /\ UNCHANGED spoken
    BY <1>11, <2>2
  <2> QED BY <1>1, <2>1, <2>3 DEF KeptInv
<1>13. CASE ChangeContract
  <2>1. PICK restore \in BOOLEAN : restore = ~stopped
    OBVIOUS
  <2>2. InvalidateOutstanding(restore) /\ UNCHANGED <<stopped, lifeStart>>
    BY <1>13, <2>1 DEF ChangeContract
  <2>3. /\ StaleUnits' /\ UNCHANGED spoken
        /\ restore => \A u : Heard(turns, pending, u) => Heard(turns', pending', u)
    BY <1>11, <2>2
  <2>4. ~stopped' => \A u : Heard(turns, pending, u) => Heard(turns', pending', u)
    BY <2>1, <2>2, <2>3
  <2> QED BY <1>1, <2>2, <2>3, <2>4, KeptStep
<1>14. CASE Start
  <2>1. /\ stopped /\ lifeStart' = spoken
        /\ UNCHANGED <<turns, requests, spoken>>
    BY <1>14 DEF Start
  <2>2. StaleUnits'
    BY <1>1, <2>1 DEF StaleUnits, Stale
  <2>3. (spoken + 1)..spoken = {}
    BY <1>1
  <2> QED BY <1>1, <2>1, <2>2, <2>3 DEF KeptInv
<1> QED
  BY <1>3, <1>4, <1>5, <1>6, <1>7, <1>9, <1>10, <1>12, <1>13, <1>14 DEF Next

(* "A transient network failure must never turn into a missing sentence in  *)
(* the English stream": while the engine runs, whatever was said in this    *)
(* life is buffered, owed by the cloud, shown by the fast lane or answered  *)
(* by the cloud, if no turn waits longer than it is recorded.               *)
THEOREM SpecNoSpeechDropped ==
  Spec /\ []WaitingRecorded => []NoSpeechDropped
<1>1. Init => KeptInv
  <2> SUFFICES ASSUME Init
               PROVE  KeptInv
    OBVIOUS
  <2>1. requests = {} /\ lifeStart = 0 /\ spoken = 0
    BY DEF Init
  <2> QED BY <2>1 DEF KeptInv, StaleUnits
<1>2. TurnsInv /\ WaitingRecorded /\ KeptInv /\ [Next]_vars => KeptInv'
  BY NextKept
<1>3. TurnsInv /\ KeptInv => NoSpeechDropped
  <2> SUFFICES ASSUME TurnsInv, KeptInv, ~stopped, NEW u \in (lifeStart + 1)..spoken,
                      u \notin ToSet(pending)
               PROVE  \E t \in DOMAIN turns :
                        u \in ToSet(turns[t].text) /\ (Waiting(t) \/ Answered(t))
    BY DEF NoSpeechDropped
  <2>1. DOMAIN turns = 1..Len(turns)
    BY TurnTypes DEF TurnsInv, LanesInv, Lanes
  <2>2. PICK t \in 1..Len(turns) : u \in ToSet(turns[t].text) /\ Holds(turns, t)
    BY DEF KeptInv, Heard
  <2> QED BY <2>1, <2>2 DEF Holds, Waits, Waiting, Answered
<1> QED BY <1>1, <1>2, <1>3, SpecTurnsInv, PTL DEF Spec

----------------------------------------------------------------------------
(* How long a turn waits.                                                   *)

QueueInv == Len(queue) <= MaxCoalescedTurns

(* The only record a lane can outlive is that of the request in flight. *)
CloudRecorded == \A t \in ToSet(cloud) : t > Len(turns) - MaxTurnRecords

(* The queue is cut to its bound, and a busy slot is not taken.             *)
LEMMA ScheduleQueue ==
  ASSUME TurnsInv, QueueInv, NEW ts, NEW id \in Nat, ScheduleContextual(ts, id)
  PROVE  QueueInv' /\ (cloud # <<>> => cloud' = cloud)
<1>1. CASE cloud = <<>>
  BY <1>1 DEF ScheduleContextual, QueueInv
<1>2. CASE cloud # <<>>
  <2> DEFINE waiting == Append(queue, id)
  <2>1. queue' = Kept(ts, waiting) /\ cloud' = cloud
    BY <1>2 DEF ScheduleContextual
  <2>2. queue \in Seq(Nat)
    <3>1. queue \in Seq(1..Len(turns)) /\ Len(turns) \in Nat
      BY LanesTypes DEF TurnsInv, LanesInv
    <3> QED BY <3>1, UnitIsNumbers
  <2>3. waiting \in Seq(Nat) /\ Len(waiting) \in Nat /\ Len(waiting) # 0
    BY <2>2, AppendProperties, LenProperties
  <2> HIDE DEF waiting
  <2>4. PICK k \in 1..Len(waiting) :
          k <= MaxCoalescedTurns /\ Kept(ts, waiting) = LastN(waiting, k)
    BY <2>3, KeptProperties
  <2>5. k \in Nat /\ k <= Len(waiting)
    BY <2>3
  <2>6. Len(LastN(waiting, k)) = k
    <3>1. PICK d \in 0..Len(waiting) :
            /\ Len(LastN(waiting, k)) = Len(waiting) - d
            /\ k <= Len(waiting) => d = Len(waiting) - k
      BY <2>3, <2>5, LastNProperties
    <3> QED BY <2>3, <2>5, <3>1
  <2> QED BY <2>1, <2>4, <2>6 DEF QueueInv
<1> QED BY <1>1, <1>2

(* A flush leaves the request in flight alone, and bounds the queue. *)
LEMMA FlushQueue ==
  ASSUME TurnsInv, QueueInv, NEW ready \in Readiness, Tick(ready) \/ FlushPending(ready)
  PROVE  QueueInv' /\ (cloud # <<>> => cloud' = cloud)
<1>1. /\ turns \in Seq(Turn) /\ Len(turns) \in Nat
      /\ fastFlight.turn # 0 => fastFlight.turn \in 1..Len(turns)
  BY LanesTypes DEF TurnsInv, LanesInv
<1>2. ASSUME NEW cs, NEW ts, NEW flight, Len(ts) \in Nat, Flush(ready, cs, ts, flight)
      PROVE  QueueInv' /\ (cloud # <<>> => cloud' = cloud)
  <2>1. \E us : ScheduleContextual(us, Len(ts) + 1)
    BY <1>2 DEF Flush
  <2>2. PICK us, id : id \in Nat /\ ScheduleContextual(us, id)
    BY <1>2, <2>1
  <2> QED BY <2>2, ScheduleQueue
<1>3. CASE FlushPending(ready)
  BY <1>1, <1>2, <1>3 DEF FlushPending
<1>4. CASE Tick(ready)
  <2>1. PICK cs, ts, flight :
          /\ ts = turns \/ (fastFlight.turn # 0 /\ ts = SetProv(turns, fastFlight.turn, "failed"))
          /\ Flush(ready, cs, ts, flight) \/ UNCHANGED <<queue, cloud>>
    BY <1>4 DEF Tick, FastLaneTimedOut
  <2>2. Len(ts) \in Nat
    <3>1. CASE ts = turns
      BY <1>1, <3>1
    <3>2. CASE fastFlight.turn # 0 /\ ts = SetProv(turns, fastFlight.turn, "failed")
      <4>1. "failed" \in ProvisionalState
        BY DEF ProvisionalState
      <4>2. SameSpeech(turns, ts)
        BY <1>1, <3>2, <4>1, SetProvProperties
      <4> QED BY <1>1, <4>2 DEF SameSpeech
    <3> QED BY <2>1, <3>1, <3>2
  <2> QED BY <1>2, <2>1, <2>2 DEF QueueInv
<1> QED BY <1>3, <1>4

(* Every step keeps QueueInv.                                               *)
LEMMA NextQueue ==
  ASSUME TurnsInv, QueueInv, [Next]_vars
  PROVE  QueueInv'
<1>1. ASSUME UNCHANGED queue \/ queue' = <<>>
      PROVE  QueueInv'
  BY <1>1, EngineAssumption, EmptySeq DEF QueueInv
<1>2. CASE HandleStable \/ Elapse \/ Start \/ UNCHANGED vars
  BY <1>1, <1>2 DEF HandleStable, Elapse, Start, vars
<1>3. ASSUME NEW ready \in Readiness, Tick(ready) \/ FlushPending(ready)
      PROVE  QueueInv'
  BY <1>3, FlushQueue
<1>4. ASSUME NEW t \in fastRuns, FastResult(t)
      PROVE  QueueInv'
  BY <1>1, <1>4, FastResultEffect
<1>5. ASSUME NEW r \in requests, CloudResultStale(r)
      PROVE  QueueInv'
  BY <1>1, <1>5, StaleResultEffect
<1>6. ASSUME NEW r \in requests, CloudResult(r) \/ CloudReject(r)
      PROVE  QueueInv'
  <2>1. \E ts : FinishCloud(requests \ {r}, ts)
    BY <1>6 DEF CloudResult, CloudReject
  <2>2. queue' = <<>>
    BY <2>1 DEF FinishCloud
  <2> QED BY <1>1, <2>2
<1>7. CASE Stop \/ ChangeContract
  <2>1. queue' = <<>>
    BY <1>7 DEF Stop, ChangeContract, InvalidateOutstanding
  <2> QED BY <1>1, <2>1
<1> QED BY <1>2, <1>3, <1>4, <1>5, <1>6, <1>7 DEF Next

(* No action but a flush makes a turn wait, and a flush only its own. *)
LEMMA NextWaiting ==
  ASSUME MaxCoalescedTurns < MaxTurnRecords, TurnsInv, QueueInv, CloudRecorded',
         WaitingRecorded, [Next]_vars
  PROVE  WaitingRecorded'
<1>1. /\ turns \in Seq(Turn) /\ Len(turns) \in Nat
      /\ Lanes(turns, cloud, queue, fastFlight.turn)
  BY LanesTypes DEF TurnsInv, LanesInv
<1>2. ASSUME SameSpeech(turns, turns'),
             \A t \in 1..Len(turns) : Waits(turns', t) => Waits(turns, t)
      PROVE  WaitingRecorded'
  BY <1>2 DEF WaitingRecorded, SameSpeech
<1>3. CASE UNCHANGED turns
  BY <1>1, <1>2, <1>3 DEF SameSpeech, Waits
<1>4. CASE HandleStable \/ Elapse \/ Start \/ UNCHANGED vars
  BY <1>3, <1>4 DEF HandleStable, Elapse, Start, vars
<1>5. ASSUME NEW ts, Verdict(turns, ts)
      PROVE  /\ SameSpeech(turns, ts)
             /\ \A t \in 1..Len(turns) : Waits(ts, t) => Waits(turns, t)
  BY <1>5 DEF Verdict, Waits
<1>6. ASSUME NEW ready \in Readiness, Tick(ready) \/ FlushPending(ready)
      PROVE  WaitingRecorded'
  <2>1. PICK cs, ts, flight :
          Ticked(cs, ts, flight) /\ (Cut(cs, ts) \/ NotCut(cs, ts, flight))
    BY <1>6, TickEffect
  <2>2. /\ SameSpeech(turns, ts)
        /\ \A t \in 1..Len(turns) : Waits(ts, t) => Waits(turns, t)
    BY <1>5, <2>1 DEF Ticked
  <2>3. CASE NotCut(cs, ts, flight)
    BY <1>2, <2>2, <2>3 DEF NotCut
  <2>4. CASE Cut(cs, ts)
    <3>1. PICK new, ids : Flushed(cs, ts, new, ids)
      BY <2>4 DEF Cut
    <3> DEFINE n  == Len(turns)
               us == Append(ts, new)
    <3>2. /\ new \in Turn /\ Moved(us, turns', ToSet(ids))
      BY <3>1 DEF Flushed, Scheduled
    <3>3. /\ Len(ts) = n /\ Len(us) = n + 1 /\ \A t \in 1..n : us[t] = ts[t]
      BY <1>1, <2>2, <3>2, LenProperties, AppendProperties DEF SameSpeech
    <3> HIDE DEF us
    <3>4. Len(turns') = n + 1
      BY <3>2, <3>3 DEF Moved, SameSpeech
    <3> SUFFICES ASSUME NEW t \in 1..(n + 1), Waits(turns', t)
                 PROVE  t > (n + 1) - MaxTurnRecords
      BY <3>4 DEF WaitingRecorded
    <3>5. CASE t = n + 1
      BY <1>1, <3>5, EngineAssumption
    <3>6. CASE t \in 1..n
      <4>1. Waits(us, t)
        <5>1. t \in 1..Len(us)
          BY <1>1, <3>3
        <5>2. t \notin ToSet(ids)
          BY <3>2, <5>1 DEF Moved, Waits
        <5> QED BY <3>2, <5>1, <5>2 DEF Moved
      <4>2. Waits(turns, t)
        BY <2>2, <3>3, <3>6, <4>1 DEF Waits
      <4>3. t \in ToSet(cloud) \cup ToSet(queue)
        BY <1>1, <3>6, <4>2 DEF Lanes, WaitingRecorded
      <4>4. CASE t \in ToSet(cloud)
        <5>1. cloud # <<>>
          BY <4>4, NoUnit
        <5>2. cloud' = cloud
          BY <1>6, <5>1, FlushQueue
        <5> QED BY <3>4, <4>4, <5>2 DEF CloudRecorded
      <4>5. CASE t \in ToSet(queue)
        <5>1. PICK i \in 1..Len(queue) : queue[i] = t
          <6>1. queue \in Seq(1..n)
            BY <1>1 DEF Lanes
          <6> QED BY <4>5, <6>1, ToSetProperties
        <5>2. t = (n - Len(queue)) + i /\ Len(queue) \in Nat
          BY <1>1, <5>1, LanesTypes DEF Lanes
        <5> QED BY <1>1, <5>1, <5>2, EngineAssumption DEF QueueInv
      <4> QED BY <4>3, <4>4, <4>5
    <3> QED BY <1>1, <3>5, <3>6
  <2> QED BY <2>1, <2>3, <2>4
<1>7. ASSUME NEW t \in fastRuns, FastResult(t)
      PROVE  WaitingRecorded'
  BY <1>2, <1>5, <1>7, FastResultEffect
<1>8. ASSUME NEW r \in requests, CloudResultStale(r)
      PROVE  WaitingRecorded'
  <2>1. /\ SameSpeech(turns, turns')
        /\ \A t \in 1..Len(turns) :
             turns'[t].ctx = IF t \in ToSet(r.unit) THEN "stale" ELSE turns[t].ctx
    BY <1>8, StaleResultEffect
  <2>2. \A t \in 1..Len(turns) : Waits(turns', t) => Waits(turns, t)
    BY <2>1 DEF Waits
  <2> QED BY <1>2, <2>1, <2>2
<1>9. ASSUME NEW r \in requests, CloudResult(r) \/ CloudReject(r)
      PROVE  WaitingRecorded'
  <2>1. PICK s : /\ s \in {"applied", "refined", "kept", "discarded", "failed"}
                 /\ SettledAs(ToSet(cloud), s)
    <3>1. CASE CloudResult(r)
      BY <3>1, CloudResultEffect
    <3>2. CASE CloudReject(r)
      BY <3>2, CloudRejectEffect
    <3> QED BY <1>9, <3>1, <3>2
  <2>2. \A t \in 1..Len(turns) : Waits(turns', t) => Waits(turns, t)
    BY <2>1 DEF SettledAs, Waits
  <2> QED BY <1>2, <2>1, <2>2 DEF SettledAs
<1>10. CASE Stop \/ ChangeContract
  <2>1. PICK restore \in BOOLEAN : InvalidateOutstanding(restore)
    <3>1. CASE Stop
      BY <3>1 DEF Stop
    <3>2. CASE ChangeContract
      <4>1. InvalidateOutstanding(~stopped) /\ (~stopped) \in BOOLEAN
        BY <3>2 DEF ChangeContract
      <4> QED BY <4>1
    <3> QED BY <1>10, <3>1, <3>2
  <2>2. Invalidated
    BY <2>1, InvalidateEffect
  <2>3. \A t \in 1..Len(turns) : Waits(turns', t) => Waits(turns, t)
    BY <2>2 DEF Invalidated, Waits
  <2> QED BY <1>2, <2>2, <2>3 DEF Invalidated
<1> QED BY <1>4, <1>6, <1>7, <1>8, <1>9, <1>10 DEF Next

(* The coalesced unit never grows beyond MAX_COALESCED_TURNS. *)
THEOREM SpecQueueInv == Spec => []QueueInv
<1>1. Init => QueueInv
  BY EngineAssumption, EmptySeq DEF Init, QueueInv
<1>2. TurnsInv /\ QueueInv /\ [Next]_vars => QueueInv'
  BY NextQueue
<1> QED BY <1>1, <1>2, SpecTurnsInv, PTL DEF Spec

(* With more records than may wait (64 and 6 in the code), a turn waits     *)
(* longer than it is recorded only as a part of a request that is: if the   *)
(* cloud answers, or gives up, before MaxTurnRecords further turns are cut, *)
(* none does.                                                               *)
THEOREM SpecWaitingRecorded ==
  ASSUME MaxCoalescedTurns < MaxTurnRecords
  PROVE  Spec /\ []CloudRecorded => []WaitingRecorded
<1>1. Init => WaitingRecorded
  <2> SUFFICES ASSUME Init
               PROVE  WaitingRecorded
    OBVIOUS
  <2>1. turns = <<>> /\ Len(turns) = 0
    BY EmptySeq DEF Init
  <2>2. 1..Len(turns) = {}
    BY <2>1
  <2> QED BY <2>2 DEF WaitingRecorded
<1>2. TurnsInv /\ QueueInv /\ CloudRecorded' /\ WaitingRecorded /\ [Next]_vars
        => WaitingRecorded'
  BY NextWaiting
<1> QED BY <1>1, <1>2, SpecTurnsInv, SpecQueueInv, PTL DEF Spec
----------------------------------------------------------------------------
(* The properties. *)

(* One request in flight per engine: of the interpret() promises that have  *)
(* not settled at most one may still touch the engine, and the slot is its, *)
(* however stops, restarts and contract changes overlap late answers.       *)
THEOREM SpecOneLiveRequest == Spec => []OneLiveRequest
<1>1. LaneInv => OneLiveRequest
  BY DEF LaneInv, SlotInv, Live, OneLiveRequest
<1> QED BY <1>1, SpecLaneInv, PTL

(* A coalesced unit only ever waits behind a request whose settling sends   *)
(* it: none is left behind a free slot.                                     *)
THEOREM SpecNoStrandedQueue == Spec => []NoStrandedQueue
<1>1. LaneInv => NoStrandedQueue
  BY DEF LaneInv, SlotInv, NoStrandedQueue
<1> QED BY <1>1, SpecLaneInv, PTL

============================================================================
