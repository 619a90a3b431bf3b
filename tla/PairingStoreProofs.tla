------------------------ MODULE PairingStoreProofs -------------------------
(***************************************************************************)
(* Proofs about the pairing record and its compare-and-set store, for any  *)
(* number of phones, servers, requests and retries.                        *)
(*                                                                         *)
(* The key fact is DraftsFit: as long as the revision a server read is     *)
(* still the one in the cell, the draft it holds is what its request makes *)
(* of the record that is in the cell now.  Writing the draft is then one   *)
(* step of the promise, and what holds of the promise holds of the store.  *)
(***************************************************************************)
EXTENDS PairingStore, TLAPS

(* What every record the store ever holds satisfies. *)
Sound(r) ==
  /\ r \in Record
  /\ r.secret => r.owner = None
  /\ r.state = "waiting" => r.owner = None
  /\ r.state # "waiting" => ~r.secret
  /\ r.state # "approved" => Promise!Bare(r)

(* A request of one of the two pages, well typed; only phones claim.       *)
Proper(q) ==
  /\ q \in Promise!Requests
  /\ q \in Request
  /\ q.action = "claim" => q.by \in Phones

(* The requests the two pages make are proper ones. *)
LEMMA RequestsProper == \A q \in Promise!Requests : Proper(q)
<1> DEFINE Typed(q) == q \in Request /\ (q.action = "claim" => q.by \in Phones)
<1>1. Promise!Blank.peer \in Peers
  BY PairingAssumption DEF Promise!Blank
<1>2. ASSUME NEW q \in Promise!PhoneRequests PROVE Typed(q)
  <2> DEFINE b == Promise!Blank.peer
             g == {TRUE}
  <2>0. b \in Peers /\ g \subseteq BOOLEAN
    <3>1. TRUE \in BOOLEAN OBVIOUS
    <3> QED BY <1>1, <3>1, Zenon
  <2> HIDE DEF b, g
  <2>1. \/ q \in [action : {"claim"}, by : Phones, genuine : BOOLEAN,
                generation : {0}, peer : {b}]
        \/ q \in [action : {"offer"}, by : Phones, genuine : g,
                generation : 1 .. MaxGeneration, peer : Peers]
        \/ q \in [action : {"candidates"}, by : Phones, genuine : g,
                generation : 1 .. MaxGeneration, peer : {b}]
        \/ q \in [action : {"direct", "relay", "heartbeat", "connected", "end"},
                by : Phones, genuine : g, generation : {0}, peer : {b}]
    BY <1>2 DEF Promise!PhoneRequests, Promise!Generations, b, g
  <2>2. CASE q \in [action : {"claim"}, by : Phones, genuine : BOOLEAN,
                     generation : {0}, peer : {b}]
    BY <2>0, <2>2 DEF Typed, Request, Action
  <2>3. CASE q \in [action : {"offer"}, by : Phones, genuine : g,
                     generation : 1 .. MaxGeneration, peer : Peers]
    BY <2>0, <2>3, PairingAssumption DEF Typed, Request, Action
  <2>4. CASE q \in [action : {"candidates"}, by : Phones, genuine : g,
                     generation : 1 .. MaxGeneration, peer : {b}]
    BY <2>0, <2>4, PairingAssumption DEF Typed, Request, Action
  <2>5. CASE q \in [action : {"direct", "relay", "heartbeat", "connected", "end"},
                     by : Phones, genuine : g, generation : {0}, peer : {b}]
    BY <2>0, <2>5 DEF Typed, Request, Action
  <2> QED BY <2>1, <2>2, <2>3, <2>4, <2>5
<1>3. ASSUME NEW q \in Promise!ConsoleRequests PROVE Typed(q)
  <2> DEFINE b == Promise!Blank.peer
             g == {TRUE}
  <2>0. b \in Peers /\ g \subseteq BOOLEAN
    <3>1. TRUE \in BOOLEAN OBVIOUS
    <3> QED BY <1>1, <3>1, Zenon
  <2> HIDE DEF b, g
  <2>1. \/ q \in [action : {"answer"}, by : {Console}, genuine : g,
                generation : 1 .. MaxGeneration, peer : Peers]
        \/ q \in [action : {"candidates"}, by : {Console}, genuine : g,
                generation : 1 .. MaxGeneration, peer : {b}]
        \/ q \in [action : {"approve", "reject", "heartbeat", "connected", "end"},
                by : {Console}, genuine : g, generation : {0}, peer : {b}]
    BY <1>3 DEF Promise!ConsoleRequests, Promise!Generations, b, g
  <2>2. CASE q \in [action : {"answer"}, by : {Console}, genuine : g,
                     generation : 1 .. MaxGeneration, peer : Peers]
    BY <2>0, <2>2, PairingAssumption DEF Typed, Request, Action
  <2>3. CASE q \in [action : {"candidates"}, by : {Console}, genuine : g,
                     generation : 1 .. MaxGeneration, peer : {b}]
    BY <2>0, <2>3, PairingAssumption DEF Typed, Request, Action
  <2>4. CASE q \in [action : {"approve", "reject", "heartbeat", "connected", "end"},
                     by : {Console}, genuine : g, generation : {0}, peer : {b}]
    BY <2>0, <2>4 DEF Typed, Request, Action
  <2> QED BY <2>1, <2>2, <2>3, <2>4
<1> QED BY <1>2, <1>3 DEF Promise!Requests, Proper, Typed

LEMMA RoleTyped ==
  ASSUME NEW r, NEW d, RoleOf(r, d) # "nobody"
  PROVE  RoleOf(r, d) \in Role
BY DEF RoleOf, Role

LEMMA ClearTyped ==
  ASSUME NEW r \in Record
  PROVE  /\ ClearNegotiation(r) \in Record
         /\ ClearNegotiation(r).offer = None
         /\ ClearNegotiation(r).answer = None
         /\ ClearNegotiation(r).candidates = [x \in Role |-> 0]
         /\ ClearNegotiation(r).state = r.state
         /\ ClearNegotiation(r).secret = r.secret
         /\ ClearNegotiation(r).owner = r.owner
         /\ ClearNegotiation(r).relay = r.relay
         /\ ClearNegotiation(r).generation = r.generation
BY DEF ClearNegotiation, Record

(* Ending leaves nothing behind, and ends. *)
LEMMA EndSound ==
  ASSUME NEW r, Sound(r)
  PROVE  /\ Sound(EndPairing(r))
         /\ EndPairing(r).owner = r.owner
         /\ EndPairing(r).state = "ended"
         /\ ~EndPairing(r).secret
<1>0. r \in Record BY DEF Sound
<1>1. CASE r.state = "ended"
  BY <1>1 DEF EndPairing, Sound, Record
<1>2. CASE r.state # "ended"
  <2> DEFINE c == ClearNegotiation(r)
             e == [c EXCEPT !.state = "ended", !.secret = FALSE, !.relay = FALSE]
  <2>1. EndPairing(r) = e BY <1>2 DEF EndPairing
  <2>2. c \in Record /\ c.offer = None /\ c.answer = None
        /\ c.candidates = [x \in Role |-> 0] /\ c.owner = r.owner
    BY <1>0, ClearTyped
  <2>3. e \in Record /\ e.owner = r.owner /\ e.state = "ended" /\ e.secret = FALSE
        /\ e.relay = FALSE /\ e.offer = None /\ e.answer = None
        /\ e.candidates = [x \in Role |-> 0]
    <3> HIDE DEF c
    <3> QED BY <2>2 DEF Record, PairingState
  <2>4. Sound(e) BY <2>3 DEF Sound, Promise!Bare, Promise!Role, Role
  <2> QED BY <2>1, <2>3, <2>4
<1> QED BY <1>1, <1>2

(* A claim is granted on a pairing that nobody owns, and only then.        *)
LEMMA ClaimSound ==
  ASSUME NEW r, Sound(r), NEW q, Proper(q), q.action = "claim", NEW late,
         NEW o, o = ClaimOutcome(r, q, late)
  PROVE  /\ Sound(o.record)
         /\ o.ok \in BOOLEAN /\ o.write \in BOOLEAN
         /\ o.ok => o.write /\ r.owner = None /\ o.record.owner = q.by
         /\ r.owner # None => o.record = r
         /\ r.state = "ended" => o.record = r
<1>1. CASE ~late /\ Claimable(r) /\ q.genuine
  <2> DEFINE c == ApplyClaim(r, q)
  <2>1. o = [record |-> c, ok |-> TRUE, write |-> TRUE]
    BY <1>1 DEF ClaimOutcome, Leaves
  <2>2. c \in Record /\ c.owner = q.by /\ ~c.secret /\ c.state = "claimed"
        /\ c.offer = r.offer /\ c.answer = r.answer
        /\ c.candidates = r.candidates /\ c.relay = r.relay
    BY DEF ApplyClaim, Sound, Record, Proper, PairingState
  <2>3. r.state = "waiting" /\ r.owner = None
    BY <1>1 DEF Claimable, Sound
  <2>4. Sound(c)
    BY <2>2, <2>3 DEF Sound, Promise!Bare
  <2> QED BY <2>1, <2>2, <2>3, <2>4
<1>2. CASE ~(~late /\ Claimable(r) /\ q.genuine)
  <2>1. o = [record |-> r, ok |-> FALSE, write |-> FALSE]
    BY <1>2 DEF ClaimOutcome, Leaves
  <2> QED BY <2>1
<1> QED BY <1>1, <1>2

(* A signal that is not refused keeps the record sound, changes no owner   *)
(* and stores nothing before approval.                                     *)
LEMMA SignalFits ==
  ASSUME NEW r, Sound(r), NEW q, Proper(q), Fits(r, q),
         RoleOf(r, q.by) # "nobody", r.state # "ended"
  PROVE  Sound(ApplySignal(r, q)) /\ ApplySignal(r, q).owner = r.owner
<1> DEFINE a == ApplySignal(r, q)
           cl == ClearNegotiation(r)
<1>0. r \in Record /\ q \in Request /\ DescriptionIn(q) \in Description
  BY DEF Sound, Proper, Request, DescriptionIn, Description
<1>c. /\ cl \in Record /\ cl.offer = None /\ cl.answer = None
      /\ cl.candidates = [x \in Role |-> 0] /\ cl.state = r.state
      /\ cl.secret = r.secret /\ cl.owner = r.owner /\ cl.relay = r.relay
  BY <1>0, ClearTyped
<1>1. CASE q.action = "approve"
  <2>1. a = [r EXCEPT !.state = "approved"] BY <1>1 DEF ApplySignal
  <2>2. r.state # "waiting" BY <1>1 DEF Fits
  <2> QED BY <1>0, <2>1, <2>2 DEF Sound, Record, PairingState
<1>2. CASE q.action = "reject"
  BY <1>2, EndSound DEF ApplySignal
<1>3. CASE q.action = "offer"
  <2>1. a = Offered(r, q) /\ r.state = "approved" BY <1>3 DEF ApplySignal, Fits
  <2>2. CASE r.offer = DescriptionIn(q)
    BY <2>1, <2>2 DEF Offered
  <2>3. CASE r.offer # DescriptionIn(q)
    <3>1. a = [cl EXCEPT !.generation = q.generation, !.relay = FALSE,
                         !.offer = DescriptionIn(q)]
      BY <2>1, <2>3 DEF Offered
    <3> QED BY <1>0, <1>c, <2>1, <3>1 DEF Sound, Record, Request
  <2> QED BY <2>2, <2>3
<1>4. CASE q.action = "answer"
  <2>1. a = [r EXCEPT !.answer = DescriptionIn(q)] /\ r.state = "approved"
    BY <1>4 DEF ApplySignal, Fits
  <2> QED BY <1>0, <2>1 DEF Sound, Record
<1>5. CASE q.action = "candidates"
  <2>1. a = [r EXCEPT !.candidates[RoleOf(r, q.by)] = @ + 1] /\ r.state = "approved"
    BY <1>5 DEF ApplySignal, Fits
  <2>2. RoleOf(r, q.by) \in Role BY RoleTyped
  <2> QED BY <1>0, <2>1, <2>2 DEF Sound, Record
<1>6. CASE q.action = "direct"
  <2>1. a = [r EXCEPT !.relay = FALSE] /\ r.state = "approved"
    BY <1>6 DEF ApplySignal, Fits
  <2> QED BY <1>0, <2>1 DEF Sound, Record
<1>7. CASE q.action = "relay"
  <2>1. a = [cl EXCEPT !.relay = TRUE] /\ r.state = "approved"
    BY <1>7 DEF ApplySignal, Fits
  <2> QED BY <1>0, <1>c, <2>1 DEF Sound, Record
<1>8. CASE q.action = "connected" /\ ReportsDone(r, q)
  <2>1. a = cl BY <1>8 DEF ApplySignal
  <2> QED BY <1>0, <1>c, <2>1 DEF Sound, Promise!Bare, Promise!Role, Role
<1>9. CASE /\ q.action \notin {"approve", "reject", "offer", "answer",
                               "candidates", "direct", "relay"}
           /\ ~(q.action = "connected" /\ ReportsDone(r, q))
  BY <1>9 DEF ApplySignal
<1> QED BY <1>1, <1>2, <1>3, <1>4, <1>5, <1>6, <1>7, <1>8, <1>9

(* The same of any request: it keeps the record sound, an owner stays the  *)
(* owner, an ended record stays as it is, and "ok" is told only of what is *)
(* written.                                                                *)
LEMMA OutcomeSound ==
  ASSUME NEW r, Sound(r), NEW q, Proper(q), NEW late,
         NEW o, o = Outcome(r, q, late)
  PROVE  /\ Sound(o.record)
         /\ o.ok \in BOOLEAN /\ o.write \in BOOLEAN
         /\ o.ok => o.write
         /\ o.ok /\ q.action = "claim" => r.owner = None /\ o.record.owner = q.by
         /\ r.owner # None => o.record.owner = r.owner
         /\ r.state = "ended" => o.record = r
<1>1. CASE q.action = "claim"
  <2>1. o = ClaimOutcome(r, q, late) BY <1>1 DEF Outcome
  <2> QED BY <1>1, <2>1, ClaimSound
<1>2. CASE q.action = "end"
  <2>1. o = EndOutcome(r, q) BY <1>2 DEF Outcome
  <2>2. CASE RoleOf(r, q.by) = "nobody"
    BY <1>2, <2>1, <2>2 DEF EndOutcome, Leaves
  <2>3. CASE RoleOf(r, q.by) # "nobody"
    <3>1. o = [record |-> EndPairing(r), ok |-> TRUE, write |-> TRUE]
      BY <2>1, <2>3 DEF EndOutcome, Leaves
    <3>2. r.state = "ended" => EndPairing(r) = r BY DEF EndPairing
    <3> QED BY <1>2, <3>1, <3>2, EndSound
  <2> QED BY <2>2, <2>3
<1>3. CASE q.action \notin {"claim", "end"}
  <2>1. o = SignalOutcome(r, q, late) BY <1>3 DEF Outcome
  <2>2. CASE RoleOf(r, q.by) = "nobody"
    BY <1>3, <2>1, <2>2 DEF SignalOutcome, Leaves
  <2>3. CASE RoleOf(r, q.by) # "nobody" /\ (r.state = "ended" \/ late)
    <3>1. o = [record |-> EndPairing(r), ok |-> FALSE, write |-> TRUE]
      BY <2>1, <2>3 DEF SignalOutcome, Leaves
    <3>2. r.state = "ended" => EndPairing(r) = r BY DEF EndPairing
    <3> QED BY <1>3, <3>1, <3>2, EndSound
  <2>4. CASE RoleOf(r, q.by) # "nobody" /\ ~(r.state = "ended" \/ late)
    <3>1. CASE Fits(r, q)
      <4>1. o = [record |-> ApplySignal(r, q), ok |-> TRUE, write |-> TRUE]
        BY <2>1, <2>4, <3>1 DEF SignalOutcome, Leaves
      <4> QED BY <1>3, <2>4, <3>1, <4>1, SignalFits
    <3>2. CASE ~Fits(r, q)
      BY <1>3, <2>1, <2>4, <3>2 DEF SignalOutcome, Leaves
    <3> QED BY <3>1, <3>2
  <2> QED BY <2>2, <2>3, <2>4
<1> QED BY <1>1, <1>2, <1>3

(* The promise speaks of the same requests and outcomes as the store.      *)
LEMMA OutcomeSame ==
  ASSUME NEW r, NEW q, NEW late
  PROVE  Promise!Outcome(r, q, late) = Outcome(r, q, late)
<1>1. Promise!RoleOf(r, q.by) = RoleOf(r, q.by)
  BY DEF Promise!RoleOf, RoleOf
<1>2. Promise!ClearNegotiation(r) = ClearNegotiation(r)
  BY DEF Promise!ClearNegotiation, ClearNegotiation, Promise!Role, Role
<1>3. Promise!EndPairing(r) = EndPairing(r)
  BY <1>2 DEF Promise!EndPairing, EndPairing
<1>4. Promise!DescriptionIn(q) = DescriptionIn(q)
  BY DEF Promise!DescriptionIn, DescriptionIn
<1>5. Promise!Fits(r, q) = Fits(r, q)
  BY <1>1, <1>4 DEF Promise!Fits, Fits, Promise!OfferFits, OfferFits,
     Promise!AnswerFits, AnswerFits, Promise!CandidateFits, CandidateFits
<1>6. Promise!ApplySignal(r, q) = ApplySignal(r, q)
  BY <1>1, <1>2, <1>3, <1>4
  DEF Promise!ApplySignal, ApplySignal, Promise!Offered, Offered,
      Promise!ReportsDone, ReportsDone
<1>7. Promise!ClaimOutcome(r, q, late) = ClaimOutcome(r, q, late)
  BY DEF Promise!ClaimOutcome, ClaimOutcome, Promise!Claimable, Claimable,
         Promise!ApplyClaim, ApplyClaim, Promise!Leaves, Leaves
<1>8. Promise!EndOutcome(r, q) = EndOutcome(r, q)
  BY <1>1, <1>3 DEF Promise!EndOutcome, EndOutcome, Promise!Leaves, Leaves
<1>9. Promise!SignalOutcome(r, q, late) = SignalOutcome(r, q, late)
  BY <1>1, <1>3, <1>5, <1>6
  DEF Promise!SignalOutcome, SignalOutcome, Promise!Leaves, Leaves
<1> QED BY <1>7, <1>8, <1>9 DEF Promise!Outcome, Outcome

----------------------------------------------------------------------------
(* The inductive invariant. *)

(* What the request makes of the record, by some reading of the clock.     *)
DraftIs(r, j) ==
  \E late \in BOOLEAN :
    LET o == Outcome(r, j.q, late) IN
    o.write /\ j.draft = o.record /\ j.ok = o.ok

DraftsFit ==
  \A s \in Servers :
    job[s].at = "cas" /\ cell # None =>
      /\ job[s].rev <= cell.rev
      /\ job[s].rev = cell.rev => DraftIs(cell.record, job[s])

Inv ==
  /\ TypeOK
  /\ cell # None => Sound(cell.record)
  /\ \A s \in Servers : job[s].at # "idle" => Proper(job[s].q)
  /\ \A s \in Servers : job[s].at = "cas" => Sound(job[s].draft)
  /\ DraftsFit
  /\ OnePhoneGranted

LEMMA JobFields ==
  ASSUME NEW j \in Job
  PROVE  /\ j.at \in {"idle", "get", "cas"}
         /\ j.at = "idle" <=> j = Idle
         /\ j.at # "idle" => j.q \in Request /\ j.attempt \in 0 .. UpdateRetries - 1
         /\ j.at = "cas" => j.rev \in Nat /\ j.draft \in Record /\ j.ok \in BOOLEAN
<1>1. CASE j \in [at : {"idle"}] BY <1>1 DEF Idle
<1>2. CASE j \in [at : {"get"}, q : Request, attempt : 0 .. UpdateRetries - 1]
  BY <1>2 DEF Idle
<1>3. CASE j \in [at : {"cas"}, q : Request, attempt : 0 .. UpdateRetries - 1,
                  rev : Nat, draft : Record, ok : BOOLEAN]
  BY <1>3 DEF Idle
<1> QED BY <1>1, <1>2, <1>3 DEF Job

LEMMA NewPairingSound == Sound(NewPairing)
<1>1. NewPairing \in Record
  BY DEF NewPairing, Record, PairingState
<1> QED BY <1>1 DEF NewPairing, Sound, Promise!Bare, Promise!Role, Role

LEMMA InitInv == Init => Inv
<1> SUFFICES ASSUME Init PROVE Inv OBVIOUS
<1>1. cell \in [rev : Nat, record : Record] /\ cell.record = NewPairing
  BY NewPairingSound DEF Init, Sound
<1>2. \A s \in Servers : job[s] = Idle /\ job[s].at = "idle"
  BY DEF Init, Idle
<1>3. TypeOK
  BY <1>1, StoreAssumption DEF Init, TypeOK, Job, Idle
<1> QED BY <1>1, <1>2, <1>3, NewPairingSound DEF Inv, DraftsFit, OnePhoneGranted, Init

(* A step that ends or moves one job, without touching the cell.           *)
LEMMA JobMoves ==
  ASSUME Inv, NEW s \in Servers, NEW j \in Job,
         job' = [job EXCEPT ![s] = j], cell' = cell, granted' = granted,
         served' \in 0 .. MaxRequests,
         j.at # "idle" => Proper(j.q),
         j.at = "cas" => /\ cell # None /\ j.rev = cell.rev /\ Sound(j.draft)
                         /\ DraftIs(cell.record, j)
  PROVE  Inv'
<1> USE DEF Inv
<1>1. job' \in [Servers -> Job] /\ job'[s] = j
      /\ \A t \in Servers \ {s} : job'[t] = job[t]
  BY DEF TypeOK
<1>2. TypeOK' BY <1>1 DEF TypeOK
<1>3. (\A t \in Servers : job[t].at # "idle" => Proper(job[t].q))'
  BY <1>1
<1>4. (\A t \in Servers : job[t].at = "cas" => Sound(job[t].draft))'
  BY <1>1
<1>5. DraftsFit'
  <2> SUFFICES ASSUME NEW t \in Servers, job'[t].at = "cas", cell # None
               PROVE  /\ job'[t].rev <= cell.rev
                      /\ job'[t].rev = cell.rev => DraftIs(cell.record, job'[t])
    BY DEF DraftsFit, DraftIs
  <2>1. cell.rev \in Nat BY DEF TypeOK
  <2>2. CASE t = s BY <1>1, <2>1, <2>2
  <2>3. CASE t # s BY <1>1, <2>3 DEF DraftsFit
  <2> QED BY <2>2, <2>3
<1>6. (cell # None => Sound(cell.record))' /\ OnePhoneGranted'
  BY DEF OnePhoneGranted, Sound, Promise!Bare
<1> QED BY <1>2, <1>3, <1>4, <1>5, <1>6

(* A request that is answered without a success changes nothing but its    *)
(* own job.                                                                *)
LEMMA Refused ==
  ASSUME Inv, NEW s \in Servers, Answer(s, FALSE), UNCHANGED <<cell, served>>
  PROVE  Inv'
<1>1. Idle \in Job /\ Idle.at = "idle" BY DEF Idle, Job
<1> QED BY <1>1, JobMoves DEF Answer, Inv, TypeOK

LEMMA BeginStep ==
  ASSUME Inv, NEW s \in Servers, NEW q \in Promise!Requests, Begin(s, q)
  PROVE  Inv'
<1> DEFINE j == [at |-> "get", q |-> q, attempt |-> 0]
<1>1. Proper(q) /\ q \in Request BY RequestsProper DEF Proper
<1>2. j \in Job /\ j.at = "get" /\ j.q = q
  BY <1>1, StoreAssumption DEF Job
<1>3. served' \in 0 .. MaxRequests
  BY StoreAssumption DEF Begin, Inv, TypeOK
<1> HIDE DEF j
<1> QED BY <1>1, <1>2, <1>3, JobMoves DEF Begin, j

LEMMA GetStep ==
  ASSUME Inv, NEW s \in Servers, Get(s)
  PROVE  Inv'
<1>1. job[s] \in Job /\ job[s].at = "get" BY DEF Inv, TypeOK, Get
<1>2. Proper(job[s].q) /\ job[s].attempt \in 0 .. UpdateRetries - 1 /\ job[s].q \in Request
  BY <1>1, JobFields DEF Inv
<1>3. CASE cell = None /\ Answer(s, FALSE)
  BY <1>3, Refused DEF Get
<1>4. ASSUME NEW late \in BOOLEAN, cell # None,
             LET out == Outcome(cell.record, job[s].q, late) IN
             IF out.write
             THEN /\ job' = [job EXCEPT ![s] =
                       [at |-> "cas", q |-> @.q, attempt |-> @.attempt,
                        rev |-> cell.rev, draft |-> out.record, ok |-> out.ok]]
                  /\ UNCHANGED granted
             ELSE Answer(s, out.ok)
      PROVE  Inv'
  <2> DEFINE out == Outcome(cell.record, job[s].q, late)
             j == [at |-> "cas", q |-> job[s].q, attempt |-> job[s].attempt,
                   rev |-> cell.rev, draft |-> out.record, ok |-> out.ok]
  <2>1. /\ Sound(out.record) /\ out.ok \in BOOLEAN /\ out.write \in BOOLEAN
        /\ out.ok => out.write
    BY <1>2, <1>4, OutcomeSound DEF Inv
  <2>2. CASE out.write
    <3>1. j \in Job /\ j.at = "cas" /\ j.q = job[s].q /\ j.rev = cell.rev
          /\ j.draft = out.record /\ j.ok = out.ok
      <4> HIDE DEF out
      <4> QED BY <1>2, <1>4, <2>1 DEF Job, Sound, Inv, TypeOK
    <3>2. DraftIs(cell.record, j)
      BY <2>2, <3>1 DEF DraftIs
    <3>3. job' = [job EXCEPT ![s] = j] /\ granted' = granted
      BY <1>4, <2>2
    <3>4. cell' = cell /\ served' \in 0 .. MaxRequests
      BY DEF Get, Inv, TypeOK
    <3> HIDE DEF j
    <3> QED BY <1>2, <1>4, <2>1, <3>1, <3>2, <3>3, <3>4, JobMoves
  <2>3. CASE ~out.write
    <3>1. Answer(s, out.ok) BY <1>4, <2>3
    <3>2. out.ok = FALSE BY <2>1, <2>3
    <3>3. Answer(s, FALSE) BY <3>1, <3>2
    <3> QED BY <3>3, Refused DEF Get
  <2> QED BY <2>2, <2>3
<1> QED BY <1>3, <1>4 DEF Get

(* Writing the draft: what the request makes of the record in the cell.    *)
LEMMA WriteFits ==
  ASSUME Inv, NEW s \in Servers, job[s].at = "cas", Matches(s)
  PROVE  /\ cell # None
         /\ Proper(job[s].q)
         /\ DraftIs(cell.record, job[s])
BY DEF Matches, Inv, DraftsFit

LEMMA CasWritesStep ==
  ASSUME Inv, NEW s \in Servers, CasWrites(s)
  PROVE  Inv'
<1> DEFINE q == job[s].q
<1>1. job[s] \in Job /\ job[s].at = "cas" BY DEF Inv, TypeOK, CasWrites
<1>2. cell # None /\ Proper(q) /\ DraftIs(cell.record, job[s])
  BY <1>1, WriteFits DEF CasWrites
<1>3. PICK late \in BOOLEAN :
        LET o == Outcome(cell.record, q, late) IN
        o.write /\ job[s].draft = o.record /\ job[s].ok = o.ok
  BY <1>2 DEF DraftIs
<1> DEFINE r == cell.record
           d == job[s].draft
<1>4. /\ Sound(d) /\ job[s].ok \in BOOLEAN /\ job[s].rev = cell.rev /\ cell.rev \in Nat
      /\ job[s].ok /\ q.action = "claim" => r.owner = None /\ d.owner = q.by
      /\ r.owner # None => d.owner = r.owner
  <2>1. Sound(r) /\ cell.rev \in Nat BY <1>2 DEF Inv, TypeOK
  <2>2. job[s].rev = cell.rev BY DEF CasWrites, Matches
  <2> QED BY <1>1, <1>2, <1>3, <2>1, <2>2, OutcomeSound, JobFields
<1>5. /\ cell' \in [rev : Nat, record : Record] /\ cell' # None
      /\ cell'.rev = cell.rev + 1 /\ cell'.record = d
  <2>1. cell' = [rev |-> cell.rev + 1, record |-> d]
    BY <1>4 DEF CasWrites, Written
  <2>2. cell' \in [rev : Nat, record : Record] BY <1>4, <2>1 DEF Sound
  <2> QED BY <2>1, <2>2, StoreAssumption
<1>6. job' = [job EXCEPT ![s] = Idle] BY DEF CasWrites, Answer
<1>7. /\ job' \in [Servers -> Job] /\ job'[s].at = "idle"
      /\ \A t \in Servers \ {s} : job'[t] = job[t]
  BY <1>6 DEF Inv, TypeOK, Job, Idle
<1>8. /\ granted' \in {granted, granted \cup {q.by}}
      /\ granted' # granted => job[s].ok /\ q.action = "claim"
  BY <1>4 DEF CasWrites, Answer
<1>9. q.action = "claim" => q.by \in Phones BY <1>2 DEF Proper
<1>10. TypeOK'
  BY <1>5, <1>7, <1>8, <1>9 DEF Inv, TypeOK, CasWrites
<1>11. (cell # None => Sound(cell.record))' BY <1>4, <1>5 DEF Sound, Promise!Bare
<1>12. (\A t \in Servers : job[t].at # "idle" => Proper(job[t].q))'
  BY <1>7 DEF Inv
<1>13. (\A t \in Servers : job[t].at = "cas" => Sound(job[t].draft))'
  BY <1>7 DEF Inv
<1>14. DraftsFit'
  <2> SUFFICES ASSUME NEW t \in Servers, job'[t].at = "cas"
               PROVE  job'[t].rev < cell'.rev
    <3>1. \A t \in Servers : job'[t].at = "cas" => job'[t].rev \in Nat
      BY <1>7, JobFields
    <3> QED BY <1>5, <1>4, <3>1 DEF DraftsFit
  <2>1. t # s /\ job'[t] = job[t] /\ job[t] \in Job
    BY <1>7 DEF Inv, TypeOK
  <2> QED BY <1>2, <1>4, <1>5, <2>1, JobFields DEF Inv, DraftsFit
<1>15. OnePhoneGranted'
  <2>1. CASE granted' = granted
    <3> SUFFICES ASSUME NEW p \in granted
                 PROVE  granted = {p} /\ d.owner = p
      BY <1>5, <2>1 DEF OnePhoneGranted
    <3>1. granted = {p} /\ r.owner = p /\ p \in Phones
      BY <1>2 DEF Inv, OnePhoneGranted, TypeOK
    <3> QED BY <1>4, <3>1, PairingAssumption
  <2>2. CASE granted' # granted
    <3>1. r.owner = None /\ d.owner = q.by /\ granted' = granted \cup {q.by}
      BY <1>4, <1>8, <2>2
    <3>2. granted = {}
      BY <1>2, <3>1, PairingAssumption DEF Inv, OnePhoneGranted, TypeOK
    <3> QED BY <1>5, <3>1, <3>2 DEF OnePhoneGranted
  <2> QED BY <2>1, <2>2
<1> QED BY <1>10, <1>11, <1>12, <1>13, <1>14, <1>15 DEF Inv

LEMMA CasLostStep ==
  ASSUME Inv, NEW s \in Servers, CasLost(s)
  PROVE  Inv'
<1> DEFINE j == [at |-> "get", q |-> job[s].q, attempt |-> job[s].attempt + 1]
<1>1. job[s] \in Job /\ job[s].at = "cas" BY DEF Inv, TypeOK, CasLost
<1>2. Proper(job[s].q) /\ job[s].attempt \in 0 .. UpdateRetries - 1 /\ job[s].q \in Request
  BY <1>1, JobFields DEF Inv
<1>3. CASE job[s].attempt + 1 < UpdateRetries
  <2>1. j \in Job /\ j.at = "get" /\ j.q = job[s].q
    BY <1>2, <1>3, StoreAssumption DEF Job
  <2>2. job' = [job EXCEPT ![s] = j] /\ granted' = granted /\ cell' = cell
        /\ served' \in 0 .. MaxRequests
    BY <1>3 DEF CasLost, Inv, TypeOK
  <2> HIDE DEF j
  <2> QED BY <1>2, <2>1, <2>2, JobMoves
<1>4. CASE ~(job[s].attempt + 1 < UpdateRetries)
  BY <1>4, Refused DEF CasLost
<1> QED BY <1>3, <1>4

LEMMA TtlStep ==
  ASSUME Inv, TtlPasses
  PROVE  Inv'
<1>1. cell' = None /\ UNCHANGED <<job, granted, served>> BY DEF TtlPasses
<1> QED BY <1>1 DEF Inv, TypeOK, DraftsFit, OnePhoneGranted, Sound, Promise!Bare

LEMMA InvStep == Inv /\ [Next]_vars => Inv'
<1> SUFFICES ASSUME Inv, [Next]_vars PROVE Inv' OBVIOUS
<1>1. ASSUME NEW s \in Servers, NEW q \in Promise!Requests, Begin(s, q) PROVE Inv'
  BY <1>1, BeginStep
<1>2. ASSUME NEW s \in Servers, Get(s) PROVE Inv'
  BY <1>2, GetStep
<1>3. ASSUME NEW s \in Servers, CasWrites(s) PROVE Inv'
  BY <1>3, CasWritesStep
<1>4. ASSUME NEW s \in Servers, CasGone(s) PROVE Inv'
  BY <1>4, Refused DEF CasGone
<1>5. ASSUME NEW s \in Servers, CasLost(s) PROVE Inv'
  BY <1>5, CasLostStep
<1>6. ASSUME NEW s \in Servers, TimesOut(s) PROVE Inv'
  BY <1>6, Refused DEF TimesOut
<1>7. CASE TtlPasses BY <1>7, TtlStep
<1>8. CASE UNCHANGED vars
  <2>1. UNCHANGED <<cell, job, granted, served>> BY <1>8 DEF vars
  <2> QED BY <2>1 DEF Inv, TypeOK, DraftsFit, DraftIs, OnePhoneGranted, Sound, Promise!Bare
<1> QED BY <1>1, <1>2, <1>3, <1>4, <1>5, <1>6, <1>7, <1>8 DEF Next

THEOREM InvHolds == Spec => []Inv
<1> QED BY InitInv, InvStep, PTL DEF Spec

----------------------------------------------------------------------------
(* Every step of the store is a step of the promise, or none.  For any     *)
(* number of servers that overlap in any way, and with commands that time  *)
(* out after having taken effect, the store behaves like one record on     *)
(* which requests act one at a time.                                       *)
LEMMA StepKept == Inv /\ [Next]_vars => [Promise!Next]_Held
<1> SUFFICES ASSUME Inv, [Next]_vars PROVE [Promise!Next]_Held OBVIOUS
<1>1. CASE cell' = cell
  BY <1>1 DEF Held
<1>2. ASSUME NEW s \in Servers, CasWrites(s) PROVE Promise!Next \/ Held' = Held
  <2> DEFINE q == job[s].q
  <2>1. cell # None /\ DraftIs(cell.record, job[s])
    BY <1>2, WriteFits DEF CasWrites
  <2>2. PICK late \in BOOLEAN : job[s].draft = Outcome(cell.record, q, late).record
    BY <2>1 DEF DraftIs
  <2>3. Held = cell.record /\ Held # None
    BY <2>1, PairingAssumption DEF Held, Inv, TypeOK
  <2>4. job[s] \in Job /\ job[s].at = "cas" BY <1>2 DEF CasWrites, Inv, TypeOK
  <2>5. cell' = [rev |-> job[s].rev + 1, record |-> job[s].draft]
    BY <1>2 DEF CasWrites, Written
  <2>6. cell' # None
    <3>1. cell' \in [rev : Nat, record : Record] BY <2>4, <2>5, JobFields
    <3> QED BY <3>1, StoreAssumption
  <2>7. Held' = Outcome(Held, q, late).record
    BY <2>2, <2>3, <2>5, <2>6 DEF Held
  <2>8. Promise!Serve(q)
    BY <2>3, <2>7, OutcomeSame DEF Promise!Serve
  <2>9. q \in Promise!Requests BY <1>2, WriteFits DEF CasWrites, Proper
  <2> QED BY <2>8, <2>9 DEF Promise!Next
<1>3. CASE TtlPasses
  <2>1. Held' = None BY <1>3 DEF TtlPasses, Held
  <2>2. Held # None BY <1>3, PairingAssumption DEF TtlPasses, Held, Inv, TypeOK
  <2> QED BY <2>1, <2>2 DEF Promise!Next, Promise!Drop
<1>4. cell' = cell \/ (\E s \in Servers : CasWrites(s)) \/ TtlPasses
  BY DEF Next, vars, Begin, Get, CasGone, CasLost, TimesOut
<1> QED BY <1>1, <1>2, <1>3, <1>4

LEMMA InitKept == Init => Promise!Init
<1> SUFFICES ASSUME Init PROVE Promise!Init OBVIOUS
<1>1. cell = [rev |-> 1, record |-> NewPairing] BY DEF Init
<1>2. cell # None BY <1>1, NewPairingSound, StoreAssumption DEF Sound
<1>3. Held = NewPairing BY <1>1, <1>2 DEF Held
<1>4. Promise!NewPairing = NewPairing
  BY DEF Promise!NewPairing, NewPairing, Promise!Role, Role
<1> QED BY <1>3, <1>4 DEF Promise!Init

(* The compare-and-set store keeps the promise of one record on which      *)
(* every request acts at one instant, or not at all                        *)
(* (store.ts update() and CAS_SCRIPT).                                     *)
THEOREM StoreKeepsPromise == Spec => KeepsPromise
<1> QED BY InitInv, InvStep, InitKept, StepKept, PTL DEF Spec, KeepsPromise, Promise!Spec

(* The variables keep their types, and no request is tried more often than *)
(* UPDATE_RETRIES allows.                                                  *)
THEOREM TypeCorrect == Spec => []TypeOK
<1>1. Inv => TypeOK BY DEF Inv
<1> QED BY <1>1, InvHolds, PTL

(* However many phones scan the QR code at once, one of them is told it    *)
(* has the pairing (claim/route.ts, claimPairing).                         *)
THEOREM OnePhone == Spec => []OnePhoneGranted
<1>1. Inv => OnePhoneGranted BY DEF Inv
<1> QED BY <1>1, InvHolds, PTL

(* Nothing about a connection is stored before the console approves, or    *)
(* after the end (signal/route.ts, applySignal, endPairing).               *)
THEOREM ApprovalFirst == Spec => []NothingBeforeApproval
<1>1. Inv => NothingBeforeApproval
  <2> SUFFICES ASSUME Inv, Held # None, Held.state # "approved" PROVE Promise!Bare(Held)
    BY DEF NothingBeforeApproval, Promise!NothingBeforeApproval
  <2> QED BY DEF Inv, Sound, Held
<1> QED BY <1>1, InvHolds, PTL

(* No interleaving of requests takes a pairing away from the phone that    *)
(* owns it, gives the secret back or revives an ended pairing.             *)
THEOREM OwnedForGood == Spec => OwnerForGood
<1> DEFINE A == /\ Held' # None => Held # None
                /\ Held # None /\ Held' # None =>
                     /\ Held.owner # None => Held'.owner = Held.owner /\ ~Held'.secret
                     /\ Held.state = "ended" => Held' = Held
<1>1. Inv /\ Inv' /\ [Next]_vars => [A]_Held
  <2> SUFFICES ASSUME Inv, Inv', [Next]_vars, Held' # Held PROVE A
    OBVIOUS
  <2>1. Promise!Next BY StepKept
  <2>2. CASE Promise!Drop BY <2>2 DEF Promise!Drop
  <2>3. ASSUME NEW q \in Promise!Requests, Promise!Serve(q) PROVE A
    <3>1. Held # None BY <2>3 DEF Promise!Serve
    <3>2. PICK late \in BOOLEAN : Held' = Promise!Outcome(Held, q, late).record
      BY <2>3 DEF Promise!Serve
    <3>3. Held' = Outcome(Held, q, late).record BY <3>2, OutcomeSame
    <3>4. Sound(Held) /\ (Held' # None => Sound(Held'))
      BY <3>1 DEF Inv, Held, Sound, Promise!Bare
    <3>5. /\ Held.owner # None => Held'.owner = Held.owner
          /\ Held.state = "ended" => Held' = Held
      BY <3>3, <3>4, RequestsProper, OutcomeSound
    <3> QED BY <3>1, <3>4, <3>5 DEF Sound
  <2> QED BY <2>1, <2>2, <2>3 DEF Promise!Next
<1> QED BY <1>1, InvHolds, PTL DEF Spec, OwnerForGood, Promise!OwnerForGood

----------------------------------------------------------------------------
(* The offer waits for its answer *)

(* The offer on record is of the record's own generation.                  *)
Current(r) == r.offer # None => r.offer.generation = r.generation

(* What may become of an offer in one step.                                *)
Waits(r, o) ==
  r.state = "approved" /\ r.offer # None /\ o.state = "approved" /\ ~o.relay /\ o.offer = None
    => r.answer # None /\ r.answer.generation = r.offer.generation

LEMMA SignalWaits ==
  ASSUME NEW r, Sound(r), Current(r), NEW q, Proper(q)
  PROVE  Current(ApplySignal(r, q)) /\ Waits(r, ApplySignal(r, q))
<1> DEFINE a == ApplySignal(r, q)
           cl == ClearNegotiation(r)
           d == DescriptionIn(q)
<1>0. /\ r \in Record /\ q \in Request
      /\ d \in Description /\ d.generation = q.generation /\ d # None
  BY PairingAssumption DEF Sound, Proper, Request, DescriptionIn, Description
<1>c. /\ cl \in Record /\ cl.offer = None /\ cl.relay = r.relay
  BY <1>0, ClearTyped
<1>e. EndPairing(r).state = "ended" /\ Current(EndPairing(r))
  <2>1. EndPairing(r).state = "ended" /\ Sound(EndPairing(r)) BY EndSound
  <2>2. EndPairing(r).offer = None BY <2>1 DEF Sound, Promise!Bare
  <2> QED BY <2>1, <2>2 DEF Current
<1>1. CASE q.action = "approve"
  <2>1. a = [r EXCEPT !.state = "approved"] BY <1>1 DEF ApplySignal
  <2> QED BY <1>0, <2>1 DEF Current, Waits, Record
<1>2. CASE q.action = "reject"
  <2>1. a = EndPairing(r) BY <1>2 DEF ApplySignal
  <2> QED BY <1>e, <2>1 DEF Waits
<1>3. CASE q.action = "offer"
  <2>1. a = Offered(r, q) BY <1>3 DEF ApplySignal
  <2>2. CASE r.offer = d
    BY <2>1, <2>2 DEF Offered, Waits
  <2>3. CASE r.offer # d
    <3>1. a = [cl EXCEPT !.generation = q.generation, !.relay = FALSE, !.offer = d]
      BY <2>1, <2>3 DEF Offered
    <3> HIDE DEF cl, d
    <3>2. a.offer = d /\ a.generation = q.generation
      BY <1>c, <3>1 DEF Record
    <3> QED BY <1>0, <3>2 DEF Current, Waits
  <2> QED BY <2>2, <2>3
<1>4. CASE q.action = "answer"
  <2>1. a = [r EXCEPT !.answer = d] BY <1>4 DEF ApplySignal
  <2> HIDE DEF d
  <2> QED BY <1>0, <2>1 DEF Current, Waits, Record
<1>5. CASE q.action = "candidates"
  <2>1. a = [r EXCEPT !.candidates[RoleOf(r, q.by)] = @ + 1] BY <1>5 DEF ApplySignal
  <2> QED BY <1>0, <2>1 DEF Current, Waits, Record
<1>6. CASE q.action = "direct"
  <2>1. a = [r EXCEPT !.relay = FALSE] BY <1>6 DEF ApplySignal
  <2> QED BY <1>0, <2>1 DEF Current, Waits, Record
<1>7. CASE q.action = "relay"
  <2>1. a = [cl EXCEPT !.relay = TRUE] BY <1>7 DEF ApplySignal
  <2> HIDE DEF cl
  <2>2. a.relay = TRUE /\ a.offer = None BY <1>c, <2>1 DEF Record
  <2> QED BY <2>2 DEF Current, Waits
<1>8. CASE q.action = "connected" /\ ReportsDone(r, q)
  <2>1. a = cl /\ r.answer # None /\ r.answer.generation = r.generation
    BY <1>8 DEF ApplySignal, ReportsDone
  <2> QED BY <1>c, <2>1 DEF Current, Waits
<1>9. CASE /\ q.action \notin {"approve", "reject", "offer", "answer",
                               "candidates", "direct", "relay"}
           /\ ~(q.action = "connected" /\ ReportsDone(r, q))
  <2>1. a = r BY <1>9 DEF ApplySignal
  <2> QED BY <2>1 DEF Waits
<1> QED BY <1>1, <1>2, <1>3, <1>4, <1>5, <1>6, <1>7, <1>8, <1>9

LEMMA OutcomeWaits ==
  ASSUME NEW r, Sound(r), Current(r), NEW q, Proper(q), NEW late,
         NEW o, o = Outcome(r, q, late).record
  PROVE  Current(o) /\ Waits(r, o)
<1>1. \/ o = r
      \/ o = EndPairing(r)
      \/ o = ApplyClaim(r, q)
      \/ o = ApplySignal(r, q)
  BY DEF Outcome, ClaimOutcome, EndOutcome, SignalOutcome, Leaves
<1>2. CASE o = r BY <1>2 DEF Waits
<1>3. CASE o = EndPairing(r)
  <2>1. o.state = "ended" /\ Sound(o) BY <1>3, EndSound
  <2>2. o.offer = None BY <2>1 DEF Sound, Promise!Bare
  <2> QED BY <2>1, <2>2 DEF Current, Waits
<1>4. CASE o = ApplyClaim(r, q)
  <2>1. o.state = "claimed" /\ o.offer = r.offer /\ o.generation = r.generation
    BY <1>4 DEF ApplyClaim, Sound, Record
  <2> QED BY <2>1 DEF Current, Waits
<1>5. CASE o = ApplySignal(r, q) BY <1>5, SignalWaits
<1> QED BY <1>1, <1>2, <1>3, <1>4, <1>5

OfferIsCurrent == Held # None => Current(Held)

LEMMA HeldWaits ==
  ASSUME Inv, OfferIsCurrent, [Next]_vars
  PROVE  /\ OfferIsCurrent'
         /\ Held # None /\ Held' # None => Waits(Held, Held')
<1>1. CASE Held' = Held
  BY <1>1 DEF OfferIsCurrent, Current, Waits
<1>2. ASSUME NEW q \in Promise!Requests, Promise!Serve(q)
      PROVE  Current(Held') /\ Waits(Held, Held')
  <2>1. Held # None BY <1>2 DEF Promise!Serve
  <2>2. PICK late \in BOOLEAN : Held' = Promise!Outcome(Held, q, late).record
    BY <1>2 DEF Promise!Serve
  <2>3. Held' = Outcome(Held, q, late).record BY <2>2, OutcomeSame
  <2>4. Sound(Held) /\ Current(Held) BY <2>1 DEF Inv, Held, OfferIsCurrent
  <2> QED BY <2>3, <2>4, RequestsProper, OutcomeWaits
<1>3. CASE Held' # Held
  <2>1. Promise!Next BY <1>3, StepKept
  <2>2. CASE Promise!Drop BY <2>2 DEF Promise!Drop, OfferIsCurrent
  <2>3. CASE \E q \in Promise!Requests : Promise!Serve(q)
    BY <1>2, <2>3 DEF OfferIsCurrent, Current
  <2> QED BY <2>1, <2>2, <2>3 DEF Promise!Next
<1> QED BY <1>1, <1>3

(* Whatever requests overlap, a status written for an earlier connection   *)
(* does not delete the offer of the next one (applySignal,                 *)
(* session.ts:317-323).                                                    *)
THEOREM OfferKept == Spec => OfferWaits
<1>1. Init => OfferIsCurrent
  <2> SUFFICES ASSUME Init PROVE OfferIsCurrent OBVIOUS
  <2>1. cell = [rev |-> 1, record |-> NewPairing] BY DEF Init
  <2>2. cell.record.offer = None BY <2>1 DEF NewPairing
  <2> QED BY <2>2 DEF OfferIsCurrent, Current, Held
<1>2. Inv /\ OfferIsCurrent /\ [Next]_vars => OfferIsCurrent'
  BY HeldWaits
<1> DEFINE A == /\ Held # None /\ Held.state = "approved" /\ Held.offer # None
                /\ Held' # None /\ Held'.state = "approved" /\ ~Held'.relay
                /\ Held'.offer = None
                => Held.answer # None /\ Held.answer.generation = Held.offer.generation
<1>3. Inv /\ OfferIsCurrent /\ [Next]_vars => [A]_Held
  BY HeldWaits DEF Waits
<1> QED BY <1>1, <1>2, <1>3, InvHolds, PTL DEF Spec, OfferWaits, Promise!OfferWaits

============================================================================
