--------------------------- MODULE PairingRecord ---------------------------
(***************************************************************************)
(* The record of one remote-microphone pairing and what each request does  *)
(* to it: src/src/remote-mic/session.ts, as the routes under               *)
(* src/src/app/api/remote-mic/ call it.                                    *)
(*                                                                         *)
(* A request never fails halfway: Outcome gives the record it leaves, says *)
(* whether the record is written at all, and whether the caller is told    *)
(* "ok".  Session descriptions are compared for equality only, so one is   *)
(* the generation and the sender peer it was made for; the confirmation    *)
(* code is the phone it was made for; candidates are counted.              *)
(***************************************************************************)
EXTENDS Naturals

CONSTANTS
  Phones,         \* devices that hold the QR link
  Console,        \* the device that opened the pairing
  None,           \* null
  Peers,          \* peer ids a phone may draw
  MaxGeneration,  \* bound: generations a request may carry
  MaxCandidates   \* MAX_CANDIDATES_PER_ROLE

PairingState == {"waiting", "claimed", "approved", "ended"}

Role == {"sender", "receiver"}

Description == [generation : Nat, peer : Peers]

Record == [state      : PairingState,
           secret     : BOOLEAN,             \* pairingSecretHash is set
           owner      : Phones \cup {None},  \* whose token senderTokenHash is
           generation : Nat,
           offer      : Description \cup {None},
           answer     : Description \cup {None},
           candidates : [Role -> Nat],
           relay      : BOOLEAN]

ASSUME PairingAssumption ==
  /\ Console \notin Phones
  /\ None \notin Phones \cup Description \cup Record
  /\ Peers # {}
  /\ MaxGeneration \in Nat
  /\ MaxCandidates \in Nat

NewPairing ==
  [state |-> "waiting", secret |-> TRUE, owner |-> None, generation |-> 0,
   offer |-> None, answer |-> None,
   candidates |-> [r \in Role |-> 0], relay |-> FALSE]

----------------------------------------------------------------------------
(* Requests *)

Action == {"claim", "approve", "reject", "offer", "answer", "candidates",
           "direct", "relay", "connected", "heartbeat", "end"}

(* "direct" and "relay" are the two modes of a transport request,          *)
(* "connected" a status request that reports a connected peer, and         *)
(* "heartbeat" any other status request.  genuine: the presented secret is *)
(* the one in the QR link (looked at by a claim only).                     *)
Request == [action : Action, by : Phones \cup {Console}, genuine : BOOLEAN,
            generation : Nat, peer : Peers]

DescriptionIn(q) == [generation |-> q.generation, peer |-> q.peer]

RoleOf(r, device) ==
  IF device = Console THEN "receiver"
  ELSE IF r.owner = device THEN "sender" ELSE "nobody"

----------------------------------------------------------------------------
(* What a request does to the record *)

ClearNegotiation(r) ==
  [r EXCEPT !.offer = None, !.answer = None, !.candidates = [x \in Role |-> 0]]

EndKeepingDescriptions(r) ==   \* mutant of EndPairing
  IF r.state = "ended" THEN r
  ELSE [r EXCEPT !.state = "ended", !.secret = FALSE, !.relay = FALSE]

EndPairing(r) ==
  IF r.state = "ended" THEN r
  ELSE [ClearNegotiation(r) EXCEPT !.state = "ended", !.secret = FALSE,
                                   !.relay = FALSE]

ClaimableByAnyHolder(r) ==   \* mutant of Claimable
  r.state \in {"waiting", "claimed"}

Claimable(r) == r.state = "waiting" /\ r.secret

ApplyClaim(r, q) ==
  [r EXCEPT !.owner = q.by, !.secret = FALSE, !.state = "claimed"]

(* The conditions of applySignal under which a request is not refused.     *)
OfferFits(r, q) ==
  \/ q.generation > r.generation
  \/ /\ q.generation = r.generation
     /\ r.offer \in {None, DescriptionIn(q)}

AnswerFits(r, q) ==
  /\ r.offer # None
  /\ q.generation = r.generation
  /\ r.answer \in {None, DescriptionIn(q)}

CandidateFits(r, q) ==
  /\ q.generation = r.generation
  /\ r.candidates[RoleOf(r, q.by)] < MaxCandidates

Fits(r, q) ==
  LET role == RoleOf(r, q.by) IN
  \/ q.action = "approve" /\ role = "receiver" /\ r.state \in {"claimed", "approved"}
  \/ q.action = "reject" /\ role = "receiver" /\ r.state = "claimed"
  \/ q.action = "offer" /\ role = "sender" /\ r.state = "approved" /\ OfferFits(r, q)
  \/ q.action = "answer" /\ role = "receiver" /\ r.state = "approved" /\ AnswerFits(r, q)
  \/ q.action = "candidates" /\ r.state = "approved" /\ CandidateFits(r, q)
  \/ q.action \in {"direct", "relay"} /\ role = "sender" /\ r.state = "approved"
  \/ q.action \in {"connected", "heartbeat"} /\ r.state \in {"claimed", "approved"}

Offered(r, q) ==
  IF r.offer = DescriptionIn(q) THEN r
  ELSE [ClearNegotiation(r) EXCEPT !.generation = q.generation,
                                   !.relay = FALSE,
                                   !.offer = DescriptionIn(q)]

ReportsConnected(r, q) ==   \* mutant of ReportsDone
  RoleOf(r, q.by) = "receiver"

(* The console reports its peer connected: once the current offer has been *)
(* answered, the descriptions and candidates have done their job.          *)
ReportsDone(r, q) ==
  /\ RoleOf(r, q.by) = "receiver"
  /\ r.answer # None
  /\ r.answer.generation = r.generation

ApplySignal(r, q) ==
  CASE q.action = "approve"    -> [r EXCEPT !.state = "approved"]
    [] q.action = "reject"     -> EndPairing(r)
    [] q.action = "offer"      -> Offered(r, q)
    [] q.action = "answer"     -> [r EXCEPT !.answer = DescriptionIn(q)]
    [] q.action = "candidates" -> [r EXCEPT !.candidates[RoleOf(r, q.by)] = @ + 1]
    [] q.action = "direct"     -> [r EXCEPT !.relay = FALSE]
    [] q.action = "relay"      -> [ClearNegotiation(r) EXCEPT !.relay = TRUE]
    [] q.action = "connected" /\ ReportsDone(r, q) -> ClearNegotiation(r)
    [] OTHER                   -> r

----------------------------------------------------------------------------
(* The mutation each route hands to the store.  late: the record's time    *)
(* has run out by the clock of the server that looks at it.                *)

Leaves(r, ok, write) == [record |-> r, ok |-> ok, write |-> write]

ClaimOutcome(r, q, late) ==
  IF ~late /\ Claimable(r) /\ q.genuine THEN Leaves(ApplyClaim(r, q), TRUE, TRUE)
  ELSE Leaves(r, FALSE, FALSE)

EndOutcome(r, q) ==
  IF RoleOf(r, q.by) = "nobody" THEN Leaves(r, FALSE, FALSE)
  ELSE Leaves(EndPairing(r), TRUE, TRUE)

SignalOutcome(r, q, late) ==
  IF RoleOf(r, q.by) = "nobody" THEN Leaves(r, FALSE, FALSE)
  ELSE IF r.state = "ended" \/ late THEN Leaves(EndPairing(r), FALSE, TRUE)
  ELSE IF Fits(r, q) THEN Leaves(ApplySignal(r, q), TRUE, TRUE)
  ELSE Leaves(r, FALSE, FALSE)

Outcome(r, q, late) ==
  CASE q.action = "claim" -> ClaimOutcome(r, q, late)
    [] q.action = "end"   -> EndOutcome(r, q)
    [] OTHER              -> SignalOutcome(r, q, late)

============================================================================
