------------------------------ MODULE Pairing ------------------------------
(***************************************************************************)
(* What the pairing store promises: one record, and every request, from    *)
(* whichever server answers it, takes effect at one instant or not at all. *)
(* Redis may also drop the record when its time to live has passed.        *)
(***************************************************************************)
EXTENDS PairingRecord

VARIABLE record   \* the pairing, or None once it has been dropped

(* Requests the two pages really make: a phone claims, offers, sends       *)
(* candidates and status, chooses the transport and leaves; the console    *)
(* decides, answers and ends.                                              *)
Blank == [action |-> "end", by |-> Console, genuine |-> TRUE, generation |-> 0,
          peer |-> CHOOSE p \in Peers : TRUE]

Generations == 1 .. MaxGeneration

PhoneRequests ==
  [action : {"claim"}, by : Phones, genuine : BOOLEAN, generation : {0}, peer : {Blank.peer}]
  \cup [action : {"offer"}, by : Phones, genuine : {TRUE},
        generation : Generations, peer : Peers]
  \cup [action : {"candidates"}, by : Phones, genuine : {TRUE},
        generation : Generations, peer : {Blank.peer}]
  \cup [action : {"direct", "relay", "heartbeat", "connected", "end"}, by : Phones,
        genuine : {TRUE}, generation : {0}, peer : {Blank.peer}]

ConsoleRequests ==
  [action : {"answer"}, by : {Console}, genuine : {TRUE},
   generation : Generations, peer : Peers]
  \cup [action : {"candidates"}, by : {Console}, genuine : {TRUE},
        generation : Generations, peer : {Blank.peer}]
  \cup [action : {"approve", "reject", "heartbeat", "connected", "end"}, by : {Console},
        genuine : {TRUE}, generation : {0}, peer : {Blank.peer}]

Requests == PhoneRequests \cup ConsoleRequests

Init == record = NewPairing

Serve(q) ==
  /\ record # None
  /\ \E late \in BOOLEAN : record' = Outcome(record, q, late).record

Drop == record # None /\ record' = None

Next == Drop \/ \E q \in Requests : Serve(q)

Spec == Init /\ [][Next]_record

----------------------------------------------------------------------------
(* Nothing about a microphone connection, neither a description nor a      *)
(* candidate nor the relay, is stored for a pairing that the console has   *)
(* not approved or that has ended.                                         *)
Bare(r) ==
  /\ r.offer = None
  /\ r.answer = None
  /\ r.candidates = [x \in Role |-> 0]
  /\ ~r.relay

NothingBeforeApproval ==
  record # None /\ record.state # "approved" => Bare(record)

(* A pairing belongs to the first phone that claimed it, for good, and the *)
(* QR secret is spent by then; an ended pairing stays as it is.            *)
OwnerForGood ==
  [][ /\ record' # None => record # None
      /\ record # None /\ record' # None =>
           /\ record.owner # None => record'.owner = record.owner /\ ~record'.secret
           /\ record.state = "ended" => record' = record ]_record

(* An offer waits for its answer: as long as the pairing is approved and on*)
(* a direct connection, nobody's status of an older connection deletes the *)
(* offer of the next one, and the console still finds it.                  *)
OfferWaits ==
  [][ /\ record # None /\ record.state = "approved" /\ record.offer # None
      /\ record' # None /\ record'.state = "approved" /\ ~record'.relay
      /\ record'.offer = None
      => record.answer # None /\ record.answer.generation = record.offer.generation ]_record

============================================================================
