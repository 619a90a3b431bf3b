------------------------- MODULE RemoteMicLinkProofs -------------------------
(***************************************************************************)
(* Proofs about the two ends of a remote microphone, for every number of   *)
(* restarts, failures tolerated, requests under way and troubles.          *)
(*                                                                         *)
(* The phone and the console each keep an invariant of their own, which    *)
(* every helper of the model preserves.  The console's needs that an offer *)
(* names a peer, wherever it is: on its way, on record, or in a view.      *)
(***************************************************************************)
EXTENDS RemoteMicLink, TLAPS

RequestOK(q) == q.action = "offer" => q.peer # None

(* A phone that does not want to be heard is silent, so that nothing that  *)
(* is still queued finds a microphone; what it captures is for the relay.  *)
PhoneOK(ph) ==
  /\ {"phase", "mic", "wants", "peer", "drawn", "relay", "capturing", "awaiting"}
       \subseteq DOMAIN ph
  /\ ph.drawn \in Nat
  /\ ~ph.wants => ph.mic # "live" /\ ph.peer = None /\ ~ph.capturing
  /\ ph.capturing => ph.relay
  /\ ph.awaiting # None => RequestOK(ph.awaiting)

OfferNamesPeer(r) == r.offer # None => r.offer.peer # None

ConsoleOK(co) ==
  /\ {"phase", "peer", "source", "relaying", "view", "read"} \subseteq DOMAIN co
  /\ co.read # None => co.read \in {"gone", "lost", "nothing", "frames"}
  /\ co.source = "relay" => co.relaying
  /\ co.relaying => co.peer = None
  /\ co.source = "peer" => co.peer # None
  /\ co.view # None =>
       /\ co.view.state \in {"claimed", "approved", "gone"}
       /\ co.view.state # "gone" => OfferNamesPeer(co.view)

RecordOK(r) == "offer" \in DOMAIN r /\ OfferNamesPeer(r)

ServerOK ==
  /\ record # None => RecordOK(record)
  /\ \A post \in posts : RequestOK(post.q)

IInv == PhoneOK(phone) /\ ConsoleOK(console) /\ ServerOK

----------------------------------------------------------------------------
(* The record and requests *)

LEMMA OutcomeOK ==
  ASSUME NEW r, RecordOK(r), NEW q, RequestOK(q), NEW late
  PROVE  RecordOK(Outcome(r, q, late).record)
<1> DEFINE o == Outcome(r, q, late).record
           cl == ClearNegotiation(r)
           a == ApplySignal(r, q)
<1>1. RecordOK(cl) BY DEF ClearNegotiation, RecordOK, OfferNamesPeer
<1>2. RecordOK(EndPairing(r))
  <2> HIDE DEF cl
  <2>1. EndPairing(r) = r \/ EndPairing(r) =
          [cl EXCEPT !.state = "ended", !.secret = FALSE, !.relay = FALSE]
    BY DEF EndPairing, cl
  <2> QED BY <1>1, <2>1 DEF RecordOK, OfferNamesPeer
<1>3. RecordOK(ApplyClaim(r, q)) BY DEF ApplyClaim, RecordOK, OfferNamesPeer
<1>4. RecordOK(a)
  <2>1. CASE q.action = "offer"
    <3>1. a = r \/ a = [cl EXCEPT !.generation = q.generation, !.relay = FALSE,
                                  !.offer = DescriptionIn(q)]
      BY <2>1 DEF ApplySignal, Offered
    <3>2. DescriptionIn(q).peer # None BY <2>1 DEF DescriptionIn, RequestOK
    <3> HIDE DEF cl, a
    <3> QED BY <1>1, <3>1, <3>2 DEF RecordOK, OfferNamesPeer
  <2>2. CASE q.action = "relay"
    <3>1. a = [cl EXCEPT !.relay = TRUE] BY <2>2 DEF ApplySignal
    <3> HIDE DEF cl, a
    <3> QED BY <1>1, <3>1 DEF RecordOK, OfferNamesPeer
  <2>3. CASE q.action = "connected" BY <1>1, <2>3 DEF ApplySignal
  <2>4. CASE q.action = "reject" BY <1>2, <2>4 DEF ApplySignal
  <2>5. CASE q.action \in {"approve", "answer", "direct", "candidates"}
    <3>1. \/ a = [r EXCEPT !.state = "approved"]
          \/ a = [r EXCEPT !.answer = DescriptionIn(q)]
          \/ a = [r EXCEPT !.relay = FALSE]
          \/ a = [r EXCEPT !.candidates[RoleOf(r, q.by)] = @ + 1]
      BY <2>5 DEF ApplySignal
    <3> HIDE DEF a
    <3> QED BY <3>1 DEF RecordOK, OfferNamesPeer
  <2>6. CASE q.action \notin {"offer", "relay", "connected", "reject", "approve", "answer",
                              "direct", "candidates"}
    BY <2>6 DEF ApplySignal
  <2> QED BY <2>1, <2>2, <2>3, <2>4, <2>5, <2>6
<1>5. o \in {r, EndPairing(r), ApplyClaim(r, q), ApplySignal(r, q)}
  BY DEF Outcome, ClaimOutcome, EndOutcome, SignalOutcome, Leaves
<1> HIDE DEF o
<1> QED BY <1>2, <1>3, <1>4, <1>5 DEF o

LEMMA ServeOK ==
  ASSUME ServerOK, NEW post, RequestOK(post.q), Serve(post)
  PROVE  (record # None => RecordOK(record))'
BY OutcomeOK DEF ServerOK, Serve, RecordOK, OfferNamesPeer

LEMMA PostingOK ==
  ASSUME ServerOK, NEW post, RequestOK(post.q), Posting(post) \/ UNCHANGED posts
  PROVE  \A p \in posts' : RequestOK(p.q)
BY DEF ServerOK, Posting

LEMMA PlainOK ==
  ASSUME NEW action, action # "offer", NEW by, NEW closing
  PROVE  /\ RequestOK(Plain(action, by))
         /\ RequestOK(Post(Plain(action, by), closing).q)
BY DEF RequestOK, Plain, Ask, Post

LEMMA StatusOK ==
  /\ \A closing \in BOOLEAN : RequestOK(PhoneStatus(closing).q)
  /\ RequestOK(Connected.q)
BY PlainOK DEF PhoneStatus, Connected

(* A request, by either end, leaves the server in order.                   *)
LEMMA AskedOK ==
  ASSUME ServerOK, NEW q, RequestOK(q), NEW closing,
         \/ Serve(Post(q, closing)) /\ (Posting(Post(q, closing)) \/ UNCHANGED posts)
         \/ Posting(Post(q, closing)) /\ UNCHANGED server
         \/ UNCHANGED <<server, posts>>
  PROVE  ServerOK'
<1>1. RequestOK(Post(q, closing).q) BY DEF Post
<1>2. \A p \in posts' : RequestOK(p.q)
  BY <1>1, PostingOK DEF ServerOK
<1>3. CASE Serve(Post(q, closing))
  BY <1>1, <1>2, <1>3, ServeOK DEF ServerOK, RequestOK, RecordOK, OfferNamesPeer
<1>4. CASE UNCHANGED server
  BY <1>2, <1>4 DEF ServerOK, server, RequestOK, RecordOK, OfferNamesPeer
<1> QED BY <1>3, <1>4 DEF server

----------------------------------------------------------------------------
(* What is done to the phone *)

LEMMA UnpeeredOK ==
  ASSUME NEW ph, PhoneOK(ph)
  PROVE  PhoneOK(Unpeered(ph)) /\ Unpeered(ph).peer = None
         /\ Unpeered(ph).relay = ph.relay /\ Unpeered(ph).drawn = ph.drawn
         /\ Unpeered(ph).mic = ph.mic /\ Unpeered(ph).wants = ph.wants
BY DEF Unpeered, PhoneOK

LEMMA LeaveRelayOK ==
  ASSUME NEW ph, PhoneOK(ph)
  PROVE  PhoneOK(LeaveRelay(ph)) /\ ~LeaveRelay(ph).relay
BY DEF LeaveRelay, PhoneOK

LEMMA FinishedOK ==
  ASSUME NEW ph, PhoneOK(ph)
  PROVE  PhoneOK(PhoneFinished(ph))
<1> DEFINE u == Unpeered(ph)
           l == LeaveRelay(u)
<1>1. PhoneOK(u) /\ u.peer = None BY UnpeeredOK
<1> HIDE DEF u
<1>2. PhoneOK(l) /\ ~l.relay /\ l.peer = None /\ ~l.capturing
  BY <1>1 DEF LeaveRelay, PhoneOK
<1>3. \/ PhoneFinished(ph) = ph
      \/ PhoneFinished(ph) =
           [l EXCEPT !.phase = "ended", !.wants = FALSE, !.polling = FALSE, !.capture = FALSE,
                     !.mic = IF @ = "live" THEN "off" ELSE @,
                     !.restart = NoTimer, !.deadline = FALSE]
  BY DEF PhoneFinished, l, u
<1> HIDE DEF l
<1> QED BY <1>2, <1>3 DEF PhoneOK

LEMMA StoppedOK ==
  ASSUME NEW ph, PhoneOK(ph)
  PROVE  PhoneOK(PhoneStopped(ph))
<1> DEFINE u == Unpeered(ph)
<1>1. PhoneOK(u) /\ u.peer = None BY UnpeeredOK
<1> HIDE DEF u
<1>2. PhoneStopped(ph) =
        [u EXCEPT !.wants = FALSE, !.capturing = FALSE, !.mic = "off",
                  !.restart = NoTimer, !.deadline = FALSE,
                  !.phase = IF ph.phase \in {"ended", "failed"} THEN u.phase ELSE "stopped",
                  !.attempts = IF ph.phase \in {"ended", "failed"} THEN u.attempts ELSE 0]
  BY DEF PhoneStopped, u
<1> QED BY <1>1, <1>2 DEF PhoneOK

LEMMA StartedOK ==
  ASSUME NEW ph, PhoneOK(ph)
  PROVE  PhoneOK(Started(ph))
<1> DEFINE u == Unpeered(ph)
<1>1. PhoneOK(u) BY UnpeeredOK
<1> HIDE DEF u
<1>2. Started(ph) = [u EXCEPT !.polling = TRUE,
                              !.phase = IF @ = "starting" THEN "awaiting-approval" ELSE @]
  BY DEF Started, u
<1> QED BY <1>1, <1>2 DEF PhoneOK

LEMMA CapturingOK ==
  ASSUME NEW ph, PhoneOK(ph), ph.relay
  PROVE  PhoneOK(Capturing(ph))
BY DEF Capturing, PhoneOK

LEMMA SerialOK ==
  ASSUME NEW ph, PhoneOK(ph), NEW work
  PROVE  PhoneOK(Serial(ph, work))
BY DEF Serial, PhoneOK

LEMMA RecoveryOK ==
  ASSUME NEW ph, PhoneOK(ph)
  PROVE  PhoneOK(ScheduleRecovery(ph))
<1>1. \/ ScheduleRecovery(ph) \in {ph, Serial(ph, "engage"), [ph EXCEPT !.phase = "failed"]}
      \/ ScheduleRecovery(ph) = [ph EXCEPT !.restart = [at |-> "due", nth |-> ph.attempts]]
  BY DEF ScheduleRecovery
<1> QED BY <1>1, SerialOK DEF PhoneOK

(* An offer names the peer it is made for.                                 *)
LEMMA OfferingOK ==
  ASSUME NEW ph, PhoneOK(ph), ph.mic = "live", NEW fresh
  PROVE  PhoneOK(Offering(ph, fresh)) /\ Offering(ph, fresh).peer # None
<1> DEFINE u == Unpeered(ph)
           p == IF fresh \/ ph.peer = None
                THEN [u EXCEPT !.peer = ph.drawn + 1, !.drawn = @ + 1] ELSE ph
<1>1. PhoneOK(u) /\ u.mic = "live" BY UnpeeredOK
<1>2. ph.drawn + 1 # None BY LinkAssumption DEF PhoneOK
<1> HIDE DEF u
<1>3. PhoneOK(p) /\ p.peer # None
  BY <1>1, <1>2 DEF PhoneOK
<1>4. Offering(ph, fresh) =
        [p EXCEPT !.generation = @ + 1, !.applied = FALSE,
                  !.phase = IF @ = "reconnecting" THEN @ ELSE "connecting"]
  BY DEF Offering, p, u
<1> HIDE DEF p
<1> QED BY <1>3, <1>4 DEF PhoneOK

(* A negotiation has a peer only on a microphone that is on, wherever the  *)
(* phone is; the change to the relay starts no capture.                    *)
LEMMA NegotiatingOK ==
  ASSUME NEW ph, PhoneOK(ph), NEW fresh
  PROVE  PhoneOK(Negotiating(ph, fresh))
<1>1. CASE ph.mic # "live" \/ ~ph.token
  BY <1>1 DEF Negotiating
<1>2. CASE ph.mic = "live" /\ ph.token
  <2> DEFINE n == Offering(ph, fresh)
             q == Ask("offer", Phone, n.generation, n.peer)
  <2>1. PhoneOK(n) /\ n.peer # None BY <1>2, OfferingOK
  <2>2. RequestOK(q) BY <2>1 DEF RequestOK, Ask
  <2>3. Negotiating(ph, fresh) = [n EXCEPT !.awaiting = q] BY <1>2 DEF Negotiating
  <2> HIDE DEF n, q
  <2> QED BY <2>1, <2>2, <2>3 DEF PhoneOK
<1> QED BY <1>1, <1>2

LEMMA EngagingOK ==
  ASSUME NEW ph, PhoneOK(ph)
  PROVE  PhoneOK(EngagingRelay(ph))
<1> DEFINE u == Unpeered(ph)
           q == Plain("relay", Phone)
<1>1. PhoneOK(u) BY UnpeeredOK
<1>2. RequestOK(q) BY PlainOK
<1> HIDE DEF u, q
<1>3. \/ EngagingRelay(ph) \in {ph, [ph EXCEPT !.phase = "failed"]}
      \/ EngagingRelay(ph) =
           [u EXCEPT !.relay = TRUE, !.misses = 0, !.phase = "connecting", !.attempts = 0,
                     !.restart = NoTimer, !.deadline = FALSE, !.awaiting = q]
  BY DEF EngagingRelay, u, q
<1> QED BY <1>1, <1>2, <1>3 DEF PhoneOK

LEMMA PhoneAsksOK ==
  ASSUME ServerOK, NEW q, RequestOK(q),
         NEW a, NEW b, NEW c, NEW d, PhoneOK(a), PhoneOK(b), PhoneOK(c), PhoneOK(d),
         PhoneAsks(q, a, b, c, d)
  PROVE  PhoneOK(phone') /\ ServerOK'
<1>1. phone' \in {a, b, c, d} BY DEF PhoneAsks
<1>2. \/ Serve(Post(q, FALSE)) /\ UNCHANGED posts
      \/ Posting(Post(q, FALSE)) /\ UNCHANGED server
  BY DEF PhoneAsks
<1> QED BY <1>1, <1>2, AskedOK

LEMMA AnnounceOK ==
  ASSUME ServerOK, NEW ph, PhoneOK(ph), AnnounceRelay(ph)
  PROVE  PhoneOK(phone') /\ ServerOK'
BY FinishedOK, PlainOK, PhoneAsksOK DEF AnnounceRelay

LEMMA ServerRests ==
  ASSUME ServerOK, UNCHANGED <<record, posts>>
  PROVE  ServerOK'
BY DEF ServerOK, RequestOK, RecordOK, OfferNamesPeer

----------------------------------------------------------------------------
(* What is done to the console *)

LEMMA ConsoleUnpeeredOK ==
  ASSUME NEW co, ConsoleOK(co)
  PROVE  /\ ConsoleOK(ConsoleUnpeered(co)) /\ ConsoleUnpeered(co).source = "none"
         /\ ConsoleUnpeered(co).relaying = co.relaying
         /\ ConsoleUnpeered(co).peer = None
BY DEF ConsoleUnpeered, ConsoleOK, OfferNamesPeer

LEMMA RelayStoppedOK ==
  ASSUME NEW co, ConsoleOK(co)
  PROVE  /\ ConsoleOK(RelayStopped(co)) /\ ~RelayStopped(co).relaying
         /\ co.source = "none" => RelayStopped(co).source = "none"
BY DEF RelayStopped, ConsoleOK, OfferNamesPeer

LEMMA ConsoleFinishedOK ==
  ASSUME NEW co, ConsoleOK(co)
  PROVE  ConsoleOK(ConsoleFinished(co))
<1> DEFINE r == RelayStopped(ConsoleUnpeered(co))
<1>1. ConsoleOK(r) /\ r.source = "none" BY ConsoleUnpeeredOK, RelayStoppedOK
<1>2. ConsoleFinished(co) =
        [r EXCEPT !.phase = "ended", !.paired = FALSE, !.view = None, !.read = None,
                  !.generation = 0, !.answered = 0]
  BY DEF ConsoleFinished, r
<1> HIDE DEF r
<1> QED BY <1>1, <1>2 DEF ConsoleOK

LEMMA ConsoleAsksOK ==
  ASSUME ServerOK, NEW action, action # "offer", ConsoleOK(console),
         NEW a, NEW b, NEW c, ConsoleOK(a), ConsoleOK(b), ConsoleOK(c),
         ConsoleAsks(Plain(action, Console), a, b, c)
  PROVE  ConsoleOK(console') /\ ServerOK'
<1>1. console' \in {a, b, c, console} BY DEF ConsoleAsks
<1>2. \/ Serve(Post(Plain(action, Console), FALSE)) /\ UNCHANGED posts
      \/ Posting(Post(Plain(action, Console), FALSE)) /\ UNCHANGED server
  BY DEF ConsoleAsks
<1> QED BY <1>1, <1>2, PlainOK, AskedOK

LEMMA RelayViewOK ==
  ASSUME NEW co, ConsoleOK(co), NEW view
  PROVE  ConsoleOK(RelayView(co, view))
<1> DEFINE alone == IF co.peer = None THEN co ELSE ConsoleUnpeered(co)
           silent == IF alone.source = "relay" THEN [alone EXCEPT !.source = "none"] ELSE alone
           paused == [silent EXCEPT
                        !.phase = IF @ \in {"paused", "connecting"} THEN @ ELSE "paused"]
           heard == IF view.closed /\ ~co.recent THEN paused ELSE alone
<1>1. ConsoleOK(alone) /\ alone.peer = None BY ConsoleUnpeeredOK
<1>2. RelayView(co, view) =
        [heard EXCEPT !.relaying = TRUE, !.misses = IF heard.relaying THEN @ ELSE 0]
  BY DEF RelayView
<1> HIDE DEF alone
<1>3. ConsoleOK(silent) /\ silent.peer = None
  BY <1>1 DEF ConsoleOK, OfferNamesPeer
<1> HIDE DEF silent
<1>4. ConsoleOK(paused) /\ paused.peer = None
  BY <1>3 DEF ConsoleOK, OfferNamesPeer
<1> HIDE DEF paused
<1>5. ConsoleOK(heard) /\ heard.peer = None BY <1>1, <1>4
<1> HIDE DEF heard
<1> QED BY <1>2, <1>5 DEF ConsoleOK, OfferNamesPeer

(* The reader's bookkeeping leaves the source alone.                       *)
LEMMA ReaderOK ==
  ASSUME NEW co, ConsoleOK(co)
  PROVE  /\ ConsoleOK(Resumed(co)) /\ Resumed(co).relaying = co.relaying
         /\ Resumed(co).peer = co.peer
         /\ ConsoleOK(ReadMissed(co))
<1>1. ConsoleOK(Resumed(co)) /\ Resumed(co).relaying = co.relaying
      /\ Resumed(co).peer = co.peer
  BY DEF Resumed, ConsoleOK, OfferNamesPeer
<1>2. ConsoleOK(ReadMissed(co))
  BY DEF ReadMissed, ConsoleOK, OfferNamesPeer
<1> QED BY <1>1, <1>2

LEMMA HeardOK ==
  ASSUME NEW co, ConsoleOK(co), co.relaying
  PROVE  ConsoleOK(Heard(co))
BY DEF Heard, ConsoleOK, OfferNamesPeer

(* Answering an offer, once the console is off the relay.                  *)
LEMMA HandleOfferOK ==
  ASSUME NEW co, ConsoleOK(co), ~co.relaying,
         NEW offer, offer.peer # None, HandleOffer(co, offer)
  PROVE  ConsoleOK(console')
<1> DEFINE a == Answering(co, offer)
           u == ConsoleUnpeered(co)
           p == IF co.peer = offer.peer THEN co
                ELSE [u EXCEPT !.peer = offer.peer, !.phase = "connecting"]
<1>1. ConsoleOK(u) /\ u.source = "none" /\ ~u.relaying BY ConsoleUnpeeredOK
<1>2. a = [p EXCEPT !.generation = offer.generation, !.answered = offer.generation]
  BY DEF Answering
<1> HIDE DEF u
<1>3. ConsoleOK(p) /\ p.peer # None /\ ~p.relaying
  BY <1>1 DEF ConsoleOK, OfferNamesPeer
<1> HIDE DEF p
<1>4. ConsoleOK(a) /\ a.peer # None /\ ~a.relaying
  BY <1>2, <1>3 DEF ConsoleOK, OfferNamesPeer
<1>5. \/ console' = a
      \/ console' = [a EXCEPT !.pending = offer, !.source = "peer",
                             !.phase = IF @ = "connected" THEN @ ELSE "connecting"]
  BY DEF HandleOffer
<1> HIDE DEF a
<1> QED BY <1>4, <1>5 DEF ConsoleOK, OfferNamesPeer

----------------------------------------------------------------------------
(* The person with the phone *)

LEMMA TapStep ==
  ASSUME IInv, Tap \/ Denied PROVE IInv'
<1>1. PhoneOK(phone') BY DEF Tap, Denied, IInv, PhoneOK
<1>2. UNCHANGED <<record, posts, console>> BY DEF Tap, Denied, server
<1> QED BY <1>1, <1>2, ServerRests DEF IInv, ConsoleOK, OfferNamesPeer

(* The request the page was waiting for may still arrive.                  *)
LEMMA ReloadStep ==
  ASSUME IInv, Reload PROVE IInv'
<1>1. phone.drawn \in Nat BY DEF IInv, PhoneOK
<1>2. phone' = NewPhone(phone.token, phone.drawn) BY DEF Reload
<1>3. PhoneOK(phone') BY <1>1, <1>2 DEF PhoneOK, NewPhone
<1>4. \A p \in posts' : RequestOK(p.q)
  <2>1. CASE phone.awaiting = None
    BY <2>1 DEF Reload, IInv, ServerOK
  <2>2. CASE phone.awaiting # None
    <3> DEFINE post == Post(phone.awaiting, FALSE)
    <3>1. RequestOK(post.q) BY <2>2 DEF IInv, PhoneOK, Post
    <3>2. Posting(post) BY <2>2 DEF Reload
    <3> QED BY <3>1, <3>2, PostingOK DEF IInv
  <2> QED BY <2>1, <2>2
<1>5. UNCHANGED <<record, console>> BY DEF Reload, server
<1> QED BY <1>3, <1>4, <1>5 DEF IInv, ServerOK, RecordOK, ConsoleOK, OfferNamesPeer

LEMMA GrantedStep ==
  ASSUME IInv, Granted PROVE IInv'
<1> DEFINE on == [phone EXCEPT !.mic = "live", !.wants = TRUE]
           failed == [on EXCEPT !.mic = "off", !.phase = "failed"]
           holding == [on EXCEPT !.token = TRUE]
<1>1. PhoneOK(on) BY DEF IInv, PhoneOK
<1>2. \/ phone' = Started(on) /\ UNCHANGED <<server, posts>>
      \/ PhoneAsks(Plain("claim", Phone), Started(holding), failed, failed, failed)
  BY DEF Granted
<1>3. on.wants BY DEF IInv, PhoneOK
<1> HIDE DEF on
<1>4. PhoneOK(failed) /\ PhoneOK(holding) BY <1>1, <1>3 DEF PhoneOK
<1> HIDE DEF failed, holding
<1>5. PhoneOK(Started(on)) /\ PhoneOK(Started(holding)) BY <1>1, <1>4, StartedOK
<1>6. PhoneOK(phone') /\ ServerOK'
  BY <1>2, <1>4, <1>5, PlainOK, PhoneAsksOK, ServerRests DEF IInv, server
<1>7. UNCHANGED console BY DEF Granted
<1> QED BY <1>6, <1>7 DEF IInv, ConsoleOK, OfferNamesPeer

LEMMA HearsStopOK ==
  ASSUME ConsoleOK(console), ConsoleMayHearStop PROVE ConsoleOK(console')
<1> DEFINE u == ConsoleUnpeered(console)
<1>1. ConsoleOK(u) BY ConsoleUnpeeredOK
<1>2. console' = console \/ console' = [u EXCEPT !.phase = "paused"]
  BY DEF ConsoleMayHearStop
<1> HIDE DEF u
<1> QED BY <1>1, <1>2 DEF ConsoleOK, OfferNamesPeer

LEMMA StopStep ==
  ASSUME IInv, Stop PROVE IInv'
<1>1. PhoneOK(phone') BY StoppedOK DEF Stop, IInv
<1>2. ConsoleOK(console') BY HearsStopOK DEF Stop, IInv
<1>3. \A p \in posts' : RequestOK(p.q) BY StatusOK, PostingOK DEF Stop, IInv
<1>4. UNCHANGED record BY DEF Stop, server
<1> QED BY <1>1, <1>2, <1>3, <1>4 DEF IInv, ServerOK, RequestOK, RecordOK, OfferNamesPeer,
           PhoneOK, ConsoleOK

LEMMA ReconnectStep ==
  ASSUME IInv, Reconnect PROVE IInv'
<1> DEFINE w == [phone EXCEPT !.attempts = 0, !.wants = TRUE]
<1>1. PhoneOK(w) BY DEF IInv, PhoneOK
<1>2. phone' = Started(LeaveRelay(w)) /\ UNCHANGED <<record, posts, console>>
  BY DEF Reconnect, server
<1> HIDE DEF w
<1>3. PhoneOK(phone') BY <1>1, <1>2, LeaveRelayOK, StartedOK
<1> QED BY <1>2, <1>3, ServerRests DEF IInv, ConsoleOK, OfferNamesPeer

LEMMA LeaveStep ==
  ASSUME IInv, Leave PROVE IInv'
<1> DEFINE left == PhoneFinished(PhoneStopped(phone))
<1>1. PhoneOK(left) BY StoppedOK, FinishedOK DEF IInv
<1>2. PhoneAsks(Plain("end", Phone), left, left, left, left) /\ ConsoleMayHearStop
  BY DEF Leave
<1> HIDE DEF left
<1>3. PhoneOK(phone') /\ ServerOK' BY <1>1, <1>2, PlainOK, PhoneAsksOK DEF IInv
<1>4. ConsoleOK(console') BY <1>2, HearsStopOK DEF IInv
<1> QED BY <1>3, <1>4 DEF IInv

----------------------------------------------------------------------------
(* The phone runs *)

LEMMA PhonePollsStep ==
  ASSUME IInv, PhonePolls PROVE IInv'
<1>1. PhoneOK(phone') BY DEF PhonePolls, IInv, PhoneOK
<1>2. UNCHANGED <<record, posts, console>> BY DEF PhonePolls, server
<1> QED BY <1>1, <1>2, ServerRests DEF IInv, ConsoleOK, OfferNamesPeer

LEMMA PhoneHearsStep ==
  ASSUME IInv, PhoneHears PROVE IInv'
<1> DEFINE read == [phone EXCEPT !.view = None]
<1>1. PhoneOK(read) BY DEF IInv, PhoneOK
<1> HIDE DEF read
<1>2. PhoneOK(PhoneFinished(read)) BY <1>1, FinishedOK
<1>3. PhoneOK(phone') BY <1>2, SerialOK DEF PhoneHears, IInv, read
<1>4. UNCHANGED <<record, posts, console>> BY DEF PhoneHears, server
<1> QED BY <1>3, <1>4, ServerRests DEF IInv, ConsoleOK, OfferNamesPeer

LEMMA PhoneHandlesStep ==
  ASSUME IInv, PhoneHandles PROVE IInv'
<1> DEFINE view == phone.view
           ph == [phone EXCEPT !.view = None, !.queue = IF GoingOn THEN Tail(@) ELSE @]
           now == [ph EXCEPT !.generation = IF view.generation > @ THEN view.generation ELSE @]
           armed == [now EXCEPT !.deadline = now.deadline \/ now.capture]
           applied == [now EXCEPT !.applied = @ \/ AnswerFor(now, view)]
<1>1. \/ /\ phone' \in {PhoneFinished(ph), EngagingRelay(now), Negotiating(armed, TRUE), applied}
         /\ UNCHANGED <<server, posts>>
      \/ now.relay /\ phone' = Capturing(now) /\ UNCHANGED <<server, posts>>
      \/ now.relay /\ AnnounceRelay(Capturing(now))
  BY DEF PhoneHandles
<1>2. PhoneOK(ph) BY DEF IInv, PhoneOK
<1> HIDE DEF ph
<1>3. PhoneOK(now) BY <1>2 DEF PhoneOK
<1> HIDE DEF now
<1>4. PhoneOK(armed) /\ PhoneOK(applied) BY <1>3 DEF PhoneOK
<1> HIDE DEF armed, applied
<1>5. UNCHANGED console BY DEF PhoneHandles
<1>6. PhoneOK(phone') /\ ServerOK'
  <2>1. CASE UNCHANGED <<server, posts>>
            /\ phone' \in {PhoneFinished(ph), EngagingRelay(now), Negotiating(armed, TRUE), applied}
    BY <1>2, <1>3, <1>4, <2>1, FinishedOK, EngagingOK, NegotiatingOK, ServerRests
    DEF IInv, server
  <2>2. CASE now.relay /\ phone' = Capturing(now) /\ UNCHANGED <<server, posts>>
    BY <1>3, <2>2, CapturingOK, ServerRests DEF IInv, server
  <2>3. CASE now.relay /\ AnnounceRelay(Capturing(now))
    BY <1>3, <2>3, CapturingOK, AnnounceOK DEF IInv
  <2> QED BY <1>1, <2>1, <2>2, <2>3
<1> QED BY <1>5, <1>6 DEF IInv, ConsoleOK, OfferNamesPeer

(* Work begins where the phone has got to by then.                         *)
LEMMA PhoneWorksStep ==
  ASSUME IInv, PhoneWorks PROVE IInv'
<1> DEFINE ph == [phone EXCEPT !.queue = Tail(@)]
           fresh == Head(phone.queue) = "fresh"
<1>1. phone' \in {EngagingRelay(ph), Negotiating(ph, fresh)}
      /\ UNCHANGED <<record, posts, console>>
  BY DEF PhoneWorks, server
<1>2. PhoneOK(ph) BY DEF IInv, PhoneOK
<1> HIDE DEF ph, fresh
<1>3. PhoneOK(phone') BY <1>1, <1>2, EngagingOK, NegotiatingOK
<1> QED BY <1>1, <1>3, ServerRests DEF IInv, ConsoleOK, OfferNamesPeer

LEMMA RequestEndsStep ==
  ASSUME IInv, RequestEnds PROVE IInv'
<1> DEFINE q == phone.awaiting
           ph == [phone EXCEPT !.awaiting = None]
           u == Unpeered(ph)
           stale == [u EXCEPT !.generation = @ + 1]
           heard == IF ph.relay THEN Capturing(ph) ELSE ph
<1>1. RequestOK(q) BY DEF RequestEnds, IInv, PhoneOK
<1>2. \/ PhoneAsks(q, ph, stale, PhoneFinished(ph), ScheduleRecovery(ph))
      \/ PhoneAsks(q, heard, heard, PhoneFinished(ph), heard)
  BY DEF RequestEnds
<1>3. PhoneOK(ph) BY DEF IInv, PhoneOK
<1> HIDE DEF q, ph
<1>4. PhoneOK(u) BY <1>3, UnpeeredOK
<1> HIDE DEF u
<1>5. PhoneOK(stale) BY <1>4 DEF PhoneOK
<1>6. PhoneOK(heard) BY <1>3, CapturingOK
<1> HIDE DEF stale, heard
<1>7. PhoneOK(phone') /\ ServerOK'
  BY <1>1, <1>2, <1>3, <1>5, <1>6, FinishedOK, RecoveryOK, PhoneAsksOK DEF IInv
<1>8. UNCHANGED console BY DEF RequestEnds
<1> QED BY <1>7, <1>8 DEF IInv, ConsoleOK, OfferNamesPeer

LEMMA PhoneUpStep ==
  ASSUME IInv, PhoneUp PROVE IInv'
<1>1. PhoneOK(phone') BY DEF PhoneUp, IInv, PhoneOK
<1>2. UNCHANGED <<record, console>> /\ Posting(PhoneStatus(FALSE)) BY DEF PhoneUp, server
<1>3. \A p \in posts' : RequestOK(p.q) BY <1>2, StatusOK, PostingOK DEF IInv
<1> QED BY <1>1, <1>2, <1>3 DEF IInv, ServerOK, RequestOK, RecordOK, OfferNamesPeer,
           ConsoleOK

LEMMA PhoneDownStep ==
  ASSUME IInv, PhoneDown PROVE IInv'
<1> DEFINE down == [phone EXCEPT !.conn = "down"]
           again == [down EXCEPT !.phase = "reconnecting"]
<1>1. PhoneOK(down) BY DEF IInv, PhoneOK
<1>2. phone' \in {down, ScheduleRecovery(again)}
      /\ (Posting(PhoneStatus(FALSE)) \/ UNCHANGED posts)
  BY DEF PhoneDown
<1> HIDE DEF down
<1>3. PhoneOK(again) BY <1>1 DEF PhoneOK
<1> HIDE DEF again
<1>4. PhoneOK(phone') BY <1>1, <1>2, <1>3, RecoveryOK
<1>5. \A p \in posts' : RequestOK(p.q) BY <1>2, StatusOK, PostingOK DEF IInv
<1>6. UNCHANGED <<record, console>> BY DEF PhoneDown, server
<1> QED BY <1>4, <1>5, <1>6 DEF IInv, ServerOK, RequestOK, RecordOK, OfferNamesPeer,
           ConsoleOK

LEMMA RestartStep ==
  ASSUME IInv, RestartFires PROVE IInv'
<1> DEFINE off == [phone EXCEPT !.restart = NoTimer]
           nth == phone.restart.nth
           again == [off EXCEPT !.attempts = nth + 1, !.phase = "reconnecting",
                                !.restart = [at |-> "check", nth |-> 0]]
<1>1. phone' \in {off, ScheduleRecovery(off), Serial(again, "fresh"), Serial(again, "restart")}
  BY DEF RestartFires
<1>2. PhoneOK(off) BY DEF IInv, PhoneOK
<1> HIDE DEF off
<1>3. PhoneOK(again) BY <1>2 DEF PhoneOK
<1> HIDE DEF again
<1>4. PhoneOK(phone') BY <1>1, <1>2, <1>3, RecoveryOK, SerialOK
<1>5. UNCHANGED <<record, posts, console>> BY DEF RestartFires, server
<1> QED BY <1>4, <1>5, ServerRests DEF IInv, ConsoleOK, OfferNamesPeer

LEMMA DeadlineStep ==
  ASSUME IInv, DeadlineFires PROVE IInv'
<1> DEFINE off == [phone EXCEPT !.deadline = FALSE]
<1>1. phone' \in {off, Serial(off, "engage")} BY DEF DeadlineFires
<1>2. PhoneOK(off) BY DEF IInv, PhoneOK
<1> HIDE DEF off
<1>3. PhoneOK(phone') BY <1>1, <1>2, SerialOK
<1>4. UNCHANGED <<record, posts, console>> BY DEF DeadlineFires, server
<1> QED BY <1>3, <1>4, ServerRests DEF IInv, ConsoleOK, OfferNamesPeer

LEMMA MissedOK ==
  ASSUME NEW ph, PhoneOK(ph)
  PROVE  PhoneOK(Missed(ph))
BY DEF Missed, PhoneOK

LEMMA FlushStep ==
  ASSUME IInv, FlushRelay PROVE IInv'
<1> DEFINE sent == [phone EXCEPT !.misses = 0, !.phase = "connected",
                                 !.attempts = IF phone.phase = "connected" THEN @ ELSE 0]
<1>1. PhoneOK(sent) BY DEF IInv, PhoneOK
<1>2. \/ /\ phone' \in {sent, PhoneFinished(phone), Missed(phone)} /\ UNCHANGED record
         /\ Posting(PhoneStatus(FALSE)) \/ UNCHANGED posts
      \/ AnnounceRelay(Missed(phone))
  BY DEF FlushRelay, server
<1> HIDE DEF sent
<1>3. PhoneOK(phone)  BY DEF IInv
<1>4. PhoneOK(phone') /\ ServerOK'
  <2>1. CASE AnnounceRelay(Missed(phone))
    BY <1>3, <2>1, MissedOK, AnnounceOK DEF IInv
  <2>2. CASE /\ phone' \in {sent, PhoneFinished(phone), Missed(phone)} /\ UNCHANGED record
             /\ Posting(PhoneStatus(FALSE)) \/ UNCHANGED posts
    <3>1. PhoneOK(phone') BY <1>1, <1>3, <2>2, FinishedOK, MissedOK
    <3>2. \A p \in posts' : RequestOK(p.q) BY <2>2, StatusOK, PostingOK DEF IInv
    <3> QED BY <2>2, <3>1, <3>2 DEF IInv, ServerOK, RequestOK, RecordOK, OfferNamesPeer
  <2> QED BY <1>2, <2>1, <2>2
<1>5. UNCHANGED console BY DEF FlushRelay
<1> QED BY <1>4, <1>5 DEF IInv, ConsoleOK, OfferNamesPeer

LEMMA PhoneBeatsStep ==
  ASSUME IInv, PhoneBeats PROVE IInv'
<1>1. UNCHANGED <<posts, phone, console>> /\ \E closing \in BOOLEAN : Serve(PhoneStatus(closing))
  BY DEF PhoneBeats
<1>2. (record # None => RecordOK(record))' BY <1>1, StatusOK, ServeOK DEF IInv
<1> QED BY <1>1, <1>2 DEF IInv, PhoneOK, ConsoleOK, OfferNamesPeer, ServerOK, RequestOK,
           RecordOK

----------------------------------------------------------------------------
(* The console *)

LEMMA OperatorStep ==
  ASSUME IInv, Approve \/ Reject PROVE IInv'
<1> DEFINE over == ConsoleFinished(console)
           going == [console EXCEPT !.phase = "connecting"]
<1>1. \/ ConsoleAsks(Plain("approve", Console), going, over, console)
      \/ ConsoleAsks(Plain("reject", Console), over, over, over)
  BY DEF Approve, Reject
<1>2. ConsoleOK(over) BY ConsoleFinishedOK DEF IInv
<1>3. ConsoleOK(going) BY DEF IInv, ConsoleOK, OfferNamesPeer
<1> HIDE DEF over, going
<1>4. ConsoleOK(console') /\ ServerOK' BY <1>1, <1>2, <1>3, ConsoleAsksOK DEF IInv
<1>5. UNCHANGED phone BY DEF Approve, Reject
<1> QED BY <1>4, <1>5 DEF IInv, PhoneOK

LEMMA EndStep ==
  ASSUME IInv, End PROVE IInv'
<1>1. ConsoleOK(console') BY ConsoleFinishedOK DEF End, IInv
<1>2. PhoneOK(phone') BY StoppedOK, FinishedOK DEF End, IInv
<1>3. \/ Serve(Post(Plain("end", Console), FALSE)) /\ UNCHANGED posts
      \/ Posting(Post(Plain("end", Console), FALSE)) /\ UNCHANGED server
  BY DEF End
<1>4. ServerOK' BY <1>3, PlainOK, AskedOK DEF IInv
<1> QED BY <1>1, <1>2, <1>4 DEF IInv

LEMMA ConsolePollsStep ==
  ASSUME IInv, ConsolePolls PROVE IInv'
<1> DEFINE view == ConsoleView
<1>1. view.state \in {"claimed", "approved", "gone"}
      /\ console' = [console EXCEPT !.view = view]
      /\ UNCHANGED <<record, posts, phone>>
  BY DEF ConsolePolls, server
<1>2. view.state # "gone" => OfferNamesPeer(view)
  <2>1. CASE Gone BY <2>1 DEF ConsoleView
  <2>2. CASE ~Gone
    <3>1. record # None /\ view.offer = record.offer BY <2>2 DEF ConsoleView, Gone
    <3> HIDE DEF view
    <3> QED BY <3>1 DEF IInv, ServerOK, RecordOK, OfferNamesPeer
  <2> QED BY <2>1, <2>2
<1> HIDE DEF view
<1>3. ConsoleOK(console') BY <1>1, <1>2 DEF IInv, ConsoleOK, OfferNamesPeer
<1> QED BY <1>1, <1>3, ServerRests DEF IInv, PhoneOK

LEMMA ConsoleHandlesStep ==
  ASSUME IInv, ConsoleHandles PROVE IInv'
<1> DEFINE view == console.view
           co == [console EXCEPT !.view = None]
           seen == [co EXCEPT !.phase =
                      IF view.state = "claimed" /\ @ = "waiting" THEN "awaiting-approval"
                      ELSE IF view.state = "approved" /\ @ = "awaiting-approval"
                      THEN "connecting" ELSE @]
           stopped == RelayStopped(seen)
           direct == IF seen.relaying THEN [stopped EXCEPT !.phase = "connecting"] ELSE seen
<1>1. \/ console' \in {ConsoleFinished(co), seen, RelayView(seen, view), direct}
      \/ /\ view.state # "gone" /\ view.offer # None
         /\ HandleOffer(direct, view.offer)
  BY DEF ConsoleHandles
<1>2. view.state # "gone" => OfferNamesPeer(view)
  BY DEF ConsoleHandles, IInv, ConsoleOK
<1>3. ConsoleOK(co) BY DEF IInv, ConsoleOK
<1> HIDE DEF co, view
<1>4. ConsoleOK(seen) BY <1>3 DEF ConsoleOK, OfferNamesPeer
<1> HIDE DEF seen
<1>5. ConsoleOK(stopped) /\ ~stopped.relaying BY <1>4, RelayStoppedOK
<1> HIDE DEF stopped
<1>6. ConsoleOK(direct) /\ ~direct.relaying
  BY <1>4, <1>5 DEF ConsoleOK, OfferNamesPeer
<1> HIDE DEF direct
<1>7. ConsoleOK(console')
  BY <1>1, <1>2, <1>3, <1>4, <1>6, ConsoleFinishedOK, RelayViewOK, HandleOfferOK
  DEF OfferNamesPeer
<1>8. UNCHANGED <<record, posts, phone>> BY DEF ConsoleHandles, server
<1> QED BY <1>7, <1>8, ServerRests DEF IInv, PhoneOK

LEMMA DeliverStep ==
  ASSUME IInv, DeliverAnswer PROVE IInv'
<1> DEFINE q == Ask("answer", Console, console.pending.generation, console.pending.peer)
           done == [console EXCEPT !.pending = None]
<1>1. \/ Serve(Post(q, FALSE)) /\ console' = done /\ UNCHANGED posts
      \/ Posting(Post(q, FALSE)) /\ UNCHANGED server /\ console' = console
  BY DEF DeliverAnswer
<1>2. RequestOK(q) BY DEF RequestOK, Ask
<1>3. ConsoleOK(done) BY DEF IInv, ConsoleOK, OfferNamesPeer
<1> HIDE DEF q, done
<1>4. ServerOK' BY <1>1, <1>2, AskedOK DEF IInv
<1>5. UNCHANGED phone BY DEF DeliverAnswer
<1> QED BY <1>1, <1>3, <1>4, <1>5 DEF IInv, PhoneOK, ConsoleOK, OfferNamesPeer

LEMMA ConsoleUpStep ==
  ASSUME IInv, ConsoleUp \/ ConsoleDown \/ GraceExpires PROVE IInv'
<1>1. ConsoleOK(console')
  BY DEF ConsoleUp, ConsoleDown, GraceExpires, IInv, ConsoleOK, OfferNamesPeer
<1>2. UNCHANGED <<record, phone>> /\ (Posting(Connected) \/ UNCHANGED posts)
  BY DEF ConsoleUp, ConsoleDown, GraceExpires, server
<1>3. \A p \in posts' : RequestOK(p.q) BY <1>2, StatusOK, PostingOK DEF IInv
<1> QED BY <1>1, <1>2, <1>3 DEF IInv, ServerOK, RequestOK, RecordOK, OfferNamesPeer, PhoneOK

LEMMA ConsoleBeatsStep ==
  ASSUME IInv, ConsoleBeats PROVE IInv'
<1>1. UNCHANGED <<posts, phone, console>> /\ Serve(Connected) BY DEF ConsoleBeats
<1>2. (record # None => RecordOK(record))' BY <1>1, StatusOK, ServeOK DEF IInv
<1> QED BY <1>1, <1>2 DEF IInv, PhoneOK, ConsoleOK, OfferNamesPeer, ServerOK, RequestOK,
           RecordOK

LEMMA ReaderStep ==
  ASSUME IInv, ReadRelay \/ Quietens PROVE IInv'
<1>1. ConsoleOK(console')
  BY DEF ReadRelay, Quietens, IInv, ConsoleOK, OfferNamesPeer
<1>2. UNCHANGED <<record, posts, phone>> BY DEF ReadRelay, Quietens, server
<1> QED BY <1>1, <1>2, ServerRests DEF IInv, PhoneOK

(* A late reply of the relay is dropped by a console that has left it.     *)
LEMMA RelayAnswersStep ==
  ASSUME IInv, RelayAnswers PROVE IInv'
<1> DEFINE co == [console EXCEPT !.read = None]
<1>1. ConsoleOK(co) /\ co.relaying = console.relaying
  BY DEF IInv, ConsoleOK, OfferNamesPeer
<1>2. console.read \in {"gone", "lost", "nothing", "frames"}
  BY DEF RelayAnswers, IInv, ConsoleOK
<1>3. \/ console' \in {ConsoleFinished(co), ReadMissed(co), co, Resumed(co)}
      \/ console.relaying /\ console' = Heard(Resumed(co))
  <2>1. console' = CASE console.read = "gone" -> ConsoleFinished(co)
                     [] console.read = "lost" -> ReadMissed(co)
                     [] console.read = "nothing" -> IF co.relaying THEN Resumed(co) ELSE co
                     [] console.read = "frames" ->
                          IF co.relaying THEN Heard(Resumed(co)) ELSE co
    BY DEF RelayAnswers
  <2> HIDE DEF co
  <2>2. CASE console.read = "gone" BY <2>1, <2>2
  <2>3. CASE console.read = "lost" BY <2>1, <2>3
  <2>4. CASE console.read = "nothing" BY <2>1, <2>4
  <2>5. CASE console.read = "frames"
    <3>1. console' = IF co.relaying THEN Heard(Resumed(co)) ELSE co BY <2>1, <2>5
    <3> QED BY <1>1, <3>1
  <2> QED BY <1>2, <2>2, <2>3, <2>4, <2>5
<1>4. UNCHANGED <<record, phone>> /\ (Posting(Connected) \/ UNCHANGED posts)
  BY DEF RelayAnswers, server
<1> HIDE DEF co
<1>5. ConsoleOK(console') BY <1>1, <1>3, ConsoleFinishedOK, ReaderOK, HeardOK
<1>6. \A p \in posts' : RequestOK(p.q) BY <1>4, StatusOK, PostingOK DEF IInv
<1> QED BY <1>4, <1>5, <1>6 DEF IInv, ServerOK, RequestOK, RecordOK, OfferNamesPeer, PhoneOK

----------------------------------------------------------------------------
(* The network and the store *)

LEMMA WorldStep ==
  ASSUME IInv, World PROVE IInv'
<1>1. CASE PathChanges
  BY <1>1, ServerRests DEF PathChanges, IInv, PhoneOK, ConsoleOK, OfferNamesPeer, server
<1>2. CASE Expires
  BY <1>2 DEF Expires, IInv, PhoneOK, ConsoleOK, OfferNamesPeer, ServerOK, RequestOK
<1>3. ASSUME NEW post \in posts, Arrives(post) PROVE IInv'
  <2>1. Serve(post) /\ posts' = posts \ {post} /\ UNCHANGED <<phone, console>>
    BY <1>3 DEF Arrives
  <2>2. RequestOK(post.q) BY DEF IInv, ServerOK
  <2>3. (record # None => RecordOK(record))' BY <2>1, <2>2, ServeOK DEF IInv
  <2> QED BY <2>1, <2>3 DEF IInv, ServerOK, RequestOK, RecordOK, PhoneOK, ConsoleOK,
             OfferNamesPeer
<1> QED BY <1>1, <1>2, <1>3 DEF World

----------------------------------------------------------------------------
(* The theorems *)

LEMMA InitIInv == Init => IInv
<1> SUFFICES ASSUME Init PROVE IInv OBVIOUS
<1>1. PhoneOK(phone) BY DEF Init, PhoneOK, NewPhone, NoTimer
<1>2. ConsoleOK(console) BY DEF Init, ConsoleOK, NewConsole
<1>3. ServerOK BY DEF Init, ServerOK, NewPairing, RecordOK, OfferNamesPeer
<1> QED BY <1>1, <1>2, <1>3 DEF IInv

LEMMA NextIInv == IInv /\ [Next]_vars => IInv'
<1> SUFFICES ASSUME IInv, [Next]_vars PROVE IInv' OBVIOUS
<1>1. CASE Person
  BY <1>1, TapStep, ReloadStep, GrantedStep, StopStep, ReconnectStep, LeaveStep DEF Person
<1>2. CASE PhoneRuns
  BY <1>2, PhonePollsStep, PhoneHearsStep, PhoneHandlesStep, RequestEndsStep, PhoneUpStep,
     PhoneDownStep, PhoneBeatsStep, RestartStep, DeadlineStep, FlushStep DEF PhoneRuns
<1>3. CASE Operator
  BY <1>3, OperatorStep, EndStep DEF Operator
<1>4. CASE ConsoleRuns
  BY <1>4, ConsolePollsStep, ConsoleHandlesStep, DeliverStep, ConsoleUpStep, ConsoleBeatsStep,
     ReaderStep, RelayAnswersStep DEF ConsoleRuns
<1>5. CASE World
  BY <1>5, WorldStep
<1>6. CASE GoingOn /\ (PhoneWorks \/ PhoneHandles)
  BY <1>6, PhoneWorksStep, PhoneHandlesStep
<1>7. CASE UNCHANGED vars
  BY <1>7, ServerRests DEF vars, IInv, PhoneOK, ConsoleOK, OfferNamesPeer
<1> QED BY <1>1, <1>2, <1>3, <1>4, <1>5, <1>6, <1>7 DEF Next

(* The two ends' invariants, and every offer names its peer.               *)
THEOREM SpecIInv == Spec => []IInv
BY InitIInv, NextIInv, PTL DEF Spec

(* A phone that was stopped transmits nothing, by whichever transport and  *)
(* whatever timer or negotiation was under way (stop, finish).             *)
THEOREM StoppedIsSilent == Spec => []StoppedPhoneIsSilent
<1>1. IInv => StoppedPhoneIsSilent BY DEF IInv, PhoneOK, StoppedPhoneIsSilent
<1> QED BY <1>1, SpecIInv, PTL

(* Each end uses the source of the transport it is on; a late reply of the *)
(* relay does not bring its sound back (readRelayOnce, handleRelayView).   *)
THEOREM SourceFollows == Spec => []SourceFollowsTransport
<1>1. IInv => SourceFollowsTransport
  BY DEF IInv, PhoneOK, ConsoleOK, SourceFollowsTransport
<1> QED BY <1>1, SpecIInv, PTL
============================================================================
