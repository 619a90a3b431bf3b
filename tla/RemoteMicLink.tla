--------------------------- MODULE RemoteMicLink ---------------------------
(***************************************************************************)
(* The two ends of a remote microphone: class RemoteMicSender of           *)
(* src/src/remote-mic/sender.ts on the phone and class RemoteMicReceiver   *)
(* of src/src/remote-mic/receiver.ts on the console, which meet in the     *)
(* pairing record, over WebRTC and over the server's relay.                *)
(*                                                                         *)
(* A request takes effect on the record at one instant or not at all: that *)
(* is what module PairingStore is shown to implement.  Its caller hears of *)
(* the outcome, or believes it lost while it may still arrive.  A poll     *)
(* takes its view at one instant and is handled at a later one.  What the  *)
(* phone does to its connection it does one thing after the other: views,  *)
(* negotiations and the change to the relay queue behind the one request   *)
(* it waits for.  The WebRTC calls of one negotiation are one step, ICE    *)
(* candidates are left to the browsers, and any timer that is armed may    *)
(* fire at any time.                                                       *)
(***************************************************************************)
EXTENDS PairingRecord, FiniteSets, Sequences

CONSTANTS
  Phone,
  MaxRestarts,     \* length of ICE_RESTART_DELAYS_MS
  RelayFailures,   \* RELAY_FAILURES_BEFORE_REPORT, of both ends
  RelayCapable,    \* the phone can build its relay capture
  RelayForced,     \* forceRelay: skip WebRTC
  MaxPosts,        \* bound: requests that are on their way
  MaxTrouble       \* bound: losses, breakdowns and restarts by hand

ASSUME LinkAssumption ==
  /\ Phones = {Phone}
  /\ None \notin Nat
  /\ MaxRestarts \in Nat
  /\ RelayFailures \in Nat \ {0}
  /\ RelayCapable \in BOOLEAN
  /\ RelayForced \in BOOLEAN
  /\ MaxPosts \in Nat
  /\ MaxTrouble \in Nat

VARIABLES
  record,   \* the pairing's record, or None when the store has dropped it
  closed,   \* the phone's last status reads "closed"
  frames,   \* the relay holds audio that the console has not read
  posts,    \* requests nobody waits for any more that may still arrive
  phone,
  console,
  path,     \* the two browsers can reach each other directly
  trouble   \* what has gone wrong so far

vars == <<record, closed, frames, posts, phone, console, path, trouble>>

server == <<record, closed, frames>>

----------------------------------------------------------------------------
(* Requests and views *)

Ask(action, by, generation, peer) ==
  [action |-> action, by |-> by, genuine |-> TRUE, generation |-> generation, peer |-> peer]

Plain(action, by) == Ask(action, by, 0, CHOOSE p \in Peers : TRUE)

(* closing: a status of the phone that reads "closed".                     *)
Post(q, closing) == [q |-> q, closing |-> closing]

Gone == record = None \/ (record # None /\ record.state = "ended")

Fulfilled(q) == record # None /\ Outcome(record, q, FALSE).ok

Serve(post) ==
  /\ record' = IF record = None THEN None ELSE Outcome(record, post.q, FALSE).record
  /\ closed' = IF post.q.by = Phone /\ post.q.action = "heartbeat" /\ Fulfilled(post.q)
               THEN post.closing ELSE closed
  /\ UNCHANGED frames

PhoneView ==
  IF Gone THEN [state |-> "gone"]
  ELSE [state |-> record.state, generation |-> record.generation,
        answer |-> record.answer, relay |-> record.relay]

ConsoleView ==
  IF Gone THEN [state |-> "gone"]
  ELSE [state |-> record.state, offer |-> record.offer, relay |-> record.relay,
        closed |-> closed]

(* Something goes wrong, or is done again by hand.                         *)
Trouble == trouble < MaxTrouble /\ trouble' = trouble + 1

NoTrouble == UNCHANGED trouble

(* Sent without waiting for a reply: it is lost, or may arrive later.      *)
Posting(post) ==
  \/ UNCHANGED posts
  \/ posts' = posts \cup {post} /\ Cardinality(posts') <= MaxPosts

----------------------------------------------------------------------------
(* The phone *)

NoTimer == [at |-> "off", nth |-> 0]

(* queue, awaiting: the work serial() has yet to begin, and the request the*)
(* work that has begun waits for.                                          *)
NewPhone(token, drawn) ==
  [phase |-> "idle", mic |-> "off", token |-> token, wants |-> FALSE,
   polling |-> FALSE, view |-> None, generation |-> 0,
   peer |-> None, drawn |-> drawn, conn |-> "new", applied |-> FALSE,
   relay |-> FALSE, capture |-> FALSE, capturing |-> FALSE, misses |-> 0,
   attempts |-> 0, restart |-> NoTimer, deadline |-> FALSE,
   queue |-> <<>>, awaiting |-> None]

Unpeered(ph) == [ph EXCEPT !.peer = None, !.conn = "new", !.applied = FALSE]

LeaveRelay(ph) == [ph EXCEPT !.relay = FALSE, !.capturing = FALSE, !.misses = 0]

(* finish() *)
PhoneFinished(ph) ==
  IF ph.phase = "ended" THEN ph
  ELSE [LeaveRelay(Unpeered(ph)) EXCEPT
          !.phase = "ended", !.wants = FALSE, !.polling = FALSE, !.capture = FALSE,
          !.mic = IF @ = "live" THEN "off" ELSE @,
          !.restart = NoTimer, !.deadline = FALSE]

(* stop() *)
PhoneStopped(ph) ==
  LET kept == ph.phase \in {"ended", "failed"} IN
  [Unpeered(ph) EXCEPT
     !.wants = FALSE, !.capturing = FALSE, !.mic = "off",
     !.restart = NoTimer, !.deadline = FALSE,
     !.phase = IF kept THEN @ ELSE "stopped",
     !.attempts = IF kept THEN @ ELSE 0]

(* The end of doStart(), once the microphone is on and the pairing claimed.*)
Started(ph) ==
  [Unpeered(ph) EXCEPT
     !.polling = TRUE,
     !.phase = IF @ = "starting" THEN "awaiting-approval" ELSE @]

CaptureRegardless(ph) == [ph EXCEPT !.capturing = TRUE]   \* mutant of Capturing

(* The relay capture runs on a microphone that is on and meant to be heard.*)
Capturing(ph) == [ph EXCEPT !.capturing = ph.wants /\ ph.mic = "live"]

RecoverWithoutRelay(ph) ==   \* mutant of ScheduleRecovery
  IF ph.restart # NoTimer \/ ~ph.wants \/ ph.attempts > MaxRestarts THEN ph
  ELSE [ph EXCEPT !.restart = [at |-> "due", nth |-> ph.attempts]]

Serial(ph, work) == [ph EXCEPT !.queue = Append(@, work)]

ScheduleRecovery(ph) ==
  IF ph.restart # NoTimer \/ ~ph.wants THEN ph
  ELSE IF ph.attempts <= MaxRestarts
  THEN [ph EXCEPT !.restart = [at |-> "due", nth |-> ph.attempts]]
  ELSE IF ph.capture THEN Serial(ph, "engage")
  ELSE [ph EXCEPT !.phase = "failed"]

(* A request the phone waits for, and its next state when the request is   *)
(* fulfilled, refused, finds no pairing, or fails on the way.              *)
PhoneAsks(q, fulfilled, refused, gone, failed) ==
  \/ /\ Serve(Post(q, FALSE))
     /\ phone' = IF Fulfilled(q) THEN fulfilled ELSE IF Gone THEN gone ELSE refused
     /\ NoTrouble
     /\ UNCHANGED posts
  \/ /\ Trouble
     /\ phone' = failed
     /\ Posting(Post(q, FALSE))
     /\ UNCHANGED server

Offering(ph, fresh) ==
  LET peered == IF fresh \/ ph.peer = None
                THEN [Unpeered(ph) EXCEPT !.peer = ph.drawn + 1, !.drawn = @ + 1]
                ELSE ph
  IN [peered EXCEPT !.generation = @ + 1, !.applied = FALSE,
                    !.phase = IF @ = "reconnecting" THEN @ ELSE "connecting"]

(* negotiate(), up to the offer.  It looks neither at wantsMedia nor at the*)
(* relay.                                                                  *)
Negotiating(ph, fresh) ==
  IF ph.mic # "live" \/ ~ph.token THEN ph
  ELSE LET n == Offering(ph, fresh) IN
       [n EXCEPT !.awaiting = Ask("offer", Phone, n.generation, n.peer)]

(* engageRelay(), up to the announcement.                                  *)
EngagingRelay(ph) ==
  IF ph.relay \/ ~ph.wants \/ ~ph.token \/ ph.conn = "connected" THEN ph
  ELSE IF ~ph.capture THEN [ph EXCEPT !.phase = "failed"]
  ELSE [Unpeered(ph) EXCEPT
          !.relay = TRUE, !.misses = 0, !.phase = "connecting", !.attempts = 0,
          !.restart = NoTimer, !.deadline = FALSE, !.awaiting = Plain("relay", Phone)]

(* announceRelay() that nobody waits for.                                  *)
AnnounceRelay(ph) ==
  PhoneAsks(Plain("relay", Phone), ph, ph, PhoneFinished(ph), ph)

(* All that is ever made of a status of the phone is whether it reads      *)
(* "closed".                                                               *)
PhoneStatus(closing) == Post(Plain("heartbeat", Phone), closing)

----------------------------------------------------------------------------
(* The console *)

NewConsole ==
  [phase |-> "waiting", paired |-> TRUE, view |-> None, peer |-> None, conn |-> "new",
   generation |-> 0, answered |-> 0, pending |-> None, source |-> "none",
   relaying |-> FALSE, read |-> None, misses |-> 0, recent |-> FALSE, grace |-> FALSE]

(* closePeer(), which releases the track, of the peer or of the relay.     *)
ConsoleUnpeered(co) ==
  [co EXCEPT !.peer = None, !.conn = "new", !.pending = None, !.grace = FALSE,
             !.source = "none"]

RelayStopped(co) ==
  [co EXCEPT !.relaying = FALSE, !.source = IF @ = "relay" THEN "none" ELSE @]

ConsoleFinished(co) ==
  [RelayStopped(ConsoleUnpeered(co)) EXCEPT
     !.phase = "ended", !.paired = FALSE, !.view = None, !.read = None,
     !.generation = 0, !.answered = 0]

ConsoleAsks(q, fulfilled, gone, failed) ==
  \/ /\ Serve(Post(q, FALSE))
     /\ console' = IF Fulfilled(q) THEN fulfilled ELSE IF Gone THEN gone ELSE console
     /\ NoTrouble
     /\ UNCHANGED posts
  \/ /\ Trouble
     /\ console' = failed
     /\ Posting(Post(q, FALSE))
     /\ UNCHANGED server

(* A status of the console matters only when it reads "connected".         *)
Connected == Post(Plain("connected", Console), FALSE)

----------------------------------------------------------------------------
(* What the person with the phone does *)

(* start(): the browser is asked for the microphone unless it is on.       *)
Tap ==
  /\ phone.phase \notin {"ended", "starting"}
  /\ phone.mic = "off"
  /\ IF phone.phase = "idle" THEN NoTrouble ELSE Trouble
  /\ phone' = [phone EXCEPT !.mic = "asking", !.phase = "starting", !.capture = RelayCapable]
  /\ UNCHANGED <<server, posts, console, path>>

Denied ==
  /\ phone.mic = "asking"
  /\ Trouble
  /\ phone' = [phone EXCEPT !.mic = "off", !.phase = "failed"]
  /\ UNCHANGED <<server, posts, console, path>>

(* The microphone is there.  The pairing is claimed once.                  *)
Granted ==
  /\ phone.mic = "asking"
  /\ LET on == [phone EXCEPT !.mic = "live", !.wants = TRUE]
         failed == [on EXCEPT !.mic = "off", !.phase = "failed"]
     IN IF phone.token
        THEN phone' = Started(on) /\ NoTrouble /\ UNCHANGED <<server, posts>>
        ELSE PhoneAsks(Plain("claim", Phone),
                       Started([on EXCEPT !.token = TRUE]), failed, failed, failed)
  /\ UNCHANGED <<console, path>>

(* The data channel carries a last word unless the connection is down.     *)
ChannelOpen == phone.conn = "connected" /\ console.peer = phone.peer

ConsoleMayHearStop ==
  \/ UNCHANGED console
  \/ ChannelOpen /\ console' = [ConsoleUnpeered(console) EXCEPT !.phase = "paused"]

(* By the person, or because the system has taken the microphone away.     *)
Stop ==
  /\ phone.mic = "live"
  /\ Trouble
  /\ phone' = PhoneStopped(phone)
  /\ ConsoleMayHearStop
  /\ IF phone.token THEN Posting(PhoneStatus(TRUE)) ELSE UNCHANGED posts
  /\ UNCHANGED <<server, path>>

Reconnect ==
  /\ phone.mic = "live"
  /\ phone.phase \in {"failed", "reconnecting"}
  /\ Trouble
  /\ phone' = Started(LeaveRelay([phone EXCEPT !.attempts = 0, !.wants = TRUE]))
  /\ UNCHANGED <<server, posts, console, path>>

(* leave(): stop, tell the server, finish whatever it says.                *)
Leave ==
  /\ phone.token
  /\ phone.phase \in {"connected", "stopped", "awaiting-approval"}
  /\ LET left == PhoneFinished(PhoneStopped(phone)) IN
     PhoneAsks(Plain("end", Phone), left, left, left, left)
  /\ ConsoleMayHearStop
  /\ UNCHANGED path

(* The page is loaded again, with the credential it has stored.            *)
Reload ==
  /\ phone.phase \notin {"idle", "ended"}
  /\ Trouble
  /\ phone' = NewPhone(phone.token, phone.drawn)
  /\ IF phone.awaiting = None THEN UNCHANGED posts
     ELSE Posting(Post(phone.awaiting, FALSE))
  /\ UNCHANGED <<server, console, path>>

----------------------------------------------------------------------------
(* The phone's poll, connection and timers *)

PhonePollsWhileOn ==   \* mutant of PhonePolls
  /\ phone.polling /\ phone.wants /\ phone.phase # "ended" /\ phone.view = None
  /\ PhoneView.state \in {"approved", "gone"}
  /\ phone' = [phone EXCEPT !.view = PhoneView]
  /\ NoTrouble
  /\ UNCHANGED <<server, posts, console, path>>

PhonePolls ==
  /\ phone.polling /\ phone.phase # "ended" /\ phone.view = None
  /\ PhoneView.state \in {"approved", "gone"}
  /\ phone' = [phone EXCEPT !.view = PhoneView]
  /\ NoTrouble
  /\ UNCHANGED <<server, posts, console, path>>

AnswerFor(ph, view) ==
  /\ ph.peer # None /\ ~ph.applied
  /\ view.answer # None
  /\ view.answer.generation = ph.generation
  /\ view.answer.peer = ph.peer

(* A piece of work is about to begin.                                      *)
GoingOn == phone.awaiting = None /\ phone.queue # <<>>

(* A view that comes while the phone is busy waits for its turn; that the  *)
(* record is no longer there (404, 410) is acted on at once.               *)
PhoneHears ==
  /\ phone.view # None /\ phone.awaiting # None
  /\ \A i \in DOMAIN phone.queue : phone.queue[i] # "view"
  /\ \/ phone' = Serial(phone, "view")
     \/ phone.view.state = "gone" /\ phone' = PhoneFinished([phone EXCEPT !.view = None])
  /\ NoTrouble
  /\ UNCHANGED <<server, posts, console, path>>

PhoneHandles ==
  /\ phone.view # None
  /\ phone.awaiting = None
  /\ GoingOn => Head(phone.queue) = "view"
  /\ LET view == phone.view
         ph == [phone EXCEPT !.view = None, !.queue = IF GoingOn THEN Tail(@) ELSE @]
         now == [ph EXCEPT !.generation = IF view.generation > @ THEN view.generation ELSE @]
         armed == [now EXCEPT !.deadline = now.deadline \/ now.capture]
         idle == NoTrouble /\ UNCHANGED <<server, posts>>
     IN CASE view.state = "gone" -> phone' = PhoneFinished(ph) /\ idle
          [] view.state = "approved" /\ now.relay ->
               IF view.relay THEN phone' = Capturing(now) /\ idle
               ELSE AnnounceRelay(Capturing(now))
          [] view.state = "approved" /\ ~now.relay
             /\ now.wants /\ now.mic = "live" /\ now.peer = None ->
               /\ phone' = IF RelayForced THEN EngagingRelay(now) ELSE Negotiating(armed, TRUE)
               /\ idle
          [] OTHER ->
               /\ phone' = [now EXCEPT !.applied = @ \/ AnswerFor(now, view)]
               /\ idle
  /\ UNCHANGED <<console, path>>

(* The next piece of work begins.                                          *)
PhoneWorks ==
  /\ GoingOn /\ Head(phone.queue) # "view"
  /\ LET ph == [phone EXCEPT !.queue = Tail(@)]
         work == Head(phone.queue)
     IN phone' = IF work = "engage" THEN EngagingRelay(ph)
                 ELSE Negotiating(ph, work = "fresh")
  /\ NoTrouble
  /\ UNCHANGED <<server, posts, console, path>>

(* The work that has begun goes on.  An offer that is refused is stale:    *)
(* somebody else is ahead.                                                 *)
RequestEnds ==
  /\ phone.awaiting # None
  /\ LET q == phone.awaiting
         ph == [phone EXCEPT !.awaiting = None]
         stale == [Unpeered(ph) EXCEPT !.generation = @ + 1]
         heard == IF ph.relay THEN Capturing(ph) ELSE ph
     IN IF q.action = "offer"
        THEN PhoneAsks(q, ph, stale, PhoneFinished(ph), ScheduleRecovery(ph))
        ELSE PhoneAsks(q, heard, heard, PhoneFinished(ph), heard)
  /\ UNCHANGED <<console, path>>

(* Both ends have completed the same exchange.                             *)
Joined ==
  /\ phone.peer # None /\ phone.applied
  /\ console.peer = phone.peer /\ console.generation = phone.generation

(* What breaks a connection for good: no path, or the other end closed.    *)
Broken == ~path \/ console.peer # phone.peer

PhoneUp ==
  /\ Joined /\ path /\ phone.conn # "connected"
  /\ phone' = [phone EXCEPT !.conn = "connected", !.phase = "connected", !.attempts = 0,
                            !.restart = NoTimer, !.deadline = FALSE]
  /\ Posting(PhoneStatus(FALSE))
  /\ NoTrouble
  /\ UNCHANGED <<server, console, path>>

PhoneDown ==
  /\ phone.peer # None
  /\ phone.conn = "connected" \/ (phone.applied /\ phone.conn = "new")
  /\ IF Broken THEN NoTrouble ELSE Trouble
  /\ LET down == [phone EXCEPT !.conn = "down"] IN
     IF phone.wants
     THEN /\ phone' = ScheduleRecovery([down EXCEPT !.phase = "reconnecting"])
          /\ Posting(PhoneStatus(FALSE))
     ELSE phone' = down /\ UNCHANGED posts
  /\ UNCHANGED <<server, console, path>>

(* The first timer of an attempt has a negotiation queued and leaves a     *)
(* second one to see whether it has helped.                                *)
RestartFires ==
  /\ phone.restart # NoTimer
  /\ LET off == [phone EXCEPT !.restart = NoTimer]
         nth == phone.restart.nth
         again == [off EXCEPT !.attempts = nth + 1, !.phase = "reconnecting",
                              !.restart = [at |-> "check", nth |-> 0]]
     IN phone' = IF phone.conn = "connected" THEN off
                 ELSE IF phone.restart.at = "check" THEN ScheduleRecovery(off)
                 ELSE IF ~phone.wants THEN off
                 ELSE Serial(again, IF nth >= MaxRestarts THEN "fresh" ELSE "restart")
  /\ NoTrouble
  /\ UNCHANGED <<server, posts, console, path>>

DeadlineFires ==
  /\ phone.deadline
  /\ LET off == [phone EXCEPT !.deadline = FALSE] IN
     phone' = IF phone.wants /\ phone.conn # "connected" THEN Serial(off, "engage") ELSE off
  /\ NoTrouble
  /\ UNCHANGED <<server, posts, console, path>>

(* Frames are posted.  A pairing that is not in relay mode refuses them,   *)
(* and the phone says again that it is.                                    *)
Missed(ph) ==
  LET misses == IF ph.misses < RelayFailures THEN ph.misses + 1 ELSE ph.misses IN
  [ph EXCEPT !.misses = misses,
             !.phase = IF misses = RelayFailures /\ @ = "connected" THEN "reconnecting" ELSE @]

Relayed == record # None /\ record.state = "approved" /\ record.relay

FlushRelay ==
  /\ phone.capturing
  /\ \/ /\ Relayed
        /\ frames' = TRUE
        /\ phone' = [phone EXCEPT !.misses = 0, !.phase = "connected",
                                  !.attempts = IF phone.phase = "connected" THEN @ ELSE 0]
        /\ IF phone.phase = "connected" THEN UNCHANGED posts
           ELSE Posting(PhoneStatus(FALSE))
        /\ NoTrouble
        /\ UNCHANGED <<record, closed>>
     \/ /\ record # None /\ ~Relayed
        /\ AnnounceRelay(Missed(phone))
     \/ /\ record = None
        /\ phone' = PhoneFinished(phone)
        /\ NoTrouble
        /\ UNCHANGED <<server, posts>>
     \/ /\ Trouble
        /\ frames' \in {frames, frames \/ Relayed}
        /\ phone' = Missed(phone)
        /\ UNCHANGED <<record, closed, posts>>
  /\ UNCHANGED <<console, path>>

PhoneBeats ==
  /\ phone.polling /\ phone.phase # "ended"
  /\ Serve(PhoneStatus(phone.relay /\ ~phone.wants))
  /\ NoTrouble
  /\ UNCHANGED <<posts, phone, console, path>>

----------------------------------------------------------------------------
(* What the operator does *)

Approve ==
  /\ console.phase = "awaiting-approval"
  /\ ConsoleAsks(Plain("approve", Console), [console EXCEPT !.phase = "connecting"],
                 ConsoleFinished(console), console)
  /\ UNCHANGED <<phone, path>>

Reject ==
  /\ console.phase = "awaiting-approval"
  /\ LET over == ConsoleFinished(console) IN
     ConsoleAsks(Plain("reject", Console), over, over, over)
  /\ UNCHANGED <<phone, path>>

(* The phone may hear of the end on the data channel first.                *)
End ==
  /\ console.paired
  /\ LET over == ConsoleFinished(console) IN
     /\ console' = over
     /\ \/ Serve(Post(Plain("end", Console), FALSE)) /\ NoTrouble /\ UNCHANGED posts
        \/ Trouble /\ Posting(Post(Plain("end", Console), FALSE)) /\ UNCHANGED server
  /\ \/ UNCHANGED phone
     \/ ChannelOpen /\ phone' = PhoneFinished(PhoneStopped(phone))
  /\ UNCHANGED path

----------------------------------------------------------------------------
(* The console's poll, connection and timers *)

ConsolePolls ==
  /\ console.paired /\ console.view = None
  /\ ConsoleView.state \in {"claimed", "approved", "gone"}
  /\ console' = [console EXCEPT !.view = ConsoleView]
  /\ NoTrouble
  /\ UNCHANGED <<server, posts, phone, path>>

(* The phone sends through the relay.  When its last word was "closed" and *)
(* no audio has come for a while, it has stopped.                          *)
RelayView(co, view) ==
  LET alone == IF co.peer = None THEN co ELSE ConsoleUnpeered(co)
      silent == IF alone.source = "relay"
                THEN [alone EXCEPT !.source = "none"] ELSE alone
      paused == [silent EXCEPT
                   !.phase = IF @ \in {"paused", "connecting"} THEN @ ELSE "paused"]
      heard == IF view.closed /\ ~co.recent THEN paused ELSE alone
  IN [heard EXCEPT !.relaying = TRUE, !.misses = IF heard.relaying THEN @ ELSE 0]

(* A different peer means that the phone has started afresh: the old one   *)
(* is closed before the new one is opened.                                 *)
Answering(co, offer) ==
  LET peered == IF co.peer = offer.peer THEN co
                ELSE [ConsoleUnpeered(co) EXCEPT !.peer = offer.peer, !.phase = "connecting"]
  IN [peered EXCEPT !.generation = offer.generation, !.answered = offer.generation]

HandleOffer(co, offer) ==
  LET a == Answering(co, offer) IN
  \/ /\ console' = [a EXCEPT !.pending = offer, !.source = "peer",
                             !.phase = IF @ = "connected" THEN @ ELSE "connecting"]
     /\ NoTrouble
  \/ /\ Trouble          \* the browser rejects the description
     /\ console' = a

ConsoleHandles ==
  /\ console.view # None
  /\ LET view == console.view
         co == [console EXCEPT !.view = None]
         seen == [co EXCEPT !.phase =
                    IF view.state = "claimed" /\ @ = "waiting" THEN "awaiting-approval"
                    ELSE IF view.state = "approved" /\ @ = "awaiting-approval" THEN "connecting"
                    ELSE @]
         direct == IF seen.relaying THEN [RelayStopped(seen) EXCEPT !.phase = "connecting"]
                   ELSE seen
     IN CASE view.state = "gone" -> console' = ConsoleFinished(co) /\ NoTrouble
          [] view.state = "claimed" -> console' = seen /\ NoTrouble
          [] view.state = "approved" /\ view.relay ->
               console' = RelayView(seen, view) /\ NoTrouble
          [] OTHER ->
               IF view.offer # None /\ view.offer.generation > co.answered
               THEN HandleOffer(direct, view.offer)
               ELSE console' = direct /\ NoTrouble
  /\ UNCHANGED <<server, posts, phone, path>>

(* The answer is posted, and again until the server has an opinion on it.  *)
DeliverAnswer ==
  /\ console.pending # None
  /\ LET done == [console EXCEPT !.pending = None]
         q == Ask("answer", Console, console.pending.generation, console.pending.peer)
     IN \/ Serve(Post(q, FALSE)) /\ console' = done /\ NoTrouble /\ UNCHANGED posts
        \/ Trouble /\ Posting(Post(q, FALSE)) /\ UNCHANGED <<server, console>>
  /\ UNCHANGED <<phone, path>>

ConsoleUp ==
  /\ Joined /\ path /\ console.conn # "connected"
  /\ console' = [console EXCEPT !.conn = "connected", !.phase = "connected", !.grace = FALSE]
  /\ Posting(Connected)
  /\ NoTrouble
  /\ UNCHANGED <<server, phone, path>>

ConsoleDown ==
  /\ console.peer # None /\ console.conn # "down"
  /\ IF Broken THEN NoTrouble ELSE Trouble
  /\ console' = [console EXCEPT !.conn = "down", !.grace = TRUE,
                                !.phase = IF @ = "paused" THEN @ ELSE "interrupted"]
  /\ UNCHANGED <<server, posts, phone, path>>

GraceExpires ==
  /\ console.grace
  /\ console' = [console EXCEPT !.grace = FALSE,
                                !.phase = IF @ = "interrupted" THEN "failed" ELSE @]
  /\ NoTrouble
  /\ UNCHANGED <<server, posts, phone, path>>

ConsoleBeats ==
  /\ console.paired
  /\ IF console.relaying THEN console.source = "relay" ELSE console.conn = "connected"
  /\ Serve(Connected)
  /\ NoTrouble
  /\ UNCHANGED <<posts, phone, console, path>>

(* A read of the relay takes the frames at one instant; its reply arrives  *)
(* later, or is lost.  A read that is refused, or that brings nothing while*)
(* nothing was missed, changes nothing and is left out.                    *)
ReadRelay ==
  /\ console.relaying /\ console.read = None
  /\ \/ /\ record = None \/ (Relayed /\ (frames \/ console.misses > 0))
        /\ console' = [console EXCEPT !.read =
             IF record = None THEN "gone" ELSE IF frames THEN "frames" ELSE "nothing"]
        /\ frames' = FALSE
        /\ NoTrouble
     \/ /\ Trouble
        /\ console' = [console EXCEPT !.read = "lost"]
        /\ UNCHANGED frames
  /\ UNCHANGED <<record, closed, posts, phone, path>>

(* The reader had reported an interruption, and is heard again.            *)
Resumed(co) ==
  IF co.misses = RelayFailures /\ co.phase = "interrupted"
  THEN [co EXCEPT !.misses = 0, !.grace = FALSE,
                  !.phase = IF co.source = "relay" THEN "connected" ELSE "connecting"]
  ELSE [co EXCEPT !.misses = 0]

Heard(co) ==
  [co EXCEPT !.source = "relay", !.recent = TRUE,
             !.phase = IF @ = "interrupted" THEN @ ELSE "connected"]

ReadMissed(co) ==
  LET misses == IF co.misses < RelayFailures THEN co.misses + 1 ELSE co.misses
      lost == co.misses < RelayFailures /\ misses = RelayFailures /\ co.phase = "connected"
  IN [co EXCEPT !.misses = misses, !.grace = @ \/ lost,
                !.phase = IF lost THEN "interrupted" ELSE @]

RelayAnswersLate ==   \* mutant of RelayAnswers
  /\ console.read # None
  /\ LET co == [console EXCEPT !.read = None] IN
     console' = CASE console.read = "gone" -> ConsoleFinished(co)
                  [] console.read = "lost" -> ReadMissed(co)
                  [] console.read = "nothing" -> Resumed(co)
                  [] console.read = "frames" -> Heard(Resumed(co))
  /\ UNCHANGED posts
  /\ NoTrouble
  /\ UNCHANGED <<server, phone, path>>

RelayAnswers ==
  /\ console.read # None
  /\ LET co == [console EXCEPT !.read = None] IN
     console' = CASE console.read = "gone" -> ConsoleFinished(co)
                  [] console.read = "lost" -> ReadMissed(co)
                  [] console.read = "nothing" -> IF co.relaying THEN Resumed(co) ELSE co
                  [] console.read = "frames" ->
                       IF co.relaying THEN Heard(Resumed(co)) ELSE co
  /\ IF console.read = "frames" /\ console.relaying /\ console'.phase # console.phase
     THEN Posting(Connected) ELSE UNCHANGED posts
  /\ NoTrouble
  /\ UNCHANGED <<server, phone, path>>

(* RELAY_PAUSE_QUIET_MS has passed since the last frame.                   *)
Quietens ==
  /\ console.recent
  /\ console' = [console EXCEPT !.recent = FALSE]
  /\ NoTrouble
  /\ UNCHANGED <<server, posts, phone, path>>

----------------------------------------------------------------------------
(* The network and the store *)

Arrives(post) ==
  /\ post \in posts
  /\ Serve(post)
  /\ posts' = posts \ {post}
  /\ NoTrouble
  /\ UNCHANGED <<phone, console, path>>

PathChanges ==
  /\ Trouble
  /\ path' = ~path
  /\ UNCHANGED <<server, posts, phone, console>>

(* The pairing's time runs out.                                            *)
Expires ==
  /\ record # None
  /\ Trouble
  /\ record' = None /\ frames' = FALSE
  /\ UNCHANGED <<closed, posts, phone, console, path>>

Init ==
  /\ record = NewPairing
  /\ closed = FALSE /\ frames = FALSE
  /\ posts = {}
  /\ phone = NewPhone(FALSE, 0)
  /\ console = NewConsole
  /\ path \in BOOLEAN
  /\ trouble = 0

Person == Tap \/ Denied \/ Granted \/ Stop \/ Reconnect \/ Leave \/ Reload

PhoneRuns ==
  \/ PhonePolls \/ PhoneHears \/ PhoneHandles \/ RequestEnds
  \/ PhoneUp \/ PhoneDown \/ PhoneBeats
  \/ RestartFires \/ DeadlineFires \/ FlushRelay

Operator == Approve \/ Reject \/ End

ConsoleRuns ==
  \/ ConsolePolls \/ ConsoleHandles \/ DeliverAnswer
  \/ ConsoleUp \/ ConsoleDown \/ GraceExpires \/ ConsoleBeats
  \/ ReadRelay \/ RelayAnswers \/ Quietens

World == PathChanges \/ Expires \/ \E post \in posts : Arrives(post)

(* JavaScript goes on with the phone's work before it turns to anything    *)
(* else.                                                                   *)
Next ==
  \/ GoingOn /\ (PhoneWorks \/ PhoneHandles)
  \/ ~GoingOn /\ (Person \/ PhoneRuns \/ Operator \/ ConsoleRuns \/ World)

Spec == Init /\ [][Next]_vars

(* Polls, timers and the browser's connection events take place; a path    *)
(* that exists is found unless a timer is faster.  Nothing is asked of the *)
(* people, nor of the request the phone's work waits for.                  *)
FairSpec ==
  /\ Spec
  /\ WF_vars(PhonePolls) /\ WF_vars(PhoneHears \/ PhoneHandles) /\ WF_vars(PhoneBeats)
  /\ WF_vars(PhoneWorks)
  /\ WF_vars(PhoneUp) /\ WF_vars(Broken /\ PhoneDown)
  /\ WF_vars(RestartFires) /\ WF_vars(DeadlineFires) /\ WF_vars(FlushRelay)
  /\ WF_vars(ConsolePolls) /\ WF_vars(ConsoleHandles) /\ WF_vars(DeliverAnswer)
  /\ WF_vars(ReadRelay) /\ WF_vars(RelayAnswers) /\ WF_vars(Quietens)

----------------------------------------------------------------------------
(* Properties *)

(* Each end has the source of audio of the transport it is on: the phone   *)
(* captures for the relay only while it is on the relay, the console plays *)
(* a peer's sound only while it has a peer and the relay's only while it   *)
(* has none; a reply of the relay that comes after the console went back to*)
(* a direct connection does not bring the relay's sound back.              *)
SourceFollowsTransport ==
  /\ phone.capturing => phone.relay
  /\ console.source = "relay" => console.relaying /\ console.peer = None
  /\ console.source = "peer" => console.peer # None

(* A phone that was stopped sends nothing, whatever timers and negotiations*)
(* were under way.                                                         *)
StoppedPhoneIsSilent ==
  ~phone.wants => phone.mic # "live" /\ phone.peer = None /\ ~phone.capturing

(* A request of the phone's work is answered, or given up by the browser,  *)
(* in the end.  The code sets it no deadline.                              *)
Answered == []<>(phone.awaiting = None)

(* sender.ts says of the change to the relay: "No direct path: send audio  *)
(* through the ASAD server instead."                                       *)
RelayInsteadOfPeer == phone.relay => phone.peer = None

(* The phone comes to rest: connected by one transport or the other, or    *)
(* off, never connecting for ever, unless a restart that was queued behind *)
(* the change to the relay has opened a peer there.                        *)
Rests ==
  \/ phone.phase \in {"idle", "starting", "stopped", "ended", "connected"}
  \/ phone.phase = "failed" /\ phone.mic = "off"
  \/ phone.phase = "awaiting-approval"
     /\ ~(record # None /\ record.state = "approved")

PhoneComesToRest == Answered /\ []RelayInsteadOfPeer => <>[]Rests

(* The end of a pairing, by whichever end or by time, reaches both.        *)
EndReachesBoth ==
  Answered => (Gone ~> ~console.paired /\ (phone.phase = "ended" \/ ~phone.polling))

============================================================================
