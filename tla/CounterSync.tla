---------------------------- MODULE CounterSync ----------------------------
(***************************************************************************)
(* A counter conversation: the room records of src/src/counter/store.ts    *)
(* behind the routes of src/src/app/api/counter/, and the client hook of   *)
(* src/src/features/counter/useCounterSession.ts on each device.           *)
(*                                                                         *)
(* Two people at a desk share a room.  Each device polls the room's log    *)
(* with a cursor and posts its own turns one at a time, with retries that  *)
(* carry the same request id.  The desk's device stays and moves from room *)
(* to room ("next visitor"); every visitor brings a device of their own.   *)
(*                                                                         *)
(* Requests are numbered in the order they are made.  A room's log keeps   *)
(* its entries after the room is deleted, as history: nobody reads them    *)
(* there.  The bound of 500 messages per room is not reached.              *)
(***************************************************************************)
EXTENDS Naturals, Sequences, FiniteSets, SequencesExt, FiniteSetsExt

CONSTANTS
  MaxRooms,     \* bound: rooms the desk opens
  Senders,      \* bound: the devices that send (the others only listen)
  MaxRequests,  \* bound: turns sent
  MaxAttempts,  \* SEND_RETRY_DELAYS_MS.length
  MaxPosts      \* bound: posts under way when a device makes another attempt

ASSUME CounterAssumption ==
  /\ MaxRooms \in Nat
  /\ Senders \subseteq 0..MaxRooms
  /\ MaxRequests \in Nat
  /\ MaxAttempts \in Nat \ {0}
  /\ MaxPosts \in Nat

Room    == 1..MaxRooms
Request == 1..MaxRequests
Desk    == 0
Guests  == Room            \* the visitor of each room
Device  == {Desk} \cup Guests

VARIABLES
  rooms,    \* the rooms in the store
  joined,   \* the rooms whose visitor has chosen a language
  log,      \* the messages of each room; a message's seq is its position
  code,     \* the room of each device, or 0
  cursor,   \* cursor.current
  stopped,  \* stopped.current
  ended,    \* endedBy
  shown,    \* the server's messages on screen, with the room they are from
  local,    \* the device's own requests shown as local copies
  outbox,   \* sendQueue: requests not yet settled, the one being sent first
  attempt,  \* attempts made for the first of them
  waiting,  \* whether an attempt awaits its answer
  closing,  \* how far the device's own End has come
  polls,    \* polls in flight
  posts,    \* posts in flight, those nobody waits for any more included
  opened,   \* history: rooms opened so far
  sent,     \* history: requests made so far
  acked     \* history: requests whose post was answered with their message

server == <<rooms, joined, log>>
screen == <<cursor, shown, local>>
sender == <<outbox, attempt, waiting>>
life   == <<code, stopped, ended, closing>>
vars == <<server, screen, sender, life, polls, posts, opened, sent, acked>>

Init ==
  /\ rooms = {}
  /\ joined = {}
  /\ log = [r \in Room |-> <<>>]
  /\ code = [d \in Device |-> 0]
  /\ cursor = [d \in Device |-> 0]
  /\ stopped = [d \in Device |-> FALSE]
  /\ ended = [d \in Device |-> "no"]
  /\ shown = [d \in Device |-> {}]
  /\ local = [d \in Device |-> {}]
  /\ outbox = [d \in Device |-> <<>>]
  /\ attempt = [d \in Device |-> 0]
  /\ waiting = [d \in Device |-> FALSE]
  /\ closing = [d \in Device |-> "no"]
  /\ polls = {}
  /\ posts = {}
  /\ opened = 0
  /\ sent = 0
  /\ acked = {}

----------------------------------------------------------------------------
(* The store.                                                              *)

Stored(r, d, q) == [from |-> d, req |-> q] \in ToSet(log[r])

(* The seq of a stored request. *)
SeqNo(r, d, q) ==
  CHOOSE i \in DOMAIN log[r] : log[r][i] = [from |-> d, req |-> q]

(* Mutation of ViewSeq: nextSeq itself. *)
ViewNextSeq(r) == Len(log[r]) + 1

(* toView: the cursor a poll is answered with. *)
ViewSeq(r) == Len(log[r])

(* toView: the messages after `since`. *)
Messages(r, since, upto) == {<<r, log[r][i]>> : i \in (since + 1)..upto \cap DOMAIN log[r]}

----------------------------------------------------------------------------
(* What a device does with messages of the server.                         *)

(* merge: a message of the server is shown, once, and replaces the local    *)
(* copy of its request.                                                     *)
Show(d, ms) == shown' = [shown EXCEPT ![d] = @ \cup ms]

(* Mutation of LocalAfter: the local copy stays. *)
LocalBeside(d, ms) == local[d]

LocalAfter(d, ms) == local[d] \ {m[2].req : m \in ms}

AdvanceCursor(d, seq) == cursor' = [cursor EXCEPT ![d] = Max({@, seq})]

(* The effect of a code: polling starts anew, and stops with no code. *)
PollFor(d, r) ==
  /\ stopped' = [stopped EXCEPT ![d] = (r = 0)]
  /\ cursor' = IF r = 0 THEN cursor ELSE [cursor EXCEPT ![d] = 0]

(* A new code on the device clears its screen; the send queue stays.        *)
MoveTo(d, r) ==
  /\ code' = [code EXCEPT ![d] = r]
  /\ ended' = [ended EXCEPT ![d] = "no"]
  /\ shown' = [shown EXCEPT ![d] = {}]
  /\ local' = [local EXCEPT ![d] = {}]
  /\ PollFor(d, r)
  /\ closing' = [closing EXCEPT ![d] = "no"]

----------------------------------------------------------------------------
(* Rooms come and go.                                                      *)

(* The desk opens a room. *)
Start ==
  LET r == opened + 1 IN
  /\ opened < MaxRooms
  /\ code[Desk] = 0
  /\ opened' = r
  /\ rooms' = rooms \cup {r}
  /\ MoveTo(Desk, r)
  /\ UNCHANGED <<joined, log, sender, polls, posts, sent, acked>>

(* The visitor of a room chooses a language. *)
Join(r) ==
  /\ r \in rooms
  /\ code[r] = 0
  /\ joined' = joined \cup {r}
  /\ MoveTo(r, r)
  /\ UNCHANGED <<rooms, log, sender, polls, posts, opened, sent, acked>>

(* The record outlives its time in the store. *)
Expire(r) ==
  /\ r \in rooms
  /\ rooms' = rooms \ {r}
  /\ UNCHANGED <<joined, log, screen, sender, life, polls, posts, opened, sent, acked>>

(* end: nothing is polled or sent from here, and the room is to be deleted. *)
End(d) ==
  /\ code[d] # 0
  /\ closing[d] = "no"
  /\ closing' = [closing EXCEPT ![d] = "deleting"]
  /\ stopped' = [stopped EXCEPT ![d] = TRUE]
  /\ ended' = [ended EXCEPT ![d] = "self"]
  /\ UNCHANGED <<server, screen, sender, code, polls, posts, opened, sent, acked>>

(* The DELETE request is answered, or fails: end() goes on either way.      *)
DeleteSettles(d) ==
  /\ closing[d] = "deleting"
  /\ closing' = [closing EXCEPT ![d] = "done"]
  /\ rooms' \in {rooms, rooms \ {code[d]}}
  /\ UNCHANGED <<joined, log, screen, sender, code, stopped, ended, polls, posts,
                 opened, sent, acked>>

(* next: after end() the desk gives up the code, then asks for a new room.  *)
NextVisitor ==
  /\ closing[Desk] = "done"
  /\ MoveTo(Desk, 0)
  /\ UNCHANGED <<server, sender, polls, posts, opened, sent, acked>>

----------------------------------------------------------------------------
(* Polling.                                                                *)

(* One poll at a time for each code a device has had. *)
StartPoll(d) ==
  /\ code[d] # 0
  /\ ~stopped[d]
  /\ \A p \in polls : p.dev = d => p.room # code[d]
  /\ polls' = polls \cup
       {[dev |-> d, room |-> code[d], since |-> cursor[d], stage |-> "asked", upto |-> 0]}
  /\ UNCHANGED <<server, screen, sender, life, posts, opened, sent, acked>>

(* The GET handler reads the record. *)
PollReads(p) ==
  /\ p \in polls
  /\ p.stage = "asked"
  /\ polls' = (polls \ {p}) \cup
       {IF p.room \in rooms
        THEN [p EXCEPT !.stage = "answered", !.upto = ViewSeq(p.room)]
        ELSE [p EXCEPT !.stage = "gone"]}
  /\ UNCHANGED <<server, screen, sender, life, posts, opened, sent, acked>>

(* A view arrives.  A device that has stopped ignores it. *)
PollAnswered(p) ==
  /\ p \in polls
  /\ p.stage = "answered"
  /\ polls' = polls \ {p}
  /\ IF stopped[p.dev]
     THEN UNCHANGED <<screen, ended>>
     ELSE /\ Show(p.dev, Messages(p.room, p.since, p.upto))
          /\ local' = [local EXCEPT ![p.dev] =
                         LocalAfter(p.dev, Messages(p.room, p.since, p.upto))]
          /\ AdvanceCursor(p.dev, p.upto)
          /\ ended' = [ended EXCEPT ![p.dev] = "no"]
  /\ UNCHANGED <<server, sender, code, stopped, closing, posts, opened, sent, acked>>

(* Mutation of PollGone: a missing room is taken for a dropped poll. *)
PollGoneRetried(p) ==
  /\ p \in polls
  /\ p.stage = "gone"
  /\ polls' = polls \ {p}
  /\ UNCHANGED <<server, screen, sender, life, posts, opened, sent, acked>>

(* 404: the conversation is over, whatever the device knew of it. *)
PollGone(p) ==
  /\ p \in polls
  /\ p.stage = "gone"
  /\ polls' = polls \ {p}
  /\ ended' = [ended EXCEPT ![p.dev] = "remote"]
  /\ stopped' = [stopped EXCEPT ![p.dev] = TRUE]
  /\ UNCHANGED <<server, screen, sender, code, closing, posts, opened, sent, acked>>

(* A dropped poll changes nothing; the next one recovers. *)
PollFails(p) ==
  /\ p \in polls
  /\ polls' = polls \ {p}
  /\ UNCHANGED <<server, screen, sender, life, posts, opened, sent, acked>>

----------------------------------------------------------------------------
(* Sending.                                                                *)

(* One attempt of a request. *)
NewPost(d, first, n) ==
  [dev |-> d, room |-> first.room, req |-> first.req, n |-> n, stage |-> "sent"]

(* send: the request joins the queue, and is posted at once if it is the    *)
(* only one.  A typed or spoken turn is shown in the meantime, a quick      *)
(* phrase or a confirmation is not.                                         *)
Send(d) ==
  LET q     == sent + 1
      entry == [req |-> q, room |-> code[d]]
  IN  /\ code[d] # 0
      /\ ~stopped[d]
      /\ sent < MaxRequests
      /\ sent' = q
      /\ outbox' = [outbox EXCEPT ![d] = Append(@, entry)]
      /\ \/ local' = [local EXCEPT ![d] = @ \cup {q}]
         \/ UNCHANGED local
      /\ IF outbox[d] = <<>>
         THEN /\ attempt' = [attempt EXCEPT ![d] = 1]
              /\ waiting' = [waiting EXCEPT ![d] = TRUE]
              /\ posts' = posts \cup {NewPost(d, entry, 1)}
         ELSE UNCHANGED <<attempt, waiting, posts>>
      /\ UNCHANGED <<server, cursor, shown, life, polls, opened, acked>>

(* A failed turn is taken off the screen; sending it again is a new request.*)
Discard(d, q) ==
  /\ q \in local[d]
  /\ \A i \in DOMAIN outbox[d] : outbox[d][i].req # q
  /\ local' = [local EXCEPT ![d] = @ \ {q}]
  /\ UNCHANGED <<server, cursor, shown, sender, life, polls, posts, opened, sent, acked>>

(* The first request is settled, which leaves `mine` as local copies and    *)
(* `open` as posts: the next one is posted at once, or every one dropped if *)
(* the device has stopped.                                                  *)
Settle(d, mine, open) ==
  LET rest == Tail(outbox[d]) IN
  IF rest = <<>> \/ stopped[d]
  THEN /\ outbox' = [outbox EXCEPT ![d] = <<>>]
       /\ attempt' = [attempt EXCEPT ![d] = 0]
       /\ waiting' = [waiting EXCEPT ![d] = FALSE]
       /\ local' = [local EXCEPT ![d] = mine \ {rest[i].req : i \in DOMAIN rest}]
       /\ posts' = open
  ELSE /\ outbox' = [outbox EXCEPT ![d] = rest]
       /\ attempt' = [attempt EXCEPT ![d] = 1]
       /\ waiting' = [waiting EXCEPT ![d] = TRUE]
       /\ local' = [local EXCEPT ![d] = mine]
       /\ posts' = open \cup {NewPost(d, Head(rest), 1)}

(* Mutation of CountAttempt: the attempts are not counted. *)
CountNothing(d) == attempt' = attempt

CountAttempt(d) == attempt' = [attempt EXCEPT ![d] = @ + 1]

(* After its delay, a request is tried again unless the device has stopped. *)
Retry(d) ==
  /\ outbox[d] # <<>>
  /\ ~waiting[d]
  /\ IF stopped[d]
     THEN Settle(d, local[d] \ {Head(outbox[d]).req}, posts)
     ELSE /\ Cardinality(posts) <= MaxPosts
          /\ waiting' = [waiting EXCEPT ![d] = TRUE]
          /\ CountAttempt(d)
          /\ posts' = posts \cup {NewPost(d, Head(outbox[d]), attempt[d] + 1)}
          /\ UNCHANGED <<outbox, local>>
  /\ UNCHANGED <<server, cursor, shown, life, polls, opened, sent, acked>>

(* The post whose answer its device waits for. *)
Awaited(p) ==
  /\ waiting[p.dev]
  /\ p.req = Head(outbox[p.dev]).req
  /\ p.n = attempt[p.dev]

(* An answer is given: it travels on if somebody waits for it. *)
Answer(p, stage) ==
  posts' = (posts \ {p}) \cup (IF Awaited(p) THEN {[p EXCEPT !.stage = stage]} ELSE {})

(* The handler's admission: a stored request is answered at once, a room    *)
(* that is gone or still waits for its visitor refuses; else translation    *)
(* begins.                                                                  *)
Admit(p) ==
  /\ p \in posts
  /\ p.stage = "sent"
  /\ CASE p.room \notin rooms \cap joined ->
            Answer(p, "refused")
       [] p.room \in rooms \cap joined /\ Stored(p.room, p.dev, p.req) ->
            Answer(p, "stored")
       [] OTHER ->
            posts' = (posts \ {p}) \cup {[p EXCEPT !.stage = "translating"]}
  /\ UNCHANGED <<server, screen, sender, life, polls, opened, sent, acked>>

(* Mutation of AlreadyStored: admission has looked already. *)
AssumeNew(p) == FALSE

(* persistOnce looks again: another attempt of the request may have been    *)
(* stored meanwhile.                                                        *)
AlreadyStored(p) == Stored(p.room, p.dev, p.req)

Persist(p) ==
  /\ p \in posts
  /\ p.stage = "translating"
  /\ IF p.room \notin rooms
     THEN /\ Answer(p, "refused")
          /\ UNCHANGED log
     ELSE /\ Answer(p, "stored")
          /\ log' = IF AlreadyStored(p) THEN log
                    ELSE [log EXCEPT ![p.room] = Append(@, [from |-> p.dev, req |-> p.req])]
  /\ UNCHANGED <<rooms, joined, screen, sender, life, polls, opened, sent, acked>>

(* The message comes back: it is shown, and the cursor moves to it. *)
PostAnswered(p) ==
  LET seq     == SeqNo(p.room, p.dev, p.req)
      message == <<p.room, log[p.room][seq]>>
  IN  /\ p \in posts
      /\ Awaited(p)
      /\ p.stage = "stored"
      /\ Show(p.dev, {message})
      /\ AdvanceCursor(p.dev, seq)
      /\ Settle(p.dev, LocalAfter(p.dev, {message}), posts \ {p})
      /\ acked' = acked \cup {[room |-> p.room, dev |-> p.dev, req |-> p.req]}
      /\ UNCHANGED <<server, life, polls, opened, sent>>

(* A refusal is final: the local copy stays, marked as failed. *)
PostRefused(p) ==
  /\ p \in posts
  /\ Awaited(p)
  /\ p.stage = "refused"
  /\ Settle(p.dev, local[p.dev], posts \ {p})
  /\ UNCHANGED <<server, cursor, shown, life, polls, opened, sent, acked>>

(* Mutation of GoOn: a turn that fails makes room for the next one first.   *)
GoOnWithNext(d, open) ==
  LET turned == Append(Tail(outbox[d]), Head(outbox[d])) IN
  /\ outbox' = [outbox EXCEPT ![d] = turned]
  /\ attempt' = [attempt EXCEPT ![d] = 1]
  /\ posts' = open \cup {NewPost(d, Head(turned), 1)}
  /\ UNCHANGED <<waiting, local>>

(* The same request again later, or none any more. *)
GoOn(d, open) ==
  IF attempt[d] = MaxAttempts
  THEN Settle(d, local[d], open)
  ELSE /\ waiting' = [waiting EXCEPT ![d] = FALSE]
       /\ posts' = open
       /\ UNCHANGED <<outbox, attempt, local>>

(* The attempt times out or the network drops it: the device gives it up.   *)
(* Or the handler has failed.  What was on its way to the server may still  *)
(* arrive there, and the handler may be at work on it.                      *)
AttemptFails(d) ==
  LET mine == {p \in posts : p.dev = d /\ Awaited(p)} IN
  /\ waiting[d]
  /\ \E alive \in {{}, {"translating"}, {"sent", "translating"}} :
       GoOn(d, {p \in posts : p \in mine => p.stage \in alive})
  /\ UNCHANGED <<server, cursor, shown, life, polls, opened, sent, acked>>

----------------------------------------------------------------------------

Next ==
  \/ Start
  \/ NextVisitor
  \/ \E r \in Room : Join(r) \/ Expire(r)
  \/ \E d \in Device :
       \/ End(d)
       \/ DeleteSettles(d)
       \/ StartPoll(d)
       \/ d \in Senders /\ Send(d)
       \/ \E q \in Request : Discard(d, q)
       \/ Retry(d)
       \/ AttemptFails(d)
  \/ \E p \in polls : PollReads(p) \/ PollAnswered(p) \/ PollGone(p) \/ PollFails(p)
  \/ \E p \in posts : Admit(p) \/ Persist(p) \/ PostAnswered(p) \/ PostRefused(p)

Spec == Init /\ [][Next]_vars

OwnPolls(d) == {p \in polls : p.dev = d /\ p.room = code[d]}

AttemptEnds(d) ==
  \/ AttemptFails(d)
  \/ \E p \in posts : p.dev = d /\ (PostAnswered(p) \/ PostRefused(p))

(* A handler ends, within the turn's budget, a retry's delay passes, and an *)
(* attempt ends at the latest when SEND_TIMEOUT_MS aborts it.               *)
SendSpec ==
  /\ Spec
  /\ WF_vars(\E p \in posts : Admit(p) \/ Persist(p))
  /\ \A d \in Device : WF_vars(Retry(d)) /\ WF_vars(AttemptEnds(d))

(* The poll timer fires again and again, and of ever more polls some reach  *)
(* the server and some answers the device.                                  *)
FairSpec ==
  /\ SendSpec
  /\ \A d \in Device :
       /\ WF_vars(StartPoll(d))
       /\ SF_vars(\E p \in OwnPolls(d) : PollReads(p))
       /\ SF_vars(\E p \in OwnPolls(d) : PollAnswered(p) \/ PollGone(p))

----------------------------------------------------------------------------
(* Properties.                                                              *)

Entry == [from : Device, req : Request]

Poll == [dev : Device, room : Room, since : Nat,
         stage : {"asked", "answered", "gone"}, upto : Nat]

Post == [dev : Device, room : Room, req : Request, n : 1..MaxAttempts,
         stage : {"sent", "translating", "stored", "refused"}]

TypeOK ==
  /\ rooms \subseteq Room
  /\ joined \subseteq Room
  /\ log \in [Room -> Seq(Entry)]
  /\ code \in [Device -> Room \cup {0}]
  /\ cursor \in [Device -> Nat]
  /\ stopped \in [Device -> BOOLEAN]
  /\ ended \in [Device -> {"no", "self", "remote"}]
  /\ shown \in [Device -> SUBSET (Room \X Entry)]
  /\ local \in [Device -> SUBSET Request]
  /\ outbox \in [Device -> Seq([req : Request, room : Room])]
  /\ attempt \in [Device -> 0..MaxAttempts]
  /\ waiting \in [Device -> BOOLEAN]
  /\ closing \in [Device -> {"no", "deleting", "done"}]
  /\ polls \subseteq Poll
  /\ posts \subseteq Post
  /\ opened \in Room \cup {0}
  /\ sent \in Request \cup {0}
  /\ acked \subseteq [room : Room, dev : Device, req : Request]

(* A dropped post can be retried without the utterance being stored twice,  *)
(* also when the dropped one is still being translated.                     *)
StoredOnce == \A r \in Room : IsInjective(log[r])

(* "Network requests are still executed in order so [...] server sequence   *)
(* numbers remain deterministic": the turns of a device that were answered  *)
(* stand in the log in the order they were made.                            *)
AnsweredInOrder ==
  \A a, b \in acked :
    a.dev = b.dev /\ a.room = b.room /\ a.req < b.req
      => SeqNo(a.room, a.dev, a.req) < SeqNo(b.room, b.dev, b.req)

(* A device that only listens misses nothing: whatever lies below its       *)
(* cursor is on its screen, whatever polls were lost or came late.  (The    *)
(* desk is asked about its first room only: what an old room's polls bring  *)
(* later is merged into the next one's.)                                    *)
Listens(d) ==
  /\ code[d] \in {1, d} \ {0}
  /\ \A i \in DOMAIN log[code[d]] : log[code[d]][i].from # d

ListenerMissesNothing ==
  \A d \in Device :
    Listens(d) => \A i \in 1..cursor[d] :
                    /\ i \in DOMAIN log[code[d]]
                    /\ <<code[d], log[code[d]][i]>> \in shown[d]

(* The sender's own words are on screen once: as the local copy or as the   *)
(* server's, in whatever order poll and post bring that.                    *)
ShownOnce ==
  \A d \in Device, q \in Request :
    q \in local[d] => \A m \in shown[d] : m[2].req # q

(* A conversation that is over on the server ends on every device of it.    *)
EndIsNoticed ==
  \A d \in Device, r \in Room :
    (code[d] = r /\ r \in 1..opened /\ r \notin rooms) ~> (code[d] # r \/ ended[d] # "no")

(* One bad message never jams later ones: every request is settled.         *)
SendsSettle ==
  \A d \in Device, q \in Request :
    (\E i \in DOMAIN outbox[d] : outbox[d][i].req = q)
      ~> (\A i \in DOMAIN outbox[d] : outbox[d][i].req # q)

----------------------------------------------------------------------------
(* What comments of the code say, and the code does not do.                 *)

(* "A dropped poll is normal; the next one recovers": while a conversation  *)
(* goes on, what lies below the cursor has been shown; no later poll will   *)
(* ask for it.                                                              *)
PollsRecover ==
  \A d \in Device :
    code[d] # 0 /\ ~stopped[d]
      => \A i \in DOMAIN log[code[d]] :
           i <= cursor[d] => <<code[d], log[code[d]][i]>> \in shown[d]

============================================================================
