------------------------- MODULE CounterSyncProofs -------------------------
(***************************************************************************)
(* Theorems about CounterSync, for every number of rooms, devices, turns   *)
(* and attempts: types; no request is stored twice; the turns of a device  *)
(* are answered in the order it made them; words are shown once; and a     *)
(* device that has read up to a message has heard all before it.           *)
(***************************************************************************)
EXTENDS CounterSync, SequenceTheorems, TLAPS

USE CounterAssumption

----------------------------------------------------------------------------
(* The inductive invariant.                                                *)

(* A post that is answered with a message is answered with one of the log.  *)
AnswersInv == \A p \in posts : p.stage = "stored" => Stored(p.room, p.dev, p.req)

(* A device that waits has something to wait for, and one that is about to  *)
(* try again has an attempt left.                                           *)
AttemptInv ==
  \A d \in Device :
    /\ waiting[d] => outbox[d] # <<>>
    /\ outbox[d] # <<>> /\ ~waiting[d] => attempt[d] < MaxAttempts

IInv == TypeOK /\ StoredOnce /\ AnswersInv /\ AttemptInv

----------------------------------------------------------------------------
(* Helpers. *)

LEMMA MaxOfTwo ==
  ASSUME NEW a \in Nat, NEW b \in Nat
  PROVE  /\ Max({a, b}) \in Nat
         /\ Max({a, b}) \in {a, b}
         /\ a <= Max({a, b}) /\ b <= Max({a, b})
<1>1. \E x \in {a, b} : \A y \in {a, b} : x >= y
  <2>1. CASE a >= b
    BY <2>1
  <2>2. CASE ~(a >= b)
    BY <2>2
  <2> QED
    BY <2>1, <2>2
<1> QED
  BY <1>1 DEF Max

(* What a log holds is an entry, and a stored request has a seq. *)
LEMMA StoredAt ==
  ASSUME TypeOK, NEW r \in Room, NEW d \in Device, NEW q, Stored(r, d, q)
  PROVE  /\ SeqNo(r, d, q) \in DOMAIN log[r]
         /\ SeqNo(r, d, q) \in Nat
         /\ log[r][SeqNo(r, d, q)] = [from |-> d, req |-> q]
         /\ log[r][SeqNo(r, d, q)] \in Entry
<1>1. log[r] \in Seq(Entry)
  BY DEF TypeOK
<1>2. \E i \in DOMAIN log[r] : log[r][i] = [from |-> d, req |-> q]
  BY DEF Stored, ToSet
<1>3. /\ SeqNo(r, d, q) \in DOMAIN log[r]
      /\ log[r][SeqNo(r, d, q)] = [from |-> d, req |-> q]
  BY <1>2 DEF SeqNo
<1> QED
  BY <1>1, <1>3

LEMMA MessagesType ==
  ASSUME TypeOK, NEW r \in Room, NEW a, NEW b
  PROVE  Messages(r, a, b) \subseteq Room \X Entry
<1>1. log[r] \in Seq(Entry)
  BY DEF TypeOK
<1>2. \A i \in DOMAIN log[r] : log[r][i] \in Entry
  BY <1>1
<1> QED
  BY <1>2 DEF Messages

(* An entry that is not in the log may be appended to it. *)
LEMMA AppendNew ==
  ASSUME NEW s \in Seq(Entry), NEW e \in Entry, e \notin ToSet(s), IsInjective(s)
  PROVE  /\ Append(s, e) \in Seq(Entry)
         /\ IsInjective(Append(s, e))
         /\ ToSet(s) \subseteq ToSet(Append(s, e))
         /\ e \in ToSet(Append(s, e))
<1> DEFINE t == Append(s, e)
<1>1. /\ t \in Seq(Entry)
      /\ Len(t) = Len(s) + 1
      /\ \A i \in 1..Len(s) : t[i] = s[i]
      /\ t[Len(s) + 1] = e
  OBVIOUS
<1>2. DOMAIN t = 1..(Len(s) + 1) /\ DOMAIN s = 1..Len(s) /\ Len(s) \in Nat
  BY <1>1
<1> HIDE DEF t
<1>3. IsInjective(t)
  BY <1>1, <1>2 DEF IsInjective, ToSet
<1>4. ToSet(s) \subseteq ToSet(t) /\ e \in ToSet(t)
  BY <1>1, <1>2 DEF ToSet
<1> QED
  BY <1>1, <1>3, <1>4 DEF t

(* A new post is a post. *)
LEMMA NewPostType ==
  ASSUME NEW d \in Device, NEW first \in [req : Request, room : Room],
         NEW n \in 1..MaxAttempts
  PROVE  /\ NewPost(d, first, n) \in Post
         /\ NewPost(d, first, n).stage = "sent"
BY DEF NewPost, Post

(* Settling a request leaves the sender in order. *)
LEMMA SettleStep ==
  ASSUME TypeOK, AttemptInv, NEW d \in Device, outbox[d] # <<>>,
         NEW mine \in SUBSET Request, NEW open \in SUBSET Post,
         Settle(d, mine, open)
  PROVE  /\ outbox' \in [Device -> Seq([req : Request, room : Room])]
         /\ attempt' \in [Device -> 0..MaxAttempts]
         /\ waiting' \in [Device -> BOOLEAN]
         /\ local' \in [Device -> SUBSET Request]
         /\ posts' \in SUBSET Post
         /\ \A p \in posts' : p \in open \/ p.stage = "sent"
         /\ AttemptInv'
<1> DEFINE rest == Tail(outbox[d])
<1>1. /\ outbox[d] \in Seq([req : Request, room : Room])
      /\ outbox \in [Device -> Seq([req : Request, room : Room])]
      /\ attempt \in [Device -> 0..MaxAttempts]
      /\ waiting \in [Device -> BOOLEAN]
      /\ local \in [Device -> SUBSET Request]
  BY DEF TypeOK
<1>2. rest \in Seq([req : Request, room : Room])
  BY <1>1
<1> HIDE DEF rest
<1>3. rest # <<>> => Head(rest) \in [req : Request, room : Room]
  BY <1>2, HeadTailProperties
<1>4. CASE rest = <<>> \/ stopped[d]
  <2>1. /\ outbox' = [outbox EXCEPT ![d] = <<>>]
        /\ attempt' = [attempt EXCEPT ![d] = 0]
        /\ waiting' = [waiting EXCEPT ![d] = FALSE]
        /\ local' = [local EXCEPT ![d] = mine \ {rest[i].req : i \in DOMAIN rest}]
        /\ posts' = open
    BY <1>4 DEF Settle, rest
  <2>2. AttemptInv'
    BY <1>1, <2>1 DEF AttemptInv
  <2>3. /\ <<>> \in Seq([req : Request, room : Room])
        /\ 0 \in 0..MaxAttempts
    BY EmptySeq DEF CounterAssumption
  <2> QED
    BY <1>1, <2>1, <2>2, <2>3
<1>5. CASE ~(rest = <<>> \/ stopped[d])
  <2>1. /\ outbox' = [outbox EXCEPT ![d] = rest]
        /\ attempt' = [attempt EXCEPT ![d] = 1]
        /\ waiting' = [waiting EXCEPT ![d] = TRUE]
        /\ local' = [local EXCEPT ![d] = mine]
        /\ posts' = open \cup {NewPost(d, Head(rest), 1)}
    BY <1>5 DEF Settle, rest
  <2>2. AttemptInv'
    BY <1>1, <1>5, <2>1 DEF AttemptInv
  <2>3. 1 \in 0..MaxAttempts /\ 1 \in 1..MaxAttempts
    BY DEF CounterAssumption
  <2>4. NewPost(d, Head(rest), 1) \in Post /\ NewPost(d, Head(rest), 1).stage = "sent"
    BY <1>3, <1>5, <2>3, NewPostType
  <2> QED
    BY <1>1, <1>2, <2>1, <2>2, <2>3, <2>4
<1> QED
  BY <1>4, <1>5

----------------------------------------------------------------------------
(* The steps. *)

LEMMA InitIInv == Init => IInv
<1> SUFFICES ASSUME Init
             PROVE  IInv
  OBVIOUS
<1>1. <<>> \in Seq(Entry) /\ <<>> \in Seq([req : Request, room : Room])
  BY EmptySeq
<1>2. 0 \in 0..MaxAttempts
  BY DEF CounterAssumption
<1>3. TypeOK
  BY <1>1, <1>2 DEF Init, TypeOK
<1>4. StoredOnce
  BY DEF Init, StoredOnce, IsInjective
<1>5. AnswersInv /\ AttemptInv
  BY DEF Init, AnswersInv, AttemptInv
<1> QED
  BY <1>3, <1>4, <1>5 DEF IInv

(* What only moves the screens, the rooms or the polls keeps the rest. *)
LEMMA SenderUntouched ==
  ASSUME IInv, TypeOK', UNCHANGED <<log, posts, sender>>
  PROVE  IInv'
BY DEF IInv, StoredOnce, AnswersInv, Stored, AttemptInv, sender

LEMMA MoveToType ==
  ASSUME TypeOK, NEW d \in Device, NEW r \in Room \cup {0}, MoveTo(d, r)
  PROVE  /\ code' \in [Device -> Room \cup {0}]
         /\ cursor' \in [Device -> Nat]
         /\ stopped' \in [Device -> BOOLEAN]
         /\ ended' \in [Device -> {"no", "self", "remote"}]
         /\ shown' \in [Device -> SUBSET (Room \X Entry)]
         /\ local' \in [Device -> SUBSET Request]
         /\ closing' \in [Device -> {"no", "deleting", "done"}]
BY DEF TypeOK, MoveTo, PollFor

LEMMA StartStep == IInv /\ Start => IInv'
<1> SUFFICES ASSUME IInv, Start
             PROVE  IInv'
  OBVIOUS
<1>1. TypeOK
  BY DEF IInv
<1>2. opened + 1 \in Room /\ Desk \in Device
  BY <1>1 DEF Start, TypeOK, Room, Device, CounterAssumption
<1>3. TypeOK'
  BY <1>1, <1>2, MoveToType DEF Start, TypeOK, sender
<1> QED
  BY <1>3, SenderUntouched DEF Start

LEMMA JoinStep == \A r \in Room : IInv /\ Join(r) => IInv'
<1> SUFFICES ASSUME NEW r \in Room, IInv, Join(r)
             PROVE  IInv'
  OBVIOUS
<1>1. TypeOK /\ r \in Device
  BY DEF IInv, Device, Guests
<1>2. TypeOK'
  BY <1>1, MoveToType DEF Join, TypeOK, sender
<1> QED
  BY <1>2, SenderUntouched DEF Join

LEMMA NextVisitorStep == IInv /\ NextVisitor => IInv'
<1> SUFFICES ASSUME IInv, NextVisitor
             PROVE  IInv'
  OBVIOUS
<1>1. TypeOK /\ Desk \in Device
  BY DEF IInv, Device
<1>2. TypeOK'
  BY <1>1, MoveToType DEF NextVisitor, TypeOK, sender, server
<1> QED
  BY <1>2, SenderUntouched DEF NextVisitor, server

(* The end of a room, on the server or on a device. *)
LEMMA EndStep ==
  ASSUME IInv, NEW d \in Device,
         \/ \E r \in Room : Expire(r)
         \/ End(d)
         \/ DeleteSettles(d)
  PROVE  IInv'
<1>1. TypeOK'
  <2>1. CASE \E r \in Room : Expire(r)
    BY <2>1 DEF Expire, IInv, TypeOK, screen, sender, life
  <2>2. CASE End(d)
    BY <2>2 DEF End, IInv, TypeOK, screen, sender, server
  <2>3. CASE DeleteSettles(d)
    BY <2>3 DEF DeleteSettles, IInv, TypeOK, screen, sender
  <2> QED
    BY <2>1, <2>2, <2>3
<1> QED
  BY <1>1, SenderUntouched DEF Expire, End, DeleteSettles, server

LEMMA StartPollStep == \A d \in Device : IInv /\ StartPoll(d) => IInv'
<1> SUFFICES ASSUME NEW d \in Device, IInv, StartPoll(d)
             PROVE  IInv'
  OBVIOUS
<1>1. /\ code[d] \in Room
      /\ cursor[d] \in Nat
  BY DEF IInv, TypeOK, StartPoll
<1>2. [dev |-> d, room |-> code[d], since |-> cursor[d], stage |-> "asked", upto |-> 0]
        \in Poll
  BY <1>1 DEF Poll
<1>3. TypeOK'
  BY <1>2 DEF IInv, StartPoll, TypeOK, server, screen, sender, life
<1> QED
  BY <1>3, SenderUntouched DEF StartPoll, server

LEMMA PollReadsStep == \A p \in polls : IInv /\ PollReads(p) => IInv'
<1> SUFFICES ASSUME NEW p \in polls, IInv, PollReads(p)
             PROVE  IInv'
  OBVIOUS
<1>1. p \in Poll /\ log[p.room] \in Seq(Entry)
  BY DEF IInv, TypeOK, Poll
<1>2. ViewSeq(p.room) \in Nat
  BY <1>1 DEF ViewSeq
<1>3. /\ [p EXCEPT !.stage = "answered", !.upto = ViewSeq(p.room)] \in Poll
      /\ [p EXCEPT !.stage = "gone"] \in Poll
  BY <1>1, <1>2 DEF Poll
<1>4. TypeOK'
  BY <1>3 DEF IInv, PollReads, TypeOK, server, screen, sender, life
<1> QED
  BY <1>4, SenderUntouched DEF PollReads, server

LEMMA PollAnsweredStep == \A p \in polls : IInv /\ PollAnswered(p) => IInv'
<1> SUFFICES ASSUME NEW p \in polls, IInv, PollAnswered(p)
             PROVE  IInv'
  OBVIOUS
<1>1. TypeOK /\ p.dev \in Device /\ p.room \in Room /\ p.upto \in Nat
  BY DEF IInv, TypeOK, Poll
<1>2. Messages(p.room, p.since, p.upto) \subseteq Room \X Entry
  BY <1>1, MessagesType
<1>3. LocalAfter(p.dev, Messages(p.room, p.since, p.upto)) \subseteq Request
  BY <1>1 DEF LocalAfter, TypeOK
<1>4. Max({cursor[p.dev], p.upto}) \in Nat
  BY <1>1, MaxOfTwo DEF TypeOK
<1>5. ASSUME stopped[p.dev]
      PROVE  TypeOK'
  BY <1>1, <1>5 DEF PollAnswered, TypeOK, server, screen, sender
<1>6. ASSUME ~stopped[p.dev]
      PROVE  TypeOK'
  <2> DEFINE ms == Messages(p.room, p.since, p.upto)
             mine == LocalAfter(p.dev, ms)
             seq == Max({cursor[p.dev], p.upto})
  <2>1. /\ shown' = [shown EXCEPT ![p.dev] = @ \cup ms]
        /\ local' = [local EXCEPT ![p.dev] = mine]
        /\ cursor' = [cursor EXCEPT ![p.dev] = seq]
        /\ ended' = [ended EXCEPT ![p.dev] = "no"]
    BY <1>6 DEF PollAnswered, Show, AdvanceCursor
  <2> HIDE DEF ms, mine, seq
  <2>2. ms \subseteq Room \X Entry /\ mine \subseteq Request /\ seq \in Nat
    BY <1>2, <1>3, <1>4 DEF ms, mine, seq
  <2>3. /\ shown' \in [Device -> SUBSET (Room \X Entry)]
        /\ local' \in [Device -> SUBSET Request]
        /\ cursor' \in [Device -> Nat]
        /\ ended' \in [Device -> {"no", "self", "remote"}]
    BY <1>1, <2>1, <2>2 DEF TypeOK
  <2> QED
    BY <1>1, <2>3 DEF PollAnswered, TypeOK, server, sender
<1> QED
  BY <1>5, <1>6, SenderUntouched DEF PollAnswered, server

LEMMA PollOverStep == \A p \in polls : IInv /\ (PollGone(p) \/ PollFails(p)) => IInv'
<1> SUFFICES ASSUME NEW p \in polls, IInv, PollGone(p) \/ PollFails(p)
             PROVE  IInv'
  OBVIOUS
<1>1. CASE PollGone(p)
  BY <1>1, SenderUntouched DEF PollGone, IInv, TypeOK, server, screen, sender
<1>2. CASE PollFails(p)
  BY <1>2, SenderUntouched DEF PollFails, IInv, TypeOK, server, screen, sender, life
<1> QED
  BY <1>1, <1>2

LEMMA SendStep == \A d \in Device : IInv /\ Send(d) => IInv'
<1> SUFFICES ASSUME NEW d \in Device, IInv, Send(d)
             PROVE  IInv'
  OBVIOUS
<1> DEFINE q == sent + 1
           entry == [req |-> q, room |-> code[d]]
<1>1. TypeOK /\ AttemptInv /\ AnswersInv /\ StoredOnce
  BY DEF IInv
<1>2. q \in Request /\ code[d] \in Room
  BY <1>1 DEF Send, TypeOK, Request, CounterAssumption
<1>3. entry \in [req : Request, room : Room] /\ 1 \in 1..MaxAttempts /\ 1 \in 0..MaxAttempts
  BY <1>2 DEF CounterAssumption
<1>4. Append(outbox[d], entry) \in Seq([req : Request, room : Room]) /\ Append(outbox[d], entry) # <<>>
  <2>1. outbox[d] \in Seq([req : Request, room : Room])
    BY <1>1 DEF TypeOK
  <2> HIDE DEF entry
  <2> QED
    BY <1>3, <2>1, AppendProperties
<1>5. NewPost(d, entry, 1) \in Post /\ NewPost(d, entry, 1).stage = "sent"
  BY <1>3, NewPostType
<1>6. /\ sent' = q
      /\ outbox' = [outbox EXCEPT ![d] = Append(outbox[d], entry)]
      /\ local' = [local EXCEPT ![d] = @ \cup {q}] \/ local' = local
      /\ \/ /\ outbox[d] = <<>>
            /\ attempt' = [attempt EXCEPT ![d] = 1]
            /\ waiting' = [waiting EXCEPT ![d] = TRUE]
            /\ posts' = posts \cup {NewPost(d, entry, 1)}
         \/ outbox[d] # <<>> /\ UNCHANGED <<attempt, waiting, posts>>
      /\ UNCHANGED <<server, cursor, shown, life, polls, opened, acked>>
  BY DEF Send
<1> HIDE DEF entry, q
<1>7. TypeOK'
  <2>1. outbox' \in [Device -> Seq([req : Request, room : Room])]
    BY <1>1, <1>4, <1>6 DEF TypeOK
  <2>2. local' \in [Device -> SUBSET Request]
    <3>1. local \in [Device -> SUBSET Request]
      BY <1>1 DEF TypeOK
    <3>2. CASE local' = local
      BY <3>1, <3>2
    <3>3. CASE local' = [local EXCEPT ![d] = @ \cup {q}]
      BY <1>2, <3>1, <3>3
    <3> QED
      BY <1>6, <3>2, <3>3
  <2>3. /\ attempt' \in [Device -> 0..MaxAttempts]
        /\ waiting' \in [Device -> BOOLEAN]
        /\ posts' \subseteq Post
    BY <1>1, <1>3, <1>5, <1>6 DEF TypeOK
  <2> QED
    BY <1>1, <1>2, <1>6, <2>1, <2>2, <2>3 DEF TypeOK, server, life
<1>8. AttemptInv'
  BY <1>1, <1>4, <1>6 DEF AttemptInv, TypeOK
<1>9. AnswersInv' /\ StoredOnce'
  BY <1>1, <1>5, <1>6 DEF AnswersInv, StoredOnce, Stored, server
<1> QED
  BY <1>7, <1>8, <1>9 DEF IInv

LEMMA DiscardStep == \A d \in Device, q \in Request : IInv /\ Discard(d, q) => IInv'
<1> SUFFICES ASSUME NEW d \in Device, NEW q \in Request, IInv, Discard(d, q)
             PROVE  IInv'
  OBVIOUS
<1>1. TypeOK'
  BY DEF IInv, Discard, TypeOK, server, sender, life
<1> QED
  BY <1>1, SenderUntouched DEF Discard, server

(* A step that settles a request, keeping only posts there are. *)
LEMMA Settles ==
  ASSUME IInv, NEW d \in Device, outbox[d] # <<>>,
         NEW mine \in SUBSET Request, NEW open \in SUBSET posts,
         Settle(d, mine, open), UNCHANGED <<server, life, polls, opened, sent>>,
         cursor' \in [Device -> Nat],
         shown' \in [Device -> SUBSET (Room \X Entry)],
         acked' \subseteq [room : Room, dev : Device, req : Request]
  PROVE  IInv'
<1>1. TypeOK /\ AttemptInv /\ AnswersInv /\ StoredOnce /\ open \in SUBSET Post
  BY DEF IInv, TypeOK
<1>2. /\ outbox' \in [Device -> Seq([req : Request, room : Room])]
      /\ attempt' \in [Device -> 0..MaxAttempts]
      /\ waiting' \in [Device -> BOOLEAN]
      /\ local' \in [Device -> SUBSET Request]
      /\ posts' \in SUBSET Post
      /\ \A p \in posts' : p \in open \/ p.stage = "sent"
      /\ AttemptInv'
  BY <1>1, SettleStep
<1>3. TypeOK'
  BY <1>1, <1>2 DEF TypeOK, server, life
<1>4. AnswersInv' /\ StoredOnce'
  BY <1>1, <1>2 DEF AnswersInv, StoredOnce, Stored, server
<1> QED
  BY <1>2, <1>3, <1>4 DEF IInv

LEMMA RetryStep == \A d \in Device : IInv /\ Retry(d) => IInv'
<1> SUFFICES ASSUME NEW d \in Device, IInv, Retry(d)
             PROVE  IInv'
  OBVIOUS
<1>1. TypeOK /\ AttemptInv /\ AnswersInv /\ StoredOnce
  BY DEF IInv
<1>2. CASE stopped[d]
  <2> DEFINE mine == local[d] \ {Head(outbox[d]).req}
  <2>1. mine \in SUBSET Request
    BY <1>1 DEF TypeOK
  <2>2. Settle(d, mine, posts) /\ outbox[d] # <<>>
    BY <1>2 DEF Retry
  <2>3. /\ UNCHANGED <<server, life, polls, opened, sent>>
        /\ cursor' \in [Device -> Nat]
        /\ shown' \in [Device -> SUBSET (Room \X Entry)]
        /\ acked' \subseteq [room : Room, dev : Device, req : Request]
    BY <1>1 DEF Retry, TypeOK
  <2> HIDE DEF mine
  <2> QED
    BY <2>1, <2>2, <2>3, Settles
<1>3. CASE ~stopped[d]
  <2> DEFINE n == attempt[d] + 1
             post == NewPost(d, Head(outbox[d]), n)
  <2>1. outbox[d] # <<>> /\ n \in 1..MaxAttempts /\ n \in 0..MaxAttempts
    BY <1>1 DEF Retry, AttemptInv, TypeOK, CounterAssumption
  <2>2. Head(outbox[d]) \in [req : Request, room : Room]
    BY <1>1, <2>1, HeadTailProperties DEF TypeOK
  <2>3. post \in Post /\ post.stage = "sent"
    BY <2>1, <2>2, NewPostType
  <2>4. /\ attempt' = [attempt EXCEPT ![d] = n]
        /\ waiting' = [waiting EXCEPT ![d] = TRUE]
        /\ posts' = posts \cup {post}
        /\ UNCHANGED <<outbox, local, server, cursor, shown, life, polls, opened, sent, acked>>
    BY <1>3 DEF Retry, CountAttempt
  <2> HIDE DEF n, post
  <2>5. TypeOK'
    BY <1>1, <2>1, <2>3, <2>4 DEF TypeOK, server, life
  <2>6. AttemptInv'
    BY <1>1, <2>1, <2>4 DEF AttemptInv, TypeOK
  <2>7. AnswersInv' /\ StoredOnce'
    BY <1>1, <2>3, <2>4 DEF AnswersInv, StoredOnce, Stored, server
  <2> QED
    BY <2>5, <2>6, <2>7 DEF IInv
<1> QED
  BY <1>2, <1>3

(* The post of an answer: the same one, at another stage. *)
LEMMA AnswerStep ==
  ASSUME TypeOK, NEW p \in posts, NEW stage \in {"stored", "refused"}, Answer(p, stage)
  PROVE  /\ posts' \subseteq Post
         /\ \A o \in posts' : \/ o \in posts
                              \/ /\ o.stage = stage
                                 /\ o.room = p.room /\ o.dev = p.dev /\ o.req = p.req
<1>1. p \in Post
  BY DEF TypeOK
<1>2. [p EXCEPT !.stage = stage] \in Post
  BY <1>1 DEF Post
<1>3. LET o == [p EXCEPT !.stage = stage]
      IN  o.stage = stage /\ o.room = p.room /\ o.dev = p.dev /\ o.req = p.req
  BY <1>1 DEF Post
<1> QED
  BY <1>2, <1>3 DEF Answer, TypeOK

LEMMA AdmitStep == \A p \in posts : IInv /\ Admit(p) => IInv'
<1> SUFFICES ASSUME NEW p \in posts, IInv, Admit(p)
             PROVE  IInv'
  OBVIOUS
<1>1. TypeOK /\ AttemptInv /\ AnswersInv /\ StoredOnce /\ p \in Post
  BY DEF IInv, TypeOK
<1>2. UNCHANGED <<log, outbox, attempt, waiting>>
  BY DEF Admit, server, sender
<1>3. ASSUME posts' \subseteq Post
      PROVE  TypeOK'
  BY <1>1, <1>3 DEF Admit, TypeOK, server, screen, sender, life
<1>4. posts' \subseteq Post /\ AnswersInv'
  <2>1. CASE Answer(p, "refused")
    BY <1>1, <1>2, <2>1, AnswerStep DEF AnswersInv, Stored
  <2>2. CASE Stored(p.room, p.dev, p.req) /\ Answer(p, "stored")
    BY <1>1, <1>2, <2>2, AnswerStep DEF AnswersInv, Stored
  <2>3. CASE posts' = (posts \ {p}) \cup {[p EXCEPT !.stage = "translating"]}
    <3>1. /\ [p EXCEPT !.stage = "translating"] \in Post
          /\ [p EXCEPT !.stage = "translating"].stage = "translating"
      BY <1>1 DEF Post
    <3> QED
      BY <1>1, <1>2, <2>3, <3>1 DEF TypeOK, AnswersInv, Stored
  <2> QED
    BY <2>1, <2>2, <2>3 DEF Admit
<1>5. AttemptInv' /\ StoredOnce'
  BY <1>1, <1>2 DEF AttemptInv, StoredOnce
<1> QED
  BY <1>3, <1>4, <1>5 DEF IInv

LEMMA PersistStep == \A p \in posts : IInv /\ Persist(p) => IInv'
<1> SUFFICES ASSUME NEW p \in posts, IInv, Persist(p)
             PROVE  IInv'
  OBVIOUS
<1>1. TypeOK /\ AttemptInv /\ AnswersInv /\ StoredOnce /\ p \in Post
  BY DEF IInv, TypeOK
<1>2. p.room \in Room /\ p.dev \in Device /\ p.req \in Request
  BY <1>1 DEF Post
<1> DEFINE entry == [from |-> p.dev, req |-> p.req]
<1>3. /\ log' \in [Room -> Seq(Entry)]
      /\ StoredOnce'
      /\ \A r \in Room : ToSet(log[r]) \subseteq ToSet(log'[r])
      /\ posts' \subseteq Post
      /\ AnswersInv'
  <2>1. CASE log' = log /\ Answer(p, "refused")
    BY <1>1, <2>1, AnswerStep DEF TypeOK, StoredOnce, AnswersInv, Stored
  <2>2. CASE Stored(p.room, p.dev, p.req) /\ log' = log /\ Answer(p, "stored")
    BY <1>1, <2>2, AnswerStep DEF TypeOK, StoredOnce, AnswersInv, Stored
  <2>3. CASE /\ ~Stored(p.room, p.dev, p.req)
             /\ log' = [log EXCEPT ![p.room] = Append(log[p.room], entry)]
             /\ Answer(p, "stored")
    <3>1. /\ log \in [Room -> Seq(Entry)]
          /\ log[p.room] \in Seq(Entry)
          /\ IsInjective(log[p.room])
      BY <1>1, <1>2 DEF TypeOK, StoredOnce
    <3>2. entry \in Entry /\ entry \notin ToSet(log[p.room])
      BY <1>2, <2>3 DEF Entry, Stored
    <3> DEFINE longer == Append(log[p.room], entry)
    <3>3. /\ longer \in Seq(Entry)
          /\ IsInjective(longer)
          /\ ToSet(log[p.room]) \subseteq ToSet(longer)
          /\ entry \in ToSet(longer)
      BY <3>1, <3>2, AppendNew
    <3>4. log' = [log EXCEPT ![p.room] = longer]
      BY <2>3
    <3> HIDE DEF longer
    <3>5. log' \in [Room -> Seq(Entry)] /\ StoredOnce'
      BY <1>1, <1>2, <3>1, <3>3, <3>4 DEF StoredOnce
    <3>6. /\ \A r \in Room : ToSet(log[r]) \subseteq ToSet(log'[r])
          /\ entry \in ToSet(log'[p.room])
      BY <1>2, <3>1, <3>3, <3>4
    <3>7. /\ posts' \subseteq Post
          /\ \A o \in posts' : \/ o \in posts
                               \/ o.room = p.room /\ o.dev = p.dev /\ o.req = p.req
      BY <1>1, <2>3, AnswerStep
    <3>8. AnswersInv'
      <4> SUFFICES ASSUME NEW o \in posts', o.stage = "stored"
                   PROVE  [from |-> o.dev, req |-> o.req] \in ToSet(log'[o.room])
        BY DEF AnswersInv, Stored
      <4>1. CASE o \in posts
        <5>1. [from |-> o.dev, req |-> o.req] \in ToSet(log[o.room]) /\ o.room \in Room
          BY <1>1, <4>1 DEF AnswersInv, Stored, TypeOK, Post
        <5> QED
          BY <3>6, <5>1
      <4>2. CASE o.room = p.room /\ o.dev = p.dev /\ o.req = p.req
        BY <3>6, <4>2
      <4> QED
        BY <3>7, <4>1, <4>2
    <3> QED
      BY <3>5, <3>6, <3>7, <3>8
  <2> QED
    BY <2>1, <2>2, <2>3 DEF Persist, AlreadyStored
<1>4. TypeOK'
  BY <1>1, <1>3 DEF Persist, TypeOK, screen, sender, life
<1>5. AttemptInv'
  BY <1>1 DEF Persist, AttemptInv, sender
<1> QED
  BY <1>3, <1>4, <1>5 DEF IInv

(* The post a device waits for is of a request in its queue. *)
LEMMA AwaitedType ==
  ASSUME IInv, NEW p \in posts, Awaited(p)
  PROVE  p \in Post /\ p.dev \in Device /\ p.room \in Room /\ p.req \in Request
         /\ outbox[p.dev] # <<>>
BY DEF IInv, TypeOK, Post, Awaited, AttemptInv

LEMMA PostAnsweredStep == \A p \in posts : IInv /\ PostAnswered(p) => IInv'
<1> SUFFICES ASSUME NEW p \in posts, IInv, PostAnswered(p)
             PROVE  IInv'
  OBVIOUS
<1> DEFINE seq == SeqNo(p.room, p.dev, p.req)
           message == <<p.room, log[p.room][seq]>>
           mine == LocalAfter(p.dev, {message})
           top == Max({cursor[p.dev], seq})
<1>1. TypeOK /\ AnswersInv /\ Awaited(p) /\ p.stage = "stored"
  BY DEF IInv, PostAnswered
<1>2. p.dev \in Device /\ p.room \in Room /\ p.req \in Request /\ outbox[p.dev] # <<>>
  BY <1>1, AwaitedType
<1>3. seq \in Nat /\ message \in Room \X Entry
  BY <1>1, <1>2, StoredAt DEF AnswersInv
<1>4. mine \in SUBSET Request
  BY <1>1, <1>2 DEF LocalAfter, TypeOK
<1>5. top \in Nat
  BY <1>1, <1>2, <1>3, MaxOfTwo DEF TypeOK
<1>6. /\ shown' = [shown EXCEPT ![p.dev] = @ \cup {message}]
      /\ cursor' = [cursor EXCEPT ![p.dev] = top]
      /\ Settle(p.dev, mine, posts \ {p})
      /\ acked' = acked \cup {[room |-> p.room, dev |-> p.dev, req |-> p.req]}
      /\ UNCHANGED <<server, life, polls, opened, sent>>
  BY DEF PostAnswered, Show, AdvanceCursor
<1> HIDE DEF seq, message, mine, top
<1>7. /\ cursor' \in [Device -> Nat]
      /\ shown' \in [Device -> SUBSET (Room \X Entry)]
      /\ acked' \subseteq [room : Room, dev : Device, req : Request]
  BY <1>1, <1>2, <1>3, <1>5, <1>6 DEF TypeOK
<1>8. posts \ {p} \in SUBSET posts
  OBVIOUS
<1> QED
  BY <1>2, <1>4, <1>6, <1>7, <1>8, Settles

LEMMA PostRefusedStep == \A p \in posts : IInv /\ PostRefused(p) => IInv'
<1> SUFFICES ASSUME NEW p \in posts, IInv, PostRefused(p)
             PROVE  IInv'
  OBVIOUS
<1>1. p.dev \in Device /\ outbox[p.dev] # <<>>
  BY AwaitedType DEF PostRefused
<1>2. /\ local[p.dev] \in SUBSET Request
      /\ posts \ {p} \in SUBSET posts
      /\ cursor' \in [Device -> Nat]
      /\ shown' \in [Device -> SUBSET (Room \X Entry)]
      /\ acked' \subseteq [room : Room, dev : Device, req : Request]
  BY <1>1 DEF IInv, TypeOK, PostRefused
<1>3. /\ Settle(p.dev, local[p.dev], posts \ {p})
      /\ UNCHANGED <<server, life, polls, opened, sent>>
  BY DEF PostRefused
<1> QED
  BY <1>1, <1>2, <1>3, Settles

LEMMA AttemptFailsStep == \A d \in Device : IInv /\ AttemptFails(d) => IInv'
<1> SUFFICES ASSUME NEW d \in Device, IInv, AttemptFails(d)
             PROVE  IInv'
  OBVIOUS
<1>1. TypeOK /\ AttemptInv /\ AnswersInv /\ StoredOnce
  BY DEF IInv
<1>2. PICK open \in SUBSET posts : GoOn(d, open)
  BY DEF AttemptFails
<1>3. /\ waiting[d]
      /\ outbox[d] # <<>>
      /\ UNCHANGED <<server, cursor, shown, life, polls, opened, sent, acked>>
  BY <1>1 DEF AttemptFails, AttemptInv
<1>4. CASE attempt[d] = MaxAttempts
  <2>1. Settle(d, local[d], open) /\ local[d] \in SUBSET Request
    BY <1>1, <1>2, <1>4 DEF GoOn, TypeOK
  <2>2. /\ cursor' \in [Device -> Nat]
        /\ shown' \in [Device -> SUBSET (Room \X Entry)]
        /\ acked' \subseteq [room : Room, dev : Device, req : Request]
    BY <1>1, <1>3 DEF TypeOK
  <2> QED
    BY <1>3, <2>1, <2>2, Settles
<1>5. CASE attempt[d] # MaxAttempts
  <2>1. /\ waiting' = [waiting EXCEPT ![d] = FALSE]
        /\ posts' = open
        /\ UNCHANGED <<outbox, attempt, local>>
    BY <1>2, <1>5 DEF GoOn
  <2>2. TypeOK'
    BY <1>1, <1>3, <2>1 DEF TypeOK, server, life
  <2>3. attempt[d] < MaxAttempts
    BY <1>1, <1>5 DEF TypeOK, CounterAssumption
  <2>4. AttemptInv'
    BY <1>1, <2>1, <2>3 DEF AttemptInv, TypeOK
  <2>5. AnswersInv' /\ StoredOnce'
    BY <1>1, <1>3, <2>1 DEF AnswersInv, StoredOnce, Stored, server
  <2> QED
    BY <2>2, <2>4, <2>5 DEF IInv
<1> QED
  BY <1>4, <1>5

LEMMA StutterStep == IInv /\ UNCHANGED vars => IInv'
<1> SUFFICES ASSUME IInv, UNCHANGED vars
             PROVE  IInv'
  OBVIOUS
<1>1. TypeOK'
  BY DEF IInv, TypeOK, vars, server, screen, sender, life
<1> QED
  BY <1>1, SenderUntouched DEF vars, server

LEMMA NextIInv == IInv /\ [Next]_vars => IInv'
<1> SUFFICES ASSUME IInv, [Next]_vars
             PROVE  IInv'
  OBVIOUS
<1>1. CASE Start
  BY <1>1, StartStep
<1>2. CASE NextVisitor
  BY <1>2, NextVisitorStep
<1>3. ASSUME NEW r \in Room, Join(r)
      PROVE  IInv'
  BY <1>3, JoinStep
<1>4. ASSUME NEW r \in Room, Expire(r)
      PROVE  IInv'
  <2>1. Desk \in Device
    BY DEF Device
  <2> QED
    BY <1>4, <2>1, EndStep
<1>5. ASSUME NEW d \in Device, End(d) \/ DeleteSettles(d)
      PROVE  IInv'
  BY <1>5, EndStep
<1>6. ASSUME NEW d \in Device, StartPoll(d) \/ Send(d) \/ Retry(d) \/ AttemptFails(d)
      PROVE  IInv'
  BY <1>6, StartPollStep, SendStep, RetryStep, AttemptFailsStep
<1>7. ASSUME NEW d \in Device, NEW q \in Request, Discard(d, q)
      PROVE  IInv'
  BY <1>7, DiscardStep
<1>8. ASSUME NEW p \in polls, PollReads(p) \/ PollAnswered(p) \/ PollGone(p) \/ PollFails(p)
      PROVE  IInv'
  BY <1>8, PollReadsStep, PollAnsweredStep, PollOverStep
<1>9. ASSUME NEW p \in posts, Admit(p) \/ Persist(p) \/ PostAnswered(p) \/ PostRefused(p)
      PROVE  IInv'
  BY <1>9, AdmitStep, PersistStep, PostAnsweredStep, PostRefusedStep
<1>10. CASE UNCHANGED vars
  BY <1>10, StutterStep
<1> QED
  BY <1>1, <1>2, <1>3, <1>4, <1>5, <1>6, <1>7, <1>8, <1>9, <1>10 DEF Next

----------------------------------------------------------------------------
(* The theorems.                                                           *)

(* The inductive invariant of the counter holds in every reachable state:   *)
(* what is answered is stored, and what is tried again may be.              *)
THEOREM SpecIInv == Spec => []IInv
BY InitIInv, NextIInv, PTL DEF Spec

(* Every variable keeps its type, whatever is lost, retried or ended; in    *)
(* particular no request is attempted more often than there are delays.     *)
THEOREM SpecTypeOK == Spec => []TypeOK
<1>1. IInv => TypeOK
  BY DEF IInv
<1> QED
  BY <1>1, SpecIInv, PTL

(* No request is stored twice, for any number of attempts under way at      *)
(* once: the second look of persistOnce suffices.                           *)
THEOREM SpecStoredOnce == Spec => []StoredOnce
<1>1. IInv => StoredOnce
  BY DEF IInv
<1> QED
  BY <1>1, SpecIInv, PTL

----------------------------------------------------------------------------
(* What a step may do to the requests, whichever step it is: the invariants *)
(* of the next section follow from this without a case for each action.     *)

SameTurn(o, p) == o.dev = p.dev /\ o.room = p.room /\ o.req = p.req

(* The request a device is at work on. *)
AtFront(d, r, q) ==
  outbox[d] # <<>> /\ Head(outbox[d]).room = r /\ Head(outbox[d]).req = q

(* A log grows by the request of a post, if it has not got it. *)
LogStep ==
  \A r \in Room :
    \/ log'[r] = log[r]
    \/ \E p \in posts : /\ p.room = r
                        /\ ~Stored(r, p.dev, p.req)
                        /\ log'[r] = Append(log[r], [from |-> p.dev, req |-> p.req])

SentStep == sent' \in sent..(sent + 1)

(* A queue loses its first request, or all, or gains a new one at the end. *)
QueueStep ==
  \A d \in Device :
    \/ outbox'[d] \in {outbox[d], <<>>}
    \/ outbox[d] # <<>> /\ outbox'[d] = Tail(outbox[d])
    \/ /\ sent' = sent + 1
       /\ code[d] # 0
       /\ outbox'[d] = Append(outbox[d], [req |-> sent', room |-> code[d]])

(* A post is another one's next stage, or of the request at the front. *)
PostsStep ==
  \A p \in posts' : (\E o \in posts : SameTurn(o, p)) \/ AtFront(p.dev, p.room, p.req)'

(* What is answered is in the log, and was at the front. *)
AckedStep ==
  \A a \in acked' :
    \/ a \in acked
    \/ /\ log' = log
       /\ Stored(a.room, a.dev, a.req)
       /\ outbox[a.dev] # <<>>
       /\ a.req = Head(outbox[a.dev]).req

(* What comes to the screen is a message of the server whose local copy is  *)
(* gone, and a local copy that comes is of a new request.                   *)
ScreenStep ==
  \A d \in Device :
    /\ \A m \in shown'[d] :
         \/ m \in shown[d]
         \/ /\ m[1] \in Room
            /\ m[2] \in ToSet(log[m[1]])
            /\ m[2].req \notin local'[d]
    /\ local'[d] \subseteq local[d] \cup ((sent + 1)..sent')

RequestStep == LogStep /\ SentStep /\ QueueStep /\ PostsStep /\ AckedStep

LEMMA SentType == TypeOK => sent \in Nat
BY DEF TypeOK, Request, CounterAssumption

(* Most steps leave the requests alone. *)
LEMMA QuietStep ==
  ASSUME TypeOK, UNCHANGED <<log, sent, outbox, posts, acked>>
  PROVE  RequestStep
<1>1. sent \in Nat
  BY SentType
<1> QED
  BY <1>1 DEF RequestStep, LogStep, SentStep, QueueStep, PostsStep, AckedStep, SameTurn

LEMMA StillScreen ==
  ASSUME UNCHANGED <<shown, local>>
  PROVE  ScreenStep
BY DEF ScreenStep

LEMMA MessagesStored ==
  ASSUME TypeOK, NEW r \in Room, NEW a, NEW b, NEW m \in Messages(r, a, b)
  PROVE  m[1] \in Room /\ m[2] \in ToSet(log[m[1]])
BY DEF Messages, ToSet

(* Settling moves the queue on and posts its new front. *)
LEMMA SettleEffects ==
  ASSUME TypeOK, NEW d \in Device, outbox[d] # <<>>, NEW mine,
         NEW open \in SUBSET posts, Settle(d, mine, open)
  PROVE  /\ QueueStep /\ PostsStep
         /\ \A e \in Device \ {d} : local'[e] = local[e]
         /\ local'[d] \subseteq mine
<1> DEFINE rest == Tail(outbox[d])
<1>1. /\ outbox[d] \in Seq([req : Request, room : Room])
      /\ outbox \in [Device -> Seq([req : Request, room : Room])]
      /\ local \in [Device -> SUBSET Request]
  BY DEF TypeOK
<1>2. CASE rest = <<>> \/ stopped[d]
  <2>1. /\ outbox' = [outbox EXCEPT ![d] = <<>>]
        /\ local' = [local EXCEPT ![d] = mine \ {rest[i].req : i \in DOMAIN rest}]
        /\ posts' = open
    BY <1>2 DEF Settle
  <2> HIDE DEF rest
  <2>2. QueueStep
    BY <1>1, <2>1 DEF QueueStep
  <2>3. PostsStep
    BY <2>1 DEF PostsStep, SameTurn
  <2> QED
    BY <1>1, <2>1, <2>2, <2>3
<1>3. CASE ~(rest = <<>> \/ stopped[d])
  <2>1. /\ outbox' = [outbox EXCEPT ![d] = rest]
        /\ local' = [local EXCEPT ![d] = mine]
        /\ posts' = open \cup {NewPost(d, Head(rest), 1)}
    BY <1>3 DEF Settle
  <2>2. QueueStep
    BY <1>1, <2>1 DEF QueueStep
  <2> HIDE DEF rest
  <2>3. outbox'[d] = rest /\ rest # <<>>
    BY <1>1, <1>3, <2>1
  <2>4. LET p == NewPost(d, Head(rest), 1)
        IN  p.dev = d /\ p.room = Head(rest).room /\ p.req = Head(rest).req
    BY DEF NewPost
  <2>5. PostsStep
    BY <2>1, <2>3, <2>4 DEF PostsStep, SameTurn, AtFront
  <2> QED
    BY <1>1, <2>1, <2>2, <2>5
<1> QED
  BY <1>2, <1>3

LEMMA RoomSteps ==
  ASSUME IInv, \/ Start
               \/ NextVisitor
               \/ \E r \in Room : Join(r) \/ Expire(r)
               \/ \E d \in Device : End(d) \/ DeleteSettles(d)
  PROVE  RequestStep /\ ScreenStep
<1>1. /\ TypeOK
      /\ shown \in [Device -> SUBSET (Room \X Entry)]
      /\ local \in [Device -> SUBSET Request]
  BY DEF IInv, TypeOK
<1>2. UNCHANGED <<log, sent, outbox, posts, acked>>
  BY DEF Start, NextVisitor, Join, Expire, End, DeleteSettles, server, sender
<1>3. ASSUME NEW d \in Device, NEW r \in Nat, MoveTo(d, r)
      PROVE  ScreenStep
  <2>1. shown' = [shown EXCEPT ![d] = {}] /\ local' = [local EXCEPT ![d] = {}]
    BY <1>3 DEF MoveTo
  <2> QED
    BY <1>1, <2>1 DEF ScreenStep
<1>4. ASSUME UNCHANGED screen
      PROVE  ScreenStep
  BY <1>4, StillScreen DEF screen
<1>5. Desk \in Device /\ Room \subseteq Device /\ Room \subseteq Nat /\ 0 \in Nat
  BY DEF Device, Guests, Room, CounterAssumption
<1>6. opened + 1 \in Nat
  BY <1>1 DEF TypeOK, Room, CounterAssumption
<1> QED
  BY <1>1, <1>2, <1>3, <1>4, <1>5, <1>6, QuietStep
     DEF Start, NextVisitor, Join, Expire, End, DeleteSettles

LEMMA PollSteps ==
  ASSUME IInv, \/ \E d \in Device : StartPoll(d)
               \/ \E p \in polls : PollReads(p) \/ PollAnswered(p) \/ PollGone(p) \/ PollFails(p)
  PROVE  RequestStep /\ ScreenStep
<1>1. /\ TypeOK
      /\ shown \in [Device -> SUBSET (Room \X Entry)]
      /\ local \in [Device -> SUBSET Request]
  BY DEF IInv, TypeOK
<1>2. UNCHANGED <<log, sent, outbox, posts, acked>>
  BY DEF StartPoll, PollReads, PollAnswered, PollGone, PollFails, server, sender
<1>3. CASE UNCHANGED screen
  BY <1>1, <1>2, <1>3, StillScreen, QuietStep DEF screen
<1>4. ASSUME NEW p \in polls, PollAnswered(p), ~stopped[p.dev]
      PROVE  ScreenStep
  <2> DEFINE ms == Messages(p.room, p.since, p.upto)
             mine == LocalAfter(p.dev, ms)
  <2>1. p.dev \in Device /\ p.room \in Room
    BY <1>1 DEF TypeOK, Poll
  <2>2. /\ shown' = [shown EXCEPT ![p.dev] = @ \cup ms]
        /\ local' = [local EXCEPT ![p.dev] = mine]
    BY <1>4 DEF PollAnswered, Show
  <2>3. \A m \in ms : m[1] \in Room /\ m[2] \in ToSet(log[m[1]]) /\ m[2].req \notin mine
    BY <1>1, <2>1, MessagesStored DEF LocalAfter
  <2>4. mine \subseteq local[p.dev]
    BY DEF LocalAfter
  <2> HIDE DEF ms, mine
  <2> QED
    BY <1>1, <2>1, <2>2, <2>3, <2>4 DEF ScreenStep
<1> QED
  BY <1>1, <1>2, <1>3, <1>4, QuietStep
     DEF StartPoll, PollReads, PollAnswered, PollGone, PollFails

LEMMA SendEffects ==
  ASSUME IInv, NEW d \in Device, Send(d)
  PROVE  RequestStep /\ ScreenStep
<1> DEFINE q == sent + 1
           entry == [req |-> q, room |-> code[d]]
<1>1. /\ TypeOK /\ sent \in Nat
      /\ outbox \in [Device -> Seq([req : Request, room : Room])]
      /\ local \in [Device -> SUBSET Request]
  BY SentType DEF IInv, TypeOK
<1>2. /\ sent' = q /\ code[d] # 0
      /\ outbox' = [outbox EXCEPT ![d] = Append(outbox[d], entry)]
      /\ local' = [local EXCEPT ![d] = @ \cup {q}] \/ local' = local
      /\ \/ outbox[d] = <<>> /\ posts' = posts \cup {NewPost(d, entry, 1)}
         \/ posts' = posts
      /\ UNCHANGED <<log, shown, acked>>
  BY DEF Send, server
<1>3. outbox[d] \in Seq([req : Request, room : Room])
  BY <1>1
<1>4. QueueStep
  BY <1>1, <1>2 DEF QueueStep
<1>5. PostsStep
  <2>1. entry.room = code[d] /\ entry.req = q
    OBVIOUS
  <2> HIDE DEF entry, q
  <2>2. LET p == NewPost(d, entry, 1)
        IN  p.dev = d /\ p.room = entry.room /\ p.req = entry.req
    BY DEF NewPost
  <2>3. outbox[d] = <<>> => outbox'[d] # <<>> /\ Head(outbox'[d]) = entry
    <3> SUFFICES ASSUME outbox[d] = <<>>
                 PROVE  outbox'[d] # <<>> /\ Head(outbox'[d]) = entry
      OBVIOUS
    <3>1. outbox'[d] = <<entry>>
      BY <1>1, <1>2
    <3> QED
      BY <3>1
  <2> QED
    BY <1>2, <2>2, <2>3 DEF PostsStep, SameTurn, AtFront
<1>6. LogStep /\ SentStep /\ AckedStep
  BY <1>1, <1>2 DEF LogStep, SentStep, AckedStep
<1>7. ScreenStep
  <2>1. CASE local' = local
    BY <1>2, <2>1, StillScreen
  <2>2. CASE local' = [local EXCEPT ![d] = @ \cup {q}]
    <3>1. q \in (sent + 1)..sent'
      BY <1>1, <1>2
    <3> QED
      BY <1>1, <1>2, <2>2, <3>1 DEF ScreenStep
  <2> QED
    BY <1>2, <2>1, <2>2
<1> QED
  BY <1>4, <1>5, <1>6, <1>7 DEF RequestStep

LEMMA DiscardEffects ==
  ASSUME IInv, NEW d \in Device, NEW q \in Request, Discard(d, q)
  PROVE  RequestStep /\ ScreenStep
<1>1. TypeOK /\ UNCHANGED <<log, sent, outbox, posts, acked, shown>>
  BY DEF IInv, Discard, server, sender
<1>2. local' = [local EXCEPT ![d] = @ \ {q}] /\ local \in [Device -> SUBSET Request]
  BY <1>1 DEF Discard, TypeOK
<1>3. ScreenStep
  BY <1>1, <1>2 DEF ScreenStep
<1> QED
  BY <1>1, <1>3, QuietStep

(* Steps of a sender that settle a request without showing anything. *)
LEMMA SettleSteps ==
  ASSUME IInv, NEW d \in Device, outbox[d] # <<>>, NEW mine \in SUBSET local[d],
         NEW open \in SUBSET posts, Settle(d, mine, open),
         UNCHANGED <<server, shown, sent, acked>>
  PROVE  RequestStep /\ ScreenStep
<1>1. TypeOK /\ sent \in Nat
  BY SentType DEF IInv
<1>2. /\ QueueStep /\ PostsStep
      /\ \A e \in Device \ {d} : local'[e] = local[e]
      /\ local'[d] \subseteq mine
  BY <1>1, SettleEffects
<1>3. LogStep /\ SentStep /\ AckedStep
  BY <1>1 DEF LogStep, SentStep, AckedStep, server
<1>4. ScreenStep
  BY <1>2 DEF ScreenStep
<1> QED
  BY <1>2, <1>3, <1>4 DEF RequestStep

LEMMA RetryEffects ==
  ASSUME IInv, NEW d \in Device, Retry(d)
  PROVE  RequestStep /\ ScreenStep
<1>1. TypeOK /\ sent \in Nat
  BY SentType DEF IInv
<1>2. outbox[d] # <<>> /\ UNCHANGED <<server, shown, sent, acked>>
  BY DEF Retry
<1>3. CASE stopped[d]
  BY <1>2, <1>3, SettleSteps DEF Retry
<1>4. CASE ~stopped[d]
  <2> DEFINE post == NewPost(d, Head(outbox[d]), attempt[d] + 1)
  <2>1. UNCHANGED <<outbox, local>> /\ posts' = posts \cup {post}
    BY <1>4 DEF Retry
  <2>2. post.dev = d /\ post.room = Head(outbox[d]).room /\ post.req = Head(outbox[d]).req
    BY DEF NewPost
  <2> HIDE DEF post
  <2>3. PostsStep
    BY <1>2, <2>1, <2>2 DEF PostsStep, SameTurn, AtFront
  <2>4. LogStep /\ SentStep /\ QueueStep /\ AckedStep
    BY <1>1, <1>2, <2>1 DEF LogStep, SentStep, QueueStep, AckedStep, server
  <2> QED
    BY <1>2, <2>1, <2>3, <2>4, StillScreen DEF RequestStep
<1> QED
  BY <1>3, <1>4

LEMMA AttemptFailsEffects ==
  ASSUME IInv, NEW d \in Device, AttemptFails(d)
  PROVE  RequestStep /\ ScreenStep
<1>1. TypeOK /\ sent \in Nat
  BY SentType DEF IInv
<1>2. PICK open \in SUBSET posts : GoOn(d, open)
  BY DEF AttemptFails
<1>3. outbox[d] # <<>> /\ UNCHANGED <<server, shown, sent, acked>>
  BY DEF AttemptFails, IInv, AttemptInv
<1>4. CASE attempt[d] = MaxAttempts
  <2>1. Settle(d, local[d], open)
    BY <1>2, <1>4 DEF GoOn
  <2> QED
    BY <1>3, <2>1, SettleSteps
<1>5. CASE attempt[d] # MaxAttempts
  <2>1. posts' = open /\ UNCHANGED <<outbox, local>>
    BY <1>2, <1>5 DEF GoOn
  <2>2. PostsStep
    BY <2>1 DEF PostsStep, SameTurn
  <2>3. LogStep /\ SentStep /\ QueueStep /\ AckedStep
    BY <1>1, <1>3, <2>1 DEF LogStep, SentStep, QueueStep, AckedStep, server
  <2> QED
    BY <1>3, <2>1, <2>2, <2>3, StillScreen DEF RequestStep
<1> QED
  BY <1>4, <1>5

LEMMA HandlerSteps ==
  ASSUME IInv, NEW p \in posts, Admit(p) \/ Persist(p)
  PROVE  RequestStep /\ ScreenStep
<1>1. TypeOK /\ sent \in Nat /\ p \in Post /\ p.room \in Room
  BY SentType DEF IInv, TypeOK, Post
<1>2. UNCHANGED <<sent, outbox, acked, shown, local>>
  BY DEF Admit, Persist, screen, sender
<1>3. \/ Answer(p, "refused")
      \/ Answer(p, "stored")
      \/ posts' = (posts \ {p}) \cup {[p EXCEPT !.stage = "translating"]}
  BY DEF Admit, Persist
<1>4. \A stage : SameTurn(p, [p EXCEPT !.stage = stage])
  BY <1>1 DEF SameTurn, Post
<1>5. PostsStep
  BY <1>3, <1>4 DEF PostsStep, Answer, SameTurn
<1>6. LogStep
  <2>1. CASE log' = log
    BY <2>1 DEF LogStep
  <2>2. CASE /\ ~Stored(p.room, p.dev, p.req)
             /\ log' = [log EXCEPT ![p.room] = Append(@, [from |-> p.dev, req |-> p.req])]
    <3>1. log \in [Room -> Seq(Entry)]
      BY <1>1 DEF TypeOK
    <3> QED
      BY <1>1, <2>2, <3>1 DEF LogStep
  <2> QED
    BY <2>1, <2>2 DEF Admit, Persist, AlreadyStored, server
<1>7. SentStep /\ QueueStep /\ AckedStep
  BY <1>1, <1>2 DEF SentStep, QueueStep, AckedStep
<1> QED
  BY <1>2, <1>5, <1>6, <1>7, StillScreen DEF RequestStep

LEMMA PostAnsweredEffects ==
  ASSUME IInv, NEW p \in posts, PostAnswered(p)
  PROVE  RequestStep /\ ScreenStep
<1> DEFINE d == p.dev
           seq == SeqNo(p.room, d, p.req)
           message == <<p.room, log[p.room][seq]>>
           mine == LocalAfter(d, {message})
<1>1. TypeOK /\ AnswersInv /\ sent \in Nat /\ Awaited(p) /\ p.stage = "stored"
  BY SentType DEF IInv, PostAnswered
<1>2. d \in Device /\ p.room \in Room /\ outbox[d] # <<>> /\ p.req = Head(outbox[d]).req
  BY <1>1, AwaitedType DEF Awaited
<1>3. Stored(p.room, d, p.req) /\ message[1] \in Room /\ message[2] \in ToSet(log[message[1]])
  BY <1>1, <1>2, StoredAt DEF AnswersInv, ToSet
<1>4. mine \subseteq local[d] /\ message[2].req \notin mine
  BY DEF LocalAfter
<1>5. /\ shown' = [shown EXCEPT ![d] = @ \cup {message}]
      /\ Settle(d, mine, posts \ {p})
      /\ acked' = acked \cup {[room |-> p.room, dev |-> d, req |-> p.req]}
      /\ UNCHANGED <<log, sent>>
  BY DEF PostAnswered, Show, server
<1> HIDE DEF d, seq, message, mine
<1>6. posts \ {p} \in SUBSET posts
  OBVIOUS
<1>7. /\ QueueStep /\ PostsStep
      /\ \A e \in Device \ {d} : local'[e] = local[e]
      /\ local'[d] \subseteq mine
  BY <1>1, <1>2, <1>5, <1>6, SettleEffects
<1>8. LogStep /\ SentStep
  BY <1>1, <1>5 DEF LogStep, SentStep
<1>9. AckedStep
  BY <1>2, <1>3, <1>5 DEF AckedStep
<1>10. ScreenStep
  <2>1. shown \in [Device -> SUBSET (Room \X Entry)] /\ local \in [Device -> SUBSET Request]
    BY <1>1 DEF TypeOK
  <2> QED
    BY <1>2, <1>3, <1>4, <1>5, <1>7, <2>1 DEF ScreenStep
<1> QED
  BY <1>7, <1>8, <1>9, <1>10 DEF RequestStep

LEMMA PostRefusedEffects ==
  ASSUME IInv, NEW p \in posts, PostRefused(p)
  PROVE  RequestStep /\ ScreenStep
<1>1. p.dev \in Device /\ outbox[p.dev] # <<>>
  BY AwaitedType DEF PostRefused
<1>2. posts \ {p} \in SUBSET posts /\ local[p.dev] \in SUBSET local[p.dev]
  OBVIOUS
<1> QED
  BY <1>1, <1>2, SettleSteps DEF PostRefused

LEMMA StepEffects ==
  ASSUME IInv, [Next]_vars
  PROVE  RequestStep /\ ScreenStep
<1>1. CASE UNCHANGED vars
  <2>1. UNCHANGED <<log, sent, outbox, posts, acked, shown, local>>
    BY <1>1 DEF vars, server, sender, screen
  <2> QED
    BY <2>1, QuietStep, StillScreen DEF IInv
<1>2. ASSUME NEW d \in Device, Retry(d) \/ AttemptFails(d) \/ Send(d)
      PROVE  RequestStep /\ ScreenStep
  BY <1>2, RetryEffects, AttemptFailsEffects, SendEffects
<1>3. ASSUME NEW d \in Device, NEW q \in Request, Discard(d, q)
      PROVE  RequestStep /\ ScreenStep
  BY <1>3, DiscardEffects
<1>4. ASSUME NEW p \in posts, Admit(p) \/ Persist(p) \/ PostAnswered(p) \/ PostRefused(p)
      PROVE  RequestStep /\ ScreenStep
  BY <1>4, HandlerSteps, PostAnsweredEffects, PostRefusedEffects
<1> QED
  BY <1>1, <1>2, <1>3, <1>4, RoomSteps, PollSteps DEF Next

----------------------------------------------------------------------------
(* The order of a device's requests.  Its queue is sorted, and nothing it   *)
(* has posted, on its way or stored, is newer than the front of the queue:  *)
(* so a request that is answered is stored before any later one.            *)

(* The newest request of a device that may have been posted. *)
LastMade(d) == IF outbox[d] = <<>> THEN sent ELSE Head(outbox[d]).req

QueueInv ==
  \A d \in Device :
    /\ \A i \in DOMAIN outbox[d] : outbox[d][i].req <= sent
    /\ \A i, j \in DOMAIN outbox[d] : i < j => outbox[d][i].req < outbox[d][j].req
    /\ \A p \in posts : p.dev = d => p.req <= LastMade(d)
    /\ \A r \in Room : \A i \in DOMAIN log[r] :
         log[r][i].from = d => log[r][i].req <= LastMade(d)

(* What a request's answer says of the log stays true as the log grows. *)
AckedInv ==
  \A a \in acked :
    /\ Stored(a.room, a.dev, a.req)
    /\ \A i \in DOMAIN log[a.room] :
         log[a.room][i].from = a.dev /\ a.req < log[a.room][i].req
           => SeqNo(a.room, a.dev, a.req) < i

(* Nothing on a screen is of a request that is still to be made. *)
ShownInv == \A d \in Device : \A m \in shown[d] : m[2].req <= sent

LEMMA LogGrows ==
  ASSUME TypeOK, LogStep, NEW r \in Room
  PROVE  /\ log[r] \in Seq(Entry)
         /\ Len(log[r]) <= Len(log'[r])
         /\ \A i \in DOMAIN log[r] : i \in DOMAIN log'[r] /\ log'[r][i] = log[r][i]
         /\ \A i \in DOMAIN log'[r] :
              \/ i \in DOMAIN log[r]
              \/ /\ i = Len(log[r]) + 1
                 /\ \E p \in posts : /\ p.room = r
                                     /\ log'[r][i].from = p.dev
                                     /\ log'[r][i].req = p.req
<1>1. log[r] \in Seq(Entry)
  BY DEF TypeOK
<1>2. CASE log'[r] = log[r]
  BY <1>1, <1>2
<1>3. ASSUME NEW p \in posts, p.room = r,
             log'[r] = Append(log[r], [from |-> p.dev, req |-> p.req])
      PROVE  /\ Len(log[r]) <= Len(log'[r])
             /\ \A i \in DOMAIN log[r] : i \in DOMAIN log'[r] /\ log'[r][i] = log[r][i]
             /\ \A i \in DOMAIN log'[r] :
                  \/ i \in DOMAIN log[r]
                  \/ /\ i = Len(log[r]) + 1
                     /\ log'[r][i].from = p.dev
                     /\ log'[r][i].req = p.req
  <2> DEFINE e == [from |-> p.dev, req |-> p.req]
             s == log[r]
  <2>1. e \in Entry /\ e.from = p.dev /\ e.req = p.req
    BY DEF Entry, TypeOK, Post
  <2> HIDE DEF e
  <2>2. s \in Seq(Entry)
    BY <1>1
  <2> HIDE DEF s
  <2>3. /\ Len(Append(s, e)) = Len(s) + 1
        /\ DOMAIN Append(s, e) = 1..(Len(s) + 1)
        /\ DOMAIN s = 1..Len(s) /\ Len(s) \in Nat
        /\ \A i \in 1..Len(s) : Append(s, e)[i] = s[i]
        /\ Append(s, e)[Len(s) + 1] = e
    BY <2>1, <2>2
  <2>4. log'[r] = Append(s, e) /\ log[r] = s
    BY <1>3 DEF e, s
  <2> QED
    BY <2>1, <2>3, <2>4
<1>4. CASE \E p \in posts : /\ p.room = r
                            /\ log'[r] = Append(log[r], [from |-> p.dev, req |-> p.req])
  <2>1. PICK p \in posts : /\ p.room = r
                           /\ log'[r] = Append(log[r], [from |-> p.dev, req |-> p.req])
    BY <1>4
  <2> QED
    BY <1>1, <1>3, <2>1
<1> QED
  BY <1>2, <1>4 DEF LogStep

(* A stored request keeps its seq. *)
LEMMA SeqNoKept ==
  ASSUME IInv, StoredOnce', LogStep, NEW r \in Room, NEW d \in Device, NEW q, Stored(r, d, q)
  PROVE  /\ Stored(r, d, q)'
         /\ SeqNo(r, d, q)' = SeqNo(r, d, q)
<1> DEFINE e == [from |-> d, req |-> q]
           i == SeqNo(r, d, q)
<1>1. i \in DOMAIN log[r] /\ log[r][i] = e
  BY StoredAt DEF IInv
<1>2. i \in DOMAIN log'[r] /\ log'[r][i] = e
  BY <1>1, LogGrows DEF IInv
<1> HIDE DEF i
<1>3. SeqNo(r, d, q)' \in DOMAIN log'[r] /\ log'[r][SeqNo(r, d, q)'] = e
  BY <1>2 DEF SeqNo
<1>4. SeqNo(r, d, q)' = i
  BY <1>2, <1>3 DEF StoredOnce, IsInjective
<1> QED
  BY <1>2, <1>4 DEF Stored, ToSet, i

LEMMA LastMadeGrows ==
  ASSUME TypeOK, QueueInv, SentStep, QueueStep, NEW d \in Device
  PROVE  /\ LastMade(d) \in Nat /\ LastMade(d)' \in Nat
         /\ LastMade(d) <= sent
         /\ LastMade(d) <= LastMade(d)'
         /\ LastMade(d)' <= sent'
         /\ \A i \in DOMAIN outbox'[d] : outbox'[d][i].req <= sent'
         /\ \A i, j \in DOMAIN outbox'[d] : i < j => outbox'[d][i].req < outbox'[d][j].req
<1> DEFINE Q == [req : Request, room : Room]
           s == outbox[d]
<1>1. s \in Seq(Q) /\ sent \in Nat /\ sent' \in {sent, sent + 1} /\ Request \subseteq Nat
  <2>1. s \in Seq(Q)
    BY DEF TypeOK
  <2>2. sent \in Nat
    BY SentType
  <2>3. sent' \in {sent, sent + 1}
    BY <2>2 DEF SentStep
  <2>4. Request \subseteq Nat
    BY DEF Request, CounterAssumption
  <2> QED
    BY <2>1, <2>2, <2>3, <2>4
<1>2. /\ \A i \in DOMAIN s : s[i].req <= sent /\ s[i] \in Q /\ s[i].req \in Nat
      /\ \A i, j \in DOMAIN s : i < j => s[i].req < s[j].req
  <2>1. \A x \in Q : x.req \in Nat
    BY <1>1
  <2> HIDE DEF Q, s
  <2>2. \A i \in DOMAIN s : s[i] \in Q
    BY <1>1
  <2> QED
    BY <2>1, <2>2 DEF QueueInv, s
<1>3. LastMade(d) = IF s = <<>> THEN sent ELSE s[1].req
  BY <1>1 DEF LastMade
<1>4. LastMade(d)' = IF outbox'[d] = <<>> THEN sent' ELSE Head(outbox'[d]).req
  BY DEF LastMade
<1>5. \/ outbox'[d] = s
      \/ outbox'[d] = <<>>
      \/ s # <<>> /\ outbox'[d] = Tail(s)
      \/ sent' = sent + 1 /\ outbox'[d] = Append(s, [req |-> sent', room |-> code[d]])
  BY DEF QueueStep
<1> HIDE DEF Q, s
<1>6. s # <<>> => 1 \in DOMAIN s
  BY <1>1
<1>7. LastMade(d) \in Nat /\ LastMade(d) <= sent
  BY <1>1, <1>2, <1>3, <1>6
<1>8. CASE outbox'[d] = s
  <2>1. outbox'[d] # <<>> => Head(outbox'[d]) = s[1]
    BY <1>1, <1>8
  <2> QED
    BY <1>1, <1>2, <1>3, <1>4, <1>6, <1>7, <1>8, <2>1
<1>9. CASE outbox'[d] = <<>>
  BY <1>1, <1>4, <1>7, <1>9
<1>10. CASE s # <<>> /\ outbox'[d] = Tail(s)
  <2> DEFINE t == Tail(s)
  <2>1. t \in Seq(Q) /\ Len(t) = Len(s) - 1 /\ Len(s) \in Nat
        /\ DOMAIN t = 1..Len(t) /\ DOMAIN s = 1..Len(s) /\ \A i \in 1..Len(t) : t[i] = s[i + 1]
    BY <1>1, <1>10, HeadTailProperties
  <2> HIDE DEF t
  <2>2. t # <<>> => Head(t) = t[1] /\ 1 \in DOMAIN t
    BY <2>1
  <2>3. outbox'[d] = t
    BY <1>10 DEF t
  <2>4. \A i \in DOMAIN t : i \in Nat /\ i + 1 \in DOMAIN s /\ t[i] = s[i + 1]
    BY <2>1
  <2>5. t # <<>> => 1 \in DOMAIN s /\ 2 \in DOMAIN s /\ t[1] = s[2]
    BY <1>6, <1>10, <2>2, <2>4
  <2>6. CASE t = <<>>
    BY <1>1, <1>4, <1>7, <2>3, <2>6
  <2>7. CASE t # <<>>
    <3>1. LastMade(d)' = s[2].req /\ LastMade(d) = s[1].req
      BY <1>3, <1>4, <1>10, <2>2, <2>3, <2>5, <2>7
    <3>2. s[1].req < s[2].req /\ s[2].req <= sent /\ s[2].req \in Nat /\ s[1].req \in Nat
      BY <1>2, <2>5, <2>7
    <3>3. \A i \in DOMAIN t : t[i].req <= sent /\ t[i].req \in Nat
      BY <1>2, <2>4
    <3>4. \A i, j \in DOMAIN t : i < j => t[i].req < t[j].req
      BY <1>2, <2>4
    <3> QED
      BY <1>1, <2>3, <3>1, <3>2, <3>3, <3>4
  <2> QED
    BY <2>6, <2>7
<1>11. CASE sent' = sent + 1 /\ outbox'[d] = Append(s, [req |-> sent', room |-> code[d]])
  <2> DEFINE e == [req |-> sent', room |-> code[d]]
             t == Append(s, e)
  <2>1. e.req = sent'
    OBVIOUS
  <2> HIDE DEF e
  <2>2. /\ Len(t) = Len(s) + 1 /\ Len(s) \in Nat
        /\ DOMAIN t = 1..(Len(s) + 1) /\ DOMAIN s = 1..Len(s)
        /\ \A i \in DOMAIN s : t[i] = s[i]
        /\ t[Len(s) + 1] = e
        /\ t # <<>> /\ Head(t) = t[1]
    <3>1. s \in Seq(Q \cup {e}) /\ e \in Q \cup {e}
      BY <1>1, SeqMonotonic
    <3> QED
      BY <3>1, AppendProperties
  <2> HIDE DEF t
  <2>3. outbox'[d] = t
    BY <1>11 DEF e, t
  <2>4. \A i \in DOMAIN t : i \in DOMAIN s \/ i = Len(s) + 1
    BY <2>2
  <2>5. \A i \in DOMAIN t : t[i].req <= sent' /\ t[i].req \in Nat
    BY <1>1, <1>2, <1>11, <2>1, <2>2, <2>4
  <2>6. \A i, j \in DOMAIN t : i < j => t[i].req < t[j].req
    <3> SUFFICES ASSUME NEW i \in DOMAIN t, NEW j \in DOMAIN t, i < j
                 PROVE  t[i].req < t[j].req
      OBVIOUS
    <3>1. i \in DOMAIN s
      BY <2>2
    <3>2. CASE j \in DOMAIN s
      BY <1>2, <2>2, <3>1, <3>2
    <3>3. CASE j = Len(s) + 1
      BY <1>1, <1>2, <1>11, <2>1, <2>2, <3>1, <3>3
    <3> QED
      BY <2>4, <3>2, <3>3
  <2>7. LastMade(d)' = t[1].req
    BY <1>4, <2>2, <2>3
  <2>8. CASE s = <<>>
    <3>1. Len(s) = 0
      BY <2>8
    <3> QED
      BY <1>1, <1>3, <1>7, <1>11, <2>1, <2>2, <2>3, <2>5, <2>6, <2>7, <2>8, <3>1
  <2>9. CASE s # <<>>
    BY <1>1, <1>2, <1>3, <1>6, <1>7, <1>11, <2>2, <2>3, <2>5, <2>6, <2>7, <2>9
  <2> QED
    BY <2>8, <2>9
<1> QED
  BY <1>5, <1>8, <1>9, <1>10, <1>11

LEMMA QueueInvStep ==
  ASSUME IInv, IInv', QueueInv, RequestStep
  PROVE  QueueInv'
<1>1. TypeOK /\ TypeOK' /\ LogStep /\ SentStep /\ QueueStep /\ PostsStep
  BY DEF IInv, RequestStep
<1> SUFFICES ASSUME NEW d \in Device
             PROVE  /\ \A i \in DOMAIN outbox'[d] : outbox'[d][i].req <= sent'
                    /\ \A i, j \in DOMAIN outbox'[d] :
                         i < j => outbox'[d][i].req < outbox'[d][j].req
                    /\ \A p \in posts' : p.dev = d => p.req <= LastMade(d)'
                    /\ \A r \in Room : \A i \in DOMAIN log'[r] :
                         log'[r][i].from = d => log'[r][i].req <= LastMade(d)'
  BY DEF QueueInv
<1>2. /\ LastMade(d) \in Nat /\ LastMade(d)' \in Nat
      /\ LastMade(d) <= LastMade(d)'
      /\ \A i \in DOMAIN outbox'[d] : outbox'[d][i].req <= sent'
      /\ \A i, j \in DOMAIN outbox'[d] : i < j => outbox'[d][i].req < outbox'[d][j].req
  BY <1>1, LastMadeGrows
<1>3. /\ \A p \in posts : p.dev = d => p.req <= LastMade(d)
      /\ \A r \in Room : \A i \in DOMAIN log[r] :
           log[r][i].from = d => log[r][i].req <= LastMade(d)
  BY DEF QueueInv
<1>4. /\ \A p \in posts : p.req \in Nat
      /\ \A r \in Room : \A i \in DOMAIN log[r] : log[r][i].req \in Nat
  <2>1. Request \subseteq Nat
    BY DEF Request, CounterAssumption
  <2>2. \A r \in Room : \A i \in DOMAIN log[r] : log[r][i] \in Entry
    BY <1>1 DEF TypeOK
  <2> QED
    BY <1>1, <2>1, <2>2 DEF TypeOK, Post, Entry
<1>5. \A p \in posts' : p.dev = d => p.req <= LastMade(d)'
  <2> SUFFICES ASSUME NEW p \in posts', p.dev = d
               PROVE  p.req <= LastMade(d)'
    OBVIOUS
  <2>1. CASE \E o \in posts : SameTurn(o, p)
    BY <1>2, <1>3, <1>4, <2>1 DEF SameTurn
  <2>2. CASE AtFront(p.dev, p.room, p.req)'
    BY <1>2, <2>2 DEF AtFront, LastMade
  <2> QED
    BY <1>1, <2>1, <2>2 DEF PostsStep
<1>6. ASSUME NEW r \in Room, NEW i \in DOMAIN log'[r], log'[r][i].from = d
      PROVE  log'[r][i].req <= LastMade(d)'
  <2>1. CASE i \in DOMAIN log[r]
    <3>1. log'[r][i] = log[r][i]
      BY <1>1, <2>1, LogGrows
    <3> QED
      BY <1>2, <1>3, <1>4, <1>6, <2>1, <3>1
  <2>2. CASE \E p \in posts : log'[r][i].from = p.dev /\ log'[r][i].req = p.req
    BY <1>2, <1>3, <1>4, <1>6, <2>2
  <2> QED
    BY <1>1, <2>1, <2>2, LogGrows
<1> QED
  BY <1>2, <1>5, <1>6

LEMMA AckedInvStep ==
  ASSUME IInv, IInv', QueueInv, AckedInv, RequestStep
  PROVE  AckedInv'
<1>1. TypeOK /\ TypeOK' /\ StoredOnce' /\ LogStep /\ AckedStep
  BY DEF IInv, RequestStep
<1> SUFFICES ASSUME NEW a \in acked'
             PROVE  /\ Stored(a.room, a.dev, a.req)'
                    /\ \A i \in DOMAIN log'[a.room] :
                         log'[a.room][i].from = a.dev /\ a.req < log'[a.room][i].req
                           => SeqNo(a.room, a.dev, a.req)' < i
  BY DEF AckedInv
<1>2. a.room \in Room /\ a.dev \in Device /\ a.req \in Request /\ a.req \in Nat
  BY SMTT(30), <1>1 DEF TypeOK, Request, CounterAssumption
<1> DEFINE r == a.room
           seq == SeqNo(r, a.dev, a.req)
<1>3. CASE a \in acked
  <2>1. /\ Stored(r, a.dev, a.req)
        /\ \A i \in DOMAIN log[r] :
             log[r][i].from = a.dev /\ a.req < log[r][i].req => seq < i
    BY <1>3 DEF AckedInv
  <2>2. Stored(r, a.dev, a.req)' /\ SeqNo(r, a.dev, a.req)' = seq
    BY <1>1, <1>2, <2>1, SeqNoKept
  <2>3. seq \in Nat /\ seq \in DOMAIN log[r] /\ log[r] \in Seq(Entry)
    BY <1>1, <1>2, <2>1, StoredAt DEF TypeOK
  <2> HIDE DEF seq
  <2>4. seq < Len(log[r]) + 1
    BY <2>3
  <2>5. ASSUME NEW i \in DOMAIN log'[r], log'[r][i].from = a.dev, a.req < log'[r][i].req
        PROVE  seq < i
    <3>1. CASE i \in DOMAIN log[r]
      BY <1>1, <1>2, <2>1, <2>5, <3>1, LogGrows
    <3>2. CASE i = Len(log[r]) + 1
      BY <2>4, <3>2
    <3> QED
      BY <1>1, <1>2, <3>1, <3>2, LogGrows
  <2> QED
    BY <2>2, <2>5 DEF seq
<1>4. CASE a \notin acked
  <2>1. /\ log' = log
        /\ Stored(r, a.dev, a.req)
        /\ LastMade(a.dev) = a.req
    BY <1>1, <1>4 DEF AckedStep, LastMade
  <2>2. \A i \in DOMAIN log[r] : log[r][i].from = a.dev => log[r][i].req <= a.req
    BY <1>2, <2>1 DEF QueueInv
  <2>3. \A i \in DOMAIN log[r] : log[r][i].req \in Nat
    <3>1. log[r] \in Seq(Entry)
      BY <1>1, <1>2 DEF TypeOK
    <3>2. \A i \in DOMAIN log[r] : log[r][i] \in Entry
      BY <3>1
    <3> QED
      BY <3>2 DEF Entry, Request, CounterAssumption
  <2>4. \A i \in DOMAIN log[r] : ~(log[r][i].from = a.dev /\ a.req < log[r][i].req)
    BY <1>2, <2>2, <2>3
  <2>5. Stored(r, a.dev, a.req)'
    BY <2>1 DEF Stored
  <2> QED
    BY <2>1, <2>4, <2>5
<1> QED
  BY <1>3, <1>4

(* What comes to a screen has been posted, so nothing shown is as new as    *)
(* the next request.                                                        *)
LEMMA ShownStep ==
  ASSUME IInv, IInv', QueueInv, ShownInv, ShownOnce, RequestStep, ScreenStep
  PROVE  ShownInv' /\ ShownOnce'
<1>1. TypeOK /\ TypeOK' /\ SentStep /\ QueueStep /\ sent \in Nat /\ sent' \in Nat /\ sent <= sent'
  BY SentType DEF IInv, RequestStep, SentStep
<1>2. ASSUME NEW r \in Room, NEW e \in ToSet(log[r])
      PROVE  e.req <= sent /\ e.req \in Nat
  <2>1. PICK i \in DOMAIN log[r] : e = log[r][i]
    BY DEF ToSet
  <2>2. log[r] \in Seq(Entry)
    BY <1>1 DEF TypeOK
  <2>3. e \in Entry
    BY <2>1, <2>2
  <2>4. e.from \in Device /\ e.req \in Nat
    BY <2>3 DEF Entry, Request, CounterAssumption
  <2>5. e.req <= LastMade(e.from)
    BY <2>1, <2>4 DEF QueueInv
  <2>6. LastMade(e.from) \in Nat /\ LastMade(e.from) <= sent
    BY <1>1, <2>4, LastMadeGrows
  <2> QED
    BY <1>1, <2>4, <2>5, <2>6
<1>3. ASSUME NEW d \in Device, NEW m \in shown'[d]
      PROVE  m[2].req <= sent /\ m[2].req \in Nat
  <2>1. CASE m \in shown[d]
    <3>1. m[2] \in Entry
      BY <1>1, <2>1 DEF TypeOK
    <3> QED
      BY <2>1, <3>1 DEF ShownInv, Entry, Request, CounterAssumption
  <2>2. CASE m[1] \in Room /\ m[2] \in ToSet(log[m[1]])
    BY <1>2, <2>2
  <2> QED
    BY <2>1, <2>2 DEF ScreenStep
<1>4. ShownInv'
  BY <1>1, <1>3 DEF ShownInv
<1>5. ASSUME NEW d \in Device, NEW q \in Request, q \in local'[d], NEW m \in shown'[d],
             m[2].req = q
      PROVE  FALSE
  <2>1. CASE q \in local[d]
    BY <1>5, <2>1 DEF ShownOnce, ScreenStep
  <2>2. CASE q \in (sent + 1)..sent'
    BY <1>1, <1>3, <1>5, <2>2
  <2> QED
    BY <1>5, <2>1, <2>2 DEF ScreenStep
<1> QED
  BY <1>4, <1>5 DEF ShownOnce

----------------------------------------------------------------------------
(* Where a device has been.  The desk moves on from room to room and never  *)
(* back, a visitor's device has one room; so whatever arrives late at a     *)
(* device in the first room it has is of that room.                         *)

(* The rooms a device has been in. *)
Been(d, r) == IF d = Desk THEN r <= opened ELSE r = d /\ code[d] = d

CodeInv ==
  /\ code[Desk] \in {0, opened}
  /\ \A r \in Guests : code[r] \in {0, r}

BeenInv ==
  /\ \A p \in polls : Been(p.dev, p.room)
  /\ \A p \in posts : Been(p.dev, p.room)
  /\ \A d \in Device : \A i \in DOMAIN outbox[d] : Been(d, outbox[d][i].room)

InFirstRoom(d) == code[d] \in {1, d} \ {0}

(* A poll asks for what lies above its device's cursor or some of what lies *)
(* below, and is answered with what there is.                               *)
PollsInv ==
  \A p \in polls :
    /\ InFirstRoom(p.dev) => p.since <= cursor[p.dev]
    /\ p.stage = "answered" => p.upto <= Len(log[p.room])

(* What a step may do to the places, the polls and the screens. *)
MoveStep ==
  \/ /\ opened' = opened
     /\ \/ code' = code
        \/ code' = [code EXCEPT ![Desk] = 0]
        \/ \E r \in Room : /\ code[r] = 0
                           /\ code' = [code EXCEPT ![r] = r]
                           /\ cursor'[r] = 0
  \/ /\ opened' = opened + 1
     /\ code' = [code EXCEPT ![Desk] = opened']
     /\ cursor'[Desk] = 0

PollStep ==
  \A p \in polls' :
    \/ \E o \in polls :
         /\ p.dev = o.dev /\ p.room = o.room /\ p.since = o.since
         /\ p.stage = "answered" =>
              \/ p.upto = Len(log[p.room])
              \/ o.stage = "answered" /\ p.upto = o.upto
    \/ /\ UNCHANGED <<code, cursor>>
       /\ code[p.dev] # 0
       /\ p.room = code[p.dev]
       /\ p.since = cursor[p.dev]
       /\ p.stage = "asked"

ViewStep ==
  \A d \in Device :
    code'[d] = code[d] /\ code[d] # 0 =>
      /\ shown[d] \subseteq shown'[d]
      /\ cursor[d] <= cursor'[d]
      /\ \/ cursor'[d] = cursor[d]
         \/ \E p \in polls : /\ p.dev = d
                             /\ p.stage = "answered"
                             /\ cursor'[d] = p.upto
                             /\ Messages(p.room, p.since, p.upto) \subseteq shown'[d]
         \/ \E p \in posts : p.dev = d /\ Stored(p.room, d, p.req)

WatchStep == MoveStep /\ PollStep /\ ViewStep

LEMMA QuietWatch ==
  ASSUME TypeOK, UNCHANGED <<code, cursor, shown, polls, opened>>
  PROVE  WatchStep
<1>1. \A d \in Device : cursor[d] \in Nat
  BY DEF TypeOK
<1> QED
  BY <1>1 DEF WatchStep, MoveStep, PollStep, ViewStep

(* A device that moves starts anew; the others see nothing of it. *)
LEMMA MoveEffects ==
  ASSUME TypeOK, NEW d \in Device, NEW r \in Room \cup {0}, MoveTo(d, r),
         code[d] = 0 \/ r = 0, polls' = polls
  PROVE  /\ code' = [code EXCEPT ![d] = r]
         /\ r # 0 => cursor'[d] = 0
         /\ PollStep /\ ViewStep
<1>1. /\ code \in [Device -> Room \cup {0}]
      /\ cursor \in [Device -> Nat]
      /\ shown \in [Device -> SUBSET (Room \X Entry)]
  BY DEF TypeOK
<1>2. /\ code' = [code EXCEPT ![d] = r]
      /\ shown' = [shown EXCEPT ![d] = {}]
      /\ cursor' = IF r = 0 THEN cursor ELSE [cursor EXCEPT ![d] = 0]
  BY DEF MoveTo, PollFor
<1>3. PollStep
  BY DEF PollStep
<1>4. ViewStep
  BY <1>1, <1>2 DEF ViewStep
<1> QED
  BY <1>1, <1>2, <1>3, <1>4

LEMMA MoveSteps ==
  ASSUME IInv, Start \/ NextVisitor \/ \E r \in Room : Join(r)
  PROVE  WatchStep
<1>1. TypeOK /\ Desk \in Device /\ Room \subseteq Device
  BY DEF IInv, Device, Guests
<1>2. CASE Start
  <2>1. opened + 1 \in Room
    BY <1>1, <1>2 DEF Start, TypeOK, Room, CounterAssumption
  <2>2. opened + 1 # 0
    BY <2>1 DEF Room
  <2> QED
    BY <1>1, <1>2, <2>1, <2>2, MoveEffects DEF Start, WatchStep, MoveStep
<1>3. CASE NextVisitor
  BY <1>1, <1>3, MoveEffects DEF NextVisitor, WatchStep, MoveStep
<1>4. ASSUME NEW r \in Room, Join(r)
      PROVE  WatchStep
  <2>1. r # 0
    BY DEF Room
  <2> QED
    BY <1>1, <1>4, <2>1, MoveEffects DEF Join, WatchStep, MoveStep
<1> QED
  BY <1>2, <1>3, <1>4

LEMMA PollWatch ==
  ASSUME IInv, \/ \E d \in Device : StartPoll(d)
               \/ \E p \in polls : PollReads(p) \/ PollGone(p) \/ PollFails(p)
  PROVE  WatchStep
<1>1. TypeOK /\ \A d \in Device : cursor[d] \in Nat
  BY DEF IInv, TypeOK
<1>2. UNCHANGED <<code, cursor, shown, opened>>
  BY DEF StartPoll, PollReads, PollGone, PollFails, screen, life
<1>3. MoveStep /\ ViewStep
  BY <1>1, <1>2 DEF MoveStep, ViewStep
<1>4. PollStep
  <2>1. CASE \E p \in polls : PollGone(p) \/ PollFails(p)
    BY <2>1 DEF PollGone, PollFails, PollStep
  <2>2. ASSUME NEW d \in Device, StartPoll(d)
        PROVE  PollStep
    BY <1>2, <2>2 DEF StartPoll, PollStep
  <2>3. ASSUME NEW p \in polls, PollReads(p)
        PROVE  PollStep
    <3> DEFINE a == [p EXCEPT !.stage = "answered", !.upto = ViewSeq(p.room)]
               g == [p EXCEPT !.stage = "gone"]
    <3>1. polls' = (polls \ {p}) \cup {a} \/ polls' = (polls \ {p}) \cup {g}
      BY <2>3 DEF PollReads
    <3>2. p \in Poll
      BY <1>1 DEF TypeOK
    <3>3. /\ a.dev = p.dev /\ a.room = p.room /\ a.since = p.since
          /\ a.upto = Len(log[a.room])
          /\ g.dev = p.dev /\ g.room = p.room /\ g.since = p.since /\ g.stage = "gone"
      BY <3>2 DEF Poll, ViewSeq
    <3> HIDE DEF a, g
    <3> QED
      BY <3>1, <3>3 DEF PollStep
  <2> QED
    BY <2>1, <2>2, <2>3
<1> QED
  BY <1>3, <1>4 DEF WatchStep

LEMMA AnswerWatch ==
  ASSUME IInv, NEW p \in polls, PollAnswered(p)
  PROVE  WatchStep
<1>1. /\ TypeOK /\ p.dev \in Device /\ p.upto \in Nat
      /\ cursor \in [Device -> Nat]
      /\ shown \in [Device -> SUBSET (Room \X Entry)]
  BY DEF IInv, TypeOK, Poll
<1>2. MoveStep /\ PollStep
  BY DEF PollAnswered, MoveStep, PollStep
<1>3. CASE stopped[p.dev]
  BY <1>1, <1>2, <1>3 DEF PollAnswered, screen, WatchStep, ViewStep
<1>4. CASE ~stopped[p.dev]
  <2> DEFINE ms == Messages(p.room, p.since, p.upto)
             top == Max({cursor[p.dev], p.upto})
  <2>1. /\ shown' = [shown EXCEPT ![p.dev] = @ \cup ms]
        /\ cursor' = [cursor EXCEPT ![p.dev] = top]
        /\ p.stage = "answered"
    BY <1>4 DEF PollAnswered, Show, AdvanceCursor
  <2>2. top \in Nat /\ cursor[p.dev] <= top /\ top \in {cursor[p.dev], p.upto}
    BY <1>1, MaxOfTwo
  <2> HIDE DEF top
  <2>3. ms = Messages(p.room, p.since, p.upto)
    OBVIOUS
  <2> HIDE DEF ms
  <2>4. ViewStep
    <3> SUFFICES ASSUME NEW d \in Device
                 PROVE  /\ shown[d] \subseteq shown'[d]
                        /\ cursor[d] <= cursor'[d]
                        /\ \/ cursor'[d] = cursor[d]
                           \/ d = p.dev /\ cursor'[d] = p.upto /\ ms \subseteq shown'[d]
      BY <2>1, <2>3 DEF ViewStep
    <3>1. CASE d = p.dev
      BY <1>1, <2>1, <2>2, <3>1
    <3>2. CASE d # p.dev
      BY <1>1, <2>1, <3>2
    <3> QED
      BY <3>1, <3>2
  <2> QED
    BY <1>2, <2>4 DEF WatchStep
<1> QED
  BY <1>3, <1>4

LEMMA PostWatch ==
  ASSUME IInv, NEW p \in posts, PostAnswered(p)
  PROVE  WatchStep
<1> DEFINE d == p.dev
           seq == SeqNo(p.room, d, p.req)
           message == <<p.room, log[p.room][seq]>>
           top == Max({cursor[d], seq})
<1>1. TypeOK /\ AnswersInv /\ Awaited(p) /\ p.stage = "stored"
  BY DEF IInv, PostAnswered
<1>2. d \in Device /\ p.room \in Room
  BY <1>1, AwaitedType
<1>3. Stored(p.room, d, p.req) /\ seq \in Nat
  BY <1>1, <1>2, StoredAt DEF AnswersInv
<1>4. cursor \in [Device -> Nat] /\ shown \in [Device -> SUBSET (Room \X Entry)]
  BY <1>1 DEF TypeOK
<1>5. top \in Nat /\ cursor[d] <= top
  BY <1>2, <1>3, <1>4, MaxOfTwo
<1>6. /\ shown' = [shown EXCEPT ![d] = @ \cup {message}]
      /\ cursor' = [cursor EXCEPT ![d] = top]
      /\ UNCHANGED <<code, polls, opened>>
  BY DEF PostAnswered, Show, AdvanceCursor, life
<1> HIDE DEF seq, message, top
<1>7. MoveStep /\ PollStep
  BY <1>6 DEF MoveStep, PollStep
<1>8. ViewStep
  <2> SUFFICES ASSUME NEW e \in Device
               PROVE  /\ shown[e] \subseteq shown'[e]
                      /\ cursor[e] <= cursor'[e]
                      /\ cursor'[e] = cursor[e] \/ e = d
    BY <1>3 DEF ViewStep
  <2>1. CASE e = d
    BY <1>2, <1>4, <1>5, <1>6, <2>1
  <2>2. CASE e # d
    BY <1>2, <1>4, <1>6, <2>2
  <2> QED
    BY <2>1, <2>2
<1> QED
  BY <1>7, <1>8 DEF WatchStep

LEMMA WatchEffects ==
  ASSUME IInv, [Next]_vars
  PROVE  WatchStep
<1>1. TypeOK
  BY DEF IInv
<1>2. CASE UNCHANGED <<code, cursor, shown, polls, opened>>
  BY <1>1, <1>2, QuietWatch
<1>3. CASE UNCHANGED vars
  BY <1>2, <1>3 DEF vars, screen, life
<1>4. CASE \E r \in Room : Expire(r)
  BY <1>2, <1>4 DEF Expire, screen, life
<1>5. CASE \E d \in Device : \/ End(d) \/ DeleteSettles(d) \/ Send(d) \/ Retry(d)
                             \/ AttemptFails(d) \/ \E q \in Request : Discard(d, q)
  BY <1>2, <1>5 DEF End, DeleteSettles, Send, Retry, AttemptFails, Discard, screen, life
<1>6. CASE \E p \in posts : Admit(p) \/ Persist(p) \/ PostRefused(p)
  BY <1>2, <1>6 DEF Admit, Persist, PostRefused, screen, life
<1> QED
  BY <1>3, <1>4, <1>5, <1>6, MoveSteps, PollWatch, AnswerWatch, PostWatch DEF Next

(* Been in the next state, of a room given in any terms. *)
BeenNext(d, r) == IF d = Desk THEN r <= opened' ELSE r = d /\ code'[d] = d

LEMMA BeenStays ==
  ASSUME TypeOK, CodeInv, MoveStep, NEW d \in Device, NEW r \in Room, Been(d, r)
  PROVE  BeenNext(d, r)
<1>1. opened \in Nat /\ r \in Nat /\ code \in [Device -> Room \cup {0}]
  BY DEF TypeOK, Room, CounterAssumption
<1>2. 0 \notin Room /\ Desk = 0 /\ Room \subseteq Device
  BY DEF Room, Desk, Device, Guests
<1>3. CASE d = Desk
  BY <1>1, <1>3 DEF Been, BeenNext, MoveStep
<1>4. CASE d # Desk
  <2>1. code[d] = d /\ r = d /\ d # 0
    BY <1>2, <1>4 DEF Been
  <2>2. code'[d] = d
    BY <1>1, <1>2, <1>4, <2>1 DEF MoveStep
  <2> QED
    BY <1>4, <2>1, <2>2 DEF BeenNext
<1> QED
  BY <1>3, <1>4

(* A device has been where it is. *)
LEMMA BeenHere ==
  ASSUME TypeOK, CodeInv, NEW d \in Device, code[d] # 0
  PROVE  code[d] \in Room /\ Been(d, code[d])
<1>1. opened \in Nat /\ code[d] \in Room
  BY DEF TypeOK, Room, CounterAssumption
<1>2. CASE d = Desk
  BY <1>1, <1>2 DEF CodeInv, Been
<1>3. CASE d # Desk
  BY <1>1, <1>3 DEF CodeInv, Been, Device
<1> QED
  BY <1>1, <1>2, <1>3

(* In its first room a device has been nowhere else. *)
LEMMA BeenOnlyHere ==
  ASSUME TypeOK, CodeInv, NEW d \in Device, InFirstRoom(d), NEW r \in Room, Been(d, r)
  PROVE  r = code[d]
<1>1. r \in Nat /\ r >= 1 /\ opened \in Nat
  BY DEF TypeOK, Room, CounterAssumption
<1>2. CASE d = Desk
  <2>1. code[d] = 1 /\ opened = 1
    BY <1>2 DEF InFirstRoom, CodeInv, Desk
  <2> QED
    BY <1>1, <1>2, <2>1 DEF Been
<1>3. CASE d # Desk
  BY <1>3 DEF Been
<1> QED
  BY <1>2, <1>3

LEMMA CodeInvStep ==
  ASSUME TypeOK, CodeInv, MoveStep, opened' = opened + 1 => code[Desk] = 0
  PROVE  CodeInv'
<1>1. code \in [Device -> Room \cup {0}] /\ Desk \in Device /\ Room \subseteq Device
      /\ Guests = Room /\ Desk \notin Room /\ Desk = 0
  BY SMTT(30) DEF TypeOK, Device, Guests, Desk, Room
<1> QED
  BY <1>1 DEF CodeInv, MoveStep

LEMMA BeenInvStep ==
  ASSUME IInv, IInv', CodeInv, BeenInv, RequestStep, WatchStep
  PROVE  BeenInv'
<1>1. TypeOK /\ TypeOK' /\ QueueStep /\ PostsStep /\ MoveStep /\ PollStep
  BY DEF IInv, RequestStep, WatchStep
<1>2. ASSUME NEW d \in Device, NEW i \in DOMAIN outbox'[d]
      PROVE  BeenNext(d, outbox'[d][i].room)
  <2> DEFINE Q == [req : Request, room : Room]
             s == outbox[d]
  <2>1. s \in Seq(Q) /\ \A j \in DOMAIN s : Been(d, s[j].room)
    BY <1>1 DEF TypeOK, BeenInv
  <2> HIDE DEF s
  <2>2. \A j \in DOMAIN s : s[j].room \in Room
    <3>1. \A x \in Q : x.room \in Room
      OBVIOUS
    <3> HIDE DEF Q
    <3> QED
      BY <2>1, <3>1
  <2> HIDE DEF Q
  <2>3. \A j \in DOMAIN s : BeenNext(d, s[j].room)
    BY <1>1, <2>1, <2>2, BeenStays
  <2>4. CASE outbox'[d] = s
    BY <2>3, <2>4
  <2>5. CASE outbox'[d] = <<>>
    BY <2>5
  <2>6. CASE s # <<>> /\ outbox'[d] = Tail(s)
    <3>1. i + 1 \in DOMAIN s /\ outbox'[d][i] = s[i + 1]
      BY <2>1, <2>6, HeadTailProperties
    <3> QED
      BY <2>3, <3>1
  <2>7. CASE code[d] # 0 /\ outbox'[d] = Append(s, [req |-> sent', room |-> code[d]])
    <3> DEFINE e == [req |-> sent', room |-> code[d]]
    <3>1. e.room = code[d] /\ outbox'[d] = Append(s, e)
      BY <2>7
    <3> HIDE DEF e
    <3>2. /\ i \in DOMAIN s /\ outbox'[d][i] = s[i]
          \/ outbox'[d][i] = e
      <4>1. s \in Seq(Q \cup {e}) /\ e \in Q \cup {e}
        BY <2>1, SeqMonotonic
      <4> QED
        BY <3>1, <4>1, AppendProperties
    <3>3. BeenNext(d, code[d])
      BY <1>1, <2>7, BeenHere, BeenStays
    <3> QED
      BY <2>3, <3>1, <3>2, <3>3
  <2> QED
    BY <1>1, <2>4, <2>5, <2>6, <2>7 DEF QueueStep, s
<1>3. ASSUME NEW p \in polls'
      PROVE  BeenNext(p.dev, p.room)
  <2>1. \A o \in polls : o.dev \in Device /\ o.room \in Room /\ Been(o.dev, o.room)
    BY <1>1 DEF TypeOK, Poll, BeenInv
  <2>2. p.dev \in Device
    BY <1>1 DEF TypeOK, Poll
  <2>3. CASE \E o \in polls : p.dev = o.dev /\ p.room = o.room
    BY <1>1, <2>1, <2>3, BeenStays
  <2>4. CASE code[p.dev] # 0 /\ p.room = code[p.dev]
    BY <1>1, <2>2, <2>4, BeenHere, BeenStays
  <2> QED
    BY <1>1, <2>3, <2>4 DEF PollStep
<1>4. ASSUME NEW p \in posts'
      PROVE  BeenNext(p.dev, p.room)
  <2>1. \A o \in posts : o.dev \in Device /\ o.room \in Room /\ Been(o.dev, o.room)
    BY <1>1 DEF TypeOK, Post, BeenInv
  <2>2. p.dev \in Device
    BY <1>1 DEF TypeOK, Post
  <2>3. CASE \E o \in posts : SameTurn(o, p)
    BY <1>1, <2>1, <2>3, BeenStays DEF SameTurn
  <2>4. CASE AtFront(p.dev, p.room, p.req)'
    <3>1. outbox'[p.dev] # <<>> /\ p.room = Head(outbox'[p.dev]).room
      BY <2>4 DEF AtFront
    <3>2. outbox'[p.dev] \in Seq([req : Request, room : Room])
      BY <1>1, <2>2 DEF TypeOK
    <3>3. 1 \in DOMAIN outbox'[p.dev] /\ Head(outbox'[p.dev]) = outbox'[p.dev][1]
      BY <3>1, <3>2
    <3> QED
      BY <1>2, <2>2, <3>1, <3>3
  <2> QED
    BY <1>1, <2>3, <2>4 DEF PostsStep
<1> QED
  BY <1>2, <1>3, <1>4 DEF BeenInv, Been, BeenNext

(* Where a device is in its first room, it was there already, or has just   *)
(* come and has never polled.                                               *)
LEMMA FirstRoomStep ==
  ASSUME TypeOK, TypeOK', CodeInv, BeenInv, MoveStep,
         NEW d \in Device, InFirstRoom(d)'
  PROVE  \/ code'[d] = code[d] /\ code[d] # 0 /\ InFirstRoom(d)
         \/ cursor'[d] = 0 /\ \A p \in polls : p.dev # d
<1>1. /\ code \in [Device -> Room \cup {0}] /\ Room \subseteq Device
      /\ 0 \notin Room /\ Desk \in Device /\ Desk = 0
      /\ opened \in Nat /\ code'[d] # 0
  <2>1. 0 \notin Room /\ opened \in Nat
    BY DEF TypeOK, Room, CounterAssumption
  <2> QED
    BY <2>1 DEF TypeOK, Device, Guests, Desk, InFirstRoom
<1>2. CASE code'[d] = code[d]
  BY <1>1, <1>2 DEF InFirstRoom
<1>3. ASSUME NEW r \in Room, code[r] = 0, code' = [code EXCEPT ![r] = r], cursor'[r] = 0,
             d = r
      PROVE  cursor'[d] = 0 /\ \A p \in polls : p.dev # d
  BY <1>1, <1>3 DEF BeenInv, Been
<1>4. CASE /\ opened' = opened + 1
           /\ code' = [code EXCEPT ![Desk] = opened']
           /\ cursor'[Desk] = 0
           /\ d = Desk
  <2>1. opened = 0
    BY <1>1, <1>4 DEF InFirstRoom
  <2>2. \A p \in polls : p.dev # d
    <3> SUFFICES ASSUME NEW p \in polls, p.dev = Desk
                 PROVE  FALSE
      BY <1>4
    <3>1. p.room \in Room /\ p.room <= opened
      BY DEF TypeOK, Poll, BeenInv, Been
    <3> QED
      BY <2>1, <3>1 DEF Room, CounterAssumption
  <2> QED
    BY <1>4, <2>2
<1> QED
  BY <1>1, <1>2, <1>3, <1>4 DEF MoveStep

LEMMA PollsInvStep ==
  ASSUME IInv, IInv', CodeInv, BeenInv, PollsInv, RequestStep, WatchStep
  PROVE  PollsInv'
<1>1. TypeOK /\ TypeOK' /\ LogStep /\ MoveStep /\ PollStep /\ ViewStep
  BY DEF IInv, RequestStep, WatchStep
<1> SUFFICES ASSUME NEW p \in polls'
             PROVE  /\ InFirstRoom(p.dev)' => p.since <= cursor'[p.dev]
                    /\ p.stage = "answered" => p.upto <= Len(log'[p.room])
  BY DEF PollsInv
<1>2. p.dev \in Device /\ p.room \in Room
  BY <1>1 DEF TypeOK, Poll
<1>3. cursor[p.dev] \in Nat /\ cursor'[p.dev] \in Nat
  BY <1>1, <1>2 DEF TypeOK
<1>4. /\ Len(log[p.room]) \in Nat /\ Len(log'[p.room]) \in Nat
      /\ Len(log[p.room]) <= Len(log'[p.room])
  <2>1. log[p.room] \in Seq(Entry) /\ log'[p.room] \in Seq(Entry)
    BY <1>1, <1>2 DEF TypeOK
  <2>2. Len(log[p.room]) <= Len(log'[p.room])
    BY <1>1, <1>2, LogGrows
  <2> QED
    BY <2>1, <2>2
<1>5. ASSUME NEW o \in polls, p.dev = o.dev, p.room = o.room, p.since = o.since,
             p.stage = "answered" =>
               \/ p.upto = Len(log[p.room])
               \/ o.stage = "answered" /\ p.upto = o.upto
      PROVE  /\ InFirstRoom(p.dev)' => p.since <= cursor'[p.dev]
             /\ p.stage = "answered" => p.upto <= Len(log'[p.room])
  <2>1. o \in Poll /\ o.since \in Nat /\ o.upto \in Nat
    BY <1>1 DEF TypeOK, Poll
  <2>2. /\ InFirstRoom(o.dev) => o.since <= cursor[o.dev]
        /\ o.stage = "answered" => o.upto <= Len(log[o.room])
    BY DEF PollsInv
  <2>3. InFirstRoom(p.dev)' => p.since <= cursor'[p.dev]
    <3> SUFFICES ASSUME InFirstRoom(p.dev)'
                 PROVE  p.since <= cursor'[p.dev]
      OBVIOUS
    <3>1. code'[p.dev] = code[p.dev] /\ code[p.dev] # 0 /\ InFirstRoom(p.dev)
      BY <1>1, <1>2, <1>5, FirstRoomStep
    <3>2. cursor[p.dev] <= cursor'[p.dev]
      BY <1>1, <1>2, <3>1 DEF ViewStep
    <3> QED
      BY <1>3, <1>5, <2>1, <2>2, <3>1, <3>2
  <2>4. p.stage = "answered" => p.upto <= Len(log'[p.room])
    BY <1>4, <1>5, <2>1, <2>2
  <2> QED
    BY <2>3, <2>4
<1>6. CASE /\ UNCHANGED <<code, cursor>>
           /\ p.since = cursor[p.dev]
           /\ p.stage = "asked"
  BY <1>3, <1>6
<1> QED
  BY <1>1, <1>5, <1>6 DEF PollStep

(* The screen of a device that only listens.  A poll that arrives late asks *)
(* for all that lies above its own `since`, which lies below the cursor;    *)
(* an answered post would be of a turn the device has made.                 *)
LEMMA ListenerStep ==
  ASSUME IInv, IInv', CodeInv, BeenInv, PollsInv, ListenerMissesNothing,
         RequestStep, WatchStep
  PROVE  ListenerMissesNothing'
<1>1. TypeOK /\ TypeOK' /\ LogStep /\ MoveStep /\ ViewStep
  BY DEF IInv, RequestStep, WatchStep
<1> SUFFICES ASSUME NEW d \in Device, Listens(d)', NEW i \in 1..cursor'[d]
             PROVE  /\ i \in DOMAIN log'[code'[d]]
                    /\ <<code'[d], log'[code'[d]][i]>> \in shown'[d]
  BY DEF ListenerMissesNothing
<1> DEFINE r == code[d]
<1>2. cursor[d] \in Nat /\ cursor'[d] \in Nat /\ i \in Nat /\ i >= 1 /\ i <= cursor'[d]
  BY <1>1 DEF TypeOK
<1>3. InFirstRoom(d)'
  BY DEF Listens, InFirstRoom
<1>4. cursor'[d] # 0
  BY <1>2
<1>5. code'[d] = r /\ r # 0 /\ InFirstRoom(d) /\ r \in Room
  BY <1>1, <1>3, <1>4, FirstRoomStep, BeenHere
<1>6. log[r] \in Seq(Entry)
      /\ \A j \in DOMAIN log[r] : j \in DOMAIN log'[r] /\ log'[r][j] = log[r][j]
  BY <1>1, <1>5, LogGrows
<1>7. \A j \in DOMAIN log[r] : log[r][j].from # d
  BY <1>5, <1>6 DEF Listens
<1>8. Listens(d)
  BY <1>5, <1>7 DEF Listens, InFirstRoom
<1>9. \A j \in 1..cursor[d] : j \in DOMAIN log[r] /\ <<r, log[r][j]>> \in shown[d]
  BY <1>8 DEF ListenerMissesNothing
<1>10. shown[d] \subseteq shown'[d]
  BY <1>1, <1>5 DEF ViewStep
<1>11. CASE i <= cursor[d]
  <2>1. i \in DOMAIN log[r] /\ <<r, log[r][i]>> \in shown[d]
    BY <1>2, <1>9, <1>11
  <2> QED
    BY <1>5, <1>6, <1>10, <2>1
<1>12. CASE cursor[d] < i
  <2>1. ASSUME NEW p \in posts, p.dev = d, Stored(p.room, d, p.req)
        PROVE  FALSE
    <3>1. p.room \in Room /\ Been(d, p.room)
      BY <1>1, <2>1 DEF TypeOK, Post, BeenInv
    <3>2. p.room = r
      BY <1>1, <1>5, <3>1, BeenOnlyHere
    <3>3. SeqNo(r, d, p.req) \in DOMAIN log[r]
          /\ log[r][SeqNo(r, d, p.req)] = [from |-> d, req |-> p.req]
      BY <1>1, <1>5, <2>1, <3>2, StoredAt
    <3> QED
      BY <1>7, <3>3
  <2>2. PICK p \in polls : /\ p.dev = d
                           /\ p.stage = "answered"
                           /\ cursor'[d] = p.upto
                           /\ Messages(p.room, p.since, p.upto) \subseteq shown'[d]
    BY <1>1, <1>2, <1>5, <1>12, <2>1 DEF ViewStep
  <2>3. p.room \in Room /\ p.since \in Nat /\ p.upto \in Nat /\ Been(d, p.room)
    BY <1>1, <2>2 DEF TypeOK, Poll, BeenInv
  <2>4. p.room = r /\ p.since <= cursor[d] /\ p.upto <= Len(log[r])
    BY <1>1, <1>5, <2>2, <2>3, BeenOnlyHere DEF PollsInv
  <2>5. i \in DOMAIN log[r] /\ i \in (p.since + 1)..p.upto
    BY <1>2, <1>6, <1>12, <2>2, <2>3, <2>4
  <2>6. <<r, log[r][i]>> \in Messages(p.room, p.since, p.upto)
    BY <2>4, <2>5 DEF Messages
  <2> QED
    BY <1>5, <1>6, <2>2, <2>5, <2>6
<1> QED
  BY <1>2, <1>11, <1>12

----------------------------------------------------------------------------
(* Both together. *)

OrderInv == QueueInv /\ AckedInv /\ ShownInv /\ ShownOnce

PlaceInv == CodeInv /\ BeenInv /\ PollsInv /\ ListenerMissesNothing

LEMMA InitOrderPlace == Init => OrderInv /\ PlaceInv
<1> SUFFICES ASSUME Init
             PROVE  OrderInv /\ PlaceInv
  OBVIOUS
<1>1. OrderInv
  BY DEF Init, OrderInv, QueueInv, AckedInv, ShownInv, ShownOnce
<1>2. \A d \in Device : cursor[d] = 0
  BY DEF Init
<1>3. CodeInv /\ BeenInv /\ PollsInv
  BY DEF Init, CodeInv, BeenInv, PollsInv, Device, Desk, Guests
<1>4. ListenerMissesNothing
  BY <1>2 DEF ListenerMissesNothing
<1> QED
  BY <1>1, <1>3, <1>4 DEF PlaceInv

LEMMA NextOrderInv == IInv /\ IInv' /\ OrderInv /\ [Next]_vars => OrderInv'
BY StepEffects, QueueInvStep, AckedInvStep, ShownStep DEF OrderInv

LEMMA NextPlaceInv == IInv /\ IInv' /\ PlaceInv /\ [Next]_vars => PlaceInv'
<1> SUFFICES ASSUME IInv, IInv', PlaceInv, [Next]_vars
             PROVE  PlaceInv'
  OBVIOUS
<1>1. RequestStep /\ WatchStep /\ MoveStep /\ TypeOK
  BY StepEffects, WatchEffects DEF WatchStep, IInv
<1>2. opened' = opened + 1 => code[Desk] = 0
  <2>1. opened \in Nat
    BY <1>1 DEF TypeOK, Room, CounterAssumption
  <2>2. Start \/ opened' = opened
    BY DEF Next, NextVisitor, Join, Expire, End, DeleteSettles, StartPoll, Send, Discard,
           Retry, AttemptFails, PollReads, PollAnswered, PollGone, PollFails,
           Admit, Persist, PostAnswered, PostRefused, vars
  <2> QED
    BY <2>1, <2>2 DEF Start
<1> QED
  BY <1>1, <1>2, CodeInvStep, BeenInvStep, PollsInvStep, ListenerStep DEF PlaceInv

(* The requests of a device keep their order, from its queue to the log. *)
THEOREM SpecOrderInv == Spec => []OrderInv
BY InitOrderPlace, NextOrderInv, SpecIInv, PTL DEF Spec

(* What arrives at a device is of a room it has been in, and of its first   *)
(* room while it is there.                                                  *)
THEOREM SpecPlaceInv == Spec => []PlaceInv
BY InitOrderPlace, NextPlaceInv, SpecIInv, PTL DEF Spec

(* "Network requests are still executed in order": the turns of a device    *)
(* that were answered stand in the log in the order they were made,         *)
(* whatever was retried, stored late or given up between them.              *)
THEOREM SpecAnsweredInOrder == Spec => []AnsweredInOrder
<1>1. IInv /\ OrderInv => AnsweredInOrder
  <2> SUFFICES ASSUME IInv, AckedInv, NEW a \in acked, NEW b \in acked,
                      a.dev = b.dev, a.room = b.room, a.req < b.req
               PROVE  SeqNo(a.room, a.dev, a.req) < SeqNo(b.room, b.dev, b.req)
    BY DEF OrderInv, AnsweredInOrder
  <2> DEFINE i == SeqNo(b.room, b.dev, b.req)
  <2>1. b.room \in Room /\ b.dev \in Device /\ Stored(b.room, b.dev, b.req)
    BY DEF IInv, TypeOK, AckedInv
  <2>2. i \in DOMAIN log[b.room] /\ log[b.room][i] = [from |-> b.dev, req |-> b.req]
    BY <2>1, StoredAt DEF IInv
  <2>3. log[b.room][i].from = b.dev /\ log[b.room][i].req = b.req
    BY <2>2
  <2> QED
    BY <2>2, <2>3 DEF AckedInv
<1> QED
  BY <1>1, SpecIInv, SpecOrderInv, PTL

(* The sender's own words are on its screen once, as its local copy or as   *)
(* the server's, in whatever order poll and post bring that.                *)
THEOREM SpecShownOnce == Spec => []ShownOnce
<1>1. OrderInv => ShownOnce
  BY DEF OrderInv
<1> QED
  BY <1>1, SpecOrderInv, PTL

(* A device that only listens misses nothing: what lies below its cursor is *)
(* on its screen, for any number of polls under way, lost or overtaken.     *)
THEOREM SpecListenerMissesNothing == Spec => []ListenerMissesNothing
<1>1. PlaceInv => ListenerMissesNothing
  BY DEF PlaceInv
<1> QED
  BY <1>1, SpecPlaceInv, PTL

============================================================================
