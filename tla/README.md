# A TLA+ verification of Asad

Asad interprets Korean speech for people in the room. A browser listens, an
engine cuts the transcript into units, two translators render each unit, and an
interpreter reads the English lines aloud. The same program carries a
conversation at a service counter between two devices, and lets a phone be the
microphone of the console. This directory models the parts whose correctness
depends on order, timing and failure, checks them with TLC, and proves the
central results with TLAPS.

Paths are relative to the repository. The map from definitions to lines, the
hazards the properties are for, and the lists of runs and theorems are in
`PROJECT.json`.

## 1. Inventory

| Component | Sources | State | Operations | What is hard |
|---|---|---|---|---|
| Chunk store | `src/interpreter/engine/chunks.ts` | a sequence of lines: predicted, current, committed | insert a turn's English, refine a provisional turn, commit what is due, predict, trim | late English for an older turn; a refinement racing the commit clock |
| Two-lane engine | `src/interpreter/engine/{session,turns,stabiliser}.ts` | buffer, turns, the slot of each lane, the coalesced unit, the generation | utterance, tick, flush, results of both lanes, stop, start, contract change | everything after an `await`: stale, late, empty and rejected results |
| Live transport | `src/features/live/{transport-supervisor,useLiveSession}.ts` | phase, fault, attempts, timer, token; provider and microphone refs | start, resume, fault, backoff, open, close, End, unmount | faults and End during an open of four awaits |
| Cloud lane | `src/features/live/cloud-lane.ts` | a retry loop per call, the bypass clock | fetch, sleep, give up, abort, fall back on the device | deadline, abort and late answer; the bypass is shared by all calls |
| LLM router and breakers | `src/providers/llm/{router,circuit-breaker,rate-limit,escalation,live-recovery}.ts` | a breaker and a memory of 429s per provider, the sticky provider, per request a chain and a budget | ask the next candidate, book a failure, recover, ask for a second opinion | overlapping requests over one breaker; a budget spent over a chain |
| Remote microphone | `src/remote-mic/*`, `src/app/api/remote-mic/*` | the pairing record and its revision; per end a poll, a peer connection, timers, a relay | create, claim, approve, offer, answer, status, relay, end; restart, deadline, relay fallback, stop | lost and late requests, polls overtaken by what they report, several servers |
| Counter session and sync | `src/counter/{store,access}.ts`, `src/features/counter/useCounterSession.ts`, `src/app/api/counter/*` | a room record; per device a cursor, a send queue, what is on screen | start, join, poll, send, discard, end, next visitor | lost replies, cursors, retried sends, answers for a room already left |
| Counter voice | `src/features/counter/{counter-speech,useVoiceInput}.ts`, `src/providers/stt/audio.ts` | one turn: what is tried, its microphone, its timers, the words heard | tap, prompt, connect, hear, fall back, record, upload, dismiss | failures after words were heard; dismissals during an await |
| Speech recognisers | `src/providers/stt/*` | a socket, its reconnection timer | connect, disconnect, reconnect, keep-alive | seen through the two components that use them |
| Rescue | `src/interpreter/engine/rescue.ts`, `src/app/api/rescue` | a window of the transcript | ask for help with the last lines | shares providers and breakers with the interpreter |
| Earbud mode | `src/features/earbud/*` | a queue for the synthesiser, one utterance playing | enqueue, next, stop, watchdog | speech-synthesis callbacks that come late or never |
| Request guards | `src/lib/{guard,rate-limit,shared-rate-limit}.ts` | sliding windows | allow | concurrent instances |
| Context, glossary, Scripture, cultural notes, counter quality, learning vault, vendors, screens, telemetry | see `PROJECT.json` | text tables, counters, views | | lexical rules and pure I/O, little order to explore |

**How they interact.** A recogniser calls the engine's `handleStable` for each
finalised utterance. The host (`useLiveSession`) runs `engine.tick()` on an
interval and gives the engine two functions: the provisional lane's
`translate()` (on device) and `interpret()` (the cloud lane: an HTTP request to
`/api/interpret`, where the router walks a chain of providers through their
breakers). Promises settle at any time, in any order, and their continuations
run on one thread, interleaved with ticks, utterances and the user's buttons.
The transport supervisor owns the recogniser and the microphone and decides who
has to repair them; a remote microphone is one source of that microphone's
stream. Phone and console of a remote microphone share nothing but the pairing
record, which any of several serverless processes may read and write, and a
WebRTC path or the server's relay. Desk and visitor of the counter share the
room record in the same way.

**What makes each correct.**

- *Chunk store*: a line that may have been spoken never changes; editable lines
  stand in speech order.
- *Engine*: one live request; the coalesced unit is always dispatched; no
  utterance is lost, rendered twice or owed twice; a stopped screen is final;
  everything said is answered.
- *Live transport*: a phase that promises movement has exactly one cause of
  movement; retries are bounded; only a person leaves "interrupted"; a session
  with a transcript is never taken for a failed start; End is final.
- *Cloud path*: the server answers within the turn's budget, the lane gives up
  within its own, nobody is left without cloud and translator for long, and an
  outage leaves nothing behind that outlasts it.
- *Pairing*: requests take effect at one instant or not at all; one phone per
  pairing; nothing is negotiated before the operator approves; nobody's delayed
  status deletes a fresh offer.
- *Remote microphone*: each end uses the audio of the transport it is on; a
  stopped phone is silent; recovery comes to rest; the end reaches both ends.
- *Counter*: every stored message reaches both sides exactly once, in order;
  ended rooms accept nothing.
- *Counter voice*: a turn ends, with the words that were said; the button shows
  it; its microphone is given up.

## 2. The modules

| Module | Models | Kind |
|---|---|---|
| `ChunkStore` | `chunks.ts` | operators |
| `TwoLaneEngine` | `session.ts`, `turns.ts`, `stabiliser.ts`, over `ChunkStore` | state machine |
| `LiveTransport` | `transport-supervisor.ts` with the open and close of `useLiveSession.ts` | state machine |
| `CircuitBreaker` | `circuit-breaker.ts` | operators |
| `LlmRouter` | `router.ts` and what it calls, behind the interpret and rescue routes | state machine, over `CircuitBreaker` |
| `CloudPath` | `cloud-lane.ts` | composition: the browser's calls, the network, and `LlmRouter` |
| `PairingRecord` | `remote-mic/session.ts` and the signal route: what each request makes of a record | operators |
| `Pairing` | what the store promises: one atomic record | abstract specification |
| `PairingStore` | `remote-mic/store.ts`: GET and compare-and-set by several servers | state machine, refines `Pairing` |
| `RemoteMicLink` | `sender.ts` and `receiver.ts` | composition: both ends, the record, the relay, the path |
| `CounterSync` | `counter/store.ts`, the counter's routes, `useCounterSession.ts` on each device | composition |
| `CounterVoice` | `counter-speech.ts`, `useVoiceInput.ts`, `audio.ts` | state machine |
| `MC*` | instances, symmetry | model checking |
| `ChunkStoreProofs` | lemmas about the operators of `ChunkStore` and of sequences, for `TwoLaneEngineProofs` | proofs |
| `TwoLaneEngineProofs`, `LiveTransportProofs`, `CloudPathProofs`, `PairingStoreProofs`, `RemoteMicLinkProofs`, `CounterSyncProofs`, `CounterVoiceProofs` | theorems | proofs |

JavaScript runs a synchronous stretch to its end, so throughout an action is one
call from outside, or one continuation of an awaited promise, with everything it
calls. What happens between two awaits is never split, and two awaits are never
joined unless a module says so.

### ChunkStore

A chunk is a record of its line, state, turn, whether it is provisional, and its
age. A line of English is a model value: the code compares lines by their
normalised text and does nothing else with them. The wall clock is replaced by
an age that saturates at `Dwell`: a current chunk of that age is due. `at` of a
refined line is the earliest of the lines it replaces, so its age is the
greatest. `addSafeChunks`, `appendCorrection` and the read-only views have no
caller in the engine.

### TwoLaneEngine

| Action | Code |
|---|---|
| `HandleStable` | `handleStable`: one more utterance in the buffer |
| `Elapse` | time passes |
| `Tick` | `tick`: commit what is due, fail a stalled fast lane, flush |
| `FlushPending` | `flushPending`, called at shutdown |
| `FastResult...` | the continuation of `translate()` in `runProvisional` |
| `CloudResult`, `CloudResultStale`, `CloudReject` | the continuation of `interpret()`: result, outdated result, catch; each ends in `finally` |
| `Stop`, `Start`, `ChangeContract` | `stop`, `start`, `setLanguages` and `setContextMode` through `invalidateOutstanding` |

`Flush` is the whole of `flush`: it cuts one turn from everything pending,
starts the fast lane if it is ready, and either dispatches the turn's contextual
request or appends it to the coalesced unit, dropping the oldest turns past the
bound and restoring those without English. A turn that is already in the target
language is shown without the fast lane. Whether a unit ends a sentence, whether
a prediction is asked for, and what a result carries are nondeterministic.

`requests` and `fastRuns` are the promises that have not settled, including
those the engine no longer waits for: an abort does not take an answer back.
`rendered`, `spoken`, `lifeStart` and `rejections` are history variables.

`turns` keeps every turn; the code keeps the last `MAX_TURN_RECORDS`, and the
only action that reads the older ones through the record is
`invalidateOutstanding`, where the model restricts itself to the last
`MaxTurnRecords`.

`EarlyRejection` says whether the cloud lane may reject while the fast lane of
the same turn is still working. In this program it may not: the local fallback
of `cloud-lane.ts` waits for `provisionalSettled` before it gives up (action
`Verdict` of `CloudPath`). The runs set it to `FALSE`; with `TRUE` a turn can be
both restored to the buffer and rendered by its fast lane, so the host's wait is
what `SpeechInOnePlace` depends on.

### LiveTransport

The supervisor's methods are one action up to their first `await` and another
after it: `handle` waits for `close()` (`closings`), an attempt waits in
`openTransport` for the token, the recogniser's `connect`, the permission prompt
and the worklet (`opens`, with the stage of each). Attempts carry the value of
`openToken` they began with; so do the recogniser and the microphone they
create. `providerRef` and `micRef` are `provider` and `mic`, and what is really
running is `recognisers` and `mics`: the difference between the refs and the
sets is what an attempt overtaken by a fault or an End can leave behind.
`Resume` is enabled in phase `interrupted` only, because the two places that
call `resume()` are (the console's button, and a remote microphone's new stream).

### CircuitBreaker, LlmRouter, CloudPath

Time is in ticks, and relative: a breaker holds what is left of its cooldown, a
provider what is left of the time a 429 is remembered, a request what has
elapsed of its turn and what is left of its attempt.

| Action | Code |
|---|---|
| `Begin` | the route's handler up to the first provider asked: candidates, sticky or preferred provider first, `Walk` over the chain |
| `Replies`, `Fails`, `AttemptExpires` | the provider's answer; a failure of some kind, booked on the breaker and on the memory of 429s; the attempt's deadline. Each goes on with `Walk` |
| `TurnExpires`, `Recovers`, `RecoveryFails`, `OpinionEnds` | the budget of the whole turn; the emergency gateway; the second opinion asked for a doubtful answer |
| `Starts` | `interpret()`: the bypass is consulted, then the fetch or the fallback |
| `AnswerArrives`, `TurnedAway`, `NetworkFails`, `DeadlineExpires` | the ways `fetch` ends; a 429 sets the bypass or is slept through |
| `Wakes`, `Abort` | after a backoff; the engine's `AbortSignal` |
| `Verdict`, `Translated` | `localFallback`: the fast lane's verdict, then the on-device translator, then the deterministic helper |
| `Unheard`, `Rescue`, `TranslatorChanges`, `Heals`, `Elapse` | a server's answer nobody waits for; the rescue route, which uses the same providers; the translator comes and goes; the end of the outage; time |

`Walk` is the loop of the router between two awaits: skip who may not be asked,
stop when the budget is spent, otherwise ask the next. The budget keeps
`FloorReserve` for the deterministic floor. A deployment is a `Setting`: mode,
pinned provider, privacy, sustainability, recovery and second opinion.
`stranded`, `dry` and `healed` are history variables: how often in a row the
deterministic helper answered without the cloud having been asked, whether the
last answer came from elsewhere than the cloud, and whether the outage is over.

The model keeps two things of the code that surprise: `toLlmError` turns an abort
by the caller into a timeout, which counts against the provider; and an abort
during on-device translation ends in the deterministic helper and clears the
bypass. Not modelled: quotas counted in tokens, minutes and days, the 2000 keys
of the sticky table (there is one session), context profiles, providers that
need no network, telemetry.

### PairingRecord, Pairing, PairingStore

`Outcome(r, q, late)` is what request `q` makes of record `r` and whether it is
answered with success, over every case of `session.ts`: claims with the right or
a wrong secret, expiry, ownership, approval, offers and answers with their
generations, candidates up to the bound, the status reports that clear a
negotiation, relay and direct, and the end. `Pairing` applies it atomically to
one record that may also vanish. `PairingStore` does what `RedisRemoteMicStore`
does: `Get` reads record and revision, `CasWrites`, `CasGone` and `CasLost` are
the outcomes of the compare-and-set, after which the request is over or reads
again, at most `UpdateRetries` times; `TimesOut` ends a request whose command
took too long, before or after it took effect. `granted` and `served` are
history variables.

### RemoteMicLink

Each end polls the record, and takes its view at one instant and handles it at a
later one (`PhonePolls`/`PhoneHandles`, `ConsolePolls`/`ConsoleHandles`).
Requests are applied at one instant, which is what `PairingStore` is shown to
implement, or are lost, or arrive later (`posts`, `Arrives`).

What the phone does to its connection goes through `serial()`, one piece of work
after the other. `awaiting` is the request the work that has begun waits for (an
offer, or the announcement of the relay), and `queue` the work that has not begun:
views, negotiations, the change to the relay. `Negotiating` and `EngagingRelay`
are `negotiate` and `engageRelay` up to that request, `RequestEnds` is what
follows it. When the request is over, JavaScript begins the next work before
anything else happens (`GoingOn` in `Next`). A timer that was cancelled does
nothing, but the work a timer has queued begins all the same, and looks only at
what the code looks at: `negotiate` asks for a microphone, not whether the phone
is on the relay.

| Action | Code |
|---|---|
| `Tap`, `Granted`, `Denied` | `start()` up to the prompt, and after it |
| `Stop`, `Leave`, `Reload`, `Reconnect` | `stop()`, the page left, reloaded with its token, the button that tries again |
| `PhoneUp`, `PhoneDown`, `PathChanges` | the peer connection's events; whether the browsers reach each other |
| `PhoneHears`, `PhoneWorks`, `RequestEnds` | `serial`: a view that has to wait, the next work, the end of the request it waits for |
| `RestartFires`, `DeadlineFires` | the timers of the recovery table and the deadline of a direct connection; each queues its work |
| `PhoneBeats`, `FlushRelay` | status reports; uploads of relayed audio with their failures |
| `Approve`, `Reject`, `End` | the operator |
| `DeliverAnswer`, `ConsoleUp`, `ConsoleDown`, `GraceExpires`, `ConsoleBeats` | the console's side of the negotiation |
| `ReadRelay`, `RelayAnswers`, `Quietens` | `readRelayOnce`: the request, its answer, and the timer of silence |
| `Expires` | the record's time to live |

The WebRTC calls of one negotiation are one step, and ICE candidates are left to
the browsers. Any timer that is armed may fire at any time, so no property
depends on which of two timeouts is the longer. Not modelled: mute and level
reports, statistics, a second pairing by the same console, a crash or reload of
the console, and the frames of the relay (`frames` says only whether some are
unread).

### CounterSync

Device 0 is the desk, which stays and moves from room to room; device *r* is the
phone of the visitor of room *r*. A room is a sequence of entries, the sender
and the request id of each; a message's `seq` is its position. The contents,
translation included, do not matter to any of this.

| Action | Code |
|---|---|
| `Start`, `NextVisitor` | `CounterHostScreen`: `start`, `next` |
| `Join` | PATCH, the visitor chooses a language |
| `End`, `DeleteSettles` | `end` before and after its `await`; the DELETE may fail |
| `Expire` | the record's time to live |
| `StartPoll`, `PollReads`, `PollAnswered`, `PollGone`, `PollFails` | a poll: asked, the GET handler, and the four continuations of `poll` |
| `Send` | `send`, up to and including the first attempt if the queue is empty |
| `Retry`, `AttemptFails`, `PostAnswered`, `PostRefused` | the loop of `run`: after a delay; timeout, network error or a retryable status; the message; a final refusal |
| `Admit`, `Persist` | the POST handler before and after the translation |
| `Discard` | `discard`, and the first half of `resend` |

An attempt the device gives up may have been lost on its way, may still arrive,
may be in translation, or may have failed in the handler (`AttemptFails` chooses
what is still under way). The store's compare-and-set is taken as atomic: a
mutation that loses the race is run again on the newer record, and one whose
reply is lost is an attempt that is given up and stored later. `stopped` is one
flag per device for all the codes it has had, as in the code: `PollFor` sets it
and clears it with the effect of the code. Quick phrases and confirmations are
sent without a local copy, which `Send` leaves open. Not modelled are a second
visitor, a visitor's change of language, a page that is closed or reloaded, rate
limits, a token that is refused (401), refusals of requests other than a message,
and the bound of 500 messages.

### CounterVoice

One turn at a time passes through the stages of `start()`: the permission
prompt, the credentials of the cloud recogniser, one or two streaming attempts
(cloud, then browser) and one recording that is uploaded as a whole. Which of
the three a device has is chosen at the start. `attempt` is the recogniser that
is being tried, with its connection, its stable and partial words, its silence
timer and what the utterance was settled with; `mic` is that attempt's
microphone; `loose` are microphones that were stopped while they were still
being asked for. The actions are the taps (`Tap`, `Stop...`), the changes of
language or room (`Dismiss...`), the answers of browser and network, and the
timers. Text is abstracted to whether there is any.

The sockets of the cloud recognisers are closed and say nothing afterwards. The
browser's recogniser is only asked to stop, and its handlers stay attached
(`webspeech.ts:304`): it goes into `lingering`, with the turn it belongs to, and
may still start (`LateStart`), deliver words (`LateWords`) and end (`LateEnd`),
in that turn, after it, or in the next. `LateStart` shows "listening" whatever
the turn is doing, and late words become `lastPartial` of the turn under way.
A request for credentials, or an upload, that is answered 401 asks for a session
first (`SessionNeeded`, `SessionAnswered`); the signal that aborts the request
does not reach that one.

## 3. The runs

No run checks for deadlock: sessions really stop, and the bounds on
utterances, attempts, requests and faults are used up.

| Run | Question | Bounds |
|---|---|---|
| `engine` | Is the cloud single-flight, is every unit dispatched, is no utterance lost or owed twice, whatever fails, and across stop, start and change of contract? | 3 utterances and 4 turns in the first generation, 2 and 3 once there is a second; 3 generations, 1 rejection, a fast lane that comes and goes, a queue of at most 2 turns and 2 utterances |
| `engine_screen` | What can happen to a line on screen? | 2 lines of English (symmetric), 3 turns, a view of 3 lines, results of at most 2 lines, predictions and passed-through speech |
| `engine_liveness` | Is everything said answered? | 2 utterances, 4 turns, 1 rejection, a queue of 1 turn |
| `transport` | Does recovery do one thing at a time, boundedly, and reach a verdict? | both sources, the code's 4 attempts, 3 faults, 2 resumes |
| `cloud_path` | Is every turn answered in time, and does the cloud come back after an outage? | 3 deployments, a free and a paid provider, 1 request on the server at a time, 1 call of the browser, a turn of 3 ticks and a lane of 4 |
| `pairing_store` | Does the compare-and-set store implement the atomic pairing? | 2 phones and the console, 2 servers (symmetric), 5 requests, 2 tries each, 2 peers, 1 generation |
| `mic_link` | Does the audio follow the transport, is a stopped phone silent, does the phone come to rest, does the end reach both ends? | 1 trouble, which may be a request that arrives late; no ICE restart before the fresh peer; one failed relay read before it is reported |
| `counter` | Is every turn stored and shown once and in order, whatever is lost or late? | 1 room, 2 turns of the visitor, 2 attempts each, at most one other post under way when a device tries again, any number of lost polls |
| `counter_liveness` | Do both sides notice the end? | 1 room, 1 turn, 2 attempts, any number of lost polls |
| `counter_sends` | Is every turn settled, also one that waits behind a failing one? | 1 room, 2 turns of the visitor, 2 attempts each, no other post under way when the device tries again, 1 poll at a time |
| `counter_voice` | Does every spoken turn end, with its words and without its microphone? | every device, 2 turns, 2 dismissals, failures and lingering recognisers without bound |
| `counter_cursor` | Does the poll after a lost one recover? (expects a violation, see section 5) | 2 rooms, both sides send 2 turns |

Why these are enough.

*Engine.* Three utterances give one turn in flight, one waiting and one that
overflows the queue or is restored behind them, with a fourth turn for the
restored speech: every branch of `enqueueContextual` and of the catch block is
taken. The queue's real limits (6 turns, 3500 characters) would need seven
utterances; 2 turns and 2 utterances make both limits bite. Three generations
are a life, its stop and a restart (or two contract changes), with requests of
each outstanding. Two distinct lines and an empty result distinguish new,
repeated and missing English; a view of three lines makes trimming, and
inserting above a trimmed line, happen. `MaxTurnRecords` is above `MaxTurns` in
every run: with a queue of at most 6 turns the 64 records are not used up while
a turn waits unless dozens of single turns pass a stuck one. Section 6 says which
theorems depend on that.

*Transport.* Three faults allow a fault while a close or an open of the previous
one is under way; failures of an open are not bounded at all.

*Cloud path.* The turn is long enough for two providers and a retry of the lane,
and too short for a third, so every deadline bites. With a threshold of 2 a
breaker opens, cools, is probed and opens again; the paid provider never refuses
its key, so that the outage of `OutageHeals` is not simply the end of the only
provider. One server slot means that requests of the interpreter and of a rescue
alternate; overlapping requests, several calls and other lengths of the timers
are covered by the proofs of the three safety properties, not by `OutageHeals`.

*Pairing.* Two servers with two tries are enough for a lost race and for a
command that took effect unheard; two phones race for one pairing; five requests
reach an approved pairing with an offer and a conflicting status.

*Remote microphone.* A trouble is a lost request, a broken path, a failed
upload, a restart by hand or an early expiry; it comes at any point, and a
request counts as one as long as it is late (`LateIsTrouble`). With
`MaxRestarts = 0` recovery goes from the fresh peer straight to the relay: no ICE
restart takes place in the run, whereas the code's table has three. The
negotiation of a fresh peer is queued, and meets the change to the relay, in the
same way. The safety properties are proved for every table and any number of
troubles.

*Counter.* Two turns with two attempts each are the smallest case in which a
retry meets its own earlier attempt in translation, a later turn waits behind a
failing one, and an abandoned attempt is stored after its successor. They are
also the smallest in which giving one turn up must let the next one go, which is
why `counter_sends` has two. It cuts off behaviours with a second poll under way:
`SendSpec` is not fair to polls, so none of those it keeps is cut short. In the
passing counter runs only the visitor sends, in one room: with two senders, or
two rooms, the behaviours of section 5 come about, and the properties are about
what remains true.

*Counter voice.* Two turns show what one leaves to the next, and let a recogniser
of the first meet the second; two dismissals meet a prompt, an attempt and an
upload.

**Engine properties.** `OneLiveRequest`, `NoStrandedQueue`, `NoSpeechDropped`
and `SpeechInOnePlace` are about the interplay of slot, queue and buffer.
`NoSpeechDropped` counts as answered what the cloud discarded because its line
had committed (`discarded`), which section 5 qualifies. `RecordsMatchLanes` says
that records and slots tell the same story at all times, also after restarts.
`StoppedScreenIsFinal` fails if any late result reaches a stopped screen.
`SpokenLinesNeverChange`: a step may only drop lines
off the top of what lies at or above the last committed line, and only when the
view is full. `EditableInStreamOrder` orders the editable lines by turn.

**Transport properties.** `OneThingPending` is the main one: in a live session
there are never two opens, two closes, or a timer beside either, and a phase
that says "opening" or "recovering" always has one of them ahead.
`FailureKeepsSession` and `OneTransport` follow the comments of the supervisor.
`OnlyAPersonResumes` and `EndIsFinal` say what no late callback may do, and
`RecoveryEnds` that recovery reaches a verdict.

**Cloud path properties.** `AnsweredInTime` is about the sum of all attempts, the
recovery and the second opinion; `GivesUpInTime` about fetches, sleeps and
`Retry-After`. `NeverStranded`: after the deterministic helper has answered, the
next call asks the cloud, so that a bypass set for a translator that has gone
does not leave a browser with neither. `OutageHeals`: once providers and network
work again, English from the cloud comes back, unless the outage got every
candidate disabled for good.

**Pairing properties.** `KeepsPromise` is the refinement. `OnePhoneGranted`,
`NothingBeforeApproval`, `OwnerForGood` and `OfferWaits` are checked on the
store, with its overlapping requests.

**Microphone properties.** `SourceFollowsTransport` relates what each end plays or
captures to its transport, however late a poll, a relay read or queued work is
handled; `StoppedPhoneIsSilent` is about timers and queued negotiations that
outlive `stop()`. That the phone is on one transport only (`RelayInsteadOfPeer`)
is not true of the code (section 5). `PhoneComesToRest` and `EndReachesBoth` are the
promises of recovery and of the end, for behaviours in which no request of the
phone's work hangs for ever (`Answered`) and, for the first, in which no peer is
opened on the relay.

**Counter properties.** `StoredOnce` needs both looks at the record, at
admission and in `persistOnce`. `AnsweredInOrder` speaks of the turns whose
answer reached their device: a turn the device has given up may be stored after
its successor. `ListenerMissesNothing` is the cursor's promise to a device that
only listens, and `ShownOnce` that a turn is not on its sender's screen twice,
whether the poll or the answer to the post comes first. `EndIsNoticed` is the
liveness of polls. `SendsSettle` is that of the queue, and needs nothing of them:
one bad turn never jams the ones behind it.

**Voice properties.** `TurnReturnsItsWords` speaks of recognisers that fail after
words, and says whose words a turn may return: its own, or late ones of the
browser's recogniser; `ButtonFollowsTurn` speaks of turns whose controller was
let go, and excepts, once the turn is over, only browsers with a recogniser that
may start late. The comments claim more, which does not hold (section 5).
`MicrophoneFollowsTurn` is about every way an attempt ends; `TurnEnds` is the
liveness.

## 4. Fairness and refinement

*Engine.* Time passes; the host's interval keeps ticking, so a stalled fast lane
is timed out and a held buffer (`maxHoldMs`) is flushed; a cloud call settles.
`CloudPath` bears the last one out: a call ends by its own timers. Nothing is
assumed of the on-device translator: it may never answer.

*Transport.* A set timer fires, a `close()` ends, and each `await` of the
current open ends. The last is an assumption about `getUserMedia`, the token
request and the worklet: the code sets no deadline of its own on `open()`, and
without it `RecoveryEnds` does not hold. A superseded open may hang for ever.

*Cloud path.* Time passes and a timer that is due fires; a healed server
answers; the fast lane and the translator come to a verdict (the engine times
the first out). Strong fairness of `Starts` and `Wakes` says that the speaker
goes on and that a rescue does not take the server's only slot each time.

*Remote microphone.* Polls and timers go on, views are handled, queued work
begins, and a path that exists is found unless a timer is faster. Nothing is
asked of the people, nor of the request the phone's work waits for: the code sets
its fetches no deadline, and one that never returned would hold up everything
queued behind it, the change to the relay included. The properties therefore say
what follows if each is answered, or given up by the browser (`Answered`).

*Counter.* The POST handler ends (its translation has a deadline), a retry's
delay passes, and an attempt ends, at the latest by `SEND_TIMEOUT_MS`: that is
`SendSpec`. `FairSpec` adds that the poll timer keeps firing. Polls may be lost
again and again; strong fairness says only that of ever more polls some reach the
server and some answers come back.

*Counter voice.* The person and the browser answer what they are asked, and
timers fire: the connection, the utterance and the upload have one. The request
for credentials (`stt/index.ts:145`) and the one for a session have none, and
nothing is assumed of them: `TurnEnds` says what follows if none of them hangs
for ever, and a stop or a dismissal aborts the first, but not the second. Nobody
has to speak, and no recogniser has to say anything.

**Refinement.** `PairingStore` implements `Pairing` with `record` mapped to the
record in the cell (`KeepsPromise`): a compare-and-set that writes is a request
served at that instant, and every other step is a stutter or the drop of an
expired record. It is checked by the run `pairing_store` and proved
(`StoreKeepsPromise`). `RemoteMicLink` builds on it: its requests are atomic.

## 5. Where the code does not do what it says

One run expects a violation.

- `counter_cursor`: the answer to a device's own turn moves its polling cursor
  past a message of the other side that no poll has brought yet, and no later
  poll asks for it (`useCounterSession.ts:386`), although "A dropped poll is
  normal on venue wifi; the next one recovers" (`:235`).

The models also show the following: TLC violates the formula that denies it. No
run is kept for them, and the properties of the runs are stated so as to be true
beside them.

- *Engine.* A coalesced unit that holds one committed provisional line and one
  turn whose fast lane failed is discarded whole, and the failed turn is never
  rendered (`session.ts:950`). A contract change restores the fast lane's turn in
  front of older turns that still wait. An empty cloud answer makes the fast
  lane's later English "superseded" although nothing is on screen.
- *Transport.* A microphone that ends during an automatic reopen is not reported,
  and the phase becomes "open" with nothing to hear
  (`transport-supervisor.ts:139`). After End during an open, the attempt may
  still start its recogniser or microphone, and nothing is left to stop it
  (`:178`).
- *Cloud path.* One 429 is enough to keep a provider out of the chain for the
  five minutes it is remembered (`router.ts:240`); with nobody else to ask, turns
  are answered locally.
- *Remote microphone.* A restart that its timer has queued behind the change to
  the relay (`sender.ts:650`) negotiates after it. `negotiate` does not ask
  whether the phone is on the relay, so it opens a peer, and its offer takes the
  record off the relay, although the relay is meant "instead" (`:739`). A relayed
  phone whose page is loaded again does not know of the relay until it has
  handled a view: if it is started and stopped before that, and the status of the
  stop is lost, its heartbeats say "new" (`:722`) where "A stopped microphone must
  keep reading "closed"" (`:718`), and the console keeps the relay as its source.
  The microphone comes on if the person stops during the
  prompt (`sender.ts:250`). A view that says "relay" clears the console's
  interruption timer and leaves it "interrupted". A status "connected" that
  arrives late erases an answer the phone has not read; the phone offers again.
  On the relay, a phone whose queued negotiations fail goes round without end:
  each restart shows "reconnecting" and each upload that succeeds sets the
  attempts back to 0, so the next failure is again the first, although
  "reconnection is bounded" (`:23`); each offer takes the record off the relay
  until the phone announces it again. A phone whose browser cannot capture for the
  relay has no deadline for an offer that is never answered.
  When the console's DELETE is lost, the phone relays to nobody until the record
  expires. When the reply to the claim is lost, the phone's retry is told
  ALREADY_CLAIMED.
- *Counter.* A poll or post of a room the desk has left is merged into the next
  one, because `stopped` is cleared for the new code (`useCounterSession.ts:242`).
  A turn that is discarded and sent anew may already be stored.
- *Counter voice.* A microphone stopped while `getUserMedia` is pending comes on
  later and has no owner (`audio.ts:221`). The button says "listening" during a
  fallback, while nothing is ready to hear. The browser's recogniser may start
  after its turn was stopped or timed out, and the attempt announces it
  (`counter-speech.ts:499`): the button listens, with no turn under way and in the
  end no recogniser either, although `listening` is "True only once the recogniser
  really is ready to hear speech" (`useVoiceInput.ts:153`). Late words of one
  turn's recogniser become `lastPartial` of the next (`useVoiceInput.ts:84`), which
  returns them if it recognises nothing.

## 6. The proofs

The theorems hold for every value of the constants that satisfies the named
assumption of each module (`EngineAssumption` and `ChunkStoreAssumption`,
`TransportAssumption`, `BreakerAssumption`, `RouterAssumption` and
`LaneAssumption`, `PairingAssumption` and `StoreAssumption`, `LinkAssumption`,
`CounterAssumption`, `VoiceAssumption`), each evaluated by a run.

**ChunkStoreProofs.** No theorem about the engine can do without knowing what
filtering, flattening, reversing and trimming a sequence give, and these are
recursive functions. What is provable about them is what can be said with a set:
that a set of naturals which holds 0 and is closed under successor holds every
natural (`NatSetInduction`, derived from the finiteness of `0..n`) is enough to
show that the function under `Among` picks the elements it should, once and in
their order, that a flattened sequence holds what its parts hold and repeats
nothing they do not, and that a set of numbers has a largest member. The second
half takes each function of `chunks.ts` in turn: what it keeps of the well-formed
screen (`ScreenOK`) and of the spoken lines (`KeepsSpoken`).

**TwoLaneEngineProofs** has four layers, each inductive relative to the one
before, and each with one lemma per action that says what the action does to the
lanes, so that the later layers never open an action again.

*The slot.* `OneLiveRequest` is not inductive: it says nothing of requests of a
generation still to come, so a step that raises the generation could revive one.
`LaneInv` adds that no request carries a generation above the engine's, that a
request is never for an empty unit, and that a stopped engine has a free slot.
`NoStrandedQueue` is a conjunct.

*The turns.* `TurnsInv` says that the slot holds a stretch of consecutive turns
and the queue the newest ones, that they are disjoint, that an outdated request
is for no turn still owed, and that the records of the last `MaxTurnRecords`
turns say what the lanes hold. A turn that both lanes owe is the newest, which is
what lets a late result of the fast lane be placed. `RecordsMatchLanes` follows.

*The screen.* `SpokenLinesNeverChange` looks like a fact about insertion and is
not: a refinement replaces editable lines of its unit wherever they stand, so
nothing below them may have been committed before them. `ScreenInv` therefore
says that below an editable line of a turn the cloud still owes nothing is spoken
and nothing editable is older. The commit clock keeps that because it commits the
older lines first; an insertion keeps it because it commits what stands above it
and because the cloud owes nothing older than its slot. `EditableInStreamOrder`
and `StoppedScreenIsFinal` are conjuncts. These three hold without a hypothesis.

*The speech.* `SpeechInOnePlace` needs to know of every turn a lane still works
on, the fast lane included, that its words are not buffered and not those of
another such turn, and of every waiting turn the fast lane has not shown that its
words are not on the screen. `NoSpeechDropped` needs that a turn marks itself as
owed until it is answered, and that the turns of an outdated request are marked
stale before its answer comes (`StaleUnits`), so that the answer takes nothing
back.

Two hypotheses are needed, and they are hypotheses about the program:

- `WaitingRecorded`, in `SpecRecordsMatchLanes`, `SpecNoSpeechDropped` and
  `SpecSpeechInOnePlace`: at no time does a turn wait whose record has been
  dropped. `invalidateOutstanding` restores only turns it finds in `this.turns`,
  so a contract change would forget the speech of such a turn.
  `SpecWaitingRecorded` reduces this to the request in flight: with more records
  than turns that may wait (the code has 64 and 6), it is enough that the unit in
  the slot is always still recorded (`CloudRecorded`), that is, that the cloud
  answers or gives up before 64 further turns are cut. The cloud lane's budget
  makes that so by minutes, but it is outside the engine, so it stays a
  hypothesis. `FewTurnsAreRecorded` discharges it for the bounds of the runs.
- `EarlyRejection = FALSE`, in `SpecSpeechInOnePlace`: see section 2.

**LiveTransportProofs.** `OneThingPending` alone is not inductive: nothing says
what a pending close promises. `IInv` adds what each pending thing implies: a
close leaves nothing running, and a retry that follows it is one the table still
has; a current open says the phase, that nothing else is pending, and where its
attempt's recogniser and microphone are; a timer means "recovering", with no
resource held; an open that has been overtaken in a live session was at its last
await, the worklet, so it creates nothing more. From it follow the type
invariant, that fault and phase agree, that retries are bounded, and all safety
properties of the run.

**CloudPathProofs.** `AnsweredInTime` needs, for each request, that what is left
of its attempt lies within the turn, and that an attempt is begun only with the
budget of `BudgetFor`; `Walk` gets a lemma of its own, for every chain.
`GivesUpInTime` needs the same of the lane's fetches, and that a sleep is begun
only when it fits. `NeverStranded` needs that an answer of the helper leaves the
bypass cleared.

**PairingStoreProofs.** The fact that makes compare-and-set work is `DraftsFit`:
as long as the revision a server has read is still that of the cell, its draft
is what its request makes of the record in the cell *now*. With it a write is a
step of `Pairing` (`StoreKeepsPromise`), and the properties of the record, proved
once for `Outcome`, carry over. `OfferKept` needs that the offer on record is of
the record's generation. `OnePhone` relates the history of granted claims to the
owner on record.

**RemoteMicLinkProofs.** Neither property is inductive. A negotiation that was
queued acts whenever its turn comes, so `StoppedPhoneIsSilent` needs that a
microphone which is on is meant to be heard: `negotiate` asks for the first and
never for the second (`PhoneOK`). `PhoneOK` also says that a phone captures only
on the relay; it does not say that a phone on the relay has no peer, which is not
so. `SourceFollowsTransport` needs, on the console, that one who reads the relay
holds no peer (`ConsoleOK`), and that an offer, in the record, in a view that was
taken, awaited by the phone, or in a late request, names its peer (`ServerOK`,
`RequestOK`). One lemma per helper that several handlers call, one per action.

**CounterSyncProofs.** `TypeOK` is not inductive: that an attempt's number stays
within the table of delays needs that a device which waits for its retry has not
used them all, and what an answer puts on screen is a message only because an
answered post is one of the log. `IInv` adds these two facts (`AttemptInv`,
`AnswersInv`) to `TypeOK` and `StoredOnce`. Settling a request, which ends four
of the actions, is a lemma (`SettleStep`, `Settles`), and so is appending to a
log an entry it does not hold.

`AnsweredInOrder` rests on the front of the queue (`OrderInv`): a device never
posts beyond it, so nothing it has posted, on its way or stored, is newer, and a
request that is answered is stored before any later one is made. `ShownOnce` is
a conjunct, and needs that no screen shows what is still to be made.
`ListenerMissesNothing` rests on the rooms (`PlaceInv`): a room is only ever
given out anew, so what arrives late at a device in the first room it has is of
that room, and a poll asks from the cursor or from below it, so that its answer
never leaves a gap. Both are inductive relative to `IInv`, with a lemma per
handler for what it does to the log, the queues, the polls and the screens.

**CounterVoiceProofs.** The invariant says that what is tried fits the stage
(`AttemptFitsStage`: only a recording and the cloud recogniser have a
microphone), that while a turn is under way the words it keeps were recognised in
it, or came late from an earlier one, and none it recognised is forgotten
(`WordsAreKept`), and that only a browser with a recogniser of its own has one
that lingers (`LateIsTheBrowsers`). Every way out of an attempt goes through `Ends`, `Tries`,
`Fallback` or `FailsWith`, each with a lemma; the actions cite those.

**Model-checked only.** Every invariant and action property of the passing runs is
proved. What stays with TLC is liveness, because TLAPS proves nothing under
ENABLED: `SpeechIsAnswered`, `RecoveryEnds`, `OutageHeals`, `PhoneComesToRest`,
`EndReachesBoth`, `EndIsNoticed`, `SendsSettle`, `TurnEnds`. No module declares a RECURSIVE operator.

## 7. Not modelled

- The engine's segments, glossary and entity memory, Scripture lookups, cultural
  notes, connection labels and corrections, none of which touches the state
  above. `stop()`'s flush of the last unit under a hard cap is the best effort
  the code declares it to be: `NoSpeechDropped` speaks of a running engine only.
- The reconnection of a recogniser's socket (`providers/stt/socket.ts`), the
  queue of the speech synthesiser (`features/earbud`), and the numbering and
  acknowledgement of relay frames. Each is a small protocol of its own that none
  of the models above depends on: they take a recogniser as something that may
  fail or fall silent at any time, and the relay as something that has unread
  audio or has not.
- Counters and windows per client (`lib/rate-limit.ts`): a refusal is one of the
  refusals the modelled clients meet.
- Text analysis of every kind (stabilising, glossary, rescue output, quality of
  the counter's translations, profile detection, Scripture): lexical rules
  without state. They are a large part of the program's lines.
- Screens, styling, telemetry, preferences, storage of finished sessions, vendor
  request mapping, and stateless routes (token, session, diagnostics, prep): I/O
  and views.
