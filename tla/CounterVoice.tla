---------------------------- MODULE CounterVoice ----------------------------
(***************************************************************************)
(* One spoken turn at the counter: the hook useVoiceInput and the class    *)
(* CounterSpeechController (src/src/features/counter/), which tries a cloud*)
(* recogniser, then the browser's, then a recording that is transcribed as *)
(* a whole, with the microphone of src/src/providers/stt/audio.ts.         *)
(*                                                                         *)
(* Text is abstracted to whether there is any.  What the settling of a     *)
(* promise sets off at once belongs to the step that settles it.           *)
(*                                                                         *)
(* The sockets of the cloud's recognisers say nothing after their close(). *)
(* The browser's recogniser does: disconnect() only asks it to stop, and   *)
(* its handlers stay attached (src/src/providers/stt/webspeech.ts).        *)
(***************************************************************************)
EXTENDS Naturals

CONSTANTS
  MaxTurns,        \* bound: turns that are started
  MaxDismissals    \* bound: changes of language or room

ASSUME VoiceAssumption == MaxTurns \in Nat /\ MaxDismissals \in Nat

VARIABLES
  device,      \* the recognisers this device and language have
  stage,       \* how far start() has come
  phase,       \* what the button shows
  attached,    \* the hook holds the controller: a tap reaches it
  abandoned,   \* cancelledWhilePreparing
  kept,        \* lastPartial holds words
  disposed,    \* of the controller
  quit,        \* stoppedBeforeConnect
  attempt,     \* the recogniser or the recording that is being tried
  mic,         \* the attempt's microphone
  loose,       \* microphones that were stopped while they were being asked for
  session,     \* whether the request under way had to renew the browser's session
  lingering,   \* browser recognisers that were told to stop and still run
  heard,       \* history: words were recognised in this turn
  leftover,    \* history: words of an earlier turn were recognised during this one
  outcome,     \* history: how the last turn ended, and with words or not
  count        \* turns and dismissals so far

vars == <<device, stage, phase, attached, abandoned, kept, disposed, quit, attempt,
          mic, loose, session, lingering, heard, leftover, outcome, count>>

control == <<stage, attached, abandoned, disposed, quit, session, outcome>>

words == <<kept, heard, leftover>>

----------------------------------------------------------------------------
(* Attempts *)

Nobody == [by |-> "nobody"]

(* attempt(): capture is captureReady, silence the timer of trailing       *)
(* silence, result what the utterance has been settled with.               *)
Streaming(by) ==
  [by |-> by, ready |-> FALSE, capture |-> by # "cloud", stable |-> FALSE, partial |-> FALSE,
   silence |-> FALSE, result |-> "none", cancelled |-> FALSE]

(* attemptHuggingFace(): loud once speech was heard, result once the       *)
(* capture is over.                                                        *)
Recording ==
  [by |-> "batch", loud |-> FALSE, silence |-> FALSE, result |-> "none", stopped |-> FALSE]

Recognised(a) == a.stable \/ a.partial

Connected(a) == a.ready /\ a.capture

StageOf(a) == IF a.by = "batch" THEN "recording" ELSE "streaming"

(* The browser's recogniser has a microphone of its own.                   *)
MicrophoneOf(a) == IF a.by = "browser" THEN "none" ELSE "asking"

(* A promise is settled once.                                              *)
Settled(a, result) ==
  [a EXCEPT !.result = IF @ = "none" THEN result ELSE @, !.silence = FALSE]

(* finish() of attempt() *)
Finished(a) == Settled(a, IF Recognised(a) THEN "words" ELSE "nothing")

----------------------------------------------------------------------------
(* The end of a turn, and what is tried next *)

(* stop() of a microphone does not reach one the browser is still asking   *)
(* the person for.                                                         *)
Released == IF mic = "asking" THEN loose \cup {"asking"} ELSE loose

(* The text that start() returns: the controller's, or else the words that *)
(* were shown, unless the turn was refused or stopped.                     *)
Returns(text, failure) == text \/ (failure \notin {"permission", "stopped"} /\ kept)

EndsWithMicrophone(text, failure) ==   \* mutant of Ends
  /\ stage' = "off"
  /\ phase' = IF failure = "unavailable" THEN "unavailable" ELSE "idle"
  /\ attached' = FALSE /\ abandoned' = FALSE /\ quit' = FALSE
  /\ attempt' = Nobody /\ session' = "unasked"
  /\ outcome' = [words |-> Returns(text, failure), failure |-> failure]
  /\ UNCHANGED <<disposed, mic, loose>>

EndsOnlyItsOwnPhase(text, failure) ==   \* mutant of Ends
  /\ stage' = "off"
  /\ phase' = IF attached THEN "idle" ELSE phase
  /\ attached' = FALSE /\ abandoned' = FALSE /\ quit' = FALSE
  /\ attempt' = Nobody /\ session' = "unasked"
  /\ mic' = "none" /\ loose' = Released
  /\ outcome' = [words |-> Returns(text, failure), failure |-> failure]
  /\ UNCHANGED disposed

(* complete(), the finally blocks of the attempt and the end of start().   *)
Ends(text, failure) ==
  /\ stage' = "off"
  /\ phase' = IF failure = "unavailable" THEN "unavailable" ELSE "idle"
  /\ attached' = FALSE /\ abandoned' = FALSE /\ quit' = FALSE
  /\ attempt' = Nobody /\ session' = "unasked"
  /\ mic' = "none" /\ loose' = Released
  /\ outcome' = [words |-> Returns(text, failure), failure |-> failure]
  /\ UNCHANGED disposed

Tries(a, shown) ==
  /\ attempt' = a
  /\ stage' = StageOf(a)
  /\ mic' = MicrophoneOf(a) /\ loose' = Released
  /\ phase' = shown /\ session' = "unasked"
  /\ UNCHANGED <<attached, abandoned, disposed, quit, outcome>>

(* What listen() turns to after `by' could not be used; a controller that  *)
(* was disposed of throws at the start of the next attempt.                *)
Fallback(by, shown) ==
  IF device.browser /\ by # "browser"
  THEN IF disposed THEN Ends(FALSE, "stopped") ELSE Tries(Streaming("browser"), shown)
  ELSE IF device.batch
  THEN IF disposed THEN Ends(FALSE, "stopped") ELSE Tries(Recording, shown)
  ELSE Ends(FALSE, "unavailable")

(* The catch blocks of listen(): a refused permission and a stop are final *)
(* for a recogniser, and every failure is for a recording.                 *)
FailsWith(why, shown) ==
  IF why \in {"permission", "stopped"} \/ attempt.by = "batch"
  THEN Ends(FALSE, why)
  ELSE Fallback(attempt.by, shown)

(* A recogniser's attempt goes on as a, until it is connected and settled. *)
Goes(a, shown) ==
  IF ~Connected(a) \/ a.result = "none"
  THEN /\ attempt' = a /\ mic' = (IF a.by = "cloud" /\ a.capture THEN "on" ELSE mic)
       /\ phase' = shown
       /\ UNCHANGED <<control, loose>>
  ELSE IF a.result \in {"failed", "permission"} THEN FailsWith(a.result, shown)
  ELSE IF a.cancelled THEN Ends(FALSE, "stopped")
  ELSE Ends(a.result = "words", "none")

(* A recording goes on as a, until its microphone is on and it is over:    *)
(* the microphone is given up before the upload.                           *)
Records(a, microphone, shown) ==
  IF microphone # "on" \/ a.result = "none"
  THEN /\ attempt' = a /\ mic' = microphone /\ phase' = shown
       /\ UNCHANGED <<control, loose>>
  ELSE IF a.result # "over" THEN Ends(FALSE, a.result)
  ELSE IF ~a.loud THEN Ends(FALSE, IF a.stopped THEN "stopped" ELSE "none")
  ELSE /\ stage' = "uploading" /\ phase' = "finishing" /\ mic' = "none"
       /\ attempt' = a
       /\ UNCHANGED <<attached, abandoned, disposed, quit, session, outcome, loose>>

(* disconnect() of the recogniser that is being tried: the browser's own   *)
(* goes on until it has started, delivered and ended.                      *)
Lingers ==
  lingering' = IF attempt.by # "browser" THEN lingering
               ELSE lingering \cup {[announced |-> attempt.ready, turn |-> count.turns]}

----------------------------------------------------------------------------
(* The button *)

TapKeepingWords ==   \* mutant of Tap
  /\ stage = "off" /\ phase = "idle"
  /\ count.turns < MaxTurns
  /\ count' = [count EXCEPT !.turns = @ + 1]
  /\ stage' = "permission" /\ phase' = "connecting"
  /\ abandoned' = FALSE /\ heard' = FALSE /\ leftover' = FALSE
  /\ UNCHANGED <<device, kept, attached, disposed, quit, attempt, mic, loose, session,
                 lingering, outcome>>

Tap ==
  /\ stage = "off" /\ phase = "idle"
  /\ count.turns < MaxTurns
  /\ count' = [count EXCEPT !.turns = @ + 1]
  /\ stage' = "permission" /\ phase' = "connecting"
  /\ kept' = FALSE /\ abandoned' = FALSE /\ heard' = FALSE /\ leftover' = FALSE
  /\ UNCHANGED <<device, attached, disposed, quit, attempt, mic, loose, session,
                 lingering, outcome>>

(* The button stops a turn while it shows that one is under way.           *)
Stopping == stage # "off" /\ phase \in {"connecting", "listening"}

(* Before there is a controller, or after it was dismissed.                *)
StopPreparing ==
  /\ Stopping /\ ~attached
  /\ abandoned' = TRUE /\ phase' = "finishing"
  /\ UNCHANGED <<device, stage, attached, words, disposed, quit, attempt, mic, loose,
                 session, lingering, outcome, count>>

StopFetching ==
  /\ Stopping /\ attached /\ stage = "credentials"
  /\ quit' = TRUE /\ phase' = "finishing"
  /\ UNCHANGED <<device, stage, attached, abandoned, words, disposed, attempt, mic, loose,
                 session, lingering, outcome, count>>

StopStreaming ==
  /\ Stopping /\ attached /\ stage = "streaming"
  /\ IF attempt.ready THEN Goes(Finished(attempt), "finishing") ELSE Ends(FALSE, "stopped")
  /\ Lingers
  /\ UNCHANGED <<device, words, count>>

StopRecording ==
  /\ Stopping /\ attached /\ stage = "recording"
  /\ Records([Settled(attempt, "over") EXCEPT !.stopped = TRUE], mic, "finishing")
  /\ UNCHANGED <<device, words, lingering, count>>

(* The capture is over already: only the button takes notice.              *)
StopUploading ==
  /\ Stopping /\ attached /\ stage = "uploading"
  /\ phase' = "finishing"
  /\ UNCHANGED <<control, device, words, attempt, mic, loose, lingering, count>>

(* The effect's cleanup: another language, another room, or the page is    *)
(* left.  Whoever the turn waits for is not interrupted, nor is an upload. *)
Dismissing ==
  /\ stage # "off" /\ (attached \/ ~abandoned)
  /\ count.dismissals < MaxDismissals
  /\ count' = [count EXCEPT !.dismissals = @ + 1]

DismissWaiting ==
  /\ Dismissing /\ stage \in {"permission", "credentials", "uploading"}
  /\ abandoned' = TRUE /\ attached' = FALSE
  /\ disposed' = (disposed \/ attached)
  /\ quit' = (quit \/ stage = "credentials")
  /\ UNCHANGED <<device, stage, phase, words, attempt, mic, loose, session, lingering,
                 outcome>>

(* The attempt still waits for its microphone.                             *)
MicrophonePending ==
  \/ stage = "streaming" /\ attempt.ready /\ ~attempt.capture
  \/ stage = "recording" /\ mic # "on"

DismissOpening ==
  /\ Dismissing /\ MicrophonePending
  /\ abandoned' = TRUE /\ attached' = FALSE /\ disposed' = TRUE
  /\ attempt' = IF stage = "recording"
                THEN [Settled(attempt, "stopped") EXCEPT !.stopped = TRUE]
                ELSE [Settled(attempt, "nothing") EXCEPT !.cancelled = TRUE]
  /\ mic' = IF mic = "opening" THEN "closed" ELSE mic
  /\ UNCHANGED <<device, stage, phase, words, quit, loose, session, lingering, outcome>>

DismissAttempt ==
  /\ Dismissing /\ stage \in {"streaming", "recording"} /\ ~MicrophonePending
  /\ Ends(FALSE, "stopped")
  /\ Lingers
  /\ UNCHANGED <<device, words>>

----------------------------------------------------------------------------
(* What start() waits for *)

Refused ==
  /\ stage = "permission"
  /\ Ends(FALSE, IF abandoned THEN "stopped" ELSE "permission")
  /\ UNCHANGED <<device, words, lingering, count>>

Granted ==
  /\ stage = "permission"
  /\ IF abandoned
     THEN Ends(FALSE, "stopped")
     ELSE /\ attached' = TRUE /\ disposed' = FALSE
          /\ IF device.cloud
             THEN stage' = "credentials" /\ UNCHANGED <<attempt, mic>>
             ELSE LET first == IF device.browser THEN Streaming("browser") ELSE Recording IN
                  /\ attempt' = first /\ stage' = StageOf(first) /\ mic' = MicrophoneOf(first)
          /\ phase' = "connecting"
          /\ UNCHANGED <<abandoned, quit, loose, session, outcome>>
  /\ UNCHANGED <<device, words, lingering, count>>

(* guardedFetch(): a request that is answered 401 asks for a session once, *)
(* and the signal of the request does not reach that call.                 *)
SessionNeeded ==
  /\ stage \in {"credentials", "uploading"} /\ session = "unasked"
  /\ stage = "credentials" => ~quit /\ ~disposed
  /\ session' = "asking"
  /\ UNCHANGED <<device, stage, phase, attached, abandoned, words, disposed, quit, attempt,
                 mic, loose, lingering, outcome, count>>

SessionAnswered ==
  /\ session = "asking"
  /\ session' = "answered"
  /\ UNCHANGED <<device, stage, phase, attached, abandoned, words, disposed, quit, attempt,
                 mic, loose, lingering, outcome, count>>

(* The request is aborted by a stop or a dismissal.                        *)
CredentialsAborted ==
  /\ stage = "credentials" /\ session # "asking"
  /\ quit \/ disposed
  /\ Ends(FALSE, "stopped")
  /\ UNCHANGED <<device, words, lingering, count>>

(* The cloud recogniser is passed over without credentials, and when only  *)
(* the browser's can write the language's script.                          *)
CredentialsArrive ==
  /\ stage = "credentials" /\ session # "asking"
  /\ ~quit /\ ~disposed
  /\ Tries(Streaming("cloud"), phase) \/ Fallback("cloud", phase)
  /\ UNCHANGED <<device, words, lingering, count>>

MicrophoneAllowed ==
  /\ mic = "asking"
  /\ mic' = "opening"
  /\ UNCHANGED <<control, device, phase, words, attempt, loose, lingering, count>>

MicrophoneOpens ==
  /\ mic = "opening"
  /\ IF stage = "recording"
     THEN Records(attempt, "on", "listening")
     ELSE Goes([attempt EXCEPT !.capture = TRUE], IF attempt.ready THEN "listening" ELSE phase)
  /\ UNCHANGED <<device, words, lingering, count>>

(* start() of the microphone rejects: refused, in use, without a track, or *)
(* stopped while it was being opened.                                      *)
MicrophoneFails ==
  /\ \/ mic = "asking" /\ \E why \in {"permission", "failed"} : FailsWith(why, phase)
     \/ mic \in {"opening", "closed"} /\ FailsWith("failed", phase)
  /\ UNCHANGED <<device, words, lingering, count>>

(* A microphone nobody holds any more is granted all the same.             *)
LooseAnswered ==
  /\ "asking" \in loose
  /\ \E granted \in SUBSET {"on"} : loose' = (loose \ {"asking"}) \cup granted
  /\ UNCHANGED <<control, device, phase, words, attempt, mic, lingering, count>>

----------------------------------------------------------------------------
(* A recogniser *)

RecogniserReady ==
  /\ stage = "streaming" /\ ~attempt.ready
  /\ Goes([attempt EXCEPT !.ready = TRUE], IF attempt.capture THEN "listening" ELSE phase)
  /\ UNCHANGED <<device, words, lingering, count>>

(* withTimeout() of the connection.                                        *)
ConnectionDeadline ==
  /\ stage = "streaming" /\ ~attempt.ready
  /\ FailsWith("failed", phase)
  /\ Lingers
  /\ UNCHANGED <<device, words, count>>

(* onError, the status "error", and a microphone that breaks.  The end of  *)
(* the browser's recogniser, which follows, still settles its last interim *)
(* words (commitInterim).                                                  *)
RecogniserFails ==
  /\ stage = "streaming"
  /\ \E why \in {"permission", "failed"} :
       IF attempt.ready THEN Goes(Settled(attempt, why), phase) ELSE FailsWith(why, phase)
  /\ IF attempt.partial THEN Lingers ELSE UNCHANGED lingering
  /\ UNCHANGED <<device, words, count>>

(* onPartial and onStable: only a stable segment starts the timer of       *)
(* trailing silence.                                                       *)
Hears ==
  /\ stage = "streaming" /\ Connected(attempt) /\ attempt.result = "none"
  /\ \E final \in BOOLEAN :
       attempt' = [attempt EXCEPT !.partial = ~final, !.stable = @ \/ final, !.silence = final]
  /\ kept' = TRUE /\ heard' = TRUE
  /\ UNCHANGED <<control, device, phase, mic, loose, lingering, leftover, count>>

SilenceFires ==
  /\ stage = "streaming" /\ attempt.silence
  /\ Goes(Finished(attempt), phase)
  /\ Lingers
  /\ UNCHANGED <<device, words, count>>

(* The status "closed": the recogniser's own end of the utterance.         *)
RecogniserCloses ==
  /\ stage = "streaming" /\ attempt.ready
  /\ Goes(Finished(attempt), phase)
  /\ UNCHANGED <<device, words, lingering, count>>

CeilingFiresOverSilence ==   \* mutant of CeilingFires
  /\ stage = "streaming" /\ Connected(attempt) /\ attempt.silence
  /\ Goes(Finished(attempt), phase)
  /\ Lingers
  /\ UNCHANGED <<device, words, count>>

(* MAX_STREAMING_UTTERANCE_MS                                              *)
CeilingFires ==
  /\ stage = "streaming" /\ Connected(attempt)
  /\ Goes(Finished(attempt), phase)
  /\ Lingers
  /\ UNCHANGED <<device, words, count>>

----------------------------------------------------------------------------
(* The browser's recogniser after disconnect() *)

(* onstart: the attempt announces itself, whatever the turn is doing.      *)
LateStart ==
  /\ \E r \in lingering :
       /\ ~r.announced
       /\ lingering' = (lingering \ {r}) \cup {[r EXCEPT !.announced = TRUE]}
  /\ phase' = "listening"
  /\ UNCHANGED <<control, device, words, attempt, mic, loose, count>>

(* onresult, and the interim words that onend settles: they become         *)
(* lastPartial of the turn that is under way.                              *)
LateWords ==
  /\ \E r \in lingering :
       /\ r.announced
       /\ heard' = (heard \/ (stage # "off" /\ r.turn = count.turns))
       /\ leftover' = (leftover \/ (stage # "off" /\ r.turn # count.turns))
  /\ kept' = TRUE
  /\ UNCHANGED <<control, device, phase, attempt, mic, loose, lingering, count>>

LateEnd ==
  /\ \E r \in lingering : lingering' = lingering \ {r}
  /\ UNCHANGED <<control, device, phase, words, attempt, mic, loose, count>>

----------------------------------------------------------------------------
(* A recording *)

SpeechIsLoud ==
  /\ stage = "recording" /\ mic = "on"
  /\ attempt' = [attempt EXCEPT !.loud = TRUE, !.silence = TRUE]
  /\ UNCHANGED <<control, device, phase, words, mic, loose, lingering, count>>

(* Trailing silence, a full buffer, or the timer of thirty seconds.        *)
RecordingOver ==
  /\ stage = "recording" /\ mic = "on"
  /\ Records(Settled(attempt, "over"), mic, phase)
  /\ UNCHANGED <<device, words, lingering, count>>

RecordingBreaks ==
  /\ stage = "recording" /\ mic = "on"
  /\ \E why \in {"permission", "failed"} : Records(Settled(attempt, why), mic, phase)
  /\ UNCHANGED <<device, words, lingering, count>>

UploadEnds ==
  /\ stage = "uploading" /\ session # "asking"
  /\ \/ Ends(TRUE, "none") /\ heard' = TRUE
     \/ Ends(FALSE, "none") /\ heard' = heard
     \/ Ends(FALSE, "failed") /\ heard' = heard
  /\ UNCHANGED <<device, kept, leftover, lingering, count>>

----------------------------------------------------------------------------
(* The specification *)

Init ==
  /\ device \in {d \in [cloud : BOOLEAN, browser : BOOLEAN, batch : BOOLEAN] :
                   d.cloud \/ d.browser \/ d.batch}
  /\ stage = "off" /\ phase = "idle"
  /\ attached = FALSE /\ abandoned = FALSE /\ kept = FALSE
  /\ disposed = FALSE /\ quit = FALSE
  /\ attempt = Nobody /\ mic = "none" /\ loose = {}
  /\ session = "unasked" /\ lingering = {}
  /\ heard = FALSE /\ leftover = FALSE /\ outcome = [words |-> FALSE, failure |-> "none"]
  /\ count = [turns |-> 0, dismissals |-> 0]

Person ==
  \/ Tap \/ StopPreparing \/ StopFetching \/ StopStreaming \/ StopRecording
  \/ StopUploading
  \/ DismissWaiting \/ DismissOpening \/ DismissAttempt

PermissionAnswered == Refused \/ Granted

MicrophoneAnswered == MicrophoneAllowed \/ MicrophoneOpens \/ MicrophoneFails

Voice ==
  \/ PermissionAnswered \/ MicrophoneAnswered \/ LooseAnswered
  \/ SessionNeeded \/ SessionAnswered \/ CredentialsAborted \/ CredentialsArrive
  \/ RecogniserReady \/ ConnectionDeadline \/ RecogniserFails
  \/ Hears \/ SilenceFires \/ RecogniserCloses \/ CeilingFires
  \/ LateStart \/ LateWords \/ LateEnd
  \/ SpeechIsLoud \/ RecordingOver \/ RecordingBreaks \/ UploadEnds

Next == Person \/ Voice

Spec == Init /\ [][Next]_vars

(* The person and the browser answer what they are asked and timers fire:  *)
(* the upload has one.  The request for credentials and the one for a      *)
(* session have none, and only the first can be aborted.  Nobody has to    *)
(* speak, nor a recogniser to say anything.                                *)
FairSpec ==
  /\ Spec
  /\ WF_vars(PermissionAnswered) /\ WF_vars(CredentialsAborted) /\ WF_vars(MicrophoneAnswered)
  /\ WF_vars(ConnectionDeadline) /\ WF_vars(CeilingFires)
  /\ WF_vars(RecordingOver) /\ WF_vars(UploadEnds)

----------------------------------------------------------------------------
(* Properties *)

(* What start() hands to the composer was said in this turn, or else the   *)
(* browser's recogniser delivered it late, from an earlier one; and words  *)
(* the turn did recognise are lost only to a refused permission or to a    *)
(* stop, whichever recogniser failed after them.                           *)
TurnReturnsItsWords ==
  stage = "off" =>
    /\ outcome.words => heard \/ (leftover /\ device.browser)
    /\ heard /\ ~outcome.words => outcome.failure \in {"permission", "stopped"}

(* While start() is under way the button shows it, also when the turn was  *)
(* dismissed and nobody holds its controller any more; afterwards it shows *)
(* no turn, where the browser has no recogniser that could start late.     *)
ButtonFollowsTurn ==
  IF stage = "off" THEN phase \in {"idle", "unavailable"} \/ device.browser
  ELSE phase \in {"connecting", "listening", "finishing"}

(* The microphone of an attempt is given up in every way the attempt can   *)
(* end: with the turn, before the upload, and before the browser's own     *)
(* recogniser is tried.                                                    *)
MicrophoneFollowsTurn ==
  mic # "none" => stage = "recording" \/ (stage = "streaming" /\ attempt.by = "cloud")

(* The requests that nothing but their answer brings to an end.            *)
AwaitsAnswer ==
  session = "asking" \/ (stage = "credentials" /\ ~quit /\ ~disposed)

(* Every spoken turn ends whatever the recogniser and the person do,       *)
(* provided that no request for credentials, or to renew the session, hangs*)
(* for ever: the code sets those no deadline.                              *)
TurnEnds == []<>~AwaitsAnswer => (stage # "off" ~> stage = "off")
=============================================================================
