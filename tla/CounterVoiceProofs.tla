------------------------- MODULE CounterVoiceProofs --------------------------
(***************************************************************************)
(* Proofs about a spoken turn at the counter, for any number of turns and  *)
(* dismissals and every set of recognisers a device may have.              *)
(***************************************************************************)
EXTENDS CounterVoice, TLAPS

Stage == {"off", "permission", "credentials", "streaming", "recording", "uploading"}

Under == {"connecting", "listening", "finishing"}   \* phases of a turn under way

Microphone == {"none", "asking", "opening", "on", "closed"}

StreamingAttempt ==
  [by : {"cloud", "browser"}, ready : BOOLEAN, capture : BOOLEAN, stable : BOOLEAN,
   partial : BOOLEAN, silence : BOOLEAN, cancelled : BOOLEAN,
   result : {"none", "words", "nothing", "failed", "permission"}]

RecordingAttempt ==
  [by : {"batch"}, loud : BOOLEAN, silence : BOOLEAN, stopped : BOOLEAN,
   result : {"none", "over", "stopped", "failed", "permission"}]

TypeOK ==
  /\ device \in [cloud : BOOLEAN, browser : BOOLEAN, batch : BOOLEAN]
  /\ stage \in Stage
  /\ phase \in Under \cup {"idle", "unavailable"}
  /\ kept \in BOOLEAN /\ heard \in BOOLEAN /\ leftover \in BOOLEAN
  /\ mic \in Microphone

(* What is being tried at each stage; only the recording and the cloud's   *)
(* recogniser have a microphone.                                           *)
AttemptFitsStage ==
  /\ stage \in {"off", "permission", "credentials", "uploading"} => mic = "none"
  /\ stage = "streaming" => /\ attempt \in StreamingAttempt
                            /\ mic # "none" => attempt.by = "cloud"
                            /\ attempt.by = "browser" => device.browser
  /\ stage \in {"recording", "uploading"} => attempt \in RecordingAttempt

(* What an attempt has recognised.                                         *)
Words(a) == Recognised(a) \/ a.result = "words"

(* The words of a turn are kept from the moment they are heard, and what   *)
(* is kept was heard in the turn or came late from one before.             *)
WordsAreKept ==
  /\ stage # "off" => (heard => kept) /\ (kept => heard \/ leftover)
  /\ stage = "streaming" /\ Words(attempt) => heard

Core ==
  /\ TypeOK /\ AttemptFitsStage /\ WordsAreKept
  /\ ButtonFollowsTurn /\ TurnReturnsItsWords

(* Nothing comes late where the browser has no recogniser.                 *)
LateIsTheBrowsers == ~device.browser => lingering = {} /\ ~leftover

IInv == Core /\ LateIsTheBrowsers

----------------------------------------------------------------------------
(* What the actions are built from *)

(* Every way out of a turn leaves it in order, if a text that is handed    *)
(* over was heard.                                                         *)
LEMMA EndsStep ==
  ASSUME IInv, stage # "off", NEW text \in BOOLEAN, NEW failure, Ends(text, failure),
         device' = device, kept' = kept, leftover' = leftover, heard' \in BOOLEAN,
         heard' = (heard \/ text), text => heard \/ failure = "none"
  PROVE  Core'
<1>1. /\ stage' = "off" /\ mic' = "none"
      /\ phase' = IF failure = "unavailable" THEN "unavailable" ELSE "idle"
      /\ outcome' = [words |-> Returns(text, failure), failure |-> failure]
  BY DEF Ends
<1>2. TypeOK' BY <1>1 DEF TypeOK, IInv, Core, Stage, Microphone
<1>3. AttemptFitsStage' BY <1>1 DEF AttemptFitsStage
<1>4. WordsAreKept' BY <1>1 DEF WordsAreKept
<1>5. ButtonFollowsTurn' BY <1>1 DEF ButtonFollowsTurn
<1>6. TurnReturnsItsWords'
  <2>1. /\ (heard => kept) /\ (kept => heard \/ (leftover /\ device.browser))
        /\ kept \in BOOLEAN /\ leftover \in BOOLEAN
    BY DEF IInv, Core, LateIsTheBrowsers, WordsAreKept, TypeOK
  <2>2. outcome'.words = (text \/ (failure \notin {"permission", "stopped"} /\ kept))
        /\ outcome'.failure = failure
    BY <1>1 DEF Returns
  <2> QED BY <2>1, <2>2 DEF TurnReturnsItsWords
<1> QED BY <1>2, <1>3, <1>4, <1>5, <1>6 DEF IInv, Core

LEMMA FirstAttempts ==
  /\ \A by \in {"cloud", "browser"} :
       /\ Streaming(by) \in StreamingAttempt /\ ~Words(Streaming(by))
       /\ Streaming(by).by = by
  /\ Recording \in RecordingAttempt /\ Recording.by = "batch"
BY DEF Streaming, StreamingAttempt, Words, Recognised, Recording, RecordingAttempt

LEMMA TriesStep ==
  ASSUME IInv, stage # "off", NEW shown \in Under,
         NEW a \in {Streaming("cloud"), Streaming("browser"), Recording},
         a.by = "browser" => device.browser,
         Tries(a, shown), UNCHANGED <<device, kept, heard, leftover>>
  PROVE  Core'
<1>1. /\ attempt' = a /\ stage' = StageOf(a) /\ mic' = MicrophoneOf(a)
      /\ phase' = shown /\ outcome' = outcome
  BY DEF Tries
<1>2. CASE a = Recording
  <2>1. stage' = "recording" /\ mic' = "asking" /\ attempt' \in RecordingAttempt
    BY <1>1, <1>2, FirstAttempts DEF StageOf, MicrophoneOf
  <2> QED BY <1>1, <2>1 DEF IInv, Core, TypeOK, AttemptFitsStage, WordsAreKept, ButtonFollowsTurn,
             TurnReturnsItsWords, Stage, Microphone, Under
<1>3. ASSUME NEW by \in {"cloud", "browser"}, a = Streaming(by) PROVE Core'
  <2>1. /\ stage' = "streaming" /\ mic' \in {"none", "asking"}
        /\ attempt' \in StreamingAttempt /\ ~Words(attempt')
        /\ mic' # "none" => attempt'.by = "cloud"
        /\ attempt'.by = "browser" => device.browser
    BY <1>1, <1>3, FirstAttempts DEF StageOf, MicrophoneOf
  <2> HIDE DEF Words
  <2>2. TypeOK' BY <1>1, <2>1 DEF IInv, Core, TypeOK, Stage, Microphone, Under
  <2>3. AttemptFitsStage' BY <2>1 DEF AttemptFitsStage
  <2>4. WordsAreKept'
    <3>1. ~Words(attempt)' BY <2>1 DEF Words, Recognised
    <3> QED BY <2>1, <3>1 DEF IInv, Core, WordsAreKept
  <2>5. ButtonFollowsTurn' /\ TurnReturnsItsWords'
    BY <1>1, <2>1 DEF ButtonFollowsTurn, TurnReturnsItsWords, Under
  <2> QED BY <2>2, <2>3, <2>4, <2>5 DEF IInv, Core
<1> QED BY <1>2, <1>3

LEMMA FallbackStep ==
  ASSUME IInv, stage # "off", NEW by, NEW shown \in Under,
         Fallback(by, shown), UNCHANGED <<device, kept, heard, leftover>>
  PROVE  Core'
<1>1. \/ \E failure : Ends(FALSE, failure)
      \/ Tries(Streaming("browser"), shown) /\ device.browser
      \/ Tries(Recording, shown)
  BY DEF Fallback
<1>2. heard' \in BOOLEAN /\ heard' = (heard \/ FALSE) BY DEF IInv, Core, TypeOK
<1> QED BY <1>1, <1>2, EndsStep, TriesStep, FirstAttempts

LEMMA FailsStep ==
  ASSUME IInv, stage # "off", NEW why, NEW shown \in Under,
         FailsWith(why, shown), UNCHANGED <<device, kept, heard, leftover>>
  PROVE  Core'
<1>1. Ends(FALSE, why) \/ Fallback(attempt.by, shown) BY DEF FailsWith
<1>2. heard' \in BOOLEAN /\ heard' = (heard \/ FALSE) BY DEF IInv, Core, TypeOK
<1> QED BY <1>1, <1>2, EndsStep, FallbackStep

(* A recogniser's attempt that goes on, ends or is given up.               *)
LEMMA GoesStep ==
  ASSUME IInv, stage = "streaming", NEW a \in StreamingAttempt, a.by = attempt.by,
         Words(a) => heard, NEW shown \in Under,
         Goes(a, shown), UNCHANGED <<device, kept, heard, leftover>>
  PROVE  Core'
<1>1. CASE ~Connected(a) \/ a.result = "none"
  <2>1. /\ attempt' = a /\ phase' = shown /\ stage' = "streaming" /\ outcome' = outcome
        /\ mic' = IF a.by = "cloud" /\ a.capture THEN "on" ELSE mic
    BY <1>1 DEF Goes, control
  <2>2. TypeOK' BY <2>1 DEF IInv, Core, TypeOK, Stage, Microphone, Under
  <2>3. AttemptFitsStage' BY <2>1 DEF IInv, Core, AttemptFitsStage
  <2>4. WordsAreKept'
    <3>1. Words(attempt)' = Words(a) BY <2>1 DEF Words, Recognised
    <3> QED BY <2>1, <3>1 DEF IInv, Core, WordsAreKept
  <2>5. ButtonFollowsTurn' /\ TurnReturnsItsWords'
    BY <2>1 DEF ButtonFollowsTurn, TurnReturnsItsWords, Under
  <2> QED BY <2>2, <2>3, <2>4, <2>5 DEF IInv, Core
<1>2. CASE Connected(a) /\ a.result # "none"
  <2>1. \/ FailsWith(a.result, shown)
        \/ Ends(FALSE, "stopped")
        \/ Ends(a.result = "words", "none")
    BY <1>2 DEF Goes
  <2>2. heard' \in BOOLEAN /\ heard' = (heard \/ FALSE) /\ heard' = (heard \/ a.result = "words")
    BY DEF IInv, Core, TypeOK, Words
  <2> QED BY <2>1, <2>2, FailsStep, EndsStep
<1> QED BY <1>1, <1>2 DEF StreamingAttempt, Connected

(* A recording that goes on, ends, or is uploaded.                         *)
LEMMA RecordsStep ==
  ASSUME IInv, stage = "recording", NEW a \in RecordingAttempt,
         NEW microphone \in Microphone, NEW shown \in Under,
         Records(a, microphone, shown), UNCHANGED <<device, kept, heard, leftover>>
  PROVE  Core'
<1>1. CASE microphone # "on" \/ a.result = "none"
  BY <1>1 DEF Records, control, IInv, Core, TypeOK, AttemptFitsStage, WordsAreKept, ButtonFollowsTurn,
     TurnReturnsItsWords, Stage, Under
<1>2. CASE microphone = "on" /\ a.result # "none"
  <2>1. \/ \E failure : Ends(FALSE, failure)
        \/ /\ stage' = "uploading" /\ phase' = "finishing" /\ mic' = "none"
           /\ attempt' = a /\ outcome' = outcome
    BY <1>2 DEF Records
  <2>2. heard' \in BOOLEAN /\ heard' = (heard \/ FALSE) BY DEF IInv, Core, TypeOK
  <2>3. CASE \E failure : Ends(FALSE, failure) BY <2>2, <2>3, EndsStep
  <2>4. CASE /\ stage' = "uploading" /\ phase' = "finishing" /\ mic' = "none"
             /\ attempt' = a /\ outcome' = outcome
    BY <2>4 DEF IInv, Core, TypeOK, AttemptFitsStage, WordsAreKept, ButtonFollowsTurn,
       TurnReturnsItsWords, Stage, Under, Microphone
  <2> QED BY <2>1, <2>3, <2>4
<1> QED BY <1>1, <1>2

(* Settling a promise twice changes nothing, and no words come of it.      *)
LEMMA SettledStreaming ==
  ASSUME NEW a \in StreamingAttempt, NEW r \in {"words", "nothing", "failed", "permission"}
  PROVE  /\ Settled(a, r) \in StreamingAttempt /\ Settled(a, r).by = a.by
         /\ Words(Settled(a, r)) => Words(a) \/ r = "words"
<1> DEFINE b == Settled(a, r)
<1>1. b = [a EXCEPT !.result = IF a.result = "none" THEN r ELSE a.result, !.silence = FALSE]
  BY DEF Settled
<1>2. b \in StreamingAttempt /\ b.by = a.by
  BY <1>1 DEF StreamingAttempt
<1>3. b.stable = a.stable /\ b.partial = a.partial
      /\ b.result = IF a.result = "none" THEN r ELSE a.result
  BY <1>1 DEF StreamingAttempt
<1> HIDE DEF b
<1>4. Words(b) => Words(a) \/ r = "words"
  BY <1>3 DEF Words, Recognised
<1> QED BY <1>2, <1>4 DEF b

LEMMA SettledRecording ==
  ASSUME NEW a \in RecordingAttempt, NEW r \in {"over", "stopped", "failed", "permission"}
  PROVE  Settled(a, r) \in RecordingAttempt
BY DEF Settled, RecordingAttempt

LEMMA FinishedStreaming ==
  ASSUME NEW a \in StreamingAttempt
  PROVE  /\ Finished(a) \in StreamingAttempt /\ Finished(a).by = a.by
         /\ Words(Finished(a)) => Words(a)
<1>1. CASE Recognised(a)
  BY <1>1, SettledStreaming DEF Finished, Words
<1>2. CASE ~Recognised(a)
  BY <1>2, SettledStreaming DEF Finished
<1> QED BY <1>1, <1>2

----------------------------------------------------------------------------
(* The person *)

LEMMA TapStep ==
  ASSUME IInv, Tap PROVE Core'
BY DEF Tap, IInv, Core, TypeOK, AttemptFitsStage, WordsAreKept, ButtonFollowsTurn,
   TurnReturnsItsWords, Stage, Under, Microphone

(* Steps that leave the attempt, the stage and the words alone.            *)
LEMMA ShowsStep ==
  ASSUME IInv, stage # "off",
         UNCHANGED <<device, stage, kept, heard, leftover, attempt, mic, outcome>>,
         phase' \in Under
  PROVE  Core'
BY DEF IInv, Core, TypeOK, AttemptFitsStage, WordsAreKept, ButtonFollowsTurn,
   TurnReturnsItsWords, Stage, Under, Microphone, Words, Recognised

LEMMA PhaseUnder ==
  ASSUME IInv, stage # "off" PROVE phase \in Under
BY DEF IInv, Core, TypeOK, ButtonFollowsTurn

LEMMA StopStep ==
  ASSUME IInv,
         StopPreparing \/ StopFetching \/ StopUploading \/ StopStreaming \/ StopRecording
  PROVE  Core'
<1> stage # "off"
  BY DEF StopPreparing, StopFetching, StopUploading, StopStreaming, StopRecording, Stopping
<1> "finishing" \in Under BY DEF Under
<1>1. CASE StopPreparing \/ StopFetching \/ StopUploading
  BY <1>1, ShowsStep DEF words, control, StopPreparing, StopFetching, StopUploading
<1>2. CASE StopStreaming
  <2>1. attempt \in StreamingAttempt /\ stage = "streaming"
        /\ UNCHANGED <<device, kept, heard, leftover>>
    BY <1>2 DEF words, StopStreaming, IInv, Core, AttemptFitsStage
  <2>2. CASE Goes(Finished(attempt), "finishing")
    BY <2>1, <2>2, FinishedStreaming, GoesStep DEF IInv, Core, WordsAreKept
  <2>3. CASE Ends(FALSE, "stopped")
    <3>1. heard' \in BOOLEAN /\ heard' = (heard \/ FALSE) BY <2>1 DEF IInv, Core, TypeOK
    <3> QED BY <2>1, <2>3, <3>1, EndsStep
  <2> QED BY <1>2, <2>2, <2>3 DEF words, StopStreaming
<1>3. CASE StopRecording
  <2> DEFINE a == [Settled(attempt, "over") EXCEPT !.stopped = TRUE]
  <2>1. attempt \in RecordingAttempt /\ mic \in Microphone
    BY <1>3 DEF words, StopRecording, IInv, Core, AttemptFitsStage, TypeOK
  <2>2. Settled(attempt, "over") \in RecordingAttempt BY <2>1, SettledRecording
  <2>3. a \in RecordingAttempt BY <2>2 DEF RecordingAttempt
  <2> HIDE DEF a
  <2>4. Records(a, mic, "finishing") /\ stage = "recording" /\ UNCHANGED <<device, kept, heard, leftover>>
    BY <1>3 DEF words, StopRecording, a
  <2> QED BY <2>1, <2>3, <2>4, RecordsStep
<1> QED BY <1>1, <1>2, <1>3

LEMMA DismissStep ==
  ASSUME IInv, DismissWaiting \/ DismissOpening \/ DismissAttempt
  PROVE  Core'
<1> stage # "off" BY DEF words, DismissWaiting, DismissOpening, DismissAttempt, Dismissing
<1> phase \in Under BY PhaseUnder
<1>1. CASE DismissWaiting
  BY <1>1, ShowsStep DEF words, DismissWaiting
<1>2. CASE DismissOpening /\ stage = "recording"
  <2> DEFINE a == [Settled(attempt, "stopped") EXCEPT !.stopped = TRUE]
  <2>1. Settled(attempt, "stopped") \in RecordingAttempt
    BY <1>2, SettledRecording DEF IInv, Core, AttemptFitsStage
  <2>2. a \in RecordingAttempt BY <2>1 DEF RecordingAttempt
  <2> HIDE DEF a
  <2>3. attempt' = a /\ mic' \in Microphone
        /\ UNCHANGED <<device, stage, phase, kept, heard, leftover, outcome>>
    BY <1>2 DEF words, DismissOpening, a, IInv, Core, TypeOK, Microphone
  <2> QED BY <1>2, <2>2, <2>3 DEF IInv, Core, TypeOK, AttemptFitsStage, WordsAreKept,
             ButtonFollowsTurn, TurnReturnsItsWords
<1>3. CASE DismissOpening /\ stage # "recording"
  <2> DEFINE b == Settled(attempt, "nothing")
             a == [b EXCEPT !.cancelled = TRUE]
  <2>1. stage = "streaming" /\ attempt \in StreamingAttempt
    BY <1>3 DEF words, DismissOpening, MicrophonePending, IInv, Core, AttemptFitsStage
  <2>2. b \in StreamingAttempt /\ b.by = attempt.by /\ (Words(b) => heard)
    BY <2>1, SettledStreaming DEF IInv, Core, WordsAreKept
  <2> HIDE DEF b
  <2>3. a \in StreamingAttempt /\ a.by = b.by /\ a.result = b.result
        /\ a.stable = b.stable /\ a.partial = b.partial
    BY <2>2 DEF StreamingAttempt
  <2>4. /\ attempt' = a
        /\ mic' = IF mic = "opening" THEN "closed" ELSE mic
        /\ UNCHANGED <<device, stage, phase, kept, heard, leftover, outcome>>
    BY <1>3 DEF words, DismissOpening, b
  <2> HIDE DEF a
  <2>5. Words(attempt)' => heard
    BY <2>2, <2>3, <2>4 DEF Words, Recognised
  <2>6. TypeOK' BY <2>4 DEF IInv, Core, TypeOK, Microphone
  <2>7. AttemptFitsStage' BY <2>1, <2>2, <2>3, <2>4 DEF IInv, Core, AttemptFitsStage
  <2>8. WordsAreKept' BY <2>4, <2>5 DEF IInv, Core, WordsAreKept
  <2> QED BY <2>4, <2>6, <2>7, <2>8 DEF IInv, Core, ButtonFollowsTurn, TurnReturnsItsWords
<1>4. CASE DismissAttempt
  <2>1. Ends(FALSE, "stopped") /\ UNCHANGED <<device, kept, heard, leftover>>
    BY <1>4 DEF words, DismissAttempt
  <2>2. heard' \in BOOLEAN /\ heard' = (heard \/ FALSE) BY <2>1 DEF IInv, Core, TypeOK
  <2> QED BY <2>1, <2>2, EndsStep
<1> QED BY <1>1, <1>2, <1>3, <1>4

----------------------------------------------------------------------------
(* What start() waits for *)

LEMMA RefusedStep ==
  ASSUME IInv, Refused PROVE Core'
<1>1. \E failure : Ends(FALSE, failure) BY DEF words, Refused
<1>2. UNCHANGED <<device, kept, heard, leftover>> /\ stage # "off" BY DEF words, Refused
<1>3. heard' \in BOOLEAN /\ heard' = (heard \/ FALSE) BY <1>2 DEF IInv, Core, TypeOK
<1> QED BY <1>1, <1>2, <1>3, EndsStep

LEMMA GrantedStep ==
  ASSUME IInv, Granted PROVE Core'
<1>0. UNCHANGED <<device, kept, heard, leftover>> /\ stage = "permission" BY DEF words, Granted
<1>1. CASE abandoned
  <2>1. Ends(FALSE, "stopped") BY <1>1 DEF words, Granted
  <2>2. heard' \in BOOLEAN /\ heard' = (heard \/ FALSE) BY <1>0 DEF IInv, Core, TypeOK
  <2> QED BY <1>0, <2>1, <2>2, EndsStep
<1>2. CASE ~abandoned /\ device.cloud
  BY <1>0, <1>2 DEF words, Granted, IInv, Core, TypeOK, AttemptFitsStage, WordsAreKept, ButtonFollowsTurn,
     TurnReturnsItsWords, Stage, Under
<1>3. CASE ~abandoned /\ ~device.cloud
  <2> DEFINE first == IF device.browser THEN Streaming("browser") ELSE Recording
  <2>1. /\ attempt' = first /\ stage' = StageOf(first) /\ mic' = MicrophoneOf(first)
        /\ phase' = "connecting" /\ outcome' = outcome
    BY <1>3 DEF Granted
  <2>2. CASE device.browser
    <3>1. /\ stage' = "streaming" /\ mic' = "none" /\ attempt' = Streaming("browser")
          /\ attempt' \in StreamingAttempt
      BY <2>1, <2>2, FirstAttempts DEF StageOf, MicrophoneOf
    <3>2. ~Words(attempt)'
      BY <3>1, FirstAttempts DEF Words, Recognised
    <3> QED BY <1>0, <2>1, <2>2, <3>1, <3>2 DEF IInv, Core, TypeOK, AttemptFitsStage, WordsAreKept,
               ButtonFollowsTurn, TurnReturnsItsWords, Stage, Under, Microphone
  <2>3. CASE ~device.browser
    <3>1. stage' = "recording" /\ mic' = "asking" /\ attempt' \in RecordingAttempt
      BY <2>1, <2>3, FirstAttempts DEF StageOf, MicrophoneOf
    <3> QED BY <1>0, <2>1, <3>1 DEF IInv, Core, TypeOK, AttemptFitsStage, WordsAreKept,
               ButtonFollowsTurn, TurnReturnsItsWords, Stage, Under, Microphone
  <2> QED BY <2>2, <2>3
<1> QED BY <1>1, <1>2, <1>3

LEMMA CredentialsStep ==
  ASSUME IInv, CredentialsArrive \/ CredentialsAborted PROVE Core'
<1>1. UNCHANGED <<device, kept, heard, leftover>> /\ stage # "off"
  BY DEF words, CredentialsArrive, CredentialsAborted
<1>2. phase \in Under BY <1>1, PhaseUnder
<1>3. heard' \in BOOLEAN /\ heard' = (heard \/ FALSE) BY <1>1 DEF IInv, Core, TypeOK
<1>4. Ends(FALSE, "stopped") \/ Tries(Streaming("cloud"), phase) \/ Fallback("cloud", phase)
  BY DEF CredentialsArrive, CredentialsAborted
<1> QED BY <1>1, <1>2, <1>3, <1>4, EndsStep, TriesStep, FallbackStep, FirstAttempts

LEMMA SessionStep ==
  ASSUME IInv, SessionNeeded \/ SessionAnswered PROVE Core'
BY DEF SessionNeeded, SessionAnswered, words, IInv, Core, TypeOK, AttemptFitsStage,
   WordsAreKept, ButtonFollowsTurn, TurnReturnsItsWords, Words, Recognised

LEMMA MicrophoneStep ==
  ASSUME IInv, MicrophoneAllowed \/ MicrophoneOpens \/ MicrophoneFails \/ LooseAnswered
  PROVE  Core'
<1>1. CASE LooseAnswered
  BY <1>1 DEF words, control, LooseAnswered, IInv, Core, TypeOK, AttemptFitsStage, WordsAreKept, ButtonFollowsTurn,
     TurnReturnsItsWords, Words, Recognised
<1>2. CASE MicrophoneAllowed
  BY <1>2 DEF words, control, MicrophoneAllowed, IInv, Core, TypeOK, AttemptFitsStage, WordsAreKept,
     ButtonFollowsTurn, TurnReturnsItsWords, Words, Recognised, Microphone
<1>3. ASSUME mic # "none" PROVE stage \in {"streaming", "recording"} /\ phase \in Under
  BY <1>3, PhaseUnder DEF IInv, Core, TypeOK, AttemptFitsStage, Stage
<1>4. CASE MicrophoneOpens
  <2>1. stage \in {"streaming", "recording"} /\ phase \in Under
        /\ UNCHANGED <<device, kept, heard, leftover>>
    BY <1>3, <1>4 DEF words, MicrophoneOpens
  <2>2. CASE stage = "recording"
    <3>1. Records(attempt, "on", "listening") BY <1>4, <2>2 DEF words, MicrophoneOpens
    <3>2. attempt \in RecordingAttempt /\ "on" \in Microphone /\ "listening" \in Under
      BY <2>2 DEF IInv, Core, AttemptFitsStage, Microphone, Under
    <3> QED BY <2>1, <2>2, <3>1, <3>2, RecordsStep
  <2>3. CASE stage = "streaming"
    <3> DEFINE a == [attempt EXCEPT !.capture = TRUE]
    <3>1. attempt \in StreamingAttempt BY <2>3 DEF IInv, Core, AttemptFitsStage
    <3>2. a \in StreamingAttempt /\ a.by = attempt.by /\ a.result = attempt.result
          /\ a.stable = attempt.stable /\ a.partial = attempt.partial
      BY <3>1 DEF StreamingAttempt
    <3>3. \E shown \in Under : Goes(a, shown)
      BY <1>4, <2>1, <2>3 DEF words, MicrophoneOpens, Under
    <3> HIDE DEF a
    <3>4. Words(a) => heard
      BY <2>3, <3>2 DEF Words, Recognised, IInv, Core, WordsAreKept
    <3> QED BY <2>1, <2>3, <3>2, <3>3, <3>4, GoesStep
  <2> QED BY <2>1, <2>2, <2>3
<1>5. CASE MicrophoneFails
  <2>1. mic # "none" /\ \E why : FailsWith(why, phase)
    BY <1>5 DEF words, MicrophoneFails
  <2>2. UNCHANGED <<device, kept, heard, leftover>> BY <1>5 DEF words, MicrophoneFails
  <2> QED BY <1>3, <2>1, <2>2, FailsStep
<1> QED BY <1>1, <1>2, <1>4, <1>5

----------------------------------------------------------------------------
(* The recogniser and the recording *)

LEMMA RecogniserStep ==
  ASSUME IInv,
         \/ RecogniserReady \/ ConnectionDeadline \/ RecogniserFails
         \/ SilenceFires \/ RecogniserCloses \/ CeilingFires
  PROVE  Core'
<1>0. /\ stage = "streaming" /\ attempt \in StreamingAttempt /\ phase \in Under
      /\ (Words(attempt) => heard) /\ UNCHANGED <<device, kept, heard, leftover>>
  BY PhaseUnder DEF words, RecogniserReady, ConnectionDeadline, RecogniserFails, SilenceFires,
     RecogniserCloses, CeilingFires, IInv, Core, AttemptFitsStage, WordsAreKept
<1>1. CASE RecogniserReady
  <2> DEFINE a == [attempt EXCEPT !.ready = TRUE]
  <2>1. a \in StreamingAttempt /\ a.by = attempt.by /\ a.result = attempt.result
        /\ a.stable = attempt.stable /\ a.partial = attempt.partial
    BY <1>0 DEF StreamingAttempt
  <2>2. \E shown \in Under : Goes(a, shown)
    BY <1>0, <1>1 DEF words, RecogniserReady, Under
  <2> HIDE DEF a
  <2>3. Words(a) => heard BY <1>0, <2>1 DEF Words, Recognised
  <2> QED BY <1>0, <2>1, <2>2, <2>3, GoesStep
<1>2. CASE ConnectionDeadline
  BY <1>0, <1>2, FailsStep DEF words, ConnectionDeadline
<1>3. CASE RecogniserFails
  <2>1. PICK why \in {"permission", "failed"} :
          IF attempt.ready THEN Goes(Settled(attempt, why), phase) ELSE FailsWith(why, phase)
    BY <1>3 DEF words, RecogniserFails
  <2>2. Settled(attempt, why) \in StreamingAttempt /\ Settled(attempt, why).by = attempt.by
        /\ (Words(Settled(attempt, why)) => heard)
    BY <1>0, SettledStreaming
  <2> QED BY <1>0, <2>1, <2>2, GoesStep, FailsStep
<1>4. CASE SilenceFires \/ RecogniserCloses \/ CeilingFires
  <2>1. Goes(Finished(attempt), phase)
    BY <1>4 DEF words, SilenceFires, RecogniserCloses, CeilingFires
  <2> QED BY <1>0, <2>1, FinishedStreaming, GoesStep
<1> QED BY <1>1, <1>2, <1>3, <1>4

LEMMA HearsStep ==
  ASSUME IInv, Hears PROVE Core'
<1>1. PICK final \in BOOLEAN :
        attempt' = [attempt EXCEPT !.partial = ~final, !.stable = @ \/ final, !.silence = final]
  BY DEF words, Hears
<1>2. stage = "streaming" /\ attempt \in StreamingAttempt
  BY DEF words, Hears, IInv, Core, AttemptFitsStage
<1>3. attempt' \in StreamingAttempt /\ attempt'.by = attempt.by
  BY <1>1, <1>2 DEF StreamingAttempt
<1>4. stage' = stage /\ phase' = phase /\ mic' = mic /\ device' = device /\ outcome' = outcome
      /\ kept' = TRUE /\ heard' = TRUE /\ leftover' = leftover
  BY DEF words, Hears, control
<1> QED BY <1>2, <1>3, <1>4 DEF IInv, Core, TypeOK, AttemptFitsStage, WordsAreKept,
           ButtonFollowsTurn, TurnReturnsItsWords

LEMMA RecordingStep ==
  ASSUME IInv, SpeechIsLoud \/ RecordingOver \/ RecordingBreaks
  PROVE  Core'
<1>0. stage = "recording" /\ attempt \in RecordingAttempt /\ phase \in Under
      /\ mic \in Microphone /\ UNCHANGED <<device, kept, heard, leftover>>
  BY PhaseUnder DEF words, SpeechIsLoud, RecordingOver, RecordingBreaks, IInv, Core, AttemptFitsStage, TypeOK
<1>1. CASE SpeechIsLoud
  <2>1. attempt' \in RecordingAttempt
    BY <1>0, <1>1 DEF words, SpeechIsLoud, RecordingAttempt
  <2>2. stage' = stage /\ phase' = phase /\ mic' = mic /\ outcome' = outcome
    BY <1>1 DEF words, SpeechIsLoud, control
  <2> QED BY <1>0, <2>1, <2>2 DEF IInv, Core, TypeOK, AttemptFitsStage, WordsAreKept,
             ButtonFollowsTurn, TurnReturnsItsWords
<1>2. CASE RecordingOver \/ RecordingBreaks
  <2>1. \E r \in {"over", "permission", "failed"} : Records(Settled(attempt, r), mic, phase)
    BY <1>2 DEF words, RecordingOver, RecordingBreaks
  <2> QED BY <1>0, <2>1, SettledRecording, RecordsStep
<1> QED BY <1>1, <1>2

LEMMA UploadStep ==
  ASSUME IInv, UploadEnds PROVE Core'
<1>1. PICK text \in BOOLEAN, failure \in {"none", "failed"} :
        /\ Ends(text, failure) /\ (text => failure = "none")
        /\ heard' = IF text THEN TRUE ELSE heard
  BY DEF words, UploadEnds
<1>2. stage # "off" /\ UNCHANGED <<device, kept, leftover>> BY DEF words, UploadEnds
<1>3. heard' \in BOOLEAN /\ heard' = (heard \/ text) BY <1>1 DEF IInv, Core, TypeOK
<1> QED BY <1>1, <1>2, <1>3, EndsStep

----------------------------------------------------------------------------
(* What comes late *)

LEMMA LateStep ==
  ASSUME IInv, LateStart \/ LateWords \/ LateEnd PROVE Core'
<1>1. /\ UNCHANGED <<device, stage, attempt, mic, outcome>>
      /\ phase' \in {phase, "listening"}
      /\ phase' # phase => lingering # {}
  BY DEF LateStart, LateWords, LateEnd, control
<1>2. device.browser \/ lingering = {} BY DEF IInv, LateIsTheBrowsers
<1>3. CASE LateStart \/ LateEnd
  <2>1. UNCHANGED <<kept, heard, leftover>> BY <1>3 DEF LateStart, LateEnd, words
  <2> QED BY <1>1, <1>2, <2>1 DEF IInv, Core, TypeOK, AttemptFitsStage, WordsAreKept,
             ButtonFollowsTurn, TurnReturnsItsWords, Under, Words, Recognised
<1>4. CASE LateWords
  <2>1. PICK own \in BOOLEAN :
          /\ heard' = (heard \/ (stage # "off" /\ own))
          /\ leftover' = (leftover \/ (stage # "off" /\ ~own))
    <3>1. PICK r \in lingering :
            /\ heard' = (heard \/ (stage # "off" /\ r.turn = count.turns))
            /\ leftover' = (leftover \/ (stage # "off" /\ r.turn # count.turns))
      BY <1>4 DEF LateWords
    <3> QED BY <3>1
  <2>2. kept' = TRUE BY <1>4 DEF LateWords
  <2>3. heard \in BOOLEAN /\ leftover \in BOOLEAN BY DEF IInv, Core, TypeOK
  <2>4. TypeOK' /\ AttemptFitsStage' /\ ButtonFollowsTurn'
    BY <1>1, <1>2, <2>1, <2>2, <2>3 DEF IInv, Core, TypeOK, AttemptFitsStage,
       ButtonFollowsTurn, Under
  <2>5. WordsAreKept'
    BY <1>1, <2>1, <2>2, <2>3 DEF IInv, Core, WordsAreKept, Words, Recognised
  <2>6. TurnReturnsItsWords'
    BY <1>1, <2>1, <2>3 DEF IInv, Core, TurnReturnsItsWords
  <2> QED BY <2>4, <2>5, <2>6 DEF Core
<1> QED BY <1>3, <1>4

(* A recogniser is left behind only by an attempt of the browser's.        *)
LEMMA LingersStep ==
  ASSUME IInv, Lingers, stage \in {"streaming", "recording"}, ~device.browser
  PROVE  lingering' = {}
<1>1. attempt.by # "browser"
  BY DEF IInv, Core, AttemptFitsStage, RecordingAttempt
<1> QED BY <1>1 DEF Lingers, IInv, LateIsTheBrowsers

LEMMA LateStaysTheBrowsers ==
  ASSUME IInv, [Next]_vars PROVE LateIsTheBrowsers'
<1> SUFFICES ASSUME ~device.browser, device' = device
             PROVE  lingering' = {} /\ ~leftover'
  <2>1. device' = device
    BY DEF Next, Person, Voice, PermissionAnswered, MicrophoneAnswered, vars, control,
       Tap, StopPreparing, StopFetching, StopStreaming, StopRecording, StopUploading,
       DismissWaiting, DismissOpening, DismissAttempt, Refused, Granted, SessionNeeded,
       SessionAnswered, CredentialsAborted, CredentialsArrive, MicrophoneAllowed,
       MicrophoneOpens, MicrophoneFails, LooseAnswered, RecogniserReady, ConnectionDeadline,
       RecogniserFails, Hears, SilenceFires, RecogniserCloses, CeilingFires, LateStart,
       LateWords, LateEnd, SpeechIsLoud, RecordingOver, RecordingBreaks, UploadEnds
  <2> QED BY <2>1 DEF LateIsTheBrowsers
<1>1. lingering = {} /\ ~leftover BY DEF IInv, LateIsTheBrowsers
<1>2. CASE Tap
  BY <1>1, <1>2 DEF Tap
<1>3. CASE \/ StopStreaming \/ DismissAttempt \/ ConnectionDeadline \/ RecogniserFails
           \/ SilenceFires \/ CeilingFires
  <2>1. leftover' = leftover /\ stage \in {"streaming", "recording"}
    BY <1>3 DEF StopStreaming, DismissAttempt, ConnectionDeadline, RecogniserFails,
       SilenceFires, CeilingFires, words
  <2>2. Lingers \/ lingering' = lingering
    BY <1>3 DEF StopStreaming, DismissAttempt, ConnectionDeadline, RecogniserFails,
       SilenceFires, CeilingFires
  <2> QED BY <1>1, <2>1, <2>2, LingersStep
<1>4. CASE LateStart \/ LateWords \/ LateEnd
  BY <1>1, <1>4 DEF LateStart, LateWords, LateEnd
<1>5. CASE \/ StopPreparing \/ StopFetching \/ StopRecording \/ StopUploading
           \/ DismissWaiting \/ DismissOpening
  BY <1>1, <1>5 DEF StopPreparing, StopFetching, StopRecording, StopUploading,
     DismissWaiting, DismissOpening, words
<1>6. CASE \/ PermissionAnswered \/ SessionNeeded \/ SessionAnswered \/ CredentialsAborted
           \/ CredentialsArrive \/ MicrophoneAnswered \/ LooseAnswered
  <2>1. UNCHANGED <<lingering, leftover>>
    <3>1. CASE PermissionAnswered BY <3>1 DEF PermissionAnswered, Refused, Granted, words
    <3>2. CASE SessionNeeded \/ SessionAnswered BY <3>2 DEF SessionNeeded, SessionAnswered, words
    <3>3. CASE CredentialsAborted \/ CredentialsArrive
      BY <3>3 DEF CredentialsAborted, CredentialsArrive, words
    <3>4. CASE MicrophoneAnswered \/ LooseAnswered
      BY <3>4 DEF MicrophoneAnswered, MicrophoneAllowed, MicrophoneOpens, MicrophoneFails,
         LooseAnswered, words
    <3> QED BY <1>6, <3>1, <3>2, <3>3, <3>4
  <2> QED BY <1>1, <2>1
<1>7. CASE \/ RecogniserReady \/ Hears \/ RecogniserCloses
           \/ SpeechIsLoud \/ RecordingOver \/ RecordingBreaks \/ UploadEnds
  <2>1. UNCHANGED <<lingering, leftover>>
    <3>1. CASE RecogniserReady \/ RecogniserCloses BY <3>1 DEF RecogniserReady, RecogniserCloses, words
    <3>2. CASE Hears BY <3>2 DEF Hears
    <3>3. CASE SpeechIsLoud \/ RecordingOver \/ RecordingBreaks
      BY <3>3 DEF SpeechIsLoud, RecordingOver, RecordingBreaks, words
    <3>4. CASE UploadEnds BY <3>4 DEF UploadEnds
    <3> QED BY <1>7, <3>1, <3>2, <3>3, <3>4
  <2> QED BY <1>1, <2>1
<1>8. CASE UNCHANGED vars
  BY <1>1, <1>8 DEF vars
<1> QED BY <1>2, <1>3, <1>4, <1>5, <1>6, <1>7, <1>8 DEF Next, Person, Voice

----------------------------------------------------------------------------
(* The theorems *)

LEMMA InitIInv == Init => IInv
<1> SUFFICES ASSUME Init PROVE IInv OBVIOUS
<1>1. device \in [cloud : BOOLEAN, browser : BOOLEAN, batch : BOOLEAN] BY DEF Init
<1>2. /\ stage = "off" /\ phase = "idle" /\ mic = "none"
      /\ kept = FALSE /\ heard = FALSE /\ leftover = FALSE /\ lingering = {}
      /\ outcome = [words |-> FALSE, failure |-> "none"]
  BY DEF Init
<1>3. TypeOK BY <1>1, <1>2 DEF TypeOK, Stage, Microphone
<1>4. outcome.words = FALSE BY <1>2
<1> QED BY <1>2, <1>3, <1>4 DEF IInv, Core, LateIsTheBrowsers, AttemptFitsStage, WordsAreKept,
           ButtonFollowsTurn, TurnReturnsItsWords

LEMMA NextIInv == IInv /\ [Next]_vars => IInv'
<1> SUFFICES ASSUME IInv, [Next]_vars PROVE Core'
  BY LateStaysTheBrowsers DEF IInv
<1>1. CASE Person
  BY <1>1, TapStep, StopStep, DismissStep DEF Person
<1>2. CASE Voice
  BY <1>2, RefusedStep, GrantedStep, SessionStep, CredentialsStep, MicrophoneStep,
     RecogniserStep, HearsStep, LateStep, RecordingStep, UploadStep
     DEF Voice, PermissionAnswered, MicrophoneAnswered
<1>3. CASE UNCHANGED vars
  BY <1>3 DEF vars, IInv, Core, TypeOK, AttemptFitsStage, WordsAreKept, ButtonFollowsTurn,
     TurnReturnsItsWords, Words, Recognised
<1> QED BY <1>1, <1>2, <1>3 DEF Next

(* What a turn is trying fits the stage it is in, the words it has heard   *)
(* are kept by the hook, and those it keeps beyond them came late from the *)
(* browser's recogniser of an earlier turn (listen, onPartial).            *)
THEOREM SpecIInv == Spec => []IInv
BY InitIInv, NextIInv, PTL DEF Spec

(* No spoken word is lost to a recogniser that fails after it, and none is *)
(* handed over that was not said, in this turn or, to the browser's        *)
(* recogniser, in one before it (listen, start, useVoiceInput).            *)
THEOREM WordsReturned == Spec => []TurnReturnsItsWords
<1>1. IInv => TurnReturnsItsWords BY DEF IInv, Core
<1> QED BY <1>1, SpecIInv, PTL

(* The button shows a turn while one is under way, whoever was dismissed   *)
(* meanwhile, and none afterwards where the browser has no recogniser that *)
(* could start late (useVoiceInput, WebSpeechProvider.disconnect).         *)
THEOREM ButtonFollows == Spec => []ButtonFollowsTurn
<1>1. IInv => ButtonFollowsTurn BY DEF IInv, Core
<1> QED BY <1>1, SpecIInv, PTL

(* A microphone belongs to the attempt that asked for it and is given up   *)
(* with it (the finally blocks of CounterSpeechController).                *)
THEOREM MicrophoneFollows == Spec => []MicrophoneFollowsTurn
<1>1. IInv => MicrophoneFollowsTurn
  BY DEF IInv, Core, TypeOK, AttemptFitsStage, MicrophoneFollowsTurn, Stage
<1> QED BY <1>1, SpecIInv, PTL
============================================================================
