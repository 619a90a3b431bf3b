--------------------------- MODULE LiveTransport ---------------------------
(***************************************************************************)
(* The audio path of a live session: class TransportSupervisor of          *)
(* src/src/features/live/transport-supervisor.ts with the open and close   *)
(* functions useLiveSession.ts gives it (openTransport, teardown, stop).   *)
(*                                                                         *)
(* The supervisor asks one question: is the recogniser open, and if it     *)
(* just stopped, whose problem is that?  A transport fault is retried with *)
(* backoff; any other waits for a person.  Everything it calls is          *)
(* asynchronous: an open passes through several awaits, a close through    *)
(* one, and faults are reported at any time between them.                  *)
(*                                                                         *)
(* Open attempts are identified by the value openToken had when they       *)
(* began, and so are the recogniser and the microphone they create.        *)
(***************************************************************************)
EXTENDS Naturals

CONSTANTS
  Sources,      \* the inputs a session may use: "browser", "cloud"
  MaxAttempts,  \* RECOVERY_BACKOFF_MS.length
  MaxFaults,    \* bound: recognisers and microphones that die
  MaxResumes    \* bound: calls of resume()

ASSUME TransportAssumption ==
  /\ Sources \subseteq {"browser", "cloud"}
  /\ MaxAttempts \in Nat
  /\ MaxFaults \in Nat
  /\ MaxResumes \in Nat

VARIABLES
  source,       \* options.source: the browser's recogniser, or a socket
  phase,        \* this.phase
  everOpened,   \* this.everOpened
  fault,        \* this.fault
  attempts,     \* this.attempts
  timer,        \* whether this.timer is set
  openToken,    \* this.openToken
  disposed,     \* this.disposed
  opens,        \* open() promises that have not settled, with the await they are at
  closings,     \* handle() calls waiting for close()
  provider,     \* providerRef: the attempt that set it, or 0
  mic,          \* micRef: the attempt that set it, or 0
  recognisers,  \* attempts whose recogniser runs
  mics,         \* attempts whose microphone captures
  ending,       \* how far stop() has come
  faults,       \* history: recognisers and microphones that died
  resumes       \* history: calls of resume()

supervisor == <<phase, everOpened, fault, attempts, timer, openToken, disposed>>
resources  == <<provider, mic, recognisers, mics>>
history    == <<faults, resumes>>
vars == <<source, supervisor, opens, closings, resources, ending, history>>

Kind == {"permission", "device", "unsupported", "transport"}

Phase == {"idle", "opening", "open", "recovering", "interrupted",
          "failed-to-start", "closed"}

NoFault == [kind |-> "none", recovering |-> FALSE, attempts |-> 0]

Fault(kind, recovering, n) == [kind |-> kind, recovering |-> recovering, attempts |-> n]

Stage == {"credentials", "connecting", "asking", "worklet"}

Init ==
  /\ source \in Sources
  /\ phase = "idle"
  /\ everOpened = FALSE
  /\ fault = NoFault
  /\ attempts = 0
  /\ timer = FALSE
  /\ openToken = 0
  /\ disposed = FALSE
  /\ opens = {}
  /\ closings = {}
  /\ provider = 0
  /\ mic = 0
  /\ recognisers = {}
  /\ mics = {}
  /\ ending = "no"
  /\ faults = 0
  /\ resumes = 0

----------------------------------------------------------------------------
(* teardown: both refs are given up before the first await, and whatever    *)
(* they held is stopped.  `rs` and `ms` are the recognisers and microphones *)
(* that run when it is called.  (Mutation: the recogniser is forgotten.)    *)
TeardownMicOnly(rs, ms) ==
  /\ provider' = 0
  /\ mic' = 0
  /\ recognisers' = rs
  /\ mics' = ms \ {mic}

Teardown(rs, ms) ==
  /\ provider' = 0
  /\ mic' = 0
  /\ recognisers' = rs \ {provider}
  /\ mics' = ms \ {mic}

(* Mutation of CancelTimer: the timer keeps running. *)
CancelNothing == UNCHANGED timer

CancelTimer == timer' = FALSE

(* An automatic attempt keeps showing the fault it recovers from. *)
FaultAtOpen(automatic) == IF automatic THEN fault ELSE NoFault

(* attemptOpen, up to its first await.  The browser's recogniser is created *)
(* and started at once; a cloud one waits for its credentials.              *)
BeginOpen(first, n) ==
  LET automatic == ~first /\ n > 0
      id        == openToken + 1
  IN  /\ CancelTimer
      /\ phase' = IF automatic THEN "recovering" ELSE "opening"
      /\ fault' = FaultAtOpen(automatic)
      /\ openToken' = id
      /\ IF source = "browser"
         THEN /\ opens' = opens \cup {[id |-> id, first |-> first, stage |-> "connecting"]}
              /\ provider' = id
              /\ recognisers' = recognisers \cup {id}
         ELSE /\ opens' = opens \cup {[id |-> id, first |-> first, stage |-> "credentials"]}
              /\ UNCHANGED <<provider, recognisers>>
      /\ UNCHANGED <<source, everOpened, disposed, closings, mic, mics, ending>>

(* A transport fault of a session that was once open, while attempts last. *)
Retryable(kind, first) == kind = "transport" /\ ~first /\ attempts < MaxAttempts

(* handle, up to its await of close(). *)
Handle(kind, first, rs, ms) ==
  LET retry == Retryable(kind, first)
  IN  /\ openToken' = openToken + 1
      /\ closings' = closings \cup
           {[id |-> openToken + 1, kind |-> kind, first |-> first, retry |-> retry]}
      /\ phase' = IF retry THEN "recovering" ELSE phase
      /\ fault' = IF retry THEN Fault(kind, TRUE, attempts) ELSE fault
      /\ Teardown(rs, ms)
      /\ UNCHANGED <<source, everOpened, attempts, timer, disposed, ending>>

(* Mutation of Report: every fault is taken for one of the first open. *)
ReportAsFirstOpen(kind, rs, ms) ==
  IF disposed \/ phase = "recovering"
  THEN /\ recognisers' = rs
       /\ mics' = ms
       /\ UNCHANGED <<source, supervisor, closings, provider, mic, ending>>
  ELSE Handle(kind, TRUE, rs, ms)

(* report: a fault of the transport, which leaves `rs` and `ms` running. *)
Report(kind, rs, ms) ==
  IF disposed \/ phase = "recovering"
  THEN /\ recognisers' = rs
       /\ mics' = ms
       /\ UNCHANGED <<source, supervisor, closings, provider, mic, ending>>
  ELSE Handle(kind, ~everOpened, rs, ms)

----------------------------------------------------------------------------
(* The host: the launcher's Start, the console's Resume.                    *)

Start ==
  /\ phase = "idle"
  /\ ~disposed
  /\ BeginOpen(TRUE, attempts)
  /\ UNCHANGED <<attempts, history>>

(* The console offers Resume only when the session is interrupted; a remote *)
(* microphone's new stream resumes the session by itself, in that phase too.*)
Resume ==
  /\ phase = "interrupted"
  /\ ~disposed
  /\ resumes < MaxResumes
  /\ resumes' = resumes + 1
  /\ attempts' = 0
  /\ BeginOpen(FALSE, 0)
  /\ UNCHANGED faults

(* The backoff of an automatic attempt has passed. *)
TimerFires ==
  /\ timer
  /\ BeginOpen(FALSE, attempts)
  /\ UNCHANGED <<attempts, history>>

----------------------------------------------------------------------------
(* An open attempt, await by await.                                         *)

At(o, stage) == o \in opens /\ o.stage = stage

MoveTo(o, stage) == opens' = (opens \ {o}) \cup {[o EXCEPT !.stage = stage]}

(* Mutation of Current: the token is not compared. *)
CurrentUnlessDisposed(o) == ~disposed

(* The attempt nothing has overtaken: not a fault, an end or a newer open. *)
Current(o) == ~disposed /\ o.id = openToken

(* The credentials arrive: the recogniser is created and told to connect.   *)
Credentials(o) ==
  /\ At(o, "credentials")
  /\ MoveTo(o, "connecting")
  /\ provider' = o.id
  /\ recognisers' = recognisers \cup {o.id}
  /\ UNCHANGED <<source, supervisor, closings, mic, mics, ending, history>>

(* A socket recogniser needs a microphone of ours. *)
Connected(o) ==
  /\ At(o, "connecting")
  /\ source = "cloud"
  /\ MoveTo(o, "asking")
  /\ mic' = o.id
  /\ UNCHANGED <<source, supervisor, closings, provider, recognisers, mics, ending,
                 history>>

(* getUserMedia answers: the microphone is on from here. *)
Granted(o) ==
  /\ At(o, "asking")
  /\ MoveTo(o, "worklet")
  /\ mics' = mics \cup {o.id}
  /\ UNCHANGED <<source, supervisor, closings, provider, mic, recognisers, ending,
                 history>>

(* open() resolves.  It resolves to false when teardown has taken its       *)
(* microphone away; an outdated attempt is no longer the truth.             *)
OpenResolves(o) ==
  /\ \/ At(o, "connecting") /\ source = "browser"
     \/ At(o, "worklet")
  /\ opens' = opens \ {o}
  /\ IF Current(o) /\ (source = "cloud" => mic = o.id)
     THEN /\ attempts' = 0
          /\ fault' = NoFault
          /\ everOpened' = TRUE
          /\ phase' = "open"
     ELSE UNCHANGED <<attempts, fault, everOpened, phase>>
  /\ UNCHANGED <<source, timer, openToken, disposed, closings, resources, ending,
                 history>>

FailuresAt(stage) ==
  CASE stage = "credentials" -> {"unsupported", "transport"}
    [] stage = "connecting"  -> Kind
    [] stage = "asking"      -> {"permission", "device", "transport"}
    [] stage = "worklet"     -> {"device", "transport"}

(* open() rejects; what it created so far is left to handle's close().  The *)
(* browser's recogniser that fails to start also reports its error first:   *)
(* handle then runs for the report, and the rejection is outdated.          *)
OpenRejects(o, kind) ==
  LET rs == IF o.stage = "connecting" THEN recognisers \ {o.id} ELSE recognisers
  IN  /\ o \in opens
      /\ kind \in FailuresAt(o.stage)
      /\ opens' = opens \ {o}
      /\ IF Current(o)
         THEN Handle(kind, o.first, rs, mics)
         ELSE /\ recognisers' = rs
              /\ UNCHANGED <<source, supervisor, closings, provider, mic, mics, ending>>
      /\ UNCHANGED history

----------------------------------------------------------------------------
(* Faults of what is running.                                               *)

(* The browser's recogniser reports a terminal error after it started.      *)
RecogniserDies(p, kind) ==
  /\ source = "browser"
  /\ p \in recognisers
  /\ \A o \in opens : o.id # p
  /\ faults < MaxFaults
  /\ faults' = faults + 1
  /\ Report(kind, recognisers \ {p}, mics)
  /\ UNCHANGED <<opens, resumes>>

(* A track ends: the cable was pulled, or the remote phone went away.  The  *)
(* worklet of the same attempt may still be starting.                       *)
MicEnds(m, kind) ==
  /\ m \in mics
  /\ kind \in {"device", "transport"}
  /\ faults < MaxFaults
  /\ faults' = faults + 1
  /\ Report(kind, recognisers, mics \ {m})
  /\ UNCHANGED <<opens, resumes>>

(* Mutation of ScheduleRetry: no timer is set. *)
ScheduleForgotten == timer' = FALSE /\ attempts' = attempts + 1

(* One more automatic attempt, after its backoff. *)
ScheduleRetry == timer' = TRUE /\ attempts' = attempts + 1

(* handle, after its await. *)
CloseDone(c) ==
  /\ c \in closings
  /\ closings' = closings \ {c}
  /\ CASE disposed ->
            UNCHANGED <<attempts, timer, fault, phase>>
       [] ~disposed /\ c.retry ->
            /\ ScheduleRetry
            /\ UNCHANGED <<fault, phase>>
       [] OTHER ->
            /\ fault' = Fault(c.kind, FALSE, attempts)
            /\ phase' = IF c.first THEN "failed-to-start" ELSE "interrupted"
            /\ UNCHANGED <<attempts, timer>>
  /\ UNCHANGED <<source, everOpened, openToken, disposed, opens, resources, ending,
                 history>>

----------------------------------------------------------------------------
(* End, and leaving the page.                                               *)

(* stop: the supervisor is closed first, which tears the transport down. *)
End ==
  /\ ending = "no"
  /\ ending' = "closing"
  /\ CancelTimer
  /\ attempts' = 0
  /\ fault' = NoFault
  /\ phase' = "closed"
  /\ disposed' = TRUE
  /\ Teardown(recognisers, mics)
  /\ UNCHANGED <<source, everOpened, openToken, opens, closings, history>>

(* stop's own teardown, after the supervisor's. *)
EndTeardown ==
  /\ ending = "closing"
  /\ ending' = "done"
  /\ Teardown(recognisers, mics)
  /\ UNCHANGED <<source, supervisor, opens, closings, history>>

(* The page is left without End: dispose, then teardown. *)
Unmount ==
  /\ ending = "no"
  /\ ending' = "done"
  /\ CancelTimer
  /\ disposed' = TRUE
  /\ Teardown(recognisers, mics)
  /\ UNCHANGED <<source, phase, everOpened, fault, attempts, openToken, opens,
                 closings, history>>

----------------------------------------------------------------------------

OpenMoves(o) ==
  \/ Credentials(o)
  \/ Connected(o)
  \/ Granted(o)
  \/ OpenResolves(o)
  \/ \E kind \in Kind : OpenRejects(o, kind)

Next ==
  \/ Start
  \/ Resume
  \/ TimerFires
  \/ \E o \in opens : OpenMoves(o)
  \/ \E p \in recognisers, kind \in Kind : RecogniserDies(p, kind)
  \/ \E m \in mics, kind \in Kind : MicEnds(m, kind)
  \/ \E c \in closings : CloseDone(c)
  \/ End
  \/ EndTeardown
  \/ Unmount

Spec == Init /\ [][Next]_vars

(* Every await of an open, and of a close, ends, and a timer that is set    *)
(* fires.  The code puts no deadline of its own on open(): this is what it  *)
(* expects of getUserMedia, the token request and the worklet.              *)
FairSpec ==
  /\ Spec
  /\ WF_vars(TimerFires)
  /\ WF_vars(\E o \in opens : Current(o) /\ OpenMoves(o))
  /\ WF_vars(\E c \in closings : CloseDone(c))

----------------------------------------------------------------------------
(* Properties.                                                              *)

TypeOK ==
  /\ source \in Sources
  /\ phase \in Phase
  /\ everOpened \in BOOLEAN
  /\ fault \in [kind : Kind \cup {"none"}, recovering : BOOLEAN, attempts : Nat]
  /\ attempts \in Nat
  /\ timer \in BOOLEAN
  /\ openToken \in Nat
  /\ disposed \in BOOLEAN
  /\ opens \subseteq [id : Nat, first : BOOLEAN, stage : Stage]
  /\ closings \subseteq [id : Nat, kind : Kind, first : BOOLEAN, retry : BOOLEAN]
  /\ provider \in Nat
  /\ mic \in Nat
  /\ recognisers \subseteq Nat
  /\ mics \subseteq Nat
  /\ ending \in {"no", "closing", "done"}
  /\ faults \in Nat
  /\ resumes \in Nat

CurrentOpens == {o \in opens : o.id = openToken}

(* The console never waits for something that will not come: a             *)
(* phase that promises movement has exactly one cause of movement ahead of  *)
(* it, an open attempt, a close or a timer, and no other phase has any.     *)
(* Two of them would open two transports; none, and "Reconnecting" stays on *)
(* screen for ever.                                                         *)
OneThingPending ==
  ~disposed =>
    /\ \A o, p \in CurrentOpens : o = p
    /\ \A c, d \in closings : c = d
    /\ timer => CurrentOpens = {} /\ closings = {}
    /\ CurrentOpens # {} => closings = {}
    /\ phase \in {"opening", "recovering"} => timer \/ CurrentOpens # {} \/ closings # {}
    /\ phase \in {"idle", "interrupted", "failed-to-start"}
         => ~timer /\ CurrentOpens = {} /\ closings = {}

(* What the console says agrees with what is happening: a fault is called   *)
(* recovering exactly while an automatic attempt is due, and none is shown  *)
(* over a session that is opening or open.                                  *)
FaultMatchesPhase ==
  ~disposed =>
    /\ fault.recovering <=> phase = "recovering"
    /\ phase \in {"interrupted", "failed-to-start"} => fault.kind # "none"
    /\ phase \in {"opening", "open"} => fault = NoFault

(* A fault only a person can clear is never retried, and a transport fault  *)
(* is retried at most RECOVERY_BACKOFF_MS.length times in a row.            *)
RetriesAreBounded ==
  /\ attempts <= MaxAttempts
  /\ phase = "recovering" => fault.kind = "transport" /\ fault.attempts < MaxAttempts

(* Before anything was heard the failure is a failed start; after that the  *)
(* session has a transcript, and is only ever interrupted.                  *)
FailureKeepsSession ==
  /\ phase = "failed-to-start" => ~everOpened
  /\ phase = "interrupted" => everOpened

(* While the session lives at most one recogniser and one microphone run.   *)
(* Two recognisers would hand the engine every sentence twice.              *)
OneTransport ==
  ~disposed =>
    /\ \A p, q \in recognisers : p = q
    /\ \A m, n \in mics : m = n

(* An interrupted session waits for resume(): no late timer, rejection or   *)
(* report may reopen it.                                                    *)
OnlyAPersonResumes ==
  [][ phase = "interrupted" /\ phase' # "interrupted"
        => resumes' = resumes + 1 \/ disposed' ]_vars

(* "No scheduled reconnection outlives" the end: no open begins after it.   *)
EndIsFinal ==
  [][ disposed => ~timer' /\ openToken' = openToken /\ phase' = phase ]_vars

(* Recovery comes to a verdict. *)
RecoveryEnds == (phase = "recovering") ~> (phase # "recovering" \/ disposed)

============================================================================
