------------------------ MODULE LiveTransportProofs ------------------------
(***************************************************************************)
(* Theorems about LiveTransport, for every value of its constants.         *)
(***************************************************************************)
EXTENDS LiveTransport, TLAPS

----------------------------------------------------------------------------
(* The inductive invariant.  The safety properties speak of the phase and   *)
(* of what is pending; why they hold is that each pending thing belongs to  *)
(* one phase and to one arrangement of the resources.                       *)

(* Attempts are numbered by openToken, so an id names one attempt. *)
IdsInv ==
  /\ \A o \in opens : o.id \in 1..openToken
  /\ \A o, p \in opens : o.id = p.id => o = p

(* An open attempt and the refs it has set by the await it is at.  One that *)
(* is no longer current has been overtaken by the end of its own microphone.*)
OpensInv ==
  \A o \in opens :
    /\ source = "browser" => o.stage = "connecting"
    /\ o.id # openToken => o.stage = "worklet"
    /\ o.id = openToken =>
         /\ phase \in {"opening", "recovering"}
         /\ o.first <=> ~everOpened
         /\ ~timer
         /\ closings = {}
         /\ o.stage = "credentials" => recognisers = {}
         /\ o.stage # "worklet" => mics = {}
         /\ o.stage # "credentials" => provider = o.id
         /\ o.stage \in {"asking", "worklet"} => mic = o.id

(* A close under way has left nothing running. *)
ClosingsInv ==
  /\ \A c, d \in closings : c = d
  /\ \A c \in closings :
       /\ phase \in {"opening", "open", "recovering"}
       /\ ~timer
       /\ c.first <=> ~everOpened
       /\ c.retry => phase = "recovering" /\ attempts < MaxAttempts
       /\ recognisers = {}
       /\ mics = {}

TimerInv ==
  timer => /\ phase = "recovering"
           /\ attempts > 0
           /\ recognisers = {}
           /\ mics = {}

PhaseInv ==
  /\ phase \in {"opening", "recovering"} =>
       \/ timer
       \/ closings # {}
       \/ \E o \in opens : o.id = openToken
  /\ phase \in {"idle", "interrupted", "failed-to-start"} => recognisers = {} /\ mics = {}
  /\ phase \in {"open", "recovering", "interrupted"} => everOpened
  /\ phase \in {"idle", "failed-to-start"} => ~everOpened
  /\ phase # "closed"

ResourceInv ==
  /\ recognisers \subseteq {provider}
  /\ mics \subseteq {mic}

IInv ==
  /\ TypeOK
  /\ attempts <= MaxAttempts
  /\ phase = "recovering" => fault.kind = "transport" /\ fault.attempts < MaxAttempts
  /\ phase = "failed-to-start" => ~everOpened
  /\ phase = "interrupted" => everOpened
  /\ ~disposed => /\ IdsInv
                  /\ OpensInv
                  /\ ClosingsInv
                  /\ TimerInv
                  /\ PhaseInv
                  /\ ResourceInv
                  /\ FaultMatchesPhase
  /\ disposed => ~timer
  /\ disposed <=> ending # "no"

----------------------------------------------------------------------------
(* Two handlers are shared by several actions. *)

(* handle leaves one close pending and nothing running, and the attempt in  *)
(* flight, if there is one, overtaken.                                      *)
LEMMA HandleStep ==
  ASSUME TransportAssumption, IInv, ~disposed,
         NEW kind \in Kind, NEW rs \in SUBSET recognisers, NEW ms \in SUBSET mics,
         NEW first \in BOOLEAN, first <=> ~everOpened,
         phase \in {"opening", "open", "recovering"}, ~timer, closings = {},
         opens' \subseteq opens,
         \A o \in opens' : o.id = openToken => o.stage = "worklet",
         faults' \in Nat, resumes' \in Nat,
         Handle(kind, first, rs, ms)
  PROVE  IInv'
<1> DEFINE c0 == [id |-> openToken + 1, kind |-> kind, first |-> first,
                  retry |-> (kind = "transport" /\ ~first /\ attempts < MaxAttempts)]
<1>1. /\ openToken' = openToken + 1
      /\ closings' = {c0}
      /\ phase' = IF c0.retry THEN "recovering" ELSE phase
      /\ fault' = IF c0.retry THEN Fault(kind, TRUE, attempts) ELSE fault
      /\ provider' = 0 /\ mic' = 0 /\ recognisers' = {} /\ mics' = {}
      /\ UNCHANGED <<source, everOpened, attempts, timer, disposed, ending>>
  BY DEF Handle, Retryable, Teardown, IInv, ResourceInv
<1>2. openToken \in Nat /\ attempts \in Nat /\ openToken' # openToken
  BY <1>1 DEF IInv, TypeOK
<1>3. TypeOK'
  <2>1. c0 \in [id : Nat, kind : Kind, first : BOOLEAN, retry : BOOLEAN]
    BY <1>2
  <2>2. fault' \in [kind : Kind \cup {"none"}, recovering : BOOLEAN, attempts : Nat]
    BY <1>1, <1>2 DEF Fault, IInv, TypeOK
  <2> QED BY <1>1, <1>2, <2>1, <2>2 DEF IInv, TypeOK, Phase
<1>4. IdsInv'
  BY <1>1, <1>2 DEF IInv, IdsInv
<1>5. OpensInv'
  <2>1. \A o \in opens' : o.id # openToken'
    BY <1>1, <1>2 DEF IInv, IdsInv
  <2>2. \A o \in opens' : o.stage = "worklet"
    BY DEF IInv, OpensInv
  <2> QED BY <1>1, <2>1, <2>2 DEF IInv, OpensInv
<1>6. ClosingsInv'
  <2>1. /\ c0.first = first
        /\ c0.retry = (kind = "transport" /\ ~first /\ attempts < MaxAttempts)
    OBVIOUS
  <2> HIDE DEF c0
  <2>2. phase' \in {"opening", "open", "recovering"}
    BY <1>1
  <2>3. c0.first <=> ~everOpened
    BY <2>1
  <2>4. c0.retry => phase' = "recovering" /\ attempts < MaxAttempts
    BY <1>1, <2>1
  <2> QED BY <1>1, <2>2, <2>3, <2>4 DEF ClosingsInv
<1>7. TimerInv' /\ ResourceInv'
  BY <1>1 DEF TimerInv, ResourceInv
<1>8. PhaseInv'
  BY <1>1 DEF IInv, PhaseInv
<1>9. FaultMatchesPhase'
  BY <1>1, <1>2 DEF IInv, FaultMatchesPhase, Fault, NoFault
<1>10. phase' = "recovering" => fault'.kind = "transport" /\ fault'.attempts < MaxAttempts
  BY <1>1 DEF IInv, Fault
<1> QED
  BY <1>1, <1>3, <1>4, <1>5, <1>6, <1>7, <1>8, <1>9, <1>10 DEF IInv

(* attemptOpen begins one attempt when nothing is pending and nothing runs, *)
(* and an automatic one only to recover.                                    *)
LEMMA BeginOpenStep ==
  ASSUME TransportAssumption, IInv, ~disposed,
         NEW first \in BOOLEAN, first <=> ~everOpened,
         NEW n \in Nat, n <= MaxAttempts, ~first /\ n > 0 => phase = "recovering",
         \A o \in opens : o.id # openToken,
         closings = {}, recognisers = {}, mics = {},
         attempts' = n, faults' \in Nat, resumes' \in Nat,
         BeginOpen(first, n)
  PROVE  IInv'
<1> DEFINE id == openToken + 1
           stage0 == IF source = "browser" THEN "connecting" ELSE "credentials"
           o0 == [id |-> id, first |-> first, stage |-> stage0]
<1>1. /\ timer' = FALSE
      /\ phase' = IF ~first /\ n > 0 THEN "recovering" ELSE "opening"
      /\ fault' = IF ~first /\ n > 0 THEN fault ELSE NoFault
      /\ openToken' = id
      /\ opens' = opens \cup {o0}
      /\ source = "browser" => provider' = id /\ recognisers' = {id}
      /\ source # "browser" => provider' = provider /\ recognisers' = {}
      /\ mics' = {} /\ closings' = {}
      /\ UNCHANGED <<source, everOpened, disposed, mic, ending>>
  BY DEF BeginOpen, CancelTimer, FaultAtOpen
<1>2. openToken \in Nat /\ id \in Nat /\ id # openToken /\ source \in Sources
  BY DEF IInv, TypeOK
<1>3. o0.id = id /\ o0.first = first /\ o0.stage = stage0
  OBVIOUS
<1>4. TypeOK'
  <2>1. o0 \in [id : Nat, first : BOOLEAN, stage : Stage]
    BY <1>2 DEF Stage
  <2>2. fault' \in [kind : Kind \cup {"none"}, recovering : BOOLEAN, attempts : Nat]
    BY <1>1 DEF NoFault, IInv, TypeOK
  <2> HIDE DEF o0, stage0
  <2>3. opens' \subseteq [id : Nat, first : BOOLEAN, stage : Stage]
    BY <1>1, <2>1 DEF IInv, TypeOK
  <2> QED BY <1>1, <1>2, <2>2, <2>3 DEF IInv, TypeOK, Phase
<1>5. \A o \in opens : o.id \in 1..openToken /\ o.id # id
  BY <1>2 DEF IInv, IdsInv
<1>6. IdsInv'
  <2> HIDE DEF o0, stage0
  <2>1. \A o \in opens' : o.id \in 1..openToken'
    BY <1>1, <1>2, <1>3, <1>5
  <2>2. \A o, p \in opens' : o.id = p.id => o = p
    BY <1>1, <1>3, <1>5 DEF IInv, IdsInv
  <2> QED BY <2>1, <2>2 DEF IdsInv
<1>7. OpensInv'
  <2> SUFFICES ASSUME NEW o \in opens'
               PROVE  /\ source' = "browser" => o.stage = "connecting"
                      /\ o.id # openToken' => o.stage = "worklet"
                      /\ o.id = openToken' =>
                           /\ phase' \in {"opening", "recovering"}
                           /\ o.first <=> ~everOpened'
                           /\ ~timer'
                           /\ closings' = {}
                           /\ o.stage = "credentials" => recognisers' = {}
                           /\ o.stage # "worklet" => mics' = {}
                           /\ o.stage # "credentials" => provider' = o.id
                           /\ o.stage \in {"asking", "worklet"} => mic' = o.id
    BY DEF OpensInv
  <2>1. CASE o = o0
    <3>1. o.first <=> ~everOpened'
      BY <1>1, <2>1
    <3> QED BY <1>1, <1>3, <2>1, <3>1
  <2>2. CASE o \in opens
    BY <1>1, <1>5, <2>2 DEF IInv, OpensInv
  <2> HIDE DEF o0, stage0
  <2> QED BY <1>1, <2>1, <2>2
<1>8. ClosingsInv' /\ TimerInv' /\ ResourceInv'
  BY <1>1 DEF ClosingsInv, TimerInv, ResourceInv
<1>9. PhaseInv'
  <2>1. \E o \in opens' : o.id = openToken'
    <3> HIDE DEF o0, stage0
    <3> QED BY <1>1, <1>3
  <2>2. phase' = "recovering" => everOpened'
    BY <1>1
  <2> QED BY <1>1, <2>1, <2>2 DEF PhaseInv
<1>10. FaultMatchesPhase'
  BY <1>1, <1>2 DEF IInv, FaultMatchesPhase, NoFault
<1>11. phase' = "recovering" => fault'.kind = "transport" /\ fault'.attempts < MaxAttempts
  BY <1>1 DEF IInv
<1> QED
  BY <1>1, <1>4, <1>6, <1>7, <1>8, <1>9, <1>10, <1>11 DEF IInv

----------------------------------------------------------------------------
(* The actions that begin an attempt. *)

LEMMA StartStep ==
  ASSUME TransportAssumption, IInv, Start
  PROVE  IInv'
<1>1. BeginOpen(TRUE, attempts) /\ attempts' = attempts /\ ~disposed
  BY DEF Start
<1>2. /\ ~everOpened /\ recognisers = {} /\ mics = {} /\ closings = {}
      /\ \A o \in opens : o.id # openToken
  BY DEF Start, IInv, PhaseInv, ClosingsInv, OpensInv
<1>3. /\ attempts \in Nat /\ attempts <= MaxAttempts
      /\ faults' \in Nat /\ resumes' \in Nat
  BY DEF Start, IInv, TypeOK, history
<1> QED BY <1>1, <1>2, <1>3, BeginOpenStep

LEMMA ResumeStep ==
  ASSUME TransportAssumption, IInv, Resume
  PROVE  IInv'
<1>1. BeginOpen(FALSE, 0) /\ attempts' = 0 /\ ~disposed
  BY DEF Resume
<1>2. /\ everOpened /\ recognisers = {} /\ mics = {} /\ closings = {}
      /\ \A o \in opens : o.id # openToken
  BY DEF Resume, IInv, PhaseInv, ClosingsInv, OpensInv
<1>3. faults' \in Nat /\ resumes' \in Nat /\ 0 <= MaxAttempts
  BY DEF Resume, IInv, TypeOK, TransportAssumption
<1>4. 0 \in Nat /\ (~FALSE /\ 0 > 0 => phase = "recovering")
  OBVIOUS
<1> QED BY <1>1, <1>2, <1>3, <1>4, BeginOpenStep, Zenon

LEMMA TimerFiresStep ==
  ASSUME TransportAssumption, IInv, TimerFires
  PROVE  IInv'
<1>1. BeginOpen(FALSE, attempts) /\ attempts' = attempts /\ ~disposed
  BY DEF TimerFires, IInv
<1>2. /\ phase = "recovering" /\ everOpened
      /\ recognisers = {} /\ mics = {} /\ closings = {}
      /\ \A o \in opens : o.id # openToken
  BY <1>1 DEF TimerFires, IInv, TimerInv, PhaseInv, ClosingsInv, OpensInv
<1>3. /\ attempts \in Nat /\ attempts <= MaxAttempts
      /\ faults' \in Nat /\ resumes' \in Nat
  BY DEF TimerFires, IInv, TypeOK, history
<1> QED BY <1>1, <1>2, <1>3, BeginOpenStep

----------------------------------------------------------------------------
(* The awaits of an open attempt. *)

(* The current attempt moves on to a later await of its open. *)
LEMMA MoveStep ==
  ASSUME IInv, ~disposed, NEW o \in opens, o.id = openToken,
         NEW stage \in Stage, stage # "credentials", source # "browser",
         MoveTo(o, stage),
         provider' = o.id, recognisers' \subseteq {provider'},
         mic' \in Nat, mics' \subseteq {mic'},
         stage \in {"asking", "worklet"} => mic' = o.id,
         stage # "worklet" => mics' = {},
         UNCHANGED <<source, supervisor, closings, ending, history>>
  PROVE  IInv'
<1> DEFINE q == [o EXCEPT !.stage = stage]
<1>1. o \in [id : Nat, first : BOOLEAN, stage : Stage] /\ openToken \in Nat
  BY DEF IInv, TypeOK
<1>2. /\ q.id = o.id /\ q.first = o.first /\ q.stage = stage
      /\ q \in [id : Nat, first : BOOLEAN, stage : Stage]
  BY <1>1
<1>3. opens' = (opens \ {o}) \cup {q}
  BY DEF MoveTo
<1>4. \A p \in opens \ {o} : p.id # openToken
  BY DEF IInv, IdsInv
<1>5. UNCHANGED <<source, phase, everOpened, fault, attempts, timer, openToken, disposed,
                  closings, ending, faults, resumes>>
  BY DEF supervisor, history
<1> HIDE DEF q
<1>6. TypeOK'
  <2>1. opens' \subseteq [id : Nat, first : BOOLEAN, stage : Stage]
    BY <1>2, <1>3 DEF IInv, TypeOK
  <2>2. provider' \in Nat /\ recognisers' \subseteq Nat /\ mics' \subseteq Nat
    BY <1>1
  <2> QED BY <1>5, <2>1, <2>2 DEF IInv, TypeOK
<1>7. IdsInv'
  <2>1. \A p \in opens' : p.id \in 1..openToken'
    BY <1>2, <1>3, <1>5 DEF IInv, IdsInv
  <2>2. \A p, r \in opens' : p.id = r.id => p = r
    BY <1>2, <1>3, <1>4 DEF IInv, IdsInv
  <2> QED BY <2>1, <2>2 DEF IdsInv
<1>8. OpensInv'
  <2>1. /\ phase \in {"opening", "recovering"} /\ (o.first <=> ~everOpened)
        /\ ~timer /\ closings = {}
    BY DEF IInv, OpensInv
  <2>2. \A p \in opens \ {o} : p.stage = "worklet"
    BY <1>4 DEF IInv, OpensInv
  <2> SUFFICES ASSUME NEW p \in opens'
               PROVE  /\ source' = "browser" => p.stage = "connecting"
                      /\ p.id # openToken' => p.stage = "worklet"
                      /\ p.id = openToken' =>
                           /\ phase' \in {"opening", "recovering"}
                           /\ p.first <=> ~everOpened'
                           /\ ~timer'
                           /\ closings' = {}
                           /\ p.stage = "credentials" => recognisers' = {}
                           /\ p.stage # "worklet" => mics' = {}
                           /\ p.stage # "credentials" => provider' = p.id
                           /\ p.stage \in {"asking", "worklet"} => mic' = p.id
    BY DEF OpensInv
  <2>3. CASE p = q
    <3>1. p.first <=> ~everOpened'
      BY <1>2, <1>5, <2>1, <2>3
    <3> QED BY <1>2, <1>5, <2>1, <2>3, <3>1
  <2>4. CASE p \in opens \ {o}
    BY <1>4, <1>5, <2>2, <2>4
  <2> QED BY <1>3, <2>3, <2>4
<1>9. /\ closings = {} /\ ~timer /\ phase \in {"opening", "recovering"}
  BY DEF IInv, OpensInv
<1>10. ClosingsInv' /\ TimerInv' /\ ResourceInv'
  BY <1>5, <1>9 DEF ClosingsInv, TimerInv, ResourceInv
<1>11. PhaseInv'
  <2>1. \E p \in opens' : p.id = openToken'
    BY <1>2, <1>3, <1>5
  <2> QED BY <1>5, <1>9, <2>1 DEF IInv, PhaseInv
<1>12. FaultMatchesPhase'
  BY <1>5 DEF IInv, FaultMatchesPhase
<1> QED
  BY <1>5, <1>6, <1>7, <1>8, <1>10, <1>11, <1>12 DEF IInv

(* Credentials, Connected and Granted are only ever steps of the current    *)
(* attempt: an attempt that was overtaken is past them.                     *)
LEMMA AwaitSteps ==
  ASSUME TransportAssumption, IInv, ~disposed, NEW o \in opens,
         Credentials(o) \/ Connected(o) \/ Granted(o)
  PROVE  IInv'
<1>1. o \in [id : Nat, first : BOOLEAN, stage : Stage] /\ o.id \in Nat
  BY DEF IInv, TypeOK
<1>2. /\ o.id = openToken /\ source # "browser"
      /\ o.stage = "credentials" => recognisers = {}
      /\ o.stage # "worklet" => mics = {}
      /\ o.stage # "credentials" => provider = o.id
      /\ o.stage = "asking" => mic = o.id
      /\ recognisers \subseteq {provider} /\ mics \subseteq {mic}
      /\ mic \in Nat
  BY DEF Credentials, Connected, Granted, At, IInv, OpensInv, ResourceInv, TypeOK
<1>3. CASE Credentials(o)
  BY <1>1, <1>2, <1>3, MoveStep DEF Credentials, At, Stage
<1>4. CASE Connected(o)
  BY <1>1, <1>2, <1>4, MoveStep DEF Connected, At, Stage
<1>5. CASE Granted(o)
  BY <1>1, <1>2, <1>5, MoveStep DEF Granted, At, Stage
<1> QED BY <1>3, <1>4, <1>5

(* An overtaken attempt ends without a trace. *)
LEMMA OvertakenStep ==
  ASSUME IInv, ~disposed, NEW o \in opens, o.id # openToken, opens' = opens \ {o},
         UNCHANGED <<source, supervisor, closings, resources, ending, history>>
  PROVE  IInv'
<1>1. UNCHANGED <<source, phase, everOpened, fault, attempts, timer, openToken, disposed,
                  closings, provider, mic, recognisers, mics, ending, faults, resumes>>
  BY DEF supervisor, resources, history
<1>2. TypeOK'
  BY <1>1 DEF IInv, TypeOK
<1>3. IdsInv' /\ OpensInv'
  BY <1>1 DEF IInv, IdsInv, OpensInv
<1>4. ClosingsInv' /\ TimerInv' /\ ResourceInv' /\ FaultMatchesPhase'
  BY <1>1 DEF IInv, ClosingsInv, TimerInv, ResourceInv, FaultMatchesPhase
<1>5. PhaseInv'
  BY <1>1 DEF IInv, PhaseInv
<1> QED BY <1>1, <1>2, <1>3, <1>4, <1>5 DEF IInv

LEMMA OpenResolvesStep ==
  ASSUME TransportAssumption, IInv, ~disposed, NEW o \in opens, OpenResolves(o)
  PROVE  IInv'
<1>1. CASE o.id # openToken
  BY <1>1, OvertakenStep DEF OpenResolves, Current, supervisor
<1>2. CASE o.id = openToken
  <2>1. /\ phase \in {"opening", "recovering"} /\ ~timer /\ closings = {}
        /\ source # "browser" => mic = o.id
        /\ source = "cloud" \/ source = "browser"
    BY <1>2 DEF OpenResolves, At, IInv, OpensInv, TypeOK, TransportAssumption
  <2>2. /\ opens' = opens \ {o}
        /\ attempts' = 0 /\ fault' = NoFault /\ everOpened' = TRUE /\ phase' = "open"
        /\ UNCHANGED <<source, timer, openToken, disposed, closings, provider, mic,
                       recognisers, mics, ending, faults, resumes>>
    BY <1>2, <2>1 DEF OpenResolves, Current, resources, history
  <2>3. TypeOK'
    <3>1. NoFault \in [kind : Kind \cup {"none"}, recovering : BOOLEAN, attempts : Nat]
      BY DEF NoFault
    <3> QED BY <2>2, <3>1 DEF IInv, TypeOK, Phase
  <2>4. IdsInv' /\ OpensInv'
    <3>1. \A p \in opens' : p.id # openToken
      BY <1>2, <2>2 DEF IInv, IdsInv
    <3> QED BY <2>2, <3>1 DEF IInv, IdsInv, OpensInv
  <2>5. ClosingsInv' /\ TimerInv' /\ PhaseInv' /\ ResourceInv'
    BY <2>1, <2>2 DEF IInv, ClosingsInv, TimerInv, PhaseInv, ResourceInv
  <2>6. FaultMatchesPhase'
    BY <2>2 DEF FaultMatchesPhase, NoFault
  <2> QED
    BY <2>2, <2>3, <2>4, <2>5, <2>6 DEF IInv, TransportAssumption
<1> QED BY <1>1, <1>2

LEMMA OpenRejectsStep ==
  ASSUME TransportAssumption, IInv, ~disposed, NEW o \in opens, NEW kind \in Kind,
         OpenRejects(o, kind)
  PROVE  IInv'
<1> DEFINE rs == IF o.stage = "connecting" THEN recognisers \ {o.id} ELSE recognisers
<1>1. CASE o.id # openToken
  <2>1. o.stage = "worklet"
    BY <1>1 DEF IInv, OpensInv
  <2> QED BY <1>1, <2>1, OvertakenStep DEF OpenRejects, Current, resources
<1>2. CASE o.id = openToken
  <2>1. Handle(kind, o.first, rs, mics) /\ opens' = opens \ {o}
    BY <1>2 DEF OpenRejects, Current
  <2>2. /\ phase \in {"opening", "open", "recovering"} /\ ~timer /\ closings = {}
        /\ o.first <=> ~everOpened
        /\ o.first \in BOOLEAN
    BY <1>2 DEF IInv, OpensInv, TypeOK
  <2>3. \A p \in opens' : p.id = openToken => p.stage = "worklet"
    BY <1>2, <2>1 DEF IInv, IdsInv
  <2>4. faults' \in Nat /\ resumes' \in Nat
    BY DEF OpenRejects, history, IInv, TypeOK
  <2>5. rs \in SUBSET recognisers /\ mics \in SUBSET mics
    OBVIOUS
  <2> HIDE DEF rs
  <2> QED BY <2>1, <2>2, <2>3, <2>4, <2>5, HandleStep
<1> QED BY <1>1, <1>2

----------------------------------------------------------------------------
(* Faults. *)

(* A report that is ignored changes nothing but what runs. *)
LEMMA IgnoredStep ==
  ASSUME IInv, ~disposed,
         recognisers' \subseteq recognisers, mics' \subseteq mics,
         faults' \in Nat, resumes' \in Nat,
         UNCHANGED <<source, supervisor, opens, closings, provider, mic, ending>>
  PROVE  IInv'
<1>1. UNCHANGED <<source, phase, everOpened, fault, attempts, timer, openToken, disposed,
                  opens, closings, provider, mic, ending>>
  BY DEF supervisor
<1>2. TypeOK'
  BY <1>1 DEF IInv, TypeOK
<1>3. IdsInv' /\ OpensInv'
  BY <1>1 DEF IInv, IdsInv, OpensInv
<1>4. ClosingsInv' /\ TimerInv' /\ ResourceInv' /\ FaultMatchesPhase'
  BY <1>1 DEF IInv, ClosingsInv, TimerInv, ResourceInv, FaultMatchesPhase
<1>5. PhaseInv'
  BY <1>1 DEF IInv, PhaseInv
<1> QED BY <1>1, <1>2, <1>3, <1>4, <1>5 DEF IInv

(* A report about something that was running. *)
LEMMA ReportStep ==
  ASSUME TransportAssumption, IInv, ~disposed, NEW kind \in Kind,
         NEW rs \in SUBSET recognisers, NEW ms \in SUBSET mics,
         recognisers # {} \/ mics # {},
         \A o \in opens : o.id = openToken => o.stage = "worklet",
         opens' = opens, faults' \in Nat, resumes' \in Nat,
         Report(kind, rs, ms)
  PROVE  IInv'
<1>1. CASE phase = "recovering"
  BY <1>1, IgnoredStep DEF Report
<1>2. CASE phase # "recovering"
  <2>1. Handle(kind, ~everOpened, rs, ms)
    BY <1>2 DEF Report
  <2>2. phase \in {"opening", "open", "recovering"} /\ ~timer /\ closings = {}
    BY DEF IInv, TypeOK, Phase, PhaseInv, TimerInv, ClosingsInv
  <2>3. (~everOpened) \in BOOLEAN
    BY DEF IInv, TypeOK
  <2>4. opens' \subseteq opens /\ \A o \in opens' : o.id = openToken => o.stage = "worklet"
    OBVIOUS
  <2> QED BY <2>1, <2>2, <2>3, <2>4, HandleStep
<1> QED BY <1>1, <1>2

LEMMA RecogniserDiesStep ==
  ASSUME TransportAssumption, IInv, ~disposed, NEW p \in recognisers, NEW kind \in Kind,
         RecogniserDies(p, kind)
  PROVE  IInv'
<1>1. \A o \in opens : o.id = openToken => o.stage = "worklet"
  BY DEF RecogniserDies, IInv, OpensInv, ResourceInv
<1>2. faults' \in Nat /\ resumes' \in Nat
  BY DEF RecogniserDies, IInv, TypeOK
<1>3. Report(kind, recognisers \ {p}, mics) /\ opens' = opens
  BY DEF RecogniserDies
<1>4. /\ recognisers \ {p} \in SUBSET recognisers /\ mics \in SUBSET mics
      /\ recognisers # {}
  OBVIOUS
<1> QED BY <1>1, <1>2, <1>3, <1>4, ReportStep

LEMMA MicEndsStep ==
  ASSUME TransportAssumption, IInv, ~disposed, NEW m \in mics, NEW kind \in Kind,
         MicEnds(m, kind)
  PROVE  IInv'
<1>1. \A o \in opens : o.id = openToken => o.stage = "worklet"
  BY DEF IInv, OpensInv
<1>2. faults' \in Nat /\ resumes' \in Nat
  BY DEF MicEnds, IInv, TypeOK
<1>3. Report(kind, recognisers, mics \ {m}) /\ opens' = opens
  BY DEF MicEnds
<1>4. recognisers \in SUBSET recognisers /\ mics \ {m} \in SUBSET mics /\ mics # {}
  OBVIOUS
<1> QED BY <1>1, <1>2, <1>3, <1>4, ReportStep

LEMMA CloseDoneStep ==
  ASSUME TransportAssumption, IInv, ~disposed, NEW c \in closings, CloseDone(c)
  PROVE  IInv'
<1>1. /\ closings' = {}
      /\ UNCHANGED <<source, everOpened, openToken, disposed, opens, provider, mic,
                     recognisers, mics, ending, faults, resumes>>
  BY DEF CloseDone, IInv, ClosingsInv, resources, history
<1>2. /\ phase \in {"opening", "open", "recovering"} /\ ~timer
      /\ c.first <=> ~everOpened
      /\ c.retry => phase = "recovering" /\ attempts < MaxAttempts
      /\ recognisers = {} /\ mics = {}
      /\ c.kind \in Kind /\ attempts \in Nat
  BY DEF IInv, ClosingsInv, TypeOK
<1>3. \A o \in opens : o.id # openToken
  BY DEF IInv, OpensInv
<1>4. IdsInv' /\ OpensInv' /\ ClosingsInv' /\ ResourceInv'
  BY <1>1, <1>3 DEF IInv, IdsInv, OpensInv, ClosingsInv, ResourceInv
<1>5. CASE c.retry
  <2>1. attempts' = attempts + 1 /\ timer' = TRUE /\ UNCHANGED <<fault, phase>>
    BY <1>5 DEF CloseDone, ScheduleRetry
  <2>2. attempts' \in Nat /\ attempts' > 0 /\ attempts' <= MaxAttempts
    BY <1>2, <1>5, <2>1 DEF TransportAssumption
  <2>3. TypeOK'
    BY <1>1, <2>1, <2>2 DEF IInv, TypeOK
  <2>4. TimerInv' /\ PhaseInv' /\ FaultMatchesPhase'
    BY <1>1, <1>2, <1>5, <2>1, <2>2 DEF IInv, TimerInv, PhaseInv, FaultMatchesPhase
  <2> QED BY <1>1, <1>4, <2>1, <2>2, <2>3, <2>4 DEF IInv
<1>6. CASE ~c.retry
  <2>1. /\ fault' = Fault(c.kind, FALSE, attempts)
        /\ phase' = IF c.first THEN "failed-to-start" ELSE "interrupted"
        /\ UNCHANGED <<attempts, timer>>
    BY <1>6 DEF CloseDone
  <2>2. TypeOK'
    <3>1. fault' \in [kind : Kind \cup {"none"}, recovering : BOOLEAN, attempts : Nat]
      BY <1>2, <2>1 DEF Fault
    <3> QED BY <1>1, <2>1, <3>1 DEF IInv, TypeOK, Phase
  <2>3. TimerInv' /\ PhaseInv'
    BY <1>1, <1>2, <2>1 DEF TimerInv, PhaseInv
  <2>4. FaultMatchesPhase'
    BY <1>2, <2>1 DEF FaultMatchesPhase, Fault, Kind
  <2> QED BY <1>1, <1>2, <1>4, <2>1, <2>2, <2>3, <2>4 DEF IInv
<1> QED BY <1>5, <1>6

----------------------------------------------------------------------------
(* End, leaving the page, and what still settles afterwards. *)

LEMMA EndSteps ==
  ASSUME TransportAssumption, IInv, End \/ Unmount
  PROVE  IInv'
<1>1. /\ disposed' = TRUE /\ timer' = FALSE /\ ending' \in {"closing", "done"}
      /\ attempts' \in {0, attempts} /\ fault' \in {NoFault, fault}
      /\ phase' = "closed" \/ (phase' = phase /\ fault' = fault)
      /\ provider' = 0 /\ mic' = 0
      /\ recognisers' \subseteq recognisers /\ mics' \subseteq mics
      /\ UNCHANGED <<source, everOpened, openToken, opens, closings, faults, resumes>>
  BY DEF End, Unmount, CancelTimer, Teardown, history
<1>2. NoFault \in [kind : Kind \cup {"none"}, recovering : BOOLEAN, attempts : Nat]
  BY DEF NoFault
<1>3. TypeOK'
  <2>1. /\ phase' \in Phase /\ ending' \in {"no", "closing", "done"}
        /\ attempts' \in Nat /\ provider' \in Nat /\ mic' \in Nat
    BY <1>1 DEF IInv, TypeOK, Phase
  <2>2. fault' \in [kind : Kind \cup {"none"}, recovering : BOOLEAN, attempts : Nat]
    BY <1>1, <1>2 DEF IInv, TypeOK
  <2>3. recognisers' \subseteq Nat /\ mics' \subseteq Nat
    BY <1>1 DEF IInv, TypeOK
  <2> QED BY <1>1, <2>1, <2>2, <2>3 DEF IInv, TypeOK
<1>4. attempts' <= MaxAttempts
  BY <1>1 DEF IInv, TransportAssumption
<1> QED BY <1>1, <1>3, <1>4 DEF IInv

LEMMA EndTeardownStep ==
  ASSUME IInv, EndTeardown
  PROVE  IInv'
<1>1. /\ ending' = "done" /\ ending = "closing" /\ provider' = 0 /\ mic' = 0
      /\ recognisers' \subseteq recognisers /\ mics' \subseteq mics
      /\ UNCHANGED <<source, phase, everOpened, fault, attempts, timer, openToken, disposed,
                     opens, closings, faults, resumes>>
  BY DEF EndTeardown, Teardown, supervisor, history
<1>2. disposed
  BY <1>1 DEF IInv
<1>3. TypeOK'
  BY <1>1 DEF IInv, TypeOK
<1> QED BY <1>1, <1>2, <1>3 DEF IInv

(* Once disposed, nothing the supervisor holds changes any more. *)
LEMMA DisposedStep ==
  ASSUME TransportAssumption, IInv, disposed, Next
  PROVE  /\ IInv'
         /\ UNCHANGED supervisor
<1>1. ~timer /\ ending # "no"
  BY DEF IInv
<1>2. ~Start /\ ~Resume /\ ~TimerFires /\ ~End /\ ~Unmount
  BY <1>1 DEF Start, Resume, TimerFires, End, Unmount
<1>3. CASE EndTeardown
  BY <1>3, EndTeardownStep DEF EndTeardown
<1>4. CASE \E o \in opens : OpenMoves(o)
  <2>1. PICK o \in opens : OpenMoves(o)
    BY <1>4
  <2>2. o \in [id : Nat, first : BOOLEAN, stage : Stage]
    BY DEF IInv, TypeOK
  <2>3. UNCHANGED <<supervisor, source, closings, ending, faults, resumes>>
    BY <2>1 DEF OpenMoves, Credentials, Connected, Granted, OpenResolves, OpenRejects,
                Current, supervisor, resources, history
  <2>4. \A stage \in Stage : [o EXCEPT !.stage = stage]
                               \in [id : Nat, first : BOOLEAN, stage : Stage]
    BY <2>2
  <2>5. /\ opens' \subseteq [id : Nat, first : BOOLEAN, stage : Stage]
        /\ provider' \in Nat /\ mic' \in Nat
        /\ recognisers' \subseteq Nat /\ mics' \subseteq Nat
    BY <2>1, <2>2, <2>4 DEF OpenMoves, Credentials, Connected, Granted, OpenResolves,
                OpenRejects, Current, MoveTo, resources, IInv, TypeOK, Stage
  <2>6. TypeOK'
    BY <2>3, <2>5 DEF supervisor, IInv, TypeOK
  <2> QED BY <2>3, <2>6 DEF supervisor, IInv
<1>5. CASE \/ \E p \in recognisers, kind \in Kind : RecogniserDies(p, kind)
           \/ \E m \in mics, kind \in Kind : MicEnds(m, kind)
  <2>1. /\ UNCHANGED <<supervisor, source, opens, closings, provider, mic, ending, resumes>>
        /\ recognisers' \subseteq recognisers /\ mics' \subseteq mics
        /\ faults' = faults + 1
    BY <1>5 DEF RecogniserDies, MicEnds, Report
  <2>2. TypeOK'
    BY <2>1 DEF supervisor, IInv, TypeOK
  <2> QED BY <2>1, <2>2 DEF supervisor, IInv
<1>6. CASE \E c \in closings : CloseDone(c)
  <2>1. /\ UNCHANGED <<supervisor, source, opens, resources, ending, faults, resumes>>
        /\ closings' \subseteq closings
    BY <1>6 DEF CloseDone, supervisor, history
  <2>2. TypeOK'
    BY <2>1 DEF supervisor, resources, IInv, TypeOK
  <2> QED BY <2>1, <2>2 DEF supervisor, IInv
<1> QED BY <1>2, <1>3, <1>4, <1>5, <1>6 DEF Next

----------------------------------------------------------------------------
(* The invariant is inductive. *)

LEMMA InitIInv ==
  ASSUME TransportAssumption, Init
  PROVE  IInv
<1>1. TypeOK
  BY DEF Init, TypeOK, Phase, NoFault
<1>2. IdsInv /\ OpensInv /\ ClosingsInv /\ TimerInv /\ PhaseInv /\ ResourceInv
  BY DEF Init, IdsInv, OpensInv, ClosingsInv, TimerInv, PhaseInv, ResourceInv
<1>3. FaultMatchesPhase
  BY DEF Init, FaultMatchesPhase, NoFault
<1> QED BY <1>1, <1>2, <1>3 DEF Init, IInv, TransportAssumption

LEMMA NextIInv ==
  ASSUME TransportAssumption, IInv, [Next]_vars
  PROVE  IInv'
<1>1. CASE UNCHANGED vars
  BY <1>1 DEF vars, supervisor, resources, history, IInv, TypeOK, IdsInv, OpensInv,
              ClosingsInv, TimerInv, PhaseInv, ResourceInv, FaultMatchesPhase
<1>2. CASE Next /\ disposed
  BY <1>2, DisposedStep
<1>3. CASE Next /\ ~disposed
  <2>1. CASE Start
    BY <2>1, StartStep
  <2>2. CASE Resume
    BY <2>2, ResumeStep
  <2>3. CASE TimerFires
    BY <2>3, TimerFiresStep
  <2>4. CASE \E o \in opens : OpenMoves(o)
    BY <1>3, <2>4, AwaitSteps, OpenResolvesStep, OpenRejectsStep DEF OpenMoves
  <2>5. CASE \E p \in recognisers, kind \in Kind : RecogniserDies(p, kind)
    BY <1>3, <2>5, RecogniserDiesStep
  <2>6. CASE \E m \in mics, kind \in Kind : MicEnds(m, kind)
    BY <1>3, <2>6, MicEndsStep
  <2>7. CASE \E c \in closings : CloseDone(c)
    BY <1>3, <2>7, CloseDoneStep
  <2>8. CASE End \/ Unmount
    BY <2>8, EndSteps
  <2>9. CASE EndTeardown
    BY <2>9, EndTeardownStep
  <2> QED
    BY <1>3, <2>1, <2>2, <2>3, <2>4, <2>5, <2>6, <2>7, <2>8, <2>9 DEF Next
<1> QED BY <1>1, <1>2, <1>3

(* Every state the supervisor and its transport reach satisfies IInv. *)
THEOREM SpecIInv == Spec => []IInv
<1>1. Init => IInv
  BY InitIInv, TransportAssumption
<1>2. IInv /\ [Next]_vars => IInv'
  BY NextIInv, TransportAssumption
<1> QED BY <1>1, <1>2, PTL DEF Spec

----------------------------------------------------------------------------
(* The properties. *)

(* Every variable of the supervisor and of its transport stays in its type. *)
THEOREM SpecTypeOK == Spec => []TypeOK
<1>1. IInv => TypeOK
  BY DEF IInv
<1> QED BY <1>1, SpecIInv, PTL

(* A living session has at most one cause of movement pending, and has one  *)
(* whenever its phase promises movement: attemptOpen, handle's close and    *)
(* the backoff timer never overlap, and none of them is ever forgotten.     *)
THEOREM SpecOneThingPending == Spec => []OneThingPending
<1>1. IInv => OneThingPending
  <2> SUFFICES ASSUME IInv, ~disposed
               PROVE  /\ \A o, p \in CurrentOpens : o = p
                      /\ \A c, d \in closings : c = d
                      /\ timer => CurrentOpens = {} /\ closings = {}
                      /\ CurrentOpens # {} => closings = {}
                      /\ phase \in {"opening", "recovering"}
                           => timer \/ CurrentOpens # {} \/ closings # {}
                      /\ phase \in {"idle", "interrupted", "failed-to-start"}
                           => ~timer /\ CurrentOpens = {} /\ closings = {}
    BY DEF OneThingPending
  <2>1. \A o, p \in CurrentOpens : o = p
    BY DEF IInv, IdsInv, CurrentOpens
  <2>2. \A c, d \in closings : c = d
    BY DEF IInv, ClosingsInv
  <2>3. \A o \in CurrentOpens :
           phase \in {"opening", "recovering"} /\ ~timer /\ closings = {}
    BY DEF IInv, OpensInv, CurrentOpens
  <2>4. /\ timer => phase = "recovering" /\ closings = {}
        /\ closings # {} => phase \in {"opening", "open", "recovering"}
    BY DEF IInv, TimerInv, ClosingsInv
  <2>5. phase \in {"opening", "recovering"} => timer \/ CurrentOpens # {} \/ closings # {}
    BY DEF IInv, PhaseInv, CurrentOpens
  <2> QED BY <2>1, <2>2, <2>3, <2>4, <2>5
<1> QED BY <1>1, SpecIInv, PTL

(* The fault the console shows agrees with the phase: "recovering" exactly  *)
(* while an automatic attempt is due, a fault behind every failure, none    *)
(* over a session that is opening or open.                                  *)
THEOREM SpecFaultMatchesPhase == Spec => []FaultMatchesPhase
<1>1. IInv => FaultMatchesPhase
  BY DEF IInv, FaultMatchesPhase
<1> QED BY <1>1, SpecIInv, PTL

(* Only transport faults are retried, at most RECOVERY_BACKOFF_MS.length    *)
(* times in a row.                                                          *)
THEOREM SpecRetriesAreBounded == Spec => []RetriesAreBounded
<1>1. IInv => RetriesAreBounded
  BY DEF IInv, RetriesAreBounded
<1> QED BY <1>1, SpecIInv, PTL

(* A session that was ever open is interrupted by a failure, never said to  *)
(* have failed to start, and the other way round.                           *)
THEOREM SpecFailureKeepsSession == Spec => []FailureKeepsSession
<1>1. IInv => FailureKeepsSession
  BY DEF IInv, FailureKeepsSession
<1> QED BY <1>1, SpecIInv, PTL

(* A living session runs at most one recogniser and one microphone, however *)
(* faults, retries and overtaken opens interleave.                          *)
THEOREM SpecOneTransport == Spec => []OneTransport
<1>1. IInv => OneTransport
  BY DEF IInv, ResourceInv, OneTransport
<1> QED BY <1>1, SpecIInv, PTL

(* After close() or dispose() no timer is set, no attempt begins and the    *)
(* phase stays, whatever promises settle or tracks end later.               *)
THEOREM SpecEndIsFinal == Spec => EndIsFinal
<1>1. IInv /\ [Next]_vars
        => [disposed => ~timer' /\ openToken' = openToken /\ phase' = phase]_vars
  <2> SUFFICES ASSUME IInv, Next, disposed
               PROVE  ~timer' /\ openToken' = openToken /\ phase' = phase
    OBVIOUS
  <2> QED BY DisposedStep, TransportAssumption DEF IInv, supervisor
<1> QED BY <1>1, SpecIInv, PTL DEF Spec, EndIsFinal

(* An interrupted session moves only by resume() or the end of the session: *)
(* no late timer, rejection, report or close reopens it.                    *)
THEOREM SpecOnlyAPersonResumes == Spec => OnlyAPersonResumes
<1>1. IInv /\ [Next]_vars
        => [phase = "interrupted" /\ phase' # "interrupted"
              => resumes' = resumes + 1 \/ disposed']_vars
  <2> SUFFICES ASSUME IInv, Next, phase = "interrupted"
               PROVE  phase' = phase \/ resumes' = resumes + 1 \/ disposed'
    OBVIOUS
  <2>1. CASE disposed
    BY <2>1, DisposedStep, TransportAssumption DEF supervisor
  <2>2. CASE ~disposed
    <3>1. /\ ~timer /\ closings = {} /\ recognisers = {} /\ mics = {}
          /\ \A o \in opens : ~Current(o)
      BY <2>2 DEF IInv, TimerInv, ClosingsInv, PhaseInv, OpensInv, Current
    <3>2. ~Start /\ ~TimerFires
      BY <3>1 DEF Start, TimerFires
    <3>3. ASSUME NEW o \in opens, OpenMoves(o) PROVE phase' = phase
      BY <3>1, <3>3 DEF OpenMoves, Credentials, Connected, Granted, OpenResolves,
                        OpenRejects, supervisor
    <3>4. CASE Resume \/ End \/ EndTeardown \/ Unmount
      BY <3>4 DEF Resume, End, EndTeardown, Unmount, supervisor
    <3> QED BY <3>1, <3>2, <3>3, <3>4 DEF Next
  <2> QED BY <2>1, <2>2
<1> QED BY <1>1, SpecIInv, PTL DEF Spec, OnlyAPersonResumes

============================================================================
