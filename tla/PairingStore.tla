--------------------------- MODULE PairingStore ----------------------------
(***************************************************************************)
(* class RedisRemoteMicStore of src/src/remote-mic/store.ts: several       *)
(* serverless requests share one record through GET and an atomic          *)
(* compare-and-set on its revision.                                        *)
(*                                                                         *)
(* A server reads the record, computes what the request makes of it, and   *)
(* writes only if the revision is still the one it read; otherwise it      *)
(* reads again, at most UPDATE_RETRIES times in all.  A command may time   *)
(* out: the caller is then told the store is unavailable, whether or not   *)
(* the command took effect.                                                *)
(***************************************************************************)
EXTENDS PairingRecord

CONSTANTS
  Servers,        \* requests that may be served at the same time
  UpdateRetries,  \* UPDATE_RETRIES
  MaxRequests     \* bound: requests ever served

ASSUME StoreAssumption ==
  /\ UpdateRetries \in Nat \ {0}
  /\ MaxRequests \in Nat
  /\ None \notin [rev : Nat, record : Record]

VARIABLES
  cell,     \* what Redis holds under the key: [rev, record], or None
  job,      \* what each server is doing
  granted,  \* history: phones whose claim was answered "ok"
  served    \* history: requests begun

vars == <<cell, job, granted, served>>

----------------------------------------------------------------------------
(* The promise, at the present content of the cell. *)

Held == IF cell = None THEN None ELSE cell.record

Promise == INSTANCE Pairing WITH record <- Held

Idle == [at |-> "idle"]

Init ==
  /\ cell = [rev |-> 1, record |-> NewPairing]
  /\ job = [s \in Servers |-> Idle]
  /\ granted = {}
  /\ served = 0

(* A request arrives: update() is called with the route's mutation.        *)
Begin(s, q) ==
  /\ job[s] = Idle
  /\ served < MaxRequests
  /\ served' = served + 1
  /\ job' = [job EXCEPT ![s] = [at |-> "get", q |-> q, attempt |-> 0]]
  /\ UNCHANGED <<cell, granted>>

(* The request is over; a claim that succeeded hands its phone the token.  *)
Answer(s, ok) ==
  /\ job' = [job EXCEPT ![s] = Idle]
  /\ granted' = IF ok /\ job[s].q.action = "claim"
                THEN granted \cup {job[s].q.by} ELSE granted

(* GET: nothing there (404), nothing to write, or a draft to put back.     *)
Get(s) ==
  /\ job[s].at = "get"
  /\ \/ cell = None /\ Answer(s, FALSE)
     \/ \E late \in BOOLEAN :
          /\ cell # None
          /\ LET out == Outcome(cell.record, job[s].q, late) IN
             IF out.write
             THEN /\ job' = [job EXCEPT ![s] =
                       [at |-> "cas", q |-> @.q, attempt |-> @.attempt,
                        rev |-> cell.rev, draft |-> out.record, ok |-> out.ok]]
                  /\ UNCHANGED granted
             ELSE Answer(s, out.ok)
  /\ UNCHANGED <<cell, served>>

(* CAS_SCRIPT, run atomically by Redis.                                    *)
MatchesAny(s) == cell # None   \* mutant of Matches

Matches(s) == cell # None /\ cell.rev = job[s].rev

WrittenUnrevised(s) ==   \* mutant of Written
  [rev |-> job[s].rev, record |-> job[s].draft]

Written(s) == [rev |-> job[s].rev + 1, record |-> job[s].draft]

CasWrites(s) ==
  /\ job[s].at = "cas"
  /\ Matches(s)
  /\ cell' = Written(s)
  /\ \/ Answer(s, job[s].ok)
     \/ Answer(s, FALSE)      \* written, but the reply never came
  /\ UNCHANGED served

CasGone(s) ==
  /\ job[s].at = "cas"
  /\ cell = None
  /\ Answer(s, FALSE)
  /\ UNCHANGED <<cell, served>>

(* Another request won the race: read again, or give up as too busy.       *)
CasLost(s) ==
  /\ job[s].at = "cas"
  /\ cell # None /\ ~Matches(s)
  /\ IF job[s].attempt + 1 < UpdateRetries
     THEN /\ job' = [job EXCEPT ![s] =
                       [at |-> "get", q |-> @.q, attempt |-> @.attempt + 1]]
          /\ UNCHANGED granted
     ELSE Answer(s, FALSE)
  /\ UNCHANGED <<cell, served>>

(* A command that never reached Redis, or whose reply was not in time.     *)
TimesOut(s) ==
  /\ job[s] # Idle
  /\ Answer(s, FALSE)
  /\ UNCHANGED <<cell, served>>

(* The record's time to live has passed.                                   *)
TtlPasses ==
  /\ cell # None
  /\ cell' = None
  /\ UNCHANGED <<job, granted, served>>

Next ==
  \/ \E s \in Servers :
       \/ \E q \in Promise!Requests : Begin(s, q)
       \/ Get(s)
       \/ CasWrites(s)
       \/ CasGone(s)
       \/ CasLost(s)
       \/ TimesOut(s)
  \/ TtlPasses

Spec == Init /\ [][Next]_vars

----------------------------------------------------------------------------
(* Properties *)

Job == [at : {"idle"}]
       \cup [at : {"get"}, q : Request, attempt : 0 .. UpdateRetries - 1]
       \cup [at : {"cas"}, q : Request, attempt : 0 .. UpdateRetries - 1,
             rev : Nat, draft : Record, ok : BOOLEAN]

(* The variables have the values the code gives them. *)
TypeOK ==
  /\ cell = None \/ cell \in [rev : Nat, record : Record]
  /\ job \in [Servers -> Job]
  /\ granted \subseteq Phones
  /\ served \in 0 .. MaxRequests

(* The store keeps its promise: whatever servers do at the same time,      *)
(* every request takes effect at one instant, on the record as it is then, *)
(* or not at all.                                                          *)
KeepsPromise == Promise!Spec

(* Of all phones that scan the QR code only one is ever told that it has   *)
(* the pairing, and the record then names that phone and no other: a       *)
(* second scan cannot take the pairing over.                               *)
OnePhoneGranted ==
  \A p \in granted : granted = {p} /\ (cell # None => cell.record.owner = p)

(* Nothing about a connection is ever stored without the approval of the   *)
(* console, not even by requests that overlap.                             *)
NothingBeforeApproval == Promise!NothingBeforeApproval

(* Ownership and the end of a pairing are for good. *)
OwnerForGood == Promise!OwnerForGood

(* An offer is deleted unanswered by nobody but its sender, whatever       *)
(* overlaps: not by a status that was written for the connection before.   *)
OfferWaits == Promise!OfferWaits

============================================================================
