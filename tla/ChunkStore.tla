---------------------------- MODULE ChunkStore ----------------------------
(***************************************************************************)
(* The chunk store of the interpretation engine: the pure functions of     *)
(* src/src/interpreter/engine/chunks.ts over the sequence of lines the     *)
(* interpreter reads.                                                      *)
(*                                                                         *)
(* A chunk moves one way only: anticipated -> current -> committed.  A     *)
(* committed line has probably been spoken, so it must never change again. *)
(*                                                                         *)
(* A line of English is a model value of Line (its normalised text).  The  *)
(* time since `at` is kept as `age`, saturating at Dwell: a current chunk  *)
(* whose age is Dwell is due.  A committed chunk's age is never read and   *)
(* is kept at 0.                                                           *)
(***************************************************************************)
EXTENDS Naturals, Sequences, SequencesExt, FiniteSetsExt

CONSTANTS
  Line,             \* the texts a line of English can have
  Dwell,            \* commitDwellMs, in ticks of the model's clock
  DuplicateWindow,  \* DUPLICATE_WINDOW: how far back a repeated line is seen
  MaxChunksInView   \* MAX_CHUNKS_IN_VIEW

ASSUME ChunkStoreAssumption ==
  /\ Dwell \in Nat \ {0}
  /\ DuplicateWindow \in Nat \ {0}
  /\ MaxChunksInView \in Nat \ {0}

ChunkState == {"anticipated", "current", "committed"}

Chunk == [line : Line, st : ChunkState, turn : Nat, prov : BOOLEAN, age : 0..Dwell]

(* A draft of `turn` as it first appears on screen. *)
Fresh(line, turn, prov) ==
  [line |-> line, st |-> "current", turn |-> turn, prov |-> prov, age |-> 0]

(* The elements of s that are in S, in their order: s.filter(). *)
Among(s, S) ==
  LET first[n \in 0..Len(s)] ==
        IF n = 0 THEN <<>>
        ELSE IF s[n] \in S THEN Append(first[n - 1], s[n]) ELSE first[n - 1]
  IN  first[Len(s)]

LastN(s, n) == IF Len(s) <= n THEN s ELSE SubSeq(s, Len(s) - n + 1, Len(s))

Lines(cs) == [i \in DOMAIN cs |-> cs[i].line]

(* The lines a new line is compared with before it is shown again. *)
Delivered(cs) == ToSet(Lines(LastN(cs, DuplicateWindow)))

NotDelivered(drafts, cs) == Among(drafts, Line \ Delivered(cs))

(* Drop the predicted tail without touching anything confirmed. *)
ClearAnticipated(cs) == Among(cs, {c \in ToSet(cs) : c.st # "anticipated"})

(* Replace the predicted tail. *)
SetAnticipatedChunks(cs, drafts) ==
  LET base == ClearAnticipated(cs)
      new  == NotDelivered(drafts, base)
  IN  base \o [i \in DOMAIN new |->
                 [line |-> new[i], st |-> "anticipated", turn |-> 0,
                  prov |-> FALSE, age |-> 0]]

CommitOne(c) == [c EXCEPT !.st = "committed", !.age = 0]

(* Lock every current line that has been on screen for the dwell time. *)
CommitDueChunks(cs) ==
  [i \in DOMAIN cs |->
     IF cs[i].st = "current" /\ cs[i].age = Dwell THEN CommitOne(cs[i]) ELSE cs[i]]

CommitAll(cs) ==
  [i \in DOMAIN cs |-> IF cs[i].st = "current" THEN CommitOne(cs[i]) ELSE cs[i]]

TrimChunks(cs) == LastN(cs, MaxChunksInView)

----------------------------------------------------------------------------
(* Two-lane support: provisional lines and their legal refinement.         *)

IsProvisionalOf(c, ids) == c.prov /\ c.turn \in ids

ProvisionalIndices(cs, ids) == {i \in DOMAIN cs : IsProvisionalOf(cs[i], ids)}

(* Mutation of RefinementLegality: one editable line makes them all so. *)
LegalityOfAny(cs, ids) ==
  LET targets == ProvisionalIndices(cs, ids)
  IN  IF targets = {} THEN "fresh"
      ELSE IF \E i \in targets : cs[i].st = "current" THEN "refine" ELSE "locked"

RefinementLegality(cs, ids) ==
  LET targets == ProvisionalIndices(cs, ids)
  IN  IF targets = {} THEN "fresh"
      ELSE IF \A i \in targets : cs[i].st = "current" THEN "refine" ELSE "locked"

(* Mutation of InsertPosition: ahead of everything editable. *)
InsertBeforeEditable(base, turn) ==
  Min({p \in 1..(Len(base) + 1) :
         \A i \in p..Len(base) : base[i].st = "current"})

(* Where English for `turn` goes: ahead of the newer turns at the tail that  *)
(* are still editable, never ahead of anything else.                         *)
InsertPosition(base, turn) ==
  Min({p \in 1..(Len(base) + 1) :
         \A i \in p..Len(base) : base[i].st = "current" /\ base[i].turn > turn})

(* English for the turns `ids`, in stream order; everything above it locks. *)
InsertTurnChunks(cs, drafts, ids, prov) ==
  LET base   == ClearAnticipated(cs)
      turn   == Max(ids)
      p      == InsertPosition(base, turn)
      before == CommitAll(SubSeq(base, 1, p - 1))
      new    == NotDelivered(drafts, before)
  IN  before \o [i \in DOMAIN new |-> Fresh(new[i], turn, prov)]
             \o SubSeq(base, p, Len(base))

(* Replace the editable provisional lines of `ids`, where they stand and     *)
(* with the earliest of their clocks.  The caller has checked "refine".      *)
RefineProvisionalChunks(cs, ids, drafts) ==
  LET targets == ProvisionalIndices(cs, ids)
      first   == Min(targets)
      before  == SubSeq(cs, 1, first - 1)
      replaced == {cs[i] : i \in targets}
      after    == ClearAnticipated(Among(SubSeq(cs, first, Len(cs)), ToSet(cs) \ replaced))
      incoming == NotDelivered(drafts, ClearAnticipated(before))
      age      == Max({cs[i].age : i \in targets})
      Settle(c) == IF IsProvisionalOf(c, ids) THEN [c EXCEPT !.prov = FALSE] ELSE c
  IN  CASE incoming = <<>> ->
             [chunks |-> cs, changed |-> FALSE]
        [] incoming # <<>> /\ incoming = Lines(Among(cs, replaced)) ->
             [chunks  |-> ClearAnticipated([i \in DOMAIN cs |-> Settle(cs[i])]),
              changed |-> FALSE]
        [] OTHER ->
             [chunks  |-> before
                            \o [i \in DOMAIN incoming |->
                                  [Fresh(incoming[i], Max(ids), FALSE) EXCEPT !.age = age]]
                            \o after,
              changed |-> TRUE]

============================================================================
