-------------------------- MODULE ChunkStoreProofs --------------------------
(***************************************************************************)
(* Lemmas about the operators the engine is built from, for every value of *)
(* the constants: filtering and flattening sequences, the newest or oldest *)
(* element of a set, and what each function of the chunk store keeps.      *)
(***************************************************************************)
EXTENDS ChunkStore, SequenceTheorems, FunctionTheorems, FiniteSetTheorems, TLAPS

----------------------------------------------------------------------------
(* Numbers. *)

(* Induction over the naturals, for a set of them: if 0 is in S and S is    *)
(* closed under successor, every natural is.  (An n outside S would make    *)
(* x |-> x + 1 on S, x elsewhere, an injection of 0..n into itself that     *)
(* misses 0.)                                                               *)
LEMMA NatSetInduction ==
  ASSUME NEW S, 0 \in S, \A n \in Nat : n \in S => n + 1 \in S
  PROVE  \A n \in Nat : n \in S
<1> SUFFICES ASSUME NEW n \in Nat, n \notin S
             PROVE  FALSE
  OBVIOUS
<1> DEFINE D == 0..n
           f == [x \in D |-> IF x \in S THEN x + 1 ELSE x]
<1>1. IsFiniteSet(D)
  BY FS_Interval
<1>2. f \in [D -> D]
  OBVIOUS
<1>3. \A x, y \in D : f[x] = f[y] => x = y
  OBVIOUS
<1>4. \A x \in D : f[x] # 0
  OBVIOUS
<1>5. 0 \in D
  OBVIOUS
<1>6. f \in Injection(D, D)
  BY <1>2, <1>3 DEF Injection, IsInjective
<1> HIDE DEF D, f
<1>7. f \in Surjection(D, D)
  BY <1>1, <1>6, FS_Injection
<1> QED
  BY <1>4, <1>5, <1>7 DEF Surjection

(* A nonempty set of naturals up to n has a greatest element. *)
LEMMA MaxProperties ==
  ASSUME NEW n \in Nat, NEW S \in SUBSET (0..n), S # {}
  PROVE  Max(S) \in S /\ \A x \in S : x <= Max(S)
<1> DEFINE G == {m \in Nat : \A T \in SUBSET (0..m) :
                               T # {} => \E x \in T : \A y \in T : x >= y}
<1>1. 0 \in G
  <2> SUFFICES ASSUME NEW T \in SUBSET (0..0), T # {}
               PROVE  \E x \in T : \A y \in T : x >= y
    OBVIOUS
  <2>1. \A y \in T : y = 0
    OBVIOUS
  <2>2. PICK x \in T : TRUE
    OBVIOUS
  <2> QED BY <2>1, <2>2
<1>2. ASSUME NEW m \in Nat, m \in G
      PROVE  m + 1 \in G
  <2> SUFFICES ASSUME NEW T \in SUBSET (0..(m + 1)), T # {}
               PROVE  \E x \in T : \A y \in T : x >= y
    OBVIOUS
  <2>1. CASE m + 1 \in T
    BY <2>1
  <2>2. CASE m + 1 \notin T
    <3>1. T \in SUBSET (0..m)
      BY <2>2
    <3> QED BY <1>2, <3>1
  <2> QED BY <2>1, <2>2
<1> HIDE DEF G
<1>3. n \in G
  BY <1>1, <1>2, NatSetInduction
<1>4. \E x \in S : \A y \in S : x >= y
  BY <1>3 DEF G
<1>5. Max(S) \in S /\ \A y \in S : Max(S) >= y
  BY <1>4 DEF Max
<1> QED BY <1>5

(* A nonempty set of naturals has a least element. *)
LEMMA MinProperties ==
  ASSUME NEW S \in SUBSET Nat, S # {}
  PROVE  Min(S) \in S /\ \A x \in S : Min(S) <= x
<1> DEFINE G == {m \in Nat : \A T \in SUBSET Nat :
                               (\E x \in T : x <= m) => \E x \in T : \A y \in T : x <= y}
<1>1. 0 \in G
  OBVIOUS
<1>2. ASSUME NEW m \in Nat, m \in G
      PROVE  m + 1 \in G
  <2> SUFFICES ASSUME NEW T \in SUBSET Nat, \E x \in T : x <= m + 1
               PROVE  \E x \in T : \A y \in T : x <= y
    OBVIOUS
  <2>1. CASE \E x \in T : x <= m
    BY <1>2, <2>1
  <2>2. CASE \A x \in T : ~(x <= m)
    <3>1. m + 1 \in T /\ \A y \in T : m + 1 <= y
      BY <2>2
    <3> QED BY <3>1
  <2> QED BY <2>1, <2>2
<1> HIDE DEF G
<1>3. PICK n \in S : n \in G
  BY <1>1, <1>2, NatSetInduction
<1>4. \E x \in S : \A y \in S : x <= y
  BY <1>3 DEF G
<1> QED BY <1>4 DEF Min

----------------------------------------------------------------------------
(* Sequences. *)

(* What a list holds. *)
LEMMA ToSetProperties ==
  ASSUME NEW T, NEW s \in Seq(T)
  PROVE  /\ ToSet(s) \subseteq T
         /\ \A x : x \in ToSet(s) <=> \E i \in 1..Len(s) : s[i] = x
         /\ s \in Seq(ToSet(s))
<1>1. DOMAIN s = 1..Len(s) /\ Len(s) \in Nat /\ s \in [1..Len(s) -> T]
  BY LenProperties
<1>2. \A x : x \in ToSet(s) <=> \E i \in 1..Len(s) : s[i] = x
  BY <1>1 DEF ToSet
<1>3. s \in [1..Len(s) -> ToSet(s)]
  BY <1>1, <1>2
<1>4. s \in Seq(ToSet(s))
  BY <1>1, <1>3, SeqDef
<1> QED BY <1>1, <1>2, <1>4

(* What a concatenation holds.                                              *)
LEMMA ToSetConcat ==
  ASSUME NEW T, NEW s \in Seq(T), NEW t \in Seq(T)
  PROVE  ToSet(s \o t) = ToSet(s) \cup ToSet(t)
<1>1. /\ s \o t \in Seq(T) /\ Len(s) \in Nat /\ Len(t) \in Nat
      /\ Len(s \o t) = Len(s) + Len(t)
      /\ \A i \in 1..(Len(s) + Len(t)) :
           (s \o t)[i] = IF i <= Len(s) THEN s[i] ELSE t[i - Len(s)]
  BY ConcatProperties, LenProperties
<1>2. ASSUME NEW x \in ToSet(s \o t)
      PROVE  x \in ToSet(s) \cup ToSet(t)
  <2>1. PICK i \in 1..(Len(s) + Len(t)) : (s \o t)[i] = x
    BY <1>1, ToSetProperties
  <2>2. CASE i <= Len(s)
    BY <1>1, <2>1, <2>2, ToSetProperties
  <2>3. CASE ~(i <= Len(s))
    <3>1. i - Len(s) \in 1..Len(t) /\ t[i - Len(s)] = x
      BY <1>1, <2>1, <2>3
    <3> QED BY <3>1, ToSetProperties
  <2> QED BY <2>2, <2>3
<1>3. ASSUME NEW x \in ToSet(s)
      PROVE  x \in ToSet(s \o t)
  <2>1. PICK i \in 1..Len(s) : s[i] = x
    BY ToSetProperties
  <2>2. i \in 1..(Len(s) + Len(t)) /\ (s \o t)[i] = x
    BY <1>1, <2>1
  <2> QED BY <1>1, <2>2, ToSetProperties
<1>4. ASSUME NEW x \in ToSet(t)
      PROVE  x \in ToSet(s \o t)
  <2>1. PICK i \in 1..Len(t) : t[i] = x
    BY ToSetProperties
  <2>2. Len(s) + i \in 1..(Len(s) + Len(t)) /\ (s \o t)[Len(s) + i] = x
    BY <1>1, <2>1
  <2> QED BY <1>1, <2>2, ToSetProperties
<1> QED BY <1>2, <1>3, <1>4

(* What an appended sequence holds.                                         *)
LEMMA ToSetAppend ==
  ASSUME NEW T, NEW s \in Seq(T), NEW e \in T
  PROVE  ToSet(Append(s, e)) = ToSet(s) \cup {e}
<1>1. /\ Append(s, e) \in Seq(T) /\ Len(s) \in Nat
      /\ Len(Append(s, e)) = Len(s) + 1
      /\ \A i \in 1..Len(s) : Append(s, e)[i] = s[i]
      /\ Append(s, e)[Len(s) + 1] = e
  BY AppendProperties, LenProperties
<1>2. \A x : x \in ToSet(Append(s, e)) <=> \E i \in 1..(Len(s) + 1) : Append(s, e)[i] = x
  <2> DEFINE t == Append(s, e)
  <2>1. t \in Seq(T) /\ Len(t) = Len(s) + 1
    BY <1>1
  <2> HIDE DEF t
  <2>2. \A x : x \in ToSet(t) <=> \E i \in 1..(Len(s) + 1) : t[i] = x
    BY <2>1, ToSetProperties
  <2> QED BY <2>2 DEF t
<1>3. \A x : x \in ToSet(s) <=> \E i \in 1..Len(s) : s[i] = x
  BY ToSetProperties
<1>4. ASSUME NEW x \in ToSet(Append(s, e))
      PROVE  x \in ToSet(s) \cup {e}
  <2>1. PICK i \in 1..(Len(s) + 1) : Append(s, e)[i] = x
    BY <1>2
  <2>2. i = Len(s) + 1 \/ i \in 1..Len(s)
    BY <1>1
  <2> QED BY <1>1, <1>3, <2>1, <2>2
<1>5. ASSUME NEW x \in ToSet(s) \cup {e}
      PROVE  x \in ToSet(Append(s, e))
  <2>1. CASE x = e
    BY <1>1, <1>2, <2>1
  <2>2. CASE x \in ToSet(s)
    <3>1. PICK i \in 1..Len(s) : s[i] = x
      BY <1>3, <2>2
    <3> QED BY <1>1, <1>2, <3>1
  <2> QED BY <2>1, <2>2
<1> QED BY <1>4, <1>5

----------------------------------------------------------------------------
(* Among. *)

(* out is what the first n elements of s leave when only those in S stay;   *)
(* h says where in s each element of out comes from.                        *)
Picks(h, out, s, S, n) ==
  /\ h \in [1..Len(out) -> 1..n]
  /\ \A i \in 1..Len(out) : s[h[i]] \in S /\ out[i] = s[h[i]]
  /\ \A i, j \in 1..Len(out) : i < j => h[i] < h[j]
  /\ \A k \in 1..n : s[k] \in S => \E i \in 1..Len(out) : h[i] = k
  /\ \A m \in 1..n : (\A k \in 1..m : s[k] \in S) => m <= Len(out) /\ h[m] = m

(* The recursive function in Among is what its equation says. *)
LEMMA AmongRecursion ==
  ASSUME NEW T, NEW s \in Seq(T), NEW S
  PROVE  \E f : /\ f = [n \in 0..Len(s) |->
                          IF n = 0 THEN <<>>
                          ELSE IF s[n] \in S THEN Append(f[n - 1], s[n]) ELSE f[n - 1]]
                /\ Among(s, S) = f[Len(s)]
<1> DEFINE Step(n, before) == IF s[n] \in S THEN Append(before, s[n]) ELSE before
           IsFirst(f, m) == f = [n \in 0..m |-> IF n = 0 THEN <<>> ELSE Step(n, f[n - 1])]
           G == {m \in Nat : \E f : IsFirst(f, m)}
<1>1. 0 \in G
  <2>1. IsFirst([n \in 0..0 |-> <<>>], 0)
    OBVIOUS
  <2> QED BY <2>1
<1>2. ASSUME NEW m \in Nat, m \in G
      PROVE  m + 1 \in G
  <2>1. PICK f : IsFirst(f, m)
    BY <1>2
  <2> DEFINE g == [n \in 0..(m + 1) |-> IF n = m + 1 THEN Step(n, f[m]) ELSE f[n]]
  <2> HIDE DEF Step
  <2>2. \A n \in 0..(m + 1) : g[n] = IF n = 0 THEN <<>> ELSE Step(n, g[n - 1])
    <3> TAKE n \in 0..(m + 1)
    <3>1. CASE n = m + 1
      <4>1. n # 0 /\ n - 1 = m /\ g[m] = f[m] /\ g[n] = Step(n, f[m])
        BY <3>1
      <4> QED BY <4>1
    <3>2. CASE n = 0
      BY <2>1, <3>2
    <3>3. CASE n # 0 /\ n # m + 1
      <4>1. n \in 0..m /\ n - 1 \in 0..m /\ n - 1 # m + 1 /\ n - 1 \in 0..(m + 1)
        BY <3>3
      <4>2. g[n] = f[n] /\ g[n - 1] = f[n - 1]
        BY <3>3, <4>1
      <4>3. f[n] = Step(n, f[n - 1])
        BY <2>1, <3>3, <4>1
      <4> QED BY <3>3, <4>2, <4>3
    <3> QED BY <3>1, <3>2, <3>3
  <2>3. g = [n \in 0..(m + 1) |-> g[n]]
    OBVIOUS
  <2> HIDE DEF g
  <2>4. IsFirst(g, m + 1)
    BY <2>2, <2>3
  <2> QED BY <2>4
<1>3. Len(s) \in G
  <2>1. Len(s) \in Nat
    BY LenProperties
  <2> HIDE DEF G
  <2> QED BY <1>1, <1>2, <2>1, NatSetInduction
<1>4. \E f : IsFirst(f, Len(s))
  BY <1>3
<1> DEFINE f == CHOOSE f : IsFirst(f, Len(s))
<1>5. IsFirst(f, Len(s))
  BY <1>4
<1>6. Among(s, S) = f[Len(s)]
  BY DEF Among
<1> QED BY <1>5, <1>6

(* Among keeps exactly the elements in S, in their order, and leaves a      *)
(* prefix that is all in S where it is.                                     *)
LEMMA AmongPicks ==
  ASSUME NEW T, NEW s \in Seq(T), NEW S
  PROVE  Among(s, S) \in Seq(T) /\ \E h : Picks(h, Among(s, S), s, S, Len(s))
<1>1. PICK f : /\ f = [n \in 0..Len(s) |->
                         IF n = 0 THEN <<>>
                         ELSE IF s[n] \in S THEN Append(f[n - 1], s[n]) ELSE f[n - 1]]
               /\ Among(s, S) = f[Len(s)]
  BY AmongRecursion
<1>2. Len(s) \in Nat /\ \A n \in 1..Len(s) : s[n] \in T
  BY LenProperties, ElementOfSeq
<1> DEFINE G == {n \in Nat : n <= Len(s) => f[n] \in Seq(T) /\ \E h : Picks(h, f[n], s, S, n)}
<1>3. 0 \in G
  <2>1. f[0] = <<>>
    BY <1>1, <1>2
  <2>2. f[0] \in Seq(T) /\ Len(f[0]) = 0
    BY <2>1, EmptySeq
  <2>3. Picks([i \in 1..0 |-> 1], f[0], s, S, 0)
    BY <2>2 DEF Picks
  <2> QED BY <2>2, <2>3
<1>4. ASSUME NEW n \in Nat, n \in G
      PROVE  n + 1 \in G
  <2> SUFFICES ASSUME n + 1 <= Len(s)
               PROVE  f[n + 1] \in Seq(T) /\ \E h : Picks(h, f[n + 1], s, S, n + 1)
    OBVIOUS
  <2> DEFINE out == f[n]
             e   == s[n + 1]
             new == f[n + 1]
  <2>1. out \in Seq(T) /\ \E h : Picks(h, out, s, S, n)
    BY <1>2, <1>4
  <2>2. PICK h : Picks(h, out, s, S, n)
    BY <2>1
  <2>3. e \in T
    BY <1>2
  <2>4. new = IF e \in S THEN Append(out, e) ELSE out
    <3>1. n + 1 \in 0..Len(s) /\ n + 1 # 0 /\ (n + 1) - 1 = n
      BY <1>2
    <3> QED BY <1>1, <3>1
  <2> HIDE DEF out, new
  <2>5. Len(out) \in Nat
    BY <2>1, LenProperties
  <2>6. CASE e \in S
    <3>1. /\ new \in Seq(T) /\ Len(new) = Len(out) + 1
          /\ \A i \in 1..Len(out) : new[i] = out[i]
          /\ new[Len(out) + 1] = e
      BY <2>1, <2>3, <2>4, <2>6, AppendProperties
    <3> DEFINE g == [i \in 1..Len(new) |-> IF i = Len(new) THEN n + 1 ELSE h[i]]
    <3>2. /\ g \in [1..Len(new) -> 1..(n + 1)] /\ g[Len(new)] = n + 1
          /\ \A i \in 1..Len(out) : g[i] = h[i] /\ h[i] \in 1..n
      BY <2>2, <2>5, <3>1 DEF Picks
    <3> HIDE DEF g
    <3>3. \A i \in 1..Len(new) : i = Len(new) \/ i \in 1..Len(out)
      BY <2>5, <3>1
    <3>4. \A i \in 1..Len(new) : s[g[i]] \in S /\ new[i] = s[g[i]]
      BY <2>2, <2>6, <3>1, <3>2, <3>3 DEF Picks
    <3>5. \A i, j \in 1..Len(new) : i < j => g[i] < g[j]
      <4> TAKE i, j \in 1..Len(new)
      <4> HAVE i < j
      <4>1. i \in 1..Len(out)
        BY <2>5, <3>1
      <4>2. CASE j = Len(new)
        BY <3>2, <4>1, <4>2
      <4>3. CASE j \in 1..Len(out)
        BY <2>2, <3>2, <4>1, <4>3 DEF Picks
      <4> QED BY <3>3, <4>2, <4>3
    <3>6. \A k \in 1..(n + 1) : s[k] \in S => \E i \in 1..Len(new) : g[i] = k
      <4> TAKE k \in 1..(n + 1)
      <4> HAVE s[k] \in S
      <4>1. CASE k = n + 1
        <5>1. Len(new) \in 1..Len(new) /\ g[Len(new)] = k
          BY <2>5, <3>1, <3>2, <4>1
        <5> QED BY <5>1
      <4>2. CASE k # n + 1
        <5>1. k \in 1..n
          BY <4>2
        <5>2. PICK i \in 1..Len(out) : h[i] = k
          BY <2>2, <5>1 DEF Picks
        <5>3. i \in 1..Len(new) /\ g[i] = k
          BY <2>5, <3>1, <3>2, <5>2
        <5> QED BY <5>3
      <4> QED BY <4>1, <4>2
    <3>7. \A m \in 1..(n + 1) : (\A k \in 1..m : s[k] \in S) => m <= Len(new) /\ g[m] = m
      <4> TAKE m \in 1..(n + 1)
      <4> HAVE \A k \in 1..m : s[k] \in S
      <4>1. CASE m # n + 1
        <5>1. m \in 1..n
          BY <4>1
        <5>2. m <= Len(out) /\ h[m] = m
          BY <2>2, <5>1 DEF Picks
        <5> QED BY <2>5, <3>1, <3>2, <5>1, <5>2
      <4>2. CASE m = n + 1
        <5>1. n <= Len(out)
          <6>1. CASE n = 0
            BY <2>5, <6>1
          <6>2. CASE n # 0
            <7>1. n \in 1..n /\ \A k \in 1..n : s[k] \in S
              BY <4>2, <6>2
            <7> QED BY <2>2, <7>1 DEF Picks
          <6> QED BY <6>1, <6>2
        <5>2. \A i \in 1..Len(out) : i <= h[i]
          <6> DEFINE K == {i \in Nat : i \in 1..Len(out) => i <= h[i]}
          <6>1. 0 \in K
            OBVIOUS
          <6>2. ASSUME NEW i \in Nat, i \in K
                PROVE  i + 1 \in K
            <7>1. CASE i = 0 \/ i + 1 \notin 1..Len(out)
              BY <2>2, <3>2, <7>1
            <7>2. CASE i # 0 /\ i + 1 \in 1..Len(out)
              <8>1. i \in 1..Len(out) /\ i < i + 1
                BY <2>5, <7>2
              <8>2. h[i] < h[i + 1] /\ h[i] \in Nat /\ h[i + 1] \in Nat
                BY <2>2, <3>2, <7>2, <8>1 DEF Picks
              <8> QED BY <6>2, <8>1, <8>2
            <7> QED BY <7>1, <7>2
          <6> HIDE DEF K
          <6>3. \A i \in Nat : i \in K
            BY <6>1, <6>2, NatSetInduction
          <6> QED BY <2>5, <6>3 DEF K
        <5>3. Len(out) <= n
          <6>1. CASE Len(out) = 0
            BY <6>1
          <6>2. CASE Len(out) # 0
            <7>1. Len(out) \in 1..Len(out)
              BY <2>5, <6>2
            <7> QED BY <2>5, <3>2, <5>2, <7>1
          <6> QED BY <6>1, <6>2
        <5> QED BY <2>5, <3>1, <3>2, <4>2, <5>1, <5>3
      <4> QED BY <4>1, <4>2
    <3>8. Picks(g, new, s, S, n + 1)
      BY <3>2, <3>4, <3>5, <3>6, <3>7 DEF Picks
    <3> QED BY <3>1, <3>8 DEF new
  <2>7. CASE e \notin S
    <3>1. new = out
      BY <2>4, <2>7
    <3>2. h \in [1..Len(out) -> 1..(n + 1)]
      BY <2>2 DEF Picks
    <3>3. \A k \in 1..(n + 1) : s[k] \in S => k \in 1..n
      BY <2>7
    <3>4. \A m \in 1..(n + 1) : (\A k \in 1..m : s[k] \in S) => m \in 1..n
      BY <3>3
    <3>5. Picks(h, out, s, S, n + 1)
      BY <2>2, <3>2, <3>3, <3>4 DEF Picks
    <3> QED BY <2>1, <3>1, <3>5 DEF new
  <2> QED BY <2>6, <2>7
<1> HIDE DEF G
<1>5. Len(s) \in G
  BY <1>2, <1>3, <1>4, NatSetInduction
<1> QED BY <1>1, <1>2, <1>5 DEF G

(* What Among leaves, without the positions. *)
LEMMA AmongProperties ==
  ASSUME NEW T, NEW s \in Seq(T), NEW S
  PROVE  /\ Among(s, S) \in Seq(T)
         /\ ToSet(Among(s, S)) = ToSet(s) \cap S
         /\ IsInjective(s) => IsInjective(Among(s, S))
<1> DEFINE out == Among(s, S)
<1>1. out \in Seq(T) /\ \E h : Picks(h, out, s, S, Len(s))
  BY AmongPicks
<1> HIDE DEF out
<1>2. PICK h : Picks(h, out, s, S, Len(s))
  BY <1>1
<1>3. /\ \A x : x \in ToSet(out) <=> \E i \in 1..Len(out) : out[i] = x
      /\ \A x : x \in ToSet(s) <=> \E i \in 1..Len(s) : s[i] = x
      /\ DOMAIN out = 1..Len(out) /\ DOMAIN s = 1..Len(s)
      /\ Len(out) \in Nat /\ Len(s) \in Nat
  BY <1>1, ToSetProperties, LenProperties
<1>4. \A i \in 1..Len(out) : h[i] \in 1..Len(s) /\ s[h[i]] \in S /\ out[i] = s[h[i]]
  BY <1>2 DEF Picks
<1>5. \A k \in 1..Len(s) : s[k] \in S => \E i \in 1..Len(out) : h[i] = k
  BY <1>2 DEF Picks
<1>6. ToSet(out) = ToSet(s) \cap S
  BY <1>3, <1>4, <1>5
<1>7. IsInjective(s) => IsInjective(out)
  <2> HAVE IsInjective(s)
  <2> SUFFICES ASSUME NEW i \in 1..Len(out), NEW j \in 1..Len(out), out[i] = out[j], i # j
               PROVE  FALSE
    BY <1>3 DEF IsInjective
  <2>1. h[i] = h[j]
    BY <1>3, <1>4 DEF IsInjective
  <2>2. h[i] < h[j] \/ h[j] < h[i]
    BY <1>2, <1>3 DEF Picks
  <2> QED BY <1>4, <2>1, <2>2
<1> QED BY <1>1, <1>6, <1>7 DEF out

----------------------------------------------------------------------------
(* The last elements of a sequence. *)

(* LastN drops a prefix, and no more than it must.                          *)
LEMMA LastNProperties ==
  ASSUME NEW T, NEW s \in Seq(T), NEW n \in Nat
  PROVE  /\ LastN(s, n) \in Seq(T)
         /\ \E d \in 0..Len(s) :
              /\ Len(LastN(s, n)) = Len(s) - d
              /\ d > 0 => Len(LastN(s, n)) = n
              /\ \A i \in 1..(Len(s) - d) : LastN(s, n)[i] = s[i + d]
              /\ n <= Len(s) => d = Len(s) - n
<1>1. Len(s) \in Nat /\ \A i \in 1..Len(s) : s[i] \in T
  BY LenProperties, ElementOfSeq
<1>2. CASE Len(s) <= n
  BY <1>1, <1>2 DEF LastN
<1>3. CASE ~(Len(s) <= n)
  <2> DEFINE d == Len(s) - n
             t == SubSeq(s, d + 1, Len(s))
  <2>1. d \in 1..Len(s) /\ d + 1 \in Int /\ Len(s) - d = n
    BY <1>1, <1>3
  <2>2. LastN(s, n) = t
    BY <1>3 DEF LastN
  <2> HIDE DEF d
  <2>3. \A i \in (d + 1)..Len(s) : s[i] \in T
    BY <1>1, <2>1
  <2>4. /\ t \in Seq(T)
        /\ Len(t) = IF d + 1 <= Len(s) THEN Len(s) - (d + 1) + 1 ELSE 0
        /\ \A i \in 1..(Len(s) - (d + 1) + 1) : t[i] = s[(d + 1) + i - 1]
    BY <1>1, <2>1, <2>3, SubSeqProperties
  <2> HIDE DEF t
  <2>5. Len(t) = Len(s) - d
    BY <1>1, <2>1, <2>4
  <2>6. \A i \in 1..(Len(s) - d) : t[i] = s[i + d]
    <3> TAKE i \in 1..(Len(s) - d)
    <3>1. i \in 1..(Len(s) - (d + 1) + 1) /\ (d + 1) + i - 1 = i + d
      BY <1>1, <2>1
    <3> QED BY <2>4, <3>1
  <2>7. d = Len(s) - n
    BY DEF d
  <2>8. d \in 0..Len(s) /\ (d > 0 => Len(t) = n)
    BY <1>1, <2>1, <2>5
  <2> QED BY <2>2, <2>4, <2>5, <2>6, <2>7, <2>8
<1> QED BY <1>2, <1>3

----------------------------------------------------------------------------
(* What the engine keeps true of its lines: `owed` are the turns a cloud    *)
(* request or the queue still holds, n the newest turn there is.            *)

(* The predicted tail is a tail; the editable lines are in stream order; a  *)
(* line belongs to a turn there is; those of an owed turn are provisional;  *)
(* and below an editable line of an owed turn nothing is spoken, nor older. *)
ScreenOK(cs, owed, n) ==
  /\ cs \in Seq(Chunk)
  /\ \A i, j \in 1..Len(cs) :
       i < j /\ cs[i].st = "anticipated" => cs[j].st = "anticipated"
  /\ \A i, j \in 1..Len(cs) :
       i < j /\ cs[i].st = "current" /\ cs[j].st = "current"
         => cs[i].turn <= cs[j].turn
  /\ \A i \in 1..Len(cs) : cs[i].turn <= n
  /\ \A i \in 1..Len(cs) : cs[i].turn \in owed => cs[i].prov
  /\ \A i, j \in 1..Len(cs) :
       i < j /\ cs[i].st = "current" /\ cs[i].turn \in owed
         => /\ cs[j].st # "committed"
            /\ cs[j].st = "current" => cs[j].age <= cs[i].age

(* No spoken line, nor any line above one, is moved or changed from cs to   *)
(* ds.                                                                      *)
KeepsSpoken(cs, ds) ==
  \A j \in 1..Len(cs) : cs[j].st = "committed" =>
     /\ j <= Len(ds)
     /\ ds[j].st = "committed"
     /\ \A i \in 1..j : ds[i].line = cs[i].line /\ ds[i].turn = cs[i].turn

(* The types of the fields of a chunk.                                      *)
LEMMA ChunkFields ==
  ASSUME NEW c \in Chunk
  PROVE  /\ c.line \in Line /\ c.st \in ChunkState /\ c.turn \in Nat
         /\ c.prov \in BOOLEAN /\ c.age \in 0..Dwell /\ c.age \in Nat
         /\ \A s \in ChunkState, a \in 0..Dwell, p \in BOOLEAN :
              [line |-> c.line, st |-> s, turn |-> c.turn, prov |-> p, age |-> a] \in Chunk
BY ChunkStoreAssumption DEF Chunk

(* A screen is a sequence of chunks.                                        *)
LEMMA ScreenTypes ==
  ASSUME NEW cs \in Seq(Chunk)
  PROVE  /\ Len(cs) \in Nat /\ DOMAIN cs = 1..Len(cs)
         /\ \A i \in 1..Len(cs) :
              /\ cs[i] \in Chunk
              /\ cs[i].line \in Line /\ cs[i].st \in ChunkState /\ cs[i].turn \in Nat
              /\ cs[i].prov \in BOOLEAN /\ cs[i].age \in 0..Dwell /\ cs[i].age \in Nat
BY LenProperties, ElementOfSeq, ChunkFields

(* What the order of a screen says of one line and a line below it.         *)
LEMMA ScreenPair ==
  ASSUME NEW cs, NEW owed, NEW n, ScreenOK(cs, owed, n),
         NEW i \in 1..Len(cs), NEW j \in 1..Len(cs), i < j
  PROVE  /\ cs[i].st = "anticipated" => cs[j].st = "anticipated"
         /\ cs[i].st = "current" /\ cs[j].st = "current" => cs[i].turn <= cs[j].turn
         /\ cs[i].st = "current" /\ cs[i].turn \in owed
              => /\ cs[j].st # "committed"
                 /\ cs[j].st = "current" => cs[j].age <= cs[i].age
BY DEF ScreenOK

(* What two steps keep, their sequence keeps.                               *)
LEMMA KeepsSpokenTransitive ==
  ASSUME NEW cs \in Seq(Chunk), NEW ds \in Seq(Chunk), NEW es \in Seq(Chunk),
         KeepsSpoken(cs, ds), KeepsSpoken(ds, es)
  PROVE  KeepsSpoken(cs, es)
<1>1. Len(cs) \in Nat /\ Len(ds) \in Nat /\ Len(es) \in Nat
  BY LenProperties
<1> SUFFICES ASSUME NEW j \in 1..Len(cs), cs[j].st = "committed"
             PROVE  /\ j <= Len(es) /\ es[j].st = "committed"
                    /\ \A i \in 1..j : es[i].line = cs[i].line /\ es[i].turn = cs[i].turn
  BY DEF KeepsSpoken
<1>2. /\ j <= Len(ds) /\ ds[j].st = "committed"
      /\ \A i \in 1..j : ds[i].line = cs[i].line /\ ds[i].turn = cs[i].turn
  BY DEF KeepsSpoken
<1>3. j \in 1..Len(ds)
  BY <1>1, <1>2
<1> QED BY <1>2, <1>3 DEF KeepsSpoken

(* Fewer turns owed, or owed turns that have no line yet. *)
LEMMA ScreenOwes ==
  ASSUME NEW owed, NEW n \in Nat, NEW more, NEW m \in Nat, NEW cs,
         ScreenOK(cs, owed, n), n <= m, \A t \in more : t \in owed \/ t > n
  PROVE  ScreenOK(cs, more, m)
<1>1. cs \in Seq(Chunk)
  BY DEF ScreenOK
<1>2. \A i \in 1..Len(cs) : cs[i].turn \in Nat /\ cs[i].turn <= n
  BY <1>1, ScreenTypes DEF ScreenOK
<1>3. \A i \in 1..Len(cs) : cs[i].turn <= m /\ (cs[i].turn \in more => cs[i].turn \in owed)
  BY <1>2
<1> QED BY <1>3 DEF ScreenOK

(* Dropping lines anywhere keeps it. *)
LEMMA ScreenOfSome ==
  ASSUME NEW owed, NEW n \in Nat, NEW cs, ScreenOK(cs, owed, n),
         NEW ds \in Seq(Chunk), NEW h \in [1..Len(ds) -> 1..Len(cs)],
         \A i \in 1..Len(ds) : ds[i] = cs[h[i]],
         \A i, j \in 1..Len(ds) : i < j => h[i] < h[j]
  PROVE  ScreenOK(ds, owed, n)
<1>1. \A i \in 1..Len(ds) : h[i] \in 1..Len(cs) /\ ds[i] = cs[h[i]]
  OBVIOUS
<1>2. \A i, j \in 1..Len(ds) : i < j /\ ds[i].st = "anticipated" => ds[j].st = "anticipated"
  BY <1>1 DEF ScreenOK
<1>3. \A i, j \in 1..Len(ds) :
        i < j /\ ds[i].st = "current" /\ ds[j].st = "current" => ds[i].turn <= ds[j].turn
  BY <1>1 DEF ScreenOK
<1>4. \A i \in 1..Len(ds) : ds[i].turn <= n /\ (ds[i].turn \in owed => ds[i].prov)
  BY <1>1 DEF ScreenOK
<1>5. \A i, j \in 1..Len(ds) :
        i < j /\ ds[i].st = "current" /\ ds[i].turn \in owed
          => ds[j].st # "committed" /\ (ds[j].st = "current" => ds[j].age <= ds[i].age)
  BY <1>1 DEF ScreenOK
<1> QED BY <1>2, <1>3, <1>4, <1>5 DEF ScreenOK

(* Each line may be committed or grow older in place, if a line that is     *)
(* committed, or grows older, leaves no older line of an owed turn above.   *)
LEMMA ScreenInPlace ==
  ASSUME NEW owed, NEW n \in Nat, NEW cs, ScreenOK(cs, owed, n),
         NEW ds \in Seq(Chunk), Len(ds) = Len(cs),
         \A i \in 1..Len(cs) :
           /\ ds[i].line = cs[i].line /\ ds[i].turn = cs[i].turn /\ ds[i].prov = cs[i].prov
           /\ ds[i].st = "anticipated" <=> cs[i].st = "anticipated"
           /\ cs[i].st = "committed" => ds[i].st = "committed",
         \A i, j \in 1..Len(cs) :
           i < j /\ ds[i].st = "current" /\ cs[i].st = "current" /\ cs[j].st = "current"
                /\ cs[j].age <= cs[i].age
             => ds[j].st # "committed" /\ ds[j].age <= ds[i].age
  PROVE  ScreenOK(ds, owed, n) /\ KeepsSpoken(cs, ds)
<1>1. /\ \A i \in 1..Len(cs) : cs[i].st \in ChunkState /\ ds[i].st \in ChunkState
      /\ Len(cs) \in Nat
  BY ScreenTypes DEF ScreenOK
<1>2. \A i, j \in 1..Len(ds) : i < j /\ ds[i].st = "anticipated" => ds[j].st = "anticipated"
  BY DEF ScreenOK
<1>3. \A i \in 1..Len(ds) : ds[i].st = "current" => cs[i].st = "current"
  BY <1>1 DEF ChunkState
<1>4. \A i, j \in 1..Len(ds) :
        i < j /\ ds[i].st = "current" /\ ds[j].st = "current" => ds[i].turn <= ds[j].turn
  BY <1>3 DEF ScreenOK
<1>5. \A i \in 1..Len(ds) : ds[i].turn <= n /\ (ds[i].turn \in owed => ds[i].prov)
  BY DEF ScreenOK
<1>6. ASSUME NEW i \in 1..Len(ds), NEW j \in 1..Len(ds),
             i < j, ds[i].st = "current", ds[i].turn \in owed
      PROVE  ds[j].st # "committed" /\ (ds[j].st = "current" => ds[j].age <= ds[i].age)
  <2>1. cs[i].st = "current" /\ cs[i].turn \in owed
    BY <1>3, <1>6
  <2>2. cs[j].st # "committed" /\ (cs[j].st = "current" => cs[j].age <= cs[i].age)
    BY <1>6, <2>1 DEF ScreenOK
  <2>3. CASE cs[j].st = "current"
    BY <1>6, <2>1, <2>2, <2>3
  <2>4. CASE cs[j].st = "anticipated"
    BY <2>4
  <2> QED BY <1>1, <2>2, <2>3, <2>4 DEF ChunkState
<1>7. KeepsSpoken(cs, ds)
  BY <1>1 DEF KeepsSpoken
<1> QED BY <1>2, <1>4, <1>5, <1>6, <1>7 DEF ScreenOK

----------------------------------------------------------------------------
(* What each function of the store does to the screen. *)

(* Clearing the prediction keeps the spoken lines.                          *)
LEMMA ClearAnticipatedKeeps ==
  ASSUME NEW owed, NEW n \in Nat, NEW cs, ScreenOK(cs, owed, n)
  PROVE  /\ ScreenOK(ClearAnticipated(cs), owed, n)
         /\ \A i \in 1..Len(ClearAnticipated(cs)) :
              ClearAnticipated(cs)[i].st # "anticipated"
         /\ KeepsSpoken(cs, ClearAnticipated(cs))
<1> DEFINE S  == {c \in ToSet(cs) : c.st # "anticipated"}
           ds == Among(cs, S)
<1>1. ClearAnticipated(cs) = ds
  BY DEF ClearAnticipated
<1>2. cs \in Seq(Chunk)
  BY DEF ScreenOK
<1>3. ds \in Seq(Chunk) /\ \E h : Picks(h, ds, cs, S, Len(cs))
  BY <1>2, AmongPicks
<1>4. \A i \in 1..Len(cs) : cs[i] \in S <=> cs[i].st # "anticipated"
  BY <1>2, ToSetProperties
<1> HIDE DEF S, ds
<1>5. PICK h : Picks(h, ds, cs, S, Len(cs))
  BY <1>3
<1>6. /\ h \in [1..Len(ds) -> 1..Len(cs)]
      /\ \A i \in 1..Len(ds) : cs[h[i]] \in S /\ ds[i] = cs[h[i]]
      /\ \A i, j \in 1..Len(ds) : i < j => h[i] < h[j]
      /\ \A m \in 1..Len(cs) : (\A k \in 1..m : cs[k] \in S) => m <= Len(ds) /\ h[m] = m
  BY <1>5 DEF Picks
<1>7. ScreenOK(ds, owed, n)
  BY <1>3, <1>6, ScreenOfSome
<1>8. \A i \in 1..Len(ds) : ds[i].st # "anticipated"
  BY <1>4, <1>6
<1>9. KeepsSpoken(cs, ds)
  <2> SUFFICES ASSUME NEW j \in 1..Len(cs), cs[j].st = "committed"
               PROVE  /\ j <= Len(ds) /\ ds[j].st = "committed"
                      /\ \A i \in 1..j : ds[i].line = cs[i].line /\ ds[i].turn = cs[i].turn
    BY DEF KeepsSpoken
  <2>1. Len(cs) \in Nat /\ Len(ds) \in Nat
    BY <1>2, <1>3, LenProperties
  <2>2. \A k \in 1..j : k \in 1..Len(cs) /\ cs[k] \in S
    <3> TAKE k \in 1..j
    <3>1. k \in 1..Len(cs) /\ (k = j \/ k < j)
      BY <2>1
    <3>2. cs[k].st # "anticipated"
      BY <3>1 DEF ScreenOK
    <3> QED BY <1>4, <3>1, <3>2
  <2>3. \A m \in 1..j : m \in 1..Len(cs) /\ \A k \in 1..m : cs[k] \in S
    BY <2>1, <2>2
  <2>4. \A m \in 1..j : m <= Len(ds) /\ h[m] = m
    BY <1>6, <2>3
  <2>5. \A m \in 1..j : ds[m] = cs[m]
    BY <1>6, <2>1, <2>4
  <2>6. j \in 1..j
    BY <2>1
  <2> QED BY <2>4, <2>5, <2>6
<1> QED BY <1>1, <1>7, <1>8, <1>9

(* A function on 1..n is a sequence of length n.                            *)
LEMMA MapIsSeq ==
  ASSUME NEW cs \in Seq(Chunk), NEW f \in [1..Len(cs) -> Chunk]
  PROVE  f \in Seq(Chunk) /\ Len(f) = Len(cs)
<1>1. Len(cs) \in Nat
  BY LenProperties
<1>2. f \in Seq(Chunk)
  BY <1>1, SeqDef
<1>3. DOMAIN f = 1..Len(f) /\ Len(f) \in Nat
  BY <1>2, LenProperties
<1> QED BY <1>1, <1>2, <1>3

(* What committing does to one chunk.                                       *)
LEMMA CommitOneChunk ==
  ASSUME NEW c \in Chunk
  PROVE  /\ CommitOne(c) \in Chunk /\ CommitOne(c).st = "committed"
         /\ CommitOne(c).line = c.line /\ CommitOne(c).turn = c.turn
         /\ CommitOne(c).prov = c.prov
<1> DEFINE d == [c EXCEPT !.st = "committed"]
<1>1. d \in Chunk
  BY DEF Chunk, ChunkState
<1>2. CommitOne(c) = [d EXCEPT !.age = 0]
  BY DEF CommitOne, Chunk
<1>3. [d EXCEPT !.age = 0] \in Chunk
  <2> HIDE DEF d
  <2> QED BY <1>1, ChunkStoreAssumption DEF Chunk
<1>4. /\ CommitOne(c).st = "committed" /\ CommitOne(c).prov = c.prov
      /\ CommitOne(c).line = c.line /\ CommitOne(c).turn = c.turn
  BY DEF CommitOne, Chunk
<1> QED BY <1>2, <1>3, <1>4

(* Committing what is due keeps the spoken lines.                           *)
LEMMA CommitDueChunksKeeps ==
  ASSUME NEW owed, NEW n \in Nat, NEW cs, ScreenOK(cs, owed, n)
  PROVE  /\ ScreenOK(CommitDueChunks(cs), owed, n)
         /\ KeepsSpoken(cs, CommitDueChunks(cs))
<1> DEFINE ds == CommitDueChunks(cs)
<1>1. cs \in Seq(Chunk) /\ Len(cs) \in Nat /\ DOMAIN cs = 1..Len(cs)
  BY LenProperties DEF ScreenOK
<1>2. \A i \in 1..Len(cs) : cs[i] \in Chunk /\ cs[i].st \in ChunkState /\ cs[i].age \in 0..Dwell
  BY <1>1, ScreenTypes
<1>3. /\ \A i \in 1..Len(cs) :
           ds[i] = IF cs[i].st = "current" /\ cs[i].age = Dwell THEN CommitOne(cs[i]) ELSE cs[i]
      /\ ds \in [1..Len(cs) -> Chunk]
  BY <1>1, <1>2, CommitOneChunk DEF CommitDueChunks
<1> HIDE DEF ds
<1>4. ds \in Seq(Chunk) /\ Len(ds) = Len(cs)
  BY <1>1, <1>3, MapIsSeq
<1>5. \A i \in 1..Len(cs) :
        /\ ds[i].line = cs[i].line /\ ds[i].turn = cs[i].turn /\ ds[i].prov = cs[i].prov
        /\ ds[i].st = "anticipated" <=> cs[i].st = "anticipated"
        /\ cs[i].st = "committed" => ds[i].st = "committed"
  BY <1>2, <1>3, CommitOneChunk
<1>6. \A i \in 1..Len(cs) : ds[i].st = "current" => ds[i] = cs[i] /\ cs[i].age # Dwell
  BY <1>2, <1>3, CommitOneChunk
<1>7. \A i, j \in 1..Len(cs) :
           i < j /\ ds[i].st = "current" /\ cs[i].st = "current" /\ cs[j].st = "current"
                /\ cs[j].age <= cs[i].age
             => ds[j].st # "committed" /\ ds[j].age <= ds[i].age
  <2> TAKE i, j \in 1..Len(cs)
  <2> HAVE i < j /\ ds[i].st = "current" /\ cs[i].st = "current" /\ cs[j].st = "current"
                /\ cs[j].age <= cs[i].age
  <2>1. ds[i] = cs[i] /\ cs[j].age # Dwell
    BY <1>2, <1>6, ChunkStoreAssumption
  <2>2. ds[j] = cs[j]
    BY <1>3, <2>1
  <2> QED BY <2>1, <2>2
<1> QED BY <1>4, <1>5, <1>7, ScreenInPlace DEF ds

(* CommitAll turns current lines into committed ones, and changes nothing   *)
(* else.                                                                    *)
LEMMA CommitAllProperties ==
  ASSUME NEW cs \in Seq(Chunk)
  PROVE  /\ CommitAll(cs) \in Seq(Chunk) /\ Len(CommitAll(cs)) = Len(cs)
         /\ \A i \in 1..Len(cs) :
              /\ CommitAll(cs)[i].line = cs[i].line
              /\ CommitAll(cs)[i].turn = cs[i].turn
              /\ CommitAll(cs)[i].prov = cs[i].prov
              /\ CommitAll(cs)[i].st = IF cs[i].st = "current" THEN "committed" ELSE cs[i].st
<1> DEFINE ds == CommitAll(cs)
<1>1. Len(cs) \in Nat /\ DOMAIN cs = 1..Len(cs)
  BY LenProperties
<1>2. \A i \in 1..Len(cs) : cs[i] \in Chunk
  BY ScreenTypes
<1>3. /\ \A i \in 1..Len(cs) : ds[i] = IF cs[i].st = "current" THEN CommitOne(cs[i]) ELSE cs[i]
      /\ ds \in [1..Len(cs) -> Chunk]
  BY <1>1, <1>2, CommitOneChunk DEF CommitAll
<1> HIDE DEF ds
<1>4. ds \in Seq(Chunk) /\ Len(ds) = Len(cs)
  BY <1>3, MapIsSeq
<1>5. \A i \in 1..Len(cs) :
        /\ ds[i].line = cs[i].line /\ ds[i].turn = cs[i].turn /\ ds[i].prov = cs[i].prov
        /\ ds[i].st = IF cs[i].st = "current" THEN "committed" ELSE cs[i].st
  BY <1>2, <1>3, CommitOneChunk
<1> QED BY <1>4, <1>5 DEF ds

(* commitAll keeps the spoken lines.                                        *)
LEMMA CommitAllKeeps ==
  ASSUME NEW owed, NEW n \in Nat, NEW cs, ScreenOK(cs, owed, n)
  PROVE  /\ ScreenOK(CommitAll(cs), owed, n)
         /\ KeepsSpoken(cs, CommitAll(cs))
<1> DEFINE ds == CommitAll(cs)
<1>1. cs \in Seq(Chunk)
  BY DEF ScreenOK
<1>2. /\ ds \in Seq(Chunk) /\ Len(ds) = Len(cs)
      /\ \A i \in 1..Len(cs) :
           /\ ds[i].line = cs[i].line /\ ds[i].turn = cs[i].turn /\ ds[i].prov = cs[i].prov
           /\ ds[i].st = IF cs[i].st = "current" THEN "committed" ELSE cs[i].st
  BY <1>1, CommitAllProperties
<1> HIDE DEF ds
<1>3. \A i \in 1..Len(cs) : ds[i].st # "current"
  BY <1>2
<1> QED BY <1>2, <1>3, ScreenInPlace DEF ds

(* The view keeps the newest lines: spoken ones go off the top only. *)
LEMMA TrimChunksKeeps ==
  ASSUME NEW owed, NEW n \in Nat, NEW cs, ScreenOK(cs, owed, n)
  PROVE  /\ ScreenOK(TrimChunks(cs), owed, n)
         /\ \E d \in 0..Len(cs) :
              /\ Len(TrimChunks(cs)) = Len(cs) - d
              /\ d > 0 => Len(TrimChunks(cs)) = MaxChunksInView
              /\ \A i \in 1..(Len(cs) - d) : TrimChunks(cs)[i] = cs[i + d]
<1> DEFINE ds == TrimChunks(cs)
<1>1. cs \in Seq(Chunk) /\ Len(cs) \in Nat /\ MaxChunksInView \in Nat
  BY LenProperties, ChunkStoreAssumption DEF ScreenOK
<1>2. /\ ds \in Seq(Chunk)
      /\ \E d \in 0..Len(cs) :
           /\ Len(ds) = Len(cs) - d
           /\ d > 0 => Len(ds) = MaxChunksInView
           /\ \A i \in 1..(Len(cs) - d) : ds[i] = cs[i + d]
  BY <1>1, LastNProperties DEF TrimChunks
<1> HIDE DEF ds
<1>3. PICK d \in 0..Len(cs) : /\ Len(ds) = Len(cs) - d
                              /\ \A i \in 1..(Len(cs) - d) : ds[i] = cs[i + d]
  BY <1>2
<1> DEFINE h == [i \in 1..Len(ds) |-> i + d]
<1>4. /\ h \in [1..Len(ds) -> 1..Len(cs)]
      /\ \A i \in 1..Len(ds) : h[i] = i + d /\ ds[i] = cs[h[i]]
  BY <1>1, <1>3
<1> HIDE DEF h
<1>5. /\ \A i, j \in 1..Len(ds) : i < j => h[i] < h[j]
      /\ \A i \in 1..Len(ds) : ds[i] = cs[h[i]]
      /\ h \in [1..Len(ds) -> 1..Len(cs)]
      /\ ds \in Seq(Chunk)
  BY <1>1, <1>2, <1>4
<1>6. ScreenOK(ds, owed, n)
  BY <1>5, ScreenOfSome
<1> QED BY <1>2, <1>6 DEF ds

----------------------------------------------------------------------------
(* New English. *)

(* What is left of the drafts is a sequence of lines.                       *)
LEMMA NotDeliveredLines ==
  ASSUME NEW drafts \in Seq(Line), NEW cs
  PROVE  NotDelivered(drafts, cs) \in Seq(Line)
BY AmongPicks DEF NotDelivered

(* One chunk for each line. *)
LEMMA LinesIntoChunks ==
  ASSUME NEW lines \in Seq(Line), NEW new \in [DOMAIN lines -> Chunk]
  PROVE  new \in Seq(Chunk) /\ Len(new) = Len(lines) /\ DOMAIN lines = 1..Len(lines)
<1>1. Len(lines) \in Nat /\ DOMAIN lines = 1..Len(lines)
  BY LenProperties
<1>2. new \in Seq(Chunk)
  BY <1>1, SeqDef
<1>3. DOMAIN new = 1..Len(new) /\ Len(new) \in Nat
  BY <1>2, LenProperties
<1> QED BY <1>1, <1>2, <1>3

(* English goes ahead of the newer turns at the tail that can be edited.    *)
LEMMA InsertPositionProperties ==
  ASSUME NEW base \in Seq(Chunk), NEW turn \in Nat
  PROVE  /\ InsertPosition(base, turn) \in 1..(Len(base) + 1)
         /\ \A i \in InsertPosition(base, turn)..Len(base) :
              base[i].st = "current" /\ base[i].turn > turn
<1> DEFINE P == {p \in 1..(Len(base) + 1) :
                   \A i \in p..Len(base) : base[i].st = "current" /\ base[i].turn > turn}
<1>1. Len(base) \in Nat
  BY LenProperties
<1>2. Len(base) + 1 \in P
  BY <1>1
<1>3. P \in SUBSET Nat /\ P # {}
  BY <1>1, <1>2
<1>4. Min(P) \in P
  <2> HIDE DEF P
  <2> QED BY <1>3, MinProperties
<1>5. InsertPosition(base, turn) = Min(P)
  BY DEF InsertPosition
<1> QED BY <1>4, <1>5

(* Three lists, one after the other. *)
LEMMA ConcatOfThree ==
  ASSUME NEW T, NEW a \in Seq(T), NEW b \in Seq(T), NEW c \in Seq(T)
  PROVE  /\ a \o b \o c \in Seq(T)
         /\ Len(a) \in Nat /\ Len(b) \in Nat /\ Len(c) \in Nat
         /\ Len(a \o b \o c) = Len(a) + Len(b) + Len(c)
         /\ \A i \in 1..(Len(a) + Len(b) + Len(c)) :
              (a \o b \o c)[i] = IF i <= Len(a) THEN a[i]
                                 ELSE IF i <= Len(a) + Len(b) THEN b[i - Len(a)]
                                 ELSE c[i - (Len(a) + Len(b))]
<1> DEFINE ab == a \o b
<1>1. Len(a) \in Nat /\ Len(b) \in Nat /\ Len(c) \in Nat
  BY LenProperties
<1>2. /\ ab \in Seq(T) /\ Len(ab) = Len(a) + Len(b)
      /\ \A i \in 1..(Len(a) + Len(b)) : ab[i] = IF i <= Len(a) THEN a[i] ELSE b[i - Len(a)]
  BY ConcatProperties
<1> HIDE DEF ab
<1>3. /\ ab \o c \in Seq(T) /\ Len(ab \o c) = Len(ab) + Len(c)
      /\ \A i \in 1..(Len(ab) + Len(c)) :
           (ab \o c)[i] = IF i <= Len(ab) THEN ab[i] ELSE c[i - Len(ab)]
  <2>1. ab \in Seq(T)
    BY <1>2
  <2> QED BY <2>1, ConcatProperties
<1>4. /\ ab \o c \in Seq(T) /\ Len(ab \o c) = Len(a) + Len(b) + Len(c)
      /\ \A i \in 1..(Len(a) + Len(b) + Len(c)) :
           (ab \o c)[i] = IF i <= Len(a) THEN a[i]
                          ELSE IF i <= Len(a) + Len(b) THEN b[i - Len(a)]
                          ELSE c[i - (Len(a) + Len(b))]
  BY <1>1, <1>2, <1>3
<1> QED BY <1>1, <1>4 DEF ab

(* The lines after an insertion: the first m of base, committed; k new ones *)
(* of `turn`; the rest of base, which is editable and newer.                *)
Inserted(base, ds, turn, prov, m, k) ==
  /\ ds \in Seq(Chunk) /\ Len(ds) = Len(base) + k
  /\ \A i \in (m + 1)..Len(base) : base[i].st = "current" /\ base[i].turn > turn
  /\ \A i \in 1..m :
       /\ ds[i].line = base[i].line /\ ds[i].turn = base[i].turn
       /\ ds[i].prov = base[i].prov
       /\ ds[i].st = IF base[i].st = "current" THEN "committed" ELSE base[i].st
  /\ \A i \in (m + 1)..(m + k) :
       ds[i].st = "current" /\ ds[i].turn = turn /\ ds[i].prov = prov /\ ds[i].age = 0
  /\ \A i \in (m + k + 1)..(Len(base) + k) :
       i - k \in 1..Len(base) /\ ds[i] = base[i - k]

(* insertTurnChunks puts the fresh lines together, and moves nothing else.  *)
LEMMA InsertShape ==
  ASSUME NEW cs \in Seq(Chunk), ClearAnticipated(cs) \in Seq(Chunk),
         NEW ids, Max(ids) \in Nat, NEW drafts \in Seq(Line), NEW prov \in BOOLEAN
  PROVE  \E m \in 0..Len(ClearAnticipated(cs)), k \in Nat :
           Inserted(ClearAnticipated(cs), InsertTurnChunks(cs, drafts, ids, prov),
                    Max(ids), prov, m, k)
<1> DEFINE base   == ClearAnticipated(cs)
           p      == InsertPosition(base, Max(ids))
           top    == SubSeq(base, 1, p - 1)
           before == CommitAll(top)
           new    == NotDelivered(drafts, before)
           mid    == [i \in DOMAIN new |-> Fresh(new[i], Max(ids), prov)]
           after  == SubSeq(base, p, Len(base))
           ds     == InsertTurnChunks(cs, drafts, ids, prov)
<1>1. base \in Seq(Chunk) /\ Len(base) \in Nat /\ \A i \in 1..Len(base) : base[i] \in Chunk
  BY LenProperties, ElementOfSeq
<1>2. /\ p \in 1..(Len(base) + 1)
      /\ \A i \in p..Len(base) : base[i].st = "current" /\ base[i].turn > Max(ids)
  BY <1>1, InsertPositionProperties
<1>3. ds = before \o mid \o after
  BY DEF InsertTurnChunks
<1> HIDE DEF base, p, ds
<1>4. /\ top \in Seq(Chunk) /\ Len(top) = p - 1
      /\ \A i \in 1..(p - 1) : top[i] = base[i]
  <2>1. 1 \in Int /\ p - 1 \in Int /\ \A i \in 1..(p - 1) : base[i] \in Chunk
    BY <1>1, <1>2
  <2>2. /\ top \in Seq(Chunk)
        /\ Len(top) = IF 1 <= p - 1 THEN (p - 1) - 1 + 1 ELSE 0
        /\ \A i \in 1..((p - 1) - 1 + 1) : top[i] = base[1 + i - 1]
    BY <2>1, SubSeqProperties
  <2> QED BY <1>1, <1>2, <2>2
<1>5. /\ after \in Seq(Chunk) /\ Len(after) = Len(base) + 1 - p
      /\ \A i \in 1..(Len(base) + 1 - p) : after[i] = base[p + i - 1]
  <2>1. p \in Int /\ Len(base) \in Int /\ \A i \in p..Len(base) : base[i] \in Chunk
    BY <1>1, <1>2
  <2>2. /\ after \in Seq(Chunk)
        /\ Len(after) = IF p <= Len(base) THEN Len(base) - p + 1 ELSE 0
        /\ \A i \in 1..(Len(base) - p + 1) : after[i] = base[p + i - 1]
    BY <2>1, SubSeqProperties
  <2> QED BY <1>1, <1>2, <2>2
<1> HIDE DEF top, after
<1>6. /\ before \in Seq(Chunk) /\ Len(before) = p - 1
      /\ \A i \in 1..(p - 1) :
           /\ before[i].line = base[i].line /\ before[i].turn = base[i].turn
           /\ before[i].prov = base[i].prov
           /\ before[i].st = IF base[i].st = "current" THEN "committed" ELSE base[i].st
  BY <1>4, CommitAllProperties
<1>7. new \in Seq(Line)
  BY NotDeliveredLines
<1> HIDE DEF before, new
<1>8. /\ mid \in Seq(Chunk) /\ Len(mid) = Len(new)
      /\ \A i \in 1..Len(new) :
           mid[i] = [line |-> new[i], st |-> "current", turn |-> Max(ids), prov |-> prov,
                     age |-> 0]
  <2>1. \A i \in DOMAIN new : new[i] \in Line
    BY <1>7, ElementOfSeq, LenProperties
  <2>2. \A i \in DOMAIN new : Fresh(new[i], Max(ids), prov) \in Chunk
    BY <2>1, ChunkStoreAssumption DEF Fresh, Chunk, ChunkState
  <2>3. mid \in [DOMAIN new -> Chunk]
    BY <2>2
  <2>4. mid \in Seq(Chunk) /\ Len(mid) = Len(new) /\ DOMAIN new = 1..Len(new)
    <3> HIDE DEF mid
    <3> QED BY <1>7, <2>3, LinesIntoChunks
  <2> QED BY <2>4 DEF Fresh
<1> HIDE DEF mid
<1> DEFINE m == p - 1
           k == Len(new)
<1>9. m \in 0..Len(base) /\ k \in Nat /\ Len(before) = m /\ Len(mid) = k
      /\ Len(after) = Len(base) - m
  BY <1>1, <1>2, <1>5, <1>6, <1>7, <1>8, LenProperties
<1>10. \A i \in (m + 1)..Len(base) : base[i].st = "current" /\ base[i].turn > Max(ids)
  BY <1>1, <1>2
<1>11. \A i \in 1..m :
         /\ before[i].line = base[i].line /\ before[i].turn = base[i].turn
         /\ before[i].prov = base[i].prov
         /\ before[i].st = IF base[i].st = "current" THEN "committed" ELSE base[i].st
  BY <1>6
<1>12. \A i \in 1..k :
         mid[i].st = "current" /\ mid[i].turn = Max(ids) /\ mid[i].prov = prov /\ mid[i].age = 0
  <2> TAKE i \in 1..k
  <2>1. mid[i] = [line |-> new[i], st |-> "current", turn |-> Max(ids), prov |-> prov,
                  age |-> 0]
    BY <1>8
  <2> QED BY <2>1
<1>13. \A i \in 1..(Len(base) - m) : after[i] = base[m + i]
  <2> TAKE i \in 1..(Len(base) - m)
  <2>1. i \in 1..(Len(base) + 1 - p) /\ p + i - 1 = m + i
    BY <1>1, <1>2
  <2> QED BY <1>5, <2>1
<1> HIDE DEF m, k
<1>14. /\ ds \in Seq(Chunk) /\ Len(ds) = Len(before) + Len(mid) + Len(after)
       /\ \A i \in 1..(Len(before) + Len(mid) + Len(after)) :
            ds[i] = IF i <= Len(before) THEN before[i]
                    ELSE IF i <= Len(before) + Len(mid) THEN mid[i - Len(before)]
                    ELSE after[i - (Len(before) + Len(mid))]
  <2>1. before \in Seq(Chunk) /\ mid \in Seq(Chunk) /\ after \in Seq(Chunk)
    BY <1>5, <1>6, <1>8
  <2> QED BY <1>3, <2>1, ConcatOfThree
<1>15. Len(ds) = Len(base) + k
  BY <1>1, <1>9, <1>14
<1>16. \A i \in 1..(Len(base) + k) :
         ds[i] = IF i <= m THEN before[i]
                 ELSE IF i <= m + k THEN mid[i - m]
                 ELSE after[i - (m + k)]
  BY <1>1, <1>9, <1>14
<1>17. \A i \in 1..m : ds[i] = before[i]
  <2> TAKE i \in 1..m
  <2>1. i \in 1..(Len(base) + k) /\ i <= m
    BY <1>1, <1>9
  <2> QED BY <1>16, <2>1
<1>18. \A i \in (m + 1)..(m + k) :
         ds[i].st = "current" /\ ds[i].turn = Max(ids) /\ ds[i].prov = prov /\ ds[i].age = 0
  <2> TAKE i \in (m + 1)..(m + k)
  <2>1. i - m \in 1..k /\ i \in 1..(Len(base) + k) /\ ~(i <= m) /\ i <= m + k
    BY <1>1, <1>9
  <2>2. ds[i] = mid[i - m]
    BY <1>16, <2>1
  <2> QED BY <1>12, <2>1, <2>2
<1>19. \A i \in (m + k + 1)..(Len(base) + k) : i - k \in 1..Len(base) /\ ds[i] = base[i - k]
  <2> TAKE i \in (m + k + 1)..(Len(base) + k)
  <2>1. /\ i - (m + k) \in 1..(Len(base) - m) /\ i \in 1..(Len(base) + k)
        /\ ~(i <= m) /\ ~(i <= m + k)
        /\ m + (i - (m + k)) = i - k /\ i - k \in 1..Len(base)
    BY <1>1, <1>9
  <2>2. ds[i] = after[i - (m + k)]
    BY <1>16, <2>1
  <2> QED BY <1>13, <2>1, <2>2
<1>20. \A i \in 1..m :
         /\ ds[i].line = base[i].line /\ ds[i].turn = base[i].turn
         /\ ds[i].prov = base[i].prov
         /\ ds[i].st = IF base[i].st = "current" THEN "committed" ELSE base[i].st
  BY <1>11, <1>17
<1>21. Inserted(base, ds, Max(ids), prov, m, k)
  BY <1>10, <1>14, <1>15, <1>18, <1>19, <1>20 DEF Inserted
<1>22. \E a \in 0..Len(base), b \in Nat : Inserted(base, ds, Max(ids), prov, a, b)
  BY <1>9, <1>21
<1> QED BY <1>22 DEF base, ds

(* English for a turn that no lane owes any more, or for the newest turn of *)
(* all, leaves the screen in order and every spoken line in place.          *)
LEMMA InsertTurnChunksKeeps ==
  ASSUME NEW owed, NEW n \in Nat, NEW cs, ScreenOK(cs, owed, n),
         NEW ids, Max(ids) \in 1..n, NEW drafts \in Seq(Line), NEW prov \in BOOLEAN,
         prov \/ Max(ids) \notin owed, Max(ids) \in owed => Max(ids) = n
  PROVE  /\ ScreenOK(InsertTurnChunks(cs, drafts, ids, prov), owed, n)
         /\ KeepsSpoken(cs, InsertTurnChunks(cs, drafts, ids, prov))
<1> DEFINE base == ClearAnticipated(cs)
           ds   == InsertTurnChunks(cs, drafts, ids, prov)
           turn == Max(ids)
<1>1. cs \in Seq(Chunk)
  BY DEF ScreenOK
<1>2. /\ ScreenOK(base, owed, n) /\ KeepsSpoken(cs, base)
      /\ \A i \in 1..Len(base) : base[i].st # "anticipated"
  BY ClearAnticipatedKeeps
<1>3. base \in Seq(Chunk)
  BY <1>2 DEF ScreenOK
<1>4. turn \in Nat
  OBVIOUS
<1>a. PICK m \in 0..Len(base), k \in Nat : Inserted(base, ds, turn, prov, m, k)
  BY <1>1, <1>3, <1>4, InsertShape
<1> HIDE DEF base, ds, turn
<1>5. /\ ds \in Seq(Chunk) /\ Len(ds) = Len(base) + k
      /\ \A i \in (m + 1)..Len(base) : base[i].st = "current" /\ base[i].turn > turn
      /\ \A i \in 1..m :
           /\ ds[i].line = base[i].line /\ ds[i].turn = base[i].turn
           /\ ds[i].prov = base[i].prov
           /\ ds[i].st = IF base[i].st = "current" THEN "committed" ELSE base[i].st
      /\ \A i \in (m + 1)..(m + k) :
           ds[i].st = "current" /\ ds[i].turn = turn /\ ds[i].prov = prov /\ ds[i].age = 0
      /\ \A i \in (m + k + 1)..(Len(base) + k) :
           i - k \in 1..Len(base) /\ ds[i] = base[i - k]
  BY <1>a DEF Inserted
<1>6. /\ Len(base) \in Nat
      /\ \A i \in 1..Len(base) :
           /\ base[i].st \in ChunkState /\ base[i].turn \in Nat /\ base[i].turn <= n
           /\ base[i].turn \in owed => base[i].prov
  BY <1>2, <1>3, ScreenTypes DEF ScreenOK
<1>7. \A i \in 1..Len(ds) :
        \/ i \in 1..m /\ i \in 1..Len(base)
        \/ i \in (m + 1)..(m + k)
        \/ i \in (m + k + 1)..(Len(base) + k)
  BY <1>5, <1>6
<1>8. \A i \in 1..m : ds[i].st = "committed"
  <2> TAKE i \in 1..m
  <2>1. i \in 1..Len(base)
    BY <1>6
  <2>2. base[i].st \in ChunkState /\ base[i].st # "anticipated"
    BY <1>2, <1>6, <2>1
  <2>3. ds[i].st = IF base[i].st = "current" THEN "committed" ELSE base[i].st
    BY <1>5
  <2> QED BY <2>2, <2>3 DEF ChunkState
<1>9. \A i \in (m + k + 1)..(Len(base) + k) :
        /\ i - k \in (m + 1)..Len(base) /\ i - k \in 1..Len(base) /\ ds[i] = base[i - k]
        /\ ds[i].st = "current" /\ ds[i].turn > turn
  <2> TAKE i \in (m + k + 1)..(Len(base) + k)
  <2>1. i - k \in (m + 1)..Len(base) /\ i - k \in 1..Len(base) /\ ds[i] = base[i - k]
    BY <1>5, <1>6
  <2> QED BY <1>5, <2>1
<1>10. \A i \in (m + 1)..(m + k) :
         ds[i].st = "current" /\ ds[i].turn = turn /\ ds[i].prov = prov /\ ds[i].age = 0
  BY <1>5
<1>11. \A i \in 1..Len(ds) : ds[i].st # "anticipated"
  BY <1>7, <1>8, <1>9, <1>10
<1>12. \A i \in 1..Len(ds) : ds[i].turn <= n
  <2> TAKE i \in 1..Len(ds)
  <2>1. CASE i \in 1..m /\ i \in 1..Len(base)
    BY <1>5, <1>6, <2>1
  <2>2. CASE i \in (m + 1)..(m + k)
    BY <1>10, <2>2 DEF turn
  <2>3. CASE i \in (m + k + 1)..(Len(base) + k)
    BY <1>6, <1>9, <2>3
  <2> QED BY <1>7, <2>1, <2>2, <2>3
<1>13. \A i \in 1..Len(ds) : ds[i].turn \in owed => ds[i].prov
  <2> TAKE i \in 1..Len(ds)
  <2>1. CASE i \in 1..m /\ i \in 1..Len(base)
    BY <1>5, <1>6, <2>1
  <2>2. CASE i \in (m + 1)..(m + k)
    BY <1>10, <2>2 DEF turn
  <2>3. CASE i \in (m + k + 1)..(Len(base) + k)
    BY <1>6, <1>9, <2>3
  <2> QED BY <1>7, <2>1, <2>2, <2>3
<1>14. ASSUME NEW i \in 1..Len(ds), NEW j \in 1..Len(ds), i < j, ds[i].st = "current"
       PROVE  \/ i \in (m + 1)..(m + k) /\ j \in (m + 1)..(m + k)
              \/ i \in (m + 1)..(m + k) /\ j \in (m + k + 1)..(Len(base) + k)
              \/ i \in (m + k + 1)..(Len(base) + k) /\ j \in (m + k + 1)..(Len(base) + k)
  <2>1. i \notin 1..m
    BY <1>8, <1>14
  <2>2. i \in (m + 1)..(m + k) \/ i \in (m + k + 1)..(Len(base) + k)
    BY <1>7, <2>1
  <2> QED BY <1>5, <1>6, <1>7, <1>14, <2>2
<1>15. ASSUME NEW i \in 1..Len(ds), NEW j \in 1..Len(ds),
              i < j, ds[i].st = "current", ds[j].st = "current"
       PROVE  ds[i].turn <= ds[j].turn
  <2>1. CASE i \in (m + 1)..(m + k) /\ j \in (m + 1)..(m + k)
    BY <1>4, <1>10, <2>1 DEF turn
  <2>2. CASE i \in (m + 1)..(m + k) /\ j \in (m + k + 1)..(Len(base) + k)
    <3>1. ds[i].turn = turn /\ ds[j].turn > turn /\ ds[j].turn \in Nat
      BY <1>6, <1>9, <1>10, <2>2
    <3> QED BY <1>4, <3>1 DEF turn
  <2>3. CASE i \in (m + k + 1)..(Len(base) + k) /\ j \in (m + k + 1)..(Len(base) + k)
    <3>1. i - k \in 1..Len(base) /\ j - k \in 1..Len(base) /\ i - k < j - k
          /\ ds[i] = base[i - k] /\ ds[j] = base[j - k]
      <4>1. /\ i - k \in 1..Len(base) /\ ds[i] = base[i - k]
            /\ j - k \in 1..Len(base) /\ ds[j] = base[j - k]
        BY <1>9, <2>3
      <4>2. i \in Int /\ j \in Int /\ k \in Int /\ i < j
        BY <1>15, k \in Nat
      <4>3. i - k < j - k
        BY <4>2
      <4> QED BY <4>1, <4>3
    <3> QED BY <1>2, <1>15, <3>1, ScreenPair
  <2> QED BY <1>14, <1>15, <2>1, <2>2, <2>3
<1>16. ASSUME NEW i \in 1..Len(ds), NEW j \in 1..Len(ds),
              i < j, ds[i].st = "current", ds[i].turn \in owed
       PROVE  ds[j].st # "committed" /\ (ds[j].st = "current" => ds[j].age <= ds[i].age)
  <2>1. CASE i \in (m + 1)..(m + k) /\ j \in (m + 1)..(m + k)
    BY <1>10, <2>1
  <2>2. CASE i \in (m + 1)..(m + k) /\ j \in (m + k + 1)..(Len(base) + k)
    <3>1. ds[i].turn = turn /\ ds[j].turn > turn /\ ds[j].turn \in Nat
      BY <1>6, <1>9, <1>10, <2>2
    <3>2. turn = n /\ ds[j].turn <= n
      BY <1>12, <1>16, <3>1 DEF turn
    <3> QED BY <3>1, <3>2
  <2>3. CASE i \in (m + k + 1)..(Len(base) + k) /\ j \in (m + k + 1)..(Len(base) + k)
    <3>1. i - k \in 1..Len(base) /\ j - k \in 1..Len(base) /\ i - k < j - k
          /\ ds[i] = base[i - k] /\ ds[j] = base[j - k]
      <4>1. /\ i - k \in 1..Len(base) /\ ds[i] = base[i - k]
            /\ j - k \in 1..Len(base) /\ ds[j] = base[j - k]
        BY <1>9, <2>3
      <4>2. i \in Int /\ j \in Int /\ k \in Int /\ i < j
        BY <1>16, k \in Nat
      <4>3. i - k < j - k
        BY <4>2
      <4> QED BY <4>1, <4>3
    <3>2. base[i - k].st = "current" /\ base[i - k].turn \in owed
      BY <1>16, <3>1
    <3>3. /\ base[j - k].st # "committed"
          /\ base[j - k].st = "current" => base[j - k].age <= base[i - k].age
      BY <1>2, <3>1, <3>2, ScreenPair
    <3> QED BY <3>1, <3>3
  <2> QED BY <1>14, <1>16, <2>1, <2>2, <2>3
<1>17. ScreenOK(ds, owed, n)
  BY <1>5, <1>11, <1>12, <1>13, <1>15, <1>16 DEF ScreenOK
<1>18. KeepsSpoken(base, ds)
  <2> SUFFICES ASSUME NEW j \in 1..Len(base), base[j].st = "committed"
               PROVE  /\ j <= Len(ds) /\ ds[j].st = "committed"
                      /\ \A i \in 1..j : ds[i].line = base[i].line /\ ds[i].turn = base[i].turn
    BY DEF KeepsSpoken
  <2>1. j \in 1..m
    <3>1. j \notin (m + 1)..Len(base)
      BY <1>5
    <3> QED BY <1>6, <3>1
  <2>2. j <= Len(ds) /\ \A i \in 1..j : i \in 1..m
    BY <1>5, <1>6, <2>1
  <2> QED BY <1>5, <1>8, <2>1, <2>2
<1>19. KeepsSpoken(cs, ds)
  BY <1>1, <1>2, <1>3, <1>5, <1>18, KeepsSpokenTransitive
<1> QED BY <1>17, <1>19 DEF ds

(* A prediction only ever replaces the predicted tail. *)
LEMMA SetAnticipatedChunksKeeps ==
  ASSUME NEW owed, 0 \notin owed, NEW n \in Nat, NEW cs, ScreenOK(cs, owed, n),
         NEW drafts \in Seq(Line)
  PROVE  /\ ScreenOK(SetAnticipatedChunks(cs, drafts), owed, n)
         /\ KeepsSpoken(cs, SetAnticipatedChunks(cs, drafts))
<1> DEFINE base == ClearAnticipated(cs)
           new  == NotDelivered(drafts, base)
           tail == [i \in DOMAIN new |->
                      [line |-> new[i], st |-> "anticipated", turn |-> 0,
                       prov |-> FALSE, age |-> 0]]
           ds   == base \o tail
<1>1. SetAnticipatedChunks(cs, drafts) = ds
  BY DEF SetAnticipatedChunks
<1>2. /\ ScreenOK(base, owed, n) /\ KeepsSpoken(cs, base)
      /\ \A i \in 1..Len(base) : base[i].st # "anticipated"
  BY ClearAnticipatedKeeps
<1>3. new \in Seq(Line)
  BY NotDeliveredLines
<1>4. cs \in Seq(Chunk) /\ base \in Seq(Chunk)
  BY <1>2 DEF ScreenOK
<1> HIDE DEF base, new
<1>5. /\ tail \in Seq(Chunk) /\ Len(tail) = Len(new)
      /\ \A i \in 1..Len(new) : tail[i].st = "anticipated" /\ tail[i].turn = 0
  <2>1. \A i \in DOMAIN new : new[i] \in Line
    BY <1>3, ElementOfSeq, LenProperties
  <2>2. tail \in [DOMAIN new -> Chunk]
    BY <2>1, ChunkStoreAssumption DEF Chunk, ChunkState
  <2>3. tail \in Seq(Chunk) /\ Len(tail) = Len(new) /\ DOMAIN new = 1..Len(new)
    <3> HIDE DEF tail
    <3> QED BY <1>3, <2>2, LinesIntoChunks
  <2> QED BY <2>3
<1>6. \A i \in 1..Len(tail) : tail[i].st = "anticipated" /\ tail[i].turn = 0
  BY <1>5
<1> HIDE DEF tail
<1>7. /\ ds \in Seq(Chunk) /\ Len(ds) = Len(base) + Len(tail)
      /\ Len(base) \in Nat /\ Len(tail) \in Nat
      /\ \A i \in 1..(Len(base) + Len(tail)) :
           ds[i] = IF i <= Len(base) THEN base[i] ELSE tail[i - Len(base)]
  BY <1>4, <1>5, ConcatProperties, LenProperties
<1> HIDE DEF ds
<1>8. \A i \in 1..Len(ds) :
        \/ i \in 1..Len(base) /\ ds[i] = base[i]
        \/ i > Len(base) /\ ds[i].st = "anticipated" /\ ds[i].turn = 0
  <2> TAKE i \in 1..Len(ds)
  <2>1. CASE i <= Len(base)
    BY <1>7, <2>1
  <2>2. CASE ~(i <= Len(base))
    <3>1. i - Len(base) \in 1..Len(tail) /\ ds[i] = tail[i - Len(base)]
      BY <1>7, <2>2
    <3> QED BY <1>6, <1>7, <2>2, <3>1
  <2> QED BY <2>1, <2>2
<1>9. \A i, j \in 1..Len(ds) :
        i < j /\ ds[i].st = "anticipated" => ds[j].st = "anticipated"
  <2> TAKE i, j \in 1..Len(ds)
  <2> HAVE i < j /\ ds[i].st = "anticipated"
  <2>1. i > Len(base)
    BY <1>2, <1>8
  <2>2. j > Len(base)
    BY <1>7, <2>1
  <2> QED BY <1>7, <1>8, <2>2
<1>10. \A i \in 1..Len(ds) : ds[i].st = "current" => i \in 1..Len(base) /\ ds[i] = base[i]
  BY <1>8
<1>11. \A i, j \in 1..Len(ds) :
         i < j /\ ds[i].st = "current" /\ ds[j].st = "current" => ds[i].turn <= ds[j].turn
  BY <1>2, <1>10 DEF ScreenOK
<1>12. \A i \in 1..Len(ds) : ds[i].turn <= n /\ (ds[i].turn \in owed => ds[i].prov)
  BY <1>2, <1>8 DEF ScreenOK
<1>13. \A i, j \in 1..Len(ds) :
         i < j /\ ds[i].st = "current" /\ ds[i].turn \in owed
          => ds[j].st # "committed" /\ (ds[j].st = "current" => ds[j].age <= ds[i].age)
  <2> TAKE i, j \in 1..Len(ds)
  <2> HAVE i < j /\ ds[i].st = "current" /\ ds[i].turn \in owed
  <2>1. i \in 1..Len(base) /\ ds[i] = base[i]
    BY <1>10
  <2>2. CASE j \in 1..Len(base) /\ ds[j] = base[j]
    BY <1>2, <2>1, <2>2 DEF ScreenOK
  <2>3. CASE ds[j].st = "anticipated"
    BY <2>3
  <2> QED BY <1>8, <2>2, <2>3
<1>14. ScreenOK(ds, owed, n)
  BY <1>7, <1>9, <1>11, <1>12, <1>13 DEF ScreenOK
<1>15. KeepsSpoken(base, ds)
  <2> SUFFICES ASSUME NEW j \in 1..Len(base), base[j].st = "committed"
               PROVE  /\ j <= Len(ds) /\ ds[j].st = "committed"
                      /\ \A i \in 1..j : ds[i].line = base[i].line /\ ds[i].turn = base[i].turn
    BY DEF KeepsSpoken
  <2>1. \A i \in 1..j : i \in 1..(Len(base) + Len(tail)) /\ i <= Len(base)
    BY <1>7
  <2>2. \A i \in 1..j : ds[i] = base[i]
    BY <1>7, <2>1
  <2>3. j \in 1..j /\ j <= Len(ds)
    BY <1>7
  <2> QED BY <2>2, <2>3
<1>16. KeepsSpoken(cs, ds)
  BY <1>2, <1>4, <1>7, <1>15, KeepsSpokenTransitive
<1> QED BY <1>1, <1>14, <1>16

(* A confirmed line only loses its provisional flag. *)
LEMMA SettleKeeps ==
  ASSUME NEW owed, NEW n \in Nat, NEW cs, ScreenOK(cs, owed, n), NEW ids,
         NEW ds, ds = [i \in DOMAIN cs |->
                         IF IsProvisionalOf(cs[i], ids) THEN [cs[i] EXCEPT !.prov = FALSE]
                         ELSE cs[i]]
  PROVE  ScreenOK(ds, owed \ ids, n) /\ KeepsSpoken(cs, ds)
<1>1. cs \in Seq(Chunk) /\ DOMAIN cs = 1..Len(cs) /\ Len(cs) \in Nat
      /\ \A i \in 1..Len(cs) : cs[i] \in Chunk
  BY LenProperties, ElementOfSeq DEF ScreenOK
<1>2. \A c \in Chunk :
        /\ [c EXCEPT !.prov = FALSE] \in Chunk
        /\ [c EXCEPT !.prov = FALSE].line = c.line /\ [c EXCEPT !.prov = FALSE].st = c.st
        /\ [c EXCEPT !.prov = FALSE].turn = c.turn /\ [c EXCEPT !.prov = FALSE].age = c.age
  BY DEF Chunk
<1>3. /\ ds \in [1..Len(cs) -> Chunk]
      /\ \A i \in 1..Len(cs) :
           /\ ds[i].line = cs[i].line /\ ds[i].st = cs[i].st
           /\ ds[i].turn = cs[i].turn /\ ds[i].age = cs[i].age
           /\ cs[i].turn \notin ids => ds[i].prov = cs[i].prov
  BY <1>1, <1>2 DEF IsProvisionalOf
<1>4. ds \in Seq(Chunk) /\ Len(ds) = Len(cs)
  BY <1>1, <1>3, MapIsSeq
<1>5. \A i \in 1..Len(ds) : ds[i].turn <= n /\ (ds[i].turn \in owed \ ids => ds[i].prov)
  <2> TAKE i \in 1..Len(ds)
  <2>1. /\ i \in 1..Len(cs) /\ ds[i].turn = cs[i].turn
        /\ cs[i].turn \notin ids => ds[i].prov = cs[i].prov
    BY <1>3, <1>4
  <2>2. cs[i].turn <= n /\ (cs[i].turn \in owed => cs[i].prov)
    BY <2>1 DEF ScreenOK
  <2> QED BY <2>1, <2>2
<1>6. \A i, j \in 1..Len(ds) :
        i < j /\ ds[i].st = "anticipated" => ds[j].st = "anticipated"
  BY <1>3, <1>4 DEF ScreenOK
<1>7. \A i, j \in 1..Len(ds) :
        i < j /\ ds[i].st = "current" /\ ds[j].st = "current" => ds[i].turn <= ds[j].turn
  BY <1>3, <1>4 DEF ScreenOK
<1>8. \A i, j \in 1..Len(ds) :
        i < j /\ ds[i].st = "current" /\ ds[i].turn \in owed \ ids
          => ds[j].st # "committed" /\ (ds[j].st = "current" => ds[j].age <= ds[i].age)
  BY <1>3, <1>4 DEF ScreenOK
<1>9. ScreenOK(ds, owed \ ids, n)
  BY <1>4, <1>5, <1>6, <1>7, <1>8 DEF ScreenOK
<1>10. KeepsSpoken(cs, ds)
  BY <1>1, <1>3, <1>4 DEF KeepsSpoken
<1> QED BY <1>9, <1>10

(* What a legal refinement works on: the editable provisional lines of a    *)
(* unit, the first of them and the earliest of their clocks.                *)
Targeted(cs, ids, targets, first, age) ==
  /\ targets \subseteq 1..Len(cs) /\ first \in targets
  /\ \A i \in targets : first <= i /\ cs[i].st = "current" /\ cs[i].turn \in ids
  /\ \A i \in 1..Len(cs) : i \notin targets => cs[i].turn \notin ids
  /\ \E i \in targets : age = cs[i].age
  /\ age \in 0..Dwell

(* The lines a legal refinement replaces are editable and of its unit, and  *)
(* the age it gives the new ones is one of theirs.                          *)
LEMMA RefineTargets ==
  ASSUME NEW owed, NEW n \in Nat, NEW cs, ScreenOK(cs, owed, n),
         NEW ids \in SUBSET owed, RefinementLegality(cs, ids) = "refine",
         NEW ages, \A x : x \in ages <=> \E i \in ProvisionalIndices(cs, ids) : x = cs[i].age
  PROVE  Targeted(cs, ids, ProvisionalIndices(cs, ids), Min(ProvisionalIndices(cs, ids)),
                  Max(ages))
<1> DEFINE targets == ProvisionalIndices(cs, ids)
           first   == Min(targets)
<1>1. /\ cs \in Seq(Chunk) /\ DOMAIN cs = 1..Len(cs) /\ Len(cs) \in Nat
  BY LenProperties DEF ScreenOK
<1>2. \A i \in 1..Len(cs) : cs[i].age \in 0..Dwell
  BY <1>1, ScreenTypes
<1>3. targets # {} /\ \A i \in targets : cs[i].st = "current"
  BY DEF RefinementLegality
<1>a. \A x : x \in ages <=> \E i \in targets : x = cs[i].age
  OBVIOUS
<1>4. /\ targets \subseteq 1..Len(cs)
      /\ \A i \in targets : cs[i].turn \in ids
      /\ \A i \in 1..Len(cs) : i \notin targets => cs[i].turn \notin ids
  BY <1>1 DEF ProvisionalIndices, IsProvisionalOf, ScreenOK
<1> HIDE DEF targets
<1>5. first \in targets /\ \A i \in targets : first <= i
  <2>1. targets \in SUBSET Nat
    BY <1>1, <1>4
  <2> QED BY <1>3, <2>1, MinProperties
<1>6. ages # {} /\ ages \in SUBSET (0..Dwell) /\ Dwell \in Nat
  <2>1. PICK i \in targets : TRUE
    BY <1>3
  <2>2. cs[i].age \in ages
    BY <1>a
  <2>3. \A x \in ages : x \in 0..Dwell
    BY <1>2, <1>4, <1>a
  <2> QED BY <2>2, <2>3, ChunkStoreAssumption
<1>7. Max(ages) \in ages
  BY <1>6, MaxProperties
<1>8. (\E i \in targets : Max(ages) = cs[i].age) /\ Max(ages) \in 0..Dwell
  BY <1>6, <1>7, <1>a
<1>9. Targeted(cs, ids, targets, first, Max(ages))
  BY <1>3, <1>4, <1>5, <1>8 DEF Targeted
<1> QED BY <1>9 DEF targets

(* What stays below the first line that is replaced.                        *)
Below(cs, targets, first) ==
  ClearAnticipated(Among(SubSeq(cs, first, Len(cs)), ToSet(cs) \ {cs[i] : i \in targets}))

StandsBelow(after, cs, targets, first) ==
  \A j \in 1..Len(after) :
    /\ after[j].st # "anticipated"
    /\ \E g \in 1..Len(cs) : first < g /\ g \notin targets /\ after[j] = cs[g]

(* What a refinement leaves after the lines it replaces.                    *)
LEMMA RefinedTail ==
  ASSUME NEW owed, NEW n \in Nat, NEW cs, ScreenOK(cs, owed, n),
         NEW targets \in SUBSET (1..Len(cs)), NEW first \in targets
  PROVE  /\ ScreenOK(Below(cs, targets, first), owed, n)
         /\ StandsBelow(Below(cs, targets, first), cs, targets, first)
<1>1. /\ cs \in Seq(Chunk) /\ DOMAIN cs = 1..Len(cs) /\ Len(cs) \in Nat
      /\ \A i \in 1..Len(cs) : cs[i] \in Chunk
  BY LenProperties, ElementOfSeq DEF ScreenOK
<1>2. first \in 1..Len(cs) /\ first \in Int /\ Len(cs) \in Int
  BY <1>1
<1> DEFINE tail == SubSeq(cs, first, Len(cs))
           S    == ToSet(cs) \ {cs[i] : i \in targets}
           rest == Among(tail, S)
<1>3. Below(cs, targets, first) = ClearAnticipated(rest)
  BY DEF Below
<1>4. /\ tail \in Seq(Chunk)
      /\ Len(tail) = IF first <= Len(cs) THEN Len(cs) - first + 1 ELSE 0
      /\ \A i \in 1..(Len(cs) - first + 1) : tail[i] = cs[first + i - 1]
  <2>1. \A i \in first..Len(cs) : cs[i] \in Chunk
    BY <1>1, <1>2
  <2> QED BY <1>2, <2>1, SubSeqProperties
<1>5. \A x \in S : \A i \in 1..Len(cs) : x = cs[i] => i \notin targets
  OBVIOUS
<1> HIDE DEF tail, S
<1>6. /\ Len(tail) = Len(cs) + 1 - first /\ Len(tail) \in Nat
      /\ \A i \in 1..Len(tail) : /\ first + i - 1 \in 1..Len(cs) /\ first <= first + i - 1
                                 /\ tail[i] = cs[first + i - 1]
  BY <1>1, <1>2, <1>4
<1>7. ScreenOK(tail, owed, n)
  <2> DEFINE h == [i \in 1..Len(tail) |-> first + i - 1]
  <2>1. /\ h \in [1..Len(tail) -> 1..Len(cs)]
        /\ \A i \in 1..Len(tail) : h[i] = first + i - 1
    BY <1>6
  <2> HIDE DEF h
  <2>2. \A i \in 1..Len(tail) : tail[i] = cs[h[i]]
    BY <1>6, <2>1
  <2>3. \A i, j \in 1..Len(tail) : i < j => h[i] < h[j]
    BY <1>2, <1>6, <2>1
  <2>4. tail \in Seq(Chunk) /\ h \in [1..Len(tail) -> 1..Len(cs)]
    BY <1>4, <2>1
  <2> QED BY <2>2, <2>3, <2>4, ScreenOfSome
<1>8. /\ rest \in Seq(Chunk) /\ ToSet(rest) = ToSet(tail) \cap S
      /\ \E h : Picks(h, rest, tail, S, Len(tail))
  BY <1>4, AmongProperties, AmongPicks
<1> HIDE DEF rest
<1>9. ScreenOK(rest, owed, n)
  <2>1. PICK h : Picks(h, rest, tail, S, Len(tail))
    BY <1>8
  <2>2. /\ h \in [1..Len(rest) -> 1..Len(tail)]
        /\ \A i \in 1..Len(rest) : rest[i] = tail[h[i]]
        /\ \A i, j \in 1..Len(rest) : i < j => h[i] < h[j]
    BY <2>1 DEF Picks
  <2>3. rest \in Seq(Chunk)
    BY <1>8
  <2> QED BY <1>7, <2>2, <2>3, ScreenOfSome
<1> DEFINE out == ClearAnticipated(rest)
<1>10. /\ ScreenOK(out, owed, n)
       /\ \A i \in 1..Len(out) : out[i].st # "anticipated"
  BY <1>9, ClearAnticipatedKeeps
<1>11. ToSet(out) \subseteq ToSet(rest)
  BY <1>8, AmongProperties DEF ClearAnticipated
<1> HIDE DEF out
<1>12. ASSUME NEW j \in 1..Len(out)
       PROVE  \E g \in 1..Len(cs) : first < g /\ g \notin targets /\ out[j] = cs[g]
  <2>1. out \in Seq(Chunk)
    BY <1>10 DEF ScreenOK
  <2>2. out[j] \in ToSet(out)
    BY <2>1, ToSetProperties
  <2>3. out[j] \in ToSet(tail) /\ out[j] \in S
    BY <1>8, <1>11, <2>2
  <2>4. PICK i \in 1..Len(tail) : tail[i] = out[j]
    BY <1>4, <2>3, ToSetProperties
  <2> DEFINE g == first + i - 1
  <2>5. g \in 1..Len(cs) /\ first <= g /\ out[j] = cs[g]
    BY <1>6, <2>4
  <2> HIDE DEF g
  <2>6. g \notin targets
    BY <1>5, <2>3, <2>5
  <2>7. first # g
    BY <2>6
  <2>8. first < g
    BY <1>2, <2>5, <2>7
  <2> QED BY <2>5, <2>6, <2>8
<1>13. Below(cs, targets, first) = out
  BY <1>3 DEF out
<1>14. StandsBelow(out, cs, targets, first)
  BY <1>10, <1>12 DEF StandsBelow
<1> QED BY <1>10, <1>13, <1>14

(* The lines after a refinement: those above the first replaced one; k new  *)
(* ones with the clock `age`; what stays below.                             *)
Replaced(cs, ds, turn, age, p, k, after) ==
  /\ ds \in Seq(Chunk) /\ after \in Seq(Chunk) /\ Len(ds) = p + k + Len(after)
  /\ \A i \in 1..p : ds[i] = cs[i]
  /\ \A i \in (p + 1)..(p + k) : ds[i].st = "current" /\ ds[i].turn = turn /\ ds[i].age = age
  /\ \A i \in (p + k + 1)..(p + k + Len(after)) :
       i - (p + k) \in 1..Len(after) /\ ds[i] = after[i - (p + k)]

(* The new lines of a refinement stand where the first replaced one stood.  *)
LEMMA RefinedShape ==
  ASSUME NEW cs \in Seq(Chunk), NEW first \in 1..Len(cs), NEW turn \in Nat,
         NEW age \in 0..Dwell, NEW lines \in Seq(Line), NEW after \in Seq(Chunk)
  PROVE  \E k \in Nat :
           Replaced(cs, SubSeq(cs, 1, first - 1)
                          \o [i \in DOMAIN lines |->
                                [Fresh(lines[i], turn, FALSE) EXCEPT !.age = age]]
                          \o after,
                    turn, age, first - 1, k, after)
<1> DEFINE before == SubSeq(cs, 1, first - 1)
           mid    == [i \in DOMAIN lines |-> [Fresh(lines[i], turn, FALSE) EXCEPT !.age = age]]
           ds     == before \o mid \o after
           p      == first - 1
<1>1. Len(cs) \in Nat /\ \A i \in 1..Len(cs) : cs[i] \in Chunk
  BY LenProperties, ElementOfSeq
<1>2. before \in Seq(Chunk) /\ Len(before) = p /\ \A i \in 1..p : before[i] = cs[i]
  <2>1. 1 \in Int /\ first - 1 \in Int /\ \A i \in 1..(first - 1) : cs[i] \in Chunk
    BY <1>1
  <2>2. /\ before \in Seq(Chunk)
        /\ Len(before) = IF 1 <= first - 1 THEN (first - 1) - 1 + 1 ELSE 0
        /\ \A i \in 1..((first - 1) - 1 + 1) : before[i] = cs[1 + i - 1]
    BY <2>1, SubSeqProperties
  <2> QED BY <1>1, <2>2
<1>3. /\ mid \in Seq(Chunk) /\ Len(mid) \in Nat
      /\ \A i \in 1..Len(mid) :
           mid[i].st = "current" /\ mid[i].turn = turn /\ mid[i].age = age
  <2>1. \A i \in DOMAIN lines : lines[i] \in Line
    BY ElementOfSeq, LenProperties
  <2>2. \A i \in DOMAIN lines : Fresh(lines[i], turn, FALSE) \in Chunk
    BY <2>1, ChunkStoreAssumption DEF Fresh, Chunk, ChunkState
  <2>3. \A c \in Chunk : [c EXCEPT !.age = age] \in Chunk
    BY DEF Chunk
  <2>4. mid \in [DOMAIN lines -> Chunk]
    BY <2>2, <2>3
  <2>5. \A i \in DOMAIN lines :
          mid[i].st = "current" /\ mid[i].turn = turn /\ mid[i].age = age
    BY DEF Fresh
  <2> HIDE DEF mid
  <2>6. mid \in Seq(Chunk) /\ Len(mid) = Len(lines) /\ DOMAIN lines = 1..Len(lines)
    BY <2>4, LinesIntoChunks
  <2> QED BY <2>5, <2>6, LenProperties
<1> DEFINE k == Len(mid)
           l == Len(after)
<1> HIDE DEF before, mid
<1>4. /\ ds \in Seq(Chunk) /\ Len(ds) = Len(before) + Len(mid) + Len(after)
      /\ \A i \in 1..(Len(before) + Len(mid) + Len(after)) :
           ds[i] = IF i <= Len(before) THEN before[i]
                   ELSE IF i <= Len(before) + Len(mid) THEN mid[i - Len(before)]
                   ELSE after[i - (Len(before) + Len(mid))]
  <2>1. before \in Seq(Chunk) /\ mid \in Seq(Chunk) /\ after \in Seq(Chunk)
    BY <1>2, <1>3
  <2> QED BY <2>1, ConcatOfThree
<1> HIDE DEF ds
<1>5. /\ p \in Nat /\ k \in Nat /\ l \in Nat /\ Len(ds) = p + k + l
      /\ \A i \in 1..(p + k + l) :
           ds[i] = IF i <= p THEN before[i] ELSE IF i <= p + k THEN mid[i - p]
                   ELSE after[i - (p + k)]
  BY <1>1, <1>2, <1>3, <1>4, LenProperties
<1>6. \A i \in 1..p : before[i] = cs[i]
  BY <1>2
<1>7. \A i \in 1..k : mid[i].st = "current" /\ mid[i].turn = turn /\ mid[i].age = age
  BY <1>3
<1> HIDE DEF p, k, l
<1>8. \A i \in 1..p : ds[i] = cs[i]
  <2> TAKE i \in 1..p
  <2>1. i \in 1..(p + k + l) /\ i <= p
    BY <1>5
  <2> QED BY <1>5, <1>6, <2>1
<1>9. \A i \in (p + 1)..(p + k) :
        ds[i].st = "current" /\ ds[i].turn = turn /\ ds[i].age = age
  <2> TAKE i \in (p + 1)..(p + k)
  <2>1. i \in 1..(p + k + l) /\ ~(i <= p) /\ i <= p + k /\ i - p \in 1..k
    BY <1>5
  <2>2. ds[i] = mid[i - p]
    BY <1>5, <2>1
  <2> QED BY <1>7, <2>1, <2>2
<1>10. \A i \in (p + k + 1)..(p + k + l) : i - (p + k) \in 1..l /\ ds[i] = after[i - (p + k)]
  <2> TAKE i \in (p + k + 1)..(p + k + l)
  <2>1. i \in 1..(p + k + l) /\ ~(i <= p) /\ ~(i <= p + k) /\ i - (p + k) \in 1..l
    BY <1>5
  <2> QED BY <1>5, <2>1
<1>11. Replaced(cs, ds, turn, age, p, k, after)
  BY <1>4, <1>5, <1>8, <1>9, <1>10 DEF Replaced, l
<1> QED BY <1>5, <1>11 DEF ds, before, mid, p

(* Where a line of a refined screen comes from. *)
FromTop(cs, ds, p, i) == i \in 1..p /\ i \in 1..Len(cs) /\ ds[i] = cs[i]

FromNew(ds, turn, age, p, k, i) ==
  i \in (p + 1)..(p + k) /\ ds[i].st = "current" /\ ds[i].turn = turn /\ ds[i].age = age

FromTail(ds, p, k, after, i) ==
  /\ i \in (p + k + 1)..(p + k + Len(after))
  /\ i - (p + k) \in 1..Len(after) /\ ds[i] = after[i - (p + k)]

(* How any two lines stand after a replacement.                             *)
LEMMA ReplacedPairs ==
  ASSUME NEW cs \in Seq(Chunk), NEW ds, NEW turn, NEW age, NEW p \in 0..Len(cs),
         NEW k \in Nat, NEW after, Replaced(cs, ds, turn, age, p, k, after)
  PROVE  LET Top(i)  == FromTop(cs, ds, p, i)
             New(i)  == FromNew(ds, turn, age, p, k, i)
             Kept(i) == FromTail(ds, p, k, after, i)
         IN  /\ \A i \in 1..Len(ds) : Top(i) \/ New(i) \/ Kept(i)
             /\ \A i, j \in 1..Len(ds) : i < j =>
                  \/ Top(i) /\ Top(j)
                  \/ Top(i) /\ New(j)
                  \/ Top(i) /\ Kept(j)
                  \/ New(i) /\ New(j)
                  \/ New(i) /\ Kept(j)
                  \/ Kept(i) /\ Kept(j) /\ i - (p + k) < j - (p + k)
<1> DEFINE Top(i)  == FromTop(cs, ds, p, i)
           New(i)  == FromNew(ds, turn, age, p, k, i)
           Kept(i) == FromTail(ds, p, k, after, i)
           l       == Len(after)
<1>1. Len(cs) \in Nat /\ p \in Nat /\ l \in Nat /\ Len(ds) = p + k + l
  BY LenProperties DEF Replaced
<1>2. \A i \in 1..p : i \in 1..Len(cs) /\ Top(i)
  BY <1>1 DEF Replaced, FromTop
<1>3. \A i \in (p + 1)..(p + k) : New(i)
  BY DEF Replaced, FromNew
<1>4. \A i \in (p + k + 1)..(p + k + l) : Kept(i)
  BY DEF Replaced, FromTail
<1> HIDE DEF Top, New, Kept, l
<1>5. \A i \in 1..Len(ds) :
        \/ i <= p /\ Top(i)
        \/ ~(i <= p) /\ i <= p + k /\ New(i)
        \/ ~(i <= p + k) /\ Kept(i)
  <2> TAKE i \in 1..Len(ds)
  <2>1. i \in 1..p \/ i \in (p + 1)..(p + k) \/ i \in (p + k + 1)..(p + k + l)
    BY <1>1
  <2>2. CASE i \in 1..p
    BY <1>2, <2>2
  <2>3. CASE i \in (p + 1)..(p + k)
    BY <1>1, <1>3, <2>3
  <2>4. CASE i \in (p + k + 1)..(p + k + l)
    BY <1>1, <1>4, <2>4
  <2> QED BY <2>1, <2>2, <2>3, <2>4
<1>6. ASSUME NEW i \in 1..Len(ds), NEW j \in 1..Len(ds), i < j
      PROVE  \/ Top(i) /\ Top(j)
             \/ Top(i) /\ New(j)
             \/ Top(i) /\ Kept(j)
             \/ New(i) /\ New(j)
             \/ New(i) /\ Kept(j)
             \/ Kept(i) /\ Kept(j) /\ i - (p + k) < j - (p + k)
  <2>1. i \in Nat /\ j \in Nat
    BY <1>1
  <2>2. CASE i <= p
    <3>1. Top(i)
      BY <1>1, <1>5, <2>1, <2>2
    <3>2. Top(j) \/ New(j) \/ Kept(j)
      BY <1>5
    <3> QED BY <3>1, <3>2
  <2>3. CASE ~(i <= p) /\ i <= p + k
    <3>1. ~(j <= p)
      BY <1>1, <1>6, <2>1, <2>3
    <3>2. New(i)
      BY <1>1, <1>5, <2>1, <2>3
    <3>3. (j <= p /\ Top(j)) \/ New(j) \/ Kept(j)
      BY <1>5
    <3> QED BY <3>1, <3>2, <3>3
  <2>4. CASE ~(i <= p + k)
    <3>1. ~(i <= p) /\ ~(j <= p) /\ ~(j <= p + k) /\ i - (p + k) < j - (p + k)
      BY <1>1, <1>6, <2>1, <2>4
    <3>2. Kept(i) /\ Kept(j)
      BY <1>5, <2>4, <3>1
    <3> QED BY <3>1, <3>2
  <2> QED BY <2>2, <2>3, <2>4
<1>7. \A i \in 1..Len(ds) : Top(i) \/ New(i) \/ Kept(i)
  BY <1>5
<1> QED BY <1>6, <1>7 DEF Top, New, Kept

(* What is left below a refined unit: lines of the screen that stood below  *)
(* its first line, none of them of the unit and none of them a preview.     *)
BelowUnit(after, cs, first, ids) ==
  \A j \in 1..Len(after) :
    /\ after[j].st # "anticipated"
    /\ \E g \in 1..Len(cs) : first < g /\ after[j] = cs[g] /\ cs[g].turn \notin ids

(* The refined lines stand where the provisional ones stood, with the       *)
(* earliest of their clocks, so the order and the dwell of every other line *)
(* are as they were.                                                        *)
LEMMA RefinedKeeps ==
  ASSUME NEW owed, NEW n \in Nat, NEW cs, ScreenOK(cs, owed, n),
         NEW ids \in SUBSET owed, NEW a \in Nat, NEW b \in 1..n, ids = a..b,
         NEW first \in 1..Len(cs), cs[first].st = "current", cs[first].turn \in ids,
         NEW t \in 1..Len(cs), first <= t, cs[t].st = "current",
         NEW after, ScreenOK(after, owed, n),
         BelowUnit(after, cs, first, ids),
         NEW k \in Nat, NEW ds,
         Replaced(cs, ds, b, cs[t].age, first - 1, k, after)
  PROVE  ScreenOK(ds, owed \ ids, n) /\ KeepsSpoken(cs, ds)
<1> DEFINE p       == first - 1
           Top(i)  == FromTop(cs, ds, p, i)
           New(i)  == FromNew(ds, b, cs[t].age, p, k, i)
           Kept(i) == FromTail(ds, p, k, after, i)
<1>1. /\ cs \in Seq(Chunk) /\ Len(cs) \in Nat /\ p \in 0..Len(cs) /\ first = p + 1
      /\ \A i \in 1..Len(cs) : cs[i].turn \in Nat
      /\ cs[first].turn \in owed
  <2>1. cs \in Seq(Chunk)
    BY DEF ScreenOK
  <2>2. Len(cs) \in Nat /\ \A i \in 1..Len(cs) : cs[i].turn \in Nat
    BY <2>1, ScreenTypes
  <2>3. first \in Nat /\ 1 <= first /\ first <= Len(cs)
    BY <2>2
  <2>4. p \in 0..Len(cs) /\ first = p + 1
    BY <2>2, <2>3
  <2> QED BY <2>1, <2>2, <2>4
<1>2. /\ \A i \in 1..Len(ds) : Top(i) \/ New(i) \/ Kept(i)
      /\ \A i, j \in 1..Len(ds) : i < j =>
           \/ Top(i) /\ Top(j)
           \/ Top(i) /\ New(j)
           \/ Top(i) /\ Kept(j)
           \/ New(i) /\ New(j)
           \/ New(i) /\ Kept(j)
           \/ Kept(i) /\ Kept(j) /\ i - (p + k) < j - (p + k)
  BY <1>1, ReplacedPairs
<1>3. ASSUME NEW i, Top(i)
      PROVE  i \in 1..Len(cs) /\ i < first /\ ds[i] = cs[i] /\ cs[i].st # "anticipated"
  <2>1. i \in 1..Len(cs) /\ i < first /\ ds[i] = cs[i]
    BY <1>1, <1>3 DEF FromTop
  <2> QED BY <2>1 DEF ScreenOK
<1>4. ASSUME NEW i, New(i)
      PROVE  ds[i].st = "current" /\ ds[i].turn = b /\ ds[i].age = cs[t].age
  BY <1>4 DEF FromNew
<1>5. ASSUME NEW i, Kept(i)
      PROVE  /\ i - (p + k) \in 1..Len(after) /\ ds[i] = after[i - (p + k)]
             /\ ds[i].st # "anticipated"
             /\ \E g \in 1..Len(cs) : first < g /\ ds[i] = cs[g] /\ cs[g].turn \notin ids
  BY <1>5 DEF FromTail, BelowUnit
<1>6. ds \in Seq(Chunk) /\ Len(ds) \in Nat /\ Len(ds) >= p
  BY <1>1, LenProperties DEF Replaced
<1>7. b \in ids
  <2>1. cs[first].turn \in a..b
    OBVIOUS
  <2> QED BY <2>1
<1> HIDE DEF p, Top, New, Kept
<1>8. \A i \in 1..Len(ds) : ds[i].st # "anticipated"
  <2> TAKE i \in 1..Len(ds)
  <2>1. CASE Top(i)
    BY <1>3, <2>1
  <2>2. CASE New(i)
    BY <1>4, <2>2
  <2>3. CASE Kept(i)
    BY <1>5, <2>3
  <2> QED BY <1>2, <2>1, <2>2, <2>3
<1>9. \A i \in 1..Len(ds) : ds[i].turn <= n /\ (ds[i].turn \in owed \ ids => ds[i].prov)
  <2> TAKE i \in 1..Len(ds)
  <2>1. CASE Top(i)
    BY <1>3, <2>1 DEF ScreenOK
  <2>2. CASE New(i)
    BY <1>4, <1>7, <2>2
  <2>3. CASE Kept(i)
    <3>1. PICK g \in 1..Len(cs) : ds[i] = cs[g]
      BY <1>5, <2>3
    <3> QED BY <3>1 DEF ScreenOK
  <2> QED BY <1>2, <2>1, <2>2, <2>3
<1>10. ASSUME NEW i \in 1..Len(ds), NEW j \in 1..Len(ds),
              i < j, ds[i].st = "current", ds[j].st = "current"
       PROVE  ds[i].turn <= ds[j].turn
  <2>1. CASE Top(i) /\ Top(j)
    <3>1. i \in 1..Len(cs) /\ ds[i] = cs[i] /\ j \in 1..Len(cs) /\ ds[j] = cs[j]
      BY <1>3, <2>1
    <3> QED BY <1>10, <3>1, ScreenPair
  <2>2. CASE Top(i) /\ New(j)
    <3>1. i \in 1..Len(cs) /\ i < first /\ ds[i] = cs[i]
      BY <1>3, <2>2
    <3>2. ds[i].turn <= cs[first].turn /\ ds[i].turn \in Nat
      BY SMTT(30), <1>1, <1>10, <3>1 DEF ScreenOK
    <3>3. cs[first].turn \in a..b /\ ds[j].turn = b
      BY <1>4, <2>2
    <3> QED BY SMTT(30), <3>2, <3>3
  <2>3. CASE Top(i) /\ Kept(j)
    <3>1. i \in 1..Len(cs) /\ i < first /\ ds[i] = cs[i]
      BY <1>3, <2>3
    <3>2. PICK g \in 1..Len(cs) : first < g /\ ds[j] = cs[g]
      BY <1>5, <2>3
    <3>3. i < g
      BY <3>1, <3>2
    <3> QED BY <1>10, <3>1, <3>2, <3>3, ScreenPair
  <2>4. CASE New(i) /\ New(j)
    BY <1>4, <2>4
  <2>5. CASE New(i) /\ Kept(j)
    <3>1. PICK g \in 1..Len(cs) : first < g /\ ds[j] = cs[g] /\ cs[g].turn \notin ids
      BY <1>5, <2>5
    <3>2. cs[first].turn <= cs[g].turn
      BY SMTT(30), <1>10, <3>1, ScreenPair
    <3>3. cs[first].turn \in a..b /\ cs[g].turn \notin a..b
      BY <3>1
    <3>4. cs[g].turn \in Nat /\ ds[i].turn = b
      BY <1>1, <1>4, <2>5
    <3> QED BY SMTT(30), <3>1, <3>2, <3>3, <3>4
  <2>6. CASE Kept(i) /\ Kept(j) /\ i - (p + k) < j - (p + k)
    <3>1. /\ i - (p + k) \in 1..Len(after) /\ ds[i] = after[i - (p + k)]
          /\ j - (p + k) \in 1..Len(after) /\ ds[j] = after[j - (p + k)]
      BY <1>5, <2>6
    <3> DEFINE v == i - (p + k)
               w == j - (p + k)
    <3>2. v \in 1..Len(after) /\ w \in 1..Len(after) /\ v < w
          /\ ds[i] = after[v] /\ ds[j] = after[w]
      BY <2>6, <3>1
    <3> HIDE DEF v, w
    <3> QED BY <1>10, <3>2, ScreenPair
  <2> QED BY <1>2, <1>10, <2>1, <2>2, <2>3, <2>4, <2>5, <2>6
<1>11. ASSUME NEW i \in 1..Len(ds), NEW j \in 1..Len(ds),
              i < j, ds[i].st = "current", ds[i].turn \in owed \ ids
       PROVE  ds[j].st # "committed" /\ (ds[j].st = "current" => ds[j].age <= ds[i].age)
  <2>1. CASE Top(i) /\ Top(j)
    <3>1. i \in 1..Len(cs) /\ ds[i] = cs[i] /\ j \in 1..Len(cs) /\ ds[j] = cs[j]
      BY <1>3, <2>1
    <3> QED BY <1>11, <3>1, ScreenPair
  <2>2. CASE Top(i) /\ New(j)
    <3>1. i \in 1..Len(cs) /\ i < t /\ ds[i] = cs[i]
      BY <1>1, <1>3, <2>2
    <3>2. cs[t].age <= cs[i].age
      BY <1>11, <3>1 DEF ScreenOK
    <3> QED BY <1>4, <2>2, <3>1, <3>2
  <2>3. CASE Top(i) /\ Kept(j)
    <3>1. i \in 1..Len(cs) /\ i < first /\ ds[i] = cs[i]
      BY <1>3, <2>3
    <3>2. PICK g \in 1..Len(cs) : first < g /\ ds[j] = cs[g]
      BY <1>5, <2>3
    <3>3. i < g
      BY <3>1, <3>2
    <3>4. cs[i].st = "current" /\ cs[i].turn \in owed
      BY <1>11, <3>1
    <3>5. cs[g].st # "committed" /\ (cs[g].st = "current" => cs[g].age <= cs[i].age)
      BY <3>1, <3>3, <3>4, ScreenPair
    <3> QED BY <3>1, <3>2, <3>5
  <2>4. CASE New(i)
    BY <1>4, <1>7, <1>11, <2>4
  <2>5. CASE Kept(i) /\ Kept(j) /\ i - (p + k) < j - (p + k)
    <3>1. /\ i - (p + k) \in 1..Len(after) /\ ds[i] = after[i - (p + k)]
          /\ j - (p + k) \in 1..Len(after) /\ ds[j] = after[j - (p + k)]
      BY <1>5, <2>5
    <3> DEFINE v == i - (p + k)
               w == j - (p + k)
    <3>2. v \in 1..Len(after) /\ w \in 1..Len(after) /\ v < w
          /\ ds[i] = after[v] /\ ds[j] = after[w]
      BY <2>5, <3>1
    <3> HIDE DEF v, w
    <3>3. after[v].st = "current" /\ after[v].turn \in owed
      BY <1>11, <3>2
    <3>4. /\ after[w].st # "committed"
          /\ after[w].st = "current" => after[w].age <= after[v].age
      BY <3>2, <3>3, ScreenPair
    <3> QED BY <3>2, <3>4
  <2> QED BY <1>2, <1>11, <2>1, <2>2, <2>3, <2>4, <2>5
<1>12. ScreenOK(ds, owed \ ids, n)
  BY <1>6, <1>8, <1>9, <1>10, <1>11 DEF ScreenOK
<1>13. KeepsSpoken(cs, ds)
  <2> SUFFICES ASSUME NEW j \in 1..Len(cs), cs[j].st = "committed"
               PROVE  /\ j <= Len(ds) /\ ds[j].st = "committed"
                      /\ \A i \in 1..j : ds[i].line = cs[i].line /\ ds[i].turn = cs[i].turn
    BY DEF KeepsSpoken
  <2>1. ~(first < j) /\ j # first
    BY <1>1 DEF ScreenOK
  <2>2. j \in 1..p
    BY <1>1, <2>1
  <2>3. \A i \in 1..j : i \in 1..p
    BY <1>1, <2>2
  <2>4. \A i \in 1..p : ds[i] = cs[i]
    BY DEF Replaced, p
  <2>5. j \in 1..j /\ j <= Len(ds)
    BY <1>1, <1>6, <2>2
  <2> QED BY <2>3, <2>4, <2>5
<1> QED BY <1>12, <1>13

(* A legal refinement for the consecutive turns a..b leaves the screen in   *)
(* order and every spoken line in place.                                    *)
LEMMA RefineProvisionalChunksKeeps ==
  ASSUME NEW owed, NEW n \in Nat, NEW cs, ScreenOK(cs, owed, n),
         NEW ids \in SUBSET owed, NEW a \in Nat, NEW b \in 1..n, ids = a..b, Max(ids) = b,
         NEW drafts \in Seq(Line), RefinementLegality(cs, ids) = "refine"
  PROVE  /\ ScreenOK(RefineProvisionalChunks(cs, ids, drafts).chunks, owed \ ids, n)
         /\ KeepsSpoken(cs, RefineProvisionalChunks(cs, ids, drafts).chunks)
<1> DEFINE targets  == ProvisionalIndices(cs, ids)
           first    == Min(targets)
           before   == SubSeq(cs, 1, first - 1)
           replaced == {cs[i] : i \in targets}
           after    == ClearAnticipated(Among(SubSeq(cs, first, Len(cs)), ToSet(cs) \ replaced))
           incoming == NotDelivered(drafts, ClearAnticipated(before))
           ages     == {cs[i].age : i \in targets}
           age      == Max(ages)
           settled  == [i \in DOMAIN cs |->
                          IF IsProvisionalOf(cs[i], ids) THEN [cs[i] EXCEPT !.prov = FALSE]
                          ELSE cs[i]]
           refined  == before \o [i \in DOMAIN incoming |->
                                    [Fresh(incoming[i], Max(ids), FALSE) EXCEPT !.age = age]]
                              \o after
           result   == RefineProvisionalChunks(cs, ids, drafts).chunks
<1>1. result = cs \/ result = ClearAnticipated(settled) \/ result = refined
  <2>1. CASE incoming = <<>>
    BY <2>1 DEF RefineProvisionalChunks
  <2>2. CASE incoming # <<>> /\ incoming = Lines(Among(cs, replaced))
    BY <2>2 DEF RefineProvisionalChunks
  <2>3. CASE incoming # <<>> /\ ~(incoming = Lines(Among(cs, replaced)))
    BY <2>3 DEF RefineProvisionalChunks
  <2> QED BY <2>1, <2>2, <2>3
<1>r. result = RefineProvisionalChunks(cs, ids, drafts).chunks
  OBVIOUS
<1> HIDE DEF result
<1>2. ScreenOK(cs, owed \ ids, n)
  BY ScreenOwes
<1>3. cs \in Seq(Chunk) /\ Len(cs) \in Nat
  BY LenProperties DEF ScreenOK
<1>4. CASE result = cs
  <2>1. KeepsSpoken(cs, cs)
    BY <1>3 DEF KeepsSpoken
  <2> QED BY <1>2, <1>4, <1>r, <2>1
<1>5. CASE result = ClearAnticipated(settled)
  <2>1. ScreenOK(settled, owed \ ids, n) /\ KeepsSpoken(cs, settled)
    <3> DEFINE ds == settled
    <3>1. ds = [i \in DOMAIN cs |->
                  IF IsProvisionalOf(cs[i], ids) THEN [cs[i] EXCEPT !.prov = FALSE] ELSE cs[i]]
      OBVIOUS
    <3> HIDE DEF ds
    <3>2. ScreenOK(ds, owed \ ids, n) /\ KeepsSpoken(cs, ds)
      BY <3>1, SettleKeeps
    <3> QED BY <3>2 DEF ds
  <2> HIDE DEF settled
  <2>2. /\ ScreenOK(ClearAnticipated(settled), owed \ ids, n)
        /\ KeepsSpoken(settled, ClearAnticipated(settled))
    BY <2>1, ClearAnticipatedKeeps
  <2>3. settled \in Seq(Chunk) /\ ClearAnticipated(settled) \in Seq(Chunk)
    BY <2>1, <2>2 DEF ScreenOK
  <2>4. KeepsSpoken(cs, ClearAnticipated(settled))
    BY <1>3, <2>1, <2>2, <2>3, KeepsSpokenTransitive
  <2> QED BY <1>5, <1>r, <2>2, <2>4
<1>6. CASE result = refined
  <2>0. Targeted(cs, ids, targets, first, age)
    <3>1. \A x : x \in ages <=> \E i \in targets : x = cs[i].age
      OBVIOUS
    <3> HIDE DEF ages
    <3> QED BY <3>1, RefineTargets
  <2>b. after = Below(cs, targets, first)
    BY DEF Below
  <2>2. incoming \in Seq(Line)
    BY NotDeliveredLines
  <2> HIDE DEF targets, first, ages, age, replaced, incoming
  <2>1. /\ targets \in SUBSET (1..Len(cs)) /\ first \in targets
        /\ \A i \in targets : first <= i /\ cs[i].st = "current" /\ cs[i].turn \in ids
        /\ \A i \in 1..Len(cs) : i \notin targets => cs[i].turn \notin ids
        /\ \E i \in targets : age = cs[i].age
        /\ age \in 0..Dwell
    BY <2>0 DEF Targeted
  <2>3. ScreenOK(after, owed, n) /\ StandsBelow(after, cs, targets, first)
    <3>1. targets \in SUBSET (1..Len(cs)) /\ first \in targets
      BY <2>1
    <3> HIDE DEF after
    <3> QED BY <2>b, <3>1, RefinedTail
  <2>4. after \in Seq(Chunk) /\ first \in 1..Len(cs)
    BY <2>1, <2>3 DEF ScreenOK
  <2> HIDE DEF after
  <2>5. PICK k \in Nat : Replaced(cs, refined, b, age, first - 1, k, after)
    <3>1. Max(ids) \in Nat /\ age \in 0..Dwell
      BY <2>1
    <3>2. \E k \in Nat : Replaced(cs, refined, Max(ids), age, first - 1, k, after)
      BY <1>3, <2>2, <2>4, <3>1, RefinedShape
    <3> QED BY <3>2
  <2>6. PICK t \in targets : age = cs[t].age
    BY <2>1
  <2>7. /\ t \in 1..Len(cs) /\ first <= t /\ cs[t].st = "current"
        /\ cs[first].st = "current" /\ cs[first].turn \in ids
    BY <2>1
  <2>8. BelowUnit(after, cs, first, ids)
    BY <2>1, <2>3 DEF StandsBelow, BelowUnit
  <2>9. Replaced(cs, refined, b, cs[t].age, first - 1, k, after)
    BY <2>5, <2>6
  <2> HIDE DEF refined
  <2>10. ScreenOK(refined, owed \ ids, n) /\ KeepsSpoken(cs, refined)
    BY <2>3, <2>4, <2>7, <2>8, <2>9, RefinedKeeps
  <2> QED BY <1>6, <1>r, <2>10
<1> QED BY <1>1, <1>4, <1>5, <1>6 DEF result

----------------------------------------------------------------------------
(* Flattening. *)

(* The recursive function in FlattenSeq is what its equation says. *)
LEMMA FlattenRecursion ==
  ASSUME NEW T, NEW ss \in Seq(Seq(T)), Len(ss) # 0
  PROVE  \E f : /\ f = [n \in 1..Len(ss) |->
                          IF n = 1 THEN ss[n] ELSE f[n - 1] \o ss[n]]
                /\ FlattenSeq(ss) = f[Len(ss)]
<1> DEFINE Step(n, before) == before \o ss[n]
           IsFlat(f, m) == f = [n \in 1..m |-> IF n = 1 THEN ss[n] ELSE Step(n, f[n - 1])]
           G == {m \in Nat : \E f : IsFlat(f, m)}
<1>1. 0 \in G
  <2>1. IsFlat([n \in 1..0 |-> <<>>], 0)
    OBVIOUS
  <2> QED BY <2>1
<1>2. ASSUME NEW m \in Nat, m \in G
      PROVE  m + 1 \in G
  <2>1. PICK f : IsFlat(f, m)
    BY <1>2
  <2> DEFINE g == [n \in 1..(m + 1) |->
                     IF n = 1 THEN ss[n] ELSE IF n = m + 1 THEN Step(n, f[m]) ELSE f[n]]
  <2> HIDE DEF Step
  <2>2. \A n \in 1..(m + 1) : g[n] = IF n = 1 THEN ss[n] ELSE Step(n, g[n - 1])
    <3> TAKE n \in 1..(m + 1)
    <3>1. CASE n = 1
      BY <3>1
    <3>2. CASE n # 1 /\ n = m + 1
      <4>1. m \in 1..m /\ m # m + 1 /\ m \in 1..(m + 1) /\ n - 1 = m
        BY <3>2
      <4>2. f[m] = IF m = 1 THEN ss[m] ELSE Step(m, f[m - 1])
        BY <2>1, <4>1
      <4>3. g[m] = f[m]
        BY <4>1, <4>2
      <4>4. g[n] = Step(n, f[m])
        BY <3>2
      <4> QED BY <3>2, <4>1, <4>3, <4>4
    <3>3. CASE n # 1 /\ n # m + 1
      <4>1. n \in 1..m /\ n - 1 \in 1..m /\ n - 1 # m + 1 /\ n - 1 \in 1..(m + 1)
        BY <3>3
      <4>2. g[n] = f[n]
        BY <3>3
      <4>3. f[n - 1] = IF n - 1 = 1 THEN ss[n - 1] ELSE Step(n - 1, f[(n - 1) - 1])
        BY <2>1, <4>1
      <4>4. g[n - 1] = f[n - 1]
        BY <4>1, <4>3
      <4>5. f[n] = Step(n, f[n - 1])
        BY <2>1, <3>3, <4>1
      <4> QED BY <3>3, <4>2, <4>4, <4>5
    <3> QED BY <3>1, <3>2, <3>3
  <2>3. g = [n \in 1..(m + 1) |-> g[n]]
    OBVIOUS
  <2> HIDE DEF g
  <2>4. [n \in 1..(m + 1) |-> g[n]]
          = [n \in 1..(m + 1) |-> IF n = 1 THEN ss[n] ELSE Step(n, g[n - 1])]
    BY <2>2
  <2>5. IsFlat(g, m + 1)
    BY <2>3, <2>4
  <2>6. \E e : IsFlat(e, m + 1)
    BY <2>5
  <2>7. m + 1 \in Nat
    OBVIOUS
  <2> QED BY <2>6, <2>7
<1>3. Len(ss) \in G
  <2>1. Len(ss) \in Nat
    BY LenProperties
  <2> HIDE DEF G
  <2> QED BY <1>1, <1>2, <2>1, NatSetInduction
<1>4. \E f : IsFlat(f, Len(ss))
  BY <1>3
<1> DEFINE f == CHOOSE f : IsFlat(f, Len(ss))
<1>5. IsFlat(f, Len(ss))
  BY <1>4
<1>6. FlattenSeq(ss) = f[Len(ss)]
  BY DEF FlattenSeq
<1> QED BY <1>5, <1>6

(* Two sequences without repetitions and without a common element. *)
LEMMA InjectiveConcat ==
  ASSUME NEW T, NEW s \in Seq(T), NEW t \in Seq(T), IsInjective(s), IsInjective(t),
         ToSet(s) \cap ToSet(t) = {}
  PROVE  IsInjective(s \o t)
<1>1. /\ s \o t \in Seq(T) /\ Len(s) \in Nat /\ Len(t) \in Nat
      /\ Len(s \o t) = Len(s) + Len(t)
      /\ \A i \in 1..(Len(s) + Len(t)) :
           (s \o t)[i] = IF i <= Len(s) THEN s[i] ELSE t[i - Len(s)]
      /\ DOMAIN s = 1..Len(s) /\ DOMAIN t = 1..Len(t)
      /\ DOMAIN (s \o t) = 1..(Len(s) + Len(t))
  BY ConcatProperties, LenProperties
<1> SUFFICES ASSUME NEW i \in 1..(Len(s) + Len(t)), NEW j \in 1..(Len(s) + Len(t)),
                    (s \o t)[i] = (s \o t)[j]
             PROVE  i = j
  BY <1>1 DEF IsInjective
<1>2. /\ \A k \in 1..Len(s) : s[k] \in ToSet(s)
      /\ \A k \in 1..Len(t) : t[k] \in ToSet(t)
  BY ToSetProperties
<1>3. CASE i <= Len(s) /\ j <= Len(s)
  BY <1>1, <1>3 DEF IsInjective
<1>4. CASE ~(i <= Len(s)) /\ ~(j <= Len(s))
  <2>1. i - Len(s) \in 1..Len(t) /\ j - Len(s) \in 1..Len(t)
    BY <1>1, <1>4
  <2>2. t[i - Len(s)] = t[j - Len(s)]
    BY <1>1, <1>4
  <2>3. i - Len(s) = j - Len(s)
    BY <1>1, <2>1, <2>2 DEF IsInjective
  <2> QED BY <1>1, <2>3
<1>5. CASE i <= Len(s) /\ ~(j <= Len(s))
  <2>1. i \in 1..Len(s) /\ j - Len(s) \in 1..Len(t) /\ s[i] = t[j - Len(s)]
    BY <1>1, <1>5
  <2> QED BY <1>2, <2>1
<1>6. CASE ~(i <= Len(s)) /\ j <= Len(s)
  <2>1. j \in 1..Len(s) /\ i - Len(s) \in 1..Len(t) /\ s[j] = t[i - Len(s)]
    BY <1>1, <1>6
  <2> QED BY <1>2, <2>1
<1> QED BY <1>3, <1>4, <1>5, <1>6

(* A flattened list holds what its parts hold, and has no repetitions if no *)
(* part has any and no two parts have an element in common.                 *)
LEMMA FlattenProperties ==
  ASSUME NEW T, NEW ss \in Seq(Seq(T))
  PROVE  /\ FlattenSeq(ss) \in Seq(T)
         /\ \A x : x \in ToSet(FlattenSeq(ss)) <=> \E i \in 1..Len(ss) : x \in ToSet(ss[i])
         /\ /\ \A i \in 1..Len(ss) : IsInjective(ss[i])
            /\ \A i, j \in 1..Len(ss) : i # j => ToSet(ss[i]) \cap ToSet(ss[j]) = {}
            => IsInjective(FlattenSeq(ss))
<1>1. Len(ss) \in Nat /\ \A i \in 1..Len(ss) : ss[i] \in Seq(T)
  BY LenProperties, ElementOfSeq
<1>2. CASE Len(ss) = 0
  <2>1. ss = <<>> /\ FlattenSeq(ss) = <<>>
    BY <1>2, EmptySeq DEF FlattenSeq
  <2>2. <<>> \in Seq(T) /\ DOMAIN <<>> = {}
    BY EmptySeq, LenProperties
  <2>3. ToSet(<<>>) = {} /\ IsInjective(<<>>)
    BY <2>2 DEF ToSet, IsInjective
  <2>4. 1..Len(ss) = {}
    BY <1>2
  <2> QED BY <2>1, <2>2, <2>3, <2>4
<1>3. CASE Len(ss) # 0
  <2>1. PICK f : /\ f = [n \in 1..Len(ss) |-> IF n = 1 THEN ss[n] ELSE f[n - 1] \o ss[n]]
                 /\ FlattenSeq(ss) = f[Len(ss)]
    BY <1>3, FlattenRecursion
  <2> DEFINE Apart == /\ \A i \in 1..Len(ss) : IsInjective(ss[i])
                      /\ \A i, j \in 1..Len(ss) : i # j => ToSet(ss[i]) \cap ToSet(ss[j]) = {}
             Holds(n) == /\ f[n] \in Seq(T)
                         /\ \A x : x \in ToSet(f[n]) <=> \E i \in 1..n : x \in ToSet(ss[i])
                         /\ Apart => IsInjective(f[n])
             G == {n \in Nat : n \in 1..Len(ss) => Holds(n)}
  <2> HIDE DEF Holds
  <2>2. 0 \in G
    OBVIOUS
  <2>3. ASSUME NEW n \in Nat, n \in G
        PROVE  n + 1 \in G
    <3> SUFFICES ASSUME n + 1 \in 1..Len(ss)
                 PROVE  Holds(n + 1)
      OBVIOUS
    <3>1. CASE n = 0
      <4>1. f[1] = ss[1] /\ 1 \in 1..Len(ss) /\ n + 1 = 1
        BY <2>1, <3>1
      <4>2. \A i : i \in 1..1 <=> i = 1
        OBVIOUS
      <4>3. \A x : x \in ToSet(f[1]) <=> \E i \in 1..1 : x \in ToSet(ss[i])
        BY <4>1, <4>2
      <4> QED BY <1>1, <4>1, <4>3 DEF Holds
    <3>2. CASE n # 0
      <4>1. n \in 1..Len(ss) /\ n + 1 # 1 /\ (n + 1) - 1 = n
        BY <1>1, <3>2
      <4>2. Holds(n)
        BY <2>3, <4>1 DEF Holds
      <4>3. f[n + 1] = f[n] \o ss[n + 1]
        BY <2>1, <4>1
      <4>4. ss[n + 1] \in Seq(T)
        BY <1>1
      <4>5. f[n + 1] \in Seq(T)
        BY <4>2, <4>3, <4>4, ConcatProperties DEF Holds
      <4>6. ToSet(f[n + 1]) = ToSet(f[n]) \cup ToSet(ss[n + 1])
        BY <4>2, <4>3, <4>4, ToSetConcat DEF Holds
      <4>7. \A i : i \in 1..(n + 1) <=> i \in 1..n \/ i = n + 1
        OBVIOUS
      <4>8. \A x : x \in ToSet(f[n + 1]) <=> \E i \in 1..(n + 1) : x \in ToSet(ss[i])
        BY <4>2, <4>6, <4>7 DEF Holds
      <4>9. ASSUME Apart
            PROVE  IsInjective(f[n + 1])
        <5>1. \A i \in 1..n : i \in 1..Len(ss) /\ i # n + 1
          BY <1>1, <4>1
        <5>2. ToSet(f[n]) \cap ToSet(ss[n + 1]) = {}
          BY <4>2, <4>9, <5>1 DEF Holds
        <5>3. IsInjective(f[n]) /\ IsInjective(ss[n + 1])
          BY <4>2, <4>9 DEF Holds
        <5> QED BY <4>2, <4>3, <4>4, <5>2, <5>3, InjectiveConcat DEF Holds
      <4> QED BY <4>5, <4>8, <4>9 DEF Holds
    <3> QED BY <3>1, <3>2
  <2> HIDE DEF G
  <2>4. Len(ss) \in G
    BY <1>1, <2>2, <2>3, NatSetInduction
  <2>5. Len(ss) \in 1..Len(ss)
    BY <1>1, <1>3
  <2>6. Holds(Len(ss))
    BY <2>4, <2>5 DEF G
  <2> QED BY <2>1, <2>6 DEF Holds
<1> QED BY <1>2, <1>3

(* r has the elements of s, each at a position of its own. *)
Shuffled(s, r) ==
  /\ Len(r) = Len(s)
  /\ \E h \in [1..Len(s) -> 1..Len(s)] :
       /\ \A i \in 1..Len(s) : r[i] = s[h[i]]
       /\ \A i, j \in 1..Len(s) : i # j => h[i] # h[j]
       /\ \A k \in 1..Len(s) : \E i \in 1..Len(s) : h[i] = k

(* Reverse only shuffles.                                                   *)
LEMMA ReverseProperties ==
  ASSUME NEW T, NEW s \in Seq(T)
  PROVE  Reverse(s) \in Seq(T) /\ Shuffled(s, Reverse(s))
<1>1. Len(s) \in Nat /\ \A i \in 1..Len(s) : s[i] \in T
  BY LenProperties, ElementOfSeq
<1> DEFINE h == [i \in 1..Len(s) |-> (Len(s) - i) + 1]
<1>2. \A i \in 1..Len(s) : h[i] \in 1..Len(s) /\ h[i] = (Len(s) - i) + 1
  BY <1>1
<1>3. h \in [1..Len(s) -> 1..Len(s)]
  BY <1>2
<1>4. Reverse(s) = [i \in 1..Len(s) |-> s[h[i]]]
  BY <1>2 DEF Reverse
<1>5. \A i, j \in 1..Len(s) : i # j => h[i] # h[j]
  BY <1>1, <1>2
<1>6. \A k \in 1..Len(s) : (Len(s) - k) + 1 \in 1..Len(s) /\ h[(Len(s) - k) + 1] = k
  BY <1>1, <1>2
<1> HIDE DEF h
<1>7. Reverse(s) \in [1..Len(s) -> T]
  BY <1>1, <1>2, <1>4
<1>8. Reverse(s) \in Seq(T) /\ Len(Reverse(s)) = Len(s)
  BY <1>1, <1>7, SeqDef, LenProperties
<1>9. \A i \in 1..Len(s) : Reverse(s)[i] = s[h[i]]
  BY <1>4
<1>10. \A k \in 1..Len(s) : \E i \in 1..Len(s) : h[i] = k
  BY <1>6
<1> QED BY <1>3, <1>5, <1>8, <1>9, <1>10 DEF Shuffled
============================================================================
