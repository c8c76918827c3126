---------------------------- MODULE QueueLemmas ----------------------------
(***************************************************************************)
(* Facts about the queues the models are built from: what appending,       *)
(* popping, erasing and searching do to the set of a sequence's members    *)
(* and to the property of having no member twice.  The least number        *)
(* principle stands in for induction.                                      *)
(***************************************************************************)
EXTENDS SequencesExt, SequenceTheorems, WellFoundedInduction, TLAPS

(* A set of natural numbers has a least element, which Min returns.        *)
LEMMA LeastNumber ==
  ASSUME NEW I \in SUBSET Nat, I # {}
  PROVE  /\ Min(I) \in I
         /\ \A i \in I : Min(I) <= i
<1> DEFINE R == {p \in Nat \X Nat : p[1] < p[2]}
<1>1. IsWellFoundedOn(R, Nat)
  <2>1. R = OpToRel(<, Nat)
    BY DEF OpToRel
  <2> QED
    BY <2>1, NatLessThanWellFounded
<1>2. \E x \in I : \A y \in I : <<y, x>> \notin R
  <2> HIDE DEF R
  <2> QED
    BY <1>1, WFMin
<1>3. PICK x \in I : \A y \in I : <<y, x>> \notin R
  BY <1>2
<1>4. ASSUME NEW y \in I PROVE x <= y
  <2>1. <<y, x>> \notin R
    BY <1>3
  <2>2. <<y, x>> \in Nat \X Nat
    OBVIOUS
  <2> QED
    BY <2>1, <2>2
<1> QED
  BY <1>4 DEF Min

(* The members of a sequence, by position.                                 *)
LEMMA Members ==
  ASSUME NEW S, NEW s \in Seq(S)
  PROVE  /\ ToSet(s) \subseteq S
         /\ \A i \in 1 .. Len(s) : s[i] \in ToSet(s)
         /\ \A x \in ToSet(s) : \E i \in 1 .. Len(s) : x = s[i]
         /\ \A x : Contains(s, x) <=> x \in ToSet(s)
         /\ ToSet(s) = {} <=> s = << >>
<1>1. DOMAIN s = 1 .. Len(s) /\ Len(s) \in Nat /\ \A i \in 1 .. Len(s) : s[i] \in S
  OBVIOUS
<1>2. ToSet(s) = {s[i] : i \in 1 .. Len(s)}
  BY <1>1 DEF ToSet
<1>3. ToSet(s) = {} => s = << >>
  <2>1. SUFFICES ASSUME ToSet(s) = {} PROVE Len(s) = 0
    BY EmptySeq
  <2>2. 1 \notin 1 .. Len(s)
    BY <1>2, <2>1
  <2> QED
    BY <1>1, <2>2
<1>4. s = << >> => ToSet(s) = {}
  BY <1>2
<1> QED
  BY <1>1, <1>2, <1>3, <1>4 DEF Contains

(* Having no member twice, by position.                                    *)
LEMMA Injective ==
  ASSUME NEW S, NEW s \in Seq(S)
  PROVE  IsInjective(s) <=>
           \A i, j \in 1 .. Len(s) : s[i] = s[j] => i = j
<1>1. DOMAIN s = 1 .. Len(s)
  OBVIOUS
<1> QED
  BY <1>1 DEF IsInjective

(* Appending adds one member; a new one appears once.                      *)
LEMMA AppendMembers ==
  ASSUME NEW S, NEW s \in Seq(S), NEW e \in S
  PROVE  /\ Append(s, e) \in Seq(S)
         /\ Append(s, e) # << >>
         /\ ToSet(Append(s, e)) = ToSet(s) \cup {e}
         /\ IsInjective(s) /\ e \notin ToSet(s) => IsInjective(Append(s, e))
<1> DEFINE t == Append(s, e)
<1>1. /\ t \in Seq(S) /\ Len(s) \in Nat /\ Len(t) = Len(s) + 1
      /\ \A i \in 1 .. Len(s) : t[i] = s[i]
      /\ t[Len(s) + 1] = e
      /\ t # << >>
  BY AppendProperties
<1> HIDE DEF t
<1>2. ToSet(t) = ToSet(s) \cup {e}
  <2>1. ASSUME NEW x \in ToSet(t) PROVE x \in ToSet(s) \cup {e}
    <3>1. PICK i \in 1 .. Len(t) : x = t[i]
      BY <1>1, Members
    <3>2. CASE i = Len(s) + 1
      BY <1>1, <3>1, <3>2
    <3>3. CASE i \in 1 .. Len(s)
      BY <1>1, <3>1, <3>3, Members
    <3> QED
      BY <1>1, <3>2, <3>3
  <2>2. ASSUME NEW x \in ToSet(s) PROVE x \in ToSet(t)
    <3>1. PICK i \in 1 .. Len(s) : x = s[i]
      BY Members
    <3>2. i \in 1 .. Len(t) /\ x = t[i]
      BY <1>1, <3>1
    <3> QED
      BY <1>1, <3>2, Members
  <2>3. e \in ToSet(t)
    <3>1. Len(s) + 1 \in 1 .. Len(t)
      BY <1>1
    <3> QED
      BY <1>1, <3>1, Members
  <2> QED
    BY <2>1, <2>2, <2>3
<1>3. ASSUME IsInjective(s), e \notin ToSet(s) PROVE IsInjective(t)
  <2>1. ASSUME NEW i \in 1 .. Len(t), NEW j \in 1 .. Len(t), t[i] = t[j]
        PROVE  i = j
    <3>1. \A k \in 1 .. Len(s) : s[k] # e
      BY <1>3, Members
    <3>2. \A k, l \in 1 .. Len(s) : s[k] = s[l] => k = l
      BY <1>3, Injective
    <3> QED
      BY <1>1, <2>1, <3>1, <3>2
  <2> QED
    BY <1>1, <2>1, Injective
<1> QED
  BY <1>1, <1>2, <1>3 DEF t

(* Concatenation has the members of both, once each if they are disjoint.  *)
LEMMA ConcatMembers ==
  ASSUME NEW S, NEW s \in Seq(S), NEW t \in Seq(S)
  PROVE  /\ s \o t \in Seq(S)
         /\ ToSet(s \o t) = ToSet(s) \cup ToSet(t)
         /\ /\ IsInjective(s) /\ IsInjective(t)
            /\ ToSet(s) \cap ToSet(t) = {}
            => IsInjective(s \o t)
<1> DEFINE u == s \o t
<1>1. /\ u \in Seq(S) /\ Len(s) \in Nat /\ Len(t) \in Nat
      /\ Len(u) = Len(s) + Len(t)
      /\ \A i \in 1 .. Len(u) : u[i] = IF i <= Len(s) THEN s[i] ELSE t[i - Len(s)]
  BY ConcatProperties
<1> HIDE DEF u
<1>2. ASSUME NEW i \in 1 .. Len(u)
      PROVE  \/ i \in 1 .. Len(s) /\ u[i] = s[i] /\ u[i] \in ToSet(s)
             \/ /\ i \notin 1 .. Len(s) /\ i - Len(s) \in 1 .. Len(t)
                /\ u[i] = t[i - Len(s)] /\ u[i] \in ToSet(t)
  <2>1. CASE i <= Len(s)
    <3>1. i \in 1 .. Len(s) /\ u[i] = s[i]
      BY <1>1, <2>1
    <3> QED
      BY <3>1, Members
  <2>2. CASE ~(i <= Len(s))
    <3>1. i \notin 1 .. Len(s) /\ i - Len(s) \in 1 .. Len(t) /\ u[i] = t[i - Len(s)]
      BY <1>1, <2>2
    <3> QED
      BY <3>1, Members
  <2> QED
    BY <2>1, <2>2
<1>3. ToSet(u) \subseteq ToSet(s) \cup ToSet(t)
  <2>1. SUFFICES ASSUME NEW x \in ToSet(u) PROVE x \in ToSet(s) \cup ToSet(t)
    OBVIOUS
  <2>2. PICK i \in 1 .. Len(u) : x = u[i]
    BY <1>1, Members
  <2> QED
    BY <1>2, <2>2
<1>4. ASSUME NEW x \in ToSet(s) PROVE x \in ToSet(u)
  <2>1. PICK i \in 1 .. Len(s) : x = s[i]
    BY Members
  <2>2. i \in 1 .. Len(u) /\ u[i] = s[i]
    BY <1>1, <2>1
  <2> QED
    BY <1>1, <2>1, <2>2, Members
<1>5. ASSUME NEW x \in ToSet(t) PROVE x \in ToSet(u)
  <2>1. PICK i \in 1 .. Len(t) : x = t[i]
    BY Members
  <2>2. i + Len(s) \in 1 .. Len(u) /\ ~(i + Len(s) <= Len(s)) /\ (i + Len(s)) - Len(s) = i
    BY <1>1, <2>1
  <2>3. u[i + Len(s)] = t[i]
    BY <1>1, <2>2
  <2> QED
    BY <1>1, <2>1, <2>2, <2>3, Members
<1>6. ASSUME IsInjective(s), IsInjective(t), ToSet(s) \cap ToSet(t) = {}
      PROVE  IsInjective(u)
  <2>1. /\ \A i, j \in 1 .. Len(s) : s[i] = s[j] => i = j
        /\ \A i, j \in 1 .. Len(t) : t[i] = t[j] => i = j
    BY <1>6, Injective
  <2>2. ASSUME NEW i \in 1 .. Len(u), NEW j \in 1 .. Len(u), u[i] = u[j] PROVE i = j
    <3>1. CASE u[i] \in ToSet(s)
      <4>1. u[i] \notin ToSet(t) /\ u[j] \notin ToSet(t)
        BY <1>6, <2>2, <3>1
      <4>2. i \in 1 .. Len(s) /\ u[i] = s[i] /\ j \in 1 .. Len(s) /\ u[j] = s[j]
        BY <1>2, <4>1
      <4> QED
        BY <2>1, <2>2, <4>2
    <3>2. CASE u[i] \notin ToSet(s)
      <4>1. u[j] \notin ToSet(s)
        BY <2>2, <3>2
      <4>2. /\ i - Len(s) \in 1 .. Len(t) /\ u[i] = t[i - Len(s)]
            /\ j - Len(s) \in 1 .. Len(t) /\ u[j] = t[j - Len(s)]
        BY <1>2, <3>2, <4>1
      <4>3. i - Len(s) = j - Len(s)
        BY <2>1, <2>2, <4>2
      <4> QED
        BY <1>1, <4>3
    <3> QED
      BY <3>1, <3>2
  <2> QED
    BY <1>1, <2>2, Injective
<1> QED
  BY <1>1, <1>3, <1>4, <1>5, <1>6 DEF u

(* The rest of a sequence from position k, as successive pops leave it.    *)
LEMMA SuffixMembers ==
  ASSUME NEW S, NEW s \in Seq(S), NEW k \in 1 .. Len(s)
  PROVE  LET t == SubSeq(s, k, Len(s)) IN
           /\ t \in Seq(S) /\ t # << >>
           /\ Head(t) = s[k]
           /\ ToSet(t) \subseteq ToSet(s)
           /\ \A i \in k .. Len(s) : s[i] \in ToSet(t)
           /\ IsInjective(s) => IsInjective(t)
<1> DEFINE t == SubSeq(s, k, Len(s))
<1>1. /\ t \in Seq(S) /\ Len(s) \in Nat /\ Len(t) = Len(s) - k + 1
      /\ \A i \in 1 .. Len(s) - k + 1 : t[i] = s[k + i - 1]
  <2>1. /\ k \in 1 .. Len(s) + 1 /\ Len(s) \in Nat
        /\ Len(s) \in k - 1 .. Len(s)
    OBVIOUS
  <2> QED
    BY <2>1, SubSeqProperties
<1> HIDE DEF t
<1>2. t # << >> /\ Head(t) = s[k]
  BY <1>1, EmptySeq
<1>3. ASSUME NEW x \in ToSet(t) PROVE x \in ToSet(s)
  <2>1. PICK i \in 1 .. Len(t) : x = t[i]
    BY <1>1, Members
  <2>2. k + i - 1 \in 1 .. Len(s) /\ x = s[k + i - 1]
    BY <1>1, <2>1
  <2> QED
    BY <2>2, Members
<1>4. ASSUME NEW i \in k .. Len(s) PROVE s[i] \in ToSet(t)
  <2>1. PICK j \in 1 .. Len(t) : i = k + j - 1
    <3>1. i - k + 1 \in 1 .. Len(t) /\ i = k + (i - k + 1) - 1
      BY <1>1
    <3> QED
      BY <3>1
  <2>2. t[j] = s[i]
    BY <1>1, <2>1
  <2> QED
    BY <1>1, <2>2, Members
<1>5. ASSUME IsInjective(s) PROVE IsInjective(t)
  <2>1. ASSUME NEW i \in 1 .. Len(t), NEW j \in 1 .. Len(t), t[i] = t[j]
        PROVE  i = j
    <3>1. \A m, n \in 1 .. Len(s) : s[m] = s[n] => m = n
      BY <1>5, Injective
    <3>2. k + i - 1 \in 1 .. Len(s) /\ k + j - 1 \in 1 .. Len(s)
      BY <1>1
    <3>3. s[k + i - 1] = s[k + j - 1]
      BY <1>1, <2>1
    <3> QED
      BY <3>1, <3>2, <3>3
  <2> QED
    BY <1>1, <2>1, Injective
<1> QED
  BY <1>1, <1>2, <1>3, <1>4, <1>5 DEF t

(* Popping the head.                                                       *)
LEMMA TailMembers ==
  ASSUME NEW S, NEW s \in Seq(S), s # << >>
  PROVE  /\ Tail(s) \in Seq(S)
         /\ Head(s) \in S
         /\ ToSet(s) = ToSet(Tail(s)) \cup {Head(s)}
         /\ IsInjective(s) => /\ IsInjective(Tail(s))
                              /\ Head(s) \notin ToSet(Tail(s))
<1> DEFINE t == Tail(s)
<1>1. /\ t \in Seq(S) /\ Len(s) \in Nat \ {0} /\ Len(t) = Len(s) - 1
      /\ \A i \in 1 .. Len(s) - 1 : t[i] = s[i + 1]
      /\ Head(s) = s[1] /\ s[1] \in S
  <2>1. Len(s) \in Nat \ {0}
    BY EmptySeq
  <2> QED
    BY <2>1, HeadTailProperties
<1> HIDE DEF t
<1>2. ASSUME NEW x \in ToSet(t) PROVE x \in ToSet(s)
  <2>1. PICK i \in 1 .. Len(t) : x = t[i]
    BY <1>1, Members
  <2>2. i + 1 \in 1 .. Len(s) /\ x = s[i + 1]
    BY <1>1, <2>1
  <2> QED
    BY <2>2, Members
<1>3. Head(s) \in ToSet(s)
  <2>1. 1 \in 1 .. Len(s)
    BY <1>1
  <2> QED
    BY <1>1, <2>1, Members
<1>4. ASSUME NEW x \in ToSet(s), x # Head(s) PROVE x \in ToSet(t)
  <2>1. PICK i \in 1 .. Len(s) : x = s[i]
    BY Members
  <2>2. i - 1 \in 1 .. Len(t) /\ x = t[i - 1]
    BY <1>1, <1>4, <2>1
  <2> QED
    BY <1>1, <2>2, Members
<1>5. ASSUME IsInjective(s) PROVE IsInjective(t) /\ Head(s) \notin ToSet(t)
  <2>1. \A m, n \in 1 .. Len(s) : s[m] = s[n] => m = n
    BY <1>5, Injective
  <2>2. ASSUME NEW i \in 1 .. Len(t), NEW j \in 1 .. Len(t), t[i] = t[j]
        PROVE  i = j
    <3>1. /\ i + 1 \in 1 .. Len(s) /\ j + 1 \in 1 .. Len(s)
          /\ s[i + 1] = s[j + 1]
      BY <1>1, <2>2
    <3> QED
      BY <2>1, <3>1
  <2>3. ASSUME NEW i \in 1 .. Len(t), t[i] = s[1] PROVE FALSE
    <3>1. 1 \in 1 .. Len(s) /\ i + 1 \in 1 .. Len(s) /\ s[i + 1] = s[1]
      BY <1>1, <2>3
    <3>2. i + 1 = 1
      BY <2>1, <3>1
    <3> QED
      BY <3>2
  <2>4. Head(s) \notin ToSet(t)
    BY <1>1, <2>3, Members
  <2> QED
    BY <1>1, <2>2, <2>4, Injective
<1> QED
  BY <1>1, <1>2, <1>3, <1>4, <1>5 DEF t

(* Erasing position k keeps every other position's member, in order.       *)
LEMMA RemoveAtMembers ==
  ASSUME NEW S, NEW s \in Seq(S), NEW k \in 1 .. Len(s)
  PROVE  /\ RemoveAt(s, k) \in Seq(S)
         /\ ToSet(RemoveAt(s, k)) = {s[i] : i \in (1 .. Len(s)) \ {k}}
         /\ IsInjective(s) => IsInjective(RemoveAt(s, k))
<1> DEFINE a == SubSeq(s, 1, k - 1)
           b == SubSeq(s, k + 1, Len(s))
           t == a \o b
<1>1. Len(s) \in Nat /\ k \in Nat
  OBVIOUS
<1>2. /\ a \in Seq(S) /\ Len(a) = k - 1
      /\ \A i \in 1 .. k - 1 : a[i] = s[i]
  <2>1. 1 \in 1 .. Len(s) + 1 /\ k - 1 \in 1 - 1 .. Len(s)
    BY <1>1
  <2> QED
    BY <1>1, <2>1, SubSeqProperties
<1>3. /\ b \in Seq(S) /\ Len(b) = Len(s) - k
      /\ \A i \in 1 .. Len(s) - k : b[i] = s[k + i]
  <2>1. k + 1 \in 1 .. Len(s) + 1 /\ Len(s) \in (k + 1) - 1 .. Len(s)
    BY <1>1
  <2> QED
    BY <1>1, <2>1, SubSeqProperties
<1> HIDE DEF a, b
<1>4. /\ t \in Seq(S) /\ Len(t) = Len(s) - 1
      /\ \A i \in 1 .. Len(s) - 1 : t[i] = IF i < k THEN s[i] ELSE s[i + 1]
  <2>1. /\ t \in Seq(S) /\ Len(t) = Len(a) + Len(b)
        /\ \A i \in 1 .. Len(t) : t[i] = IF i <= Len(a) THEN a[i]
                                         ELSE b[i - Len(a)]
    <3>1. \A x, y \in Seq(S) :
            /\ x \o y \in Seq(S) /\ Len(x \o y) = Len(x) + Len(y)
            /\ \A i \in 1 .. Len(x) + Len(y) :
                 (x \o y)[i] = IF i <= Len(x) THEN x[i] ELSE y[i - Len(x)]
      BY ConcatProperties
    <3>2. Len(t) = Len(a) + Len(b)
      BY <1>2, <1>3, <3>1
    <3>3. t \in Seq(S)
      BY <1>2, <1>3
    <3>4. \A i \in 1 .. Len(a) + Len(b) :
            t[i] = IF i <= Len(a) THEN a[i] ELSE b[i - Len(a)]
      BY <1>2, <1>3, <3>1, Zenon
    <3> QED
      BY <3>2, <3>3, <3>4
  <2> QED
    BY <1>1, <1>2, <1>3, <2>1
<1>5. t = RemoveAt(s, k)
  BY DEF RemoveAt, a, b
<1> HIDE DEF t
<1>6. ASSUME NEW x \in ToSet(t) PROVE \E i \in (1 .. Len(s)) \ {k} : x = s[i]
  <2>1. PICK i \in 1 .. Len(t) : x = t[i]
    BY <1>4, Members
  <2>2. CASE i < k
    <3>1. i \in (1 .. Len(s)) \ {k} /\ x = s[i]
      BY <1>1, <1>4, <2>1, <2>2
    <3> QED
      BY <3>1
  <2>3. CASE ~(i < k)
    <3>1. i + 1 \in (1 .. Len(s)) \ {k} /\ x = s[i + 1]
      BY <1>1, <1>4, <2>1, <2>3
    <3> QED
      BY <3>1
  <2> QED
    BY <2>2, <2>3
<1>7. ASSUME NEW i \in (1 .. Len(s)) \ {k} PROVE s[i] \in ToSet(t)
  <2>1. CASE i < k
    <3>1. i \in 1 .. Len(t) /\ t[i] = s[i]
      BY <1>1, <1>4, <2>1
    <3> QED
      BY <1>4, <3>1, Members
  <2>2. CASE ~(i < k)
    <3>1. PICK j \in 1 .. Len(t) : i = j + 1
      <4>1. i - 1 \in 1 .. Len(t) /\ i = (i - 1) + 1
        BY <1>1, <1>4, <2>2
      <4> QED
        BY <4>1
    <3>2. t[j] = s[i]
      BY <1>1, <1>4, <2>2, <3>1
    <3> QED
      BY <1>4, <3>1, <3>2, Members
  <2> QED
    BY <2>1, <2>2
<1>8. ASSUME IsInjective(s) PROVE IsInjective(t)
  <2>1. \A m, n \in 1 .. Len(s) : s[m] = s[n] => m = n
    BY <1>8, Injective
  <2>2. ASSUME NEW i \in 1 .. Len(t), NEW j \in 1 .. Len(t), t[i] = t[j]
        PROVE  i = j
    <3>1. /\ i \in 1 .. Len(s) /\ i + 1 \in 1 .. Len(s)
          /\ j \in 1 .. Len(s) /\ j + 1 \in 1 .. Len(s)
      BY <1>1, <1>4
    <3> QED
      BY <1>1, <1>4, <2>1, <2>2, <3>1
  <2> QED
    BY <1>4, <2>2, Injective
<1> QED
  BY <1>4, <1>5, <1>6, <1>7, <1>8

(* Erasing the first occurrence of e: nothing else goes, and in a sequence *)
(* without repetitions e is gone.                                          *)
LEMMA RemoveFirstMembers ==
  ASSUME NEW S, NEW s \in Seq(S), NEW e
  PROVE  /\ RemoveFirst(s, e) \in Seq(S)
         /\ ToSet(RemoveFirst(s, e)) \subseteq ToSet(s)
         /\ ToSet(s) \ {e} \subseteq ToSet(RemoveFirst(s, e))
         /\ e \notin ToSet(s) => RemoveFirst(s, e) = s
         /\ IsInjective(s) =>
              /\ IsInjective(RemoveFirst(s, e))
              /\ ToSet(RemoveFirst(s, e)) = ToSet(s) \ {e}
<1>1. CASE e \notin ToSet(s)
  <2>1. RemoveFirst(s, e) = s
    BY <1>1, Members DEF RemoveFirst
  <2> QED
    BY <1>1, <2>1
<1>2. CASE e \in ToSet(s)
  <2> DEFINE I == {i \in 1 .. Len(s) : s[i] = e}
             k == Min(I)
  <2>1. I \in SUBSET Nat /\ I # {}
    BY <1>2, Members
  <2>2. k \in 1 .. Len(s) /\ s[k] = e
    <3> HIDE DEF I
    <3>1. Min(I) \in I
      BY <2>1, LeastNumber
    <3> QED
      BY <3>1 DEF I
  <2>3. RemoveFirst(s, e) = RemoveAt(s, k)
    BY <2>1 DEF RemoveFirst, SelectInSeq
  <2> HIDE DEF I, k
  <2>4. /\ RemoveAt(s, k) \in Seq(S)
        /\ ToSet(RemoveAt(s, k)) = {s[i] : i \in (1 .. Len(s)) \ {k}}
        /\ IsInjective(s) => IsInjective(RemoveAt(s, k))
    BY <2>2, RemoveAtMembers
  <2>5. \A x \in ToSet(s) : \E i \in 1 .. Len(s) : x = s[i]
    BY Members
  <2>6. \A i \in 1 .. Len(s) : s[i] \in ToSet(s)
    BY Members
  <2>7. IsInjective(s) => \A i \in (1 .. Len(s)) \ {k} : s[i] # e
    BY <2>2, Injective
  <2> QED
    BY <1>2, <2>2, <2>3, <2>4, <2>5, <2>6, <2>7
<1> QED
  BY <1>1, <1>2

\* The runs in X of a loop of n rounds that starts from start and whose
\* round k takes x to step[k][x].
LoopRun(X, start, n, step) ==
  {run \in [0 .. n -> X] :
     run[0] = start /\ \A k \in 1 .. n : run[k] = step[k][run[k - 1]]}

(* A loop whose rounds stay in X has a run.                                *)
LEMMA LoopRuns ==
  ASSUME NEW X, NEW start \in X, NEW n \in Nat, NEW step \in [1 .. n -> [X -> X]]
  PROVE  LoopRun(X, start, n, step) # {}
<1> DEFINE Runs(m) ==
      {run \in [0 .. m -> X] :
         run[0] = start /\ \A k \in 1 .. m : run[k] = step[k][run[k - 1]]}
           Bad == {m \in 0 .. n : Runs(m) = {}}
<1>1. Bad = {}
  <2>1. SUFFICES ASSUME Bad # {} PROVE FALSE
    OBVIOUS
  <2> DEFINE m == Min(Bad)
  <2>2. m \in Bad /\ \A j \in Bad : m <= j
    <3>1. Bad \in SUBSET Nat
      OBVIOUS
    <3> HIDE DEF Bad
    <3> QED
      BY <2>1, <3>1, LeastNumber
  <2> HIDE DEF m
  <2>3. m \in 0 .. n /\ Runs(m) = {}
    BY <2>2
  <2>4. m # 0
    <3>1. SUFFICES ASSUME m = 0 PROVE FALSE
      OBVIOUS
    <3> DEFINE g == [k \in 0 .. 0 |-> start]
    <3>2. g \in [0 .. 0 -> X] /\ g[0] = start /\ \A k \in 1 .. 0 : FALSE
      OBVIOUS
    <3> HIDE DEF g
    <3> QED
      BY <2>3, <3>1, <3>2
  <2>5. m - 1 \in 0 .. n /\ m - 1 \notin Bad
    <3>1. m - 1 \in 0 .. n /\ ~(m <= m - 1)
      BY <2>3, <2>4
    <3> HIDE DEF Bad
    <3> QED
      BY <2>2, <3>1
  <2>6. PICK r \in [0 .. m - 1 -> X] :
          r[0] = start /\ \A k \in 1 .. m - 1 : r[k] = step[k][r[k - 1]]
    <3>1. Runs(m - 1) # {}
      BY <2>5
    <3> QED
      BY <3>1
  <2> DEFINE last == step[m][r[m - 1]]
             g == [k \in 0 .. m |-> IF k = m THEN last ELSE r[k]]
  <2>7. last \in X
    <3>1. m \in 1 .. n /\ m - 1 \in 0 .. m - 1
      BY <2>3, <2>4
    <3>2. step[m] \in [X -> X] /\ r[m - 1] \in X
      BY <2>6, <3>1
    <3> QED
      BY <3>2
  <2>8. /\ g \in [0 .. m -> X] /\ g[m] = last
        /\ \A k \in 0 .. m - 1 : g[k] = r[k]
    <3> HIDE DEF last
    <3> QED
      BY <2>3, <2>4, <2>6, <2>7
  <2>9. ASSUME NEW k \in 1 .. m PROVE g[k] = step[k][g[k - 1]]
    <3>1. k - 1 \in 0 .. m - 1 /\ (k # m => k \in 1 .. m - 1 /\ k \in 0 .. m - 1)
      BY <2>3, <2>4
    <3> HIDE DEF g
    <3>2. CASE k = m
      BY <2>8, <3>1, <3>2
    <3>3. CASE k # m
      BY <2>6, <2>8, <3>1, <3>3
    <3> QED
      BY <3>2, <3>3
  <2>10. g[0] = start
    BY <2>3, <2>4, <2>6, <2>8
  <2> HIDE DEF g
  <2>11. g \in Runs(m)
    BY <2>8, <2>9, <2>10
  <2> QED
    BY <2>3, <2>11
<1>2. n \in 0 .. n
  OBVIOUS
<1>3. Runs(n) # {}
  BY <1>1, <1>2
<1> QED
  BY <1>3 DEF LoopRun

(* What holds before the first round and is kept by every round holds      *)
(* after each of them.                                                     *)
LEMMA LoopInvariant ==
  ASSUME NEW n \in Nat, NEW f, NEW X, f[0] \in X[0],
         \A k \in 1 .. n : f[k - 1] \in X[k - 1] => f[k] \in X[k]
  PROVE  \A k \in 0 .. n : f[k] \in X[k]
<1> DEFINE Bad == {k \in 0 .. n : f[k] \notin X[k]}
<1>1. SUFFICES ASSUME Bad # {} PROVE FALSE
  OBVIOUS
<1> DEFINE m == Min(Bad)
<1>2. m \in Bad /\ \A j \in Bad : m <= j
  <2>1. Bad \in SUBSET Nat
    OBVIOUS
  <2> HIDE DEF Bad
  <2> QED
    BY <1>1, <2>1, LeastNumber
<1> HIDE DEF m
<1>3. m \in 0 .. n /\ f[m] \notin X[m]
  BY <1>2
<1>4. m # 0
  BY <1>3
<1>5. m \in 1 .. n /\ m - 1 \in 0 .. n /\ ~(m <= m - 1)
  BY <1>3, <1>4
<1>6. m - 1 \notin Bad
  <2> HIDE DEF Bad
  <2> QED
    BY <1>2, <1>5
<1>7. f[m - 1] \in X[m - 1]
  BY <1>5, <1>6
<1> QED
  BY <1>3, <1>5, <1>7

=============================================================================
