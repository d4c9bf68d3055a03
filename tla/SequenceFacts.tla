--------------------------- MODULE SequenceFacts ----------------------------
(***************************************************************************)
(* What the operators of Sequences and SequencesExt that several modules   *)
(* use return, where the library of theorems does not say it.              *)
(***************************************************************************)
EXTENDS Naturals, Sequences, SequencesExt, SequenceTheorems,
        FunctionTheorems, FiniteSetTheorems, WellFoundedInduction, TLAPS

LEMMA LastIn ==
  ASSUME NEW S, NEW s \in Seq(S), s # <<>>
  PROVE  Last(s) \in S
BY EmptySeq, LenProperties DEF Last

LEMMA HeadTailIn ==
  ASSUME NEW S, NEW s \in Seq(S), s # <<>>
  PROVE  Head(s) \in S /\ Tail(s) \in Seq(S)
BY HeadTailProperties

LEMMA TailProperties ==
  ASSUME NEW S, NEW s \in Seq(S), s # <<>>
  PROVE  /\ Len(s) \in Nat \ {0} /\ Head(s) = s[1]
         /\ Tail(s) \in Seq(S) /\ Len(Tail(s)) = Len(s) - 1
         /\ \A i \in 1..Len(s) - 1 : Tail(s)[i] = s[i + 1]
<1>1. Len(s) \in Nat \ {0}
  BY EmptySeq, LenProperties
<1>. QED
  BY <1>1, HeadTailProperties

LEMMA FrontProperties ==
  ASSUME NEW S, NEW s \in Seq(S), s # <<>>
  PROVE  /\ Front(s) \in Seq(S)
         /\ Len(Front(s)) = Len(s) - 1
         /\ \A i \in 1..Len(s) - 1 : Front(s)[i] = s[i]
<1>. DEFINE n == Len(s) - 1
<1>1. n \in Nat
  BY EmptySeq
<1>2. \A i \in 1..n : s[i] \in S
  BY <1>1, LenProperties
<1>. HIDE DEF n
<1>3. /\ SubSeq(s, 1, n) \in Seq(S)
      /\ Len(SubSeq(s, 1, n)) = n
      /\ \A i \in 1..n : SubSeq(s, 1, n)[i] = s[i]
  BY <1>1, <1>2, SubSeqProperties
<1>. QED
  BY <1>3 DEF Front, n

LEMMA AppendLast ==
  ASSUME NEW S, NEW s \in Seq(S), NEW e \in S
  PROVE  Append(s, e) \in Seq(S) /\ Append(s, e) # <<>> /\ Last(Append(s, e)) = e
BY AppendProperties, LenProperties DEF Last

(* RemoveAt takes one entry out and closes the gap.                        *)
LEMMA RemoveAtProperties ==
  ASSUME NEW S, NEW s \in Seq(S), NEW i \in 1..Len(s)
  PROVE  /\ RemoveAt(s, i) \in Seq(S)
         /\ Len(RemoveAt(s, i)) = Len(s) - 1
         /\ \A j \in 1..Len(s) - 1 :
              RemoveAt(s, i)[j] = IF j < i THEN s[j] ELSE s[j + 1]
<1>. DEFINE front == SubSeq(s, 1, i - 1)
            back == SubSeq(s, i + 1, Len(s))
<1>1. Len(s) \in Nat /\ i \in Nat /\ i <= Len(s) /\ 1 <= i
  BY LenProperties
<1>2. \A j \in 1..Len(s) : s[j] \in S
  BY ElementOfSeq
<1>3. /\ front \in Seq(S) /\ Len(front) = i - 1
      /\ \A j \in 1..i - 1 : front[j] = s[j]
  <2>1. \A j \in 1..i - 1 : s[j] \in S
    BY <1>1, <1>2
  <2>. QED
    BY <1>1, <2>1, SubSeqProperties
<1>4. /\ back \in Seq(S) /\ Len(back) = Len(s) - i
      /\ \A j \in 1..Len(s) - i : back[j] = s[i + j]
  <2>1. \A j \in i + 1..Len(s) : s[j] \in S
    BY <1>1, <1>2
  <2>. QED
    BY <1>1, <2>1, SubSeqProperties
<1>. HIDE DEF front, back
<1>5. /\ front \o back \in Seq(S)
      /\ Len(front \o back) = Len(front) + Len(back)
      /\ \A j \in 1..Len(front) + Len(back) : (front \o back)[j] =
           IF j <= Len(front) THEN front[j] ELSE back[j - Len(front)]
  BY <1>3, <1>4, ConcatProperties
<1>6. Len(front) + Len(back) = Len(s) - 1
  BY <1>1, <1>3, <1>4
<1>7. ASSUME NEW j \in 1..Len(s) - 1
      PROVE  (front \o back)[j] = IF j < i THEN s[j] ELSE s[j + 1]
  <2>1. CASE j < i
    <3>1. j \in 1..i - 1
      BY <1>1, <2>1
    <3>. QED
      BY <1>1, <1>3, <1>5, <1>6, <2>1, <3>1
  <2>2. CASE ~(j < i)
    <3>1. j - (i - 1) \in 1..Len(s) - i /\ ~(j <= i - 1)
      BY <1>1, <2>2
    <3>2. back[j - (i - 1)] = s[i + (j - (i - 1))]
      BY <1>4, <3>1
    <3>3. i + (j - (i - 1)) = j + 1
      BY <1>1
    <3>. QED
      BY <1>3, <1>5, <1>6, <2>2, <3>1, <3>2, <3>3
  <2>. QED
    BY <2>1, <2>2
<1>. QED
  BY <1>5, <1>6, <1>7 DEF RemoveAt, front, back

LEMMA HasLeast ==
  ASSUME NEW T \in SUBSET Nat, T # {}
  PROVE  \E x \in T : \A y \in T : x <= y
<1>. DEFINE R == OpToRel(<, Nat)
<1>1. IsWellFoundedOn(R, Nat)
  BY NatLessThanWellFounded
<1>2. \A x, y \in Nat : y < x => <<y, x>> \in R
  BY DEF OpToRel
<1>. HIDE DEF R
<1>3. PICK x \in T : \A y \in T : <<y, x>> \notin R
  BY <1>1, WFMin
<1>4. ASSUME NEW y \in T
      PROVE  x <= y
  <2>1. x \in Nat /\ y \in Nat
    OBVIOUS
  <2>2. ~(y < x)
    BY <1>2, <1>3, <2>1
  <2>. QED
    BY <2>1, <2>2
<1>. QED
  BY <1>4

(* RemoveFirst is RemoveAt of a place where the element is.                *)
LEMMA RemovesFirst ==
  ASSUME NEW S, NEW s \in Seq(S), NEW e, Contains(s, e)
  PROVE  \E i \in 1..Len(s) : s[i] = e /\ RemoveFirst(s, e) = RemoveAt(s, i)
<1>. DEFINE I == {i \in 1..Len(s) : s[i] = e}
<1>1. \E i \in 1..Len(s) : s[i] = e
  BY DEF Contains
<1>2. I # {} /\ I \in SUBSET Nat
  BY <1>1
<1>3. Min(I) \in I
  BY <1>2, HasLeast DEF Min
<1>4. SelectInSeq(s, LAMBDA v : v = e) = Min(I)
  BY <1>2 DEF SelectInSeq
<1>5. RemoveFirst(s, e) = RemoveAt(s, Min(I))
  BY <1>1, <1>4 DEF RemoveFirst
<1>. QED
  BY <1>3, <1>5

-----------------------------------------------------------------------------
\* Where in s there are elements of C.
At(s, C) == {i \in 1..Len(s) : s[i] \in C}

\* Which elements of C there are in s, how many, and which is the last.
Of(s, C) == {s[i] : i \in At(s, C)}
CountOf(s, C) == Cardinality(At(s, C))
LastOf(s, C, x) == \E i \in At(s, C) : x = s[i] /\ \A j \in At(s, C) : j <= i

LEMMA AtEmpty == \A C : At(<<>>, C) = {}
BY DEF At

LEMMA AtNone ==
  ASSUME NEW S, NEW s \in Seq(S), NEW C, S \cap C = {}
  PROVE  At(s, C) = {}
BY ElementOfSeq DEF At

LEMMA AtAppend ==
  ASSUME NEW S, NEW s \in Seq(S), NEW e \in S, NEW C
  PROVE  At(Append(s, e), C) = At(s, C) \cup (IF e \in C THEN {Len(s) + 1} ELSE {})
<1>. DEFINE t == Append(s, e)
<1>1. /\ Len(s) \in Nat /\ Len(t) = Len(s) + 1
      /\ \A i \in 1..Len(s) : t[i] = s[i]
      /\ t[Len(s) + 1] = e
  BY AppendProperties, LenProperties
<1>. HIDE DEF t
<1>2. 1..Len(t) = 1..Len(s) \cup {Len(s) + 1} /\ Len(s) + 1 \notin 1..Len(s)
  BY <1>1
<1>3. At(t, C) = At(s, C) \cup (IF e \in C THEN {Len(s) + 1} ELSE {})
  BY <1>1, <1>2 DEF At
<1>. QED
  BY <1>3 DEF t

LEMMA AtTail ==
  ASSUME NEW S, NEW s \in Seq(S), s # <<>>, NEW C
  PROVE  At(Tail(s), C) = {i \in 1..Len(s) - 1 : i + 1 \in At(s, C)}
<1>1. Len(s) \in Nat \ {0}
  BY EmptySeq
<1>2. Len(Tail(s)) = Len(s) - 1 /\ \A i \in 1..Len(s) - 1 : Tail(s)[i] = s[i + 1]
  BY <1>1, HeadTailProperties
<1>3. \A i \in 1..Len(s) - 1 : i + 1 \in 1..Len(s)
  BY <1>1
<1>. QED
  BY <1>2, <1>3 DEF At

LEMMA AtHead ==
  ASSUME NEW S, NEW s \in Seq(S), s # <<>>, NEW C
  PROVE  Head(s) \in C <=> 1 \in At(s, C)
BY EmptySeq DEF At

LEMMA AppendOne ==
  ASSUME NEW S, NEW s \in Seq(S), NEW e \in S
  PROVE  s \o <<e>> = Append(s, e)
BY AppendIsConcat

LEMMA AtConcatOut ==
  ASSUME NEW S, NEW s \in Seq(S), NEW T, NEW t \in Seq(T), NEW C, T \cap C = {}
  PROVE  At(s \o t, C) = At(s, C)
<1>. DEFINE u == s \o t
<1>1. /\ Len(s) \in Nat /\ Len(t) \in Nat /\ Len(u) = Len(s) + Len(t)
      /\ \A i \in 1..Len(s) + Len(t) :
           u[i] = IF i <= Len(s) THEN s[i] ELSE t[i - Len(s)]
  <2>1. s \in Seq(S \cup T) /\ t \in Seq(S \cup T)
    BY SeqMonotonic
  <2>. QED
    BY <2>1, ConcatProperties, LenProperties
<1>2. \A i \in 1..Len(t) : t[i] \in T
  BY ElementOfSeq
<1>. HIDE DEF u
<1>3. ASSUME NEW i \in 1..Len(u), ~(i <= Len(s))
      PROVE  u[i] \notin C
  <2>1. i - Len(s) \in 1..Len(t)
    BY <1>1, <1>3
  <2>. QED
    BY <1>1, <1>2, <1>3, <2>1
<1>4. \A i \in 1..Len(s) : i \in 1..Len(u) /\ u[i] = s[i]
  BY <1>1
<1>5. \A i \in 1..Len(u) : i <= Len(s) => i \in 1..Len(s)
  BY <1>1
<1>6. At(u, C) = At(s, C)
  BY <1>3, <1>4, <1>5 DEF At
<1>. QED
  BY <1>6 DEF u

-----------------------------------------------------------------------------
(* The last element of a kind.                                             *)

LEMMA LastOfNone ==
  ASSUME NEW s, NEW C, NEW x, At(s, C) = {}
  PROVE  ~LastOf(s, C, x)
BY DEF LastOf

LEMMA LastOfIn ==
  ASSUME NEW s, NEW C, NEW x, LastOf(s, C, x)
  PROVE  x \in Of(s, C)
BY DEF LastOf, Of

LEMMA LastOfAppend ==
  ASSUME NEW S, NEW s \in Seq(S), NEW e \in S, NEW C, NEW x
  PROVE  LastOf(Append(s, e), C, x) <=> IF e \in C THEN x = e ELSE LastOf(s, C, x)
<1>. DEFINE t == Append(s, e)
<1>1. /\ Len(s) \in Nat
      /\ \A i \in 1..Len(s) : t[i] = s[i]
      /\ t[Len(s) + 1] = e
  BY AppendProperties, LenProperties
<1>2. At(t, C) = At(s, C) \cup (IF e \in C THEN {Len(s) + 1} ELSE {})
  BY AtAppend
<1>3. \A i \in At(s, C) : i \in 1..Len(s) /\ i \in Nat /\ i <= Len(s)
  BY <1>1 DEF At
<1>. HIDE DEF t
<1>4. CASE e \in C
  <2>1. At(t, C) = At(s, C) \cup {Len(s) + 1}
    BY <1>2, <1>4
  <2>2. \A i \in At(s, C) : ~(Len(s) + 1 <= i) /\ i <= Len(s) + 1
    BY <1>1, <1>3
  <2>3. Len(s) + 1 <= Len(s) + 1
    BY <1>1
  <2>4. LastOf(t, C, x) <=> x = t[Len(s) + 1]
    BY <2>1, <2>2, <2>3 DEF LastOf
  <2>. QED
    BY <1>1, <1>4, <2>4 DEF t
<1>5. CASE e \notin C
  <2>1. At(t, C) = At(s, C)
    BY <1>2, <1>5
  <2>2. LastOf(t, C, x) <=> LastOf(s, C, x)
    BY <1>1, <1>3, <2>1 DEF LastOf
  <2>. QED
    BY <1>5, <2>2 DEF t
<1>. QED
  BY <1>4, <1>5

LEMMA LastOfTail ==
  ASSUME NEW S, NEW s \in Seq(S), s # <<>>, NEW C, NEW x
  PROVE  /\ LastOf(Tail(s), C, x) => LastOf(s, C, x)
         /\ At(Tail(s), C) = {} /\ Head(s) \in C => LastOf(s, C, Head(s))
<1>. DEFINE t == Tail(s)
<1>1. Len(s) \in Nat \ {0}
  BY EmptySeq, LenProperties
<1>2. /\ Head(s) = s[1]
      /\ \A i \in 1..Len(s) - 1 : t[i] = s[i + 1]
  BY <1>1, HeadTailProperties
<1>3. At(t, C) = {i \in 1..Len(s) - 1 : i + 1 \in At(s, C)}
  BY AtTail
<1>4. \A i \in At(s, C) : i \in 1..Len(s)
  BY DEF At
<1>. HIDE DEF t
<1>5. ASSUME NEW i \in At(s, C), i # 1
      PROVE  i - 1 \in At(t, C) /\ (i - 1) + 1 = i
  BY <1>1, <1>3, <1>4, <1>5
<1>6. ASSUME NEW k \in At(t, C), x = t[k], \A j \in At(t, C) : j <= k
      PROVE  LastOf(s, C, x)
  <2>1. k \in 1..Len(s) - 1 /\ k + 1 \in At(s, C) /\ x = s[k + 1]
    BY <1>2, <1>3, <1>6
  <2>2. ASSUME NEW j \in At(s, C)
        PROVE  j <= k + 1
    <3>1. CASE j = 1
      BY <1>1, <2>1, <3>1
    <3>2. CASE j # 1
      <4>1. j - 1 <= k
        BY <1>5, <1>6, <3>2
      <4>. QED
        BY <1>1, <1>4, <2>1, <4>1
    <3>. QED
      BY <3>1, <3>2
  <2>. QED
    BY <2>1, <2>2 DEF LastOf
<1>7. ASSUME At(t, C) = {}, Head(s) \in C
      PROVE  LastOf(s, C, Head(s))
  <2>1. 1 \in At(s, C)
    BY <1>7, AtHead
  <2>2. \A j \in At(s, C) : j = 1
    BY <1>5, <1>7
  <2>. QED
    BY <1>2, <2>1, <2>2 DEF LastOf
<1>8. LastOf(t, C, x) => LastOf(s, C, x)
  BY <1>6 DEF LastOf
<1>. QED
  BY <1>7, <1>8 DEF t

LEMMA LastOfConcatOut ==
  ASSUME NEW S, NEW s \in Seq(S), NEW T, NEW t \in Seq(T), NEW C, T \cap C = {},
         NEW x
  PROVE  LastOf(s \o t, C, x) <=> LastOf(s, C, x)
<1>1. At(s \o t, C) = At(s, C)
  BY AtConcatOut
<1>2. \A i \in 1..Len(s) : (s \o t)[i] = s[i]
  <2>1. s \in Seq(S \cup T) /\ t \in Seq(S \cup T)
    BY SeqMonotonic
  <2>. QED
    BY <2>1, ConcatProperties, LenProperties
<1>3. \A i \in At(s, C) : (s \o t)[i] = s[i]
  BY <1>2 DEF At
<1>. QED
  BY <1>1, <1>3 DEF LastOf

LEMMA LastOfConcatIn ==
  ASSUME NEW S, NEW s \in Seq(S), NEW C, NEW t \in Seq(C), t # <<>>, NEW x
  PROVE  /\ LastOf(s \o t, C, x) <=> x = Last(t)
         /\ At(s \o t, C) # {}
<1>. DEFINE u == s \o t
            n == Len(s) + Len(t)
<1>1. /\ Len(s) \in Nat /\ Len(t) \in Nat \ {0} /\ Len(u) = n
      /\ \A i \in 1..n : u[i] = IF i <= Len(s) THEN s[i] ELSE t[i - Len(s)]
  <2>1. s \in Seq(S \cup C) /\ t \in Seq(S \cup C)
    BY SeqMonotonic
  <2>2. Len(t) # 0
    BY EmptySeq
  <2>. QED
    BY <2>1, <2>2, ConcatProperties, LenProperties
<1>2. n \in 1..n /\ ~(n <= Len(s)) /\ n - Len(s) = Len(t)
  BY <1>1
<1>3. u[n] = Last(t) /\ Last(t) \in C
  BY <1>1, <1>2, LastIn DEF Last
<1>. HIDE DEF u
<1>4. n \in At(u, C)
  BY <1>1, <1>2, <1>3 DEF At
<1>5. \A i \in At(u, C) : i \in 1..n
  BY <1>1 DEF At
<1>6. \A i \in At(u, C) : i <= n /\ (n <= i => i = n)
  BY <1>1, <1>5
<1>7. LastOf(u, C, x) <=> x = u[n]
  BY <1>4, <1>6 DEF LastOf
<1>. QED
  BY <1>3, <1>4, <1>7 DEF u

-----------------------------------------------------------------------------
(* How many elements of a kind there are.                                  *)

LEMMA AtFinite ==
  ASSUME NEW S, NEW s \in Seq(S), NEW C
  PROVE  IsFiniteSet(At(s, C)) /\ CountOf(s, C) \in Nat
<1>1. IsFiniteSet(1..Len(s))
  BY LenProperties, FS_Interval
<1>2. IsFiniteSet(At(s, C))
  BY <1>1, FS_Subset DEF At
<1>. QED
  BY <1>2, FS_CardinalityType DEF CountOf

LEMMA CountOfNone ==
  ASSUME NEW S, NEW s \in Seq(S), NEW C
  PROVE  CountOf(s, C) = 0 <=> At(s, C) = {}
BY AtFinite, FS_EmptySet DEF CountOf

LEMMA CountOfAppend ==
  ASSUME NEW S, NEW s \in Seq(S), NEW e \in S, NEW C
  PROVE  CountOf(Append(s, e), C) = IF e \in C THEN CountOf(s, C) + 1 ELSE CountOf(s, C)
<1>1. At(Append(s, e), C) = At(s, C) \cup (IF e \in C THEN {Len(s) + 1} ELSE {})
  BY AtAppend
<1>2. Len(s) + 1 \notin At(s, C)
  BY LenProperties DEF At
<1>3. CASE e \in C
  <2>1. At(Append(s, e), C) = At(s, C) \cup {Len(s) + 1}
    BY <1>1, <1>3
  <2>. QED
    BY <1>2, <1>3, <2>1, AtFinite, FS_AddElement DEF CountOf
<1>4. CASE e \notin C
  BY <1>1, <1>4 DEF CountOf
<1>. QED
  BY <1>3, <1>4

LEMMA CountOfTail ==
  ASSUME NEW S, NEW s \in Seq(S), s # <<>>, NEW C
  PROVE  CountOf(s, C) = IF Head(s) \in C THEN CountOf(Tail(s), C) + 1
                                          ELSE CountOf(Tail(s), C)
<1>. DEFINE T == At(Tail(s), C)
            A == At(s, C) \ {1}
            f == [i \in T |-> i + 1]
<1>1. Len(s) \in Nat \ {0} /\ \A i \in At(s, C) : i \in 1..Len(s)
  BY EmptySeq, LenProperties DEF At
<1>2. T = {i \in 1..Len(s) - 1 : i + 1 \in At(s, C)}
  BY AtTail
<1>3. IsFiniteSet(T) /\ IsFiniteSet(At(s, C))
  BY HeadTailIn, AtFinite
<1>. HIDE DEF T
<1>4. \A i \in T : i + 1 \in A /\ i \in Nat
  BY <1>1, <1>2
<1>5. \A j \in A : j - 1 \in T /\ (j - 1) + 1 = j
  BY <1>1, <1>2
<1>6. f \in Bijection(T, A)
  <2>1. f \in [T -> A]
    BY <1>4
  <2>2. \A i, j \in T : f[i] = f[j] => i = j
    BY <1>4
  <2>3. \A j \in A : \E i \in T : f[i] = j
    BY <1>5
  <2>. QED
    BY <2>1, <2>2, <2>3, Fun_IsBij
<1>7. Cardinality(A) = Cardinality(T)
  BY <1>3, <1>6, FS_Bijection DEF ExistsBijection
<1>8. Cardinality(A) = IF 1 \in At(s, C) THEN Cardinality(At(s, C)) - 1
                                         ELSE Cardinality(At(s, C))
  BY <1>3, FS_RemoveElement
<1>9. Cardinality(At(s, C)) \in Nat
  BY <1>3, FS_CardinalityType
<1>. QED
  BY <1>7, <1>8, <1>9, AtHead DEF CountOf, T

-----------------------------------------------------------------------------
(* All of this, by what is done to the sequence.                           *)

LEMMA KindsEmpty ==
  ASSUME NEW C
  PROVE  Of(<<>>, C) = {} /\ CountOf(<<>>, C) = 0 /\ \A x : ~LastOf(<<>>, C, x)
BY AtEmpty, FS_EmptySet DEF Of, CountOf, LastOf

LEMMA KindsAppend ==
  ASSUME NEW S, NEW s \in Seq(S), NEW e \in S, NEW C
  PROVE  /\ Of(Append(s, e), C) = Of(s, C) \cup (IF e \in C THEN {e} ELSE {})
         /\ CountOf(Append(s, e), C) = IF e \in C THEN CountOf(s, C) + 1 ELSE CountOf(s, C)
         /\ \A x : LastOf(Append(s, e), C, x) <=> IF e \in C THEN x = e ELSE LastOf(s, C, x)
<1>. DEFINE t == Append(s, e)
<1>1. At(t, C) = At(s, C) \cup (IF e \in C THEN {Len(s) + 1} ELSE {})
  BY AtAppend
<1>2. t[Len(s) + 1] = e /\ \A i \in At(s, C) : t[i] = s[i]
  BY AppendProperties, LenProperties DEF At
<1>. HIDE DEF t
<1>3. Of(t, C) = Of(s, C) \cup (IF e \in C THEN {e} ELSE {})
  BY <1>1, <1>2 DEF Of
<1>. QED
  BY <1>3, CountOfAppend, LastOfAppend DEF t

LEMMA OfAppend ==
  ASSUME NEW S, NEW s \in Seq(S), NEW e \in S, NEW C
  PROVE  /\ e \in C => Of(Append(s, e), C) = Of(s, C) \cup {e}
         /\ e \notin C => Of(Append(s, e), C) = Of(s, C)
<1>1. Of(Append(s, e), C) = Of(s, C) \cup (IF e \in C THEN {e} ELSE {})
  BY KindsAppend
<1>. HIDE DEF Of
<1>. QED
  BY <1>1

LEMMA KindsTail ==
  ASSUME NEW S, NEW s \in Seq(S), s # <<>>, NEW C
  PROVE  /\ Of(s, C) = Of(Tail(s), C) \cup (IF Head(s) \in C THEN {Head(s)} ELSE {})
         /\ CountOf(s, C) = IF Head(s) \in C THEN CountOf(Tail(s), C) + 1
                                             ELSE CountOf(Tail(s), C)
         /\ \A x : LastOf(Tail(s), C, x) => LastOf(s, C, x)
         /\ Of(Tail(s), C) = {} /\ Head(s) \in C => LastOf(s, C, Head(s))
<1>. DEFINE t == Tail(s)
<1>1. Len(s) \in Nat \ {0} /\ \A i \in At(s, C) : i \in 1..Len(s)
  BY EmptySeq, LenProperties DEF At
<1>2. /\ Head(s) = s[1]
      /\ \A i \in 1..Len(s) - 1 : t[i] = s[i + 1]
  BY <1>1, HeadTailProperties
<1>3. At(t, C) = {i \in 1..Len(s) - 1 : i + 1 \in At(s, C)}
  BY AtTail
<1>4. Head(s) \in C <=> 1 \in At(s, C)
  BY AtHead
<1>. HIDE DEF t
<1>5. ASSUME NEW i \in At(s, C), i # 1
      PROVE  i - 1 \in At(t, C) /\ t[i - 1] = s[i]
  <2>1. i - 1 \in 1..Len(s) - 1 /\ (i - 1) + 1 = i
    BY <1>1, <1>5
  <2>. QED
    BY <1>2, <1>3, <2>1
<1>6. \A i \in At(t, C) : i + 1 \in At(s, C) /\ t[i] = s[i + 1]
  BY <1>2, <1>3
<1>7. Of(s, C) = Of(t, C) \cup (IF Head(s) \in C THEN {Head(s)} ELSE {})
  <2>1. Of(t, C) \subseteq Of(s, C)
    BY <1>6 DEF Of
  <2>2. Head(s) \in C => Head(s) \in Of(s, C)
    BY <1>2, <1>4 DEF Of
  <2>3. \A i \in At(s, C) : s[i] \in Of(t, C) \/ (Head(s) \in C /\ s[i] = Head(s))
    BY <1>2, <1>4, <1>5 DEF Of
  <2>4. \A x \in Of(s, C) : x \in Of(t, C) \/ (Head(s) \in C /\ x = Head(s))
    BY <2>3 DEF Of
  <2>. QED
    BY <2>1, <2>2, <2>4
<1>8. Of(t, C) = {} => At(t, C) = {}
  BY DEF Of
<1>. QED
  BY <1>7, <1>8, CountOfTail, LastOfTail DEF t

LEMMA KindsConcat ==
  ASSUME NEW S, NEW s \in Seq(S), NEW T, NEW t \in Seq(T), NEW C
  PROVE  /\ T \cap C = {} =>
              /\ Of(s \o t, C) = Of(s, C)
              /\ CountOf(s \o t, C) = CountOf(s, C)
              /\ \A x : LastOf(s \o t, C, x) <=> LastOf(s, C, x)
         /\ T \subseteq C /\ t # <<>> =>
              /\ Of(s \o t, C) # {}
              /\ \A x : LastOf(s \o t, C, x) <=> x = Last(t)
<1>1. ASSUME T \cap C = {}
      PROVE  /\ Of(s \o t, C) = Of(s, C)
             /\ CountOf(s \o t, C) = CountOf(s, C)
  <2>1. At(s \o t, C) = At(s, C)
    BY <1>1, AtConcatOut
  <2>2. s \in Seq(S \cup T) /\ t \in Seq(S \cup T)
    BY SeqMonotonic
  <2>3. \A i \in At(s, C) : (s \o t)[i] = s[i]
    BY <2>2, ConcatProperties, LenProperties DEF At
  <2>. QED
    BY <2>1, <2>3 DEF Of, CountOf
<1>2. ASSUME T \subseteq C, t # <<>>
      PROVE  /\ Of(s \o t, C) # {}
             /\ \A x : LastOf(s \o t, C, x) <=> x = Last(t)
  <2>1. t \in Seq(C)
    BY <1>2, SeqMonotonic
  <2>. QED
    BY <1>2, <2>1, LastOfConcatIn DEF Of
<1>. QED
  BY <1>1, <1>2, LastOfConcatOut

LEMMA KindsNone ==
  ASSUME NEW S, NEW s \in Seq(S), NEW C
  PROVE  /\ CountOf(s, C) \in Nat
         /\ CountOf(s, C) = 0 <=> Of(s, C) = {}
         /\ Of(s, C) \subseteq S \cap C
<1>1. At(s, C) = {} <=> Of(s, C) = {}
  BY DEF Of
<1>2. \A i \in At(s, C) : s[i] \in S /\ s[i] \in C
  BY ElementOfSeq DEF At
<1>3. Of(s, C) \subseteq S \cap C
  BY <1>2 DEF Of
<1>. QED
  BY <1>1, <1>3, AtFinite, CountOfNone

LEMMA AppendAfter ==
  ASSUME NEW S, NEW s \in Seq(S), NEW t \in Seq(S), NEW e \in S
  PROVE  s \o Append(t, e) = Append(s \o t, e)
<1>1. <<e>> \in Seq(S) /\ s \o t \in Seq(S)
  BY ConcatProperties
<1>2. Append(t, e) = t \o <<e>> /\ Append(s \o t, e) = (s \o t) \o <<e>>
  BY <1>1, AppendIsConcat
<1>3. (s \o t) \o <<e>> = s \o (t \o <<e>>)
  BY <1>1, ConcatAssociative
<1>. QED
  BY <1>2, <1>3

LEMMA HeadTailConcat ==
  ASSUME NEW S, NEW s \in Seq(S), s # <<>>
  PROVE  s = <<Head(s)>> \o Tail(s)
<1>. DEFINE h == <<Head(s)>>
            u == h \o Tail(s)
<1>1. /\ Len(s) \in Nat \ {0} /\ Head(s) = s[1] /\ Head(s) \in S
      /\ Tail(s) \in Seq(S) /\ Len(Tail(s)) = Len(s) - 1
      /\ \A i \in 1..Len(s) - 1 : Tail(s)[i] = s[i + 1]
  BY TailProperties, HeadTailIn
<1>2. h \in Seq(S) /\ Len(h) = 1 /\ h[1] = Head(s)
  BY <1>1
<1>. HIDE DEF h
<1>3. /\ u \in Seq(S) /\ Len(u) = Len(h) + Len(Tail(s))
      /\ \A i \in 1..Len(h) + Len(Tail(s)) :
           u[i] = IF i <= Len(h) THEN h[i] ELSE Tail(s)[i - Len(h)]
  BY <1>1, <1>2, ConcatProperties
<1>. HIDE DEF u
<1>4. Len(u) = Len(s)
  BY <1>1, <1>2, <1>3
<1>5. ASSUME NEW i \in 1..Len(s) PROVE u[i] = s[i]
  <2>1. CASE i = 1
    BY <1>1, <1>2, <1>3, <2>1
  <2>2. CASE i # 1
    <3>1. i - 1 \in 1..Len(s) - 1 /\ i \in 1..Len(h) + Len(Tail(s)) /\ ~(i <= Len(h))
      BY <1>1, <1>2, <2>2
    <3>. QED
      BY <1>1, <1>2, <1>3, <3>1
  <2>. QED
    BY <2>1, <2>2
<1>6. u = s
  BY <1>3, <1>4, <1>5, SeqEqual
<1>. QED
  BY <1>6 DEF u, h

(* Finite sets of numbers have a greatest element.                         *)
LEMMA HasGreatest ==
  ASSUME NEW S \in SUBSET Nat, S # {}, IsFiniteSet(S)
  PROVE  \E x \in S : \A y \in S : y <= x
<1>. DEFINE Bad(T) == T # {} /\ IsFiniteSet(T) /\ ~\E x \in T : \A y \in T : y <= x
            C == {c \in Nat : \E T \in SUBSET Nat : Bad(T) /\ Cardinality(T) = c}
<1>1. SUFFICES ASSUME Bad(S) PROVE FALSE
  OBVIOUS
<1>2. Cardinality(S) \in C
  BY <1>1, FS_CardinalityType
<1>3. PICK c \in C : \A d \in C : c <= d
  BY <1>2, HasLeast
<1>4. PICK T \in SUBSET Nat : Bad(T) /\ Cardinality(T) = c
  BY <1>3
<1>5. PICK x \in T : TRUE
  BY <1>4
<1>. DEFINE U == T \ {x}
<1>6. IsFiniteSet(U) /\ Cardinality(U) = c - 1 /\ c - 1 \in Nat
  <2>1. IsFiniteSet(T) /\ Cardinality(T) = c /\ x \in T
    BY <1>4, <1>5
  <2>2. IsFiniteSet(U) /\ Cardinality(U) = Cardinality(T) - 1
    BY <2>1, FS_RemoveElement
  <2>3. Cardinality(U) \in Nat
    BY <2>2, FS_CardinalityType
  <2>. QED
    BY <2>1, <2>2, <2>3
<1>7. CASE U = {}
  <2>1. \A y \in T : y = x
    BY <1>7
  <2>. QED
    BY <1>4, <1>5, <2>1
<1>8. CASE U # {}
  <2>1. ~Bad(U)
    <3>1. Bad(U) => c - 1 \in C
      BY <1>6
    <3>. QED
      BY <1>3, <1>6, <3>1
  <2>2. PICK m \in U : \A y \in U : y <= m
    BY <1>6, <1>8, <2>1
  <2>3. CASE m <= x
    <3>1. \A y \in T : y <= x
      BY <1>5, <2>2, <2>3
    <3>. QED
      BY <1>4, <1>5, <3>1
  <2>4. CASE ~(m <= x)
    <3>1. \A y \in T : y <= m
      BY <1>5, <2>2, <2>4
    <3>. QED
      BY <1>4, <2>2, <3>1
  <2>. QED
    BY <2>3, <2>4
<1>. QED
  BY <1>7, <1>8

LEMMA MaxProperties ==
  ASSUME NEW S \in SUBSET Nat, S # {}, IsFiniteSet(S)
  PROVE  Max(S) \in S /\ \A y \in S : y <= Max(S)
<1>1. \E x \in S : \A y \in S : x >= y
  BY HasGreatest
<1>. QED
  BY <1>1 DEF Max

LEMMA FiniteImage ==
  ASSUME NEW S, IsFiniteSet(S), NEW f
  PROVE  IsFiniteSet({f[x] : x \in S}) /\ Cardinality({f[x] : x \in S}) <= Cardinality(S)
<1>. DEFINE T == {f[x] : x \in S}
            g == [x \in S |-> f[x]]
<1>1. g \in Surjection(S, T)
  BY DEF Surjection
<1>. QED
  BY <1>1, FS_Surjection

(* The i-th of a set of places: how many of them are up to it.             *)
LEMMA RankProperties ==
  ASSUME NEW n \in Nat, NEW P \in SUBSET (1..n)
  PROVE  /\ IsFiniteSet(P) /\ Cardinality(P) \in Nat
         /\ \A i \in 0..n : /\ Cardinality(P \cap (1..i)) \in 0..Cardinality(P)
                           /\ IsFiniteSet(P \cap (1..i))
         /\ \A i \in 1..n : Cardinality(P \cap (1..i)) =
              IF i \in P THEN Cardinality(P \cap (1..(i - 1))) + 1
                         ELSE Cardinality(P \cap (1..(i - 1)))
         /\ Cardinality(P \cap (1..0)) = 0
<1>1. IsFiniteSet(P) /\ Cardinality(P) \in Nat
  <2>1. IsFiniteSet(1..n)
    BY FS_Interval
  <2>2. IsFiniteSet(P)
    BY <2>1, FS_Subset
  <2>. QED
    BY <2>2, FS_CardinalityType
<1>2. ASSUME NEW i \in 0..n
      PROVE  Cardinality(P \cap (1..i)) \in 0..Cardinality(P) /\ IsFiniteSet(P \cap (1..i))
  <2>1. P \cap (1..i) \in SUBSET P
    OBVIOUS
  <2>2. IsFiniteSet(P \cap (1..i)) /\ Cardinality(P \cap (1..i)) <= Cardinality(P)
    BY <1>1, <2>1, FS_Subset
  <2>3. Cardinality(P \cap (1..i)) \in Nat
    BY <2>2, FS_CardinalityType
  <2>. QED
    BY <1>1, <2>2, <2>3
<1>3. ASSUME NEW i \in 1..n
      PROVE  Cardinality(P \cap (1..i)) =
               IF i \in P THEN Cardinality(P \cap (1..(i - 1))) + 1
                          ELSE Cardinality(P \cap (1..(i - 1)))
  <2>0. i - 1 \in 0..n /\ i \notin P \cap (1..(i - 1)) /\ 1..i = (1..(i - 1)) \cup {i}
    OBVIOUS
  <2>1. CASE i \in P
    <3>1. P \cap (1..i) = (P \cap (1..(i - 1))) \cup {i}
      BY <2>0, <2>1
    <3>2. IsFiniteSet(P \cap (1..(i - 1)))
      BY <1>2, <2>0
    <3>. QED
      BY <2>0, <2>1, <3>1, <3>2, FS_AddElement
  <2>2. CASE i \notin P
    <3>1. P \cap (1..i) = P \cap (1..(i - 1))
      BY <2>0, <2>2
    <3>. QED
      BY <2>2, <3>1
  <2>. QED
    BY <2>1, <2>2
<1>4. P \cap (1..0) = {}
  OBVIOUS
<1>. QED
  BY <1>1, <1>2, <1>3, <1>4, FS_EmptySet

LEMMA RankReached ==
  ASSUME NEW n \in Nat, NEW P \in SUBSET (1..n), NEW r \in 1..Cardinality(P)
  PROVE  \E i \in P : Cardinality(P \cap (1..i)) = r
<1>. DEFINE c == [i \in 0..n |-> Cardinality(P \cap (1..i))]
            T == {i \in 1..n : r <= c[i]}
<1>1. Cardinality(P) \in Nat /\ r \in Nat /\ 1 <= r /\ r <= Cardinality(P)
  BY RankProperties
<1>2. \A i \in 0..n : c[i] \in Nat
  BY <1>1, RankProperties
<1>3. \A i \in 1..n : c[i] = IF i \in P THEN c[i - 1] + 1 ELSE c[i - 1]
  <2>. SUFFICES ASSUME NEW i \in 1..n
                PROVE  c[i] = IF i \in P THEN c[i - 1] + 1 ELSE c[i - 1]
    OBVIOUS
  <2>1. i \in 0..n /\ i - 1 \in 0..n
    OBVIOUS
  <2>2. c[i] = Cardinality(P \cap (1..i)) /\ c[i - 1] = Cardinality(P \cap (1..(i - 1)))
    BY <2>1
  <2>. HIDE DEF c
  <2>3. Cardinality(P \cap (1..i)) =
          IF i \in P THEN Cardinality(P \cap (1..(i - 1))) + 1 ELSE Cardinality(P \cap (1..(i - 1)))
    BY RankProperties
  <2>. QED
    BY <2>2, <2>3
<1>4. c[0] = 0
  <2>1. Cardinality(P \cap (1..0)) = 0
    BY RankProperties
  <2>2. 0 \in 0..n
    OBVIOUS
  <2>. QED
    BY <2>1, <2>2
<1>5. P \cap (1..n) = P
  OBVIOUS
<1>6. c[n] = Cardinality(P)
  <2>1. n \in 0..n
    OBVIOUS
  <2>2. c[n] = Cardinality(P \cap (1..n))
    BY <2>1
  <2>. QED
    BY <1>5, <2>2
<1>7. \A i \in P : c[i] = Cardinality(P \cap (1..i))
  OBVIOUS
<1>. HIDE DEF c
<1>8. n # 0 /\ n \in T
  BY <1>1, <1>4, <1>6
<1>9. T \in SUBSET Nat /\ T # {}
  BY <1>8
<1>10. PICK i \in T : \A j \in T : i <= j
  <2>. HIDE DEF T
  <2>. QED
    BY <1>9, HasLeast
<1>11. i \in 1..n /\ i - 1 \in 0..n /\ r <= c[i]
  OBVIOUS
<1>12. c[i - 1] < r
  <2>1. CASE i = 1
    BY <1>1, <1>4, <2>1
  <2>2. CASE i # 1
    <3>1. i - 1 \in 1..n /\ i - 1 \notin T
      BY <1>10, <1>11, <2>2
    <3>. QED
      BY <1>1, <1>2, <1>11, <3>1
  <2>. QED
    BY <2>1, <2>2
<1>13. i \in P /\ c[i] = r
  BY <1>1, <1>2, <1>3, <1>11, <1>12
<1>. QED
  BY <1>7, <1>13

LEMMA RankInjective ==
  ASSUME NEW n \in Nat, NEW P \in SUBSET (1..n), NEW i \in P, NEW j \in P,
         Cardinality(P \cap (1..i)) = Cardinality(P \cap (1..j))
  PROVE  i = j
<1>1. ASSUME NEW a \in P, NEW b \in P, a < b
      PROVE  Cardinality(P \cap (1..a)) < Cardinality(P \cap (1..b))
  <2>1. a \in 1..n /\ b \in 1..n /\ b - 1 \in 0..n /\ a <= b - 1
    BY <1>1
  <2>2. Cardinality(P \cap (1..b)) = Cardinality(P \cap (1..(b - 1))) + 1
    BY <2>1, RankProperties
  <2>3. IsFiniteSet(P \cap (1..(b - 1))) /\ Cardinality(P \cap (1..(b - 1))) \in Nat
    BY <2>1, RankProperties
  <2>4. P \cap (1..a) \in SUBSET (P \cap (1..(b - 1)))
    BY <2>1
  <2>5. Cardinality(P \cap (1..a)) <= Cardinality(P \cap (1..(b - 1)))
    BY <2>3, <2>4, FS_Subset
  <2>6. a \in 0..n
    BY <2>1
  <2>7. Cardinality(P \cap (1..a)) \in Nat
    BY <2>6, RankProperties
  <2>. QED
    BY <2>2, <2>3, <2>5, <2>7
<1>2. i \in Nat /\ j \in Nat
  OBVIOUS
<1>3. \A k \in 0..n : Cardinality(P \cap (1..k)) \in Nat
  BY RankProperties
<1>4. i \in 0..n /\ j \in 0..n
  OBVIOUS
<1>5. ~(i < j)
  BY <1>1, <1>3, <1>4
<1>6. ~(j < i)
  BY <1>1, <1>3, <1>4
<1>. QED
  BY <1>2, <1>5, <1>6
=============================================================================
