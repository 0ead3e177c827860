----------------------------- MODULE ListFacts -----------------------------
(***************************************************************************)
(* What the proofs of the components share: what adding and removing a     *)
(* handle at either end of a list does to the set of the handles in it,    *)
(* and that a list without duplicates stays one; lists that are taken      *)
(* apart; lists of instructions in which what is entered is left again;    *)
(* and functions defined by recursion on what comes first.                 *)
(***************************************************************************)
EXTENDS Integers, Sequences, SequencesExt, FiniteSetTheorems, SequenceTheorems, WellFoundedInduction, TLAPS

-----------------------------------------------------------------------------
(* Lists of handles *)

LEMMA ListEmpty == ToSet(<<>>) = {} /\ IsInjective(<<>>)
BY DEF ToSet, IsInjective

LEMMA ListPrepend ==
  ASSUME NEW S, NEW s \in Seq(S), NEW x \in S, x \notin ToSet(s), IsInjective(s)
  PROVE  /\ <<x>> \o s \in Seq(S)
         /\ ToSet(<<x>> \o s) = {x} \cup ToSet(s)
         /\ IsInjective(<<x>> \o s)
<1> DEFINE t == <<x>> \o s
<1>1. /\ t \in Seq(S)
      /\ DOMAIN t = 1..(Len(s) + 1)
      /\ t[1] = x
      /\ \A i \in DOMAIN s : i + 1 \in DOMAIN t /\ t[i + 1] = s[i]
      /\ \A j \in DOMAIN t : j # 1 => j - 1 \in DOMAIN s /\ t[j] = s[j - 1]
      /\ 1 \in DOMAIN t
      /\ DOMAIN t \subseteq Int
  OBVIOUS
<1> HIDE DEF t
<1>2. ToSet(t) = {x} \cup ToSet(s)
  BY <1>1 DEF ToSet
<1>3. IsInjective(t)
  <2> SUFFICES ASSUME NEW i \in DOMAIN t, NEW j \in DOMAIN t, t[i] = t[j]
               PROVE  i = j
    BY DEF IsInjective
  <2>1. \A k \in DOMAIN s : s[k] # x
    BY DEF ToSet
  <2>2. i = 1 <=> j = 1
    BY <1>1, <2>1
  <2>3. CASE i # 1 /\ j # 1
    <3>1. i - 1 = j - 1
      BY <1>1, <2>3 DEF IsInjective
    <3> QED
      BY <1>1, <3>1
  <2> QED
    BY <2>2, <2>3
<1> QED
  BY <1>1, <1>2, <1>3 DEF t

LEMMA ListTail ==
  ASSUME NEW S, NEW s \in Seq(S), s # <<>>, IsInjective(s)
  PROVE  /\ Head(s) \in ToSet(s)
         /\ Tail(s) \in Seq(S)
         /\ ToSet(Tail(s)) = ToSet(s) \ {Head(s)}
         /\ IsInjective(Tail(s))
<1> DEFINE t == Tail(s)
<1>1. /\ t \in Seq(S)
      /\ 1 \in DOMAIN s /\ Head(s) = s[1]
      /\ DOMAIN t \subseteq Int /\ DOMAIN s \subseteq Int
      /\ \A i \in DOMAIN t : i + 1 \in DOMAIN s /\ t[i] = s[i + 1] /\ i + 1 # 1
      /\ \A j \in DOMAIN s : j # 1 => j - 1 \in DOMAIN t /\ s[j] = t[j - 1]
  OBVIOUS
<1> HIDE DEF t
<1>2. ToSet(t) = ToSet(s) \ {s[1]}
  <2>1. \A i \in DOMAIN t : t[i] \in ToSet(s) /\ t[i] # s[1]
    BY <1>1 DEF ToSet, IsInjective
  <2>2. \A j \in DOMAIN s : s[j] # s[1] => \E i \in DOMAIN t : s[j] = t[i]
    <3> SUFFICES ASSUME NEW j \in DOMAIN s, s[j] # s[1]
                 PROVE  \E i \in DOMAIN t : s[j] = t[i]
      OBVIOUS
    <3>1. j - 1 \in DOMAIN t /\ s[j] = t[j - 1]
      BY <1>1
    <3> QED
      BY <3>1
  <2> QED
    BY <2>1, <2>2 DEF ToSet
<1>3. IsInjective(t)
  <2> SUFFICES ASSUME NEW i \in DOMAIN t, NEW j \in DOMAIN t, t[i] = t[j]
               PROVE  i = j
    BY DEF IsInjective
  <2>1. i + 1 = j + 1
    BY <1>1 DEF IsInjective
  <2> QED
    BY <1>1, <2>1
<1>4. Head(s) \in ToSet(s)
  BY <1>1 DEF ToSet
<1> QED
  BY <1>1, <1>2, <1>3, <1>4 DEF t

LEMMA ListAppend ==
  ASSUME NEW S, NEW s \in Seq(S), NEW x \in S, x \notin ToSet(s), IsInjective(s)
  PROVE  /\ Append(s, x) \in Seq(S)
         /\ ToSet(Append(s, x)) = {x} \cup ToSet(s)
         /\ IsInjective(Append(s, x))
<1> DEFINE t == Append(s, x)
           n == Len(s) + 1
<1>1. /\ t \in Seq(S)
      /\ n \in DOMAIN t /\ t[n] = x
      /\ \A i \in DOMAIN s : i \in DOMAIN t /\ t[i] = s[i]
      /\ \A j \in DOMAIN t : j # n => j \in DOMAIN s /\ t[j] = s[j]
  OBVIOUS
<1> HIDE DEF t, n
<1>2. ToSet(t) = {x} \cup ToSet(s)
  BY <1>1 DEF ToSet
<1>3. IsInjective(t)
  <2> SUFFICES ASSUME NEW i \in DOMAIN t, NEW j \in DOMAIN t, t[i] = t[j]
               PROVE  i = j
    BY DEF IsInjective
  <2>1. \A k \in DOMAIN s : s[k] # x
    BY DEF ToSet
  <2>2. i = n <=> j = n
    BY <1>1, <2>1
  <2> QED
    BY <1>1, <2>2 DEF IsInjective
<1> QED
  BY <1>1, <1>2, <1>3 DEF t

LEMMA ListFront ==
  ASSUME NEW S, NEW s \in Seq(S), s # <<>>, IsInjective(s)
  PROVE  /\ Last(s) \in ToSet(s)
         /\ Front(s) \in Seq(S)
         /\ ToSet(Front(s)) = ToSet(s) \ {Last(s)}
         /\ IsInjective(Front(s))
<1> DEFINE t == Front(s)
           n == Len(s)
<1>1. /\ t \in Seq(S)
      /\ n \in DOMAIN s /\ Last(s) = s[n]
      /\ \A i \in DOMAIN t : i \in DOMAIN s /\ t[i] = s[i] /\ i # n
      /\ \A j \in DOMAIN s : j # n => j \in DOMAIN t /\ s[j] = t[j]
  BY DEF Front, Last
<1> HIDE DEF t, n
<1>2. ToSet(t) = ToSet(s) \ {Last(s)}
  BY <1>1 DEF ToSet, IsInjective
<1>3. IsInjective(t)
  BY <1>1 DEF IsInjective
<1> QED
  BY <1>1, <1>2, <1>3 DEF t, ToSet

\* What a list without any assumption keeps.
LEMMA ListContents ==
  ASSUME NEW S, NEW s \in Seq(S), NEW x \in S
  PROVE  /\ ToSet(s) \cup {x} \subseteq ToSet(Append(s, x))
         /\ ToSet(s) \cup {x} \subseteq ToSet(<<x>> \o s)
         /\ s # <<>> => /\ ToSet(s) \subseteq ToSet(Tail(s)) \cup {Head(s)}
                        /\ ToSet(s) \subseteq ToSet(Front(s)) \cup {Last(s)}
<1>1. \A i \in DOMAIN s : i \in DOMAIN Append(s, x) /\ Append(s, x)[i] = s[i]
  OBVIOUS
<1>2. Len(s) + 1 \in DOMAIN Append(s, x) /\ Append(s, x)[Len(s) + 1] = x
  OBVIOUS
<1>3. \A i \in DOMAIN s : i + 1 \in DOMAIN (<<x>> \o s) /\ (<<x>> \o s)[i + 1] = s[i]
  OBVIOUS
<1>4. 1 \in DOMAIN (<<x>> \o s) /\ (<<x>> \o s)[1] = x
  OBVIOUS
<1>5. ASSUME s # <<>>
      PROVE  \A i \in DOMAIN s : s[i] # Head(s) => i - 1 \in DOMAIN Tail(s) /\ s[i] = Tail(s)[i - 1]
  BY <1>5
<1>6. ASSUME s # <<>>
      PROVE  \A i \in DOMAIN s : s[i] # Last(s) => i \in DOMAIN Front(s) /\ s[i] = Front(s)[i]
  BY <1>6 DEF Front, Last
<1> HIDE DEF Front, Last
<1>7. ToSet(s) \cup {x} \subseteq ToSet(Append(s, x))
  BY <1>1, <1>2 DEF ToSet
<1>8. ToSet(s) \cup {x} \subseteq ToSet(<<x>> \o s)
  <2>1. x \in ToSet(<<x>> \o s)
    BY <1>4 DEF ToSet
  <2>2. ASSUME NEW i \in DOMAIN s PROVE s[i] \in ToSet(<<x>> \o s)
    BY <1>3 DEF ToSet
  <2> QED
    BY <2>1, <2>2 DEF ToSet
<1>9. ASSUME s # <<>> PROVE ToSet(s) \subseteq ToSet(Tail(s)) \cup {Head(s)}
  <2> SUFFICES ASSUME NEW i \in DOMAIN s, s[i] # Head(s) PROVE s[i] \in ToSet(Tail(s))
    BY DEF ToSet
  <2>1. i - 1 \in DOMAIN Tail(s) /\ s[i] = Tail(s)[i - 1]
    BY <1>5, <1>9
  <2> QED
    BY <2>1 DEF ToSet
<1>10. ASSUME s # <<>> PROVE ToSet(s) \subseteq ToSet(Front(s)) \cup {Last(s)}
  BY <1>6, <1>10 DEF ToSet
<1> QED
  BY <1>7, <1>8, <1>9, <1>10

\* A list backwards, and two lists in one.
LEMMA ListReverse ==
  ASSUME NEW S, NEW s \in Seq(S)
  PROVE  /\ Reverse(s) \in Seq(S)
         /\ ToSet(Reverse(s)) = ToSet(s)
         /\ IsInjective(s) => IsInjective(Reverse(s))
<1> DEFINE r == Reverse(s)
           n == Len(s)
           back(i) == (n - i) + 1
<1>1. n \in Nat /\ DOMAIN s = 1..n
  OBVIOUS
<1>2. \A i \in 1..n : back(i) \in 1..n /\ back(back(i)) = i /\ back(i) \in Int
  BY <1>1
<1>3. r = [i \in 1..n |-> s[back(i)]]
  BY DEF Reverse
<1>4. DOMAIN r = 1..n /\ \A i \in 1..n : r[i] = s[back(i)]
  BY <1>3
<1>5. r \in Seq(S)
  BY <1>1, <1>2, <1>3
<1> HIDE DEF r, n, back
<1>6. ToSet(r) = ToSet(s)
  BY <1>1, <1>2, <1>4 DEF ToSet
<1>7. IsInjective(s) => IsInjective(r)
  <2> SUFFICES ASSUME IsInjective(s), NEW i \in 1..n, NEW j \in 1..n, r[i] = r[j]
               PROVE  i = j
    BY <1>4 DEF IsInjective
  <2>1. back(i) = back(j)
    BY <1>1, <1>2, <1>4 DEF IsInjective
  <2> QED
    BY <1>2, <2>1
<1> QED
  BY <1>5, <1>6, <1>7 DEF r

LEMMA ListConcat ==
  ASSUME NEW S, NEW s \in Seq(S), NEW t \in Seq(S)
  PROVE  /\ s \o t \in Seq(S)
         /\ ToSet(s \o t) = ToSet(s) \cup ToSet(t)
         /\ IsInjective(s) /\ IsInjective(t) /\ ToSet(s) \cap ToSet(t) = {} => IsInjective(s \o t)
<1> DEFINE r == s \o t
           n == Len(s)
<1>1. /\ n \in Nat /\ r \in Seq(S)
      /\ \A i \in DOMAIN s : i \in DOMAIN r /\ r[i] = s[i]
      /\ \A j \in DOMAIN t : n + j \in DOMAIN r /\ r[n + j] = t[j]
      /\ \A k \in DOMAIN r : k \in DOMAIN s \/ k - n \in DOMAIN t
      /\ \A k \in DOMAIN r : k \in DOMAIN s <=> k <= n
      /\ \A k \in DOMAIN r : k \notin DOMAIN s => r[k] = t[k - n]
      /\ DOMAIN r \subseteq Int
  OBVIOUS
<1> HIDE DEF r, n
<1>2. ToSet(r) = ToSet(s) \cup ToSet(t)
  <2>1. \A k \in DOMAIN r : r[k] \in ToSet(s) \cup ToSet(t)
    BY <1>1 DEF ToSet
  <2>2. \A i \in DOMAIN s : s[i] \in ToSet(r)
    BY <1>1 DEF ToSet
  <2>3. \A j \in DOMAIN t : t[j] \in ToSet(r)
    BY <1>1 DEF ToSet
  <2> QED
    BY <2>1, <2>2, <2>3 DEF ToSet
<1>3. ASSUME IsInjective(s), IsInjective(t), ToSet(s) \cap ToSet(t) = {} PROVE IsInjective(r)
  <2> SUFFICES ASSUME NEW i \in DOMAIN r, NEW j \in DOMAIN r, r[i] = r[j] PROVE i = j
    BY DEF IsInjective
  <2>1. \A k \in DOMAIN r : IF k \in DOMAIN s THEN r[k] \in ToSet(s) ELSE r[k] \in ToSet(t)
    BY <1>1 DEF ToSet
  <2>2. CASE i \in DOMAIN s /\ j \in DOMAIN s
    BY <1>1, <1>3, <2>2 DEF IsInjective
  <2>3. CASE i \notin DOMAIN s /\ j \notin DOMAIN s
    <3>1. i - n = j - n
      BY <1>1, <1>3, <2>3 DEF IsInjective
    <3> QED
      BY <1>1, <3>1
  <2> QED
    BY <1>3, <2>1, <2>2, <2>3
<1> QED
  BY <1>1, <1>2, <1>3 DEF r
\* A list without the element at position i.
LEMMA ListRemoveAt ==
  ASSUME NEW S, NEW s \in Seq(S), NEW i \in 1..Len(s)
  PROVE  /\ RemoveAt(s, i) \in Seq(S) /\ Len(RemoveAt(s, i)) = Len(s) - 1
         /\ \A k \in 1..(Len(s) - 1) :
              RemoveAt(s, i)[k] = IF k < i THEN s[k] ELSE s[k + 1]
         /\ IsInjective(s) => /\ ToSet(RemoveAt(s, i)) = ToSet(s) \ {s[i]}
                             /\ IsInjective(RemoveAt(s, i))
<1> DEFINE r == RemoveAt(s, i)
           n == Len(s)
           f == SubSeq(s, 1, i - 1)
           t == SubSeq(s, i + 1, n)
<1>1. n \in Nat /\ i \in 1..n /\ DOMAIN s = 1..n
  OBVIOUS
<1>2. /\ f \in Seq(S) /\ Len(f) = i - 1
      /\ \A k \in 1..(i - 1) : f[k] = s[k]
  OBVIOUS
<1>3. /\ t \in Seq(S) /\ Len(t) = n - i
      /\ \A k \in 1..(n - i) : t[k] = s[i + k]
  OBVIOUS
<1> HIDE DEF f, t, n
<1>4. r = f \o t
  BY DEF RemoveAt, f, t, n
<1> HIDE DEF r
<1>5. r \in Seq(S) /\ Len(r) = n - 1
  <2>1. f \in Seq(S) /\ t \in Seq(S)
    BY <1>2, <1>3
  <2>2. f \o t \in Seq(S) /\ Len(f \o t) = Len(f) + Len(t)
    BY <2>1
  <2> QED
    BY <1>1, <1>2, <1>3, <1>4, <2>2
<1>6. ASSUME NEW k \in 1..(n - 1) PROVE r[k] = IF k < i THEN s[k] ELSE s[k + 1]
  <2>1. CASE k < i
    BY <1>1, <1>2, <1>3, <1>4, <2>1
  <2>2. CASE ~(k < i)
    <3>1. k - (i - 1) \in 1..(n - i) /\ i + (k - (i - 1)) = k + 1
      BY <1>1, <2>2
    <3>2. r[k] = t[k - (i - 1)]
      BY <1>1, <1>2, <1>3, <1>4, <2>2
    <3> QED
      BY <1>3, <2>2, <3>1, <3>2
  <2> QED
    BY <2>1, <2>2
<1>7. ASSUME IsInjective(s) PROVE ToSet(r) = ToSet(s) \ {s[i]}
  <2>1. DOMAIN r = 1..(n - 1) /\ DOMAIN s = 1..n
    BY <1>1, <1>5
  <2>2. ASSUME NEW k \in 1..(n - 1) PROVE r[k] \in ToSet(s) \ {s[i]}
    <3> DEFINE at == IF k < i THEN k ELSE k + 1
    <3>1. at \in DOMAIN s /\ at # i /\ r[k] = s[at]
      BY <1>1, <1>6
    <3> QED
      BY <1>1, <1>7, <3>1 DEF ToSet, IsInjective
  <2>3. ASSUME NEW k \in 1..n, k # i PROVE s[k] \in ToSet(r)
    <3>1. CASE k < i
      BY <1>1, <1>6, <2>1, <3>1 DEF ToSet
    <3>2. CASE ~(k < i)
      <4>1. k - 1 \in 1..(n - 1) /\ ~(k - 1 < i) /\ (k - 1) + 1 = k
        BY <1>1, <2>3, <3>2
      <4>2. r[k - 1] = s[k]
        BY <1>6, <4>1
      <4> QED
        BY <2>1, <4>1, <4>2 DEF ToSet
    <3> QED
      BY <3>1, <3>2
  <2> QED
    BY <2>1, <2>2, <2>3 DEF ToSet
<1>8. ASSUME IsInjective(s) PROVE IsInjective(r)
  <2> SUFFICES ASSUME NEW j \in 1..(n - 1), NEW k \in 1..(n - 1), r[j] = r[k] PROVE j = k
    BY <1>1, <1>5 DEF IsInjective
  <2> DEFINE at(m) == IF m < i THEN m ELSE m + 1
  <2>1. at(j) \in DOMAIN s /\ at(k) \in DOMAIN s
    BY <1>1
  <2>2. s[at(j)] = s[at(k)]
    BY <1>6
  <2>3. at(j) = at(k)
    BY <1>8, <2>1, <2>2 DEF IsInjective
  <2> QED
    BY <1>1, <2>3
<1> QED
  BY <1>5, <1>6, <1>7, <1>8 DEF r, n

\* A list without repetitions is as long as its set is large.
LEMMA ListCardinality ==
  ASSUME NEW S, NEW s \in Seq(S), IsInjective(s)
  PROVE  IsFiniteSet(ToSet(s)) /\ Cardinality(ToSet(s)) = Len(s)
<1>1. Len(s) \in Nat /\ DOMAIN s = 1..Len(s)
  OBVIOUS
<1>2. IsFiniteSet(1..Len(s)) /\ Cardinality(1..Len(s)) = Len(s)
  BY <1>1, FS_Interval
<1>3. s \in Surjection(1..Len(s), ToSet(s)) /\ s \in Injection(1..Len(s), ToSet(s))
  BY <1>1 DEF Surjection, Injection, ToSet, IsInjective
<1> QED
  BY <1>2, <1>3, FS_Surjection

-----------------------------------------------------------------------------
(* Lists that are taken apart *)

LEMMA HeadOfConcat ==
  ASSUME NEW S, NEW s \in Seq(S), NEW t \in Seq(S), s # <<>>
  PROVE  s \o t # <<>> /\ Head(s \o t) = Head(s) /\ Tail(s \o t) = Tail(s) \o t /\ Head(s) \in S /\ Tail(s) \in Seq(S)
<1>1. Len(s) \in Nat /\ Len(s) >= 1 /\ s[1] \in S /\ Len(t) \in Nat
  OBVIOUS
<1>2. Len(s \o t) = Len(s) + Len(t) /\ (s \o t)[1] = s[1]
  BY <1>1
<1>3. s \o t # <<>>
  BY <1>1, <1>2
<1>4. Tail(s \o t) = Tail(s) \o t
  <2>1. Tail(s \o t) \in Seq(S) /\ Tail(s) \in Seq(S) /\ Tail(s) \o t \in Seq(S)
    BY <1>1, <1>3
  <2>2. Len(Tail(s \o t)) = Len(s) + Len(t) - 1 /\ Len(Tail(s) \o t) = Len(s) - 1 + Len(t)
    BY <1>1, <1>2, <1>3
  <2>3. ASSUME NEW i \in 1..(Len(s) + Len(t) - 1) PROVE Tail(s \o t)[i] = (Tail(s) \o t)[i]
    <3>1. i + 1 \in 1..(Len(s) + Len(t)) /\ i \in Nat
      BY <1>1
    <3>2. Tail(s \o t)[i] = (s \o t)[i + 1]
      BY <1>1, <1>2, <1>3, <3>1
    <3>3. CASE i + 1 <= Len(s)
      BY <1>1, <3>1, <3>2, <3>3
    <3>4. CASE ~ (i + 1 <= Len(s))
      <4>1. (s \o t)[i + 1] = t[i + 1 - Len(s)]
        BY <1>1, <3>1, <3>4
      <4>2. Len(Tail(s)) = Len(s) - 1 /\ Tail(s) \in Seq(S)
        BY <1>1
      <4>3. (Tail(s) \o t)[i] = t[i - (Len(s) - 1)]
        BY <1>1, <3>1, <3>4, <4>2
      <4>4. i + 1 - Len(s) = i - (Len(s) - 1)
        BY <1>1, <3>1
      <4> QED BY <3>2, <4>1, <4>3, <4>4
    <3> QED BY <3>3, <3>4
  <2> QED BY <1>1, <2>1, <2>2, <2>3
<1> QED BY <1>1, <1>2, <1>3, <1>4

LEMMA ConcatRight ==
  ASSUME NEW S, NEW s \in Seq(S), NEW t \in Seq(S), NEW u \in Seq(S)
  PROVE  (s \o t) \o u = s \o (t \o u)
BY ConcatAssociative

LEMMA ConcatAgain ==
  ASSUME NEW S, NEW s \in Seq(S), NEW t \in Seq(S), NEW u \in Seq(S)
  PROVE  /\ s \o (t \o u) = (s \o t) \o u /\ s \o t \in Seq(S)
         /\ <<>> \o s = s /\ s \o <<>> = s
BY ConcatAssociative, ConcatEmptySeq, ConcatProperties

FromOn(list, k) == SubSeq(list, k, Len(list))

\* The rest of a list from one place on.
LEMMA FromFacts ==
  ASSUME NEW S, NEW s \in Seq(S), NEW k \in 1..(Len(s) + 1)
  PROVE  /\ FromOn(s, k) \in Seq(S)
         /\ k = 1 => FromOn(s, k) = s
         /\ k > Len(s) => FromOn(s, k) = <<>>
         /\ k <= Len(s) => FromOn(s, k) # <<>> /\ Head(FromOn(s, k)) = s[k] /\ Tail(FromOn(s, k)) = FromOn(s, k + 1)
<1>1. Len(s) \in Nat /\ k \in Nat /\ k >= 1 /\ k <= Len(s) + 1
  OBVIOUS
<1>2. PICK t : t = FromOn(s, k)
  OBVIOUS
<1>3. t \in Seq(S) /\ Len(t) = Len(s) - k + 1 /\ \A i \in 1..(Len(s) - k + 1) : t[i] = s[k + i - 1]
  BY <1>1, <1>2 DEF FromOn
<1>4. ASSUME k = 1 PROVE t = s
  <2>1. Len(t) = Len(s) /\ \A i \in 1..Len(s) : t[i] = s[i]
    BY <1>1, <1>3, <1>4
  <2>2. t = s
    BY <1>3, <2>1
  <2> QED BY <2>2
<1>5. ASSUME k > Len(s) PROVE t = <<>>
  BY <1>1, <1>3, <1>5
<1>6. ASSUME k <= Len(s) PROVE t # <<>> /\ Head(t) = s[k] /\ Tail(t) = FromOn(s, k + 1)
  <2>1. t # <<>> /\ Head(t) = s[k]
    BY <1>1, <1>3, <1>6
  <2>2. PICK u : u = FromOn(s, k + 1)
    OBVIOUS
  <2>3. u \in Seq(S) /\ Len(u) = Len(s) - k /\ \A i \in 1..(Len(s) - k) : u[i] = s[k + 1 + i - 1]
    BY <1>1, <1>6, <2>2 DEF FromOn
  <2>4. Tail(t) \in Seq(S) /\ Len(Tail(t)) = Len(s) - k /\ \A i \in 1..(Len(s) - k) : Tail(t)[i] = t[i + 1]
    BY <1>1, <1>3, <1>6, <2>1
  <2>5. \A i \in 1..(Len(s) - k) : Tail(t)[i] = u[i]
    <3>1. ASSUME NEW i \in 1..(Len(s) - k) PROVE Tail(t)[i] = u[i]
      <4>1. Tail(t)[i] = t[i + 1] /\ u[i] = s[k + 1 + i - 1]
        BY <2>3, <2>4
      <4>2. i + 1 \in 1..(Len(s) - k + 1)
        BY <1>1
      <4>3. t[i + 1] = s[k + (i + 1) - 1]
        BY <1>3, <4>2
      <4>4. k + (i + 1) - 1 = k + 1 + i - 1
        BY <1>1
      <4> QED BY Zenon, <4>1, <4>3, <4>4
    <3> QED BY <3>1
  <2>6. Tail(t) = u
    <3>1. PICK v : v = Tail(t)
      OBVIOUS
    <3>2. v \in Seq(S) /\ Len(v) = Len(s) - k /\ \A i \in 1..(Len(s) - k) : v[i] = u[i]
      BY Zenon, <2>4, <2>5, <3>1
    <3>3. v = u
      BY <2>3, <3>2, SeqEqual
    <3> QED BY <3>1, <3>3
  <2> QED BY <2>1, <2>2, <2>6
<1> QED BY <1>2, <1>3, <1>4, <1>5, <1>6

-----------------------------------------------------------------------------
(* Lists of instructions *)

\* n values have been entered that a list of instructions leaves, and no more.
Nested(list, n) ==
  \E d \in [1..(Len(list) + 1) -> Nat] :
    /\ d[1] = n /\ d[Len(list) + 1] = 0
    /\ \A i \in 1..Len(list) : d[i] = IF list[i].op = "leave" THEN d[i + 1] + 1 ELSE d[i + 1]

LEMMA NestedNone == Nested(<<>>, 0) /\ \A n : Nested(<<>>, n) => n = 0
<1>1. Len(<<>>) = 0
  OBVIOUS
<1>2. PICK d : d = [i \in 1..1 |-> 0]
  OBVIOUS
<1>3. d \in [1..1 -> Nat] /\ d[1] = 0
  BY <1>2
<1>4. Nested(<<>>, 0)
  BY <1>1, <1>3 DEF Nested
<1>5. ASSUME NEW n, Nested(<<>>, n) PROVE n = 0
  BY <1>1, <1>5 DEF Nested
<1> QED BY <1>4, <1>5

LEMMA NestedTail ==
  ASSUME NEW S, NEW list \in Seq(S), list # <<>>, NEW n, Nested(list, n)
  PROVE  /\ n \in Nat
         /\ Head(list).op = "leave" => n >= 1 /\ Nested(Tail(list), n - 1)
         /\ Head(list).op # "leave" => Nested(Tail(list), n)
<1>1. PICK m : m = Len(list)
  OBVIOUS
<1>2. m \in Nat /\ m >= 1 /\ Head(list) = list[1]
  BY <1>1
<1>3. PICK d \in [1..(m + 1) -> Nat] :
         /\ d[1] = n /\ d[m + 1] = 0
         /\ \A i \in 1..m : d[i] = IF list[i].op = "leave" THEN d[i + 1] + 1 ELSE d[i + 1]
  BY <1>1 DEF Nested
<1>4. PICK t : t = Tail(list)
  OBVIOUS
<1>5. Len(t) = m - 1 /\ \A i \in 1..(m - 1) : t[i] = list[i + 1]
  BY <1>1, <1>2, <1>4
<1>6. PICK e : e = [i \in 1..m |-> d[i + 1]]
  OBVIOUS
<1>7. e \in [1..m -> Nat] /\ \A i \in 1..m : e[i] = d[i + 1]
  <2>1. \A i \in 1..m : i + 1 \in 1..(m + 1)
    BY <1>2
  <2> QED BY <1>3, <1>6, <2>1
<1>8. Nested(t, d[2])
  <2>1. e[1] = d[2] /\ e[m] = 0
    BY <1>2, <1>3, <1>7
  <2>2. ASSUME NEW i \in 1..(m - 1)
        PROVE  e[i] = IF t[i].op = "leave" THEN e[i + 1] + 1 ELSE e[i + 1]
    <3>1. i \in 1..m /\ i + 1 \in 1..m
      BY <1>2
    <3>2. e[i] = d[i + 1] /\ e[i + 1] = d[i + 2] /\ t[i] = list[i + 1]
      BY <1>2, <1>5, <1>7, <3>1
    <3>3. d[i + 1] = IF list[i + 1].op = "leave" THEN d[i + 1 + 1] + 1 ELSE d[i + 1 + 1]
      BY <1>3, <3>1
    <3> QED BY <1>2, <3>2, <3>3
  <2>3. Len(t) + 1 = m /\ 1..Len(t) = 1..(m - 1)
    BY <1>2, <1>5
  <2>4. /\ e \in [1..(Len(t) + 1) -> Nat] /\ e[1] = d[2] /\ e[Len(t) + 1] = 0
        /\ \A i \in 1..Len(t) : e[i] = IF t[i].op = "leave" THEN e[i + 1] + 1 ELSE e[i + 1]
    BY Zenon, <1>7, <2>1, <2>2, <2>3
  <2> QED BY <2>4 DEF Nested
<1>9. d[1] = IF list[1].op = "leave" THEN d[2] + 1 ELSE d[2]
  BY <1>2, <1>3
<1>10. d[2] \in Nat /\ n \in Nat
  BY <1>2, <1>3
<1>11. CASE list[1].op = "leave"
  <2>1. n >= 1 /\ d[2] = n - 1
    BY <1>3, <1>9, <1>10, <1>11
  <2> QED BY <1>2, <1>4, <1>8, <1>10, <1>11, <2>1
<1>12. CASE list[1].op # "leave"
  BY <1>2, <1>3, <1>4, <1>8, <1>9, <1>10, <1>12
<1> QED BY <1>11, <1>12

LEMMA NestedBefore ==
  ASSUME NEW S, NEW s \in Seq(S), \A i \in 1..Len(s) : s[i].op # "leave",
         NEW list \in Seq(S), NEW n, Nested(list, n)
  PROVE  Nested(s \o list, n)
<1>1. PICK m, k : m = Len(list) /\ k = Len(s)
  OBVIOUS
<1>2. m \in Nat /\ k \in Nat
  BY <1>1
<1>3. PICK d \in [1..(m + 1) -> Nat] :
         /\ d[1] = n /\ d[m + 1] = 0
         /\ \A i \in 1..m : d[i] = IF list[i].op = "leave" THEN d[i + 1] + 1 ELSE d[i + 1]
  BY <1>1 DEF Nested
<1>4. n \in Nat
  BY <1>2, <1>3
<1>5. PICK t : t = s \o list
  OBVIOUS
<1>6. Len(t) = k + m /\ \A i \in 1..(k + m) : t[i] = IF i <= k THEN s[i] ELSE list[i - k]
  BY <1>1, <1>2, <1>5
<1>7. PICK e : e = [i \in 1..(k + m + 1) |-> IF i <= k THEN n ELSE d[i - k]]
  OBVIOUS
<1>8. /\ e \in [1..(k + m + 1) -> Nat]
      /\ \A i \in 1..(k + m + 1) : e[i] = IF i <= k THEN n ELSE d[i - k]
  <2>1. ASSUME NEW i \in 1..(k + m + 1), ~ (i <= k) PROVE i - k \in 1..(m + 1)
    BY <1>2, <2>1
  <2> QED BY <1>3, <1>4, <1>7, <2>1
<1>9. e[1] = n
  BY <1>2, <1>3, <1>8
<1>10. e[k + m + 1] = 0
  <2>1. PICK j : j = k + m + 1
    OBVIOUS
  <2>2. j \in 1..(k + m + 1) /\ ~ (j <= k) /\ j - k = m + 1
    BY <1>2, <2>1
  <2>3. e[j] = d[j - k]
    BY <1>8, <2>2
  <2> QED BY <1>3, <2>1, <2>2, <2>3
<1>11. ASSUME NEW i \in 1..(k + m)
       PROVE  e[i] = IF t[i].op = "leave" THEN e[i + 1] + 1 ELSE e[i + 1]
  <2>1. i \in 1..(k + m + 1) /\ i + 1 \in 1..(k + m + 1)
    BY <1>2
  <2>2. CASE i <= k
    <3>1. t[i].op # "leave" /\ e[i] = n
      BY <1>1, <1>2, <1>6, <1>8, <2>1, <2>2
    <3>2. e[i + 1] = n
      <4>1. CASE i + 1 <= k
        BY <1>8, <2>1, <4>1
      <4>2. CASE ~ (i + 1 <= k)
        <5>1. PICK j : j = i + 1
          OBVIOUS
        <5>2. j - k = 1 /\ j \in 1..(k + m + 1) /\ ~ (j <= k)
          BY <1>2, <2>1, <2>2, <4>2, <5>1
        <5>3. e[j] = d[j - k]
          BY <1>8, <5>2
        <5> QED BY <1>3, <5>1, <5>2, <5>3
      <4> QED BY <4>1, <4>2
    <3> QED BY <3>1, <3>2
  <2>3. CASE ~ (i <= k)
    <3>1. PICK j : j = i + 1
      OBVIOUS
    <3>2. i - k \in 1..m /\ ~ (j <= k) /\ j - k = (i - k) + 1 /\ j \in 1..(k + m + 1)
      BY <1>2, <2>1, <2>3, <3>1
    <3>3. e[i] = d[i - k] /\ t[i] = list[i - k]
      BY <1>6, <1>8, <2>1, <2>3
    <3>4. e[j] = d[j - k]
      BY <1>8, <3>2
    <3>5. e[j] = d[(i - k) + 1]
      BY <3>2, <3>4
    <3>6. d[i - k] = IF list[i - k].op = "leave" THEN d[(i - k) + 1] + 1 ELSE d[(i - k) + 1]
      BY <1>3, <3>2
    <3> QED BY <3>1, <3>3, <3>5, <3>6
  <2> QED BY <2>2, <2>3
<1>12. Nested(t, n)
  BY <1>6, <1>8, <1>9, <1>10, <1>11 DEF Nested
<1> QED BY <1>5, <1>12

LEMMA NestedLeave ==
  ASSUME NEW S, NEW p \in S, p.op = "leave", NEW list \in Seq(S), NEW n \in Nat, Nested(list, n)
  PROVE  Nested(<<p>> \o list, n + 1)
<1>1. PICK m : m = Len(list)
  OBVIOUS
<1>2. m \in Nat
  BY <1>1
<1>3. PICK d \in [1..(m + 1) -> Nat] :
         /\ d[1] = n /\ d[m + 1] = 0
         /\ \A i \in 1..m : d[i] = IF list[i].op = "leave" THEN d[i + 1] + 1 ELSE d[i + 1]
  BY <1>1 DEF Nested
<1>5. PICK t : t = <<p>> \o list
  OBVIOUS
<1>6. Len(t) = m + 1 /\ \A i \in 1..(m + 1) : t[i] = IF i = 1 THEN p ELSE list[i - 1]
  BY <1>1, <1>2, <1>5
<1>7. PICK e : e = [i \in 1..(m + 2) |-> IF i = 1 THEN n + 1 ELSE d[i - 1]]
  OBVIOUS
<1>8. /\ e \in [1..(m + 2) -> Nat]
      /\ \A i \in 1..(m + 2) : e[i] = IF i = 1 THEN n + 1 ELSE d[i - 1]
  <2>1. ASSUME NEW i \in 1..(m + 2), ~ (i = 1) PROVE i - 1 \in 1..(m + 1)
    BY <1>2, <2>1
  <2> QED BY <1>3, <1>7, <2>1
<1>9. e[1] = n + 1 /\ e[(m + 1) + 1] = 0
  <2>1. PICK j : j = (m + 1) + 1
    OBVIOUS
  <2>2. j \in 1..(m + 2) /\ j # 1 /\ j - 1 = m + 1 /\ 1 \in 1..(m + 2)
    BY <1>2, <2>1
  <2>3. e[j] = d[j - 1] /\ e[1] = n + 1
    BY <1>8, <2>2
  <2> QED BY <1>3, <2>1, <2>2, <2>3
<1>11. ASSUME NEW i \in 1..(m + 1)
       PROVE  e[i] = IF t[i].op = "leave" THEN e[i + 1] + 1 ELSE e[i + 1]
  <2>1. i \in 1..(m + 2) /\ i + 1 \in 1..(m + 2) /\ i + 1 # 1 /\ i + 1 - 1 = i
    BY <1>2
  <2>2. e[i + 1] = d[i]
    BY <1>8, <2>1
  <2>3. CASE i = 1
    BY <1>3, <1>6, <1>8, <2>1, <2>2, <2>3
  <2>4. CASE i # 1
    <3>1. i - 1 \in 1..m /\ (i - 1) + 1 = i
      BY <1>2, <2>4
    <3>2. e[i] = d[i - 1] /\ t[i] = list[i - 1]
      BY <1>6, <1>8, <2>1, <2>4
    <3>3. d[i - 1] = IF list[i - 1].op = "leave" THEN d[(i - 1) + 1] + 1 ELSE d[(i - 1) + 1]
      BY <1>3, <3>1
    <3> QED BY <2>2, <3>1, <3>2, <3>3
  <2> QED BY <2>3, <2>4
<1>12. Nested(t, n + 1)
  <2>1. Len(t) + 1 = m + 2 /\ Len(t) = m + 1
    BY <1>2, <1>6
  <2>2. /\ e \in [1..(Len(t) + 1) -> Nat] /\ e[1] = n + 1 /\ e[Len(t) + 1] = 0
        /\ \A i \in 1..Len(t) : e[i] = IF t[i].op = "leave" THEN e[i + 1] + 1 ELSE e[i + 1]
    BY Zenon, <1>8, <1>9, <1>11, <2>1
  <2> QED BY <2>2 DEF Nested
<1> QED BY <1>5, <1>12

-----------------------------------------------------------------------------
(* Recursion *)

\* A natural number is below another by a well-founded relation.
LEMMA NaturalOrder == \E R : IsWellFoundedOn(R, Nat) /\ \A a, b \in Nat : a < b => <<a, b>> \in R
<1>1. \A a, b \in Nat : a < b => <<a, b>> \in OpToRel(<, Nat)
  BY DEF OpToRel
<1> QED BY Zenon, <1>1, NatLessThanWellFounded

\* A set of naturals with a member has a least one,
LEMMA LeastOf ==
  ASSUME NEW T \in SUBSET Nat, T # {}
  PROVE  \E m \in T : \A k \in T : m <= k
<1>1. PICK R : IsWellFoundedOn(R, Nat) /\ \A a, b \in Nat : a < b => <<a, b>> \in R
  BY NaturalOrder
<1>2. IsWellFoundedOn(R, Nat)
  BY <1>1
<1>3. T \subseteq Nat
  OBVIOUS
<1>4. PICK x \in T : \A y \in T : ~ (<<y, x>> \in R)
  BY Zenon, <1>2, <1>3, WFMin
<1>5. ASSUME NEW k \in T PROVE x <= k
  <2>1. k \in Nat /\ x \in Nat
    OBVIOUS
  <2>2. k < x => <<k, x>> \in R
    BY <1>1, <2>1
  <2> QED BY <1>4, <2>1, <2>2
<1> QED BY <1>5

\* and, if it is bounded, a greatest one.
LEMMA GreatestOf ==
  ASSUME NEW n \in Nat, NEW T \in SUBSET (0..n), T # {}
  PROVE  \E m \in T : \A k \in T : k <= m
<1> DEFINE U == {n - k : k \in T}
<1>1. U \in SUBSET Nat /\ U # {}
  <2>1. \A k \in T : k \in 0..n /\ n - k \in Nat
    OBVIOUS
  <2> QED BY <2>1
<1>2. PICK u \in U : \A k \in U : u <= k
  BY <1>1, LeastOf, Zenon
<1>3. PICK m \in T : u = n - m
  OBVIOUS
<1>4. ASSUME NEW k \in T PROVE k <= m
  <2>1. n - k \in U /\ n - m \in U
    OBVIOUS
  <2>2. u <= n - k
    BY <1>2, <2>1
  <2>3. k \in 0..n /\ m \in 0..n
    OBVIOUS
  <2> HIDE DEF U
  <2> QED BY <1>3, <2>2, <2>3
<1> QED BY <1>4

\* Every set of members of P has one before which R puts no other.
FirstsIn(P, R) == \A T \in SUBSET P : T # {} => \E x \in T : \A y \in T : <<y, x>> \notin R

\* Step gives a value from those of a function at the members of P that R puts before one.
Recursive(P, R, V, Step) ==
  /\ \A f \in [P -> V] : \A p \in P : Step[<<f, p>>] \in V
  /\ \A f, h \in [P -> V] : \A p \in P :
       (\A q \in P : <<q, p>> \in R => f[q] = h[q]) => Step[<<f, p>>] = Step[<<h, p>>]

\* A function on P that is defined by recursion: Step gives its value at a member of P from
\* its values at those that R puts before it, and every set of members of P has a first one.
LEMMA RecursionSolved ==
  ASSUME NEW P, NEW R, FirstsIn(P, R), NEW V, NEW v \in V, NEW Step, Recursive(P, R, V, Step)
  PROVE  \E f \in [P -> V] : \A p \in P : f[p] = Step[<<f, p>>]
<1>10. \A T \in SUBSET P : T # {} => \E x \in T : \A y \in T : <<y, x>> \notin R
  BY DEF FirstsIn
<1>11. /\ \A f \in [P -> V] : \A p \in P : Step[<<f, p>>] \in V
       /\ \A f, h \in [P -> V] : \A p \in P :
            (\A q \in P : <<q, p>> \in R => f[q] = h[q]) => Step[<<f, p>>] = Step[<<h, p>>]
  BY DEF Recursive
<1> DEFINE Attempt(D, f) ==
             /\ D \in SUBSET P /\ \A p \in D : \A q \in P : <<q, p>> \in R => q \in D
             /\ f \in [P -> V] /\ \A p \in D : f[p] = Step[<<f, p>>]
           Solved(D) == \E f : Attempt(D, f)
           Reached == {p \in P : \E D : Solved(D) /\ p \in D}
           valueAt(p) == CHOOSE w : \E D, f : Attempt(D, f) /\ p \in D /\ w = f[p]
           g == [p \in P |-> IF p \in Reached THEN valueAt(p) ELSE v]
<1>1. ASSUME NEW D, NEW f, Attempt(D, f), NEW E, NEW h, Attempt(E, h), NEW p \in D, p \in E
      PROVE  f[p] = h[p]
  <2> DEFINE T == {q \in P : q \in D /\ q \in E /\ f[q] # h[q]}
  <2> SUFFICES ASSUME p \in T PROVE FALSE
    BY <1>1
  <2>1. PICK x \in T : \A y \in T : <<y, x>> \notin R
    BY <1>10
  <2>2. \A q \in P : <<q, x>> \in R => f[q] = h[q]
    BY <1>1, <2>1
  <2>3. f[x] = Step[<<f, x>>] /\ h[x] = Step[<<h, x>>] /\ f[x] # h[x] /\ x \in P
    BY <1>1
  <2> QED BY <1>1, <1>11, <2>2, <2>3
<1>2. ASSUME NEW D, NEW f, Attempt(D, f), NEW p \in D PROVE p \in Reached /\ g[p] = f[p]
  <2>1. p \in P /\ p \in Reached
    BY <1>2
  <2>2. \E w : \E E, h : Attempt(E, h) /\ p \in E /\ w = h[p]
    BY <1>2
  <2>3. PICK E, h : Attempt(E, h) /\ p \in E /\ valueAt(p) = h[p]
    <3> HIDE DEF Attempt
    <3> QED BY <2>2
  <2>4. h[p] = f[p]
    <3> HIDE DEF Attempt
    <3> QED BY <1>1, <1>2, <2>3
  <2>5. g[p] = valueAt(p)
    <3> HIDE DEF Reached, valueAt
    <3> QED BY <2>1
  <2> QED BY <2>1, <2>3, <2>4, <2>5
<1>3. ASSUME NEW p \in Reached PROVE \E D, f : Attempt(D, f) /\ p \in D
  BY <1>3
<1>4. g \in [P -> V]
  <2> SUFFICES ASSUME NEW p \in P PROVE (IF p \in Reached THEN valueAt(p) ELSE v) \in V
    OBVIOUS
  <2>1. CASE p \in Reached
    <3>1. PICK D, f : Attempt(D, f) /\ p \in D
      BY <1>3, <2>1
    <3>2. g[p] = f[p] /\ f[p] \in V
      <4>1. f[p] \in V
        BY <3>1
      <4> HIDE DEF Attempt, g
      <4> QED BY <1>2, <3>1, <4>1
    <3>3. g[p] = valueAt(p)
      <4> HIDE DEF Reached, valueAt
      <4> QED BY <2>1
    <3> HIDE DEF Reached, valueAt, g
    <3> QED BY <2>1, <3>2, <3>3
  <2>2. CASE p \notin Reached
    BY <2>2
  <2> QED BY <2>1, <2>2
<1>5. Attempt(Reached, g)
  <2>1. ASSUME NEW p \in Reached PROVE (\A q \in P : <<q, p>> \in R => q \in Reached) /\ g[p] = Step[<<g, p>>]
    <3>1. PICK D, f : Attempt(D, f) /\ p \in D
      BY <1>3
    <3>2. \A q \in D : q \in Reached /\ g[q] = f[q]
      <4> HIDE DEF Attempt, g, Reached
      <4> QED BY <1>2, <3>1
    <3>3. p \in P /\ f \in [P -> V] /\ f[p] = Step[<<f, p>>] /\ \A q \in P : <<q, p>> \in R => q \in D
      BY <3>1
    <3> HIDE DEF Attempt, g, Reached
    <3>4. Step[<<g, p>>] = Step[<<f, p>>]
      BY <1>11, <1>4, <3>2, <3>3
    <3> QED BY <3>1, <3>2, <3>3, <3>4
  <2>2. Reached \in SUBSET P
    OBVIOUS
  <2> HIDE DEF g, Reached
  <2> QED BY <1>4, <2>1, <2>2
<1> HIDE DEF g
<1>6. Reached = P
  <2> SUFFICES ASSUME P \ Reached # {} PROVE FALSE
    OBVIOUS
  <2>1. PICK x \in P \ Reached : \A y \in P \ Reached : <<y, x>> \notin R
    <3> DEFINE T == P \ Reached
    <3>1. T \in SUBSET P
      OBVIOUS
    <3> HIDE DEF T
    <3>2. T # {} => \E x \in T : \A y \in T : <<y, x>> \notin R
      BY <1>10, <3>1
    <3> USE DEF T
    <3> HIDE DEF Reached
    <3> QED BY <3>2
  <2>2. PICK h, D : h = [g EXCEPT ![x] = Step[<<g, x>>]] /\ D = Reached \cup {x}
    OBVIOUS
  <2>3. Attempt(D, h)
    <3>1. Step[<<g, x>>] \in V /\ x \in P
      BY <1>11, <1>4, <2>1
    <3>2. h \in [P -> V] /\ h[x] = Step[<<g, x>>] /\ \A q \in P : q # x => h[q] = g[q]
      BY <1>4, <2>2, <3>1
    <3>3. D \in SUBSET P /\ x \notin Reached
      BY <2>1, <2>2
    <3>4. \A p \in Reached : g[p] = Step[<<g, p>>] /\ p \in P /\ \A q \in P : <<q, p>> \in R => q \in Reached
      BY <1>5
    <3>5. \A q \in P : <<q, x>> \in R => q \in Reached
      BY <2>1
    <3> HIDE DEF Reached
    <3>6. \A p \in D : \A q \in P : <<q, p>> \in R => q \in Reached
      BY <2>2, <3>4, <3>5
    <3>7. \A p \in D : Step[<<h, p>>] = Step[<<g, p>>]
      BY <1>11, <1>4, <3>2, <3>3, <3>6
    <3>8. \A p \in D : h[p] = Step[<<h, p>>]
      BY <2>2, <3>2, <3>3, <3>4, <3>7
    <3> QED BY <2>2, <3>2, <3>3, <3>6, <3>8
  <2>4. x \in D
    BY <2>2
  <2> HIDE DEF Attempt, Reached
  <2> QED BY <1>2, <2>1, <2>3, <2>4
<1>7. \A p \in Reached : g[p] = Step[<<g, p>>]
  BY <1>5
<1> HIDE DEF Reached
<1> QED BY <1>4, <1>6, <1>7
=============================================================================
