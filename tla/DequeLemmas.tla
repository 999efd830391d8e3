---------------------------- MODULE DequeLemmas ----------------------------
(* What the operations on such deques do to their length and elements *)
EXTENDS Deques, SequenceTheorems, FiniteSetTheorems, TLAPS

\* Removing one position keeps the others, in order.
LEMMA RemoveAtFacts ==
  ASSUME NEW S, NEW s \in Seq(S), NEW i \in 1..Len(s)
  PROVE  /\ RemoveAt(s, i) \in Seq(S)
         /\ Len(RemoveAt(s, i)) = Len(s) - 1
         /\ \A k \in 1..Len(s) - 1 :
              RemoveAt(s, i)[k] = IF k < i THEN s[k] ELSE s[k + 1]
<1> DEFINE front == SubSeq(s, 1, i - 1)
           back == SubSeq(s, i + 1, Len(s))
           n == Len(s)
<1>1. n \in Nat /\ i \in 1..n
  BY LenProperties
<1>2. /\ front \in Seq(S) /\ Len(front) = i - 1
      /\ \A k \in 1..i - 1 : front[k] = s[k]
  BY SubSeqProperties
<1>3. /\ back \in Seq(S) /\ Len(back) = n - i
      /\ \A k \in 1..n - i : back[k] = s[i + k]
  <2>1. CASE i = Len(s)
    BY <2>1, SubSeqProperties
  <2>2. CASE i < Len(s)
    BY <2>2, SubSeqProperties
  <2> QED BY <1>1, <2>1, <2>2
<1>4. RemoveAt(s, i) = front \o back
  BY DEF RemoveAt
<1> HIDE DEF front, back, n
<1>5. /\ front \o back \in Seq(S)
      /\ Len(front \o back) = n - 1
      /\ \A k \in 1..n - 1 :
           (front \o back)[k] = IF k <= i - 1 THEN front[k] ELSE back[k - (i - 1)]
  <2>1. /\ front \o back \in Seq(S)
        /\ Len(front \o back) = Len(front) + Len(back)
        /\ \A k \in 1..Len(front) + Len(back) :
             (front \o back)[k] = IF k <= Len(front) THEN front[k]
                                 ELSE back[k - Len(front)]
    <3>1. front \in Seq(S) /\ back \in Seq(S)
      BY <1>2, <1>3
    <3> QED BY ONLY <3>1, ConcatProperties
  <2>2. Len(front) = i - 1 /\ Len(front) + Len(back) = n - 1
    BY <1>1, <1>2, <1>3
  <2> QED BY <2>1, <2>2
<1>6. ASSUME NEW k \in 1..n - 1
      PROVE  (front \o back)[k] = IF k < i THEN s[k] ELSE s[k + 1]
  <2>1. CASE k < i
    BY <2>1, <1>1, <1>2, <1>5
  <2>2. CASE k >= i
    <3>1. k - (i - 1) \in 1..n - i /\ i + (k - (i - 1)) = k + 1
      BY <2>2, <1>1
    <3>2. back[k - (i - 1)] = s[k + 1]
      BY <3>1, <1>3
    <3> QED BY <2>2, <3>2, <1>1, <1>5
  <2>3. k < i \/ k >= i
    BY <1>1
  <2> QED BY <2>1, <2>2, <2>3, Zenon
<1>7. QED
  BY <1>4, <1>5, <1>6 DEF n


\* ... and takes exactly one element of an injective sequence away.
LEMMA RemoveAtInjective ==
  ASSUME NEW S, NEW s \in Seq(S), IsInjective(s), NEW i \in 1..Len(s)
  PROVE  /\ RemoveAt(s, i) \in Seq(S)
         /\ Len(RemoveAt(s, i)) = Len(s) - 1
         /\ IsInjective(RemoveAt(s, i))
         /\ Range(RemoveAt(s, i)) = Range(s) \ {s[i]}
<1> DEFINE w == RemoveAt(s, i)
           n == Len(s)
<1>1. /\ w \in Seq(S) /\ Len(w) = n - 1 /\ n \in Nat /\ i \in 1..n
      /\ \A k \in 1..n - 1 : w[k] = IF k < i THEN s[k] ELSE s[k + 1]
  BY RemoveAtFacts
<1>2. DOMAIN s = 1..n /\ DOMAIN w = 1..n - 1
  BY <1>1, LenProperties
<1>3. \A x, y \in 1..n : s[x] = s[y] => x = y
  BY <1>2 DEF IsInjective
<1> HIDE DEF w, n
<1>4. IsInjective(w)
  <2> SUFFICES ASSUME NEW a \in 1..n - 1, NEW b \in 1..n - 1, w[a] = w[b]
               PROVE  a = b
    BY <1>2 DEF IsInjective
  <2> QED BY <1>1, <1>3
<1>5. ASSUME NEW k \in 1..n - 1 PROVE w[k] \in Range(s) \ {s[i]}
  <2>1. \E m \in 1..n : m # i /\ w[k] = s[m]
    <3>1. CASE k < i
      BY <3>1, <1>1
    <3>2. CASE k >= i
      <4>1. k + 1 \in 1..n /\ k + 1 # i /\ w[k] = s[k + 1]
        BY <3>2, <1>1
      <4> QED BY <4>1
    <3> QED BY <1>1, <3>1, <3>2
  <2> QED BY <2>1, <1>1, <1>2, <1>3 DEF Range
<1>6. ASSUME NEW k \in 1..n, s[k] # s[i] PROVE s[k] \in Range(w)
  <2>1. \E m \in 1..n - 1 : w[m] = s[k]
    <3>1. CASE k < i
      BY <3>1, <1>1
    <3>2. CASE k > i
      <4>1. k - 1 \in 1..n - 1 /\ w[k - 1] = s[k]
        BY <3>2, <1>1
      <4> QED BY <4>1
    <3> QED BY <1>1, <3>1, <3>2, <1>6
  <2> QED BY <2>1, <1>2 DEF Range
<1>7. Range(w) = Range(s) \ {s[i]}
  BY <1>2, <1>5, <1>6 DEF Range
<1>8. QED
  BY <1>1, <1>4, <1>7 DEF w, n

\* Removing an element from a deque without repetition.
LEMMA WithoutFacts ==
  ASSUME NEW S, NEW s \in Seq(S), IsInjective(s), NEW e
  PROVE  /\ Without(s, e) \in Seq(S)
         /\ IsInjective(Without(s, e))
         /\ Range(Without(s, e)) = Range(s) \ {e}
         /\ e \in Range(s) => Len(Without(s, e)) = Len(s) - 1
<1>1. DOMAIN s = 1..Len(s)
  BY LenProperties
<1>2. CASE \E i \in 1..Len(s) : s[i] = e
  <2> DEFINE at == CHOOSE i \in 1..Len(s) : s[i] = e
  <2>1. at \in 1..Len(s) /\ s[at] = e
    BY <1>2
  <2>2. Without(s, e) = RemoveAt(s, at)
    BY <1>2 DEF Without
  <2> HIDE DEF at
  <2>3. /\ RemoveAt(s, at) \in Seq(S)
        /\ Len(RemoveAt(s, at)) = Len(s) - 1
        /\ IsInjective(RemoveAt(s, at))
        /\ Range(RemoveAt(s, at)) = Range(s) \ {s[at]}
    BY SMTT(30), <2>1, RemoveAtInjective
  <2> QED BY <2>1, <2>2, <2>3
<1>3. CASE ~\E i \in 1..Len(s) : s[i] = e
  BY <1>1, <1>3 DEF Without, Range
<1> QED BY <1>2, <1>3

\* Appending to a deque.
LEMMA AppendFacts ==
  ASSUME NEW S, NEW s \in Seq(S), NEW e \in S
  PROVE  /\ Append(s, e) \in Seq(S)
         /\ Len(Append(s, e)) = Len(s) + 1
         /\ Range(Append(s, e)) = Range(s) \cup {e}
         /\ IsInjective(s) /\ e \notin Range(s) => IsInjective(Append(s, e))
<1> DEFINE w == Append(s, e)
           n == Len(s)
<1>1. /\ w \in Seq(S) /\ n \in Nat /\ Len(w) = n + 1
      /\ \A i \in 1..n : w[i] = s[i]
      /\ w[n + 1] = e
  BY AppendProperties, LenProperties
<1>2. DOMAIN s = 1..n /\ DOMAIN w = 1..n + 1
  BY <1>1, LenProperties
<1> HIDE DEF w, n
<1>3. Range(w) = Range(s) \cup {e}
  <2>1. \A i \in 1..n + 1 : i \in 1..n \/ i = n + 1
    BY <1>1
  <2>2. 1..n \subseteq 1..n + 1 /\ n + 1 \in 1..n + 1
    BY <1>1
  <2> QED BY <1>1, <1>2, <2>1, <2>2 DEF Range
<1>4. ASSUME IsInjective(s), e \notin Range(s) PROVE IsInjective(w)
  <2> SUFFICES ASSUME NEW a \in 1..n + 1, NEW b \in 1..n + 1, w[a] = w[b]
               PROVE  a = b
    BY <1>2 DEF IsInjective
  <2>1. \A x, y \in 1..n : s[x] = s[y] => x = y
    BY <1>2, <1>4 DEF IsInjective
  <2>2. \A x \in 1..n : s[x] # e
    BY <1>2, <1>4 DEF Range
  <2> QED BY <1>1, <2>1, <2>2
<1> QED BY <1>1, <1>3, <1>4 DEF w, n

\* Taking the head of a deque without repetition.
LEMMA TailFacts ==
  ASSUME NEW S, NEW s \in Seq(S), IsInjective(s), s # <<>>
  PROVE  /\ Head(s) \in S /\ Head(s) \in Range(s)
         /\ Tail(s) \in Seq(S)
         /\ IsInjective(Tail(s))
         /\ Range(Tail(s)) = Range(s) \ {Head(s)}
<1> DEFINE w == Tail(s)
           n == Len(s)
<1>1. /\ w \in Seq(S) /\ n \in Nat /\ n > 0 /\ Len(w) = n - 1
      /\ \A i \in 1..n - 1 : w[i] = s[i + 1]
      /\ Head(s) = s[1] /\ s[1] \in S
  BY HeadTailProperties, LenProperties, EmptySeq, ElementOfSeq
<1>2. DOMAIN s = 1..n /\ DOMAIN w = 1..n - 1
  BY <1>1, LenProperties
<1>3. \A x, y \in 1..n : s[x] = s[y] => x = y
  BY <1>2 DEF IsInjective
<1> HIDE DEF w, n
<1>4. IsInjective(w)
  <2> SUFFICES ASSUME NEW a \in 1..n - 1, NEW b \in 1..n - 1, w[a] = w[b]
               PROVE  a = b
    BY <1>2 DEF IsInjective
  <2> QED BY <1>1, <1>3
<1>5. ASSUME NEW k \in 1..n - 1 PROVE w[k] \in Range(s) \ {s[1]}
  <2>1. k + 1 \in 1..n /\ k + 1 # 1 /\ 1 \in 1..n /\ w[k] = s[k + 1]
    BY <1>1
  <2> QED BY <2>1, <1>2, <1>3 DEF Range
<1>6. ASSUME NEW k \in 1..n, s[k] # s[1] PROVE s[k] \in Range(w)
  <2>1. k - 1 \in 1..n - 1 /\ w[k - 1] = s[k]
    BY <1>1, <1>6
  <2> QED BY <2>1, <1>2 DEF Range
<1>7. Range(w) = Range(s) \ {s[1]} /\ s[1] \in Range(s)
  <2>1. 1 \in 1..n
    BY <1>1
  <2> QED BY <2>1, <1>2, <1>5, <1>6 DEF Range
<1> QED BY <1>1, <1>4, <1>7 DEF w

\* Appending keeps the head, and makes one of an empty deque.
LEMMA AppendHead ==
  ASSUME NEW S, NEW s \in Seq(S), NEW e \in S
  PROVE  /\ Append(s, e) # <<>>
         /\ Head(Append(s, e)) = IF s = <<>> THEN e ELSE Head(s)
<1>1. /\ Append(s, e) \in Seq(S) /\ Len(s) \in Nat /\ Len(Append(s, e)) = Len(s) + 1
      /\ \A i \in 1..Len(s) : Append(s, e)[i] = s[i]
      /\ Append(s, e)[Len(s) + 1] = e
  BY AppendProperties, LenProperties
<1>2. Append(s, e) # <<>> /\ Head(Append(s, e)) = Append(s, e)[1]
  <2> DEFINE w == Append(s, e)
  <2>1. w \in Seq(S) /\ Len(w) > 0
    BY <1>1
  <2> HIDE DEF w
  <2>2. w # <<>> /\ Head(w) = w[1]
    BY <2>1, EmptySeq, HeadTailProperties
  <2> QED BY <2>2 DEF w
<1>3. s = <<>> => Len(s) = 0
  BY EmptySeq
<1>4. s # <<>> => Len(s) > 0 /\ Head(s) = s[1]
  BY <1>1, EmptySeq, HeadTailProperties
<1> QED BY <1>1, <1>2, <1>3, <1>4

\* Removing another element keeps the head.
LEMMA WithoutHead ==
  ASSUME NEW S, NEW s \in Seq(S), s # <<>>, NEW e, e # Head(s)
  PROVE  Without(s, e) # <<>> /\ Head(Without(s, e)) = Head(s)
<1>1. Len(s) \in Nat /\ Len(s) > 0 /\ Head(s) = s[1]
  BY LenProperties, EmptySeq, HeadTailProperties
<1>2. CASE \E i \in 1..Len(s) : s[i] = e
  <2> DEFINE at == CHOOSE i \in 1..Len(s) : s[i] = e
             w == RemoveAt(s, at)
  <2>1. at \in 1..Len(s) /\ s[at] = e
    BY <1>2
  <2>2. Without(s, e) = w
    BY <1>2 DEF Without
  <2> HIDE DEF at
  <2>3. at > 1
    BY <1>1, <2>1
  <2>4. /\ w \in Seq(S) /\ Len(w) = Len(s) - 1
        /\ \A k \in 1..Len(s) - 1 : w[k] = IF k < at THEN s[k] ELSE s[k + 1]
    BY <2>1, RemoveAtFacts
  <2> HIDE DEF w
  <2>5. Len(w) > 0 /\ w[1] = s[1]
    BY <1>1, <2>1, <2>3, <2>4
  <2>6. w # <<>> /\ Head(w) = w[1]
    BY <2>4, <2>5, EmptySeq, HeadTailProperties
  <2> QED BY <1>1, <2>2, <2>5, <2>6
<1>3. CASE ~\E i \in 1..Len(s) : s[i] = e
  BY <1>3 DEF Without
<1> QED BY <1>2, <1>3

\* The empty deque.
LEMMA EmptyFacts ==
  ASSUME NEW S, NEW s \in Seq(S)
  PROVE  /\ <<>> \in Seq(S) /\ IsInjective(<<>>) /\ Range(<<>>) = {}
         /\ s = <<>> <=> Range(s) = {}
<1>1. <<>> \in Seq(S) /\ Len(<<>>) = 0
  BY EmptySeq
<1>2. DOMAIN <<>> = {}
  BY <1>1
<1>3. s # <<>> => 1 \in DOMAIN s
  BY LenProperties, EmptySeq
<1> QED BY <1>1, <1>2, <1>3 DEF IsInjective, Range

\* A deque without repetition is as long as it has elements.
LEMMA LenIsCardinality ==
  ASSUME NEW S, NEW s \in Seq(S), IsInjective(s)
  PROVE  IsFiniteSet(Range(s)) /\ Cardinality(Range(s)) = Len(s)
<1>1. Len(s) \in Nat /\ DOMAIN s = 1..Len(s)
  BY LenProperties
<1>2. s \in Bijection(1..Len(s), Range(s))
  BY <1>1 DEF Bijection, Injection, Surjection, IsInjective, Range
<1>3. ExistsBijection(1..Len(s), Range(s))
  BY <1>2 DEF ExistsBijection
<1>4. Cardinality(Range(s)) = Len(s)
  BY <1>1, <1>3, FS_CountingElements
<1> QED BY <1>1, <1>3, <1>4, FS_NatBijection

\* The back of a deque split at n.
LEMMA BackFacts ==
  ASSUME NEW S, NEW s \in Seq(S), NEW n \in 0..Len(s)
  PROVE  /\ SubSeq(s, n + 1, Len(s)) \in Seq(S)
         /\ Len(SubSeq(s, n + 1, Len(s))) = Len(s) - n
         /\ \A k \in 1..Len(s) - n : SubSeq(s, n + 1, Len(s))[k] = s[n + k]
<1> DEFINE back == SubSeq(s, n + 1, Len(s))
           m == Len(s)
<1>0. m \in Nat /\ n \in Nat /\ n <= m /\ DOMAIN s = 1..m
      /\ \A i \in 1..m : s[i] \in S
  BY LenProperties, ElementOfSeq
<1>1. n + 1 \in Int /\ m \in Int /\ \A i \in n + 1..m : s[i] \in S
  BY <1>0
<1> HIDE DEF m
<1>2. LET w == SubSeq(s, n + 1, m)
      IN /\ w \in Seq(S)
         /\ Len(w) = IF n + 1 <= m THEN m - (n + 1) + 1 ELSE 0
         /\ \A i \in 1..m - (n + 1) + 1 : w[i] = s[n + 1 + i - 1]
  BY ONLY <1>1, SubSeqProperties
<1>3. m - (n + 1) + 1 = m - n /\ \A i \in Int : n + 1 + i - 1 = n + i
  BY <1>0
<1>4. back = SubSeq(s, n + 1, m)
  BY DEF m
<1> HIDE DEF back
<1>5. Len(back) = m - n
  <2>1. Len(back) = IF n + 1 <= m THEN m - (n + 1) + 1 ELSE 0
    BY <1>2, <1>4, Zenon
  <2>2. (IF n + 1 <= m THEN m - (n + 1) + 1 ELSE 0) = m - n
    BY <1>0
  <2> QED BY <2>1, <2>2
<1>6. \A k \in 1..m - n : back[k] = s[n + k]
  BY <1>0, <1>2, <1>3, <1>4
<1> QED BY <1>2, <1>4, <1>5, <1>6 DEF back, m

\* Splitting a deque without repetition at n.
LEMMA SplitFacts ==
  ASSUME NEW S, NEW s \in Seq(S), IsInjective(s), NEW n \in 0..Len(s)
  PROVE  /\ Range(SubSeq(s, 1, n)) = {s[i] : i \in 1..n}
         /\ SubSeq(s, n + 1, Len(s)) \in Seq(S)
         /\ IsInjective(SubSeq(s, n + 1, Len(s)))
         /\ Range(SubSeq(s, n + 1, Len(s))) = Range(s) \ Range(SubSeq(s, 1, n))
<1> DEFINE front == SubSeq(s, 1, n)
           back == SubSeq(s, n + 1, Len(s))
           m == Len(s)
<1>1. m \in Nat /\ n \in Nat /\ n <= m /\ DOMAIN s = 1..m
      /\ \A i \in 1..m : s[i] \in S
  BY LenProperties, ElementOfSeq
<1>2. /\ front \in Seq(S) /\ Len(front) = n
      /\ \A k \in 1..n : front[k] = s[k]
  BY <1>1, SubSeqProperties
<1>3. /\ back \in Seq(S) /\ Len(back) = m - n
      /\ \A k \in 1..m - n : back[k] = s[n + k]
  BY BackFacts
<1>4. DOMAIN front = 1..n /\ DOMAIN back = 1..m - n
  BY <1>2, <1>3, LenProperties
<1> HIDE DEF front, back, m
<1>5. Range(front) = {s[i] : i \in 1..n}
  BY <1>2, <1>4 DEF Range
<1>6. \A a, b \in 1..m : s[a] = s[b] => a = b
  BY <1>1 DEF IsInjective
<1>7. IsInjective(back)
  <2> SUFFICES ASSUME NEW a \in 1..m - n, NEW b \in 1..m - n, back[a] = back[b]
               PROVE  a = b
    BY <1>4 DEF IsInjective
  <2>1. n + a \in 1..m /\ n + b \in 1..m
    BY <1>1
  <2>2. s[n + a] = s[n + b]
    BY <1>3
  <2>3. n + a = n + b
    BY <2>1, <2>2, <1>6
  <2> QED BY <2>3, <1>1
<1>8. Range(back) = {s[i] : i \in n + 1..m}
  <2>1. \A k \in 1..m - n : n + k \in n + 1..m
    BY <1>1
  <2>2. \A i \in n + 1..m : i - n \in 1..m - n /\ n + (i - n) = i
    BY <1>1
  <2>3. ASSUME NEW i \in n + 1..m PROVE s[i] \in Range(back)
    <3>1. i - n \in 1..m - n /\ back[i - n] = s[i]
      BY <2>2, <1>3
    <3> QED BY <3>1, <1>4 DEF Range
  <2>4. ASSUME NEW x \in Range(back) PROVE x \in {s[i] : i \in n + 1..m}
    BY <2>1, <1>3, <1>4 DEF Range
  <2> QED BY <2>3, <2>4
<1>9. Range(back) = Range(s) \ Range(front)
  <2>1. \A i \in 1..m : i \in 1..n \/ i \in n + 1..m
    BY <1>1
  <2>2. 1..n \subseteq 1..m /\ n + 1..m \subseteq 1..m /\ (1..n) \cap (n + 1..m) = {}
    BY <1>1
  <2>3. Range(s) = {s[i] : i \in 1..m}
    BY <1>1 DEF Range
  <2> QED BY <1>5, <1>6, <1>8, <2>1, <2>2, <2>3
<1> QED BY <1>3, <1>5, <1>7, <1>9 DEF front, back, m


-----------------------------------------------------------------------------
(* What they do to the order of the elements *)

\* Whoever stands before another is an element, as is the other.
LEMMA BeforeFacts ==
  ASSUME NEW S, NEW s \in Seq(S), NEW a, NEW b, Before(s, a, b)
  PROVE  a \in Range(s) /\ b \in Range(s)
<1>1. DOMAIN s = 1..Len(s)
  BY LenProperties
<1> QED BY <1>1 DEF Before, Range

\* The order of some of the elements is that of more of them, restricted.
LEMMA OrderRestricts ==
  ASSUME NEW s, NEW S, NEW T \in SUBSET S
  PROVE  /\ Order(s, T) = Order(s, S) \cap (T \X T)
         /\ Order(s, S) \cap (S \X S) = Order(s, S)
BY DEF Order

\* The newcomer stands behind everybody.
LEMMA OrderAppend ==
  ASSUME NEW S, NEW s \in Seq(S), NEW e \in S, e \notin Range(s),
         NEW T, T \subseteq Range(s)
  PROVE  Order(Append(s, e), T \cup {e}) = Order(s, T) \cup (T \X {e})
<1> DEFINE w == Append(s, e)
           n == Len(s)
<1>1. /\ n \in Nat /\ Len(w) = n + 1 /\ w[n + 1] = e
      /\ \A i \in 1..n : w[i] = s[i]
      /\ DOMAIN s = 1..n
  BY AppendProperties, LenProperties
<1>2. \A i \in 1..n : s[i] # e
  BY <1>1 DEF Range
<1> HIDE DEF w, n
<1>3. ASSUME NEW a, NEW b, Before(w, a, b)
      PROVE  a \in Range(s) /\ (b = e \/ Before(s, a, b))
  <2>1. PICK i \in 1..n + 1, k \in 1..n + 1 : i < k /\ w[i] = a /\ w[k] = b
    BY <1>1, <1>3 DEF Before
  <2>2. i \in 1..n /\ (k \in 1..n \/ k = n + 1)
    BY <1>1, <2>1
  <2>3. a = s[i] /\ a \in Range(s)
    BY <1>1, <2>1, <2>2 DEF Range
  <2>4. k \in 1..n => Before(s, a, b)
    BY <1>1, <2>1, <2>2 DEF Before, n
  <2> QED BY <1>1, <2>1, <2>2, <2>3, <2>4
<1>4. ASSUME NEW a, NEW b, Before(s, a, b)
      PROVE  Before(w, a, b)
  <2>1. PICK i \in 1..n, k \in 1..n : i < k /\ s[i] = a /\ s[k] = b
    BY <1>4 DEF Before, n
  <2>2. i \in 1..n + 1 /\ k \in 1..n + 1 /\ w[i] = a /\ w[k] = b
    BY <1>1, <2>1
  <2> QED BY <1>1, <2>1, <2>2 DEF Before
<1>5. ASSUME NEW a \in T PROVE Before(w, a, e)
  <2>1. PICK i \in 1..n : s[i] = a
    BY <1>1 DEF Range
  <2>2. i \in 1..n + 1 /\ n + 1 \in 1..n + 1 /\ i < n + 1 /\ w[i] = a
    BY <1>1, <2>1
  <2> QED BY <1>1, <2>2 DEF Before
<1>6. ASSUME NEW a, NEW b, Before(s, a, b) PROVE a # e /\ b # e
  BY <1>6, BeforeFacts
<1>7. ASSUME NEW p \in Order(w, T \cup {e}) PROVE p \in Order(s, T) \cup (T \X {e})
  <2>1. /\ p \in (T \cup {e}) \X (T \cup {e}) /\ Before(w, p[1], p[2])
    BY <1>7 DEF Order
  <2>2. p[1] \in T /\ p = <<p[1], p[2]>>
    BY <1>3, <2>1
  <2>3. CASE p[2] = e
    BY <2>2, <2>3
  <2>4. CASE p[2] # e
    <3>1. p[2] \in T /\ Before(s, p[1], p[2])
      BY <1>3, <2>1, <2>4
    <3> QED BY <2>1, <2>2, <3>1 DEF Order
  <2> QED BY <2>3, <2>4
<1>8. ASSUME NEW p \in Order(s, T) PROVE p \in Order(w, T \cup {e})
  <2>1. p \in T \X T /\ Before(s, p[1], p[2])
    BY <1>8 DEF Order
  <2> QED BY <1>4, <2>1 DEF Order
<1>9. ASSUME NEW p \in T \X {e} PROVE p \in Order(w, T \cup {e})
  <2>1. p[1] \in T /\ p[2] = e /\ p \in (T \cup {e}) \X (T \cup {e})
    BY <1>9
  <2>2. Before(w, p[1], p[2])
    BY <1>5, <2>1
  <2> QED BY <2>1, <2>2 DEF Order
<1> QED BY <1>7, <1>8, <1>9 DEF w

\* Who leaves changes nothing between the others.
LEMMA OrderWithout ==
  ASSUME NEW S, NEW s \in Seq(S), IsInjective(s), NEW e, NEW T, e \notin T
  PROVE  Order(Without(s, e), T) = Order(s, T)
<1>1. CASE \E i \in 1..Len(s) : s[i] = e
  <2> DEFINE at == CHOOSE i \in 1..Len(s) : s[i] = e
             w == RemoveAt(s, at)
             n == Len(s)
  <2>1. at \in 1..n /\ s[at] = e
    BY <1>1
  <2>2. Without(s, e) = w
    BY <1>1 DEF Without
  <2> HIDE DEF at
  <2>3. /\ Len(w) = n - 1 /\ n \in Nat
        /\ \A k \in 1..n - 1 : w[k] = IF k < at THEN s[k] ELSE s[k + 1]
    BY <2>1, RemoveAtFacts, LenProperties
  <2> HIDE DEF w, n
  <2>4. ASSUME NEW a \in T, NEW b \in T, Before(w, a, b) PROVE Before(s, a, b)
    <3>1. PICK i \in 1..n - 1, k \in 1..n - 1 : i < k /\ w[i] = a /\ w[k] = b
      BY <2>3, <2>4 DEF Before
    <3> DEFINE here(x) == IF x < at THEN x ELSE x + 1
    <3>2. here(i) \in 1..n /\ here(k) \in 1..n /\ here(i) < here(k)
      BY <2>1, <2>3, <3>1
    <3>3. s[here(i)] = a /\ s[here(k)] = b
      BY <2>3, <3>1
    <3> HIDE DEF here
    <3> QED BY <3>2, <3>3 DEF Before, n
  <2>5. ASSUME NEW a \in T, NEW b \in T, Before(s, a, b) PROVE Before(w, a, b)
    <3>1. PICK i \in 1..n, k \in 1..n : i < k /\ s[i] = a /\ s[k] = b
      BY <2>5 DEF Before, n
    <3>2. i # at /\ k # at
      BY <2>1, <3>1
    <3> DEFINE there(x) == IF x < at THEN x ELSE x - 1
    <3>3. there(i) \in 1..n - 1 /\ there(k) \in 1..n - 1 /\ there(i) < there(k)
      BY <2>1, <2>3, <3>1, <3>2
    <3>4. w[there(i)] = a /\ w[there(k)] = b
      <4>1. ASSUME NEW x \in 1..n, x # at PROVE w[there(x)] = s[x]
        <5>1. there(x) \in 1..n - 1
          BY <2>1, <2>3, <4>1
        <5>2. CASE x < at
          BY <2>3, <5>1, <5>2
        <5>3. CASE x > at
          <6>1. there(x) = x - 1 /\ ~(x - 1 < at) /\ (x - 1) + 1 = x
            BY <2>1, <2>3, <5>3
          <6> QED BY <2>3, <5>1, <6>1
        <5> QED BY <2>1, <4>1, <5>2, <5>3
      <4> QED BY <3>1, <3>2, <4>1
    <3> HIDE DEF there
    <3> QED BY <2>3, <3>3, <3>4 DEF Before
  <2> QED BY <2>2, <2>4, <2>5 DEF Order
<1>2. CASE ~\E i \in 1..Len(s) : s[i] = e
  BY <1>2 DEF Without
<1> QED BY <1>1, <1>2

\* Splitting a deque: the back keeps its order, and nobody of the back stood
\* before somebody of the front.
LEMMA OrderBack ==
  ASSUME NEW S, NEW s \in Seq(S), IsInjective(s), NEW n \in 0..Len(s),
         NEW T, T \cap Range(SubSeq(s, 1, n)) = {}
  PROVE  /\ Order(SubSeq(s, n + 1, Len(s)), T) = Order(s, T)
         /\ \A a \in T, b \in Range(SubSeq(s, 1, n)) : ~Before(s, a, b)
<1> DEFINE front == SubSeq(s, 1, n)
           back == SubSeq(s, n + 1, Len(s))
           m == Len(s)
<1>1. m \in Nat /\ n \in Nat /\ n <= m /\ DOMAIN s = 1..m
      /\ \A i \in 1..m : s[i] \in S
  BY LenProperties, ElementOfSeq
<1>2. Range(front) = {s[i] : i \in 1..n}
  BY SplitFacts
<1>3. /\ Len(back) = m - n
      /\ \A k \in 1..m - n : back[k] = s[n + k]
  BY BackFacts
<1> HIDE DEF front, back, m
<1>4. ASSUME NEW a, NEW b, Before(back, a, b) PROVE Before(s, a, b)
  <2>1. PICK i \in 1..m - n, k \in 1..m - n : i < k /\ back[i] = a /\ back[k] = b
    BY <1>3, <1>4 DEF Before
  <2>2. n + i \in 1..m /\ n + k \in 1..m /\ n + i < n + k /\ s[n + i] = a /\ s[n + k] = b
    BY <1>1, <1>3, <2>1
  <2> QED BY <2>2 DEF Before, m
<1>5. ASSUME NEW a \in T, NEW b \in T, Before(s, a, b) PROVE Before(back, a, b)
  <2>1. PICK i \in 1..m, k \in 1..m : i < k /\ s[i] = a /\ s[k] = b
    BY <1>5 DEF Before, m
  <2>2. i \notin 1..n /\ k \notin 1..n
    BY <1>2, <2>1 DEF front
  <2>3. /\ i - n \in 1..m - n /\ k - n \in 1..m - n /\ i - n < k - n
        /\ n + (i - n) = i /\ n + (k - n) = k
    BY <1>1, <2>1, <2>2
  <2>4. back[i - n] = a /\ back[k - n] = b
    BY <1>3, <2>1, <2>3
  <2> QED BY <1>3, <2>3, <2>4 DEF Before
<1>6. ASSUME NEW a \in T, NEW b \in Range(front), Before(s, a, b) PROVE FALSE
  <2>1. PICK i \in 1..m, k \in 1..m : i < k /\ s[i] = a /\ s[k] = b
    BY <1>6 DEF Before, m
  <2>2. PICK j \in 1..n : s[j] = b
    BY <1>2
  <2>3. j \in 1..m
    BY <1>1
  <2>4. k = j
    BY <1>1, <2>1, <2>2, <2>3 DEF IsInjective
  <2>5. i \in 1..n
    BY <1>1, <2>1, <2>4
  <2>6. s[i] \in Range(front)
    BY <1>2, <2>5
  <2> QED BY <2>1, <2>6 DEF front
<1> QED BY <1>4, <1>5, <1>6 DEF Order, front, back, m

\* Nobody stands before the head of a deque.
LEMMA HeadFirst ==
  ASSUME NEW S, NEW s \in Seq(S), IsInjective(s), s # <<>>, NEW a
  PROVE  ~Before(s, a, Head(s))
<1>1. /\ Len(s) \in Nat /\ Len(s) > 0 /\ Head(s) = s[1] /\ DOMAIN s = 1..Len(s)
  BY LenProperties, EmptySeq, HeadTailProperties
<1>2. SUFFICES ASSUME NEW i \in 1..Len(s), NEW k \in 1..Len(s), i < k, s[k] = Head(s)
               PROVE  FALSE
  BY DEF Before
<1>3. k = 1
  BY <1>1, <1>2 DEF IsInjective
<1> QED BY <1>1, <1>2, <1>3
=============================================================================
